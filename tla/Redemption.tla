---------------------------- MODULE Redemption ----------------------------
(***************************************************************************)
(* RCH redemptions: treasury-redemption.mjs and redemption.mjs, the        *)
(* redemptions table of store.mjs, and the 30-second tick of server.mjs.   *)
(*                                                                         *)
(* A wallet redeems RCH on chain; its owner submits the transaction hash;  *)
(* the service credits the account when the redemption is final.  Every    *)
(* RPC read and every store call is an await, so submissions, the tick and *)
(* reorganizations interleave between any two of them.                     *)
(***************************************************************************)
EXTENDS Chain, FiniteSetsExt

CONSTANTS
    Clients,        \* concurrent submissions
    Ticker,         \* the tick; `reconciling` lets one run at a time
    Treasury,       \* treasury mode checks finality before it judges, and again
    Worth,          \* Worth[r]: the credit r was quoted
    Budget,         \* creditBudgetUsdMicros of the account
    LaggingRpc,     \* an RPC may answer from an orphaned block
    MaxOutages,     \* bound: failed calls and restarts
    NoBlock, NoRedemption

ASSUME RedemptionAssumption ==
    /\ Ticker \notin Clients
    /\ Treasury \in BOOLEAN /\ LaggingRpc \in BOOLEAN
    /\ Budget \in Nat /\ MaxOutages \in Nat
    /\ Worth \in [Redemptions -> Nat]
    /\ NoBlock \notin Block
    /\ NoRedemption \notin Redemptions

VARIABLES
    row,        \* row[r]: the redemptions row, [status, tx, event]
    pc,         \* pc[p]: the await the handler is at
    job,        \* job[p]: its locals
    queue,      \* what the tick still has to verify: (redemption, hash) pairs
    outages

redemptionVars == <<minted, canon, top, finalized, row, pc, job, queue, outages>>

Processes == Clients \cup {Ticker}

\* event_key names the transaction and the log; the log is the redemption's own.
Row == [status : {"none", "created", "pending", "credited"},
        tx : Txs \cup {NoTx}, event : Txs \cup {NoTx}]

Places == {"idle", "oldReceipt", "canonical", "finalized", "recheck", "replacing",
           "recording", "receipt", "judging", "crediting"}

\* `tx` is the hash being submitted or verified, `old` the one it replaces.
Job == [r : Redemptions \cup {NoRedemption}, tx : Txs \cup {NoTx},
        old : Txs \cup {NoTx}, block : Block \cup {NoBlock},
        goal : {"none", "replace", "judge", "credit"}]

NoJob == [r |-> NoRedemption, tx |-> NoTx, old |-> NoTx, block |-> NoBlock, goal |-> "none"]

RedemptionTypeOK ==
    /\ ChainTypeOK
    /\ row \in [Redemptions -> Row]
    /\ pc \in [Processes -> Places]
    /\ job \in [Processes -> Job]
    /\ queue \subseteq Redemptions \X Txs
    /\ outages \in 0..MaxOutages

RedemptionInit ==
    /\ ChainInit
    /\ row = [r \in Redemptions |-> [status |-> "none", tx |-> NoTx, event |-> NoTx]]
    /\ pc = [p \in Processes |-> "idle"]
    /\ job = [p \in Processes |-> NoJob]
    /\ queue = {}
    /\ outages = 0

-----------------------------------------------------------------------------

Promised == {r \in Redemptions : row[r].status # "none"}

\* The receipt an RPC may return for t.
Receipts(t) ==
    {b \in minted : b.tx = t /\ (b \in canon \/ LaggingRpc)}
        \cup IF LaggingRpc \/ \A b \in canon : b.tx # t THEN {NoBlock} ELSE {}

Goto(p, place) == pc' = [pc EXCEPT ![p] = place]

\* The handler answers; what it knew is gone.
End(p) == pc' = [pc EXCEPT ![p] = "idle"] /\ job' = [job EXCEPT ![p] = NoJob]

Work(r, tx, old, block, goal) ==
    [r |-> r, tx |-> tx, old |-> old, block |-> block, goal |-> goal]

\* From here on p looks at block b for the given goal.
Look(p, b, goal) ==
    job' = [job EXCEPT ![p] = Work(@.r, @.tx, @.old, b, goal)]

-----------------------------------------------------------------------------
(* start, submit and the tick *)

\* createRedemption; createMarketRedemption promises no more than the budget,
\* and every intent, also an expired one, counts.
Start(r) ==
    /\ row[r].status = "none"
    /\ Treasury => Worth[r] + MapThenSumSet(LAMBDA s : Worth[s], Promised) <= Budget
    /\ row' = [row EXCEPT ![r] = [status |-> "created", tx |-> NoTx, event |-> NoTx]]
    /\ UNCHANGED <<chainVars, pc, job, queue, outages>>

\* The first read of a submission; another hash than the recorded one must
\* first be shown to replace a useless transaction.
Submit(c, r, t) ==
    /\ pc[c] = "idle"
    /\ row[r].status # "none"
    /\ row[r].tx \notin {NoTx, t} => row[r].status # "credited"
    /\ Goto(c, IF row[r].tx \in {NoTx, t} THEN "recording" ELSE "oldReceipt")
    /\ job' = [job EXCEPT ![c] = Work(r, t, row[r].tx, NoBlock, "none")]
    /\ UNCHANGED <<chainVars, row, queue, outages>>

\* The recorded transaction failed, or did not redeem r; else a conflict.
ReadOldReceipt(c) ==
    /\ pc[c] = "oldReceipt"
    /\ \E b \in Receipts(job[c].old) :
          IF b # NoBlock /\ job[c].r \notin Events(b)
          THEN Goto(c, "canonical") /\ Look(c, b, "replace")
          ELSE End(c)
    /\ UNCHANGED <<chainVars, row, queue, outages>>

\* Slip: the row is overwritten whatever it holds by now.
OverwriteHash(c) == TRUE

\* replaceFailedRedemption writes only over the hash that was examined.
SameHash(c) == row[job[c].r].status = "pending" /\ row[job[c].r].tx = job[c].old

Replace(c) ==
    LET r == job[c].r
    IN  /\ pc[c] = "replacing"
        /\ IF SameHash(c)
           THEN /\ row' = [row EXCEPT ![r] = [status |-> @.status, tx |-> job[c].tx, event |-> @.event]]
                /\ Goto(c, "recording") /\ UNCHANGED job
           ELSE End(c) /\ UNCHANGED row
        /\ UNCHANGED <<chainVars, queue, outages>>

\* submitRedemption, and its row goes to be verified.
Record(c) ==
    LET r == job[c].r
    IN  /\ pc[c] = "recording"
        /\ IF row[r].tx \in {NoTx, job[c].tx}
           THEN /\ row' = [row EXCEPT ![r] =
                             [status |-> IF @.status = "credited" THEN @.status ELSE "pending",
                              tx |-> job[c].tx, event |-> @.event]]
                /\ IF row[r].status = "credited" THEN End(c)
                   ELSE Goto(c, "receipt") /\ UNCHANGED job
           ELSE End(c) /\ UNCHANGED row
        /\ UNCHANGED <<chainVars, queue, outages>>

\* Slip: the tick reads intents that have no transaction yet.
NewRows == {<<r, row[r].tx>> : r \in {s \in Redemptions : row[s].status = "created"}}

\* pendingRedemptions
PendingRows == {<<r, row[r].tx>> : r \in {s \in Redemptions : row[s].status = "pending"}}

StartReconciling ==
    /\ pc[Ticker] = "idle" /\ queue = {}
    /\ PendingRows # {}
    /\ queue' = PendingRows
    /\ UNCHANGED <<chainVars, row, pc, job, outages>>

\* The tick takes the next row as it was when the tick began.
TakeNext ==
    /\ pc[Ticker] = "idle"
    /\ \E e \in queue :
          /\ queue' = queue \ {e}
          /\ job' = [job EXCEPT ![Ticker] = Work(e[1], e[2], NoTx, NoBlock, "none")]
    /\ Goto(Ticker, "receipt")
    /\ UNCHANGED <<chainVars, row, outages>>

-----------------------------------------------------------------------------
(* verify, and finalizedReceipt of chain-finality.mjs *)

ReadReceipt(p) ==
    /\ pc[p] = "receipt"
    /\ \E b \in Receipts(job[p].tx) :
          IF b = NoBlock THEN End(p)
          ELSE IF Treasury THEN Goto(p, "canonical") /\ Look(p, b, "judge")
          ELSE Goto(p, "judging") /\ Look(p, b, "credit")
    /\ UNCHANGED <<chainVars, row, queue, outages>>

\* The chain, at the receipt's height, has the receipt's block.
CheckCanonical(p) ==
    /\ pc[p] = "canonical"
    /\ IF job[p].block \in canon THEN Goto(p, "finalized") /\ UNCHANGED job ELSE End(p)
    /\ UNCHANGED <<chainVars, row, queue, outages>>

\* Slip: a canonical block is taken for a final one.
NotAwaited(p) == TRUE

ReachesFinality(p) == finalized >= job[p].block.height

CheckFinalized(p) ==
    /\ pc[p] = "finalized"
    /\ IF ReachesFinality(p) THEN Goto(p, "recheck") /\ UNCHANGED job ELSE End(p)
    /\ UNCHANGED <<chainVars, row, queue, outages>>

StillCanonical(p) == job[p].block \in canon

Recheck(p) ==
    /\ pc[p] = "recheck"
    /\ IF StillCanonical(p)
       THEN /\ Goto(p, CASE job[p].goal = "replace" -> "replacing"
                         [] job[p].goal = "judge"   -> "judging"
                         [] OTHER                   -> "crediting")
            /\ UNCHANGED job
       ELSE End(p)
    /\ UNCHANGED <<chainVars, row, queue, outages>>

\* The receipt is a success and holds exactly this redemption's event.
Judge(p) ==
    /\ pc[p] = "judging"
    /\ IF job[p].r \in Events(job[p].block)
       THEN Goto(p, "canonical") /\ Look(p, job[p].block, "credit")
       ELSE End(p)
    /\ UNCHANGED <<chainVars, row, queue, outages>>

\* creditRedemption, once.  Its check that the event has credited no other row
\* always passes: the log in the event key names its redemption.
Credit(p) ==
    LET r == job[p].r
    IN  /\ pc[p] = "crediting"
        /\ row' = IF row[r].status = "pending"
                  THEN [row EXCEPT ![r] = [status |-> "credited", tx |-> @.tx, event |-> job[p].tx]]
                  ELSE row
        /\ End(p)
        /\ UNCHANGED <<chainVars, queue, outages>>

\* An RPC or store call fails, or the balance limit refuses the credit.
CallFails(p) ==
    /\ pc[p] # "idle"
    /\ outages < MaxOutages
    /\ outages' = outages + 1
    /\ End(p)
    /\ UNCHANGED <<chainVars, row, queue>>

\* Rows survive a restart; handlers and the tick's list do not.
Restart ==
    /\ outages < MaxOutages
    /\ outages' = outages + 1
    /\ pc' = [p \in Processes |-> "idle"]
    /\ job' = [p \in Processes |-> NoJob]
    /\ queue' = {}
    /\ UNCHANGED <<chainVars, row>>

-----------------------------------------------------------------------------

Verify(p) ==
    \/ ReadReceipt(p)
    \/ CheckCanonical(p)
    \/ CheckFinalized(p)
    \/ Recheck(p)
    \/ Judge(p)
    \/ Credit(p)

RedemptionNext ==
    \/ \E r \in Redemptions : Start(r)
    \/ \E c \in Clients :
          \/ \E r \in Redemptions, t \in Txs : Submit(c, r, t)
          \/ ReadOldReceipt(c)
          \/ Replace(c)
          \/ Record(c)
    \/ StartReconciling \/ TakeNext
    \/ \E p \in Processes : Verify(p) \/ CallFails(p)
    \/ Restart
    \/ ChainNext /\ UNCHANGED <<row, pc, job, queue, outages>>

RedemptionSpec == RedemptionInit /\ [][RedemptionNext]_redemptionVars

\* The interval timer keeps firing, and a started pass goes on.
FairSpec == RedemptionSpec /\ WF_redemptionVars(StartReconciling \/ TakeNext \/ Verify(Ticker))

-----------------------------------------------------------------------------
(* Properties *)

\* Credit is granted only for a redemption that is final on the canonical chain,
\* whatever reorganizations happened between the reads, and it is the redemption
\* by the transaction the row names.
CreditedIsFinal ==
    \A r \in Redemptions : row[r].status = "credited" =>
        \E b \in minted : Final(b) /\ r \in Events(b) /\ b.tx = row[r].event /\ b.tx = row[r].tx

\* A recorded hash is replaced only when its transaction is final and redeemed
\* nothing for this row: concurrent submissions, retries and reorganizations can
\* never displace a transaction that may still pay.
NoBurnDiscarded ==
    [][ \A r \in Redemptions :
            row'[r].tx # row[r].tx /\ row[r].tx # NoTx =>
                \E b \in minted : Final(b) /\ b.tx = row[r].tx /\ r \notin Events(b) ]_redemptionVars

\* "Your saved redemption remains recoverable": a recorded redemption that is
\* final is credited in the end, also after failed calls and restarts.
FinalIsCredited ==
    \A r \in Redemptions, t \in Txs :
        (row[r].tx = t /\ \E b \in minted : Final(b) /\ b.tx = t /\ r \in Events(b))
            ~> row[r].status = "credited"
=============================================================================
