------------------------------ MODULE Gateway ------------------------------
(***************************************************************************)
(* The model gateway (handle in RCH/service/model-gateway.mjs): concurrent *)
(* HTTP requests reserve, dispatch to a model, and settle or give back.    *)
(*                                                                         *)
(* Every await of a handler is a point where others run.  A store call is  *)
(* a message on the wire to the account store (_rpc of supabase-store.mjs) *)
(* that may be applied late, applied without an answer, or lost; the       *)
(* adapter gives up after its timeout and never sends a call again.  The   *)
(* local SQLite store is the special case of an immediate answer or error. *)
(*                                                                         *)
(* The store is the promise of module Holds (which Ledger implements) for  *)
(* one account; a key's route, so its access mode, is fixed, since a reuse *)
(* of the key for another model is refused like any other conflict.        *)
(***************************************************************************)
EXTENDS Naturals, FiniteSets

CONSTANTS
    Requests,        \* HTTP requests; each arrives once
    Keys,            \* Idempotency-Keys
    RequestKeys,     \* the keys used with a route billed per request
    MaxConcurrency,
    NoKey, Nobody

ASSUME GatewayAssumption ==
    /\ IsFiniteSet(Requests)
    /\ RequestKeys \subseteq Keys
    /\ MaxConcurrency \in Nat \ {0}
    /\ NoKey \notin Keys
    /\ Nobody \notin Requests

VARIABLES
    pc,         \* pc[r]: where the handler of r is
    key,        \* key[r]: its Idempotency-Key
    aborted,    \* requests whose AbortController has fired
    dispatched, \* requests sent to the model (`dispatched` and `counted`)
    attempted,  \* request-mode requests whose settlement was sent
    active,     \* the gateway's count of running generations
    wire,       \* store calls not yet applied
    answer,     \* answer[r]: what the awaited store call returned
    hold,       \* hold[k]: the store's status of the key
    holder,     \* holder[k]: the request that opened the hold last (history)
    sent,       \* sent[k]: generations started for the key (history)
    troubled    \* requests that met a storage failure or a crash (history)

handlers == <<pc, key, aborted, dispatched, attempted, active>>
store == <<hold, holder>>
vars == <<handlers, wire, answer, store, sent, troubled>>

Store == INSTANCE Holds WITH Pair <- Keys

Call == [by : Requests, op : {"reserve", "settle", "release", "mark"}]
Answers == {"none", "fresh", "ok", "refused"} \cup Store!Status
Running == {"reserving", "upstream", "settling", "resolving"}

TypeOK ==
    /\ pc \in [Requests -> Running \cup {"new", "done"}]
    /\ key \in [Requests -> Keys \cup {NoKey}]
    /\ \A S \in {aborted, dispatched, attempted, troubled} : S \subseteq Requests
    /\ active \in 0..MaxConcurrency
    /\ wire \subseteq Call
    /\ answer \in [Requests -> Answers]
    /\ Store!HoldsTypeOK
    /\ holder \in [Keys -> Requests \cup {Nobody}]
    /\ sent \in [Keys -> Nat]

Init ==
    /\ pc = [r \in Requests |-> "new"]
    /\ key = [r \in Requests |-> NoKey]
    /\ aborted = {} /\ dispatched = {} /\ attempted = {} /\ troubled = {}
    /\ active = 0
    /\ wire = {}
    /\ answer = [r \in Requests |-> "none"]
    /\ Store!HoldsInit
    /\ holder = [k \in Keys |-> Nobody]
    /\ sent = [k \in Keys |-> 0]

Send(r, op) == wire' = wire \cup {[by |-> r, op |-> op]}
Goto(r, place) == pc' = [pc EXCEPT ![r] = place]
Await(r) == answer' = [answer EXCEPT ![r] = "none"]
RequestMode(r) == key[r] \in RequestKeys

-----------------------------------------------------------------------------
(* The handler *)

\* Slip: every dispatched request is treated as metered.
ResolutionByDispatch(r) == IF r \in dispatched THEN "mark" ELSE "release"

\* Slip: the dispatch is forgotten when the model's answer is an error.
ResolutionIgnoringDispatch(r) ==
    IF r \in attempted THEN "mark" ELSE "release"

\* What a failed request with a fresh hold does with it: a subscription request
\* is free unless its settlement was sent; a metered one only before dispatch.
Resolution(r) ==
    IF r \in (IF RequestMode(r) THEN attempted ELSE dispatched)
    THEN "mark" ELSE "release"

Fail(r) ==
    /\ Goto(r, "resolving")
    /\ Send(r, Resolution(r))
    /\ Await(r)

\* Slip: every ended request lowers the count.
UncountAlways(r) == active' = IF active > 0 THEN active - 1 ELSE 0

\* `finally`: only a request that was counted is uncounted.
Uncount(r) == active' = IF r \in dispatched THEN active - 1 ELSE active

HasRoom == active < MaxConcurrency

Arrive(r, k) ==
    /\ pc[r] = "new"
    /\ Goto(r, "reserving")
    /\ key' = [key EXCEPT ![r] = k]
    /\ Send(r, "reserve")
    /\ UNCHANGED <<aborted, dispatched, attempted, active, answer, store, sent, troubled>>

\* The client disconnects, or the deadline passes.
Abort(r) ==
    /\ pc[r] \in {"reserving", "upstream"}
    /\ r \notin aborted
    /\ aborted' = aborted \cup {r}
    /\ UNCHANGED <<pc, key, dispatched, attempted, active, wire, answer, store, sent, troubled>>

\* No fresh hold: the stored answer is replayed, or the request is refused.
EndUnserved(r) ==
    /\ pc[r] = "reserving"
    /\ answer[r] \notin {"none", "fresh"}
    /\ Goto(r, "done")
    /\ Await(r)
    /\ UNCHANGED <<key, aborted, dispatched, attempted, active, wire, store, sent, troubled>>

\* A fresh hold, but the model is not allowed, there is no room, or the client left.
Decline(r) ==
    /\ pc[r] = "reserving"
    /\ answer[r] = "fresh"
    /\ Fail(r)
    /\ UNCHANGED <<key, aborted, dispatched, attempted, active, store, sent, troubled>>

Dispatch(r) ==
    /\ pc[r] = "reserving"
    /\ answer[r] = "fresh"
    /\ HasRoom
    /\ r \notin aborted
    /\ Goto(r, "upstream")
    /\ Await(r)
    /\ active' = active + 1
    /\ dispatched' = dispatched \cup {r}
    /\ sent' = [sent EXCEPT ![key[r]] = @ + 1]
    /\ UNCHANGED <<key, aborted, attempted, wire, store, troubled>>

\* The model fails, answers unusably, or the fetch is aborted.
UpstreamFails(r) ==
    /\ pc[r] = "upstream"
    /\ Fail(r)
    /\ UNCHANGED <<key, aborted, dispatched, attempted, active, store, sent, troubled>>

\* A complete answer is settled before it is delivered.
UpstreamCompletes(r) ==
    /\ pc[r] = "upstream"
    /\ RequestMode(r) => r \notin aborted
    /\ Goto(r, "settling")
    /\ attempted' = IF RequestMode(r) THEN attempted \cup {r} ELSE attempted
    /\ Send(r, "settle")
    /\ UNCHANGED <<key, aborted, dispatched, active, answer, store, sent, troubled>>

SettlementKnown(r) ==
    /\ pc[r] = "settling"
    /\ \/ answer[r] = "ok" /\ Goto(r, "done") /\ Uncount(r) /\ Await(r) /\ UNCHANGED wire
       \/ answer[r] = "refused" /\ Fail(r) /\ UNCHANGED active
    /\ UNCHANGED <<key, aborted, dispatched, attempted, store, sent, troubled>>

ResolutionKnown(r) ==
    /\ pc[r] = "resolving"
    /\ answer[r] # "none"
    /\ Goto(r, "done")
    /\ Uncount(r)
    /\ Await(r)
    /\ UNCHANGED <<key, aborted, dispatched, attempted, wire, store, sent, troubled>>

\* Slip: the call that resolves a hold has no time limit.
TimedOnTheWayIn == {"reserving", "settling"}

\* Handlers waiting for the store; the adapter limits every call.
Timed == {"reserving", "settling", "resolving"}

\* The adapter times out or loses the connection, whether or not the call is
\* applied.  Without an answer to reserve there is no reservation to resolve.
GiveUp(r) ==
    /\ pc[r] \in Timed
    /\ \/ pc[r] = "settling" /\ Fail(r) /\ UNCHANGED active
       \/ pc[r] # "settling" /\ Goto(r, "done") /\ Uncount(r) /\ Await(r) /\ UNCHANGED wire
    /\ troubled' = troubled \cup {r}
    /\ UNCHANGED <<key, aborted, dispatched, attempted, store, sent>>

-----------------------------------------------------------------------------
(* The store at the other end of the wire *)

\* Slip: an ambiguous call is sent again.
Resent(c) == wire

\* Every call is sent once.
Consumed(c) == wire \ {c}

\* The answer reaches the handler only while it still waits for this call.
Awaited(c) ==
    \/ pc[c.by] = "reserving" /\ c.op = "reserve"
    \/ pc[c.by] = "settling" /\ c.op = "settle"
    \/ pc[c.by] = "resolving" /\ c.op \in {"release", "mark"}

Reply(c, x) ==
    /\ wire' = Consumed(c)
    /\ answer' = IF Awaited(c) THEN [answer EXCEPT ![c.by] = x] ELSE answer
    /\ UNCHANGED <<handlers, sent>>

StoreOpens(c) ==
    /\ c.op = "reserve"
    /\ Store!Open(key[c.by])
    /\ holder' = [holder EXCEPT ![key[c.by]] = c.by]
    /\ Reply(c, "fresh")
    /\ UNCHANGED troubled

\* The key has a hold: its status is the answer.
StoreKnows(c) ==
    /\ c.op = "reserve"
    /\ hold[key[c.by]] \notin {"none", "released"}
    /\ Reply(c, hold[key[c.by]])
    /\ UNCHANGED <<store, troubled>>

StoreCharges(c) ==
    /\ c.op = "settle"
    /\ Store!Charge(key[c.by])
    /\ Reply(c, "ok")
    /\ UNCHANGED <<holder, troubled>>

StoreDoubts(c) ==
    /\ c.op = "mark"
    /\ Store!Doubt(key[c.by])
    /\ Reply(c, "ok")
    /\ UNCHANGED <<holder, troubled>>

StoreGivesBack(c) ==
    /\ c.op = "release"
    /\ Store!GiveBack(key[c.by])
    /\ Reply(c, "ok")
    /\ UNCHANGED <<holder, troubled>>

\* Marking a hold that is not reserved, or settling one again, changes nothing.
StoreRepeats(c) ==
    /\ \/ c.op = "mark" /\ hold[key[c.by]] # "reserved"
       \/ c.op = "settle" /\ hold[key[c.by]] = "settled"
       \/ c.op = "release" /\ hold[key[c.by]] = "released"
    /\ Reply(c, "ok")
    /\ UNCHANGED <<store, troubled>>

\* No credit, no entitlement, a conflict, a limit, a closed hold, or an outage.
StoreRefuses(c) ==
    /\ Reply(c, "refused")
    /\ troubled' = IF c.op = "reserve" THEN troubled ELSE troubled \cup {c.by}
    /\ UNCHANGED store

\* A call that never reaches the store.
LoseCall(c) ==
    /\ wire' = wire \ {c}
    /\ troubled' = troubled \cup {c.by}
    /\ UNCHANGED <<handlers, answer, store, sent>>

\* The service restarts; what the store was told or is being told remains.
Crash ==
    /\ \E r \in Requests : pc[r] \in Running
    /\ pc' = [r \in Requests |-> IF pc[r] \in Running THEN "done" ELSE pc[r]]
    /\ troubled' = troubled \cup {r \in Requests : pc[r] \in Running}
    /\ active' = 0
    /\ answer' = [r \in Requests |-> "none"]
    /\ UNCHANGED <<key, aborted, dispatched, attempted, wire, store, sent>>

-----------------------------------------------------------------------------

UpstreamEnds(r) == UpstreamFails(r) \/ UpstreamCompletes(r)

Continue(r) ==
    \/ EndUnserved(r)
    \/ Decline(r)
    \/ Dispatch(r)
    \/ SettlementKnown(r)
    \/ ResolutionKnown(r)

StoreStep(c) ==
    \/ StoreOpens(c)
    \/ StoreKnows(c)
    \/ StoreCharges(c)
    \/ StoreDoubts(c)
    \/ StoreGivesBack(c)
    \/ StoreRepeats(c)
    \/ StoreRefuses(c)

Next ==
    \/ \E r \in Requests :
          \/ \E k \in Keys : Arrive(r, k)
          \/ Abort(r)
          \/ Continue(r)
          \/ UpstreamEnds(r)
          \/ GiveUp(r)
    \/ \E c \in wire : StoreStep(c) \/ LoseCall(c)
    \/ Crash

Spec == Init /\ [][Next]_vars

\* A handler that can run does; a fetch ends (the caller's or the operator's
\* deadline aborts it); a store call is answered or its timeout passes.
Fairness ==
    \A r \in Requests : /\ WF_vars(Continue(r))
                        /\ WF_vars(UpstreamEnds(r))
                        /\ WF_vars(GiveUp(r))

FairSpec == Spec /\ Fairness

-----------------------------------------------------------------------------
(* Properties *)

\* Reservations are addressed by a row that is used again when a key is retried
\* after a release.  A settle, release or mark still on the wire can therefore
\* only meet its own hold or a closed one, never the hold of a later request.
NoStrayCall ==
    \A c \in wire :
        c.op # "reserve" /\ hold[key[c.by]] \in Store!OpenStatus
            => holder[key[c.by]] = c.by

\* "Reusing its key will not run another generation": two generations of one key
\* never run together, and a metered key is sent to its provider at most once
\* across retries, lost answers and restarts.
OneGeneration ==
    \A k \in Keys :
        /\ Cardinality({r \in Requests : pc[r] \in {"upstream", "settling"} /\ key[r] = k}) <= 1
        /\ k \notin RequestKeys => sent[k] <= 1

\* The count of running generations is exact on every path through catch and
\* finally, so the gateway neither overruns its limit nor refuses for ever.
CapacityExact ==
    /\ active = Cardinality({r \in dispatched : pc[r] \in Running})
    /\ active <= MaxConcurrency

\* Unless storage failed, a request that has ended left no hold behind: what a
\* subscription request did not finish is free, and metered work that was
\* dispatched is charged or awaits its measured usage, never given back.
EndedIsResolved ==
    \A r \in Requests :
        pc[r] = "done" /\ r \notin troubled /\ holder[key[r]] = r
        => hold[key[r]] \in IF RequestMode(r) THEN {"settled", "released"}
                            ELSE IF r \in dispatched THEN {"settled", "uncertain"}
                            ELSE {"released"}

\* A storage outage never leaves an HTTP request hanging.
EveryRequestEnds == \A r \in Requests : pc[r] \in Running ~> pc[r] = "done"
=============================================================================
