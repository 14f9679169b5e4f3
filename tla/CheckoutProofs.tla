---------------------------- MODULE CheckoutProofs ----------------------------
(***************************************************************************)
(* For any number of tabs and intents and any times, the invariants of     *)
(* Checkout hold.  They rest on one fact: every intent but the account's   *)
(* present one has ended, because an intent is replaced only after its     *)
(* page was found to have ended, and what has ended stays so.              *)
(***************************************************************************)
EXTENDS Checkout, TLAPS

\* The intents that have ended.
Past == {i \in Intents : Ended(i)}

\* The account's intent is the last that was issued; its reference is its own page.
LastIssued == row.id = issued /\ row.ref \in {None, issued}

\* Every intent before it has ended.
OthersEnded == \A i \in Intents : i < issued => i \in Past

\* A page belongs to an issued intent, and is paid only by a customer it was shown to.
PageOf(i) ==
    /\ page[i].state # "none" => i <= issued
    /\ page[i].state = "active" => i \in shown
    /\ page[i].end # 0 => i \in shown /\ page[i].state \in {"active", "canceled"}
PagesKnown == \A i \in Intents : PageOf(i)

\* The page of the present intent is stored before it is shown.
Stored == {i \in Intents : i < issued \/ i = row.ref}
StoredFirst == shown \subseteq Stored

\* No invoice and no plan reaches beyond the period its subscription was billed for.
BilledFirst ==
    /\ \A v \in invoices : v.end <= page[v.of].end
    /\ IF plan.of = None THEN plan.expires = 0 ELSE plan.expires <= page[plan.of].end

\* What a tab relies on at each of its awaits.
Held(t) ==
    /\ pc[t] \notin {"idle", "reserving"} => intent[t].id \in 1..issued
    /\ pc[t] \in {"asking", "reading"} => intent[t].ref = intent[t].id
    /\ pc[t] = "reading" => intent[t].id \in Stored
    /\ pc[t] = "replacing" => intent[t].id \in Past
TabsHeld == \A t \in Tabs : Held(t)

IInv == TypeOK /\ LastIssued /\ OthersEnded /\ PagesKnown /\ StoredFirst /\ BilledFirst /\ TabsHeld

-----------------------------------------------------------------------------
(* Lemmas *)

\* The initial states satisfy the invariant.
LEMMA Initial == Init => IInv
  BY CheckoutAssumption DEF Init, IInv, TypeOK, LastIssued, OthersEnded, PagesKnown, PageOf,
     StoredFirst, BilledFirst, TabsHeld, Held, NoRow, NoPage, Row, Places, None, Intents, Ended, Past, Stored

\* What was billed beyond now has not ended.
LEMMA BilledRuns ==
    ASSUME IInv, NEW i \in Intents, page[i].end > now
    PROVE  ~Ended(i)
  BY DEF IInv, TypeOK, PagesKnown, PageOf, Ended

\* So it is the account's present intent, and its page is the stored one.
LEMMA BilledIsPresent ==
    ASSUME IInv, NEW i \in Intents, page[i].end > now
    PROVE  i = issued /\ row.id = i /\ row.ref = i
<1>1. ~Ended(i) BY BilledRuns
<1>2. i \in shown BY DEF IInv, TypeOK, PagesKnown, PageOf
<1> QED BY <1>1, <1>2, CheckoutAssumption
     DEF IInv, TypeOK, LastIssued, OthersEnded, StoredFirst, Stored, Intents, Past, None

\* What can charge the account has not ended.
LEMMA ChargingIsPresent ==
    ASSUME IInv, NEW i \in Intents, CanCharge(i)
    PROVE  i = issued
<1>1. ~Ended(i) /\ page[i].state # "none" BY DEF CanCharge, Open, Ended
<1> QED BY <1>1 DEF IInv, TypeOK, OthersEnded, PagesKnown, PageOf, Intents, Past

\* What has ended stays so: no step touches its page.
LEMMA EndedStays ==
    ASSUME IInv, [Next]_vars
    PROVE  Past \subseteq Past'
<1>. SUFFICES ASSUME NEW i \in Intents, Ended(i)
              PROVE  Ended(i)'
  BY DEF Past
<1>1. page[i].state \in {"open", "canceled"} /\ ~Open(i)
  BY DEF Ended, Open, IInv, TypeOK
<1>2. now' \in Nat /\ now <= now'
  <2>1. CASE Tick
    BY <2>1, CheckoutAssumption DEF IInv, TypeOK, Tick
  <2>2. CASE now' = now
    BY <2>2, CheckoutAssumption DEF IInv, TypeOK
  <2>3. Tick \/ now' = now
    BY DEF Next, vars, Tab, Start, Ask, Reserve, Read, Create, Answered,
       Recheck, Attach, Fail, Pay, Renew, Cancel, Bill, Notify, Refund
  <2>4. QED
    BY <2>1, <2>2, <2>3
<1>3. page'[i] = page[i]
  <2>1. ASSUME NEW t \in Tabs, Create(t) PROVE page'[i] = page[i]
    BY <1>1, <2>1 DEF IInv, TypeOK, Create, Made
  <2>2. ASSUME NEW j \in Intents, Pay(j) \/ Renew(j) \/ Cancel(j) PROVE page'[i] = page[i]
    BY <1>1, <2>2 DEF IInv, TypeOK, Pay, Renew, Cancel, Bill, Open
  <2>3. CASE page' = page
    BY <2>3
  <2>4. \/ page' = page
        \/ \E t \in Tabs : Create(t)
        \/ \E j \in Intents : Pay(j) \/ Renew(j) \/ Cancel(j)
    BY DEF Next, vars, account, provider, tabs, Tab, Start, Ask, Reserve, Read, Answered, Recheck,
       Attach, Fail, Notify, Refund, Tick
  <2>5. QED
    BY <2>1, <2>2, <2>3, <2>4
<1>4. QED
  BY <1>1, <1>2, <1>3 DEF Ended, Open, IInv, TypeOK

\* So does what was stored or replaced.
LEMMA StoredStays ==
    ASSUME IInv, [Next]_vars
    PROVE  Stored \subseteq Stored'
<1>1. CASE UNCHANGED <<row, issued>>
  BY <1>1 DEF Stored
<1>2. ASSUME NEW t \in Tabs, Reserve(t)
      PROVE  UNCHANGED <<row, issued>> \/ issued' = issued + 1
  BY <1>2 DEF Reserve
<1>3. CASE issued' = issued + 1
  BY <1>3 DEF Stored, Intents, IInv, TypeOK, LastIssued, None
<1>4. ASSUME NEW t \in Tabs, Attach(t)
      PROVE  issued' = issued /\ row'.ref \in {row.ref, issued}
  BY <1>4 DEF Attach, Attaches, IInv, TypeOK, Row, LastIssued, account
<1>5. CASE issued' = issued /\ row'.ref \in {row.ref, issued}
  BY <1>5 DEF Stored, Intents, IInv, TypeOK, LastIssued, None
<1>6. \/ UNCHANGED <<row, issued>>
      \/ \E t \in Tabs : Reserve(t) \/ Attach(t)
  BY DEF Next, vars, account, provider, tabs, Tab, Start, Ask, Read, Create, Answered, Recheck,
     Fail, Pay, Renew, Cancel, Bill, Notify, Refund, Tick
<1>7. QED
  BY <1>1, <1>2, <1>3, <1>4, <1>5, <1>6

-----------------------------------------------------------------------------
(* The steps of a tab *)

\* The tab goes to a place with what it needs there; the others keep what they hold.
LEMMA OthersHold ==
    ASSUME IInv, [Next]_vars, NEW t \in Tabs, issued' \in Nat, issued <= issued',
           NEW p \in Places, NEW x \in Row,
           pc' = [pc EXCEPT ![t] = p], intent' = [intent EXCEPT ![t] = x],
           p \notin {"idle", "reserving"} => x.id \in 1..issued',
           p \in {"asking", "reading"} => x.ref = x.id,
           p = "reading" => x.id \in Stored,
           p = "replacing" => x.id \in Past
    PROVE  TabsHeld'
<1>. SUFFICES ASSUME NEW u \in Tabs
              PROVE  Held(u)'
  BY DEF TabsHeld
<1>1. CASE u = t
  BY <1>1, EndedStays, StoredStays DEF IInv, TypeOK, Held
<1>2. CASE u # t
  BY <1>2, EndedStays, StoredStays DEF IInv, TypeOK, TabsHeld, Held
<1>3. QED
  BY <1>1, <1>2

\* A tab that only moves on keeps the invariant if it holds what its place needs.
LEMMA TabMoves ==
    ASSUME IInv, [Next]_vars, NEW t \in Tabs,
           UNCHANGED <<now, plusOffered, account, provider, invoices, bound>>,
           NEW p \in Places, NEW w \in Choices \cup {"basic"}, NEW x \in Row, NEW b \in BOOLEAN,
           pc' = [pc EXCEPT ![t] = p], want' = [want EXCEPT ![t] = w],
           intent' = [intent EXCEPT ![t] = x], again' = [again EXCEPT ![t] = b],
           p \notin {"idle", "reserving"} => x.id \in 1..issued,
           p \in {"asking", "reading"} => x.ref = x.id,
           p = "reading" => x.id \in Stored,
           p = "replacing" => x.id \in Past
    PROVE  IInv'
<1>1. TypeOK'
  BY DEF IInv, TypeOK, account, provider
<1>2. TabsHeld'
  <2>1. /\ issued' \in Nat /\ issued <= issued'
        /\ p \notin {"idle", "reserving"} => x.id \in 1..issued'
    BY DEF IInv, TypeOK, account
  <2>2. QED
    BY <2>1, OthersHold
<1>3. LastIssued' /\ OthersEnded' /\ PagesKnown' /\ StoredFirst' /\ BilledFirst'
  BY EndedStays, StoredStays DEF IInv, LastIssued, OthersEnded, PagesKnown, PageOf, StoredFirst, BilledFirst,
     account, provider
<1>4. QED
  BY <1>1, <1>2, <1>3 DEF IInv


LEMMA StartKeeps ==
    ASSUME IInv, [Next]_vars, NEW t \in Tabs, NEW choice \in Choices, Start(t, choice)
    PROVE  IInv'
<1>. DEFINE looks == plusOffered /\ ByCard(choice) /\ row.id # None /\ row.until <= now
            p == IF looks THEN "asking" ELSE "reserving"
            x == IF looks THEN row ELSE NoRow
<1>1. p \in Places /\ x \in Row /\ again[t] \in BOOLEAN /\ again' = [again EXCEPT ![t] = again[t]]
  BY CheckoutAssumption DEF IInv, TypeOK, Start, Places, Row, NoRow, None
<1>2. looks => row.id \in 1..issued /\ row.ref = row.id
  BY DEF IInv, TypeOK, LastIssued, Start, None
<1>3. QED
  BY <1>1, <1>2, TabMoves DEF Start

LEMMA CloseKeeps ==
    ASSUME IInv, [Next]_vars, NEW t \in Tabs, Close(t),
           UNCHANGED <<now, plusOffered, account, provider, invoices, bound>>
    PROVE  IInv'
<1>1. NoRow \in Row /\ "idle" \in Places
  BY CheckoutAssumption DEF NoRow, Row, None, Places
<1>2. QED
  BY <1>1, TabMoves DEF Close

\* The intent of a tab that holds one is an issued intent.
LEMMA HeldIntent ==
    ASSUME IInv, NEW t \in Tabs, pc[t] \notin {"idle", "reserving"}
    PROVE  intent[t].id \in 1..issued /\ intent[t].id \in Intents
<1>1. intent[t].id \in 1..issued
  BY DEF IInv, TabsHeld, Held
<1>2. QED
  BY <1>1, CheckoutAssumption DEF IInv, TypeOK, Intents

\* A tab goes on with the intent it has.
LEMMA GoesOnKeeps ==
    ASSUME IInv, [Next]_vars, NEW t \in Tabs, pc[t] \notin {"idle", "reserving"},
           UNCHANGED <<now, plusOffered, account, provider, invoices, bound, want, intent>>,
           NEW p \in Places \ {"asking", "reading"}, NEW b \in BOOLEAN,
           pc' = [pc EXCEPT ![t] = p], again' = [again EXCEPT ![t] = b],
           p = "replacing" => Ended(intent[t].id)
    PROVE  IInv'
<1>1. intent[t] \in Row /\ want[t] \in Choices \cup {"basic"} /\ p \in Places
  BY DEF IInv, TypeOK
<1>2. intent' = [intent EXCEPT ![t] = intent[t]] /\ want' = [want EXCEPT ![t] = want[t]]
  BY DEF IInv, TypeOK
<1>3. intent[t].id \in 1..issued /\ (p = "replacing" => intent[t].id \in Past)
  BY HeldIntent DEF Past
<1>4. UNCHANGED <<now, plusOffered, account, provider, invoices, bound>>
  OBVIOUS
<1>5. QED
  BY <1>1, <1>2, <1>3, <1>4, TabMoves

LEMMA AskKeeps ==
    ASSUME IInv, [Next]_vars, NEW t \in Tabs, Ask(t)
    PROVE  IInv'
<1>1. CASE Ended(intent[t].ref)
  <2>1. intent[t].ref = intent[t].id /\ pc[t] = "asking"
    BY DEF IInv, TabsHeld, Held, Ask
  <2>2. Ended(intent[t].id)
    BY <1>1, <2>1
  <2>3. "replacing" \in Places \ {"asking", "reading"} /\ again[t] \in BOOLEAN
        /\ again' = [again EXCEPT ![t] = again[t]]
    BY <1>1 DEF IInv, TypeOK, Ask, Go, Places
  <2>4. QED
    BY <1>1, <2>1, <2>2, <2>3, GoesOnKeeps DEF Ask, Go
<1>2. CASE ~Ended(intent[t].ref)
  BY <1>2, CloseKeeps DEF Ask
<1>3. QED
  BY <1>1, <1>2

LEMMA AnsweredKeeps ==
    ASSUME IInv, [Next]_vars, NEW t \in Tabs, Answered(t)
    PROVE  IInv'
<1>1. {"rechecking", "attaching"} \subseteq Places \ {"asking", "reading"}
      /\ again[t] \in BOOLEAN /\ again' = [again EXCEPT ![t] = again[t]]
  BY DEF IInv, TypeOK, Answered, Go, Places
<1>2. QED
  BY <1>1, GoesOnKeeps DEF Answered, Go

LEMMA RecheckKeeps ==
    ASSUME IInv, [Next]_vars, NEW t \in Tabs, Recheck(t)
    PROVE  IInv'
<1>1. CASE Ended(intent[t].id)
  <2>1. "replacing" \in Places \ {"asking", "reading"}
    BY DEF Places
  <2>2. QED
    BY <1>1, <2>1, GoesOnKeeps DEF Recheck
<1>2. CASE ~Ended(intent[t].id)
  BY <1>2, CloseKeeps DEF Recheck
<1>3. QED
  BY <1>1, <1>2


LEMMA ReserveKeeps ==
    ASSUME IInv, [Next]_vars, NEW t \in Tabs, Reserve(t)
    PROVE  IInv'
<1>. DEFINE fresh == [id |-> issued + 1, choice |-> want[t], until |-> now + Life, ref |-> None]
            mine == IF Kept(t) THEN row ELSE fresh
            p == IF want[t] = "paypal" /\ ~again[t] /\ mine.ref # None THEN "reading" ELSE "creating"
            stops == PlanActive \/ (Kept(t) /\ row.choice # want[t])
<1>1. CASE stops
  BY <1>1, CloseKeeps DEF Reserve, account
<1>2. CASE ~stops /\ Kept(t)
  <2>1. row' = row /\ issued' = issued /\ pc' = [pc EXCEPT ![t] = p]
        /\ intent' = [intent EXCEPT ![t] = row] /\ UNCHANGED <<want, again>>
    BY <1>2 DEF Reserve
  <2>2. row.id \in 1..issued
    BY <1>2 DEF Kept, IInv, TypeOK, LastIssued, None
  <2>3. p = "reading" => row.ref = row.id /\ row.id \in Stored
    BY <1>2, <2>2, CheckoutAssumption DEF IInv, TypeOK, LastIssued, Stored, Intents, None
  <2>4. row \in Row /\ p \in Places \ {"asking", "replacing"}
        /\ want[t] \in Choices \cup {"basic"} /\ again[t] \in BOOLEAN
        /\ want' = [want EXCEPT ![t] = want[t]] /\ again' = [again EXCEPT ![t] = again[t]]
    BY <2>1 DEF IInv, TypeOK, Places
  <2>5. UNCHANGED <<now, plusOffered, account, provider, invoices, bound>>
    BY <2>1 DEF Reserve, account
  <2>6. QED
    BY <2>1, <2>2, <2>3, <2>4, <2>5, TabMoves
<1>3. CASE ~stops /\ ~Kept(t)
  <2>1. /\ issued < MaxIntents /\ row' = fresh /\ issued' = issued + 1
        /\ intent' = [intent EXCEPT ![t] = fresh] /\ pc' = [pc EXCEPT ![t] = "creating"]
        /\ UNCHANGED <<now, plusOffered, plan, page, shown, invoices, bound, want, again>>
    BY <1>3 DEF Reserve, provider
  <2>2. fresh \in Row
    BY <2>1, CheckoutAssumption DEF IInv, TypeOK, Row, None
  <2>3. TypeOK'
    BY <2>1, <2>2, CheckoutAssumption DEF IInv, TypeOK, Places
  <2>4. issued # 0 => issued \in Past
    BY <1>3 DEF Reserve, Kept, IInv, TypeOK, TabsHeld, Held, LastIssued, None
  <2>5. LastIssued' /\ OthersEnded'
    BY <2>1, <2>4, EndedStays, SMTT(30) DEF IInv, TypeOK, LastIssued, OthersEnded, Intents, None
  <2>6. PagesKnown' /\ BilledFirst'
    BY <2>1 DEF IInv, TypeOK, PagesKnown, PageOf, BilledFirst, Intents
  <2>7. StoredFirst'
    BY <2>1, StoredStays DEF IInv, StoredFirst
  <2>8. TabsHeld'
    <3>1. "creating" \in Places /\ issued' \in Nat /\ issued <= issued' /\ fresh.id \in 1..issued'
      BY <2>1 DEF IInv, TypeOK, Places
    <3>2. QED
      BY <2>1, <2>2, <3>1, OthersHold
  <2>9. QED
    BY <2>3, <2>5, <2>6, <2>7, <2>8 DEF IInv
<1>4. QED
  BY <1>1, <1>2, <1>3

\* A closing tab may give the address of a stored page.
LEMMA ShowingKeeps ==
    ASSUME IInv, [Next]_vars, NEW t \in Tabs, Close(t), shown \subseteq shown', shown' \subseteq Stored',
           row' \in Row, row'.id = row.id, row'.ref \in {None, issued}, issued' = issued,
           UNCHANGED <<now, plusOffered, plan, page, invoices, bound>>
    PROVE  IInv'
<1>1. TypeOK'
  BY CheckoutAssumption DEF IInv, TypeOK, Close, NoRow, Row, None, Places, Stored
<1>2. LastIssued' /\ OthersEnded' /\ PagesKnown' /\ StoredFirst' /\ BilledFirst'
  BY EndedStays DEF IInv, LastIssued, OthersEnded, PagesKnown, PageOf, StoredFirst, BilledFirst
<1>3. TabsHeld'
  <2>1. NoRow \in Row /\ "idle" \in Places /\ issued' \in Nat /\ issued <= issued'
    BY CheckoutAssumption DEF IInv, TypeOK, NoRow, Row, None, Places
  <2>2. QED
    BY <2>1, OthersHold DEF Close
<1>4. QED
  BY <1>1, <1>2, <1>3 DEF IInv

LEMMA ReadKeeps ==
    ASSUME IInv, [Next]_vars, NEW t \in Tabs, Read(t)
    PROVE  IInv'
<1>1. intent[t].ref = intent[t].id /\ pc[t] = "reading" /\ intent[t].id \in Stored
  BY DEF IInv, TabsHeld, Held, Read
<1>2. CASE Ended(intent[t].ref)
  <2>1. "replacing" \in Places \ {"asking", "reading"} /\ Ended(intent[t].id)
    BY <1>1, <1>2 DEF Places
  <2>2. /\ UNCHANGED <<now, plusOffered, account, provider, invoices, bound, want, intent>>
        /\ pc' = [pc EXCEPT ![t] = "replacing"] /\ again' = [again EXCEPT ![t] = TRUE]
    BY <1>2 DEF Read, provider
  <2>3. QED
    BY <1>1, <2>1, <2>2, GoesOnKeeps
<1>3. CASE ~Ended(intent[t].ref)
  <2>1. /\ Close(t) /\ shown \subseteq shown' /\ shown' \subseteq shown \cup {intent[t].ref}
        /\ UNCHANGED <<now, plusOffered, plan, row, issued, page, invoices, bound>>
    BY <1>3 DEF Read, account
  <2>2. shown' \subseteq Stored'
    BY <1>1, <2>1, StoredStays DEF IInv, StoredFirst
  <2>3. row' \in Row /\ row'.id = row.id /\ row'.ref \in {None, issued}
    BY <2>1 DEF IInv, TypeOK, LastIssued
  <2>4. QED
    BY <2>1, <2>2, <2>3, ShowingKeeps
<1>4. QED
  BY <1>2, <1>3

LEMMA AttachKeeps ==
    ASSUME IInv, [Next]_vars, NEW t \in Tabs, Attach(t)
    PROVE  IInv'
<1>1. CASE Attaches(t)
  <2>1. intent[t].id = issued /\ issued \in Intents
    BY <1>1, HeldIntent DEF Attach, Attaches, IInv, LastIssued
  <2>2. row' = [row EXCEPT !.ref = issued] /\ issued' = issued
    BY <1>1, <2>1 DEF Attach
  <2>3. row' \in Row /\ row'.id = row.id /\ row'.ref = issued /\ row'.ref \in {None, issued}
    BY <2>2 DEF IInv, TypeOK, Row
  <2>4. shown \subseteq shown' /\ shown' \subseteq shown \cup {issued}
    BY <1>1, <2>1 DEF Attach
  <2>5. shown' \subseteq Stored'
    BY <2>1, <2>2, <2>3, <2>4, StoredStays DEF IInv, StoredFirst, Stored
  <2>6. QED
    BY <2>2, <2>3, <2>4, <2>5, ShowingKeeps DEF Attach
<1>2. CASE ~Attaches(t)
  BY <1>2, CloseKeeps DEF Attach, account, provider
<1>3. QED
  BY <1>1, <1>2


\* A page is made only for an intent that has none, so for the present one.
LEMMA CreateKeeps ==
    ASSUME IInv, [Next]_vars, NEW t \in Tabs, Create(t)
    PROVE  IInv'
<1>. DEFINE i == intent[t].id
<1>0. i \in 1..issued /\ i \in Intents /\ pc[t] = "creating"
  BY HeldIntent DEF Create
<1>1. CASE page' = page /\ Close(t)
  BY <1>1, CloseKeeps DEF Create, provider
<1>2. CASE page' = page /\ Go(t, "created")
  <2>1. "created" \in Places \ {"asking", "reading"} /\ again[t] \in BOOLEAN
        /\ again' = [again EXCEPT ![t] = again[t]]
    BY <1>2 DEF IInv, TypeOK, Places, Go
  <2>2. UNCHANGED <<now, plusOffered, account, provider, invoices, bound, want, intent>>
    BY <1>2 DEF Create, provider, Go
  <2>3. QED
    BY <1>0, <1>2, <2>1, <2>2, GoesOnKeeps DEF Go
<1>3. CASE /\ ~Made(t) /\ Go(t, "created")
           /\ page' = [page EXCEPT ![i] = [state |-> "open", choice |-> want[t], end |-> 0,
                          until |-> IF ByCard(want[t]) THEN intent[t].until ELSE 0]]
  <2>1. UNCHANGED <<now, plusOffered, plan, row, issued, shown, invoices, bound, want, intent, again>>
    BY <1>3 DEF Create, Go, account
  <2>2. TypeOK'
    BY <1>0, <1>3, <2>1 DEF IInv, TypeOK, Go, Places, Row
  <2>3. page[i].state = "none" /\ page[i].end = 0
    BY <1>0, <1>3 DEF Made, IInv, TypeOK, PagesKnown, PageOf
  <2>4. LastIssued' /\ OthersEnded' /\ StoredFirst'
    BY <2>1, EndedStays, StoredStays DEF IInv, LastIssued, OthersEnded, StoredFirst
  <2>5. PagesKnown'
    BY <1>0, <1>3, <2>1 DEF IInv, TypeOK, PagesKnown, PageOf
  <2>6. \A j \in Intents : page'[j].end = page[j].end
    BY <1>0, <1>3, <2>3 DEF IInv, TypeOK
  <2>7. BilledFirst'
    BY <2>1, <2>6 DEF IInv, TypeOK, BilledFirst, Intents, None
  <2>8. TabsHeld'
    <3>1. intent[t] \in Row /\ "created" \in Places /\ issued' \in Nat /\ issued <= issued'
          /\ intent[t].id \in 1..issued' /\ intent' = [intent EXCEPT ![t] = intent[t]]
      BY <1>0, <2>1 DEF IInv, TypeOK, Places
    <3>2. QED
      BY <1>3, <3>1, OthersHold DEF Go
  <2>9. QED
    BY <2>2, <2>4, <2>5, <2>7, <2>8 DEF IInv
<1>4. QED
  BY <1>1, <1>2, <1>3 DEF Create

-----------------------------------------------------------------------------
(* The steps of the provider, the webhooks and the clock *)

\* The tabs hold what they held when only the rest of the system moves.
LEMMA TabsStill ==
    ASSUME IInv, [Next]_vars, UNCHANGED <<pc, intent, issued>>
    PROVE  TabsHeld'
  BY EndedStays, StoredStays DEF IInv, TabsHeld, Held

LEMMA BillKeeps ==
    ASSUME IInv, [Next]_vars, NEW i \in Intents, Bill(i, now + Period),
           i \in shown, page[i].end <= now + Period
    PROVE  IInv'
<1>1. /\ page' = [page EXCEPT ![i].state = "active", ![i].end = now + Period]
      /\ invoices' = invoices \cup {[of |-> i, end |-> now + Period]}
      /\ UNCHANGED <<now, plusOffered, plan, row, issued, shown, bound, pc, want, intent, again>>
  BY DEF Bill, account, tabs
<1>2. now + Period \in Nat
  BY CheckoutAssumption DEF IInv, TypeOK
<1>3. TypeOK'
  <2>1. invoices' \subseteq [of : Intents, end : Nat]
    BY <1>1, <1>2 DEF IInv, TypeOK
  <2>2. page' \in [Intents -> [state : {"none", "open", "active", "canceled"},
                             choice : Choices \cup {"basic"}, until : Nat, end : Nat]]
    <3>. DEFINE billed == [page[i] EXCEPT !.state = "active", !.end = now + Period]
    <3>1. page' = [page EXCEPT ![i] = billed]
      BY <1>1 DEF IInv, TypeOK
    <3>2. ASSUME NEW r, r \in [state : {"none", "open", "active", "canceled"},
                              choice : Choices \cup {"basic"}, until : Nat, end : Nat]
          PROVE  [r EXCEPT !.state = "active", !.end = now + Period] \in
                     [state : {"none", "open", "active", "canceled"},
                      choice : Choices \cup {"basic"}, until : Nat, end : Nat]
      BY <1>2, <3>2
    <3>3. billed \in [state : {"none", "open", "active", "canceled"},
                      choice : Choices \cup {"basic"}, until : Nat, end : Nat]
      BY <3>2 DEF IInv, TypeOK
    <3>4. QED
      BY <3>1, <3>3 DEF IInv, TypeOK
  <2>3. QED
    BY <1>1, <2>1, <2>2 DEF IInv, TypeOK
<1>4. LastIssued' /\ OthersEnded' /\ StoredFirst'
  BY <1>1, EndedStays, StoredStays DEF IInv, LastIssued, OthersEnded, StoredFirst
<1>5. i <= issued
  BY CheckoutAssumption DEF IInv, TypeOK, StoredFirst, Stored, LastIssued, Intents, None
<1>6. PagesKnown'
  BY <1>1, <1>5 DEF IInv, TypeOK, PagesKnown, PageOf
<1>7. \A j \in Intents : page[j].end <= page'[j].end /\ page[j].end \in Nat /\ page'[j].end \in Nat
  BY <1>1, <1>2 DEF IInv, TypeOK
<1>8. page'[i].end = now + Period
  BY <1>1 DEF IInv, TypeOK
<1>9. BilledFirst'
  <2>1. ASSUME NEW v \in invoices' PROVE v.end <= page'[v.of].end
    BY <1>1, <1>2, <1>7, <1>8 DEF IInv, TypeOK, BilledFirst
  <2>2. IF plan.of = None THEN plan.expires = 0 ELSE plan.expires <= page'[plan.of].end
    <3>1. plan.of # None => plan.of \in Intents
      BY DEF IInv, TypeOK, Intents, None
    <3>2. QED
      BY <1>7, <3>1 DEF IInv, TypeOK, BilledFirst
  <2>3. QED
    BY <1>1, <2>1, <2>2 DEF BilledFirst
<1>10. QED
  BY <1>1, <1>3, <1>4, <1>6, <1>9, TabsStill DEF IInv

LEMMA PayKeeps ==
    ASSUME IInv, [Next]_vars, NEW i \in Intents, Pay(i)
    PROVE  IInv'
<1>1. page[i].end = 0
  BY DEF Pay, Open, IInv, PagesKnown, PageOf
<1>2. page[i].end <= now + Period
  BY <1>1, CheckoutAssumption DEF IInv, TypeOK
<1>3. QED
  BY <1>2, BillKeeps DEF Pay

LEMMA RenewKeeps ==
    ASSUME IInv, [Next]_vars, NEW i \in Intents, Renew(i)
    PROVE  IInv'
<1>1. i \in shown /\ page[i].end <= now + Period
  BY CheckoutAssumption DEF Renew, IInv, TypeOK, PagesKnown, PageOf
<1>2. QED
  BY <1>1, BillKeeps DEF Renew

LEMMA CancelKeeps ==
    ASSUME IInv, [Next]_vars, NEW i \in Intents, Cancel(i)
    PROVE  IInv'
<1>1. /\ page' = [page EXCEPT ![i].state = "canceled"]
      /\ UNCHANGED <<now, plusOffered, plan, row, issued, shown, invoices, bound>>
      /\ UNCHANGED <<pc, want, intent, again>>
  BY DEF Cancel, account, tabs
<1>2. TypeOK'
  BY <1>1 DEF IInv, TypeOK
<1>3. LastIssued' /\ OthersEnded' /\ StoredFirst'
  BY <1>1, EndedStays, StoredStays DEF IInv, LastIssued, OthersEnded, StoredFirst
<1>4. PagesKnown'
  BY <1>1 DEF IInv, TypeOK, PagesKnown, PageOf, Cancel
<1>5. \A j \in Intents : page'[j].end = page[j].end
  BY <1>1 DEF IInv, TypeOK
<1>6. BilledFirst'
  BY <1>1, <1>5 DEF IInv, TypeOK, BilledFirst, Intents, None
<1>7. QED
  BY <1>1, <1>2, <1>3, <1>4, <1>6, TabsStill DEF IInv

LEMMA NotifyKeeps ==
    ASSUME IInv, [Next]_vars, NEW v \in invoices, Notify(v)
    PROVE  IInv'
<1>. DEFINE granted == [of |-> v.of, kind |-> KindOf(v.of), expires |-> v.end]
<1>1. /\ invoices' = invoices \ {v} /\ bound' \in {bound, bound \cup {v.of}}
      /\ plan' \in {plan, granted}
      /\ UNCHANGED <<now, plusOffered, row, issued, page, shown, pc, want, intent, again>>
  BY DEF Notify, provider, tabs
<1>2. v \in [of : Intents, end : Nat] /\ v.end <= page[v.of].end /\ v.of # None
  BY CheckoutAssumption DEF IInv, TypeOK, BilledFirst, Intents, None
<1>3. granted \in [of : 0..MaxIntents, kind : {"none", "basic", "plus"}, expires : Nat]
  BY <1>2, CheckoutAssumption DEF KindOf, Intents
<1>4. TypeOK'
  BY <1>1, <1>2, <1>3 DEF IInv, TypeOK
<1>5. LastIssued' /\ OthersEnded' /\ StoredFirst' /\ PagesKnown'
  BY <1>1, EndedStays, StoredStays
     DEF IInv, LastIssued, OthersEnded, StoredFirst, PagesKnown, PageOf
<1>6. BilledFirst'
  BY <1>1, <1>2 DEF IInv, BilledFirst
<1>7. QED
  BY <1>1, <1>4, <1>5, <1>6, TabsStill DEF IInv

LEMMA RefundKeeps ==
    ASSUME IInv, [Next]_vars, Refund
    PROVE  IInv'
<1>1. /\ plan' = [plan EXCEPT !.expires = now] /\ now < plan.expires
      /\ UNCHANGED <<now, plusOffered, row, issued, page, shown, invoices, bound>>
      /\ UNCHANGED <<pc, want, intent, again>>
  BY DEF Refund, PlanActive, provider, tabs, IInv, TypeOK
<1>2. plan'.of = plan.of /\ plan'.expires = now /\ plan.of # None /\ plan.of \in Intents
  BY <1>1 DEF IInv, TypeOK, BilledFirst, Intents, None
<1>3. TypeOK'
  <2>1. now \in Nat
    BY CheckoutAssumption DEF IInv, TypeOK
  <2>2. plan' \in [of : 0..MaxIntents, kind : {"none", "basic", "plus"}, expires : Nat]
    BY <1>1, <2>1 DEF IInv, TypeOK
  <2>3. QED
    BY <1>1, <2>2 DEF IInv, TypeOK
<1>4. LastIssued' /\ OthersEnded' /\ StoredFirst' /\ PagesKnown'
  BY <1>1, EndedStays, StoredStays
     DEF IInv, LastIssued, OthersEnded, StoredFirst, PagesKnown, PageOf
<1>5. BilledFirst'
  BY <1>1, <1>2 DEF IInv, TypeOK, BilledFirst
<1>6. QED
  BY <1>1, <1>3, <1>4, <1>5, TabsStill DEF IInv

LEMMA TickKeeps ==
    ASSUME IInv, [Next]_vars, Tick
    PROVE  IInv'
<1>1. UNCHANGED <<plusOffered, plan, row, issued, page, shown, invoices, bound, pc, want, intent, again>>
  BY DEF Tick, account, provider, tabs
<1>2. TypeOK'
  BY <1>1, CheckoutAssumption DEF IInv, TypeOK, Tick
<1>3. LastIssued' /\ OthersEnded' /\ StoredFirst' /\ PagesKnown' /\ BilledFirst'
  BY <1>1, EndedStays, StoredStays
     DEF IInv, LastIssued, OthersEnded, StoredFirst, PagesKnown, PageOf, BilledFirst
<1>4. QED
  BY <1>1, <1>2, <1>3, TabsStill DEF IInv

-----------------------------------------------------------------------------
(* Theorems *)

\* Every step keeps the invariant.
LEMMA StepKeeps == IInv /\ [Next]_vars => IInv'
<1>. SUFFICES ASSUME IInv, [Next]_vars
              PROVE  IInv'
  OBVIOUS
<1>1. ASSUME NEW t \in Tabs, Tab(t) PROVE IInv'
  <2>1. ASSUME NEW choice \in Choices, Start(t, choice) PROVE IInv'
    BY <2>1, StartKeeps
  <2>2. CASE Fail(t)
    BY <2>2, CloseKeeps DEF Fail
  <2>3. QED
    BY <1>1, <2>1, <2>2, AskKeeps, ReserveKeeps, ReadKeeps, CreateKeeps, AnsweredKeeps, RecheckKeeps,
       AttachKeeps DEF Tab
<1>2. ASSUME NEW i \in Intents, Pay(i) \/ Renew(i) \/ Cancel(i) PROVE IInv'
  BY <1>2, PayKeeps, RenewKeeps, CancelKeeps
<1>3. CASE UNCHANGED vars
  BY <1>3 DEF vars, account, provider, tabs, IInv, TypeOK, LastIssued, OthersEnded, PagesKnown, PageOf,
     StoredFirst, Stored, BilledFirst, TabsHeld, Held, Past, Ended, Open
<1>4. QED
  BY <1>1, <1>2, <1>3, NotifyKeeps, RefundKeeps, TickKeeps DEF Next

\* At every await of every tab, what it relies on holds; all other intents have ended.
THEOREM Invariant == Spec => []IInv
  BY Initial, StepKeeps, PTL DEF Spec

\* Every variable keeps its type.
THEOREM TypeCorrect == Spec => []TypeOK
<1>1. IInv => TypeOK
  BY DEF IInv
<1>2. QED
  BY <1>1, Invariant, PTL

\* At most one subscription or open page can charge the account.
THEOREM OneCharges == Spec => []OneSubscriptionCharges
<1>1. IInv => OneSubscriptionCharges
  BY ChargingIsPresent DEF OneSubscriptionCharges
<1>2. QED
  BY <1>1, Invariant, PTL

\* An unrecorded invoice of a running period never meets the active plan of another
\* subscription, and a Plus invoice finds its checkout.
THEOREM NothingIsWasted == Spec => []NoPaymentWasted
<1>1. IInv => NoPaymentWasted
  <2>. SUFFICES ASSUME IInv, NEW v \in invoices, v.end > now
                PROVE  /\ PlanActive => plan.of = v.of
                       /\ KindOf(v.of) = "plus" => Binds(v.of)
    BY DEF NoPaymentWasted
  <2>1. v.of \in Intents /\ page[v.of].end > now
    BY CheckoutAssumption DEF IInv, TypeOK, BilledFirst
  <2>2. ASSUME PlanActive
        PROVE  plan.of = v.of
    <3>1. plan.of \in Intents /\ page[plan.of].end > now
      BY CheckoutAssumption, <2>2 DEF IInv, TypeOK, BilledFirst, PlanActive, Intents, None
    <3>2. QED
      BY <2>1, <3>1, BilledIsPresent
  <2>3. Binds(v.of)
    BY <2>1, BilledIsPresent DEF Binds
  <2>4. QED
    BY <2>2, <2>3
<1>2. QED
  BY <1>1, Invariant, PTL
=============================================================================
