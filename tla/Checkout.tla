------------------------------ MODULE Checkout ------------------------------
(***************************************************************************)
(* How an account starts a subscription: POST /v1/billing/checkout         *)
(* (RCH/service/server.mjs), the checkout intent of the account            *)
(* (store.mjs), the hosted pages of Stripe and PayPal, and the webhooks    *)
(* that turn a paid invoice into a plan.                                   *)
(*                                                                         *)
(* A tab is one request; other requests run at each of its awaits.  The    *)
(* account has one intent at a time.  Its ID is the provider's idempotency *)
(* key, so the page a provider makes for an intent is named by the intent; *)
(* providers keep keys longer than the clock runs here (24 and 72 hours).  *)
(* What identifies an intent's request is its choice: the fingerprint.     *)
(***************************************************************************)
EXTENDS Naturals, FiniteSets

CONSTANTS
    Tabs,        \* checkout requests of the account
    Choices,     \* subset of "basic" and "plus" by card, and "paypal"
    Life,        \* an intent, and a card page, lives this long
    MinLife,     \* Stripe makes no page that lives shorter
    Period,      \* a paid period
    MaxTime,     \* bound: the clock
    MaxIntents   \* bound: intents

ASSUME CheckoutAssumption ==
    /\ Choices \subseteq {"basic", "plus", "paypal"} /\ IsFiniteSet(Tabs)
    /\ Life \in Nat \ {0} /\ MinLife \in 1..Life
    /\ Period \in Nat \ {0} /\ MaxTime \in Nat /\ MaxIntents \in Nat

Intents == 1..MaxIntents
None == 0

VARIABLES
    now,
    plusOffered,  \* config.subscription.plus
    plan,         \* the account's plan, and the subscription it came from
    row,          \* subscription_checkouts: the account's intent
    issued,       \* intents so far
    page,         \* page[i]: what the provider made for intent i
    shown,        \* pages whose address a customer was given
    invoices,     \* paid invoices that are not recorded
    bound,        \* plus_payments: intents with a recorded Plus invoice
    pc, want, intent, again \* the tabs: place, choice, the intent, a second round

account == <<plan, row, issued>>
provider == <<page, shown>>
tabs == <<pc, want, intent, again>>
vars == <<now, plusOffered, account, provider, invoices, bound, tabs>>

NoRow == [id |-> None, choice |-> "basic", until |-> 0, ref |-> None]
NoPage == [state |-> "none", choice |-> "basic", until |-> 0, end |-> 0]
Row == [id : 0..MaxIntents, choice : Choices \cup {"basic"}, until : Nat, ref : 0..MaxIntents]
Places == {"idle", "asking", "reserving", "replacing", "reading", "creating", "created",
           "rechecking", "attaching"}

TypeOK ==
    /\ now \in 0..MaxTime /\ plusOffered \in BOOLEAN
    /\ plan \in [of : 0..MaxIntents, kind : {"none", "basic", "plus"}, expires : Nat]
    /\ row \in Row /\ issued \in 0..MaxIntents
    /\ page \in [Intents -> [state : {"none", "open", "active", "canceled"},
                             choice : Choices \cup {"basic"}, until : Nat, end : Nat]]
    /\ shown \subseteq Intents
    /\ invoices \subseteq [of : Intents, end : Nat]
    /\ bound \subseteq Intents
    /\ pc \in [Tabs -> Places] /\ want \in [Tabs -> Choices \cup {"basic"}]
    /\ intent \in [Tabs -> Row] /\ again \in [Tabs -> BOOLEAN]

Init ==
    /\ now = 0 /\ plusOffered \in BOOLEAN
    /\ plan = [of |-> None, kind |-> "none", expires |-> 0]
    /\ row = NoRow /\ issued = 0
    /\ page = [i \in Intents |-> NoPage]
    /\ shown = {} /\ invoices = {} /\ bound = {}
    /\ pc = [t \in Tabs |-> "idle"] /\ want = [t \in Tabs |-> "basic"]
    /\ intent = [t \in Tabs |-> NoRow] /\ again = [t \in Tabs |-> FALSE]

-----------------------------------------------------------------------------
PlanActive == plan.expires > now
ByCard(choice) == choice # "paypal"
Open(i) == page[i].state = "open" /\ (ByCard(page[i].choice) => now < page[i].until)

\* Slip: a cancelled subscription may be replaced while its period runs.
Cancelled(i) ==
    \/ page[i].state = "open" /\ ~Open(i)
    \/ page[i].state = "canceled"

\* canReplaceCheckoutSession and readCheckout: the page expired unpaid, or its
\* subscription is cancelled and the last paid period is over.
Ended(i) ==
    \/ page[i].state = "open" /\ ~Open(i)
    \/ page[i].state = "canceled" /\ page[i].end # 0 /\ page[i].end <= now

Close(t) ==
    /\ pc' = [pc EXCEPT ![t] = "idle"]
    /\ want' = [want EXCEPT ![t] = "basic"]
    /\ intent' = [intent EXCEPT ![t] = NoRow]
    /\ again' = [again EXCEPT ![t] = FALSE]

Go(t, place) == pc' = [pc EXCEPT ![t] = place] /\ UNCHANGED <<want, intent, again>>

-----------------------------------------------------------------------------
(* POST /v1/billing/checkout, kind "subscription" *)

\* With Plus on offer, a card checkout looks at an expired intent first; one without
\* a reference, or with another provider's, is left to the operator.
Start(t, choice) ==
    LET looks == plusOffered /\ ByCard(choice) /\ row.id # None /\ row.until <= now
    IN /\ pc[t] = "idle" /\ ~PlanActive
       /\ choice = "plus" => plusOffered
       /\ looks => row.ref # None /\ ByCard(page[row.ref].choice)
       /\ pc' = [pc EXCEPT ![t] = IF looks THEN "asking" ELSE "reserving"]
       /\ want' = [want EXCEPT ![t] = choice]
       /\ intent' = [intent EXCEPT ![t] = IF looks THEN row ELSE NoRow]
       /\ UNCHANGED <<now, plusOffered, account, provider, invoices, bound, again>>

\* The provider says whether the earlier page can no longer charge the account.
Ask(t) ==
    /\ pc[t] = "asking"
    /\ IF Ended(intent[t].ref) THEN Go(t, "replacing") ELSE Close(t)
    /\ UNCHANGED <<now, plusOffered, account, provider, invoices, bound>>

\* Slip: an expired intent is replaced, whichever was looked at.
KeptWhileItRuns(t) == row.id # None /\ row.until > now

\* The intent stands, unless it expired and is the one that was found to have ended.
Kept(t) ==
    /\ row.id # None
    /\ row.until > now \/ pc[t] = "reserving" \/ row.id # intent[t].id

\* reserveSubscriptionCheckout
Reserve(t) ==
    LET fresh == [id |-> issued + 1, choice |-> want[t], until |-> now + Life, ref |-> None]
        mine == IF Kept(t) THEN row ELSE fresh
    IN /\ pc[t] \in {"reserving", "replacing"}
       /\ IF PlanActive \/ (Kept(t) /\ row.choice # want[t])
          THEN Close(t) /\ UNCHANGED <<row, issued>>
          ELSE /\ Kept(t) \/ issued < MaxIntents
               /\ row' = mine
               /\ issued' = IF Kept(t) THEN issued ELSE issued + 1
               /\ intent' = [intent EXCEPT ![t] = mine]
               /\ pc' = [pc EXCEPT ![t] =
                     IF want[t] = "paypal" /\ ~again[t] /\ mine.ref # None THEN "reading"
                     ELSE "creating"]
               /\ UNCHANGED <<want, again>>
       /\ UNCHANGED <<now, plusOffered, plan, provider, invoices, bound>>

\* A PayPal subscription that is known is read, never made again; while its approval
\* is open the customer is given its address again.
Read(t) ==
    LET i == intent[t].ref
    IN /\ pc[t] = "reading"
       /\ IF Ended(i)
          THEN /\ pc' = [pc EXCEPT ![t] = "replacing"]
               /\ again' = [again EXCEPT ![t] = TRUE]
               /\ UNCHANGED <<want, intent, shown>>
          ELSE /\ Close(t)
               /\ shown' = IF page[i].state = "open" THEN shown \cup {i} ELSE shown
       /\ UNCHANGED <<now, plusOffered, account, page, invoices, bound>>

\* The provider has answered this idempotency key before.
Made(t) == page[intent[t].id].state # "none"

\* createCheckoutSession and createCheckout; the page of a card ends with the intent.
Create(t) ==
    LET i == intent[t].id
    IN /\ pc[t] = "creating"
       /\ IF ~Made(t) /\ ByCard(want[t]) /\ intent[t].until < now + MinLife
          THEN Close(t) /\ UNCHANGED page
          ELSE /\ Go(t, "created")
               /\ page' = IF Made(t) THEN page
                          ELSE [page EXCEPT ![i] =
                                   [state |-> "open", choice |-> want[t], end |-> 0,
                                    until |-> IF ByCard(want[t]) THEN intent[t].until ELSE 0]]
       /\ UNCHANGED <<now, plusOffered, account, shown, invoices, bound>>

\* A card page of an intent that expired meanwhile is looked at once.
Answered(t) ==
    /\ pc[t] = "created"
    /\ Go(t, IF ByCard(want[t]) /\ ~again[t] /\ intent[t].until <= now THEN "rechecking"
             ELSE "attaching")
    /\ UNCHANGED <<now, plusOffered, account, provider, invoices, bound>>

Recheck(t) ==
    /\ pc[t] = "rechecking"
    /\ IF Ended(intent[t].id)
       THEN /\ pc' = [pc EXCEPT ![t] = "replacing"]
            /\ again' = [again EXCEPT ![t] = TRUE]
            /\ UNCHANGED <<want, intent>>
       ELSE Close(t)
    /\ UNCHANGED <<now, plusOffered, account, provider, invoices, bound>>

\* attachSubscriptionCheckout finds the intent it was made for.
Attaches(t) == row.id = intent[t].id /\ row.ref \in {None, intent[t].id}

\* The reference is stored before the address is given out, unless the answer is lost.
Attach(t) ==
    /\ pc[t] = "attaching"
    /\ IF Attaches(t)
       THEN /\ row' = [row EXCEPT !.ref = intent[t].id]
            /\ shown' \in {shown, shown \cup {intent[t].id}}
       ELSE UNCHANGED <<row, shown>>
    /\ Close(t)
    /\ UNCHANGED <<now, plusOffered, plan, issued, page, invoices, bound>>

\* A call fails, its answer is lost, or the service stops.
Fail(t) ==
    /\ pc[t] # "idle"
    /\ Close(t)
    /\ UNCHANGED <<now, plusOffered, account, provider, invoices, bound>>

-----------------------------------------------------------------------------
(* The provider *)

Bill(i, end) ==
    /\ page' = [page EXCEPT ![i].state = "active", ![i].end = end]
    /\ invoices' = invoices \cup {[of |-> i, end |-> end]}
    /\ UNCHANGED <<now, plusOffered, account, shown, bound, tabs>>

Pay(i) == i \in shown /\ Open(i) /\ Bill(i, now + Period)

Renew(i) == page[i].state = "active" /\ page[i].end <= now /\ Bill(i, now + Period)

\* The customer cancels; a PayPal approval can be cancelled before it is paid.
Cancel(i) ==
    /\ page[i].state = "active" \/ (page[i].state = "open" /\ ~ByCard(page[i].choice))
    /\ page' = [page EXCEPT ![i].state = "canceled"]
    /\ UNCHANGED <<now, plusOffered, account, shown, invoices, bound, tabs>>

-----------------------------------------------------------------------------
(* Webhooks *)

KindOf(i) == IF page[i].choice = "plus" THEN "plus" ELSE "basic"

\* PlusSqliteLedger.checkout: an invoice belongs to a page the service stored.
Binds(i) == i \in bound \/ (row.id = i /\ row.ref = i)

\* A plan of another kind, or of another Plus subscription, is still active.
Blocked(v) ==
    /\ PlanActive
    /\ plan.kind # KindOf(v.of) \/ (plan.kind = "plus" /\ plan.of # v.of)

\* An invoice is recorded, and grants its period unless it is over, a plan blocks it,
\* or a later period of its kind was granted.  A Plus invoice that is not bound, or
\* meets another subscription, is sent again.
Notify(v) ==
    LET kind == KindOf(v.of)
        newer == plan.kind = kind /\ plan.expires >= v.end
    IN /\ kind = "plus" => Binds(v.of) /\ ~(PlanActive /\ plan.kind = "plus" /\ plan.of # v.of)
       /\ invoices' = invoices \ {v}
       /\ bound' = IF kind = "plus" THEN bound \cup {v.of} ELSE bound
       /\ plan' = IF v.end <= now \/ Blocked(v) \/ newer THEN plan
                  ELSE [of |-> v.of, kind |-> kind, expires |-> v.end]
       /\ UNCHANGED <<now, plusOffered, row, issued, provider, tabs>>

\* A refund of the current period ends the plan, not the subscription.
Refund ==
    /\ PlanActive
    /\ plan' = [plan EXCEPT !.expires = now]
    /\ UNCHANGED <<now, plusOffered, row, issued, provider, invoices, bound, tabs>>

Tick ==
    /\ now < MaxTime
    /\ now' = now + 1
    /\ UNCHANGED <<plusOffered, account, provider, invoices, bound, tabs>>

-----------------------------------------------------------------------------
Tab(t) ==
    \/ \E choice \in Choices : Start(t, choice)
    \/ Ask(t) \/ Reserve(t) \/ Read(t) \/ Create(t) \/ Answered(t) \/ Recheck(t)
    \/ Attach(t) \/ Fail(t)

Next ==
    \/ \E t \in Tabs : Tab(t)
    \/ \E i \in Intents : Pay(i) \/ Renew(i) \/ Cancel(i)
    \/ \E v \in invoices : Notify(v)
    \/ Refund \/ Tick

Spec == Init /\ [][Next]_vars

-----------------------------------------------------------------------------
(* Properties *)

CanCharge(i) == page[i].state = "active" \/ (i \in shown /\ Open(i))

\* However tabs, retries and expiry race, at most one subscription or page a customer
\* was given can still charge the account ("a replacement can only be created after
\* the previous session can no longer charge the account", store.mjs).
OneSubscriptionCharges == \A i, j \in Intents : CanCharge(i) /\ CanCharge(j) => i = j

\* No payment is wasted, however late its invoice is: while its period runs, the account's
\* plan comes from no other subscription, and a Plus invoice still finds the checkout it is
\* bound to (an intent is not replaced while its subscription's period runs).
NoPaymentWasted ==
    \A v \in invoices : v.end > now =>
        /\ PlanActive => plan.of = v.of
        /\ KindOf(v.of) = "plus" => Binds(v.of)
=============================================================================
