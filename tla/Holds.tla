------------------------------- MODULE Holds -------------------------------
(***************************************************************************)
(* What the account store promises about one hold: the abstract life of an *)
(* (account, Idempotency-Key) pair, whatever it is billed in.  The Ledger  *)
(* implements it with three tables; the model gateway relies on it.        *)
(***************************************************************************)
CONSTANT Pair       \* the (account, key) pairs

VARIABLE hold       \* the status of each pair

Status == {"none", "reserved", "uncertain", "released", "settled"}

OpenStatus == {"reserved", "uncertain"}

HoldsTypeOK == hold \in [Pair -> Status]

HoldsInit == hold = [p \in Pair |-> "none"]

\* A first reservation, or a retry after the earlier hold was given back.
Open(p) ==
    /\ hold[p] \in {"none", "released"}
    /\ hold' = [hold EXCEPT ![p] = "reserved"]

\* The outcome is unknown: only a measured settlement may follow.
Doubt(p) ==
    /\ hold[p] = "reserved"
    /\ hold' = [hold EXCEPT ![p] = "uncertain"]

Charge(p) ==
    /\ hold[p] \in OpenStatus
    /\ hold' = [hold EXCEPT ![p] = "settled"]

GiveBack(p) ==
    /\ hold[p] = "reserved"
    /\ hold' = [hold EXCEPT ![p] = "released"]

HoldsNext == \E p \in Pair : Open(p) \/ Doubt(p) \/ Charge(p) \/ GiveBack(p)

HoldsSpec == HoldsInit /\ [][HoldsNext]_hold

\* What the promise means for a key, whatever its client retries: once charged it is never
\* opened again, and a hold whose outcome is unknown is only ever settled, never given back.
OutcomeIsFinal ==
    [][\A p \in Pair :
          /\ hold[p] = "settled" => hold'[p] = "settled"
          /\ hold[p] = "uncertain" => hold'[p] \in {"uncertain", "settled"}]_hold
=============================================================================
