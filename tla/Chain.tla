------------------------------- MODULE Chain -------------------------------
(***************************************************************************)
(* The Ethereum chain as the account service sees it through its RPC: what *)
(* is mined may be reorganized away until it is final, and a transaction   *)
(* may then be mined again, with another outcome.  The redemption contract *)
(* uses each redemption ID once.  External: the service only reads it.     *)
(***************************************************************************)
EXTENDS Naturals

CONSTANTS
    Redemptions,
    Txs,            \* transaction hashes that clients may submit
    RedeemedBy,     \* RedeemedBy[t]: the redemptions t redeems if it succeeds
    Hashes,         \* bound: block hashes
    NoTx            \* the transaction of a block that matters to nobody

ASSUME ChainAssumption ==
    /\ RedeemedBy \in [Txs -> SUBSET Redemptions]
    /\ NoTx \notin Txs

VARIABLES
    minted,     \* every block ever seen; the RPC may remember orphans
    canon,      \* the canonical ones
    top,        \* height of the head
    finalized   \* height of the finalized tag

chainVars == <<minted, canon, top, finalized>>

Block == [hash : Hashes, height : Nat, tx : Txs \cup {NoTx}, ok : BOOLEAN]

\* RedeemedToTreasury events in the receipt of b's transaction.
Events(b) == IF b.ok /\ b.tx \in Txs THEN RedeemedBy[b.tx] ELSE {}

Final(b) == b \in canon /\ b.height <= finalized

ChainTypeOK ==
    /\ minted \subseteq Block
    /\ canon \subseteq minted
    /\ top \in Nat
    /\ finalized \in 0..top

ChainInit == minted = {} /\ canon = {} /\ top = 0 /\ finalized = 0

\* A used redemption ID, a paused contract or an expired quote reverts.
Mine(h, t, ok) ==
    LET b == [hash |-> h, height |-> top + 1, tx |-> t, ok |-> ok]
    IN  /\ \A old \in minted : old.hash # h
        /\ t # NoTx => \A old \in canon : old.tx # t
        /\ \A old \in canon : Events(old) \cap Events(b) = {}
        /\ minted' = minted \cup {b}
        /\ canon' = canon \cup {b}
        /\ top' = top + 1
        /\ UNCHANGED finalized

Reorganize(height) ==
    /\ height \in finalized..(top - 1)
    /\ top' = height
    /\ canon' = {b \in canon : b.height <= height}
    /\ UNCHANGED <<minted, finalized>>

Finalize ==
    /\ finalized < top
    /\ finalized' = finalized + 1
    /\ UNCHANGED <<minted, canon, top>>

ChainNext ==
    \/ \E h \in Hashes, t \in Txs \cup {NoTx}, ok \in BOOLEAN : Mine(h, t, ok)
    \/ \E height \in finalized..top : Reorganize(height)
    \/ Finalize
=============================================================================
