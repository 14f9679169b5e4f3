------------------------------ MODULE MCRelay ------------------------------
(* A small instance of the Relay for TLC. *)
EXTENDS Relay, TLC

\* A free alias that falls back to the bridge, and the bridge's own alias.
Circuit == "omniroute" :> "omniroute" @@ "bridge" :> "bridge"
Falls == "omniroute" :> "bridge" @@ "bridge" :> NoAlias

Ask(kind, a, metered) == [kind |-> kind, alias |-> a, key |-> "k", metered |-> metered]

Asked == {Ask("answer", "omniroute", FALSE), Ask("answer", "bridge", TRUE),
          Ask("stream", "omniroute", FALSE), Ask("support", "bridge", FALSE)}
=============================================================================
