----------------------------- MODULE MCRestSink -----------------------------
(* Instances of RestSink for TLC. *)
EXTENDS RestSink, TLC

\* A driving car, one that charges and whose gear and charge level have been lost with the
\* last poll, and one that is not heard from.
Reported ==
    {[power |-> "online", gear |-> "drive", live |-> "none", has |-> {"soc"}],
     [power |-> "online", gear |-> "none", live |-> "charging", has |-> {}],
     [power |-> "unknown", gear |-> "none", live |-> "none", has |-> {}]}

\* Consumers are told apart by nothing.
Alike == Permutations(Consumers)
=============================================================================
