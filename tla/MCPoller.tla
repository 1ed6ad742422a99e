------------------------------ MODULE MCPoller ------------------------------
(* Instances of Poller for TLC. *)
EXTENDS Poller

\* The interval configured for each derived state of the instance.
Cadence == [s \in Reports |-> CASE s = "driving" -> 2 [] s = "asleep" -> 3 [] OTHER -> 2]
=============================================================================
