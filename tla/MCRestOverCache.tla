-------------------------- MODULE MCRestOverCache --------------------------
(* Instances of RestOverCache for TLC. *)
EXTENDS RestOverCache

\* A parked car that answers online, and an answer that it is offline.
Polls == {[power |-> "online", has |-> {"gear"}, gear |-> "park", live |-> "none"],
          [power |-> "offline", has |-> {}, gear |-> "none", live |-> "none"]}
Pushes == {[has |-> {"gear"}, gear |-> "park", charge |-> "absent", amps |-> FALSE]}
=============================================================================
