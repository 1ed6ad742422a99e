------------------------------ MODULE MCMerger ------------------------------
(* Instances of Merger for TLC. *)
EXTENDS Merger

\* The answers of the source: an online car with or without a fix and in either
\* gear, and the bare answers of a car that is not online.
Online(has, g, l) == [power |-> "online", has |-> has, gear |-> g, live |-> l]
Bare(p) == [power |-> p, has |-> {}, gear |-> "none", live |-> "none"]
Of(has, g, c, a) == [has |-> has, gear |-> g, charge |-> c, amps |-> a]

ProvenancePolls ==
    {Online({"gear", "loc"}, "park", "none"), Online({"gear"}, "park", "none"),
     Bare("offline")}
ProvenanceFrames ==
    {Of({"gear", "loc"}, "park", "absent", FALSE), Of({"gear"}, "park", "absent", FALSE),
     Of({"loc"}, "none", "absent", FALSE)}

\* A car that charges where it is parked until a frame says 0 kW, and one that drives.
SessionPolls ==
    {Online({"gear"}, "park", "charging"), Online({"gear"}, "drive", "none"),
     Bare("offline")}
SessionFrames ==
    {Of({"gear"}, "park", "zero", FALSE), Of({"gear"}, "drive", "absent", FALSE)}
=============================================================================
