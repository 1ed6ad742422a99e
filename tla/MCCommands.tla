----------------------------- MODULE MCCommands -----------------------------
EXTENDS Commands

CONSTANTS c1, c2, vin1

\* Two clients command one vehicle.
OneVehicle == [k \in {c1, c2} |-> vin1]
=============================================================================
