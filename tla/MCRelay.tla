------------------------------- MODULE MCRelay -------------------------------
EXTENDS Relay

Cold ==
    [seat |-> "Level_2", wheel |-> "Level_3", precond |-> "initiate", guard |-> "engaged",
     tpms |-> "LOW", locks |-> [front |-> "locked", rear |-> "unlocked"], door |-> "open",
     ota |-> "installing"]
Parked ==
    [seat |-> "Off", wheel |-> "Off", precond |-> "off", guard |-> "disabled", tpms |-> "OK",
     locks |-> [front |-> "locked", rear |-> "locked"], door |-> "closed", ota |-> "preparing"]

AC == Some([kw |-> 77, energy |-> 5, fast |-> FALSE, amps |-> 32])
Tapered == Some([kw |-> 210, energy |-> 9, fast |-> TRUE, amps |-> 60])

Of(power, gear, loc, km, pct, charger, plug, live, kind, panel) ==
    [power |-> power, gear |-> gear, loc |-> loc, km |-> km, pct |-> pct, charger |-> charger,
     plug |-> plug, live |-> live, kind |-> kind, trim |-> "", panel |-> panel]

Charges == {<<"unknown", "unknown", Nil>>, <<"idle", "connected", Nil>>,
            <<"charging", "connected", AC>>, <<"charging", "unknown", Tapered>>,
            <<"disconnect", "disconnected", Nil>>, <<"charging", "disconnected", AC>>}

\* Combinations to start from.
AllSnapshots ==
    {Of(p, g, l, level[1], level[2], c[1], c[2], c[3], look[1], look[2]) :
        p \in {"unknown", "offline", "online", "sleep"}, g \in {"unknown", "reverse"},
        l \in {Nil, Some("here")}, level \in {<<0, 0>>, <<2, 0>>, <<250, 795>>},
        c \in Charges, look \in {<<"", NoPanel>>, <<"cybertruck", Parked>>, <<"", Cold>>}}

\* What a Rivian answers: a charge with faulty sensors, and a drive.
Faults == [seat |-> Text("fault"), wheel |-> Text("undefined"), precond |-> Nil,
           guard |-> Text("signal_not_available"), tpms |-> Text("OK"),
           locks |-> [front |-> Text("locked"), rear |-> Text("fault")],
           door |-> Text("closed"), ota |-> Nil]
Answer(online, power, gear, charger, status, panel) ==
    Some([online |-> online, power |-> Text(power), gear |-> Text(gear), loc |-> Some("here"),
          km |-> Some(<<"digits", 2509>>), pct |-> Text("undefined"),
          charger |-> Text(charger), status |-> status, panel |-> panel])
RivianWeek ==
    {RivianPoll(w) : w \in
       {[state |-> Answer(TRUE, "ready", "fault", "charging_active", Nil, Faults),
         live |-> Some([kw |-> Some(<<"digits", 77>>), amps |-> Nil, energy |-> Number(5)])],
        [state |-> Answer(TRUE, "go", "drive", "undefined", Text("chrgr_sts_not_connected"), Faults),
         live |-> Nil]}}

\* AC power just below a fast charger's.
Strong == Some([kw |-> 247, energy |-> 7, fast |-> FALSE, amps |-> 96])

\* A week of a Tesla: a drive without a fix, a charge, another with less than one percent,
\* a sleep.
TeslaWeek ==
    {Of("online", "reverse", Nil, 2, 795, "disconnect", "disconnected", Nil, "cybertruck", Parked),
     Of("online", "park", Some("here"), 250, 0, "charging", "unknown", Tapered, "", Cold),
     Of("online", "park", Some("here"), 2, 5, "charging", "connected", Strong, "", Parked),
     Of("sleep", "unknown", Nil, 0, 0, "unknown", "unknown", Nil, "", NoPanel)}

Week == TeslaWeek \union RivianWeek
Starts == AllSnapshots \union Week \union {RivianPoll([state |-> Nil, live |-> Nil])}

\* A drive begins, a charge ends, and a keepalive.
Datum(key, kind, is) == [key |-> key, value |-> [kind |-> kind, is |-> is]]
Frames ==
    {<<Datum("Gear", "ShiftState", "D"), Datum("Location", "location", "there"),
       Datum("Locked", "int", 1), Datum("Location", "invalid", TRUE)>>,
     <<Datum("DCChargingPower", "double", 77), Datum("ACChargingPower", "int", 0),
       Datum("DetailedChargeState", "enumString", "Complete"), Datum("Gear", "bool", TRUE)>>,
     <<Datum("NotSubscribed", "int", 1), Datum("Location", "string", "nowhere")>>}
=============================================================================
