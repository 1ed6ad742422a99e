--------------------------- MODULE RestOverCache ---------------------------
(***************************************************************************)
(* The REST sink on the cache itself: RestSink's handlers on the snapshot  *)
(* that Merger's polls and frames write, in place of the register that      *)
(* stands for them.  Whatever the two do together is something RestSink     *)
(* does on the register (SinkOnRegister), so what is shown there holds here.*)
(* What the register leaves open is asked here: which changes of the data   *)
(* come without a later AsOf (CachedIsCurrent).                             *)
(***************************************************************************)
EXTENDS Merger

CONSTANTS
    Consumers,
    Whole      \* RestSink's

VARIABLES prev, cached, req, answer, seen, told

Rest == INSTANCE RestSink WITH
            Fields <- Streamed, Unheld <- {}, Powers <- Power, Gears <- Gear, Lives <- Live,
            Contents <- [power: Power, gear: Gear, live: Live, has: SUBSET Streamed],
            Floor <- 0, snap <- Served

rest == <<prev, cached, req, answer, seen, told>>

ComposedInit == Init /\ Rest!RestInit

\* A step of the cache: the handlers' state stays, and when time or the snapshot has moved
\* the last step told nobody anything.
CacheStep ==
    /\ Next
    /\ answer' = IF UNCHANGED <<clock, Served>> THEN answer ELSE Rest!NoAnswer
    /\ UNCHANGED <<prev, cached, req, seen, told>>

ServeStep == UNCHANGED vars /\ Rest!Serve

ComposedNext == CacheStep \/ ServeStep

ComposedSpec == ComposedInit /\ [][ComposedNext]_<<vars, rest>>

\* The handlers on the cache are the handlers on the register.
SinkOnRegister == Rest!RestSpec

-----------------------------------------------------------------------------
(* The fast path.                                                           *)

\* Two observations have two times: an instant of the model is an interval of real
\* time, and within one the emitted time would not advance for that reason alone.
ObservedAnew ==
    LET old == {snap.fetchedAt, snap.streamFields}
    IN  snap' = snap \/ snap'.fetchedAt \notin old \/ snap'.streamFields \notin old

AnewSpec == ComposedInit /\ [][ComposedNext /\ ObservedAnew]_<<vars, rest>>

\* What the comment on translate says of its fast path: while AsOf has not advanced
\* the encoded body cannot have changed.
CachedIsCurrent == Rest!CachedIsCurrent
=============================================================================
