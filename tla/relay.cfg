CONSTANTS
    Snapshots <- Starts
    Life <- Week
    Stream <- Frames
SPECIFICATION Spec
INVARIANTS
    NoPhantom
    SourcesAgree
    ReadingsSurvive
PROPERTIES
    HopIsTransparent
    SleepHoldsDownstream
