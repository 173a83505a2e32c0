\* One connection from Run to Release carrying two frames of any of the
\* boundary sizes, split by TCP in every way the read loop can see, with
\* the connection breaking at any point.  Deadlock checking is off: main
\* returns after Release, the client stops after MaxFrames frames.
CONSTANTS
    Sizes <- BoundarySizes
    MaxMessageSize = 1048576
    MaxFrames = 2
    Conn = k1
SPECIFICATION Spec
INVARIANT TypeOK
INVARIANT InSync
INVARIANT CloseJustified
INVARIANT ConnsCounted
PROPERTY ChannelRefined
CHECK_DEADLOCK FALSE
