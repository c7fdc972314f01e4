\* Two connections, two lines, one reset; both directions fill up.
SPECIFICATION FairSpec
CONSTANTS
    MaxConns = 2
    MaxLines = 2
    MaxResets = 1
    UpRoom = 1
    DownRoom = 1
CHECK_DEADLOCK FALSE
INVARIANT AllGoneReleased
