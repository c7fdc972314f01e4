\* Two connections, two lines, one reset; both directions fill up.
SPECIFICATION FairSpec
CONSTANTS
    MaxConns = 2
    MaxLines = 2
    MaxResets = 1
    UpRoom = 1
    DownRoom = 1
INVARIANTS
    TypeOK
    NothingLostWhileUp
    HandledInOrder
    CurrentIsServed
    
PROPERTIES MessagesAreRead GoneCloses
CHECK_DEADLOCK FALSE
