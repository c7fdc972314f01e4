\* Two ids, every failure of a write, restarts, and Delete beside appends.
SPECIFICATION Spec
SYMMETRY Symmetry
CONSTANTS
    g1 = g1
    g2 = g2
    f1 = f1
    f2 = f2
    Npcs = {bob, alias}
    Agents = {bob}
    Files <- MCFiles
    Goals <- MCGoals
    NoGoal = NoGoal
    None = None
    Window = 2
    Chunk = 3
    MaxSeq = 3
    MaxLines = 3
    MaxTears = 1
INVARIANTS
    TypeOK
    
    
    LossIsBounded
    TailIsSuffix
    PagesJoin
    
