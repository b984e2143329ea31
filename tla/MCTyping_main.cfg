SPECIFICATION Spec
CONSTANTS
    p1 = p1
    p2 = p2
    me = me
    other = other
    Pages <- TwoPages
    Users <- TwoUsers
    Me = me
    MaxStarts = 2
    MaxDrops = 2
INVARIANT TypingIsTrue
PROPERTY TypingEnds
CHECK_DEADLOCK FALSE
