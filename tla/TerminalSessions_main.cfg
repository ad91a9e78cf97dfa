\* One session, on either platform, closed by its widget or by close_all.
CONSTANTS
    Sessions = {s1}
    PtyRoom = 1
    MaxIn = 3
    MaxOut = 3
SPECIFICATION FairSpec
INVARIANT EofShowsAll
PROPERTY ClosedIsLast
 
PROPERTY ExitNoticed
CHECK_DEADLOCK FALSE
