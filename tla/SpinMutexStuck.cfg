CONSTANT Procs = {p1, p2}
SPECIFICATION FairSpec
PROPERTY WaitersProgress
CHECK_DEADLOCK FALSE
