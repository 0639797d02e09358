\* The program is started twice, one start beside the other or after it, with
\* one connection, one uncaught error and whatever the operator does.
SPECIFICATION Spec
CONSTANTS
    Procs = {p1, p2}
    Socks = {s1}
    Nobody = Nobody
    MaxErrors = 1
INVARIANTS ControlFilesTrue
PROPERTIES NothingCutOff ShutdownEnds
CHECK_DEADLOCK FALSE
