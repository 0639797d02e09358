SPECIFICATION Spec
INVARIANTS OutputFollows
PROPERTIES SignalHolds TitlesKept CallsReachTheirObject PromisesKept
\* Every machine may stop: users do, and calls are bounded.
CHECK_DEADLOCK FALSE
