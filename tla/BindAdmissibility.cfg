SPECIFICATION GateSpec
INVARIANT FailClosed
PROPERTY NeverLoosens
CHECK_DEADLOCK FALSE
