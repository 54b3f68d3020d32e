SPECIFICATION LifecycleFairSpec
PROPERTY SignalStopsTheLoop
CHECK_DEADLOCK FALSE
