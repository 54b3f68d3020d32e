SPECIFICATION LifecycleSpec
INVARIANT NothingLeaks
CHECK_DEADLOCK FALSE
