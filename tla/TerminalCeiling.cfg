SPECIFICATION Spec
INVARIANT CeilingTerminates
CHECK_DEADLOCK FALSE
