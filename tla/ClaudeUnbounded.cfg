\* ClaudeCodeStreamProvider.ts:36 against a message sent during a turn.
CONSTANTS
  Detached = TRUE
  MaxMessages = 2
  MaxApprovals = 1
SPECIFICATION Spec
INVARIANT TurnIsBounded
\* A session that has ended, and a bound that is used up, leave nothing to do.
CHECK_DEADLOCK FALSE
