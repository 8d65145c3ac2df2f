\* ClaudeCodeStreamProvider.ts:15 against a respawn in the grace period.
CONSTANTS
  Detached = FALSE
  MaxMessages = 2
  MaxApprovals = 1
SPECIFICATION Spec
INVARIANT NoOrphanChild
\* A session that has ended, and a bound that is used up, leave nothing to do.
CHECK_DEADLOCK FALSE
