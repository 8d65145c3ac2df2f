\* README.md:92 against the recoverable-failure path.
CONSTANT MaxMessages = 2
SPECIFICATION Spec
INVARIANT NoStrandedMessage
\* A session that has ended, and a bound that is used up, leave nothing to do.
CHECK_DEADLOCK FALSE
