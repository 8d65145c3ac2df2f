\* One Codex session, up to three messages: two turns queue behind one.
CONSTANT MaxMessages = 3
SPECIFICATION FairSpec
INVARIANTS
  StatusMatchesTurn
  ChildIsSupervised
  PromptsInOrder
PROPERTIES
  TurnsEnd
  ImplementsContract
\* A session that has ended, and a bound that is used up, leave nothing to do.
CHECK_DEADLOCK FALSE
