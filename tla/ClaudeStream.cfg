\* A child in a group of its own, two messages, two permission requests.
CONSTANTS
  Detached = TRUE
  MaxMessages = 2
  MaxApprovals = 2
SPECIFICATION FairSpec
INVARIANTS
  DoomedIsEscalated
  FilesMatchChild
  AutoOnlySimilar
PROPERTIES
  NoLateAllow
  RequestsAreAnswered
  ApprovalStatusClears
  ImplementsContract
\* A session that has ended, and a bound that is used up, leave nothing to do.
CHECK_DEADLOCK FALSE
