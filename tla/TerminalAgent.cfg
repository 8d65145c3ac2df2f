SPECIFICATION FairSpec
INVARIANTS DoomedIsEscalated NoOrphans
PROPERTIES SignalsAreSafe DoomedDies ExitEndsSession
\* The host exits and its child dies: there is nothing left to do.
CHECK_DEADLOCK FALSE
