--------------------------- MODULE AgentLifecycle ---------------------------
(***************************************************************************)
(* What an AgentProvider that runs a real agent promises the session store *)
(* (src/src/providers/AgentProvider.ts, interface AgentProvider), for one  *)
(* session:                                                                *)
(*                                                                         *)
(*   - it supervises at most one agent process at a time;                  *)
(*   - once the session has ended ("failed" or "completed") it stays ended *)
(*     and no further process is started for it;                           *)
(*   - a stop request ends the session, and no process outlives the end of *)
(*     the session for ever.                                               *)
(*                                                                         *)
(* The provider modules implement this specification; they do not extend   *)
(* it.                                                                     *)
(***************************************************************************)
CONSTANT Process      \* the agent processes a session may ever start

VARIABLES
  phase,              \* "open", "stopping" (stop requested) or "ended"
  procs               \* the agent processes that have not yet been reaped

vars == <<phase, procs>>

TypeOK ==
  /\ phase \in {"open", "stopping", "ended"}
  /\ procs \in SUBSET Process

Init ==
  /\ phase = "open"
  /\ procs = {}

(* A process starts. Handing it its input may fail, which ends the session *)
(* although the process is there.                                          *)
Launch(p) ==
  /\ phase = "open"
  /\ procs = {}
  /\ procs' = {p}
  /\ phase' \in {"open", "ended"}

(* The process is reaped; the session goes on (a turn finished) or ends.   *)
Reap(p) ==
  /\ p \in procs
  /\ procs' = procs \ {p}
  /\ phase' \in IF phase = "open" THEN {"open", "ended"} ELSE {"ended"}

(* The phone asks to stop while a process runs.                            *)
RequestStop ==
  /\ phase = "open"
  /\ procs # {}
  /\ phase' = "stopping"
  /\ UNCHANGED procs

(* The session ends: a failure, a limit, or a stop with nothing to kill.   *)
End ==
  /\ phase # "ended"
  /\ phase' = "ended"
  /\ UNCHANGED procs

Next ==
  \/ \E p \in Process : Launch(p) \/ Reap(p)
  \/ RequestStop
  \/ End

(* The provider owes the session the end of every process it has decided   *)
(* to get rid of, and the end of every session it was asked to stop.       *)
ReapDoomed == phase # "open" /\ \E p \in Process : Reap(p)

SafetySpec == Init /\ [][Next]_vars
Spec == SafetySpec /\ WF_vars(ReapDoomed)

-----------------------------------------------------------------------------
(* Ended is final: no step leaves it, and none starts a process in it.     *)
EndedIsFinal == [][phase = "ended" => phase' = "ended" /\ procs' \subseteq procs]_vars
=============================================================================
