--------------------------- MODULE TerminalAgent ---------------------------
(***************************************************************************)
(* One session of TerminalAgentProvider (src/src/providers/                *)
(* AgentProvider.ts): a configured command runs from the start of the      *)
(* session to its end; its output may drive the status by marker lines.    *)
(* With it, the module-wide safety net that kills what still runs when the *)
(* host process exits (process.on("exit")).                                *)
(*                                                                         *)
(* Abstractions. Every status other than completed and failed is           *)
(* "working". Chat messages only reach the child's stdin and are left out, *)
(* as are summaries, test results and the log. A signal to our own child   *)
(* does not fail, so the child's "error" event means that it could not be  *)
(* spawned. The child may start processes of its own, which share its      *)
(* process group; in container mode it is the client of an engine that     *)
(* owns the container. An exited child's pipe may still hold output.       *)
(***************************************************************************)
EXTENDS Naturals

VARIABLES
  mode,               \* the sandbox: "none", "group" (own process group) or
                      \*   "container" (too, and a container); never changes
  status,             \* session.status
  stopped, timedOut,
  child,              \* "none", "live" or "exited"
  sig,                \* the strongest signal it was sent
  members,            \* other processes of its group are running
  container,          \* its container is running
  removal,            \* the engine was asked to remove the container
  registered,         \* the registries of the safety net that hold it
  runtimeTimer,       \* "off", "armed" or "fired"
  stopTimer, strays,  \* the stop timer is pending; overwritten ones that are
  host                \* "up" or "down"

process == <<child, sig, members, container, removal, registered>>
timers == <<runtimeTimer, stopTimer, strays>>
vars == <<mode, status, stopped, timedOut, process, timers, host>>

Mode == {"none", "group", "container"}
Registry == {"activeChildren", "detachedGroupPids", "activeContainers"}
Terminal == {"completed", "failed"}

TypeOK ==
  /\ mode \in Mode
  /\ status \in {"new", "working"} \cup Terminal
  /\ {stopped, timedOut, members, container, removal, stopTimer} \subseteq BOOLEAN
  /\ child \in {"none", "live", "exited"}
  /\ sig \in {"none", "term", "kill"}
  /\ registered \subseteq Registry
  /\ runtimeTimer \in {"off", "armed", "fired"}
  /\ strays \in 0..1
  /\ host \in {"up", "down"}

Init ==
  /\ mode \in Mode
  /\ status = "new" /\ stopped = FALSE /\ timedOut = FALSE
  /\ child = "none" /\ sig = "none" /\ members = FALSE
  /\ container = FALSE /\ removal = FALSE /\ registered = {}
  /\ runtimeTimer = "off" /\ stopTimer = FALSE /\ strays = 0
  /\ host = "up"

detached == mode # "none"

Registries ==
  {"activeChildren"} \cup (IF detached THEN {"detachedGroupPids"} ELSE {})
    \cup (IF mode = "container" THEN {"activeContainers"} ELSE {})

(* A step of the host.                                                     *)
Handler == host = "up" /\ UNCHANGED <<mode, host>>

-----------------------------------------------------------------------------
(* forNewSession with the microtasks it queues: the child runs; or the     *)
(* container settings are missing or spawn() threw, or the child's "error" *)
(* event follows, and the session fails.                                   *)
Start ==
  /\ Handler /\ status = "new"
  /\ \/ /\ status' = "working"
        /\ child' = "live"
        /\ container' = (mode = "container")
        /\ registered' = Registries
        /\ runtimeTimer' = "armed"
     \/ /\ status' = "failed"
        /\ UNCHANGED <<child, container, registered, runtimeTimer>>
  /\ UNCHANGED <<stopped, timedOut, sig, members, removal, stopTimer, strays>>

(* The signal goes to the group, if the child has one. SIGTERM may be      *)
(* ignored. Slip: a child that has exited is signalled too.                *)
terminateAny(signal) == sig' = IF sig = "kill" THEN sig ELSE signal
terminateChild(signal) ==
  sig' = IF child = "live" /\ sig # "kill" THEN signal ELSE sig

(* Slip: SIGTERM only.                                                     *)
terminateOnly == terminateChild("term") /\ UNCHANGED <<stopTimer, strays>>
terminateWithEscalation ==
  /\ terminateChild("term")
  /\ strays' = IF stopTimer THEN strays + 1 ELSE strays
  /\ stopTimer' = TRUE

StopSession ==
  /\ Handler
  /\ status \notin Terminal \cup {"new"} /\ ~stopped
  /\ stopped' = TRUE
  /\ \/ /\ child = "live"
        /\ terminateWithEscalation
        /\ UNCHANGED status
     \/ /\ child # "live"
        /\ status' = "failed"
        /\ UNCHANGED <<sig, stopTimer, strays>>
  /\ UNCHANGED <<timedOut, child, members, container, removal, registered, runtimeTimer>>

-----------------------------------------------------------------------------
(* A line of output: plain text or another marker ("silent"), or a marker  *)
(* with a status. No status is refused, and none is kept.                  *)
Line == {"silent", "working", "completed", "failed"}

processLine(s, line) == IF line = "silent" THEN s ELSE line

Output(line) ==
  /\ Handler /\ child # "none"
  /\ status' = processLine(status, line)
  /\ UNCHANGED <<stopped, timedOut, process, timers>>

(* The child's "exit" event; what is left in the buffers is a last line. A *)
(* client that was killed leaves its container behind, any other one waits *)
(* for it.                                                                 *)
ExitCode == {"zero", "other"}

(* Slip: a stopped session is left to the stop handler, which is done.     *)
OutcomeUnlessStopped(s, code) ==
  IF stopped THEN s
  ELSE IF ~timedOut /\ code = "zero" THEN "completed" ELSE "failed"

Outcome(s, code) ==
  IF stopped THEN (IF s \in Terminal THEN s ELSE "failed")
  ELSE IF ~timedOut /\ code = "zero" THEN "completed" ELSE "failed"

Exit(line, code) ==
  /\ Handler /\ child = "live"
  /\ child' = "exited"
  /\ container' \in {FALSE, container /\ sig = "kill"}
  /\ registered' = {}
  /\ runtimeTimer' = IF runtimeTimer = "armed" THEN "off" ELSE runtimeTimer
  /\ stopTimer' = FALSE
  /\ status' = Outcome(processLine(status, line), code)
  /\ UNCHANGED <<stopped, timedOut, sig, members, removal, strays>>

(* The session ran for maxRuntimeSeconds.                                  *)
RuntimeTimeout ==
  /\ Handler /\ runtimeTimer = "armed"
  /\ runtimeTimer' = "fired"
  /\ IF stopped \/ status \in Terminal
     THEN UNCHANGED <<timedOut, sig, stopTimer, strays>>
     ELSE timedOut' = TRUE /\ terminateWithEscalation
  /\ UNCHANGED <<status, stopped, child, members, container, removal, registered>>

(* The grace period is over: SIGKILL to the group, and the engine is asked *)
(* to remove the container. Slip: the group's leader only.                 *)
KillNothingElse == UNCHANGED <<members, removal>>
KillRest ==
  /\ members' = (members /\ ~detached)
  /\ removal' = (removal \/ mode = "container")

StopTimeout ==
  /\ Handler
  /\ \/ stopTimer /\ stopTimer' = FALSE /\ UNCHANGED strays
     \/ strays > 0 /\ strays' = strays - 1 /\ UNCHANGED stopTimer
  /\ terminateChild("kill")
  /\ IF child = "live" THEN KillRest ELSE UNCHANGED <<members, removal>>
  /\ UNCHANGED <<status, stopped, timedOut, child, container, registered, runtimeTimer>>

(* process.on("exit"): SIGKILL to what the registries hold.                *)
HostExit ==
  /\ host = "up" /\ host' = "down"
  /\ sig' = IF registered \cap {"activeChildren", "detachedGroupPids"} # {}
            THEN "kill" ELSE sig
  /\ members' = (members /\ "detachedGroupPids" \notin registered)
  /\ removal' = (removal \/ "activeContainers" \in registered)
  /\ UNCHANGED <<mode, status, stopped, timedOut, child, container, registered, timers>>

-----------------------------------------------------------------------------
(* The operating system: a process dies that no host is there to reap; the *)
(* agent's own processes come and go; the engine does as it was asked.     *)
Dies ==
  /\ host = "down" /\ child = "live"
  /\ child' = "exited"
  /\ UNCHANGED <<sig, members, container, removal, registered>>

Forks ==
  /\ child = "live" /\ sig # "kill"
  /\ members' = TRUE
  /\ UNCHANGED <<child, sig, container, removal, registered>>

MembersExit ==
  /\ members /\ members' = FALSE
  /\ UNCHANGED <<child, sig, container, removal, registered>>

EngineRemoves ==
  /\ removal /\ container /\ container' = FALSE
  /\ UNCHANGED <<child, sig, members, removal, registered>>

System ==
  /\ \/ Dies \/ Forks \/ MembersExit \/ EngineRemoves
  /\ UNCHANGED <<mode, status, stopped, timedOut, timers, host>>

Next ==
  \/ Start \/ StopSession \/ RuntimeTimeout \/ StopTimeout \/ HostExit \/ System
  \/ \E line \in Line : Output(line) \/ \E code \in ExitCode : Exit(line, code)

(* Timers fire, and a process that was sent SIGKILL dies. Nothing else is  *)
(* owed: the phone may never stop the session, the agent never exit.       *)
Fairness ==
  /\ WF_vars(RuntimeTimeout) /\ WF_vars(StopTimeout)
  /\ WF_vars(/\ sig = "kill"
             /\ \/ \E line \in Line, code \in ExitCode : Exit(line, code)
                \/ System /\ Dies)

Spec == Init /\ [][Next]_vars
FairSpec == Spec /\ Fairness

-----------------------------------------------------------------------------
(* Once the user stopped the session or its time ran out, SIGKILL was sent *)
(* to the child or a timer that sends it is pending: neither a second      *)
(* termination, which overwrites the timer, nor a status marker undoes it. *)
DoomedIsEscalated ==
  host = "up" /\ child = "live" /\ (stopped \/ timedOut) =>
    sig = "kill" \/ (sig = "term" /\ (stopTimer \/ strays > 0))

(* No orphans of a child that was supervised. A host that exits has sent   *)
(* SIGKILL to its child, and whoever sends SIGKILL reaches all of it: the  *)
(* processes of the group and the container, which the death of the        *)
(* engine's client does not touch. A child that exits by itself, or at     *)
(* SIGTERM, is supervised no more, and its group may outlive it.           *)
NoOrphans ==
  /\ host = "down" /\ child = "live" => sig = "kill"
  /\ sig = "kill" => /\ detached => ~members
                     /\ mode = "container" => removal

(* A pending stop timer, current or overwritten, never signals a child     *)
(* that has exited: its pid may belong to another process by then.         *)
SignalsAreSafe == [][sig' # sig => child = "live"]_vars

(* A stop or the runtime limit always ends the child.                      *)
DoomedDies == stopped \/ timedOut ~> child # "live"

(* The exit of the child ends the session, whatever the agent printed last *)
(* and whoever ended it, and a session whose time ran out has failed. (It  *)
(* may not stay ended: output read later, with a status marker, makes it   *)
(* look alive again.)                                                      *)
ExitEndsSession ==
  [][host = "up" /\ child = "live" /\ child' = "exited" =>
       status' \in Terminal /\ (timedOut => stopped \/ status' = "failed")]_vars

(* "Every session has a wall-clock ceiling (config.maxRuntimeSeconds ...); *)
(* exceeding it terminates the process" (AgentProvider.ts:1108). A marker  *)
(* line with the status completed or failed makes the timer return early,  *)
(* and stopSession too, while the child runs on.                           *)
CeilingTerminates == runtimeTimer = "fired" /\ child = "live" => sig # "none"
=============================================================================
