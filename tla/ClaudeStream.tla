---------------------------- MODULE ClaudeStream ----------------------------
(***************************************************************************)
(* One session of ClaudeCodeStreamProvider with its ApprovalBroker         *)
(* (src/src/providers/ClaudeCodeStreamProvider.ts, approvalBridge.ts) and  *)
(* the copy of the session that the store keeps (sessionStore.ts, absorb), *)
(* by which the phone's decisions and stops are routed. One long-lived     *)
(* `claude` child serves the messages; it is spawned again when a message  *)
(* finds it gone. Its permission requests wait for the phone.              *)
(*                                                                         *)
(* An action is one macrotask with the microtasks it queues.               *)
(*                                                                         *)
(* Abstractions. Every status of a busy agent is "working". A request is a *)
(* low-risk file write ("write") or anything else ("other"). The chat, the *)
(* diff, the test and the terminal output of a line are "silent": they     *)
(* only make the store copy the session. An exited child's pipe may still  *)
(* hold output. A signal to our own child does not fail, so a child's      *)
(* "error" event means that it could not be spawned; a synchronous failure *)
(* to spawn has a cause that outlasts the macrotask. Writing to a pipe     *)
(* that is still writable does not throw.                                  *)
(***************************************************************************)
EXTENDS Naturals, FiniteSets

CONSTANTS
  Detached,           \* the sandbox mode gives the child its own process group
  MaxMessages,        \* bound: messages sent
  MaxApprovals        \* bound: permission requests made

ASSUME DetachedAssumption == Detached \in BOOLEAN
ASSUME BoundsAssumption == MaxMessages \in Nat /\ MaxApprovals \in Nat

VARIABLES
  status, before, shown,       \* session.status, statusBeforeApproval, and the
                               \*   approvalRequest's id (0: null)
  cached,                      \* the store's copy of status and shown
  stopped, timedOut, turnActive,
  child, childExited,          \* this.child (0: null) and its exit flag
  runtimeTimer, stopTimer,     \* a timer is pending
  strays,                      \* stop timers whose handle was overwritten
  bridge,                      \* the session's bridge token is registered
  held, dirs,                  \* whose MCP config directory mcpDir names (0:
                               \*   none); whose are on disk
  proc,                        \* the children: state, signals sent, messages
                               \*   written and not yet answered by a result
  approval,                    \* what became of each permission request
  allowSimilar,                \* allowedActionTypes has write_file
  sent, requested              \* messages and permission requests so far

vars == <<status, before, shown, cached, stopped, timedOut, turnActive, child,
          childExited, runtimeTimer, stopTimer, strays, bridge, held, dirs,
          proc, approval, allowSimilar, sent, requested>>

Children == 1..(MaxMessages + 1)
Approvals == 1..MaxApprovals
Kind == {"write", "other"}
Status == {"new", "working", "idle", "approvalNeeded", "failed"}

(* "unwritten": no child, for the config could not be written.             *)
Proc == [state : {"none", "unwritten", "live", "exited"},
         sig   : {"none", "term", "kill"},
         owed  : 0..MaxMessages]

NoProc == [state |-> "none", sig |-> "none", owed |-> 0]

Approval == [state : {"none", "pending", "approved", "auto", "denied"},
             kind  : Kind]

TypeOK ==
  /\ status \in Status
  /\ before \in {"none", "working", "idle"}
  /\ shown \in Approvals \cup {0}
  /\ cached \in [status : Status, shown : Approvals \cup {0}]
  /\ {stopped, timedOut, turnActive, childExited, runtimeTimer, stopTimer,
      bridge, allowSimilar} \subseteq BOOLEAN
  /\ child \in Children \cup {0} /\ held \in Children \cup {0}
  /\ strays \in 0..(MaxMessages + 1)
  /\ dirs \subseteq Children
  /\ proc \in [Children -> Proc]
  /\ approval \in [Approvals -> Approval]
  /\ sent \in 0..MaxMessages
  /\ requested \in 0..MaxApprovals

Init ==
  /\ status = "new" /\ before = "none" /\ shown = 0
  /\ cached = [status |-> "new", shown |-> 0]
  /\ stopped = FALSE /\ timedOut = FALSE /\ turnActive = FALSE
  /\ child = 0 /\ childExited = FALSE
  /\ runtimeTimer = FALSE /\ stopTimer = FALSE /\ strays = 0
  /\ bridge = FALSE /\ held = 0 /\ dirs = {}
  /\ proc = [c \in Children |-> NoProc]
  /\ approval = [a \in Approvals |-> [state |-> "none", kind |-> "other"]]
  /\ allowSimilar = FALSE
  /\ sent = 0 /\ requested = 0

(* The state as a value: a handler is the composition of its calls.        *)
Now == [status |-> status, before |-> before, shown |-> shown, cached |-> cached,
        stopped |-> stopped, timedOut |-> timedOut, turnActive |-> turnActive,
        child |-> child, childExited |-> childExited,
        runtimeTimer |-> runtimeTimer, stopTimer |-> stopTimer, strays |-> strays,
        bridge |-> bridge, held |-> held, dirs |-> dirs, proc |-> proc,
        approval |-> approval, allowSimilar |-> allowSimilar]

Become(next) == \E w \in {next} :
  /\ status' = w.status /\ before' = w.before /\ shown' = w.shown
  /\ cached' = w.cached /\ stopped' = w.stopped /\ timedOut' = w.timedOut
  /\ turnActive' = w.turnActive /\ child' = w.child
  /\ childExited' = w.childExited /\ runtimeTimer' = w.runtimeTimer
  /\ stopTimer' = w.stopTimer /\ strays' = w.strays /\ bridge' = w.bridge
  /\ held' = w.held /\ dirs' = w.dirs /\ proc' = w.proc
  /\ approval' = w.approval /\ allowSimilar' = w.allowSimilar

-----------------------------------------------------------------------------
(* An event reaches the store, which copies the session.                   *)
emit(w) == [w EXCEPT !.cached = [status |-> w.status, shown |-> w.shown]]

setStatus(w, s) == emit([w EXCEPT !.status = s])
isTerminal(w) == w.status = "failed"

failSession(w) ==
  emit([w EXCEPT !.turnActive = FALSE, !.runtimeTimer = FALSE,
                 !.status = "failed", !.shown = 0])

(* finalizeAsStoppedByUser and the failure that a microtask brings.        *)
failUnlessTerminal(w) == IF isTerminal(w) THEN w ELSE failSession(w)

recoverTurn(w) ==
  IF w.stopped \/ isTerminal(w) THEN w
  ELSE setStatus([w EXCEPT !.turnActive = FALSE, !.timedOut = FALSE,
                           !.runtimeTimer = FALSE, !.before = "none",
                           !.shown = 0], "idle")

hasChild(w) == w.child # 0 /\ ~w.childExited

terminateChild(w, signal) ==
  IF hasChild(w) /\ w.proc[w.child].sig # "kill"
  THEN [w EXCEPT !.proc[w.child].sig = signal] ELSE w

(* A stop timer that is already pending is not cleared: its handle is      *)
(* overwritten. Slip: SIGTERM only.                                        *)
terminateOnly(w) == terminateChild(w, "term")
terminateWithEscalation(w) ==
  [terminateChild(w, "term") EXCEPT
     !.strays = IF w.stopTimer THEN @ + 1 ELSE @, !.stopTimer = TRUE]

unregisterApprovalBridge(w) == [w EXCEPT !.bridge = FALSE]

(* Slip: the route entry goes, the files stay.                             *)
cleanupBridgeOnly(w) == [w EXCEPT !.bridge = FALSE]
cleanupRuntimeArtifacts(w) ==
  [w EXCEPT !.bridge = FALSE, !.dirs = @ \ {w.held}, !.held = 0]

-----------------------------------------------------------------------------
(* The broker and the provider's two callbacks.                            *)
Pending(w) == {a \in Approvals : w.approval[a].state = "pending"}

onApprovalRequired(w, a) ==
  IF isTerminal(w) THEN w
  ELSE emit([w EXCEPT !.before = IF w.status = "approvalNeeded" THEN @ ELSE w.status,
                      !.status = "approvalNeeded", !.shown = a])

(* Called with the request settled. The status comes back when no other    *)
(* request is pending.                                                     *)
onApprovalResolved(w) ==
  LET cleared == [emit(w) EXCEPT !.shown = 0]
  IN IF isTerminal(w) THEN emit(w)
     ELSE IF Pending(w) = {} /\ w.status = "approvalNeeded"
     THEN setStatus([cleared EXCEPT !.before = "none"],
                    IF w.before = "none" THEN "working" ELSE w.before)
     ELSE cleared

(* disposeAll denies all that is pending. It empties the map only after    *)
(* the callbacks, which therefore never restore the status; the event of   *)
(* the last one goes out before it clears `shown`. Slip: nothing denied.   *)
disposeNone(w) == w
disposeAll(w) ==
  IF Pending(w) = {} THEN w
  ELSE [w EXCEPT
          !.approval = [a \in Approvals |->
                          IF a \in Pending(w) THEN [@[a] EXCEPT !.state = "denied"]
                          ELSE @[a]],
          !.cached = [status |-> w.status,
                      shown  |-> IF Cardinality(Pending(w)) = 1 THEN w.shown ELSE 0],
          !.shown = IF isTerminal(w) THEN @ ELSE 0]

-----------------------------------------------------------------------------
(* spawnProcess. `outcome`: the MCP config's directory could not be made   *)
(* ("noDirectory"), or the config not be written into it ("noConfig"): the *)
(* field names the directory by then, and no one cleans up; the temp       *)
(* directory or spawn() threw ("threw"); the child could not be spawned    *)
(* and its "error" follows before any other macrotask ("noProcess").       *)
Outcome == {"ok", "noDirectory", "noConfig", "threw", "noProcess"}
Unprepared == {"noDirectory", "noConfig", "threw"}

(* At most one per message and the first one.                              *)
NextChild(w) == CHOOSE c \in Children :
  /\ w.proc[c].state = "none"
  /\ \A d \in Children : w.proc[d].state = "none" => c <= d

spawnProcess(w, outcome) ==
  LET c == NextChild(w)
      fresh == setStatus([w EXCEPT !.childExited = FALSE, !.timedOut = FALSE], "working")
      made == [fresh EXCEPT !.held = c, !.dirs = @ \cup {c}]
      prepared == [made EXCEPT !.bridge = TRUE]
  IN CASE outcome = "noDirectory" -> fresh
       [] outcome = "noConfig" -> [made EXCEPT !.proc[c] = [NoProc EXCEPT !.state = "unwritten"]]
       [] outcome = "threw" -> cleanupRuntimeArtifacts(prepared)
       [] outcome \in {"ok", "noProcess"} ->
            [prepared EXCEPT !.child = c,
                             !.proc[c] = IF outcome = "ok"
                                         THEN [NoProc EXCEPT !.state = "live"] ELSE NoProc]

(* The child's "error" event.                                              *)
childError(w) ==
  LET gone == [w EXCEPT !.childExited = TRUE, !.child = 0, !.runtimeTimer = FALSE,
                        !.stopTimer = FALSE]
      clean == cleanupRuntimeArtifacts(disposeAll(gone))
  IN IF clean.stopped THEN failUnlessTerminal(clean) ELSE recoverTurn(clean)

(* What a failed spawn leads to once the macrotask's own code is done.     *)
Aftermath(w, outcome) ==
  CASE outcome \in Unprepared -> failUnlessTerminal(w)
    [] outcome = "noProcess" -> childError(w)
    [] outcome = "ok" -> w

(* forNewSession.                                                          *)
Start ==
  /\ status = "new"
  /\ \E outcome \in Outcome :
       Become(Aftermath(spawnProcess(Now, outcome), outcome))
  /\ UNCHANGED <<sent, requested>>

(* A child this provider killed directly is not written to; a kill of its  *)
(* group does not mark it.                                                 *)
killed(w, c) == ~Detached /\ w.proc[c].sig # "none"

(* Slip: a child on its way out is respawned whatever the mode.            *)
AcceptsUnsignalled(w) == hasChild(w) /\ w.proc[w.child].sig = "none"
Accepts(w) == hasChild(w) /\ ~killed(w, w.child)

armTurnRuntimeTimer(w) ==
  [w EXCEPT !.runtimeTimer = TRUE, !.turnActive = TRUE, !.timedOut = FALSE]

SendMessage ==
  /\ status # "new" /\ sent < MaxMessages
  /\ ~stopped /\ ~isTerminal(Now)
  /\ \E outcome \in Outcome :
       LET noted == emit(Now)
           w == IF Accepts(noted) THEN noted ELSE spawnProcess(noted, outcome)
           written == setStatus(armTurnRuntimeTimer(
                                  [w EXCEPT !.proc[w.child].owed = @ + 1]), "working")
       IN /\ Accepts(noted) => outcome = "ok"
          /\ Become(Aftermath(IF Accepts(w) THEN written ELSE recoverTurn(w), outcome))
  /\ sent' = sent + 1
  /\ UNCHANGED requested

(* The store's and the provider's stopSession.                             *)
StopSession ==
  /\ status # "new" /\ cached.status # "failed"
  /\ ~stopped /\ ~isTerminal(Now)
  /\ LET w == unregisterApprovalBridge(disposeAll([Now EXCEPT !.stopped = TRUE]))
     IN Become(IF hasChild(w) THEN terminateWithEscalation(w) ELSE failUnlessTerminal(w))
  /\ UNCHANGED <<sent, requested>>

-----------------------------------------------------------------------------
(* The child's output: "silent", "progress" (a status of a busy agent),    *)
(* "result" (the turn is over) and "error" (an error result).              *)
Line == {"silent", "progress", "result", "error"}

(* A status while an approval is shown is only remembered.                 *)
statusEmission(w, s) ==
  IF w.status = "approvalNeeded" /\ w.before # "none" THEN [w EXCEPT !.before = s]
  ELSE setStatus(w, s)

processStreamLine(w, c, line) ==
  LET failing == [w EXCEPT !.turnActive = FALSE, !.runtimeTimer = FALSE]
      failed == failSession(unregisterApprovalBridge(disposeAll(failing)))
      answered == [w EXCEPT !.turnActive = FALSE, !.timedOut = FALSE,
                            !.runtimeTimer = FALSE,
                            !.proc[c].owed = IF @ = 0 THEN 0 ELSE @ - 1]
  IN CASE line = "silent" \/ isTerminal(w) -> emit(w)
       [] line = "progress" /\ ~isTerminal(w) -> statusEmission(w, "working")
       [] line = "result" /\ ~isTerminal(w) -> statusEmission(emit(answered), "idle")
       [] line = "error" /\ ~isTerminal(w) ->
            IF hasChild(failed) THEN terminateWithEscalation(failed) ELSE failed

Output(c, line) ==
  /\ proc[c].state \in {"live", "exited"}
  /\ Become(processStreamLine(Now, c, line))
  /\ UNCHANGED <<sent, requested>>

(* The child's "exit" event, with the line left in the buffer. It clears   *)
(* what the fields hold, whichever child they are about.                   *)
ExitCode == {"zero", "other"}

Exit(c) ==
  /\ proc[c].state = "live"
  /\ \E line \in Line, code \in ExitCode :
       LET gone == [Now EXCEPT !.proc[c] = [NoProc EXCEPT !.state = "exited"],
                               !.childExited = TRUE, !.child = 0,
                               !.runtimeTimer = FALSE, !.stopTimer = FALSE]
           w == cleanupRuntimeArtifacts(disposeAll(processStreamLine(gone, c, line)))
       IN Become(IF w.stopped THEN failUnlessTerminal(w)
                 ELSE IF ~w.timedOut /\ code = "zero" /\ w.status = "idle" THEN w
                 ELSE recoverTurn(w))
  /\ UNCHANGED <<sent, requested>>

-----------------------------------------------------------------------------
(* The turn ran for maxRuntimeSeconds.                                     *)
RuntimeTimeout ==
  /\ runtimeTimer
  /\ LET fired == [Now EXCEPT !.runtimeTimer = FALSE]
         w == unregisterApprovalBridge(disposeAll(
                [fired EXCEPT !.turnActive = FALSE, !.timedOut = TRUE]))
     IN Become(IF ~turnActive \/ stopped \/ isTerminal(Now) THEN fired
               ELSE IF hasChild(w) THEN terminateWithEscalation(w)
               ELSE recoverTurn(cleanupRuntimeArtifacts(w)))
  /\ UNCHANGED <<sent, requested>>

(* A grace period is over: SIGKILL to whatever child the field names.      *)
StopTimeout ==
  /\ \/ stopTimer /\ Become(terminateChild([Now EXCEPT !.stopTimer = FALSE], "kill"))
     \/ strays > 0 /\ Become(terminateChild([Now EXCEPT !.strays = @ - 1], "kill"))
  /\ UNCHANGED <<sent, requested>>

-----------------------------------------------------------------------------
(* A permission request reaches the loopback route while the token is      *)
(* registered. Children share the token. After the end it is denied        *)
(* unseen; a repeat the user allowed is shown and allowed at once.         *)
canAutoApproveAny(kind) == TRUE
canAutoApproveSimilar(kind) == kind = "write"

Request(kind) ==
  LET a == requested + 1
      made == [Now EXCEPT !.approval[a] = [state |-> "pending", kind |-> kind]]
      settled(s) == [made EXCEPT !.approval[a].state = s]
  IN /\ bridge /\ requested < MaxApprovals
     /\ \E c \in Children : proc[c].state = "live"
     /\ Become(IF stopped \/ timedOut \/ isTerminal(Now) THEN settled("denied")
               ELSE IF canAutoApproveSimilar(kind) /\ allowSimilar
               THEN onApprovalResolved(onApprovalRequired(settled("auto"), a))
               ELSE onApprovalRequired(made, a))
     /\ requested' = a
     /\ UNCHANGED sent

(* handleApprovalDecision: the store looks for the session that shows the  *)
(* approval; a decision that finds none, or a settled request, is answered *)
(* approval_not_found.                                                     *)
Decide(a, decision, similar) ==
  /\ cached.shown = a /\ approval[a].state = "pending"
  /\ Become(onApprovalResolved(
       [Now EXCEPT !.approval[a].state = IF decision = "approve" THEN "approved" ELSE "denied",
                   !.allowSimilar = @ \/ (decision = "approve" /\ similar /\
                                          canAutoApproveSimilar(approval[a].kind))]))
  /\ UNCHANGED <<sent, requested>>

(* The request's own timer. Slip: it only acts while the session asks.     *)
ApprovalTimeoutAsking(a) ==
  /\ approval[a].state = "pending" /\ status = "approvalNeeded"
  /\ Become(onApprovalResolved([Now EXCEPT !.approval[a].state = "denied"]))
  /\ UNCHANGED <<sent, requested>>
ApprovalTimeout(a) ==
  /\ approval[a].state = "pending"
  /\ Become(onApprovalResolved([Now EXCEPT !.approval[a].state = "denied"]))
  /\ UNCHANGED <<sent, requested>>

Next ==
  \/ Start \/ SendMessage \/ StopSession
  \/ RuntimeTimeout \/ StopTimeout
  \/ \E c \in Children : Exit(c) \/ \E line \in Line : Output(c, line)
  \/ \E kind \in Kind : Request(kind)
  \/ \E a \in Approvals :
       \/ ApprovalTimeout(a)
       \/ \E decision \in {"approve", "reject"}, similar \in BOOLEAN :
            Decide(a, decision, similar)

(* Timers fire, and a process that was sent SIGKILL dies. Nothing else is  *)
(* owed: the phone may never write or decide, Claude may say nothing.      *)
Fairness ==
  /\ WF_vars(RuntimeTimeout) /\ WF_vars(StopTimeout)
  /\ \A a \in Approvals : WF_vars(ApprovalTimeout(a))
  /\ \A c \in Children : WF_vars(proc[c].sig = "kill" /\ Exit(c))

Spec == Init /\ [][Next]_vars
FairSpec == Spec /\ Fairness

-----------------------------------------------------------------------------
Live == {c \in Children : proc[c].state = "live"}
Unwritten == {c \in Children : proc[c].state = "unwritten"}
Ended == stopped \/ status = "failed"

(* One process per session (ClaudeCodeStreamProvider.ts:15): a child that  *)
(* has not exited is the one the provider would signal, so there is at     *)
(* most one, whatever order messages, timeouts and exits come in. True     *)
(* when signals go to the group; without a group, `killed` makes a message *)
(* in the grace period start a second child beside the dying one, whose    *)
(* exit then drops the second.                                             *)
NoOrphanChild == \A c \in Live : c = child /\ ~childExited

(* No child outlives the decision to be rid of it: once the session was    *)
(* stopped, has failed or a turn ran out of time, the child was sent       *)
(* SIGKILL or a timer that sends it is pending.                            *)
DoomedIsEscalated ==
  \A c \in Live : Ended \/ timedOut =>
    proc[c].sig = "kill" \/ (proc[c].sig = "term" /\ (stopTimer \/ strays > 0))

(* The MCP config with the token is on disk while its child lives: never   *)
(* pulled from under a running one, and never left behind by one, by a     *)
(* spawn that failed or by a stop. The one directory that does stay is     *)
(* that of a config whose write failed, in a session that ended with it.   *)
FilesMatchChild ==
  /\ dirs = Live \cup Unwritten
  /\ Unwritten # {} => status = "failed" /\ Live = {}

(* Only a low-risk file write is ever allowed without asking, and only     *)
(* after the user allowed one.                                             *)
AutoOnlySimilar ==
  \A a \in Approvals : approval[a].state = "auto" =>
    /\ approval[a].kind = "write"
    /\ \E b \in Approvals : approval[b] = [state |-> "approved", kind |-> "write"]

(* A decision that races a stop or a failure comes too late: nothing is    *)
(* allowed from then on.                                                   *)
Allowed == {a \in Approvals : approval[a].state \in {"approved", "auto"}}
NoLateAllow == [][Ended => Allowed' = Allowed]_vars

(* "maxRuntimeSeconds limits one active turn" (ClaudeCodeStreamProvider.ts *)
(* :36): while the child owes the answer to a message, a limit is running. *)
(* The result of one turn clears the timer of the next one, whose message  *)
(* was already written.                                                    *)
TurnIsBounded ==
  \A c \in Live : proc[c].owed > 0 /\ proc[c].sig = "none" /\ ~Ended => runtimeTimer

(* The permission call Claude is blocked on is always answered.            *)
RequestsAreAnswered ==
  \A a \in Approvals : approval[a].state = "pending" ~> approval[a].state # "pending"

(* The phone is never left at "approval needed" with nothing to approve,   *)
(* although disposeAll does not bring the status back.                     *)
ApprovalStatusClears == status = "approvalNeeded" ~> status # "approvalNeeded"

(* The contract of AgentLifecycle.                                         *)
Phase == IF status = "failed" THEN "ended" ELSE IF stopped THEN "stopping" ELSE "open"
Contract == INSTANCE AgentLifecycle
              WITH Process <- Children, phase <- Phase, procs <- Live
ImplementsContract == Contract!Spec
=============================================================================
