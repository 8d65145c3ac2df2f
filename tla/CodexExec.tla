----------------------------- MODULE CodexExec -----------------------------
(***************************************************************************)
(* One session of CodexExecProvider (src/src/providers/                    *)
(* CodexExecProvider.ts): phone messages are queued and run one at a time, *)
(* each by a short-lived `codex exec` child (a turn). The callbacks of a   *)
(* turn - its output, its "error" and "close" events, its runtime timer    *)
(* and the stop-escalation timer - interleave with sendMessage and         *)
(* stopSession.                                                            *)
(*                                                                         *)
(* An action is one macrotask of the Node event loop. `microtask` holds    *)
(* the one queued microtask; it runs before any other macrotask.           *)
(*                                                                         *)
(* Abstractions. The statuses planning, editing and searching are          *)
(* "working"; nothing tests which. A message is its number. An output line *)
(* is the kind of event the parser makes of it. A process that has exited  *)
(* but whose "close" event is still to come is live: its last output may   *)
(* still arrive. SIGTERM changes nothing here: a process may exit at any   *)
(* time and may ignore it.                                                 *)
(***************************************************************************)
EXTENDS Naturals, Sequences

CONSTANT MaxMessages  \* bound: messages the session accepts, so turns too

ASSUME MaxMessagesAssumption == MaxMessages \in Nat \ {0}

VARIABLES
  status,             \* session.status: "working", "idle" or "failed"
  stopped,            \* the user asked to stop
  thread,             \* threadId is known: turns resume it
  pending,            \* pendingMessages
  activeTurn,         \* number of the active turn, 0 for null
  turnCounter,        \* turns started so far
  turn,               \* what each turn's ActiveTurn record holds
  microtask,          \* "ready" (constructor), "nextTurn" (finishTurn), "none"
  accepted            \* messages accepted so far; the last one's number

vars == <<status, stopped, thread, pending, activeTurn, turnCounter, turn,
          microtask, accepted>>

Turns == 1..MaxMessages
Messages == 1..MaxMessages
TimerState == {"off", "armed", "fired"}

Turn == [prompt       : Messages \cup {0},  \* the message handed to the child
         proc         : {"none", "live", "unspawned", "closed"},
         completed    : BOOLEAN,            \* sawTurnCompleted
         eventFailed  : BOOLEAN,
         diagnosed    : BOOLEAN,            \* privateFailureReason is set
         recoverable  : BOOLEAN,            \* recoverableFailureReason is set
         timedOut     : BOOLEAN,
         runtimeTimer : TimerState,
         stopTimer    : TimerState]         \* "fired": SIGKILL was sent

NoTurn == [prompt |-> 0, proc |-> "none", completed |-> FALSE,
           eventFailed |-> FALSE, diagnosed |-> FALSE, recoverable |-> FALSE,
           timedOut |-> FALSE, runtimeTimer |-> "off", stopTimer |-> "off"]

TypeOK ==
  /\ status \in {"working", "idle", "failed"}
  /\ stopped \in BOOLEAN
  /\ thread \in BOOLEAN
  /\ pending \in Seq(Messages)
  /\ activeTurn \in 0..MaxMessages
  /\ turnCounter \in 0..MaxMessages
  /\ turn \in [Turns -> Turn]
  /\ microtask \in {"none", "ready", "nextTurn"}
  /\ accepted \in 0..MaxMessages

(* forNewSession: a session that resumes a thread knows its id already.    *)
Init ==
  /\ status = "working"
  /\ stopped = FALSE
  /\ thread \in BOOLEAN
  /\ pending = <<>>
  /\ activeTurn = 0
  /\ turnCounter = 0
  /\ turn = [t \in Turns |-> NoTurn]
  /\ microtask = "ready"
  /\ accepted = 0

-----------------------------------------------------------------------------
(* The part of the provider a turn's callbacks read and write, as a value: *)
(* a callback that makes several calls is the composition of theirs.       *)
View(t) == [status |-> status, thread |-> thread, pending |-> pending,
            turn |-> turn[t]]

Commit(t, v) ==
  /\ status' = v.status
  /\ thread' = v.thread
  /\ pending' = v.pending
  /\ turn' = [turn EXCEPT ![t] = v.turn]

(* The session fails; its queue is dropped.                                *)
failSession(v) ==
  IF v.status = "failed" THEN v
  ELSE [v EXCEPT !.status = "failed", !.pending = <<>>]

(* A failed session keeps its status. Slip: the guard is missing.          *)
setStatusUnguarded(v, s) == [v EXCEPT !.status = s]
setStatus(v, s) == IF v.status = "failed" THEN v ELSE [v EXCEPT !.status = s]

(* SIGTERM now, SIGKILL when the timer fires; a timer once set is kept.    *)
(* Slip: SIGTERM only.                                                     *)
terminateOnly(v) == v
terminateWithEscalation(v) ==
  [v EXCEPT !.turn.stopTimer = IF @ = "off" THEN "armed" ELSE @]

(* The kinds of line parseCodexExecLine and classifyCodexFailureText tell  *)
(* apart. "silent": an ignored line, stderr text or an assistant message,  *)
(* which change no control state; "diagnosed": private text that names a   *)
(* known failure; "failed"/"failedKnown": turn.failed or error, its text   *)
(* unclassified or classified; "progress": any status event.               *)
Line == {"silent", "diagnosed", "threadStarted", "progress", "completed",
         "failed", "failedKnown"}

processLine(v, line) ==
  LET failing == [v EXCEPT !.turn.eventFailed = TRUE,
                           !.turn.diagnosed = (line = "failedKnown")]
  IN CASE line = "silent" -> v
       [] line = "diagnosed" -> [v EXCEPT !.turn.diagnosed = TRUE]
       [] line = "threadStarted" -> [v EXCEPT !.thread = TRUE]
       [] line = "progress" -> setStatus(v, "working")
       [] line = "completed" ->
            IF v.status = "failed" THEN v ELSE [v EXCEPT !.turn.completed = TRUE]
       [] line \in {"failed", "failedKnown"} ->
            IF v.status = "failed" THEN v
            ELSE IF line = "failed" /\ v.thread
            THEN terminateWithEscalation([failing EXCEPT !.pending = <<>>,
                                                         !.turn.recoverable = TRUE])
            ELSE terminateWithEscalation(failSession(failing))

-----------------------------------------------------------------------------
(* startNextTurn, with q the queue at the call. `outcome` is what the      *)
(* launch comes to: the wrapper or spawn() throws ("threw"); the child     *)
(* could not be spawned and its "error" event follows before any other     *)
(* macrotask ("noProcess"); writing the prompt throws ("noPrompt").        *)
Outcome == {"ok", "threw", "noProcess", "noPrompt"}

(* Slip for a mutant: the newest message is taken first.                   *)
TakeNewest(q) == <<q[Len(q)], SubSeq(q, 1, Len(q) - 1)>>

CanStart(q) == activeTurn = 0 /\ ~stopped /\ status # "failed" /\ q # <<>>

(* pendingMessages.shift(): the message taken and the queue that is left.  *)
Take(q) == <<Head(q), Tail(q)>>

Launched(q, outcome) ==
  LET v == [status  |-> "working",
            thread  |-> thread,
            pending |-> Take(q)[2],
            turn    |-> [NoTurn EXCEPT !.prompt = Take(q)[1]]]
      spawned == [v EXCEPT !.turn.proc = "live", !.turn.runtimeTimer = "armed"]
      crashed == [spawned EXCEPT !.turn.eventFailed = TRUE]
  IN CASE outcome = "ok"        -> spawned
       [] outcome = "threw"     -> failSession(v)
       [] outcome = "noPrompt"  -> terminateWithEscalation(failSession(crashed))
       [] outcome = "noProcess" -> terminateWithEscalation(failSession(
                                     [crashed EXCEPT !.turn.proc = "unspawned"]))

startNextTurn(q) ==
  \/ /\ ~CanStart(q)
     /\ pending' = q
     /\ UNCHANGED <<status, thread, activeTurn, turnCounter, turn>>
  \/ /\ CanStart(q)
     /\ \E outcome \in Outcome :
          /\ Commit(turnCounter + 1, Launched(q, outcome))
          /\ activeTurn' = IF outcome = "threw" THEN activeTurn ELSE turnCounter + 1
     /\ turnCounter' = turnCounter + 1

(* sendMessage. After a stop or a failure it only records the text. The    *)
(* store sends a session's initial prompt before the constructor's         *)
(* microtask runs.                                                         *)
SendMessage ==
  /\ microtask = "none" \/ (microtask = "ready" /\ accepted = 0)
  /\ accepted < MaxMessages
  /\ ~stopped /\ status # "failed"
  /\ accepted' = accepted + 1
  /\ startNextTurn(Append(pending, accepted + 1))
  /\ UNCHANGED <<stopped, microtask>>

(* The constructor's microtask: idle unless a first prompt already runs.   *)
(* Slip: idle without looking.                                             *)
ReadyUnconditional ==
  /\ microtask = "ready"
  /\ microtask' = "none"
  /\ status' = "idle"
  /\ UNCHANGED <<stopped, thread, pending, activeTurn, turnCounter, turn, accepted>>
Ready ==
  /\ microtask = "ready"
  /\ microtask' = "none"
  /\ status' = IF activeTurn = 0 /\ pending = <<>> /\ ~stopped /\ status # "failed"
               THEN "idle" ELSE status
  /\ UNCHANGED <<stopped, thread, pending, activeTurn, turnCounter, turn, accepted>>

(* finishTurn's microtask: the next queued message.                        *)
NextTurn ==
  /\ microtask = "nextTurn"
  /\ microtask' = "none"
  /\ startNextTurn(pending)
  /\ UNCHANGED <<stopped, accepted>>

(* stopSession: the queue is dropped; with a turn running the session ends *)
(* when that turn closes, otherwise now.                                   *)
StopSession ==
  /\ microtask = "none"
  /\ ~stopped /\ status # "failed"
  /\ stopped' = TRUE
  /\ pending' = <<>>
  /\ \/ /\ activeTurn # 0
        /\ turn' = [turn EXCEPT ![activeTurn] =
                      terminateWithEscalation(View(activeTurn)).turn]
        /\ UNCHANGED status
     \/ /\ activeTurn = 0
        /\ status' = "failed"
        /\ UNCHANGED turn
  /\ UNCHANGED <<thread, activeTurn, turnCounter, microtask, accepted>>

-----------------------------------------------------------------------------
(* Callbacks of turn t. They close over their own turn, so each is stated  *)
(* for every turn whose process is still there.                            *)
Callback(t) ==
  /\ microtask = "none"
  /\ UNCHANGED <<stopped, turnCounter, accepted>>

Output(t, line) ==
  /\ Callback(t)
  /\ turn[t].proc = "live"
  /\ Commit(t, processLine(View(t), line))
  /\ UNCHANGED <<activeTurn, microtask>>

(* handleChunk: the turn's output passed MAX_SESSION_OUTPUT_BYTES.         *)
OutputLimit(t) ==
  /\ Callback(t)
  /\ turn[t].proc = "live" /\ ~turn[t].eventFailed
  /\ Commit(t, terminateWithEscalation(failSession(
                 [View(t) EXCEPT !.turn.eventFailed = TRUE])))
  /\ UNCHANGED <<activeTurn, microtask>>

(* The child's "error" event after a spawn that succeeded: a signal could  *)
(* not be sent.                                                            *)
ChildError(t) ==
  /\ Callback(t)
  /\ turn[t].proc = "live" /\ status # "failed"
  /\ Commit(t, terminateWithEscalation(failSession(
                 [View(t) EXCEPT !.turn.eventFailed = TRUE])))
  /\ UNCHANGED <<activeTurn, microtask>>

(* The turn ran for maxRuntimeSeconds. Slip: it is marked, not terminated. *)
RuntimeTimeoutMarks(t) ==
  /\ Callback(t)
  /\ turn[t].runtimeTimer = "armed"
  /\ turn' = [turn EXCEPT ![t].runtimeTimer = "fired", ![t].timedOut = TRUE]
  /\ UNCHANGED <<status, thread, pending, activeTurn, microtask>>
RuntimeTimeout(t) ==
  /\ Callback(t)
  /\ turn[t].runtimeTimer = "armed"
  /\ LET fired == [View(t) EXCEPT !.turn.runtimeTimer = "fired"]
     IN Commit(t, IF stopped \/ status = "failed" THEN fired
                  ELSE terminateWithEscalation([fired EXCEPT !.turn.timedOut = TRUE]))
  /\ UNCHANGED <<activeTurn, microtask>>

(* The grace period is over: SIGKILL.                                      *)
StopTimeout(t) ==
  /\ Callback(t)
  /\ turn[t].stopTimer = "armed"
  /\ turn' = [turn EXCEPT ![t].stopTimer = "fired"]
  /\ UNCHANGED <<status, thread, pending, activeTurn, microtask>>

(* How a process ends: exit code 0, another exit code, a signal.           *)
ExitCode == {"zero", "nonzero", "signal"}

(* finishTurn's part up to the early returns.                              *)
Settled(v) == [v EXCEPT !.turn.proc = "closed", !.turn.runtimeTimer = "off",
                        !.turn.stopTimer = "off"]

CleanEnd(v, code) ==
  /\ code = "zero" /\ v.turn.completed /\ v.thread
  /\ ~stopped /\ v.status # "failed"
  /\ ~v.turn.timedOut /\ ~v.turn.recoverable /\ ~v.turn.eventFailed

finishTurn(v, code) ==
  IF stopped \/ v.turn.timedOut THEN failSession(v)
  ELSE IF v.turn.recoverable /\ v.status # "failed" THEN setStatus(v, "idle")
  ELSE IF v.turn.eventFailed \/ v.status = "failed" THEN v
  ELSE IF code = "nonzero" /\ v.thread /\ ~v.turn.diagnosed
  THEN setStatus([v EXCEPT !.pending = <<>>], "idle")
  ELSE IF CleanEnd(v, code) THEN setStatus(v, "idle")
  ELSE failSession(v)

(* The "close" event: the line left in the buffer is flushed, the turn is  *)
(* settled and the session moves on. A child that was never spawned says   *)
(* nothing and may close or not.                                           *)
Close(t) ==
  /\ Callback(t)
  /\ turn[t].proc \in {"live", "unspawned"}
  /\ \E line \in Line, code \in ExitCode :
       LET v == Settled(processLine(View(t), line))
       IN /\ turn[t].proc = "unspawned" => line = "silent" /\ code = "nonzero"
          /\ Commit(t, finishTurn(v, code))
          /\ microtask' = IF CleanEnd(v, code) /\ v.pending # <<>>
                          THEN "nextTurn" ELSE "none"
  /\ activeTurn' = IF activeTurn = t THEN 0 ELSE activeTurn

Next ==
  \/ SendMessage \/ Ready \/ NextTurn \/ StopSession
  \/ \E t \in Turns :
       \/ \E line \in Line : Output(t, line)
       \/ OutputLimit(t) \/ ChildError(t)
       \/ RuntimeTimeout(t) \/ StopTimeout(t) \/ Close(t)

(* Microtasks run, timers fire, and a process that was sent SIGKILL dies   *)
(* and its pipes close. Nothing else is owed: the phone may never write,   *)
(* and an agent may say nothing and never exit by itself.                  *)
Fairness ==
  /\ WF_vars(Ready)
  /\ WF_vars(NextTurn)
  /\ \A t \in Turns :
       /\ WF_vars(RuntimeTimeout(t))
       /\ WF_vars(StopTimeout(t))
       /\ WF_vars(turn[t].stopTimer = "fired" /\ turn[t].proc = "live" /\ Close(t))

Spec == Init /\ [][Next]_vars
FairSpec == Spec /\ Fairness

-----------------------------------------------------------------------------
(* No orphan: a turn whose process has not been reaped is the active turn, *)
(* so there is at most one, however sends, timeouts and late "close"       *)
(* events interleave (startNextTurn's guard, finishTurn's reset).          *)
NoOrphanTurn ==
  \A t \in Turns : turn[t].proc \in {"live", "unspawned"} <=> t = activeTurn

(* What the phone sees agrees with what runs: outside a microtask, a       *)
(* session that has not failed shows "working" exactly while a turn is     *)
(* active: no spinner without an agent, no agent behind "waiting for your  *)
(* next message".                                                          *)
StatusMatchesTurn ==
  microtask = "none" /\ status # "failed" =>
    (status = "working" <=> activeTurn # 0)

(* Nothing runs on unsupervised. The process of a turn is always on some   *)
(* timer: its runtime limit while the session is open, and SIGKILL armed   *)
(* or sent once the session was stopped, has failed or the limit passed.   *)
ChildIsSupervised ==
  \A t \in Turns : turn[t].proc = "live" =>
    IF stopped \/ status = "failed" \/ turn[t].timedOut \/ turn[t].recoverable
    THEN turn[t].stopTimer # "off"
    ELSE turn[t].runtimeTimer = "armed"

(* Messages run in the order sent and none runs twice; those still queued  *)
(* come after every message already taken.                                 *)
PromptsInOrder ==
  /\ \A t, u \in 1..turnCounter : t < u => turn[t].prompt < turn[u].prompt
  /\ \A t \in 1..turnCounter, i \in DOMAIN pending : turn[t].prompt < pending[i]
  /\ \A i, j \in DOMAIN pending : i < j => pending[i] < pending[j]

(* A queued message is on its way to a turn. README.md:92 says that "each  *)
(* phone message runs one bounded codex exec turn"; a message sent in the  *)
(* grace period of a recoverable failure stays behind when finishTurn      *)
(* returns to idle without looking at the queue.                           *)
NoStrandedMessage == pending # <<>> => activeTurn # 0 \/ microtask = "nextTurn"

(* A turn always ends: the runtime limit and the escalation leave no way   *)
(* to hang.                                                                *)
TurnsEnd == \A t \in Turns : turn[t].proc = "live" ~> turn[t].proc = "closed"

(* The provider implements the contract of AgentLifecycle: one process at  *)
(* a time, ended is final, no doomed process survives.                     *)
Phase == IF status = "failed" THEN "ended" ELSE IF stopped THEN "stopping" ELSE "open"
LiveTurns == {t \in Turns : turn[t].proc = "live"}
Contract == INSTANCE AgentLifecycle
              WITH Process <- Turns, phase <- Phase, procs <- LiveTurns
ImplementsContract == Contract!Spec
=============================================================================
