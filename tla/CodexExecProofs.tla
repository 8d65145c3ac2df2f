-------------------------- MODULE CodexExecProofs --------------------------
(***************************************************************************)
(* Proofs about CodexExec, for every MaxMessages: type correctness, the    *)
(* safety invariants its run checks, and the safety half of the refinement *)
(* of AgentLifecycle.                                                      *)
(*                                                                         *)
(* The turn callbacks are compositions of functions on views, so the       *)
(* lemmas first say what each function keeps; the step proofs cite them    *)
(* and never expand them.                                                  *)
(***************************************************************************)
EXTENDS CodexExec, SequenceTheorems, TLAPS

USE MaxMessagesAssumption

Views == [status  : {"working", "idle", "failed"},
          thread  : BOOLEAN,
          pending : Seq(Messages),
          turn    : Turn]

(* The state of a turn that decides whether it is supervised.              *)
Doomed(v) == v.status = "failed" \/ v.turn.timedOut \/ v.turn.recoverable

(* What every function on views respects: a failed session stays failed,   *)
(* the queue is kept or dropped, the turn keeps its prompt and process,    *)
(* an armed timer stays armed, and a turn it dooms has its stop timer set. *)
Respects(v, w) ==
  /\ w \in Views
  /\ v.status = "failed" => w.status = "failed"
  /\ w.status = "idle" => v.status = "idle"
  /\ w.pending = v.pending \/ w.pending = <<>>
  /\ w.turn.prompt = v.turn.prompt
  /\ w.turn.proc = v.turn.proc
  /\ w.turn.runtimeTimer = v.turn.runtimeTimer
  /\ v.turn.stopTimer # "off" => w.turn.stopTimer # "off"
  /\ Doomed(w) => Doomed(v) \/ w.turn.stopTimer # "off"
  /\ v.turn.recoverable => w.turn.recoverable
  /\ v.turn.timedOut => w.turn.timedOut
  /\ w.turn.eventFailed =>
       v.turn.eventFailed \/ w.status = "failed" \/ w.turn.recoverable

LEMMA EmptyQueue == <<>> \in Seq(Messages)
OBVIOUS

(* failSession ends the session and leaves the turn alone.                 *)
LEMMA FailFacts ==
  ASSUME NEW v \in Views
  PROVE  /\ failSession(v) \in Views
         /\ failSession(v).status = "failed"
         /\ failSession(v).turn = v.turn
         /\ failSession(v).thread = v.thread
         /\ failSession(v).pending \in {v.pending, <<>>}
BY EmptyQueue DEF Views, failSession

(* terminateWithEscalation sets the stop timer and nothing else.           *)
LEMMA TerminateFacts ==
  ASSUME NEW v \in Views, NEW w, w = terminateWithEscalation(v)
  PROVE  /\ w \in Views
         /\ w.status = v.status /\ w.thread = v.thread /\ w.pending = v.pending
         /\ w.turn.prompt = v.turn.prompt
         /\ w.turn.proc = v.turn.proc
         /\ w.turn.runtimeTimer = v.turn.runtimeTimer
         /\ w.turn.timedOut = v.turn.timedOut
         /\ w.turn.recoverable = v.turn.recoverable
         /\ w.turn.eventFailed = v.turn.eventFailed
         /\ w.turn.stopTimer # "off"
BY DEF Views, terminateWithEscalation, Turn, TimerState

(* Failing a session whose turn is then terminated respects the view.      *)
LEMMA FailTerminateFacts ==
  ASSUME NEW v \in Views, NEW w, w = terminateWithEscalation(failSession(v))
  PROVE  Respects(v, w) /\ w.status = "failed" /\ w.turn.stopTimer # "off"
<1>1. failSession(v) \in Views
  BY FailFacts
<1>2. /\ w \in Views
      /\ w.status = "failed"
      /\ w.pending \in {v.pending, <<>>}
      /\ w.turn.prompt = v.turn.prompt
      /\ w.turn.proc = v.turn.proc
      /\ w.turn.runtimeTimer = v.turn.runtimeTimer
      /\ w.turn.recoverable = v.turn.recoverable
      /\ w.turn.timedOut = v.turn.timedOut
      /\ w.turn.stopTimer # "off"
  BY <1>1, FailFacts, TerminateFacts
<1>3. QED
  BY <1>2 DEF Respects

(* A line of output respects the view it is applied to.                    *)
LEMMA LineFacts ==
  ASSUME NEW v \in Views, NEW line \in Line
  PROVE  Respects(v, processLine(v, line))
<1> DEFINE failing == [v EXCEPT !.turn.eventFailed = TRUE,
                                !.turn.diagnosed = (line = "failedKnown")]
           dropped == [failing EXCEPT !.pending = <<>>, !.turn.recoverable = TRUE]
<1>1. CASE line \in {"silent", "diagnosed", "threadStarted", "progress", "completed"}
  <2>1. CASE line = "silent"
    BY <2>1 DEF processLine, Respects, Views, Turn, Doomed
  <2>2. CASE line = "diagnosed"
    BY <2>2, ZenonT(60) DEF processLine, Respects, Views, Turn, Doomed
  <2>3. CASE line = "threadStarted"
    BY <2>3, ZenonT(60) DEF processLine, Respects, Views, Turn, Doomed
  <2>4. CASE line = "progress"
    BY <2>4, ZenonT(60) DEF processLine, setStatus, Respects, Views, Turn, Doomed
  <2>5. CASE line = "completed"
    BY <2>5, ZenonT(60) DEF processLine, Respects, Views, Turn, Doomed
  <2>6. QED
    BY <1>1, <2>1, <2>2, <2>3, <2>4, <2>5
<1>2. CASE line \in {"failed", "failedKnown"} /\ v.status = "failed"
  BY <1>2 DEF processLine, Respects, Views, Turn, Doomed
<1>3. CASE line = "failed" /\ v.status # "failed" /\ v.thread
  <2>1. dropped \in Views /\ dropped.pending = <<>>
    BY <1>3, EmptyQueue DEF Views, Turn
  <2>2. /\ dropped.turn.recoverable = TRUE
        /\ dropped.turn.prompt = v.turn.prompt
        /\ dropped.turn.proc = v.turn.proc
        /\ dropped.turn.runtimeTimer = v.turn.runtimeTimer
        /\ dropped.turn.timedOut = v.turn.timedOut
        /\ dropped.status = v.status
    BY DEF Views, Turn
  <2>3. PICK w : w = terminateWithEscalation(dropped)
    OBVIOUS
  <2>4. processLine(v, line) = w
    BY <1>3, <2>3 DEF processLine
  <2> HIDE DEF dropped
  <2>5. Respects(v, w)
    BY <1>3, <2>1, <2>2, <2>3, TerminateFacts DEF Respects
  <2>6. QED
    BY <2>4, <2>5
<1>4. CASE line \in {"failed", "failedKnown"} /\ v.status # "failed"
           /\ ~(line = "failed" /\ v.thread)
  <2>1. failing \in Views
    BY <1>4 DEF Views, Turn
  <2>2. /\ failing.turn.prompt = v.turn.prompt
        /\ failing.turn.proc = v.turn.proc
        /\ failing.turn.runtimeTimer = v.turn.runtimeTimer
        /\ failing.turn.stopTimer = v.turn.stopTimer
        /\ failing.turn.timedOut = v.turn.timedOut
        /\ failing.turn.recoverable = v.turn.recoverable
        /\ failing.pending = v.pending
        /\ failing.status = v.status
    BY DEF Views, Turn
  <2>3. PICK w : w = terminateWithEscalation(failSession(failing))
    OBVIOUS
  <2>4. processLine(v, line) = w
    BY <1>4, <2>3 DEF processLine
  <2> HIDE DEF failing
  <2>5. Respects(failing, w) /\ w.status = "failed" /\ w.turn.stopTimer # "off"
    BY <2>1, <2>3, FailTerminateFacts
  <2>6. Respects(v, w)
    BY <2>2, <2>5, <1>4 DEF Respects
  <2>7. QED
    BY <2>4, <2>6
<1>5. QED
  BY <1>1, <1>2, <1>3, <1>4 DEF Line

-----------------------------------------------------------------------------
(* The inductive invariant. NoOrphanTurn and StatusMatchesTurn need what a *)
(* queued microtask finds; PromptsInOrder needs that no number is ahead of *)
(* the last accepted message; a turn that reported a failure has ended the *)
(* session or is recoverable, so finishTurn leaves no session "working".   *)
Bounds ==
  /\ activeTurn \in 0..turnCounter
  /\ turnCounter + Len(pending) <= accepted
  /\ \A t \in Turns : t > turnCounter => turn[t] = NoTurn

MicrotaskInv ==
  /\ microtask = "nextTurn" =>
       activeTurn = 0 /\ status = "idle" /\ ~stopped /\ pending # <<>>
  /\ microtask = "ready" => ~stopped /\ status # "idle" /\ pending = <<>>

TurnFlagsInv ==
  \A t \in Turns :
    /\ turn[t].proc = "unspawned" => status = "failed"
    /\ turn[t].proc = "live" /\ turn[t].eventFailed =>
         status = "failed" \/ turn[t].recoverable

NumbersInv ==
  /\ \A t \in 1..turnCounter : turn[t].prompt \in 1..accepted
  /\ \A i \in DOMAIN pending : pending[i] <= accepted

IInv ==
  /\ TypeOK
  /\ NoOrphanTurn
  /\ StatusMatchesTurn
  /\ ChildIsSupervised
  /\ PromptsInOrder
  /\ Bounds
  /\ MicrotaskInv
  /\ TurnFlagsInv
  /\ NumbersInv

LEMMA InitInv == Init => IInv
<1> SUFFICES ASSUME Init PROVE IInv
  OBVIOUS
<1> USE DEF Init
<1>1. TypeOK
  <2>1. NoTurn \in Turn
    BY DEF NoTurn, Turn, TimerState
  <2>2. turn \in [Turns -> Turn]
    BY <2>1
  <2>3. pending \in Seq(Messages)
    BY EmptyQueue
  <2>4. activeTurn \in 0..MaxMessages /\ turnCounter \in 0..MaxMessages
        /\ accepted \in 0..MaxMessages
    OBVIOUS
  <2>5. stopped \in BOOLEAN /\ thread \in BOOLEAN
    OBVIOUS
  <2> HIDE DEF Init
  <2>6. status \in {"working", "idle", "failed"} /\ microtask \in {"none", "ready", "nextTurn"}
    BY DEF Init
  <2>7. QED
    BY <2>2, <2>3, <2>4, <2>5, <2>6 DEF TypeOK
<1>2. QED
  BY <1>1 DEF IInv, Turns, NoTurn, NoOrphanTurn, StatusMatchesTurn, ChildIsSupervised,
              PromptsInOrder, Bounds, MicrotaskInv, TurnFlagsInv, NumbersInv

(* A turn's view is a view.                                                *)
LEMMA ViewType == ASSUME TypeOK, NEW t \in Turns PROVE View(t) \in Views
BY DEF TypeOK, View, Views

(* What a step is to the contract: one of its steps or a stutter.          *)
AbstractStep == [Contract!Next]_<<Phase, LiveTurns>>

(* A step that reaps and starts no process is a stutter or an End.         *)
LEMMA QuietRefines ==
  ASSUME UNCHANGED stopped, status = "failed" => status' = "failed",
         \A u \in Turns : turn'[u].proc = turn[u].proc
  PROVE  AbstractStep
<1>1. LiveTurns' = LiveTurns
  BY DEF LiveTurns
<1>2. Phase' = Phase \/ (Phase # "ended" /\ Phase' = "ended")
  BY DEF Phase
<1>3. QED
  BY <1>1, <1>2 DEF AbstractStep, Contract!Next, Contract!End

(* A callback that keeps the turn's process and prompt, and leaves its     *)
(* process supervised, preserves the invariant.                            *)
LEMMA CallbackStep ==
  ASSUME IInv, NEW t \in 1..turnCounter, microtask = "none",
         NEW w \in Views, Commit(t, w),
         UNCHANGED <<stopped, activeTurn, turnCounter, microtask, accepted>>,
         status = "failed" => w.status = "failed",
         w.status = status \/ (t = activeTurn /\ w.status \in {"working", "failed"}),
         w.pending \in {pending, <<>>},
         w.turn.prompt = turn[t].prompt,
         w.turn.proc = turn[t].proc,
         w.turn.proc = "live" =>
           /\ IF stopped \/ Doomed(w) THEN w.turn.stopTimer # "off"
                                      ELSE w.turn.runtimeTimer = "armed"
           /\ w.turn.eventFailed => w.status = "failed" \/ w.turn.recoverable
  PROVE  IInv' /\ AbstractStep
<1> USE DEF IInv
<1>1. t \in Turns /\ turnCounter \in 0..MaxMessages
  BY DEF TypeOK, Turns
<1>2. /\ status' = w.status /\ pending' = w.pending
      /\ \A u \in Turns : turn'[u] = IF u = t THEN w.turn ELSE turn[u]
  BY <1>1 DEF Commit, TypeOK
<1>3. TypeOK'
  BY <1>1 DEF Commit, TypeOK, Views
<1>4. NoOrphanTurn'
  BY <1>2 DEF NoOrphanTurn
<1>5. StatusMatchesTurn'
  BY <1>1, <1>2 DEF StatusMatchesTurn, TypeOK
<1>6. \A u \in Turns : turn[u].proc = "live" => u = activeTurn
  BY DEF NoOrphanTurn
<1>7. ChildIsSupervised'
  BY <1>2, <1>6 DEF ChildIsSupervised, Doomed
<1>8. Bounds'
  <2>1. Len(pending') <= Len(pending) /\ Len(pending') \in Nat /\ Len(pending) \in Nat
    BY <1>2 DEF TypeOK
  <2>2. QED
    BY <1>1, <1>2, <2>1 DEF Bounds, TypeOK
<1>9. MicrotaskInv'
  BY DEF MicrotaskInv
<1>10. TurnFlagsInv'
  BY <1>2, <1>6 DEF TurnFlagsInv
<1>11. \A u \in 1..turnCounter : turn'[u].prompt = turn[u].prompt
  BY <1>1, <1>2 DEF Turns
<1>12. PromptsInOrder' /\ NumbersInv'
  BY <1>2, <1>11 DEF PromptsInOrder, NumbersInv
<1>13. AbstractStep
  BY <1>2, QuietRefines
<1>14. QED
  BY <1>3, <1>4, <1>5, <1>7, <1>8, <1>9, <1>10, <1>12, <1>13

(* A launch: the message at the head of the queue becomes the next turn.   *)
LEMMA LaunchFacts ==
  ASSUME TypeOK, NEW q \in Seq(Messages), q # <<>>, NEW outcome \in Outcome
  PROVE  LET w == Launched(q, outcome)
         IN /\ w \in Views
            /\ w.pending \in {Tail(q), <<>>}
            /\ w.turn.prompt = Head(q)
            /\ w.status \in {"working", "failed"}
            /\ outcome = "threw" => w.status = "failed" /\ w.turn.proc = "none"
            /\ outcome # "threw" => w.turn.proc \in {"live", "unspawned"}
            /\ w.turn.proc = "unspawned" => w.status = "failed"
            /\ w.turn.proc = "live" =>
                 /\ IF Doomed(w) THEN w.turn.stopTimer # "off"
                                 ELSE w.turn.runtimeTimer = "armed"
                 /\ w.turn.eventFailed => w.status = "failed"
<1> DEFINE v == [status |-> "working", thread |-> thread, pending |-> Tail(q),
                 turn |-> [NoTurn EXCEPT !.prompt = Head(q)]]
           spawned == [v EXCEPT !.turn.proc = "live", !.turn.runtimeTimer = "armed"]
           crashed == [spawned EXCEPT !.turn.eventFailed = TRUE]
           absent == [crashed EXCEPT !.turn.proc = "unspawned"]
<1>1. Head(q) \in Messages /\ Tail(q) \in Seq(Messages)
  OBVIOUS
<1>2. /\ outcome = "ok" => Launched(q, outcome) = spawned
      /\ outcome = "threw" => Launched(q, outcome) = failSession(v)
      /\ outcome = "noPrompt" =>
           Launched(q, outcome) = terminateWithEscalation(failSession(crashed))
      /\ outcome = "noProcess" =>
           Launched(q, outcome) = terminateWithEscalation(failSession(absent))
  BY DEF Launched, Take
<1>3. /\ v \in Views
      /\ v.pending = Tail(q) /\ v.status = "working" /\ v.turn.prompt = Head(q)
      /\ v.turn.proc = "none"
      /\ ~v.turn.timedOut /\ ~v.turn.recoverable /\ ~v.turn.eventFailed
  BY <1>1 DEF Views, Turn, NoTurn, TimerState, TypeOK
<1> HIDE DEF v
<1>4. /\ spawned \in Views
      /\ spawned.pending = Tail(q) /\ spawned.status = "working"
      /\ spawned.turn.prompt = Head(q)
      /\ spawned.turn.proc = "live" /\ spawned.turn.runtimeTimer = "armed"
      /\ ~spawned.turn.timedOut /\ ~spawned.turn.recoverable /\ ~spawned.turn.eventFailed
  BY <1>3 DEF Views, Turn, TimerState
<1> HIDE DEF spawned
<1>5. /\ crashed \in Views
      /\ crashed.pending = Tail(q)
      /\ crashed.turn.prompt = Head(q)
      /\ crashed.turn.proc = "live"
  BY <1>4 DEF Views, Turn
<1> HIDE DEF crashed
<1>6. /\ absent \in Views
      /\ absent.pending = Tail(q)
      /\ absent.turn.prompt = Head(q)
      /\ absent.turn.proc = "unspawned"
  BY <1>5 DEF Views, Turn
<1> HIDE DEF absent
<1>7. CASE outcome = "ok"
  BY <1>2, <1>4, <1>7 DEF Doomed
<1>8. CASE outcome = "threw"
  BY <1>2, <1>3, <1>8, FailFacts DEF Doomed
<1>9. CASE outcome = "noPrompt"
  BY <1>2, <1>5, <1>9, FailTerminateFacts DEF Respects, Doomed
<1>10. CASE outcome = "noProcess"
  BY <1>2, <1>6, <1>10, FailTerminateFacts DEF Respects
<1>11. QED
  BY <1>7, <1>8, <1>9, <1>10 DEF Outcome

(* A started turn: the invariant holds for the longer history.             *)
LEMMA LaunchStep ==
  ASSUME IInv, NEW q \in Seq(Messages), CanStart(q), NEW outcome \in Outcome,
         Commit(turnCounter + 1, Launched(q, outcome)),
         activeTurn' = IF outcome = "threw" THEN activeTurn ELSE turnCounter + 1,
         turnCounter' = turnCounter + 1,
         accepted' \in accepted..MaxMessages,
         turnCounter + Len(q) <= accepted',
         \A t \in 1..turnCounter, i \in DOMAIN q : turn[t].prompt < q[i],
         \A i, j \in DOMAIN q : i < j => q[i] < q[j],
         \A i \in DOMAIN q : q[i] <= accepted',
         UNCHANGED stopped,
         \/ microtask' = "none"
         \/ microtask' = "ready" /\ Len(q) = 1
  PROVE  IInv' /\ AbstractStep
<1> DEFINE t == turnCounter + 1
           w == Launched(q, outcome)
<1> USE DEF IInv
<1>1. /\ q # <<>> /\ Len(q) \in Nat \ {0} /\ activeTurn = 0
      /\ ~stopped /\ status # "failed"
  BY DEF CanStart
<1>2. /\ turnCounter \in Nat /\ accepted \in Nat /\ accepted' \in Nat
      /\ t \in Turns /\ t \in 0..MaxMessages /\ accepted' \in 0..MaxMessages
  BY <1>1 DEF TypeOK, Turns
<1>3. /\ w \in Views
      /\ w.pending \in {Tail(q), <<>>}
      /\ w.turn.prompt = Head(q)
      /\ w.status \in {"working", "failed"}
      /\ outcome = "threw" => w.status = "failed" /\ w.turn.proc = "none"
      /\ outcome # "threw" => w.turn.proc \in {"live", "unspawned"}
      /\ w.turn.proc = "unspawned" => w.status = "failed"
      /\ w.turn.proc = "live" =>
           /\ IF w.status = "failed" \/ w.turn.timedOut \/ w.turn.recoverable
              THEN w.turn.stopTimer # "off" ELSE w.turn.runtimeTimer = "armed"
           /\ w.turn.eventFailed => w.status = "failed"
  BY <1>1, LaunchFacts DEF Doomed
<1> HIDE DEF w
<1>4. /\ status' = w.status /\ pending' = w.pending
      /\ \A u \in Turns : turn'[u] = IF u = t THEN w.turn ELSE turn[u]
  BY <1>2 DEF Commit, TypeOK, w
<1>5. \A u \in Turns : turn[u].proc \notin {"live", "unspawned"}
  BY <1>1 DEF NoOrphanTurn, Turns
<1>6. TypeOK'
  <2>1. activeTurn' \in 0..MaxMessages
    BY <1>1, <1>2
  <2>2. turn' \in [Turns -> Turn]
    BY <1>2, <1>3 DEF Commit, TypeOK, Views, w
  <2>3. /\ status' \in {"working", "idle", "failed"}
        /\ thread' \in BOOLEAN
        /\ pending' \in Seq(Messages)
    BY <1>3 DEF Commit, Views, w
  <2>4. QED
    BY <1>2, <2>1, <2>2, <2>3 DEF TypeOK
<1>7. NoOrphanTurn'
  <2>1. CASE outcome = "threw"
    BY <1>1, <1>2, <1>3, <1>4, <1>5, <2>1 DEF NoOrphanTurn, Turns
  <2>2. CASE outcome # "threw"
    BY <1>2, <1>3, <1>4, <1>5, <2>2 DEF NoOrphanTurn
  <2>3. QED
    BY <2>1, <2>2
<1>8. StatusMatchesTurn'
  BY <1>2, <1>3, <1>4 DEF StatusMatchesTurn
<1>9. ChildIsSupervised'
  BY <1>1, <1>3, <1>4, <1>5 DEF ChildIsSupervised
<1>10. TurnFlagsInv'
  BY <1>3, <1>4, <1>5 DEF TurnFlagsInv
<1>11. /\ Len(Tail(q)) = Len(q) - 1
       /\ \A i \in DOMAIN Tail(q) : i + 1 \in DOMAIN q /\ Tail(q)[i] = q[i + 1]
       /\ 1 \in DOMAIN q /\ Head(q) = q[1]
       /\ DOMAIN Tail(q) = 1..(Len(q) - 1)
  BY <1>1
<1>12. Bounds'
  <2>1. Len(pending') \in Nat /\ Len(pending') <= Len(q) - 1
    BY <1>1, <1>3, <1>4, <1>11
  <2>2. turnCounter' + Len(pending') <= accepted'
    BY <1>1, <1>2, <2>1
  <2>3. activeTurn' \in 0..turnCounter'
    BY <1>1, <1>2
  <2>4. \A u \in Turns : u > turnCounter' => turn'[u] = NoTurn
    BY <1>2, <1>4 DEF Bounds, Turns
  <2>5. QED
    BY <2>2, <2>3, <2>4 DEF Bounds
<1>13. MicrotaskInv'
  <2>1. Len(q) = 1 => pending' = <<>>
    <3>1. Tail(q) \in Seq(Messages)
      BY <1>1
    <3>2. Len(q) = 1 => Tail(q) = <<>>
      BY <1>1, <1>11, <3>1, EmptySeq
    <3>3. QED
      BY <1>3, <1>4, <3>2
  <2>2. QED
    BY <1>1, <1>3, <1>4, <2>1 DEF MicrotaskInv
<1>14. /\ \A u \in 1..turnCounter : turn'[u].prompt = turn[u].prompt
       /\ turn'[t].prompt = q[1]
       /\ 1..turnCounter' = 1..turnCounter \cup {t}
  BY <1>2, <1>3, <1>4, <1>11 DEF Turns
<1>15. \A i \in DOMAIN pending' : i + 1 \in DOMAIN q /\ pending'[i] = q[i + 1] /\ i \in Nat
  <2>1. CASE pending' = <<>>
    BY <2>1
  <2>2. CASE pending' = Tail(q)
    BY <1>1, <1>11, <2>2
  <2>3. QED
    BY <1>3, <1>4, <2>1, <2>2
<1>16. \A i \in DOMAIN q : q[i] \in Messages /\ i \in Nat
  OBVIOUS
<1>17. PromptsInOrder'
  <2>1. \A x, u \in 1..turnCounter' : x < u => turn'[x].prompt < turn'[u].prompt
    <3> SUFFICES ASSUME NEW x \in 1..turnCounter', NEW u \in 1..turnCounter', x < u
                 PROVE  turn'[x].prompt < turn'[u].prompt
      OBVIOUS
    <3>1. x \in 1..turnCounter
      BY <1>2, <1>14
    <3>2. CASE u = t
      BY <1>11, <1>14, <3>1, <3>2
    <3>3. CASE u \in 1..turnCounter
      BY <1>14, <3>1, <3>3 DEF PromptsInOrder
    <3>4. QED
      BY <1>14, <3>2, <3>3
  <2>2. \A x \in 1..turnCounter', i \in DOMAIN pending' : turn'[x].prompt < pending'[i]
    <3> SUFFICES ASSUME NEW x \in 1..turnCounter', NEW i \in DOMAIN pending'
                 PROVE  turn'[x].prompt < pending'[i]
      OBVIOUS
    <3>1. i + 1 \in DOMAIN q /\ pending'[i] = q[i + 1] /\ 1 < i + 1
      BY <1>15, <1>3, <1>4, <1>11
    <3>2. CASE x = t
      BY <1>11, <1>14, <3>1, <3>2
    <3>3. CASE x \in 1..turnCounter
      BY <1>14, <3>1, <3>3
    <3>4. QED
      BY <1>14, <3>2, <3>3
  <2>3. \A i, j \in DOMAIN pending' : i < j => pending'[i] < pending'[j]
    BY <1>15
  <2>4. QED
    BY <2>1, <2>2, <2>3 DEF PromptsInOrder
<1>18. NumbersInv'
  <2>1. turn'[t].prompt \in 1..accepted'
    BY <1>2, <1>11, <1>14, <1>16 DEF Messages
  <2>2. \A u \in 1..turnCounter : turn'[u].prompt \in 1..accepted'
    BY <1>2, <1>14 DEF NumbersInv
  <2>3. \A i \in DOMAIN pending' : pending'[i] <= accepted'
    BY <1>15
  <2>4. QED
    BY <1>14, <2>1, <2>2, <2>3 DEF NumbersInv
<1>19. AbstractStep
  <2>1. LiveTurns = {} /\ Phase = "open"
    BY <1>1, <1>5 DEF LiveTurns, Phase
  <2>2. CASE w.turn.proc = "live"
    <3>1. LiveTurns' = {t}
      BY <1>2, <1>4, <1>5, <2>2 DEF LiveTurns
    <3>2. Phase' \in {"open", "ended"}
      BY <1>1 DEF Phase
    <3>3. QED
      BY <1>2, <2>1, <3>1, <3>2 DEF AbstractStep, Contract!Next, Contract!Launch
  <2>3. CASE w.turn.proc # "live"
    <3>1. LiveTurns' = {}
      BY <1>2, <1>4, <1>5, <2>3 DEF LiveTurns
    <3>2. Phase' = "ended"
      BY <1>3, <1>4, <2>3 DEF Phase
    <3>3. QED
      BY <2>1, <3>1, <3>2 DEF AbstractStep, Contract!Next, Contract!End
  <2>4. QED
    BY <2>2, <2>3
<1>20. QED
  BY <1>6, <1>7, <1>8, <1>9, <1>10, <1>12, <1>13, <1>17, <1>18, <1>19

(* A closed turn: finishTurn leaves the session idle or failed.            *)
LEMMA FinishFacts ==
  ASSUME NEW v \in Views, NEW code \in ExitCode,
         v.turn.eventFailed => v.status = "failed" \/ v.turn.recoverable
  PROVE  LET w == finishTurn(v, code)
         IN /\ w \in Views
            /\ w.turn = v.turn
            /\ w.status \in {"idle", "failed"}
            /\ w.pending \in {v.pending, <<>>}
            /\ v.status = "failed" => w.status = "failed"
            /\ stopped => w.status = "failed"
            /\ CleanEnd(v, code) => w.status = "idle" /\ w.pending = v.pending
<1>1. /\ failSession(v) \in Views
      /\ failSession(v).status = "failed"
      /\ failSession(v).turn = v.turn
      /\ failSession(v).pending \in {v.pending, <<>>}
  BY FailFacts
<1>2. v.status # "failed" =>
        /\ setStatus(v, "idle") \in Views
        /\ setStatus(v, "idle").status = "idle"
        /\ setStatus(v, "idle").turn = v.turn
        /\ setStatus(v, "idle").pending = v.pending
  BY DEF setStatus, Views
<1>3. v.status # "failed" =>
        LET r == setStatus([v EXCEPT !.pending = <<>>], "idle")
        IN r \in Views /\ r.status = "idle" /\ r.turn = v.turn /\ r.pending = <<>>
  BY EmptyQueue DEF setStatus, Views
<1>4. QED
  BY <1>1, <1>2, <1>3 DEF finishTurn, CleanEnd, ExitCode

(* What settling a turn keeps: all but its process and its timers.         *)
LEMMA SettledFacts ==
  ASSUME NEW v \in Views
  PROVE  LET w == Settled(v)
         IN /\ w \in Views
            /\ w.status = v.status /\ w.pending = v.pending
            /\ w.turn.prompt = v.turn.prompt
            /\ w.turn.proc = "closed"
            /\ w.turn.eventFailed = v.turn.eventFailed
            /\ w.turn.recoverable = v.turn.recoverable
BY DEF Settled, Views, Turn, TimerState

-----------------------------------------------------------------------------
(* A callback that leaves the turn with a view its own view respects.      *)
LEMMA RespectsStep ==
  ASSUME IInv, NEW t \in Turns, turn[t].proc = "live", microtask = "none",
         NEW w, Respects(View(t), w), Commit(t, w),
         stopped => w.turn.stopTimer # "off",
         UNCHANGED <<stopped, activeTurn, turnCounter, microtask, accepted>>
  PROVE  IInv' /\ AbstractStep
<1>1. TypeOK /\ View(t) \in Views
  BY ViewType DEF IInv
<1>2. t = activeTurn /\ t \in 1..turnCounter
  BY <1>1 DEF IInv, NoOrphanTurn, Bounds, Turns, TypeOK
<1>3. /\ View(t).status = status /\ View(t).pending = pending /\ View(t).turn = turn[t]
  BY DEF View
<1>4. status # "failed" => status = "working"
  BY <1>2 DEF IInv, StatusMatchesTurn, Turns
<1>5. w.status \in {"working", "failed"} /\ w \in Views
  BY <1>3, <1>4 DEF Respects, Views
<1>6. /\ IF stopped \/ Doomed(w) THEN w.turn.stopTimer # "off"
                                 ELSE w.turn.runtimeTimer = "armed"
      /\ w.turn.eventFailed => w.status = "failed" \/ w.turn.recoverable
  <2>1. IF stopped \/ Doomed(View(t)) THEN turn[t].stopTimer # "off"
                                      ELSE turn[t].runtimeTimer = "armed"
    BY <1>3 DEF IInv, ChildIsSupervised, Doomed
  <2>2. turn[t].eventFailed => status = "failed" \/ turn[t].recoverable
    BY DEF IInv, TurnFlagsInv
  <2>3. Doomed(View(t)) => w.turn.stopTimer # "off"
    BY <1>3, <2>1 DEF Respects
  <2>4. ~stopped /\ ~Doomed(w) => w.turn.runtimeTimer = "armed"
    BY <1>3, <2>1, <2>3 DEF Respects, Doomed
  <2>5. Doomed(w) => w.turn.stopTimer # "off"
    BY <2>3 DEF Respects
  <2>6. w.turn.eventFailed => w.status = "failed" \/ w.turn.recoverable
    BY <1>3, <2>2 DEF Respects
  <2>7. QED
    BY <2>4, <2>5, <2>6
<1>7. /\ status = "failed" => w.status = "failed"
      /\ w.pending \in {pending, <<>>}
      /\ w.turn.prompt = turn[t].prompt
      /\ w.turn.proc = turn[t].proc
  BY <1>3 DEF Respects
<1>8. QED
  BY <1>2, <1>5, <1>6, <1>7, CallbackStep

-----------------------------------------------------------------------------
(* The invariant is preserved, one lemma per action.                       *)
LEMMA SendMessageStep == IInv /\ SendMessage => IInv' /\ AbstractStep
<1> SUFFICES ASSUME IInv, SendMessage PROVE IInv' /\ AbstractStep
  OBVIOUS
<1> DEFINE q == Append(pending, accepted + 1)
<1>1. /\ TypeOK /\ accepted + 1 \in Messages /\ accepted \in Nat /\ turnCounter \in Nat
      /\ pending \in Seq(Messages) /\ Len(pending) \in Nat
      /\ accepted' = accepted + 1 /\ accepted' \in accepted..MaxMessages
      /\ ~stopped /\ status # "failed"
      /\ UNCHANGED <<stopped, microtask>>
  BY DEF IInv, TypeOK, SendMessage, Messages
<1>2. /\ q \in Seq(Messages) /\ Len(q) = Len(pending) + 1 /\ q # <<>>
      /\ \A i \in DOMAIN q : /\ i \in Nat
                             /\ \/ i \in DOMAIN pending /\ q[i] = pending[i]
                                \/ i = Len(pending) + 1 /\ q[i] = accepted + 1
      /\ DOMAIN pending = 1..Len(pending)
  BY <1>1
<1>3. /\ turnCounter + Len(q) <= accepted'
      /\ \A u \in 1..turnCounter, i \in DOMAIN q : turn[u].prompt < q[i]
      /\ \A i, j \in DOMAIN q : i < j => q[i] < q[j]
      /\ \A i \in DOMAIN q : q[i] <= accepted'
  <2>1. turnCounter + Len(q) <= accepted'
    BY <1>1, <1>2 DEF IInv, Bounds
  <2>2. \A i \in DOMAIN pending : pending[i] <= accepted /\ pending[i] \in Nat
    BY <1>1, <1>2 DEF IInv, NumbersInv, Messages
  <2>3. \A u \in 1..turnCounter : turn[u].prompt \in 1..accepted
    BY DEF IInv, NumbersInv
  <2> HIDE DEF q
  <2>4. \A u \in 1..turnCounter, i \in DOMAIN q : turn[u].prompt < q[i]
    <3> SUFFICES ASSUME NEW u \in 1..turnCounter, NEW i \in DOMAIN q
                 PROVE  turn[u].prompt < q[i]
      OBVIOUS
    <3>1. CASE i \in DOMAIN pending /\ q[i] = pending[i]
      BY <3>1 DEF IInv, PromptsInOrder
    <3>2. CASE q[i] = accepted + 1
      BY <1>1, <2>3, <3>2
    <3>3. QED
      BY <1>2, <3>1, <3>2
  <2>5. \A i, j \in DOMAIN q : i < j => q[i] < q[j]
    <3> SUFFICES ASSUME NEW i \in DOMAIN q, NEW j \in DOMAIN q, i < j
                 PROVE  q[i] < q[j]
      OBVIOUS
    <3>1. i \in DOMAIN pending /\ q[i] = pending[i]
      BY <1>1, <1>2
    <3>2. CASE j \in DOMAIN pending /\ q[j] = pending[j]
      BY <3>1, <3>2 DEF IInv, PromptsInOrder
    <3>3. CASE q[j] = accepted + 1
      BY <1>1, <2>2, <3>1, <3>3
    <3>4. QED
      BY <1>2, <3>2, <3>3
  <2>6. \A i \in DOMAIN q : q[i] <= accepted'
    BY <1>1, <1>2, <2>2
  <2>7. QED
    BY <2>1, <2>4, <2>5, <2>6
<1>4. microtask \in {"none", "ready"} /\ (microtask = "ready" => Len(q) = 1)
  <2>1. microtask \in {"none", "ready"}
    BY DEF SendMessage
  <2>2. microtask = "ready" => pending = <<>>
    BY DEF IInv, MicrotaskInv
  <2>3. QED
    BY <1>2, <2>1, <2>2
<1>5. microtask = "ready" => activeTurn = 0
  BY <1>1 DEF SendMessage, IInv, Bounds, TypeOK
<1>6. startNextTurn(q)
  BY DEF SendMessage
<1> HIDE DEF q
<1>7. CASE CanStart(q)
  <2>1. PICK outcome \in Outcome :
          /\ Commit(turnCounter + 1, Launched(q, outcome))
          /\ activeTurn' = IF outcome = "threw" THEN activeTurn ELSE turnCounter + 1
    BY <1>6, <1>7 DEF startNextTurn
  <2>2. turnCounter' = turnCounter + 1
    BY <1>6, <1>7 DEF startNextTurn
  <2>3. UNCHANGED stopped /\ (microtask' = "none" \/ (microtask' = "ready" /\ Len(q) = 1))
    BY <1>1, <1>4
  <2>4. QED
    BY <1>1, <1>2, <1>3, <1>7, <2>1, <2>2, <2>3, LaunchStep
<1>8. CASE ~CanStart(q)
  <2>1. pending' = q /\ UNCHANGED <<status, thread, activeTurn, turnCounter, turn>>
    BY <1>6, <1>8 DEF startNextTurn
  <2>2. activeTurn # 0 /\ microtask = "none"
    BY <1>1, <1>2, <1>4, <1>5, <1>8 DEF CanStart
  <2>3. TypeOK'
    BY <1>1, <1>2, <2>1 DEF TypeOK
  <2>4. NoOrphanTurn' /\ StatusMatchesTurn' /\ ChildIsSupervised' /\ TurnFlagsInv'
    BY <1>1, <2>1 DEF IInv, NoOrphanTurn, StatusMatchesTurn, ChildIsSupervised, TurnFlagsInv
  <2>5. PromptsInOrder'
    <3>1. \A u, x \in 1..turnCounter : u < x => turn[u].prompt < turn[x].prompt
      BY DEF IInv, PromptsInOrder
    <3>2. QED
      BY <1>3, <2>1, <3>1 DEF PromptsInOrder
  <2>6. Bounds'
    BY <1>1, <1>3, <2>1 DEF IInv, Bounds
  <2>7. MicrotaskInv'
    BY <1>1, <2>2 DEF MicrotaskInv
  <2>8. NumbersInv'
    <3>1. \A u \in 1..turnCounter : turn[u].prompt \in 1..accepted'
      BY <1>1 DEF IInv, NumbersInv
    <3>2. QED
      BY <1>3, <2>1, <3>1 DEF NumbersInv
  <2>9. AbstractStep
    BY <1>1, <2>1, QuietRefines
  <2>10. QED
    BY <2>3, <2>4, <2>5, <2>6, <2>7, <2>8, <2>9 DEF IInv
<1>9. QED
  BY <1>7, <1>8

LEMMA ReadyStep == IInv /\ Ready => IInv' /\ AbstractStep
<1> SUFFICES ASSUME IInv, Ready PROVE IInv' /\ AbstractStep
  OBVIOUS
<1>1. /\ microtask = "ready" /\ microtask' = "none"
      /\ status' \in {"idle", status}
      /\ status' = "idle" <=> activeTurn = 0 /\ pending = <<>> /\ ~stopped /\ status # "failed"
      /\ ~stopped /\ status # "idle" /\ pending = <<>>
      /\ UNCHANGED <<stopped, thread, pending, activeTurn, turnCounter, turn, accepted>>
  BY DEF Ready, IInv, MicrotaskInv
<1>2. status = "failed" => status' = "failed"
  BY <1>1
<1>3. TypeOK'
  BY <1>1 DEF IInv, TypeOK
<1>4. StatusMatchesTurn'
  BY <1>1, <1>2 DEF IInv, TypeOK, StatusMatchesTurn
<1>5. status' = "failed" => status = "failed"
  BY <1>1
<1>6. ChildIsSupervised' /\ TurnFlagsInv'
  BY <1>1, <1>2, <1>5 DEF IInv, ChildIsSupervised, TurnFlagsInv
<1>7. NoOrphanTurn' /\ PromptsInOrder' /\ Bounds' /\ NumbersInv'
  BY <1>1 DEF IInv, NoOrphanTurn, PromptsInOrder, Bounds, NumbersInv
<1>8. MicrotaskInv'
  BY <1>1 DEF MicrotaskInv
<1>9. AbstractStep
  BY <1>1, <1>2, QuietRefines
<1>10. QED
  BY <1>3, <1>4, <1>6, <1>7, <1>8, <1>9 DEF IInv

LEMMA NextTurnStep == IInv /\ NextTurn => IInv' /\ AbstractStep
<1> SUFFICES ASSUME IInv, NextTurn PROVE IInv' /\ AbstractStep
  OBVIOUS
<1>1. CanStart(pending)
  BY DEF NextTurn, IInv, MicrotaskInv, CanStart
<1>2. PICK outcome \in Outcome :
        /\ Commit(turnCounter + 1, Launched(pending, outcome))
        /\ activeTurn' = IF outcome = "threw" THEN activeTurn ELSE turnCounter + 1
  BY <1>1 DEF NextTurn, startNextTurn
<1>3. /\ turnCounter' = turnCounter + 1 /\ UNCHANGED <<stopped, accepted>>
      /\ microtask' = "none"
  BY <1>1 DEF NextTurn, startNextTurn
<1>4. /\ pending \in Seq(Messages)
      /\ accepted' \in accepted..MaxMessages
      /\ turnCounter + Len(pending) <= accepted'
  BY <1>3 DEF IInv, TypeOK, Bounds
<1>5. /\ \A t \in 1..turnCounter, i \in DOMAIN pending : turn[t].prompt < pending[i]
      /\ \A i, j \in DOMAIN pending : i < j => pending[i] < pending[j]
      /\ \A i \in DOMAIN pending : pending[i] <= accepted'
  BY <1>3 DEF IInv, PromptsInOrder, NumbersInv
<1>6. QED
  BY <1>1, <1>2, <1>3, <1>4, <1>5, LaunchStep

LEMMA StopSessionStep == IInv /\ StopSession => IInv' /\ AbstractStep
<1> SUFFICES ASSUME IInv, StopSession PROVE IInv' /\ AbstractStep
  OBVIOUS
<1>1. /\ microtask = "none" /\ stopped' = TRUE /\ pending' = <<>> /\ status # "failed"
      /\ UNCHANGED <<thread, activeTurn, turnCounter, microtask, accepted>>
      /\ TypeOK
  BY DEF StopSession, IInv
<1>2. PromptsInOrder' /\ NumbersInv' /\ Bounds' /\ TypeOK' /\ NoOrphanTurn'
      /\ StatusMatchesTurn' /\ ChildIsSupervised' /\ TurnFlagsInv'
  <2>1. CASE activeTurn = 0 /\ status' = "failed" /\ turn' = turn
    <3>1. \A t \in Turns : turn[t].proc \notin {"live", "unspawned"}
      BY <2>1 DEF IInv, NoOrphanTurn, Turns
    <3>2. TypeOK'
      BY <1>1, <2>1, EmptyQueue DEF TypeOK
    <3>3. QED
      BY <1>1, <2>1, <3>1, <3>2 DEF IInv, PromptsInOrder, NumbersInv, Bounds, NoOrphanTurn,
            StatusMatchesTurn, ChildIsSupervised, TurnFlagsInv, TypeOK
  <2>2. CASE activeTurn # 0 /\ status' = status
    <3>1. activeTurn \in Turns /\ activeTurn \in 1..turnCounter
      BY <1>1, <2>2 DEF IInv, TypeOK, Bounds, Turns
    <3>2. PICK w : w = terminateWithEscalation(View(activeTurn))
      OBVIOUS
    <3>3. turn' = [turn EXCEPT ![activeTurn] = w.turn]
      BY <2>2, <3>2 DEF StopSession
    <3>4. /\ w \in Views
          /\ w.turn.prompt = turn[activeTurn].prompt
          /\ w.turn.proc = turn[activeTurn].proc
          /\ w.turn.runtimeTimer = turn[activeTurn].runtimeTimer
          /\ w.turn.timedOut = turn[activeTurn].timedOut
          /\ w.turn.recoverable = turn[activeTurn].recoverable
          /\ w.turn.eventFailed = turn[activeTurn].eventFailed
          /\ w.turn.stopTimer # "off"
      BY <1>1, <3>1, <3>2, ViewType, TerminateFacts DEF View
    <3>5. /\ turn' \in [Turns -> Turn]
          /\ \A u \in Turns : turn'[u] = IF u = activeTurn THEN w.turn ELSE turn[u]
      BY <1>1, <3>1, <3>3, <3>4 DEF TypeOK, Views
    <3>6. TypeOK'
      BY <1>1, <2>2, <3>5, EmptyQueue DEF TypeOK
    <3>7. NoOrphanTurn'
      BY <1>1, <3>4, <3>5 DEF IInv, NoOrphanTurn
    <3>8. ChildIsSupervised'
      BY <1>1, <3>4, <3>5 DEF IInv, ChildIsSupervised, NoOrphanTurn
    <3>9. TurnFlagsInv' /\ StatusMatchesTurn'
      BY <1>1, <2>2, <3>4, <3>5 DEF IInv, TurnFlagsInv, StatusMatchesTurn
    <3>10. Bounds'
      BY <1>1, <3>1, <3>5 DEF IInv, Bounds, TypeOK
    <3>11. \A u \in 1..turnCounter : turn'[u].prompt = turn[u].prompt
      BY <1>1, <3>4, <3>5 DEF TypeOK, Turns
    <3>12. PromptsInOrder' /\ NumbersInv'
      BY <1>1, <3>11 DEF IInv, PromptsInOrder, NumbersInv
    <3>13. QED
      BY <3>6, <3>7, <3>8, <3>9, <3>10, <3>12
  <2>3. QED
    BY <2>1, <2>2 DEF StopSession
<1>3. MicrotaskInv'
  BY <1>1 DEF MicrotaskInv
<1>4. AbstractStep
  <2>1. LiveTurns' = LiveTurns
    <3>1. \A u \in Turns : turn'[u].proc = turn[u].proc
      BY <1>1, ViewType, TerminateFacts DEF StopSession, TypeOK, View, Turns
    <3>2. QED
      BY <3>1 DEF LiveTurns
  <2>2. CASE activeTurn = 0
    BY <1>1, <2>1, <2>2 DEF StopSession, AbstractStep, Contract!Next, Contract!End, Phase
  <2>3. CASE activeTurn # 0
    <3>1. activeTurn \in LiveTurns
      BY <1>1, <2>3 DEF IInv, TypeOK, NoOrphanTurn, TurnFlagsInv, LiveTurns, Turns
    <3>2. Phase = "open" /\ Phase' = "stopping"
      BY <1>1, <2>3 DEF StopSession, Phase
    <3>3. QED
      BY <2>1, <3>1, <3>2 DEF AbstractStep, Contract!Next, Contract!RequestStop
  <2>4. QED
    BY <2>2, <2>3
<1>5. QED
  BY <1>2, <1>3, <1>4 DEF IInv

(* The callbacks of a running turn other than its "close".                 *)
LEMMA OutputStep ==
  IInv /\ (\E t \in Turns, line \in Line : Output(t, line)) => IInv' /\ AbstractStep
<1> SUFFICES ASSUME IInv, NEW t \in Turns, NEW line \in Line, Output(t, line)
             PROVE  IInv' /\ AbstractStep
  OBVIOUS
<1>1. View(t) \in Views /\ View(t).turn = turn[t]
  BY ViewType DEF IInv, View
<1>2. PICK w : w = processLine(View(t), line)
  OBVIOUS
<1>3. Respects(View(t), w) /\ Commit(t, w)
  BY <1>1, <1>2, LineFacts DEF Output
<1>4. /\ turn[t].proc = "live" /\ microtask = "none"
      /\ UNCHANGED <<stopped, activeTurn, turnCounter, microtask, accepted>>
  BY DEF Output, Callback
<1>5. stopped => w.turn.stopTimer # "off"
  BY <1>1, <1>3, <1>4 DEF Respects, IInv, ChildIsSupervised
<1>6. QED
  BY <1>3, <1>4, <1>5, RespectsStep

LEMMA CrashStep ==
  IInv /\ (\E t \in Turns : OutputLimit(t) \/ ChildError(t)) => IInv' /\ AbstractStep
<1> SUFFICES ASSUME IInv, NEW t \in Turns, OutputLimit(t) \/ ChildError(t)
             PROVE  IInv' /\ AbstractStep
  OBVIOUS
<1> DEFINE v == [View(t) EXCEPT !.turn.eventFailed = TRUE]
<1>1. View(t) \in Views /\ View(t).turn = turn[t]
  BY ViewType DEF IInv, View
<1>2. /\ v \in Views
      /\ v.status = View(t).status /\ v.pending = View(t).pending
      /\ v.turn.prompt = turn[t].prompt /\ v.turn.proc = turn[t].proc
      /\ v.turn.runtimeTimer = turn[t].runtimeTimer
      /\ v.turn.stopTimer = turn[t].stopTimer
      /\ v.turn.recoverable = turn[t].recoverable
      /\ v.turn.timedOut = turn[t].timedOut
  BY <1>1 DEF Views, Turn
<1>3. PICK w : w = terminateWithEscalation(failSession(v))
  OBVIOUS
<1>4. /\ turn[t].proc = "live" /\ microtask = "none" /\ Commit(t, w)
      /\ UNCHANGED <<stopped, activeTurn, turnCounter, microtask, accepted>>
  BY <1>3 DEF OutputLimit, ChildError, Callback
<1> HIDE DEF v
<1>5. Respects(v, w) /\ w.status = "failed" /\ w.turn.stopTimer # "off"
  BY <1>2, <1>3, FailTerminateFacts
<1>6. Respects(View(t), w)
  BY <1>1, <1>2, <1>5 DEF Respects
<1>7. QED
  BY <1>4, <1>5, <1>6, RespectsStep

LEMMA TimerStep ==
  IInv /\ (\E t \in Turns : RuntimeTimeout(t) \/ StopTimeout(t)) => IInv' /\ AbstractStep
<1> SUFFICES ASSUME IInv, NEW t \in Turns, RuntimeTimeout(t) \/ StopTimeout(t)
             PROVE  IInv' /\ AbstractStep
  OBVIOUS
<1>1. /\ View(t) \in Views
      /\ View(t).turn = turn[t] /\ View(t).status = status /\ View(t).pending = pending
      /\ View(t).thread = thread
  BY ViewType DEF IInv, View
<1>2. /\ microtask = "none"
      /\ UNCHANGED <<stopped, activeTurn, turnCounter, microtask, accepted>>
  BY DEF RuntimeTimeout, StopTimeout, Callback
<1>3. t \in 1..turnCounter /\ turn[t] \in Turn
  <2>1. turn[t] # NoTurn
    BY DEF RuntimeTimeout, StopTimeout, NoTurn
  <2>2. QED
    BY <2>1 DEF IInv, Bounds, TypeOK, Turns
<1>4. turn[t].proc = "live" =>
        /\ IF stopped \/ Doomed(View(t)) THEN turn[t].stopTimer # "off"
                                         ELSE turn[t].runtimeTimer = "armed"
        /\ turn[t].eventFailed => status = "failed" \/ turn[t].recoverable
  BY <1>1 DEF IInv, ChildIsSupervised, TurnFlagsInv, Doomed
<1>5. CASE RuntimeTimeout(t)
  <2> DEFINE fired == [View(t) EXCEPT !.turn.runtimeTimer = "fired"]
             late == [fired EXCEPT !.turn.timedOut = TRUE]
             w == IF stopped \/ status = "failed" THEN fired
                  ELSE terminateWithEscalation(late)
  <2>1. /\ fired \in Views /\ fired.status = status /\ fired.pending = pending
        /\ fired.turn.prompt = turn[t].prompt /\ fired.turn.proc = turn[t].proc
        /\ fired.turn.stopTimer = turn[t].stopTimer
        /\ fired.turn.eventFailed = turn[t].eventFailed
        /\ fired.turn.recoverable = turn[t].recoverable
    BY <1>1 DEF Views, Turn, TimerState
  <2>2. /\ late \in Views /\ late.status = status /\ late.pending = pending
        /\ late.turn.prompt = turn[t].prompt /\ late.turn.proc = turn[t].proc
        /\ late.turn.eventFailed = turn[t].eventFailed
        /\ late.turn.recoverable = turn[t].recoverable
    BY <1>1 DEF Views, Turn, TimerState
  <2>3. /\ stopped \/ status = "failed" => w = fired
        /\ ~(stopped \/ status = "failed") => w = terminateWithEscalation(late)
    OBVIOUS
  <2>4. Commit(t, w)
    BY <1>5 DEF RuntimeTimeout
  <2> HIDE DEF fired, late, w
  <2>5. CASE stopped \/ status = "failed"
    <3>1. w = fired
      BY <2>3, <2>5
    <3>2. /\ w \in Views /\ w.status = status /\ w.pending = pending
          /\ w.turn.prompt = turn[t].prompt /\ w.turn.proc = turn[t].proc
      BY <2>1, <3>1
    <3>3. w.turn.proc = "live" =>
            /\ IF stopped \/ Doomed(w) THEN w.turn.stopTimer # "off"
                                       ELSE w.turn.runtimeTimer = "armed"
            /\ w.turn.eventFailed => w.status = "failed" \/ w.turn.recoverable
      BY <1>1, <1>4, <2>1, <2>5, <3>1 DEF Doomed
    <3>4. QED
      BY <1>2, <1>3, <2>4, <3>2, <3>3, CallbackStep
  <2>6. CASE ~(stopped \/ status = "failed")
    <3>1. w = terminateWithEscalation(late)
      BY <2>3, <2>6
    <3>2. /\ w \in Views /\ w.status = status /\ w.pending = pending
          /\ w.turn.prompt = turn[t].prompt /\ w.turn.proc = turn[t].proc
          /\ w.turn.eventFailed = turn[t].eventFailed
          /\ w.turn.recoverable = turn[t].recoverable
          /\ w.turn.stopTimer # "off"
      BY <2>2, <3>1, TerminateFacts
    <3>3. w.turn.proc = "live" =>
            /\ Doomed(w) => w.turn.stopTimer # "off"
            /\ stopped => w.turn.stopTimer # "off"
            /\ ~stopped /\ ~Doomed(w) => w.turn.runtimeTimer = "armed"
            /\ w.turn.eventFailed => w.status = "failed" \/ w.turn.recoverable
      <4>1. Doomed(w)
        <5>1. late.turn.timedOut = TRUE
          BY <1>1 DEF late, fired, Views, Turn
        <5>2. w.turn.timedOut = TRUE
          BY <2>2, <3>1, <5>1, TerminateFacts
        <5>3. QED
          BY <5>2 DEF Doomed
      <4>2. QED
        BY <1>4, <3>2, <4>1
    <3>4. QED
      BY <1>2, <1>3, <2>4, <3>2, <3>3, CallbackStep
  <2>7. QED
    BY <2>5, <2>6
<1>6. CASE StopTimeout(t)
  <2> DEFINE w == [View(t) EXCEPT !.turn.stopTimer = "fired"]
  <2>1. /\ w \in Views /\ w.status = status /\ w.pending = pending /\ w.thread = thread
        /\ w.turn.prompt = turn[t].prompt /\ w.turn.proc = turn[t].proc
        /\ w.turn.stopTimer = "fired"
        /\ w.turn.runtimeTimer = turn[t].runtimeTimer
        /\ w.turn.timedOut = turn[t].timedOut
        /\ w.turn.eventFailed = turn[t].eventFailed
        /\ w.turn.recoverable = turn[t].recoverable
    BY <1>1 DEF Views, Turn, TimerState
  <2>2. w.turn = [turn[t] EXCEPT !.stopTimer = "fired"]
    BY <1>1 DEF Views
  <2>3. Commit(t, w)
    BY <1>3, <1>6, <2>1, <2>2 DEF StopTimeout, Commit, IInv, TypeOK
  <2> HIDE DEF w
  <2>4. w.turn.proc = "live" =>
          /\ Doomed(w) \/ stopped => w.turn.stopTimer # "off"
          /\ ~Doomed(w) /\ ~stopped => w.turn.runtimeTimer = "armed"
          /\ w.turn.eventFailed => w.status = "failed" \/ w.turn.recoverable
    <3>1. w.turn.stopTimer # "off"
      BY <2>1
    <3>2. Doomed(w) <=> Doomed(View(t))
      BY <1>1, <2>1 DEF Doomed
    <3>3. w.turn.proc = "live" /\ ~Doomed(w) /\ ~stopped => w.turn.runtimeTimer = "armed"
      BY <1>4, <2>1, <3>2
    <3>4. QED
      BY <1>4, <2>1, <3>1, <3>3
  <2>5. QED
    BY <1>2, <1>3, <2>1, <2>3, <2>4, CallbackStep
<1>7. QED
  BY <1>5, <1>6

LEMMA CloseStep == IInv /\ (\E t \in Turns : Close(t)) => IInv' /\ AbstractStep
<1> SUFFICES ASSUME IInv, NEW t \in Turns, Close(t) PROVE IInv' /\ AbstractStep
  OBVIOUS
<1>1. /\ View(t) \in Views
      /\ View(t).turn = turn[t] /\ View(t).status = status /\ View(t).pending = pending
  BY ViewType DEF IInv, View
<1>2. PICK line \in Line, code \in ExitCode :
        LET v == Settled(processLine(View(t), line))
        IN /\ turn[t].proc = "unspawned" => line = "silent" /\ code = "nonzero"
           /\ Commit(t, finishTurn(v, code))
           /\ microtask' = IF CleanEnd(v, code) /\ v.pending # <<>>
                           THEN "nextTurn" ELSE "none"
  BY DEF Close
<1> DEFINE u == processLine(View(t), line)
           v == Settled(u)
           w == finishTurn(v, code)
<1>3. /\ turn[t].proc \in {"live", "unspawned"} /\ microtask = "none"
      /\ UNCHANGED <<stopped, turnCounter, accepted>>
      /\ activeTurn' = IF activeTurn = t THEN 0 ELSE activeTurn
  BY DEF Close, Callback
<1>4. /\ Commit(t, w)
      /\ microtask' = IF CleanEnd(v, code) /\ v.pending # <<>> THEN "nextTurn" ELSE "none"
  BY <1>2
<1>5. Respects(View(t), u)
  BY <1>1, LineFacts
<1>6. u.turn.eventFailed => u.status = "failed" \/ u.turn.recoverable
  <2>1. turn[t].eventFailed => status = "failed" \/ turn[t].recoverable
    BY <1>3 DEF IInv, TurnFlagsInv
  <2>2. QED
    BY <1>1, <1>5, <2>1 DEF Respects
<1> HIDE DEF u
<1>7. u \in Views /\ u.pending \in {pending, <<>>} /\ u.turn.prompt = turn[t].prompt
      /\ (status = "failed" => u.status = "failed")
  BY <1>1, <1>5 DEF Respects
<1>8. /\ v \in Views /\ v.pending = u.pending /\ v.status = u.status
      /\ v.turn.proc = "closed" /\ v.turn.prompt = turn[t].prompt
      /\ v.turn.eventFailed => v.status = "failed" \/ v.turn.recoverable
  BY <1>6, <1>7, SettledFacts
<1> HIDE DEF v
<1>9. /\ w \in Views
      /\ w.turn.proc = "closed" /\ w.turn.prompt = turn[t].prompt
      /\ w.status \in {"idle", "failed"}
      /\ w.pending \in {pending, <<>>}
      /\ status = "failed" => w.status = "failed"
      /\ stopped => w.status = "failed"
      /\ CleanEnd(v, code) => w.status = "idle" /\ w.pending = v.pending
  BY <1>7, <1>8, FinishFacts
<1> HIDE DEF w
<1>10. t = activeTurn /\ t \in 1..turnCounter /\ activeTurn' = 0 /\ turnCounter \in Nat
  BY <1>3 DEF IInv, NoOrphanTurn, Bounds, Turns, TypeOK
<1>11. /\ status' = w.status /\ pending' = w.pending
       /\ \A x \in Turns : turn'[x] = IF x = t THEN w.turn ELSE turn[x]
  BY <1>4, <1>10 DEF Commit, IInv, TypeOK
<1>12. TypeOK'
  BY <1>3, <1>4, <1>9, <1>10 DEF Commit, IInv, TypeOK, Views
<1>13. NoOrphanTurn'
  BY <1>9, <1>10, <1>11 DEF IInv, NoOrphanTurn, Turns
<1>14. StatusMatchesTurn'
  BY <1>9, <1>10, <1>11 DEF StatusMatchesTurn
<1>15. \A x \in Turns : turn[x].proc = "live" => x = t
  BY <1>10 DEF IInv, NoOrphanTurn
<1>16. ChildIsSupervised'
  BY <1>9, <1>11, <1>15 DEF ChildIsSupervised
<1>17. TurnFlagsInv'
  BY <1>3, <1>9, <1>10, <1>11, <1>15 DEF IInv, TurnFlagsInv, NoOrphanTurn
<1>18. Bounds'
  <2>1. Len(pending') <= Len(pending) /\ Len(pending') \in Nat /\ Len(pending) \in Nat
    BY <1>9, <1>11 DEF IInv, TypeOK
  <2>2. turnCounter' + Len(pending') <= accepted'
    BY <1>3, <1>10, <2>1 DEF IInv, Bounds, TypeOK
  <2>3. \A x \in Turns : x > turnCounter' => turn'[x] = NoTurn
    BY <1>3, <1>10, <1>11 DEF IInv, Bounds, Turns
  <2>4. QED
    BY <1>3, <1>10, <2>2, <2>3 DEF Bounds
<1>19. MicrotaskInv'
  BY <1>3, <1>4, <1>9, <1>10, <1>11 DEF MicrotaskInv, CleanEnd
<1>20. \A x \in 1..turnCounter : turn'[x].prompt = turn[x].prompt
  BY <1>9, <1>11 DEF IInv, Bounds, TypeOK, Turns
<1>21. PromptsInOrder' /\ NumbersInv'
  BY <1>3, <1>9, <1>11, <1>20 DEF IInv, PromptsInOrder, NumbersInv
<1>22. AbstractStep
  <2>1. CASE turn[t].proc = "live"
    <3>1. LiveTurns' = LiveTurns \ {t} /\ t \in LiveTurns
      BY <1>9, <1>11, <2>1 DEF LiveTurns
    <3>2. Phase' \in IF Phase = "open" THEN {"open", "ended"} ELSE {"ended"}
      BY <1>3, <1>9, <1>11 DEF Phase
    <3>3. QED
      BY <3>1, <3>2 DEF AbstractStep, Contract!Next, Contract!Reap
  <2>2. CASE turn[t].proc = "unspawned"
    <3>1. LiveTurns' = LiveTurns
      BY <1>9, <1>11, <2>2 DEF LiveTurns
    <3>2. Phase' = Phase
      BY <1>3, <1>9, <1>11, <2>2 DEF Phase, IInv, TurnFlagsInv
    <3>3. QED
      BY <3>1, <3>2 DEF AbstractStep
  <2>3. QED
    BY <1>3, <2>1, <2>2
<1>23. QED
  BY <1>12, <1>13, <1>14, <1>16, <1>17, <1>18, <1>19, <1>21, <1>22 DEF IInv

LEMMA StepInv == IInv /\ [Next]_vars => IInv' /\ AbstractStep
<1> SUFFICES ASSUME IInv, [Next]_vars PROVE IInv' /\ AbstractStep
  OBVIOUS
<1>1. CASE UNCHANGED vars
  <2>1. IInv'
    BY <1>1 DEF vars, IInv, TypeOK, NoOrphanTurn, StatusMatchesTurn, ChildIsSupervised,
                PromptsInOrder, Bounds, MicrotaskInv, TurnFlagsInv, NumbersInv
  <2>2. AbstractStep
    BY <1>1 DEF vars, AbstractStep, Phase, LiveTurns
  <2>3. QED
    BY <2>1, <2>2
<1>2. CASE Next
  BY <1>2, SendMessageStep, ReadyStep, NextTurnStep, StopSessionStep, OutputStep,
     CrashStep, TimerStep, CloseStep DEF Next
<1>3. QED
  BY <1>1, <1>2

-----------------------------------------------------------------------------
(* Every reachable state satisfies the inductive invariant, for any bound. *)
THEOREM Invariant == Spec => []IInv
<1>1. Init => IInv
  BY InitInv
<1>2. IInv /\ [Next]_vars => IInv'
  BY StepInv
<1>3. QED
  BY <1>1, <1>2, PTL DEF Spec

(* Type correctness of the provider's fields.                              *)
THEOREM TypeCorrect == Spec => []TypeOK
BY Invariant, PTL DEF IInv

(* However sends, timeouts and late "close" events interleave, the only    *)
(* process not yet reaped is that of the active turn.                      *)
THEOREM NoOrphan == Spec => []NoOrphanTurn
BY Invariant, PTL DEF IInv

(* The status shown to the phone agrees with what runs.                    *)
THEOREM StatusHonest == Spec => []StatusMatchesTurn
BY Invariant, PTL DEF IInv

(* A live process always has its runtime limit or its SIGKILL pending.     *)
THEOREM Supervised == Spec => []ChildIsSupervised
BY Invariant, PTL DEF IInv

(* Messages run in the order sent and none runs twice.                     *)
THEOREM InOrder == Spec => []PromptsInOrder
BY Invariant, PTL DEF IInv

(* The safety half of ImplementsContract: one process at a time, none      *)
(* started after a stop or the end, and ended is final.                    *)
THEOREM Refinement == Spec => Contract!SafetySpec
<1>1. Init => Contract!Init
  BY DEF Init, NoTurn, Contract!Init, Phase, LiveTurns
<1>2. IInv /\ [Next]_vars => [Contract!Next]_(Contract!vars)
  BY StepInv DEF AbstractStep, Contract!vars
<1>3. QED
  BY <1>1, <1>2, Invariant, PTL DEF Spec, Contract!SafetySpec
(* What the contract promises carries over: a session that has failed is   *)
(* not revived by whatever its old processes, timers or the phone still    *)
(* do, and starts nothing.                                                 *)
THEOREM EndedStaysEnded == Spec => Contract!EndedIsFinal
<1>1. [Contract!Next]_(Contract!vars) =>
        [Phase = "ended" => Phase' = "ended" /\ LiveTurns' \subseteq LiveTurns]_(Contract!vars)
  BY DEF Contract!Next, Contract!Launch, Contract!Reap, Contract!RequestStop, Contract!End,
         Contract!vars
<1>2. QED
  BY <1>1, Refinement, PTL DEF Contract!SafetySpec, Contract!EndedIsFinal
=============================================================================
