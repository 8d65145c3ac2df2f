------------------------- MODULE ClaudeStreamProofs -------------------------
(***************************************************************************)
(* Proofs about ClaudeStream, for every number of messages and of          *)
(* permission requests: type correctness and the safety properties its     *)
(* runs check, those that need the child's own process group under that    *)
(* assumption, and the safety half of the refinement of AgentLifecycle.    *)
(*                                                                         *)
(* A handler is a composition of functions on views of the state. Most of  *)
(* them only follow the view they are given: they keep what the invariant  *)
(* speaks of, or change it in the harmless direction. The lemmas say so    *)
(* once for each function; the step proofs cite them and expand only what  *)
(* the handler itself changes.                                             *)
(***************************************************************************)
EXTENDS ClaudeStream, TLAPS

USE DetachedAssumption, BoundsAssumption

AnyProc == [state : {"none", "unwritten", "live", "exited"},
            sig : {"none", "term", "kill"}, owed : Nat]

Views == [status : Status, before : {"none", "working", "idle"},
          shown : Approvals \cup {0},
          cached : [status : Status, shown : Approvals \cup {0}],
          stopped : BOOLEAN, timedOut : BOOLEAN, turnActive : BOOLEAN,
          child : Children \cup {0}, childExited : BOOLEAN,
          runtimeTimer : BOOLEAN, stopTimer : BOOLEAN, strays : Nat,
          bridge : BOOLEAN, held : Children \cup {0}, dirs : SUBSET Children,
          proc : [Children -> AnyProc], approval : [Approvals -> Approval],
          allowSimilar : BOOLEAN]

One(b) == IF b THEN 1 ELSE 0

(* What is counted. The children are numbered as they are spawned, one for *)
(* each message at most and one more; and every escalation is paid for by  *)
(* a message, by the stop or by the failure of the session, which bounds   *)
(* the timers whose handle was overwritten.                                *)
Numbered(w, n) == \A c \in Children : w.proc[c].state # "none" <=> c <= n
Paid(w, s) ==
  w.strays + One(w.stopTimer) + One(w.turnActive) <= s + One(w.stopped) + One(isTerminal(w))
Counted(w, s) ==
  /\ \E n \in 0..(IF w.status = "new" THEN 0 ELSE s + 1) : Numbered(w, n)
  /\ \A c \in Children : w.proc[c].owed <= s
  /\ w.strays <= s + 1
  /\ Paid(w, s)

(* What is known of the permission requests. A stop leaves none pending, a *)
(* failure none on display, and a similar action has one that was allowed. *)
Numbers(w, r) == \A a \in Approvals : w.approval[a].state # "none" => a <= r
Quiet(w) == w.stopped => Pending(w) = {}
Blank(w) == isTerminal(w) => w.shown = 0 /\ w.cached.shown = 0
WriteAllowed(w) == \E b \in Approvals : w.approval[b] = [state |-> "approved", kind |-> "write"]
Similar(w) ==
  /\ w.allowSimilar => WriteAllowed(w)
  /\ \A a \in Approvals : w.approval[a].state = "auto" =>
       w.approval[a].kind = "write" /\ WriteAllowed(w)

(* What holds of the child when signals go to its group: the fields name   *)
(* the one child that lives and its files, and a child that is not wanted  *)
(* any more was escalated. A config that could not be written is the last  *)
(* thing of a session.                                                     *)
LiveIn(w) == {c \in Children : w.proc[c].state = "live"}
UnwrittenIn(w) == {c \in Children : w.proc[c].state = "unwritten"}
Unwanted(w) == w.stopped \/ w.timedOut \/ isTerminal(w)
Escalated(w) ==
  \/ w.proc[w.child].sig = "kill"
  \/ w.proc[w.child].sig = "term" /\ (w.stopTimer \/ w.strays > 0)
Named(w) ==
  /\ \A c \in Children : w.proc[c].state = "live" <=> c = w.child
  /\ w.child # 0 => ~w.childExited
  /\ IF UnwrittenIn(w) = {} THEN w.held = w.child /\ w.dirs = LiveIn(w)
     ELSE isTerminal(w) /\ w.child = 0 /\ w.dirs = UnwrittenIn(w)
Supervised(w) == Named(w) /\ (Unwanted(w) /\ w.child # 0 => Escalated(w))
Bare(w) == LiveIn(w) = {} /\ UnwrittenIn(w) = {} /\ w.dirs \subseteq {w.held}

Base(w, s, r) ==
  /\ w \in Views /\ s \in 0..MaxMessages /\ r \in 0..MaxApprovals
  /\ w.status = "new" => ~w.stopped
  /\ Counted(w, s)
  /\ Numbers(w, r) /\ Quiet(w) /\ Blank(w) /\ Similar(w)
Inv(w, s, r) == Base(w, s, r) /\ (Detached => Supervised(w))

IInv == Inv(Now, sent, requested)

-----------------------------------------------------------------------------
(* w follows v: the children, the fields about them and the timers that    *)
(* escalate are v's, a request was at most denied, and neither a turn nor  *)
(* a limit appears.                                                        *)
SameChild(v, w) ==
  /\ w.child = v.child /\ w.childExited = v.childExited
  /\ w.held = v.held /\ w.dirs = v.dirs
  /\ w.stopTimer = v.stopTimer /\ w.strays = v.strays
  /\ \A c \in Children :
       /\ w.proc[c].state = v.proc[c].state /\ w.proc[c].sig = v.proc[c].sig
       /\ w.proc[c].owed <= v.proc[c].owed

SameRequests(v, w) ==
  /\ w.allowSimilar = v.allowSimilar
  /\ \A a \in Approvals :
       /\ w.approval[a].kind = v.approval[a].kind
       /\ \/ w.approval[a].state = v.approval[a].state
          \/ v.approval[a].state = "pending" /\ w.approval[a].state = "denied"

Follows(v, w) ==
  /\ w \in Views
  /\ SameChild(v, w) /\ SameRequests(v, w)
  /\ w.stopped = v.stopped
  /\ w.timedOut => v.timedOut
  /\ w.turnActive => v.turnActive
  /\ isTerminal(v) => isTerminal(w)
  /\ w.status = "new" => v.status = "new"
  /\ Blank(v) => Blank(w)

LEMMA FollowsSelf == ASSUME NEW v \in Views PROVE Follows(v, v)
<1>1. SameChild(v, v)
  BY DEF SameChild, Views, AnyProc
<1>2. SameRequests(v, v)
  BY DEF SameRequests
<1> QED BY <1>1, <1>2 DEF Follows

LEMMA FollowsTrans ==
  ASSUME NEW u \in Views, NEW v, NEW w, Follows(u, v), Follows(v, w)
  PROVE  Follows(u, w)
<1>1. SameChild(u, w)
  <2>1. SameChild(u, v) /\ SameChild(v, w)
    BY DEF Follows
  <2>2. ASSUME NEW c \in Children PROVE w.proc[c].owed <= u.proc[c].owed
    <3>1. /\ u.proc[c].owed \in Nat /\ v.proc[c].owed \in Nat /\ w.proc[c].owed \in Nat
      BY DEF Follows, Views, AnyProc
    <3> QED BY <2>1, <3>1 DEF SameChild
  <2> QED BY <2>1, <2>2 DEF SameChild
<1>2. SameRequests(u, w)
  BY DEF Follows, SameRequests
<1> QED BY <1>1, <1>2 DEF Follows

LEMMA EmitFollows == ASSUME NEW v \in Views PROVE Follows(v, emit(v))
<1>1. emit(v) \in Views
  BY DEF emit, Views
<1>2. SameChild(v, emit(v))
  BY DEF SameChild, Views, AnyProc, emit
<1>3. SameRequests(v, emit(v))
  BY DEF SameRequests, emit, Views
<1> QED BY <1>1, <1>2, <1>3 DEF Follows, emit, isTerminal, Views, Blank

LEMMA SetStatusFollows ==
  ASSUME NEW v \in Views, ~isTerminal(v), NEW s \in {"working", "idle", "approvalNeeded"}
  PROVE  Follows(v, setStatus(v, s)) /\ ~isTerminal(setStatus(v, s))
<1> DEFINE w == setStatus(v, s)
<1>1. w \in Views
  BY DEF setStatus, emit, Views, Status
<1>2. SameChild(v, w)
  BY DEF SameChild, Views, AnyProc, setStatus, emit
<1>3. SameRequests(v, w)
  BY DEF SameRequests, setStatus, emit, Views
<1>4. ~isTerminal(w)
  BY DEF setStatus, emit, isTerminal, Views
<1> QED BY <1>1, <1>2, <1>3, <1>4 DEF Follows, setStatus, emit, isTerminal, Views, Blank

LEMMA FailSessionFollows ==
  ASSUME NEW v \in Views
  PROVE  Follows(v, failSession(v)) /\ isTerminal(failSession(v))
<1> DEFINE w == failSession(v)
<1>1. w \in Views
  BY DEF failSession, emit, Views, Status
<1>2. SameChild(v, w)
  BY DEF SameChild, Views, AnyProc, failSession, emit
<1>3. SameRequests(v, w)
  BY DEF SameRequests, failSession, emit, Views
<1>4. isTerminal(w) /\ Blank(w)
  BY DEF failSession, emit, isTerminal, Blank, Views
<1> QED BY <1>1, <1>2, <1>3, <1>4 DEF Follows, failSession, emit, isTerminal, Views

LEMMA FailUnlessFollows ==
  ASSUME NEW v \in Views
  PROVE  Follows(v, failUnlessTerminal(v)) /\ isTerminal(failUnlessTerminal(v))
BY FollowsSelf, FailSessionFollows DEF failUnlessTerminal

LEMMA RecoverFollows ==
  ASSUME NEW v \in Views
  PROVE  /\ Follows(v, recoverTurn(v))
         /\ isTerminal(recoverTurn(v)) => isTerminal(v)
         /\ recoverTurn(v).approval = v.approval
<1>1. CASE v.stopped \/ isTerminal(v)
  BY <1>1, FollowsSelf DEF recoverTurn
<1>2. CASE ~(v.stopped \/ isTerminal(v))
  <2> DEFINE u == [v EXCEPT !.turnActive = FALSE, !.timedOut = FALSE,
                            !.runtimeTimer = FALSE, !.before = "none", !.shown = 0]
  <2>1. u \in Views
    BY DEF Views
  <2>2. SameChild(v, u)
    BY DEF SameChild, Views, AnyProc
  <2>3. SameRequests(v, u) /\ u.approval = v.approval
    BY DEF SameRequests, Views
  <2>4. ~isTerminal(u)
    BY <1>2 DEF isTerminal, Views
  <2>5. Follows(v, u)
    BY <2>1, <2>2, <2>3, <2>4, <1>2 DEF Follows, Views, Blank, isTerminal
  <2>6. setStatus(u, "idle").approval = u.approval
    BY <2>1 DEF setStatus, emit, Views
  <2>7. recoverTurn(v) = setStatus(u, "idle")
    BY <1>2 DEF recoverTurn
  <2> HIDE DEF u
  <2> QED BY <2>1, <2>3, <2>4, <2>5, <2>6, <2>7, SetStatusFollows, FollowsTrans
<1> QED BY <1>1, <1>2

LEMMA UnregisterFollows ==
  ASSUME NEW v \in Views
  PROVE  /\ Follows(v, unregisterApprovalBridge(v))
         /\ unregisterApprovalBridge(v).status = v.status
         /\ unregisterApprovalBridge(v).approval = v.approval
<1> DEFINE w == unregisterApprovalBridge(v)
<1>1. w \in Views
  BY DEF unregisterApprovalBridge, Views
<1>2. SameChild(v, w)
  BY DEF SameChild, Views, AnyProc, unregisterApprovalBridge
<1>3. SameRequests(v, w)
  BY DEF SameRequests, unregisterApprovalBridge, Views
<1> QED BY <1>1, <1>2, <1>3
    DEF Follows, unregisterApprovalBridge, isTerminal, Views, Blank

(* disposeAll settles every pending request and leaves the status alone.   *)
LEMMA DisposeFollows ==
  ASSUME NEW v \in Views
  PROVE  /\ Follows(v, disposeAll(v))
         /\ disposeAll(v).status = v.status
         /\ Pending(disposeAll(v)) = {}
<1> DEFINE w == disposeAll(v)
<1>1. CASE Pending(v) = {}
  BY <1>1, FollowsSelf DEF disposeAll
<1>2. CASE Pending(v) # {}
  <2> DEFINE settled == [a \in Approvals |->
                           IF a \in Pending(v) THEN [v.approval[a] EXCEPT !.state = "denied"]
                           ELSE v.approval[a]]
             one == Cardinality(Pending(v)) = 1
             copy == [status |-> v.status, shown |-> IF one THEN v.shown ELSE 0]
  <2>1. /\ settled \in [Approvals -> Approval]
        /\ \A a \in Approvals : settled[a].kind = v.approval[a].kind
        /\ \A a \in Approvals : settled[a].state =
             IF v.approval[a].state = "pending" THEN "denied" ELSE v.approval[a].state
    BY DEF Views, Approval, Pending
  <2>2. w = [v EXCEPT !.approval = settled, !.cached = copy,
                      !.shown = IF isTerminal(v) THEN v.shown ELSE 0]
    BY <1>2 DEF disposeAll, Views
  <2>3. /\ copy \in [status : Status, shown : Approvals \cup {0}]
        /\ v.shown = 0 => copy.shown = 0
    BY DEF Views
  <2> HIDE DEF settled, copy
  <2>4. w \in Views
    BY <2>1, <2>2, <2>3 DEF Views
  <2>5. /\ w.approval = settled /\ w.status = v.status /\ w.cached = copy
        /\ w.shown = IF isTerminal(v) THEN v.shown ELSE 0
        /\ w.proc = v.proc /\ w.allowSimilar = v.allowSimilar
        /\ w.child = v.child /\ w.childExited = v.childExited
        /\ w.held = v.held /\ w.dirs = v.dirs
        /\ w.stopTimer = v.stopTimer /\ w.strays = v.strays
        /\ w.stopped = v.stopped /\ w.timedOut = v.timedOut
        /\ w.turnActive = v.turnActive
    BY <2>2 DEF Views
  <2> HIDE DEF w
  <2>6. SameChild(v, w)
    BY <2>5 DEF SameChild, Views, AnyProc
  <2>7. SameRequests(v, w)
    BY <2>1, <2>5 DEF SameRequests
  <2>8. Blank(v) => Blank(w)
    BY <2>3, <2>5 DEF Blank, isTerminal
  <2>9. Pending(w) = {}
    BY <2>1, <2>5 DEF Pending
  <2> QED BY <2>4, <2>5, <2>6, <2>7, <2>8, <2>9 DEF Follows, isTerminal, w
<1> QED BY <1>1, <1>2

(* Cleaning up after v and after what follows it comes to the same.        *)
LEMMA CleanFollows ==
  ASSUME NEW v \in Views, NEW w, Follows(v, w)
  PROVE  /\ cleanupRuntimeArtifacts(v) \in Views
         /\ Follows(cleanupRuntimeArtifacts(v), cleanupRuntimeArtifacts(w))
         /\ cleanupRuntimeArtifacts(w).status = w.status
         /\ cleanupRuntimeArtifacts(w).stopped = w.stopped
         /\ cleanupRuntimeArtifacts(w).approval = w.approval
<1> DEFINE x == cleanupRuntimeArtifacts(v)
           y == cleanupRuntimeArtifacts(w)
<1>0. w \in Views
  BY DEF Follows
<1>1. x \in Views /\ y \in Views
  <2>1. /\ v.dirs \ {v.held} \in SUBSET Children
        /\ w.dirs \ {w.held} \in SUBSET Children
    BY <1>0 DEF Views
  <2>2. x \in Views
    BY <2>1 DEF cleanupRuntimeArtifacts, Views
  <2>3. y \in Views
    BY <1>0, <2>1 DEF cleanupRuntimeArtifacts, Views
  <2> QED BY <2>2, <2>3
<1>2. SameChild(x, y)
  BY <1>0 DEF Follows, SameChild, Views, AnyProc, cleanupRuntimeArtifacts
<1>3. SameRequests(x, y)
  BY <1>0 DEF Follows, SameRequests, cleanupRuntimeArtifacts, Views
<1>4. y.status = w.status /\ y.stopped = w.stopped /\ y.approval = w.approval
  BY <1>0 DEF cleanupRuntimeArtifacts, Views
<1> QED BY <1>0, <1>1, <1>2, <1>3, <1>4
    DEF Follows, cleanupRuntimeArtifacts, isTerminal, Views, Blank

(* A shown request is only seen while it is on display.                    *)
LEMMA RequiredFollows ==
  ASSUME NEW v \in Views, v.status # "new", NEW a \in Approvals
  PROVE  /\ Follows(v, onApprovalRequired(v, a))
         /\ isTerminal(onApprovalRequired(v, a)) <=> isTerminal(v)
         /\ onApprovalRequired(v, a).approval = v.approval
<1>1. CASE isTerminal(v)
  BY <1>1, FollowsSelf DEF onApprovalRequired
<1>2. CASE ~isTerminal(v)
  <2> DEFINE u == [v EXCEPT !.before = IF v.status = "approvalNeeded" THEN @ ELSE v.status,
                            !.status = "approvalNeeded", !.shown = a]
             w == emit(u)
  <2>1. v.status = "approvalNeeded" \/ v.status \in {"none", "working", "idle"}
    BY <1>2 DEF Views, Status, isTerminal
  <2>2. u \in Views
    BY <2>1 DEF Views, Status
  <2>3. SameChild(v, u)
    BY DEF SameChild, Views, AnyProc
  <2>4. SameRequests(v, u) /\ u.approval = v.approval
    BY DEF SameRequests, Views
  <2>5. u.status = "approvalNeeded"
    BY DEF Views
  <2>6. Follows(v, u)
    BY <1>2, <2>2, <2>3, <2>4, <2>5 DEF Follows, Views, Blank, isTerminal
  <2>7. onApprovalRequired(v, a) = w
    BY <1>2 DEF onApprovalRequired
  <2> HIDE DEF u
  <2>8. w.approval = u.approval /\ w.status = u.status
    BY <2>2 DEF emit, Views
  <2> HIDE DEF w
  <2>9. Follows(v, w)
    BY <2>2, <2>6, EmitFollows, FollowsTrans DEF w
  <2> QED BY <1>2, <2>4, <2>5, <2>7, <2>8, <2>9 DEF isTerminal
<1> QED BY <1>1, <1>2

LEMMA ResolvedFollows ==
  ASSUME NEW v \in Views
  PROVE  /\ Follows(v, onApprovalResolved(v))
         /\ isTerminal(onApprovalResolved(v)) <=> isTerminal(v)
         /\ onApprovalResolved(v).approval = v.approval
<1> DEFINE w == onApprovalResolved(v)
           out == emit(v)
           cleared == [emit(v) EXCEPT !.shown = 0]
           reset == [cleared EXCEPT !.before = "none"]
           s == IF v.before = "none" THEN "working" ELSE v.before
<1>0. /\ out \in Views /\ Follows(v, out)
      /\ out.status = v.status /\ out.approval = v.approval
  BY EmitFollows DEF emit, Views, Follows
<1>1. CASE isTerminal(v)
  BY <1>0, <1>1 DEF onApprovalResolved, isTerminal
<1>2. CASE ~isTerminal(v)
  <2> HIDE DEF out
  <2>1. cleared = [out EXCEPT !.shown = 0]
    BY DEF out
  <2> HIDE DEF cleared
  <2>2. /\ cleared \in Views
        /\ cleared.status = v.status /\ cleared.approval = v.approval
    BY <1>0, <2>1 DEF Views
  <2>3. SameChild(out, cleared)
    BY <1>0, <2>1 DEF SameChild, Views, AnyProc
  <2>4. SameRequests(out, cleared)
    BY <1>0, <2>1 DEF SameRequests, Views
  <2>5. Follows(out, cleared)
    BY <1>0, <2>1, <2>2, <2>3, <2>4 DEF Follows, Views, Blank, isTerminal
  <2>6. Follows(v, cleared)
    BY <1>0, <2>5, FollowsTrans
  <2>7. CASE Pending(v) = {} /\ v.status = "approvalNeeded"
    <3>1. w = setStatus(reset, s)
      BY <1>2, <2>7 DEF onApprovalResolved, cleared
    <3>2. /\ reset \in Views /\ reset.status = v.status
          /\ reset.approval = v.approval
      BY <2>2 DEF Views
    <3>3. SameChild(cleared, reset)
      BY <2>2 DEF SameChild, Views, AnyProc
    <3>4. SameRequests(cleared, reset)
      BY <2>2 DEF SameRequests, Views
    <3>5. Follows(cleared, reset)
      BY <2>2, <3>2, <3>3, <3>4 DEF Follows, Views, Blank, isTerminal
    <3> HIDE DEF reset
    <3>6. s \in {"working", "idle", "approvalNeeded"}
      BY DEF Views
    <3> HIDE DEF s
    <3>7. /\ Follows(reset, setStatus(reset, s)) /\ ~isTerminal(setStatus(reset, s))
      BY <1>2, <3>2, <3>6, SetStatusFollows DEF isTerminal
    <3>8. setStatus(reset, s).approval = v.approval
      BY <3>2 DEF setStatus, emit, Views
    <3>9. Follows(v, reset)
      BY <2>6, <3>5, FollowsTrans
    <3> QED BY <1>2, <3>1, <3>7, <3>8, <3>9, FollowsTrans
  <2>8. CASE ~(Pending(v) = {} /\ v.status = "approvalNeeded")
    <3>1. w = cleared
      BY <1>2, <2>8 DEF onApprovalResolved, cleared
    <3> QED BY <2>2, <2>6, <3>1 DEF isTerminal
  <2> QED BY <2>7, <2>8
<1> QED BY <1>1, <1>2

LEMMA EmissionFollows ==
  ASSUME NEW v \in Views, ~isTerminal(v), NEW s \in {"working", "idle"}
  PROVE  Follows(v, statusEmission(v, s)) /\ ~isTerminal(statusEmission(v, s))
<1>1. CASE v.status = "approvalNeeded" /\ v.before # "none"
  <2> DEFINE w == [v EXCEPT !.before = s]
  <2>1. statusEmission(v, s) = w
    BY <1>1 DEF statusEmission
  <2>2. w \in Views
    BY DEF Views
  <2>3. SameChild(v, w)
    BY DEF SameChild, Views, AnyProc
  <2>4. SameRequests(v, w)
    BY DEF SameRequests, Views
  <2> QED BY <1>1, <2>1, <2>2, <2>3, <2>4 DEF Follows, Views, Blank, isTerminal
<1>2. CASE ~(v.status = "approvalNeeded" /\ v.before # "none")
  BY <1>2, SetStatusFollows DEF statusEmission
<1> QED BY <1>1, <1>2

(* A line of output only follows, unless it is the error that fails a      *)
(* session with a child: then the child is also terminated. The failing    *)
(* turn is over before the child is signalled.                             *)
LEMMA LineFacts ==
  ASSUME NEW v \in Views, NEW c \in Children, NEW line \in Line
  PROVE  \/ /\ Follows(v, processStreamLine(v, c, line))
            /\ isTerminal(processStreamLine(v, c, line)) => isTerminal(v) \/ ~hasChild(v)
         \/ \E u \in Views :
              /\ processStreamLine(v, c, line) = terminateWithEscalation(u)
              /\ Follows(v, u) /\ hasChild(u) /\ isTerminal(u) /\ ~isTerminal(v)
<1> DEFINE w == processStreamLine(v, c, line)
<1>1. CASE line = "silent" \/ isTerminal(v)
  <2>1. w = emit(v)
    BY <1>1 DEF processStreamLine
  <2>2. isTerminal(emit(v)) <=> isTerminal(v)
    BY DEF emit, isTerminal, Views
  <2> QED BY <2>1, <2>2, EmitFollows
<1>2. CASE line = "progress" /\ ~isTerminal(v)
  <2>1. w = statusEmission(v, "working")
    BY <1>2 DEF processStreamLine
  <2> QED BY <1>2, <2>1, EmissionFollows
<1>3. CASE line = "result" /\ ~isTerminal(v)
  <2> DEFINE owed == IF v.proc[c].owed = 0 THEN 0 ELSE v.proc[c].owed - 1
             answered == [v EXCEPT !.turnActive = FALSE, !.timedOut = FALSE,
                                   !.runtimeTimer = FALSE,
                                   !.proc[c].owed = IF @ = 0 THEN 0 ELSE @ - 1]
             children == [v.proc EXCEPT ![c].owed = IF @ = 0 THEN 0 ELSE @ - 1]
  <2>1. w = statusEmission(emit(answered), "idle")
    BY <1>3 DEF processStreamLine
  <2>2. v.proc \in [Children -> AnyProc]
    BY DEF Views
  <2>3. children \in [Children -> AnyProc]
    BY <2>2 DEF AnyProc
  <2>4. \A d \in Children : /\ children[d].state = v.proc[d].state
                            /\ children[d].sig = v.proc[d].sig
                            /\ children[d].owed <= v.proc[d].owed
    BY <2>2 DEF AnyProc
  <2>5. answered = [v EXCEPT !.turnActive = FALSE, !.timedOut = FALSE,
                             !.runtimeTimer = FALSE, !.proc = children]
    BY DEF Views
  <2> HIDE DEF children
  <2>6. answered \in Views
    BY <2>3, <2>5 DEF Views
  <2>7. SameChild(v, answered)
    <3>1. answered.proc = children
      BY <2>5 DEF Views
    <3>2. /\ answered.child = v.child /\ answered.childExited = v.childExited
          /\ answered.held = v.held /\ answered.dirs = v.dirs
          /\ answered.stopTimer = v.stopTimer /\ answered.strays = v.strays
      BY DEF Views
    <3> QED BY <2>4, <3>1, <3>2 DEF SameChild
  <2>8. SameRequests(v, answered)
    BY DEF SameRequests, Views
  <2>9. Follows(v, answered)
    BY <1>3, <2>6, <2>7, <2>8 DEF Follows, Views, Blank, isTerminal
  <2> HIDE DEF answered
  <2>10. ~isTerminal(emit(answered))
    <3>1. answered.status = v.status
      BY DEF answered, Views
    <3> QED BY <1>3, <2>6, <3>1 DEF emit, isTerminal, Views
  <2>11. emit(answered) \in Views /\ Follows(v, emit(answered))
    BY <2>6, <2>9, EmitFollows, FollowsTrans DEF Follows
  <2>12. /\ Follows(emit(answered), statusEmission(emit(answered), "idle"))
         /\ ~isTerminal(statusEmission(emit(answered), "idle"))
    BY <2>10, <2>11, EmissionFollows
  <2> QED BY <2>1, <2>11, <2>12, FollowsTrans
<1>4. CASE line = "error" /\ ~isTerminal(v)
  <2> DEFINE failing == [v EXCEPT !.turnActive = FALSE, !.runtimeTimer = FALSE]
             disposed == disposeAll(failing)
             closed == unregisterApprovalBridge(disposed)
             failed == failSession(closed)
  <2>1. w = IF hasChild(failed) THEN terminateWithEscalation(failed) ELSE failed
    BY <1>4 DEF processStreamLine
  <2>2. failing \in Views
    BY DEF Views
  <2>3. SameChild(v, failing)
    BY DEF SameChild, Views, AnyProc
  <2>4. SameRequests(v, failing)
    BY DEF SameRequests, Views
  <2>5. Follows(v, failing)
    BY <1>4, <2>2, <2>3, <2>4 DEF Follows, Views, Blank, isTerminal
  <2> HIDE DEF failing
  <2>6. disposed \in Views /\ Follows(v, disposed)
    BY <2>2, <2>5, DisposeFollows, FollowsTrans DEF Follows
  <2> HIDE DEF disposed
  <2>7. closed \in Views /\ Follows(v, closed)
    BY <2>6, UnregisterFollows, FollowsTrans DEF Follows
  <2> HIDE DEF closed
  <2>8. failed \in Views /\ Follows(v, failed) /\ isTerminal(failed)
    BY <2>7, FailSessionFollows, FollowsTrans DEF Follows
  <2> HIDE DEF failed, w
  <2>9. hasChild(failed) <=> hasChild(v)
    BY <2>8 DEF Follows, SameChild, hasChild
  <2>10. CASE hasChild(failed)
    <3>1. w = terminateWithEscalation(failed)
      BY <2>1, <2>10
    <3>2. /\ w = terminateWithEscalation(failed)
          /\ Follows(v, failed) /\ hasChild(failed) /\ isTerminal(failed) /\ ~isTerminal(v)
      BY <1>4, <2>8, <2>10, <3>1
    <3> QED BY <2>8, <3>2 DEF w
  <2>11. CASE ~hasChild(failed)
    <3>1. w = failed
      BY <2>1, <2>11
    <3>2. Follows(v, w) /\ ~hasChild(v)
      BY <2>8, <2>9, <2>11, <3>1
    <3> QED BY <3>2 DEF w
  <2> QED BY <2>10, <2>11
<1>5. line \in {"silent", "progress", "result", "error"}
  BY DEF Line
<1> QED BY <1>1, <1>2, <1>3, <1>4, <1>5

-----------------------------------------------------------------------------
(* What the parts of the invariant need of a step that follows.            *)
LEMMA OneFacts ==
  /\ \A b \in BOOLEAN : One(b) \in Nat /\ One(b) <= 1
  /\ One(TRUE) = 1 /\ One(FALSE) = 0
  /\ \A b, c \in BOOLEAN : (b => c) => One(b) <= One(c)
BY DEF One

LEMMA BoolFacts ==
  ASSUME NEW w \in Views
  PROVE  /\ w.stopTimer \in BOOLEAN /\ w.turnActive \in BOOLEAN /\ w.stopped \in BOOLEAN
         /\ isTerminal(w) \in BOOLEAN
         /\ w.strays \in Nat
BY DEF Views, isTerminal

LEMMA FollowsCounted ==
  ASSUME NEW v \in Views, NEW w, Follows(v, w), NEW s \in Nat, Counted(v, s)
  PROVE  Counted(w, s)
<1>0. w \in Views
  BY DEF Follows
<1>1. \E n \in 0..(IF w.status = "new" THEN 0 ELSE s + 1) : Numbered(w, n)
  <2>1. PICK n \in 0..(IF v.status = "new" THEN 0 ELSE s + 1) : Numbered(v, n)
    BY DEF Counted
  <2>2. n \in 0..(IF w.status = "new" THEN 0 ELSE s + 1)
    BY DEF Follows
  <2>3. Numbered(w, n)
    BY <2>1 DEF Numbered, Follows, SameChild
  <2> QED BY <2>2, <2>3
<1>2. ASSUME NEW c \in Children PROVE w.proc[c].owed <= s
  <2>1. v.proc[c].owed \in Nat /\ w.proc[c].owed \in Nat
    BY <1>0 DEF Views, AnyProc
  <2>2. w.proc[c].owed <= v.proc[c].owed /\ v.proc[c].owed <= s
    BY DEF Follows, SameChild, Counted
  <2> QED BY <2>1, <2>2
<1>3. w.strays <= s + 1
  BY DEF Counted, Follows, SameChild
<1>4. Paid(w, s)
  <2>1. One(w.turnActive) <= One(v.turnActive)
    BY <1>0, BoolFacts, OneFacts DEF Follows
  <2>2. One(isTerminal(v)) <= One(isTerminal(w))
    BY <1>0, BoolFacts, OneFacts DEF Follows
  <2>3. w.strays = v.strays /\ w.stopTimer = v.stopTimer /\ w.stopped = v.stopped
    BY DEF Follows, SameChild
  <2>4. /\ v.strays \in Nat /\ One(v.stopTimer) \in Nat /\ One(v.stopped) \in Nat
        /\ One(v.turnActive) \in Nat /\ One(w.turnActive) \in Nat
        /\ One(isTerminal(v)) \in Nat /\ One(isTerminal(w)) \in Nat
    BY <1>0, BoolFacts, OneFacts
  <2>5. v.strays + One(v.stopTimer) + One(v.turnActive)
          <= s + One(v.stopped) + One(isTerminal(v))
    BY DEF Counted, Paid
  <2>6. w.strays + One(w.stopTimer) + One(w.turnActive)
          <= s + One(w.stopped) + One(isTerminal(w))
    BY <2>1, <2>2, <2>3, <2>4, <2>5
  <2> QED BY <2>6 DEF Paid
<1> QED BY <1>1, <1>2, <1>3, <1>4 DEF Counted

(* A request that was allowed stays so, whatever follows.                  *)
AllowedIn(w) == {a \in Approvals : w.approval[a].state \in {"approved", "auto"}}

LEMMA FollowsRequests ==
  ASSUME NEW v \in Views, NEW w, Follows(v, w), NEW r
  PROVE  /\ Numbers(v, r) => Numbers(w, r)
         /\ Quiet(v) => Quiet(w)
         /\ Similar(v) => Similar(w)
         /\ AllowedIn(w) = AllowedIn(v)
<1>0. w \in Views
  BY DEF Follows
<1>1. \A a \in Approvals : /\ w.approval[a] \in Approval /\ v.approval[a] \in Approval
                           /\ w.approval[a].kind = v.approval[a].kind
                           /\ \/ w.approval[a].state = v.approval[a].state
                              \/ /\ v.approval[a].state = "pending"
                                 /\ w.approval[a].state = "denied"
  BY <1>0 DEF Follows, SameRequests, Views
<1>2. Numbers(v, r) => Numbers(w, r)
  BY <1>1 DEF Numbers
<1>3. Quiet(v) => Quiet(w)
  BY <1>1 DEF Quiet, Pending, Follows
<1>4. WriteAllowed(v) => WriteAllowed(w)
  BY <1>1 DEF WriteAllowed, Approval
<1>5. Similar(v) => Similar(w)
  BY <1>1, <1>4 DEF Similar, Follows, SameRequests
<1>6. AllowedIn(w) = AllowedIn(v)
  BY <1>1 DEF AllowedIn
<1> QED BY <1>2, <1>3, <1>5, <1>6

LEMMA SameNamed ==
  ASSUME NEW v, NEW w, Named(v),
         w.child = v.child, w.childExited = v.childExited,
         w.held = v.held, w.dirs = v.dirs,
         \A c \in Children : w.proc[c].state = v.proc[c].state,
         isTerminal(v) => isTerminal(w)
  PROVE  Named(w)
<1>1. LiveIn(w) = LiveIn(v) /\ UnwrittenIn(w) = UnwrittenIn(v)
  BY DEF LiveIn, UnwrittenIn
<1> QED BY <1>1 DEF Named

LEMMA FollowsSupervised ==
  ASSUME NEW v \in Views, NEW w, Follows(v, w), Supervised(v),
         isTerminal(w) => isTerminal(v) \/ ~hasChild(v)
  PROVE  Supervised(w)
<1>0. w \in Views
  BY DEF Follows
<1>1. Named(w)
  BY SameNamed DEF Follows, SameChild, Supervised
<1>2. ASSUME Unwanted(w), w.child # 0 PROVE Escalated(w)
  <2>1. v.child = w.child /\ v.child \in Children
    BY <1>2 DEF Follows, SameChild, Views
  <2>2. hasChild(v)
    BY <1>2, <2>1 DEF Supervised, Named, hasChild
  <2>3. Unwanted(v)
    BY <1>2, <2>2 DEF Unwanted, Follows
  <2>4. Escalated(v)
    BY <1>2, <2>1, <2>3 DEF Supervised
  <2> QED BY <2>1, <2>4 DEF Escalated, Follows, SameChild
<1> QED BY <1>1, <1>2 DEF Supervised

LEMMA FollowsBase ==
  ASSUME NEW v, NEW w, Follows(v, w), NEW s, NEW r, Base(v, s, r)
  PROVE  Base(w, s, r)
<1>1. v \in Views /\ s \in Nat /\ w \in Views
  BY DEF Base, Follows
<1>2. Counted(w, s)
  BY <1>1, FollowsCounted DEF Base
<1>3. Numbers(w, r) /\ Quiet(w) /\ Similar(w)
  BY <1>1, FollowsRequests DEF Base
<1>4. Blank(w) /\ (w.status = "new" => ~w.stopped)
  BY DEF Base, Follows
<1> QED BY <1>1, <1>2, <1>3, <1>4 DEF Base

-----------------------------------------------------------------------------
(* What a step may do besides keeping the invariant: it allows nothing in  *)
(* an ended session, and it moves as AgentLifecycle says.                  *)
PhaseIn(w) == IF w.status = "failed" THEN "ended" ELSE IF w.stopped THEN "stopping" ELSE "open"

Moves(v, w) ==
  \/ /\ LiveIn(w) = LiveIn(v)
     /\ \/ PhaseIn(w) \in {PhaseIn(v), "ended"}
        \/ PhaseIn(v) = "open" /\ LiveIn(v) # {} /\ PhaseIn(w) = "stopping"
  \/ /\ LiveIn(v) = {} /\ PhaseIn(v) = "open"
     /\ \E c \in Children : LiveIn(w) = {c}
     /\ PhaseIn(w) \in {"open", "ended"}
  \/ /\ \E c \in LiveIn(v) : LiveIn(w) = LiveIn(v) \ {c}
     /\ PhaseIn(w) \in IF PhaseIn(v) = "open" THEN {"open", "ended"} ELSE {"ended"}

Step(v, w) ==
  /\ v.stopped \/ isTerminal(v) => AllowedIn(w) = AllowedIn(v)
  /\ Detached => Moves(v, w)

LEMMA FollowsLive ==
  ASSUME NEW v, NEW w, Follows(v, w)
  PROVE  LiveIn(w) = LiveIn(v) /\ PhaseIn(w) \in {PhaseIn(v), "ended"}
BY DEF Follows, SameChild, LiveIn, PhaseIn, isTerminal

LEMMA FollowsStep ==
  ASSUME NEW v, NEW w, Follows(v, w), NEW s, NEW r, Inv(v, s, r),
         Detached => (isTerminal(w) => isTerminal(v) \/ ~hasChild(v))
  PROVE  Inv(w, s, r) /\ Step(v, w)
<1>1. v \in Views
  BY DEF Inv, Base
<1>2. Inv(w, s, r)
  BY <1>1, FollowsBase, FollowsSupervised DEF Inv
<1>3. Step(v, w)
  BY <1>1, FollowsLive, FollowsRequests DEF Step, Moves
<1> QED BY <1>2, <1>3

-----------------------------------------------------------------------------
(* A signal changes nothing but what the current child was sent.           *)
LEMMA SignalFacts ==
  ASSUME NEW v \in Views, NEW signal \in {"term", "kill"}
  PROVE  \E q \in [Children -> AnyProc] :
           /\ terminateChild(v, signal) = [v EXCEPT !.proc = q]
           /\ \A c \in Children : /\ q[c].state = v.proc[c].state
                                  /\ q[c].owed = v.proc[c].owed
                                  /\ c # v.child => q[c].sig = v.proc[c].sig
           /\ hasChild(v) =>
                q[v.child].sig = IF v.proc[v.child].sig = "kill" THEN "kill" ELSE signal
<1>0. v.proc \in [Children -> AnyProc] /\ v.child \in Children \cup {0}
  BY DEF Views
<1>1. CASE hasChild(v) /\ v.proc[v.child].sig # "kill"
  <2> DEFINE q == [v.proc EXCEPT ![v.child].sig = signal]
  <2>1. v.child \in Children
    BY <1>0, <1>1 DEF hasChild
  <2>2. q \in [Children -> AnyProc]
    BY <1>0, <2>1 DEF AnyProc
  <2>3. \A c \in Children : /\ q[c].state = v.proc[c].state
                            /\ q[c].owed = v.proc[c].owed
                            /\ c # v.child => q[c].sig = v.proc[c].sig
    BY <1>0, <2>1 DEF AnyProc
  <2>4. q[v.child].sig = signal
    BY <1>0, <2>1 DEF AnyProc
  <2>5. terminateChild(v, signal) = [v EXCEPT !.proc = q]
    BY <1>1 DEF terminateChild, Views
  <2> HIDE DEF q
  <2> QED BY <1>1, <2>2, <2>3, <2>4, <2>5
<1>2. CASE ~(hasChild(v) /\ v.proc[v.child].sig # "kill")
  <2>1. terminateChild(v, signal) = [v EXCEPT !.proc = v.proc]
    BY <1>2 DEF terminateChild, Views
  <2> QED BY <1>0, <1>2, <2>1
<1> QED BY <1>1, <1>2

(* Escalating on a child that is to go keeps the invariant if the count    *)
(* has room for one more timer.                                            *)
LEMMA EscalateFacts ==
  ASSUME NEW u, NEW s, NEW r, Base(u, s, r), hasChild(u),
         u.strays + One(u.stopTimer) + One(u.turnActive) + 1
           <= s + One(u.stopped) + One(isTerminal(u)),
         Detached => Named(u),
         NEW w, w = terminateWithEscalation(u)
  PROVE  /\ Inv(w, s, r)
         /\ w.status = u.status /\ w.stopped = u.stopped /\ w.approval = u.approval
         /\ LiveIn(w) = LiveIn(u)
<1>0. u \in Views /\ s \in Nat
  BY DEF Base
<1>1. PICK q \in [Children -> AnyProc] :
        /\ terminateChild(u, "term") = [u EXCEPT !.proc = q]
        /\ \A c \in Children : /\ q[c].state = u.proc[c].state
                               /\ q[c].owed = u.proc[c].owed
                               /\ c # u.child => q[c].sig = u.proc[c].sig
        /\ hasChild(u) =>
             q[u.child].sig = IF u.proc[u.child].sig = "kill" THEN "kill" ELSE "term"
  BY <1>0, SignalFacts
<1> DEFINE k == IF u.stopTimer THEN u.strays + 1 ELSE u.strays
<1>2. w = [u EXCEPT !.proc = q, !.strays = k, !.stopTimer = TRUE]
  BY <1>0, <1>1 DEF terminateWithEscalation, Views
<1>3. k \in Nat /\ k = u.strays + One(u.stopTimer)
  BY <1>0, BoolFacts DEF One
<1> HIDE DEF k
<1>4. w \in Views
  BY <1>0, <1>2, <1>3 DEF Views
<1>5. /\ w.proc = q /\ w.strays = k /\ w.stopTimer = TRUE
      /\ w.child = u.child /\ w.childExited = u.childExited
      /\ w.held = u.held /\ w.dirs = u.dirs
      /\ w.status = u.status /\ w.stopped = u.stopped /\ w.timedOut = u.timedOut
      /\ w.turnActive = u.turnActive /\ w.shown = u.shown /\ w.cached = u.cached
      /\ w.approval = u.approval /\ w.allowSimilar = u.allowSimilar
  BY <1>0, <1>2 DEF Views
<1>6. isTerminal(w) = isTerminal(u)
  BY <1>5 DEF isTerminal
<1>7. Paid(w, s) /\ w.strays <= s + 1
  <2>1. /\ u.strays \in Nat /\ One(u.stopTimer) \in Nat /\ One(u.turnActive) \in Nat
        /\ One(u.stopped) \in Nat /\ One(u.stopped) <= 1
        /\ One(isTerminal(u)) \in Nat /\ One(isTerminal(u)) <= 1
        /\ One(TRUE) = 1
    BY <1>0, BoolFacts, OneFacts
  <2>2. k + 1 + One(u.turnActive) <= s + One(u.stopped) + One(isTerminal(u))
    BY <1>0, <1>3, <2>1
  <2>3. k <= s + 1
    BY <1>0, <1>3, <2>1, <2>2
  <2> QED BY <1>5, <1>6, <2>1, <2>2, <2>3 DEF Paid
<1>8. Counted(w, s)
  <2>1. \E n \in 0..(IF w.status = "new" THEN 0 ELSE s + 1) : Numbered(w, n)
    BY <1>1, <1>5 DEF Base, Counted, Numbered
  <2>2. \A c \in Children : w.proc[c].owed <= s
    BY <1>1, <1>5 DEF Base, Counted
  <2> QED BY <1>7, <2>1, <2>2 DEF Counted
<1>9. Base(w, s, r)
  BY <1>4, <1>5, <1>6, <1>8
    DEF Base, Numbers, Quiet, Pending, Blank, Similar, WriteAllowed
<1>10. LiveIn(w) = LiveIn(u)
  BY <1>1, <1>5 DEF LiveIn
<1>11. ASSUME Detached PROVE Supervised(w)
  <2>1. Named(w)
    BY <1>1, <1>5, <1>11, SameNamed DEF isTerminal
  <2>2. Escalated(w)
    BY <1>1, <1>5 DEF Escalated
  <2> QED BY <2>1, <2>2 DEF Supervised
<1> QED BY <1>5, <1>9, <1>10, <1>11 DEF Inv

-----------------------------------------------------------------------------
(* The child is gone: the fields forget it, then its files.                *)
Left(v) == [v EXCEPT !.childExited = TRUE, !.child = 0, !.runtimeTimer = FALSE,
                     !.stopTimer = FALSE]
Gone(v) == cleanupRuntimeArtifacts(Left(v))

LEMMA LeftFacts ==
  ASSUME NEW v, NEW s, NEW r, Base(v, s, r)
  PROVE  /\ Base(Left(v), s, r)
         /\ Left(v).proc = v.proc /\ Left(v).approval = v.approval
         /\ Left(v).status = v.status /\ Left(v).stopped = v.stopped
         /\ Left(v).child = 0 /\ Left(v).childExited = TRUE
         /\ Left(v).held = v.held /\ Left(v).dirs = v.dirs
<1> DEFINE w == Left(v)
<1>0. v \in Views /\ s \in Nat
  BY DEF Base
<1>1. w \in Views
  BY <1>0 DEF Left, Views
<1>2. /\ w.proc = v.proc /\ w.approval = v.approval
      /\ w.status = v.status /\ w.stopped = v.stopped
      /\ w.child = 0 /\ w.childExited = TRUE
      /\ w.held = v.held /\ w.dirs = v.dirs
      /\ w.strays = v.strays /\ w.stopTimer = FALSE /\ w.turnActive = v.turnActive
      /\ w.shown = v.shown /\ w.cached = v.cached /\ w.allowSimilar = v.allowSimilar
  BY <1>0 DEF Left, Views
<1> HIDE DEF w
<1>3. isTerminal(w) = isTerminal(v)
  BY <1>2 DEF isTerminal
<1>4. Paid(w, s)
  <2>1. /\ v.strays \in Nat /\ One(v.stopTimer) \in Nat /\ One(v.turnActive) \in Nat
        /\ One(v.stopped) \in Nat /\ One(isTerminal(v)) \in Nat /\ One(FALSE) = 0
    BY <1>0, BoolFacts, OneFacts
  <2>2. v.strays + One(v.stopTimer) + One(v.turnActive)
          <= s + One(v.stopped) + One(isTerminal(v))
    BY DEF Base, Counted, Paid
  <2>3. v.strays + 0 + One(v.turnActive) <= s + One(v.stopped) + One(isTerminal(v))
    BY <1>0, <2>1, <2>2
  <2>4. /\ w.strays = v.strays /\ One(w.stopTimer) = 0
        /\ One(w.turnActive) = One(v.turnActive) /\ One(w.stopped) = One(v.stopped)
        /\ One(isTerminal(w)) = One(isTerminal(v))
    BY <1>2, <1>3, <2>1
  <2> QED BY <2>3, <2>4 DEF Paid
<1>5. Counted(w, s)
  BY <1>2, <1>4 DEF Base, Counted, Numbered
<1>6. Base(w, s, r)
  BY <1>1, <1>2, <1>3, <1>5
    DEF Base, Numbers, Quiet, Pending, Blank, Similar, WriteAllowed
<1> QED BY <1>2, <1>6 DEF w

LEMMA CleanFacts ==
  ASSUME NEW v, NEW s, NEW r, Base(v, s, r)
  PROVE  LET w == cleanupRuntimeArtifacts(v) IN
         /\ Base(w, s, r)
         /\ w.proc = v.proc /\ w.approval = v.approval
         /\ w.status = v.status /\ w.stopped = v.stopped /\ w.timedOut = v.timedOut
         /\ w.child = v.child /\ w.childExited = v.childExited
         /\ w.held = 0 /\ w.dirs = v.dirs \ {v.held}
<1> DEFINE w == cleanupRuntimeArtifacts(v)
<1>0. v \in Views
  BY DEF Base
<1>1. w \in Views
  BY <1>0, FollowsSelf, CleanFollows
<1>2. /\ w.proc = v.proc /\ w.approval = v.approval
      /\ w.status = v.status /\ w.stopped = v.stopped /\ w.timedOut = v.timedOut
      /\ w.child = v.child /\ w.childExited = v.childExited
      /\ w.strays = v.strays /\ w.stopTimer = v.stopTimer /\ w.turnActive = v.turnActive
      /\ w.shown = v.shown /\ w.cached = v.cached /\ w.allowSimilar = v.allowSimilar
  BY <1>0 DEF cleanupRuntimeArtifacts, Views
<1>3. w.held = 0 /\ w.dirs = v.dirs \ {v.held}
  BY <1>0 DEF cleanupRuntimeArtifacts, Views
<1> HIDE DEF w
<1>4. Counted(w, s)
  BY <1>2 DEF Base, Counted, Numbered, Paid, isTerminal
<1>5. Base(w, s, r)
  BY <1>1, <1>2, <1>4
    DEF Base, Numbers, Quiet, Pending, Blank, isTerminal, Similar, WriteAllowed
<1> QED BY <1>2, <1>3, <1>5 DEF w

LEMMA GoneFacts ==
  ASSUME NEW v, NEW s, NEW r, Base(v, s, r)
  PROVE  LET w == Gone(v) IN
         /\ Base(w, s, r)
         /\ LiveIn(w) = LiveIn(v) /\ AllowedIn(w) = AllowedIn(v)
         /\ w.status = v.status /\ w.stopped = v.stopped
         /\ ~hasChild(w)
         /\ Bare(v) => Supervised(w)
<1> DEFINE w == Gone(v)
<1>1. /\ Base(w, s, r)
      /\ w.proc = v.proc /\ w.approval = v.approval
      /\ w.status = v.status /\ w.stopped = v.stopped
      /\ w.child = 0
      /\ w.held = 0 /\ w.dirs = v.dirs \ {v.held}
  <2> DEFINE x == Left(v)
  <2>1. /\ Base(x, s, r)
        /\ x.proc = v.proc /\ x.approval = v.approval
        /\ x.status = v.status /\ x.stopped = v.stopped
        /\ x.child = 0 /\ x.held = v.held /\ x.dirs = v.dirs
    BY LeftFacts
  <2> HIDE DEF x
  <2>2. w = cleanupRuntimeArtifacts(x)
    BY DEF Gone, x
  <2> HIDE DEF w
  <2>3. /\ Base(w, s, r)
        /\ w.proc = x.proc /\ w.approval = x.approval
        /\ w.status = x.status /\ w.stopped = x.stopped
        /\ w.child = x.child
        /\ w.held = 0 /\ w.dirs = x.dirs \ {x.held}
    BY <2>1, <2>2, CleanFacts
  <2> QED BY <2>1, <2>3
<1> HIDE DEF w
<1>2. LiveIn(w) = LiveIn(v) /\ AllowedIn(w) = AllowedIn(v)
  BY <1>1 DEF LiveIn, AllowedIn
<1>3. ASSUME Bare(v) PROVE Supervised(w)
  <2>1. 0 \notin Children
    BY DEF Children
  <2> QED BY <1>1, <1>2, <1>3, <2>1 DEF Bare, Supervised, Named, LiveIn, UnwrittenIn
<1> QED BY <1>1, <1>2, <1>3 DEF hasChild, w

(* The rest of an exit or of a failed spawn, once the child is gone: the   *)
(* files go after the requests were denied, and a stopped session ends.    *)
LEMMA CleanDisposeFacts ==
  ASSUME NEW v \in Views, NEW w, Follows(Left(v), w), Left(v) \in Views
  PROVE  LET clean == cleanupRuntimeArtifacts(disposeAll(w)) IN
         /\ clean \in Views
         /\ Follows(Gone(v), clean) /\ Gone(v) \in Views
         /\ clean.stopped = v.stopped
<1>1. w \in Views
  BY DEF Follows
<1>2. disposeAll(w) \in Views /\ Follows(w, disposeAll(w))
  BY <1>1, DisposeFollows DEF Follows
<1>3. Follows(Left(v), disposeAll(w))
  BY <1>2, FollowsTrans
<1>4. /\ Follows(Gone(v), cleanupRuntimeArtifacts(disposeAll(w)))
      /\ Gone(v) \in Views
      /\ cleanupRuntimeArtifacts(disposeAll(w)).stopped = disposeAll(w).stopped
  BY <1>3, CleanFollows DEF Gone
<1>5. Left(v).stopped = v.stopped
  BY DEF Left, Views
<1> QED BY <1>3, <1>4, <1>5 DEF Follows

LEMMA SettleFacts ==
  ASSUME NEW v, NEW s, NEW r, Base(v, s, r), NEW w,
         Follows(Gone(v), w), w.stopped => isTerminal(w)
  PROVE  /\ Base(w, s, r)
         /\ LiveIn(w) = LiveIn(v) /\ AllowedIn(w) = AllowedIn(v)
         /\ PhaseIn(w) \in IF PhaseIn(v) = "open" THEN {"open", "ended"} ELSE {"ended"}
         /\ Bare(v) => Supervised(w)
<1> DEFINE x == Gone(v)
<1>1. /\ Base(x, s, r)
      /\ LiveIn(x) = LiveIn(v) /\ AllowedIn(x) = AllowedIn(v)
      /\ x.status = v.status /\ x.stopped = v.stopped
      /\ ~hasChild(x)
      /\ Bare(v) => Supervised(x)
  BY GoneFacts
<1> HIDE DEF x
<1>2. x \in Views /\ Follows(x, w)
  BY <1>1 DEF Base, x
<1>3. Base(w, s, r)
  BY <1>1, <1>2, FollowsBase
<1>4. LiveIn(w) = LiveIn(v) /\ PhaseIn(w) \in {PhaseIn(v), "ended"}
  <2>1. PhaseIn(x) = PhaseIn(v)
    BY <1>1 DEF PhaseIn
  <2> QED BY <1>1, <1>2, <2>1, FollowsLive
<1>5. PhaseIn(w) # "stopping"
  BY DEF PhaseIn, isTerminal
<1>6. AllowedIn(w) = AllowedIn(v)
  BY <1>1, <1>2, FollowsRequests
<1>7. PhaseIn(v) \in {"open", "stopping", "ended"}
  BY DEF PhaseIn
<1> QED BY <1>1, <1>2, <1>3, <1>4, <1>5, <1>6, <1>7, FollowsSupervised

LEMMA ErrorFacts ==
  ASSUME NEW v, NEW s, NEW r, Base(v, s, r)
  PROVE  LET w == childError(v) IN
         /\ Base(w, s, r)
         /\ LiveIn(w) = LiveIn(v) /\ AllowedIn(w) = AllowedIn(v)
         /\ PhaseIn(w) \in IF PhaseIn(v) = "open" THEN {"open", "ended"} ELSE {"ended"}
         /\ Bare(v) => Supervised(w)
<1> DEFINE clean == cleanupRuntimeArtifacts(disposeAll(Left(v)))
           w == childError(v)
<1>1. v \in Views /\ Left(v) \in Views
  BY LeftFacts DEF Base
<1>2. /\ clean \in Views
      /\ Follows(Gone(v), clean) /\ Gone(v) \in Views
  BY <1>1, FollowsSelf, CleanDisposeFacts
<1>3. w = IF clean.stopped THEN failUnlessTerminal(clean) ELSE recoverTurn(clean)
  BY DEF childError, Left
<1> HIDE DEF clean, w
<1>4. Follows(clean, w) /\ (w.stopped => isTerminal(w))
  BY <1>2, <1>3, FailUnlessFollows, RecoverFollows DEF Follows
<1>5. Follows(Gone(v), w)
  BY <1>2, <1>4, FollowsTrans
<1> QED BY <1>4, <1>5, SettleFacts DEF w

-----------------------------------------------------------------------------
(* There is a number left for the next child: it is the one after the      *)
(* children there were.                                                    *)
LEMMA NextChildFacts ==
  ASSUME NEW v, NEW s, NEW r, Base(v, s, r), NEW s2 \in 0..MaxMessages,
         (v.status = "new" /\ s2 = s) \/ s2 = s + 1
  PROVE  /\ NextChild(v) \in Children
         /\ v.proc[NextChild(v)].state = "none"
         /\ Numbered(v, NextChild(v) - 1)
         /\ NextChild(v) <= s2 + 1
<1> DEFINE P(c) == /\ v.proc[c].state = "none"
                   /\ \A d \in Children : v.proc[d].state = "none" => c <= d
<1>1. PICK n \in 0..(IF v.status = "new" THEN 0 ELSE s + 1) : Numbered(v, n)
  BY DEF Base, Counted
<1>2. s \in Nat /\ s2 \in Nat /\ s2 <= MaxMessages /\ n \in Nat /\ n <= s2
  BY <1>1 DEF Base
<1>3. n + 1 \in Children
  BY <1>2 DEF Children
<1>4. ASSUME NEW d \in Children, v.proc[d].state = "none" PROVE n + 1 <= d
  BY <1>1, <1>2, <1>4 DEF Numbered, Children
<1>5. v.proc[n + 1].state = "none"
  BY <1>1, <1>2, <1>3 DEF Numbered
<1>6. P(n + 1)
  BY <1>4, <1>5
<1>7. NextChild(v) \in Children /\ P(NextChild(v))
  <2>1. NextChild(v) = CHOOSE c \in Children : P(c)
    BY DEF NextChild
  <2>2. \E c \in Children : P(c)
    BY <1>3, <1>6
  <2> HIDE DEF P
  <2> QED BY <2>1, <2>2
<1>8. NextChild(v) = n + 1
  <2>1. n + 1 <= NextChild(v)
    BY <1>4, <1>7
  <2>2. NextChild(v) <= n + 1
    BY <1>3, <1>5, <1>7
  <2> QED BY <1>2, <1>7, <2>1, <2>2 DEF Children
<1>9. NextChild(v) - 1 = n
  BY <1>2, <1>8
<1> QED BY <1>1, <1>2, <1>7, <1>8, <1>9

Entry(outcome) ==
  [state |-> CASE outcome = "ok" -> "live" [] outcome = "noConfig" -> "unwritten"
               [] outcome = "noProcess" -> "none",
   sig |-> "none", owed |-> 0]

LEMMA SpawnFields ==
  ASSUME NEW v \in Views, NEW outcome \in Outcome, NextChild(v) \in Children
  PROVE  LET c == NextChild(v)
             w == spawnProcess(v, outcome) IN
         /\ w \in Views
         /\ w.status = "working" /\ w.timedOut = FALSE /\ w.childExited = FALSE
         /\ w.stopped = v.stopped /\ w.turnActive = v.turnActive
         /\ w.stopTimer = v.stopTimer /\ w.strays = v.strays
         /\ w.approval = v.approval /\ w.allowSimilar = v.allowSimilar
         /\ outcome \in Unprepared => w.child = v.child
         /\ outcome \in {"noDirectory", "threw"} => w.proc = v.proc
         /\ outcome = "noDirectory" => w.held = v.held /\ w.dirs = v.dirs
         /\ outcome = "threw" => w.held = 0 /\ w.dirs = (v.dirs \cup {c}) \ {c}
         /\ outcome \in {"noConfig", "ok", "noProcess"} =>
              /\ w.held = c /\ w.dirs = v.dirs \cup {c}
              /\ w.proc = [v.proc EXCEPT ![c] = Entry(outcome)]
         /\ outcome \in {"ok", "noProcess"} => w.child = c
<1> DEFINE c == NextChild(v)
           w == spawnProcess(v, outcome)
<1>0. /\ c = NextChild(v) /\ c \in Children
      /\ w = spawnProcess(v, outcome)
  OBVIOUS
<1> HIDE DEF c, w
<1> DEFINE early == [v EXCEPT !.childExited = FALSE, !.timedOut = FALSE]
           fresh == setStatus(early, "working")
           made == [fresh EXCEPT !.held = c, !.dirs = @ \cup {c}]
           prepared == [made EXCEPT !.bridge = TRUE]
           entry == Entry(outcome)
<1>1. /\ early \in Views
      /\ early.timedOut = FALSE /\ early.childExited = FALSE
      /\ early.stopped = v.stopped /\ early.turnActive = v.turnActive
      /\ early.stopTimer = v.stopTimer /\ early.strays = v.strays
      /\ early.approval = v.approval /\ early.allowSimilar = v.allowSimilar
      /\ early.child = v.child /\ early.proc = v.proc
      /\ early.held = v.held /\ early.dirs = v.dirs
  BY DEF Views
<1> HIDE DEF early
<1>2. /\ fresh \in Views
      /\ fresh.status = "working"
      /\ fresh.timedOut = FALSE /\ fresh.childExited = FALSE
      /\ fresh.stopped = v.stopped /\ fresh.turnActive = v.turnActive
      /\ fresh.stopTimer = v.stopTimer /\ fresh.strays = v.strays
      /\ fresh.approval = v.approval /\ fresh.allowSimilar = v.allowSimilar
      /\ fresh.child = v.child /\ fresh.proc = v.proc
      /\ fresh.held = v.held /\ fresh.dirs = v.dirs
  BY <1>1 DEF setStatus, emit, Views, Status
<1>3. fresh = setStatus([v EXCEPT !.childExited = FALSE, !.timedOut = FALSE], "working")
  BY DEF early
<1> HIDE DEF fresh
<1>4. /\ made \in Views
      /\ made.status = "working"
      /\ made.timedOut = FALSE /\ made.childExited = FALSE
      /\ made.stopped = v.stopped /\ made.turnActive = v.turnActive
      /\ made.stopTimer = v.stopTimer /\ made.strays = v.strays
      /\ made.approval = v.approval /\ made.allowSimilar = v.allowSimilar
      /\ made.child = v.child /\ made.proc = v.proc
      /\ made.held = c /\ made.dirs = v.dirs \cup {c}
  <2>1. v.dirs \cup {c} \in SUBSET Children
    BY <1>0 DEF Views
  <2> QED BY <1>0, <1>2, <2>1 DEF Views
<1>5. made = [fresh EXCEPT !.held = c, !.dirs = @ \cup {c}]
  OBVIOUS
<1> HIDE DEF made
<1>7. /\ prepared \in Views
      /\ prepared.status = "working"
      /\ prepared.timedOut = FALSE /\ prepared.childExited = FALSE
      /\ prepared.stopped = v.stopped /\ prepared.turnActive = v.turnActive
      /\ prepared.stopTimer = v.stopTimer /\ prepared.strays = v.strays
      /\ prepared.approval = v.approval /\ prepared.allowSimilar = v.allowSimilar
      /\ prepared.child = v.child /\ prepared.proc = v.proc
      /\ prepared.held = c /\ prepared.dirs = v.dirs \cup {c}
  BY <1>4 DEF Views
<1>8. prepared = [made EXCEPT !.bridge = TRUE]
  OBVIOUS
<1> HIDE DEF prepared
<1>6. /\ w \in Views
      /\ w.status = "working" /\ w.timedOut = FALSE /\ w.childExited = FALSE
      /\ w.stopped = v.stopped /\ w.turnActive = v.turnActive
      /\ w.stopTimer = v.stopTimer /\ w.strays = v.strays
      /\ w.approval = v.approval /\ w.allowSimilar = v.allowSimilar
      /\ outcome \in Unprepared => w.child = v.child
      /\ outcome \in {"noDirectory", "threw"} => w.proc = v.proc
      /\ outcome = "noDirectory" => w.held = v.held /\ w.dirs = v.dirs
      /\ outcome = "threw" => w.held = 0 /\ w.dirs = (v.dirs \cup {c}) \ {c}
      /\ outcome \in {"noConfig", "ok", "noProcess"} =>
           /\ w.held = c /\ w.dirs = v.dirs \cup {c}
           /\ w.proc = [v.proc EXCEPT ![c] = Entry(outcome)]
      /\ outcome \in {"ok", "noProcess"} => w.child = c
  <2>1. CASE outcome = "noDirectory"
    <3>1. w = fresh
      BY <1>0, <1>3, <2>1 DEF spawnProcess
    <3> QED BY <1>2, <2>1, <3>1 DEF Unprepared
  <2>2. CASE outcome = "threw"
    <3>1. w = cleanupRuntimeArtifacts(prepared)
      BY <1>0, <1>3, <1>5, <1>8, <2>2 DEF spawnProcess
    <3>2. w = [prepared EXCEPT !.bridge = FALSE, !.dirs = (v.dirs \cup {c}) \ {c}, !.held = 0]
      BY <1>7, <3>1 DEF cleanupRuntimeArtifacts, Views
    <3>3. (v.dirs \cup {c}) \ {c} \in SUBSET Children
      BY DEF Views
    <3>4. w \in Views
      BY <1>7, <3>2, <3>3 DEF Views
    <3>5. /\ w.status = "working"
          /\ w.timedOut = FALSE /\ w.childExited = FALSE
          /\ w.stopped = v.stopped /\ w.turnActive = v.turnActive
          /\ w.stopTimer = v.stopTimer /\ w.strays = v.strays
          /\ w.approval = v.approval /\ w.allowSimilar = v.allowSimilar
          /\ w.child = v.child /\ w.proc = v.proc
          /\ w.held = 0 /\ w.dirs = (v.dirs \cup {c}) \ {c}
      BY <1>7, <3>2 DEF Views
    <3> QED BY <2>2, <3>4, <3>5
  <2>3. ASSUME outcome \in {"noConfig", "ok", "noProcess"}
        PROVE  [v.proc EXCEPT ![c] = entry] \in [Children -> AnyProc]
    <3>1. entry \in AnyProc
      BY <2>3 DEF AnyProc, Entry
    <3> HIDE DEF entry
    <3> QED BY <3>1 DEF Views
  <2>4. CASE outcome = "noConfig"
    <3>0. w = [made EXCEPT !.proc[c] = entry]
      <4>1. entry = [NoProc EXCEPT !.state = "unwritten"]
        BY <2>4 DEF Entry, NoProc
      <4> HIDE DEF entry
      <4> QED BY <1>0, <1>3, <1>5, <2>4, <4>1 DEF spawnProcess
    <3> HIDE DEF entry
    <3>1. w = [made EXCEPT !.proc = [v.proc EXCEPT ![c] = entry]]
      BY <1>4, <3>0 DEF Views
    <3>4. w \in Views
      BY <1>0, <1>4, <2>3, <2>4, <3>1 DEF Views
    <3>5. /\ w.status = "working"
          /\ w.timedOut = FALSE /\ w.childExited = FALSE
          /\ w.stopped = v.stopped /\ w.turnActive = v.turnActive
          /\ w.stopTimer = v.stopTimer /\ w.strays = v.strays
          /\ w.approval = v.approval /\ w.allowSimilar = v.allowSimilar
          /\ w.child = v.child /\ w.proc = [v.proc EXCEPT ![c] = entry]
          /\ w.held = c /\ w.dirs = v.dirs \cup {c}
      BY <1>4, <3>1 DEF Views
    <3> QED BY <2>4, <3>4, <3>5 DEF entry
  <2>5. CASE outcome \in {"ok", "noProcess"}
    <3>0. w = [prepared EXCEPT !.child = c, !.proc[c] = entry]
      <4>1. entry = IF outcome = "ok" THEN [NoProc EXCEPT !.state = "live"] ELSE NoProc
        BY <2>5 DEF Entry, NoProc
      <4> HIDE DEF entry
      <4> QED BY <1>0, <1>3, <1>5, <1>8, <2>5, <4>1 DEF spawnProcess
    <3> HIDE DEF entry
    <3>1. w = [prepared EXCEPT !.child = c, !.proc = [v.proc EXCEPT ![c] = entry]]
      BY <1>7, <3>0 DEF Views
    <3>4. w \in Views
      BY <1>0, <1>7, <2>3, <2>5, <3>1 DEF Views
    <3>5. /\ w.status = "working"
          /\ w.timedOut = FALSE /\ w.childExited = FALSE
          /\ w.stopped = v.stopped /\ w.turnActive = v.turnActive
          /\ w.stopTimer = v.stopTimer /\ w.strays = v.strays
          /\ w.approval = v.approval /\ w.allowSimilar = v.allowSimilar
          /\ w.child = c /\ w.proc = [v.proc EXCEPT ![c] = entry]
          /\ w.held = c /\ w.dirs = v.dirs \cup {c}
      BY <1>7, <3>1 DEF Views
    <3> QED BY <2>5, <3>4, <3>5 DEF entry, Unprepared
  <2> QED BY <2>1, <2>2, <2>4, <2>5 DEF Outcome
<1> QED BY <1>6 DEF c, w

(* A spawn keeps the invariant's base, and leaves the count of the timers  *)
(* what it was, which the message that follows may draw on.                *)
LEMMA SpawnFacts ==
  ASSUME NEW v, NEW s, NEW r, Base(v, s, r), ~isTerminal(v), NEW s2 \in 0..MaxMessages,
         (v.status = "new" /\ s2 = s) \/ s2 = s + 1,
         NEW outcome \in Outcome, NEW w, w = spawnProcess(v, outcome)
  PROVE  /\ Base(w, s2, r) /\ Paid(w, s)
         /\ \A d \in Children : w.proc[d].owed <= s
<1> DEFINE c == NextChild(v)
<1>1. /\ c \in Children /\ v.proc[c].state = "none"
      /\ Numbered(v, c - 1) /\ c <= s2 + 1
  BY NextChildFacts
<1> HIDE DEF c
<1>0. v \in Views /\ s \in Nat /\ s2 \in Nat /\ c \in Nat /\ c >= 1
  BY <1>1 DEF Base, Children
<1>2. /\ w \in Views
      /\ w.status = "working"
      /\ w.stopped = v.stopped /\ w.turnActive = v.turnActive
      /\ w.stopTimer = v.stopTimer /\ w.strays = v.strays
      /\ w.approval = v.approval /\ w.allowSimilar = v.allowSimilar
      /\ outcome \in {"noDirectory", "threw"} => w.proc = v.proc
      /\ outcome \in {"noConfig", "ok", "noProcess"} =>
           w.proc = [v.proc EXCEPT ![c] = Entry(outcome)]
  BY <1>0, <1>1, SpawnFields DEF c
<1>3. ~isTerminal(w)
  BY <1>2 DEF isTerminal
<1>4. Paid(w, s)
  BY <1>2, <1>3 DEF Base, Counted, Paid, One
<1>5. Paid(w, s2)
  <2>1. /\ w.strays \in Nat /\ One(w.stopTimer) \in Nat /\ One(w.turnActive) \in Nat
        /\ One(w.stopped) \in Nat /\ One(isTerminal(w)) \in Nat
    BY <1>2, BoolFacts, OneFacts
  <2>2. w.strays + One(w.stopTimer) + One(w.turnActive)
          <= s + One(w.stopped) + One(isTerminal(w))
    BY <1>4 DEF Paid
  <2>3. s <= s2
    BY <1>0
  <2>4. w.strays + One(w.stopTimer) + One(w.turnActive)
          <= s2 + One(w.stopped) + One(isTerminal(w))
    BY <1>0, <2>1, <2>2, <2>3
  <2> QED BY <2>4 DEF Paid
<1>6. \E n \in 0..(s2 + 1) : Numbered(w, n)
  <2>1. CASE outcome \in {"ok", "noConfig"}
    <3>1. w.proc = [v.proc EXCEPT ![c] = Entry(outcome)] /\ Entry(outcome).state # "none"
      BY <1>2, <2>1 DEF Entry
    <3>2. v.proc \in [Children -> AnyProc]
      BY <1>0 DEF Views
    <3>3. w.proc[c].state # "none" /\ \A d \in Children : d # c => w.proc[d] = v.proc[d]
      BY <1>1, <3>1, <3>2
    <3>4. ASSUME NEW d \in Children
          PROVE  w.proc[d].state # "none" <=> d <= c
      <4>1. d \in Nat
        BY DEF Children
      <4>2. CASE d = c
        BY <1>0, <3>3, <4>2
      <4>3. CASE d # c
        <5>1. w.proc[d].state # "none" <=> d <= c - 1
          BY <1>1, <3>3, <4>3 DEF Numbered
        <5> QED BY <1>0, <4>1, <4>3, <5>1
      <4> QED BY <4>2, <4>3
    <3>5. Numbered(w, c)
      BY <3>4 DEF Numbered
    <3> QED BY <1>0, <1>1, <3>5
  <2>2. CASE outcome \notin {"ok", "noConfig"}
    <3>1. \A d \in Children : w.proc[d].state = v.proc[d].state
      BY <1>0, <1>1, <1>2, <2>2 DEF Entry, Views, Outcome
    <3>2. Numbered(w, c - 1)
      BY <1>1, <3>1 DEF Numbered
    <3> QED BY <1>0, <1>1, <3>2
  <2> QED BY <2>1, <2>2
<1>7. \A d \in Children : w.proc[d].owed <= s
  <2> SUFFICES ASSUME NEW d \in Children PROVE w.proc[d].owed <= s
    OBVIOUS
  <2>1. v.proc[d].owed <= s
    BY DEF Base, Counted
  <2>2. w.proc[d].owed = v.proc[d].owed \/ w.proc[d].owed = 0
    BY <1>0, <1>1, <1>2 DEF Entry, Views, Outcome
  <2> QED BY <1>0, <2>1, <2>2
<1>8. Counted(w, s2)
  <2>1. \A d \in Children : w.proc[d].owed <= s2
    <3> SUFFICES ASSUME NEW d \in Children PROVE w.proc[d].owed <= s2
      OBVIOUS
    <3>1. w.proc[d].owed \in Nat
      BY <1>2 DEF Views, AnyProc
    <3> QED BY <1>0, <1>7, <3>1
  <2>2. w.strays <= s2 + 1
    <3>1. w.strays \in Nat /\ w.strays <= s + 1
      BY <1>0, <1>2 DEF Base, Counted, Views
    <3> QED BY <1>0, <3>1
  <2> QED BY <1>2, <1>5, <1>6, <2>1, <2>2 DEF Counted
<1>9. Base(w, s2, r)
  BY <1>2, <1>3, <1>8
    DEF Base, Numbers, Quiet, Pending, Blank, Similar, WriteAllowed
<1> QED BY <1>4, <1>7, <1>9

(* A message that is written arms the limit of its turn, which the count   *)
(* of the timers had room for.                                             *)
Written(w) ==
  setStatus(armTurnRuntimeTimer([w EXCEPT !.proc[w.child].owed = @ + 1]), "working")

LEMMA WrittenFacts ==
  ASSUME NEW v, NEW s, NEW s2, NEW r, Base(v, s2, r), s2 = s + 1, s \in Nat,
         Paid(v, s), \A c \in Children : v.proc[c].owed <= s,
         hasChild(v), ~isTerminal(v)
  PROVE  LET w == Written(v) IN
         /\ Base(w, s2, r)
         /\ LiveIn(w) = LiveIn(v) /\ AllowedIn(w) = AllowedIn(v)
         /\ \A c \in Children : w.proc[c].state = v.proc[c].state
         /\ w.status = "working" /\ w.timedOut = FALSE
         /\ w.stopped = v.stopped
         /\ w.child = v.child /\ w.childExited = v.childExited
         /\ w.held = v.held /\ w.dirs = v.dirs
<1> DEFINE q == [v.proc EXCEPT ![v.child].owed = @ + 1]
           u == [v EXCEPT !.proc = q]
           w == Written(v)
<1>0. v \in Views /\ v.child \in Children /\ v.proc \in [Children -> AnyProc]
  BY DEF Base, Views, hasChild
<1>1. /\ q \in [Children -> AnyProc]
      /\ \A c \in Children : /\ q[c].state = v.proc[c].state
                             /\ q[c].owed \in Nat /\ q[c].owed <= s2
  <2>1. q \in [Children -> AnyProc]
    BY <1>0 DEF AnyProc
  <2> SUFFICES ASSUME NEW c \in Children
               PROVE  q[c].state = v.proc[c].state /\ q[c].owed \in Nat /\ q[c].owed <= s2
    BY <2>1
  <2>2. v.proc[c].owed \in Nat /\ v.proc[c].owed <= s
    BY <1>0 DEF AnyProc
  <2>3. q[c].state = v.proc[c].state
    BY <1>0 DEF AnyProc
  <2>4. q[c].owed = v.proc[c].owed \/ q[c].owed = v.proc[c].owed + 1
    BY <1>0 DEF AnyProc
  <2> QED BY <2>2, <2>3, <2>4
<1>2. w = setStatus(armTurnRuntimeTimer(u), "working")
  BY <1>0 DEF Written, Views
<1> HIDE DEF q, w
<1>3. /\ w \in Views
      /\ w.proc = q /\ w.approval = v.approval /\ w.allowSimilar = v.allowSimilar
      /\ w.status = "working" /\ w.timedOut = FALSE /\ w.turnActive = TRUE
      /\ w.stopped = v.stopped
      /\ w.stopTimer = v.stopTimer /\ w.strays = v.strays
      /\ w.child = v.child /\ w.childExited = v.childExited
      /\ w.held = v.held /\ w.dirs = v.dirs
  <2> DEFINE x == [u EXCEPT !.runtimeTimer = TRUE, !.turnActive = TRUE, !.timedOut = FALSE]
  <2>1. /\ x \in Views
        /\ x.proc = q /\ x.approval = v.approval /\ x.allowSimilar = v.allowSimilar
        /\ x.timedOut = FALSE /\ x.turnActive = TRUE
        /\ x.stopped = v.stopped
        /\ x.stopTimer = v.stopTimer /\ x.strays = v.strays
        /\ x.child = v.child /\ x.childExited = v.childExited
        /\ x.held = v.held /\ x.dirs = v.dirs
    BY <1>0, <1>1 DEF Views
  <2>2. w = setStatus(x, "working")
    BY <1>2 DEF armTurnRuntimeTimer
  <2> HIDE DEF x
  <2> QED BY <2>1, <2>2 DEF setStatus, emit, Views, Status
<1>4. ~isTerminal(w)
  BY <1>3 DEF isTerminal
<1>5. Paid(w, s2)
  <2>1. /\ v.strays \in Nat /\ One(v.stopTimer) \in Nat
        /\ One(v.turnActive) \in Nat /\ One(v.stopped) \in Nat
        /\ One(TRUE) = 1
    BY <1>0, BoolFacts, OneFacts
  <2>2. One(isTerminal(v)) = 0 /\ One(isTerminal(w)) = 0
    BY <1>4 DEF One
  <2>3. v.strays + One(v.stopTimer) + One(v.turnActive)
          <= s + One(v.stopped) + One(isTerminal(v))
    BY DEF Paid
  <2>4. v.strays + One(v.stopTimer) + 1 <= s2 + One(v.stopped) + 0
    BY <2>1, <2>2, <2>3
  <2>5. /\ w.strays = v.strays /\ One(w.stopTimer) = One(v.stopTimer)
        /\ One(w.turnActive) = 1 /\ One(w.stopped) = One(v.stopped)
    BY <1>3, <2>1
  <2> QED BY <2>2, <2>4, <2>5 DEF Paid
<1>6. Counted(w, s2)
  <2>1. \E n \in 0..(s2 + 1) : Numbered(w, n)
    <3>1. PICK n \in 0..(IF v.status = "new" THEN 0 ELSE s2 + 1) : Numbered(v, n)
      BY DEF Base, Counted
    <3>2. n \in 0..(s2 + 1)
      BY <3>1
    <3> QED BY <1>1, <1>3, <3>1, <3>2 DEF Numbered
  <2> QED BY <1>1, <1>3, <1>5, <2>1 DEF Base, Counted
<1>7. Base(w, s2, r)
  BY <1>3, <1>4, <1>6 DEF Base, Numbers, Quiet, Pending, Blank, Similar, WriteAllowed
<1>8. LiveIn(w) = LiveIn(v) /\ AllowedIn(w) = AllowedIn(v)
  BY <1>1, <1>3 DEF LiveIn, AllowedIn
<1> QED BY <1>1, <1>3, <1>7, <1>8 DEF w

LEMMA BaseMore ==
  ASSUME NEW v, NEW s, NEW r, Base(v, s, r), NEW s2 \in 0..MaxMessages, s2 = s + 1
  PROVE  Base(v, s2, r) /\ Paid(v, s) /\ \A c \in Children : v.proc[c].owed <= s
<1>0. v \in Views /\ s \in Nat /\ s2 \in Nat
  BY DEF Base
<1>1. \E n \in 0..(IF v.status = "new" THEN 0 ELSE s2 + 1) : Numbered(v, n)
  <2>1. PICK n \in 0..(IF v.status = "new" THEN 0 ELSE s + 1) : Numbered(v, n)
    BY DEF Base, Counted
  <2>2. n \in 0..(IF v.status = "new" THEN 0 ELSE s2 + 1)
    BY <1>0
  <2> QED BY <2>1, <2>2
<1>2. \A c \in Children : v.proc[c].owed <= s
  BY DEF Base, Counted
<1>3. \A c \in Children : v.proc[c].owed <= s2
  <2> SUFFICES ASSUME NEW c \in Children PROVE v.proc[c].owed <= s2
    OBVIOUS
  <2>1. v.proc[c].owed \in Nat
    BY <1>0 DEF Views, AnyProc
  <2> QED BY <1>0, <1>2, <2>1
<1>4. v.strays <= s2 + 1
  <2>1. v.strays \in Nat /\ v.strays <= s + 1
    BY <1>0 DEF Base, Counted, Views
  <2> QED BY <1>0, <2>1
<1>5. Paid(v, s)
  BY DEF Base, Counted
<1>6. Paid(v, s2)
  <2>1. /\ v.strays \in Nat /\ One(v.stopTimer) \in Nat /\ One(v.turnActive) \in Nat
        /\ One(v.stopped) \in Nat /\ One(isTerminal(v)) \in Nat
    BY <1>0, BoolFacts, OneFacts
  <2>2. v.strays + One(v.stopTimer) + One(v.turnActive)
          <= s + One(v.stopped) + One(isTerminal(v))
    BY <1>5 DEF Paid
  <2>3. v.strays + One(v.stopTimer) + One(v.turnActive)
          <= s2 + One(v.stopped) + One(isTerminal(v))
    BY <1>0, <2>1, <2>2
  <2> QED BY <2>3 DEF Paid
<1>7. Counted(v, s2)
  BY <1>1, <1>3, <1>4, <1>6 DEF Counted
<1> QED BY <1>2, <1>5, <1>7 DEF Base

(* What a spawn leads to before its macrotask ends, when there was no      *)
(* child.                                                                  *)
Leftover(w) ==
  LiveIn(w) = {} /\ UnwrittenIn(w) # {} /\ w.child = 0 /\ w.dirs = UnwrittenIn(w)
Spawned(w, outcome) ==
  /\ outcome \in {"noDirectory", "threw"} =>
       LiveIn(w) = {} /\ Supervised(w) /\ ~hasChild(w)
  /\ outcome = "noConfig" => Leftover(w)
  /\ outcome = "noProcess" => Bare(w)
  /\ outcome = "ok" => (\E c \in Children : LiveIn(w) = {c}) /\ Named(w) /\ hasChild(w)

(* With a group of its own, a child is only spawned where there is none.   *)
LEMMA SpawnNamed ==
  ASSUME NEW v, NEW s, NEW r, Base(v, s, r), Supervised(v), v.child = 0,
         NextChild(v) \in Children, v.proc[NextChild(v)].state = "none",
         ~v.stopped, ~isTerminal(v), NEW outcome \in Outcome
  PROVE  LiveIn(v) = {} /\ Spawned(spawnProcess(v, outcome), outcome)
<1> DEFINE c == NextChild(v)
           w == spawnProcess(v, outcome)
<1>1. v \in Views /\ 0 \notin Children /\ v.proc \in [Children -> AnyProc]
  BY DEF Base, Views, Children
<1>2. LiveIn(v) = {} /\ UnwrittenIn(v) = {} /\ v.dirs = {} /\ v.held = 0
  BY <1>1 DEF Supervised, Named, LiveIn
<1>3. /\ w.childExited = FALSE
      /\ outcome \in Unprepared => w.child = v.child
      /\ outcome \in {"noDirectory", "threw"} => w.proc = v.proc
      /\ outcome = "noDirectory" => w.held = v.held /\ w.dirs = v.dirs
      /\ outcome = "threw" => w.held = 0 /\ w.dirs = (v.dirs \cup {c}) \ {c}
      /\ outcome \in {"noConfig", "ok", "noProcess"} =>
           /\ w.held = c /\ w.dirs = v.dirs \cup {c}
           /\ w.proc = [v.proc EXCEPT ![c] = Entry(outcome)]
      /\ outcome \in {"ok", "noProcess"} => w.child = c
  BY <1>1, SpawnFields
<1>4. c \in Children
  OBVIOUS
<1> HIDE DEF c, w
<1>5. ASSUME outcome \in {"noDirectory", "threw"}
      PROVE  LiveIn(w) = {} /\ Supervised(w) /\ ~hasChild(w)
  <2>1. LiveIn(w) = {} /\ UnwrittenIn(w) = {} /\ w.child = 0 /\ w.held = 0 /\ w.dirs = {}
    BY <1>2, <1>3, <1>5 DEF LiveIn, UnwrittenIn, Unprepared
  <2>2. Named(w)
    BY <1>1, <2>1 DEF Named, LiveIn
  <2> QED BY <2>1, <2>2 DEF Supervised, hasChild
<1>6. ASSUME outcome = "noProcess" PROVE Bare(w)
  <2>1. \A d \in Children : w.proc[d].state = IF d = c THEN "none" ELSE v.proc[d].state
    BY <1>1, <1>3, <1>4, <1>6 DEF Entry
  <2> QED BY <1>2, <1>3, <1>6, <2>1 DEF Bare, LiveIn, UnwrittenIn
<1>7. ASSUME outcome = "ok"
      PROVE  (\E d \in Children : LiveIn(w) = {d}) /\ Named(w) /\ hasChild(w)
  <2>1. \A d \in Children : w.proc[d].state = IF d = c THEN "live" ELSE v.proc[d].state
    BY <1>1, <1>3, <1>4, <1>7 DEF Entry
  <2>2. \A d \in Children : w.proc[d].state = "live" <=> d = c
    BY <1>2, <2>1 DEF LiveIn
  <2>3. LiveIn(w) = {c} /\ UnwrittenIn(w) = {}
    BY <1>2, <1>4, <2>1, <2>2 DEF LiveIn, UnwrittenIn
  <2>4. w.child = c /\ w.held = c /\ w.dirs = {c} /\ w.childExited = FALSE
    BY <1>2, <1>3, <1>7
  <2> QED BY <1>1, <1>4, <2>2, <2>3, <2>4 DEF Named, hasChild
<1>8. ASSUME outcome = "noConfig" PROVE Leftover(w)
  <2>1. \A d \in Children : w.proc[d].state = IF d = c THEN "unwritten" ELSE v.proc[d].state
    BY <1>1, <1>3, <1>4, <1>8 DEF Entry
  <2>2. LiveIn(w) = {} /\ UnwrittenIn(w) = {c}
    BY <1>2, <1>4, <2>1 DEF LiveIn, UnwrittenIn
  <2> QED BY <1>2, <1>3, <1>8, <2>2 DEF Leftover, Unprepared
<1> QED BY <1>2, <1>5, <1>6, <1>7, <1>8 DEF Spawned, w

(* The end of a macrotask that may have spawned: x is where its own code   *)
(* leaves the session.                                                     *)
LEMMA AftermathFacts ==
  ASSUME NEW v, ~v.stopped, ~isTerminal(v),
         NEW x, NEW s, NEW r, Base(x, s, r), ~x.stopped, NEW outcome \in Outcome,
         Detached => LiveIn(v) = {},
         Detached => Spawned(x, outcome),
         Detached /\ outcome = "ok" => ~Unwanted(x)
  PROVE  Inv(Aftermath(x, outcome), s, r) /\ Step(v, Aftermath(x, outcome))
<1> DEFINE w == Aftermath(x, outcome)
<1>0. x \in Views /\ PhaseIn(v) = "open" /\ PhaseIn(x) \in {"open", "ended"}
  BY DEF Base, PhaseIn, isTerminal
<1>1. CASE outcome \in Unprepared
  <2>1. w = failUnlessTerminal(x)
    BY <1>1 DEF Aftermath, Unprepared
  <2> HIDE DEF w
  <2>2. Follows(x, w) /\ isTerminal(w)
    BY <1>0, <2>1, FailUnlessFollows
  <2>3. Base(w, s, r)
    BY <2>2, FollowsBase
  <2>4. LiveIn(w) = LiveIn(x) /\ PhaseIn(w) = "ended"
    BY <2>2, FollowsLive DEF PhaseIn, isTerminal
  <2>5. ASSUME Detached PROVE Supervised(w)
    <3>1. CASE outcome = "noConfig"
      <4>1. Leftover(x)
        BY <2>5, <3>1 DEF Spawned
      <4>2. /\ w.child = 0 /\ w.dirs = x.dirs
            /\ LiveIn(w) = {} /\ UnwrittenIn(w) = UnwrittenIn(x)
        BY <2>2, <2>4, <4>1 DEF Leftover, Follows, SameChild, UnwrittenIn
      <4>3. 0 \notin Children
        BY DEF Children
      <4> QED BY <2>2, <4>1, <4>2, <4>3 DEF Leftover, Supervised, Named, LiveIn
    <3>2. CASE outcome \in {"noDirectory", "threw"}
      BY <1>0, <2>2, <2>5, <3>2, FollowsSupervised DEF Spawned
    <3> QED BY <1>1, <3>1, <3>2 DEF Unprepared
  <2>6. Detached => LiveIn(x) = {}
    BY <1>1 DEF Spawned, Leftover, Unprepared
  <2>7. Step(v, w)
    BY <1>0, <2>4, <2>6 DEF Step, Moves
  <2> QED BY <2>3, <2>5, <2>7 DEF Inv, w
<1>2. CASE outcome = "ok"
  <2>1. w = x
    BY <1>2 DEF Aftermath
  <2>2. Step(v, x)
    BY <1>0, <1>2 DEF Step, Moves, Spawned
  <2>3. Detached => Supervised(x)
    BY <1>2 DEF Spawned, Supervised
  <2> QED BY <2>1, <2>2, <2>3 DEF Inv
<1>3. CASE outcome = "noProcess"
  <2>1. w = childError(x)
    BY <1>3 DEF Aftermath
  <2> HIDE DEF w
  <2>2. /\ Base(w, s, r)
        /\ LiveIn(w) = LiveIn(x)
        /\ PhaseIn(w) \in IF PhaseIn(x) = "open" THEN {"open", "ended"} ELSE {"ended"}
        /\ Bare(x) => Supervised(w)
    BY <2>1, ErrorFacts
  <2>3. PhaseIn(w) \in {"open", "ended"}
    BY <2>2
  <2>4. Detached => Bare(x) /\ LiveIn(x) = {}
    BY <1>3 DEF Spawned, Bare
  <2>5. Step(v, w)
    BY <1>0, <2>2, <2>3, <2>4 DEF Step, Moves
  <2> QED BY <2>2, <2>4, <2>5 DEF Inv, w
<1> QED BY <1>1, <1>2, <1>3 DEF Outcome, Unprepared

-----------------------------------------------------------------------------
(* The actions. Each takes the view of the state to one that the lemmas    *)
(* have spoken of.                                                         *)
StepTaken == IInv' /\ Step(Now, Now')

LEMMA NowView ==
  ASSUME IInv
  PROVE  /\ Now \in Views /\ Base(Now, sent, requested) /\ Inv(Now, sent, requested)
         /\ Now.status = status /\ Now.stopped = stopped /\ Now.timedOut = timedOut
         /\ Now.cached = cached /\ Now.turnActive = turnActive
         /\ Now.child = child /\ Now.childExited = childExited
         /\ Now.stopTimer = stopTimer /\ Now.strays = strays
         /\ Now.held = held /\ Now.dirs = dirs
         /\ Now.proc = proc /\ Now.approval = approval /\ Now.allowSimilar = allowSimilar
         /\ sent \in 0..MaxMessages /\ requested \in 0..MaxApprovals
<1>1. Inv(Now, sent, requested)
  BY DEF IInv
<1>2. Base(Now, sent, requested)
  BY <1>1 DEF Inv
<1>3. /\ Now \in Views /\ sent \in 0..MaxMessages /\ requested \in 0..MaxApprovals
  BY <1>2 DEF Base
<1>4. /\ Now.status = status /\ Now.stopped = stopped /\ Now.timedOut = timedOut
      /\ Now.cached = cached /\ Now.turnActive = turnActive
      /\ Now.child = child /\ Now.childExited = childExited
      /\ Now.stopTimer = stopTimer /\ Now.strays = strays
      /\ Now.held = held /\ Now.dirs = dirs
      /\ Now.proc = proc /\ Now.approval = approval /\ Now.allowSimilar = allowSimilar
  BY DEF Now
<1> QED BY <1>1, <1>2, <1>3, <1>4

LEMMA BecomeFacts ==
  ASSUME NEW w, w \in Views, Become(w)
  PROVE  Now' = w
<1>1. /\ status' = w.status /\ before' = w.before /\ shown' = w.shown
      /\ cached' = w.cached /\ stopped' = w.stopped /\ timedOut' = w.timedOut
      /\ turnActive' = w.turnActive /\ child' = w.child
      /\ childExited' = w.childExited /\ runtimeTimer' = w.runtimeTimer
      /\ stopTimer' = w.stopTimer /\ strays' = w.strays /\ bridge' = w.bridge
      /\ held' = w.held /\ dirs' = w.dirs /\ proc' = w.proc
      /\ approval' = w.approval /\ allowSimilar' = w.allowSimilar
  BY DEF Become
<1>2. w = [status |-> w.status, before |-> w.before, shown |-> w.shown, cached |-> w.cached,
           stopped |-> w.stopped, timedOut |-> w.timedOut, turnActive |-> w.turnActive,
           child |-> w.child, childExited |-> w.childExited,
           runtimeTimer |-> w.runtimeTimer, stopTimer |-> w.stopTimer, strays |-> w.strays,
           bridge |-> w.bridge, held |-> w.held, dirs |-> w.dirs, proc |-> w.proc,
           approval |-> w.approval, allowSimilar |-> w.allowSimilar]
  BY DEF Views
<1> QED BY <1>1, <1>2 DEF Now

LEMMA Taken ==
  ASSUME NEW w, Become(w), Inv(w, sent', requested'), Step(Now, w)
  PROVE  StepTaken
<1>1. w \in Views
  BY DEF Inv, Base
<1>2. Now' = w
  BY <1>1, BecomeFacts
<1>3. IInv'
  BY <1>2 DEF IInv
<1> QED BY <1>2, <1>3 DEF StepTaken

(* A step that only follows, as most do.                                   *)
LEMMA TakenFollowing ==
  ASSUME IInv, NEW w, Become(w), UNCHANGED <<sent, requested>>, Follows(Now, w),
         Detached => (isTerminal(w) => isTerminal(Now) \/ ~hasChild(Now))
  PROVE  StepTaken
<1>1. Inv(w, sent, requested) /\ Step(Now, w)
  BY NowView, FollowsStep
<1> QED BY <1>1, Taken

LEMMA StepOutput ==
  ASSUME IInv, NEW c \in Children, NEW line \in Line, Output(c, line)
  PROVE  StepTaken
<1> DEFINE w == processStreamLine(Now, c, line)
<1>1. Become(w) /\ UNCHANGED <<sent, requested>>
  BY DEF Output
<1>0. Now \in Views /\ Base(Now, sent, requested) /\ (Detached => Supervised(Now))
  BY NowView DEF Inv
<1>2. CASE /\ Follows(Now, w)
           /\ isTerminal(w) => isTerminal(Now) \/ ~hasChild(Now)
  <2> HIDE DEF w
  <2> QED BY <1>1, <1>2, TakenFollowing
<1>3. CASE \E u \in Views :
             /\ w = terminateWithEscalation(u)
             /\ Follows(Now, u) /\ hasChild(u) /\ isTerminal(u) /\ ~isTerminal(Now)
  <2>1. PICK u \in Views :
             /\ w = terminateWithEscalation(u)
             /\ Follows(Now, u) /\ hasChild(u) /\ isTerminal(u) /\ ~isTerminal(Now)
    BY <1>3
  <2> HIDE DEF w
  <2>2. Base(u, sent, requested)
    BY <1>0, <2>1, FollowsBase
  <2>3. u.strays + One(u.stopTimer) + One(u.turnActive) + 1
          <= sent + One(u.stopped) + One(isTerminal(u))
    <3>1. Now.strays + One(Now.stopTimer) + One(Now.turnActive)
            <= sent + One(Now.stopped) + One(isTerminal(Now))
      BY <1>0 DEF Base, Counted, Paid
    <3>2. One(isTerminal(Now)) = 0 /\ One(isTerminal(u)) = 1
      BY <2>1 DEF One
    <3>3. One(u.turnActive) <= One(Now.turnActive)
      BY <1>0, <2>1, BoolFacts, OneFacts DEF Follows
    <3>4. u.strays = Now.strays /\ u.stopTimer = Now.stopTimer /\ u.stopped = Now.stopped
      BY <2>1 DEF Follows, SameChild
    <3>5. /\ Now.strays \in Nat /\ One(Now.stopTimer) \in Nat /\ One(Now.stopped) \in Nat
          /\ One(Now.turnActive) \in Nat /\ One(u.turnActive) \in Nat /\ sent \in Nat
      BY <1>0, BoolFacts, OneFacts DEF Base
    <3>6. Now.strays + One(Now.stopTimer) + One(u.turnActive) + 1
            <= sent + One(Now.stopped) + 1
      BY <3>1, <3>2, <3>3, <3>5
    <3> QED BY <3>2, <3>4, <3>6
  <2>4. Detached => Named(u)
    <3>1. Detached => Named(Now)
      BY <1>0 DEF Supervised
    <3> QED BY <2>1, <3>1 DEF Named, Follows, SameChild, LiveIn, UnwrittenIn
  <2>5. /\ Inv(w, sent, requested)
        /\ w.status = u.status /\ w.stopped = u.stopped /\ w.approval = u.approval
        /\ LiveIn(w) = LiveIn(u)
    BY <2>1, <2>2, <2>3, <2>4, EscalateFacts
  <2>6. Step(Now, w)
    <3>1. LiveIn(u) = LiveIn(Now) /\ AllowedIn(u) = AllowedIn(Now)
      BY <1>0, <2>1, FollowsLive, FollowsRequests
    <3>2. PhaseIn(w) = "ended" /\ AllowedIn(w) = AllowedIn(u)
      BY <2>1, <2>5 DEF PhaseIn, isTerminal, AllowedIn
    <3> QED BY <2>5, <3>1, <3>2 DEF Step, Moves
  <2> QED BY <1>1, <2>5, <2>6, Taken
<1> QED BY <1>0, <1>2, <1>3, LineFacts

(* After the failure, with a process group or without.                     *)
Final(v, w) == w.status = v.status /\ LiveIn(w) \subseteq LiveIn(v)

LEMMA BecomeFinal ==
  ASSUME NEW w, isTerminal(Now), Final(Now, w), Become(w)
  PROVE  status' = "failed" /\ Live' \subseteq Live
<1>1. status' = w.status /\ proc' = w.proc
  BY DEF Become
<1>2. Live' = LiveIn(w) /\ Live = LiveIn(Now)
  BY <1>1 DEF Live, LiveIn, Now
<1> QED BY <1>1, <1>2 DEF Final, isTerminal, Now

LEMMA StepExit ==
  ASSUME IInv, NEW c \in Children, Exit(c)
  PROVE  /\ StepTaken
         /\ isTerminal(Now) => status' = "failed" /\ Live' \subseteq Live
<1> DEFINE reaped == [state |-> "exited", sig |-> "none", owed |-> 0]
           dead == [Now EXCEPT !.proc = [proc EXCEPT ![c] = reaped]]
<1>0. /\ Now \in Views /\ Base(Now, sent, requested) /\ (Detached => Supervised(Now))
      /\ Now.proc = proc /\ proc \in [Children -> AnyProc] /\ proc[c].state = "live"
      /\ sent \in Nat
  BY NowView DEF Inv, Exit, Views, Base
<1>1. PICK line \in Line, code \in ExitCode :
        LET gone == [Now EXCEPT !.proc[c] = [NoProc EXCEPT !.state = "exited"],
                                !.childExited = TRUE, !.child = 0,
                                !.runtimeTimer = FALSE, !.stopTimer = FALSE]
            w == cleanupRuntimeArtifacts(disposeAll(processStreamLine(gone, c, line)))
        IN Become(IF w.stopped THEN failUnlessTerminal(w)
                  ELSE IF ~w.timedOut /\ code = "zero" /\ w.status = "idle" THEN w
                  ELSE recoverTurn(w))
  BY DEF Exit
<1> DEFINE gone == Left(dead)
           read == processStreamLine(gone, c, line)
           clean == cleanupRuntimeArtifacts(disposeAll(read))
           w == IF clean.stopped THEN failUnlessTerminal(clean)
                ELSE IF ~clean.timedOut /\ code = "zero" /\ clean.status = "idle" THEN clean
                ELSE recoverTurn(clean)
<1>2. Become(w)
  <2>1. [Now EXCEPT !.proc[c] = [NoProc EXCEPT !.state = "exited"],
                    !.childExited = TRUE, !.child = 0,
                    !.runtimeTimer = FALSE, !.stopTimer = FALSE] = gone
    <3>1. [NoProc EXCEPT !.state = "exited"] = reaped
      BY DEF NoProc
    <3> HIDE DEF reaped
    <3> QED BY <1>0, <3>1 DEF Left, Views
  <2> HIDE DEF gone
  <2> QED BY <1>1, <2>1
<1>3. /\ dead \in Views
      /\ dead.proc = [proc EXCEPT ![c] = reaped]
      /\ dead.status = Now.status /\ dead.stopped = Now.stopped
      /\ dead.timedOut = Now.timedOut /\ dead.turnActive = Now.turnActive
      /\ dead.stopTimer = Now.stopTimer /\ dead.strays = Now.strays
      /\ dead.held = Now.held /\ dead.dirs = Now.dirs
      /\ dead.shown = Now.shown /\ dead.cached = Now.cached
      /\ dead.approval = Now.approval /\ dead.allowSimilar = Now.allowSimilar
  <2>1. reaped \in AnyProc
    BY DEF AnyProc
  <2> HIDE DEF reaped
  <2>2. [proc EXCEPT ![c] = reaped] \in [Children -> AnyProc]
    BY <1>0, <2>1
  <2> QED BY <1>0, <2>2 DEF Views
<1> HIDE DEF dead
<1>4. /\ \A d \in Children : /\ dead.proc[d].state = IF d = c THEN "exited" ELSE proc[d].state
                             /\ dead.proc[d].owed = IF d = c THEN 0 ELSE proc[d].owed
  BY <1>0, <1>3
<1>5. Base(dead, sent, requested)
  <2>1. Counted(dead, sent)
    <3>1. \E n \in 0..(IF dead.status = "new" THEN 0 ELSE sent + 1) : Numbered(dead, n)
      BY <1>0, <1>3, <1>4 DEF Base, Counted, Numbered
    <3>2. \A d \in Children : dead.proc[d].owed <= sent
      <4> SUFFICES ASSUME NEW d \in Children PROVE dead.proc[d].owed <= sent
        OBVIOUS
      <4>1. Now.proc[d].owed <= sent
        BY <1>0 DEF Base, Counted
      <4> QED BY <1>0, <1>4, <4>1
    <3>3. dead.strays <= sent + 1
      BY <1>0, <1>3 DEF Base, Counted
    <3>4. Paid(dead, sent)
      BY <1>0, <1>3 DEF Base, Counted, Paid, isTerminal
    <3> QED BY <3>1, <3>2, <3>3, <3>4 DEF Counted
  <2> QED BY <1>0, <1>3, <2>1
      DEF Base, Numbers, Quiet, Pending, Blank, isTerminal, Similar, WriteAllowed
<1>6. /\ LiveIn(dead) = LiveIn(Now) \ {c} /\ c \in LiveIn(Now)
      /\ AllowedIn(dead) = AllowedIn(Now) /\ PhaseIn(dead) = PhaseIn(Now)
  BY <1>0, <1>3, <1>4 DEF LiveIn, AllowedIn, PhaseIn
<1>7. gone \in Views /\ ~hasChild(gone)
  BY <1>5, LeftFacts DEF hasChild, Base
<1>8. Follows(gone, read)
  <2>1. \A u \in Views : Follows(gone, u) => ~hasChild(u)
    BY <1>7 DEF Follows, SameChild, hasChild
  <2> HIDE DEF gone
  <2> QED BY <1>7, <2>1, LineFacts
<1>9. clean \in Views /\ Follows(Gone(dead), clean) /\ Gone(dead) \in Views
  <2> HIDE DEF read
  <2> QED BY <1>3, <1>7, <1>8, CleanDisposeFacts
<1> HIDE DEF clean
<1>10. Follows(clean, w) /\ (w.stopped => isTerminal(w))
  BY <1>9, FailUnlessFollows, RecoverFollows, FollowsSelf DEF Follows
<1> HIDE DEF w
<1>11. Follows(Gone(dead), w)
  BY <1>9, <1>10, FollowsTrans
<1>12. /\ Base(w, sent, requested)
       /\ LiveIn(w) = LiveIn(dead) /\ AllowedIn(w) = AllowedIn(dead)
       /\ PhaseIn(w) \in IF PhaseIn(dead) = "open" THEN {"open", "ended"} ELSE {"ended"}
       /\ Bare(dead) => Supervised(w)
  BY <1>5, <1>10, <1>11, SettleFacts
<1>13. Detached => Supervised(w)
  <2>0. 0 \notin Children
    BY DEF Children
  <2>1. ASSUME Detached
        PROVE  /\ LiveIn(Now) = {c} /\ UnwrittenIn(Now) = {}
               /\ Now.held = c /\ Now.dirs = {c}
    BY <1>0, <2>0, <2>1 DEF Supervised, Named, LiveIn
  <2>2. ASSUME Detached PROVE Bare(dead)
    BY <1>0, <1>3, <1>4, <1>6, <2>1, <2>2 DEF Bare, UnwrittenIn
  <2> QED BY <1>12, <2>2
<1>14. Step(Now, w)
  BY <1>6, <1>12 DEF Step, Moves
<1>15. UNCHANGED <<sent, requested>>
  BY DEF Exit
<1>16. isTerminal(Now) => status' = "failed" /\ Live' \subseteq Live
  <2>1. isTerminal(Now) => Final(Now, w)
    BY <1>6, <1>12 DEF Final, PhaseIn, isTerminal
  <2> QED BY <1>2, <2>1, BecomeFinal
<1> QED BY <1>2, <1>12, <1>13, <1>14, <1>15, <1>16, Taken DEF Inv

LEMMA StepStopSession ==
  ASSUME IInv, StopSession
  PROVE  StepTaken
<1> DEFINE asked == [Now EXCEPT !.stopped = TRUE]
           denied == disposeAll(asked)
           u == unregisterApprovalBridge(denied)
           w == IF hasChild(u) THEN terminateWithEscalation(u) ELSE failUnlessTerminal(u)
<1>0. /\ Now \in Views /\ Base(Now, sent, requested) /\ (Detached => Supervised(Now))
      /\ sent \in Nat
      /\ Now.stopped = FALSE /\ ~isTerminal(Now) /\ Now.status # "new"
  BY NowView DEF Inv, StopSession, Base
<1>1. Become(w) /\ UNCHANGED <<sent, requested>>
  BY DEF StopSession
<1>2. /\ asked \in Views
      /\ asked.stopped = TRUE
      /\ asked.proc = Now.proc /\ asked.status = Now.status /\ asked.turnActive = Now.turnActive
      /\ asked.stopTimer = Now.stopTimer /\ asked.strays = Now.strays
      /\ asked.child = Now.child /\ asked.childExited = Now.childExited
      /\ asked.held = Now.held /\ asked.dirs = Now.dirs
      /\ asked.approval = Now.approval /\ asked.allowSimilar = Now.allowSimilar
  BY <1>0 DEF Views
<1> HIDE DEF asked
<1>3. ~isTerminal(asked)
  BY <1>0, <1>2 DEF isTerminal
<1>4. asked.strays + One(asked.stopTimer) + One(asked.turnActive) <= sent
  <2>1. Now.strays + One(Now.stopTimer) + One(Now.turnActive)
          <= sent + One(Now.stopped) + One(isTerminal(Now))
    BY <1>0 DEF Base, Counted, Paid
  <2>2. One(Now.stopped) = 0 /\ One(isTerminal(Now)) = 0
    BY <1>0 DEF One
  <2>3. Now.strays + One(Now.stopTimer) + One(Now.turnActive) <= sent
    BY <1>0, <2>1, <2>2
  <2> QED BY <1>2, <2>3
<1>5. Counted(asked, sent)
  <2>1. One(asked.stopped) = 1 /\ One(isTerminal(asked)) = 0
    BY <1>2, <1>3 DEF One
  <2>2. /\ asked.strays \in Nat /\ One(asked.stopTimer) \in Nat
        /\ One(asked.turnActive) \in Nat
    BY <1>2, BoolFacts, OneFacts
  <2>3. asked.strays + One(asked.stopTimer) + One(asked.turnActive) <= sent + 1 + 0
    BY <1>0, <1>4, <2>2
  <2>4. Paid(asked, sent)
    BY <2>1, <2>3 DEF Paid
  <2> QED BY <1>0, <1>2, <2>4 DEF Base, Counted, Numbered
<1>6. denied \in Views /\ Follows(asked, denied) /\ Pending(denied) = {}
      /\ denied.status = asked.status
  BY <1>2, DisposeFollows DEF Follows
<1> HIDE DEF denied
<1>7. /\ u \in Views /\ Follows(asked, u) /\ Pending(u) = {} /\ u.status = Now.status
  BY <1>2, <1>6, UnregisterFollows, FollowsTrans DEF Follows, Pending
<1> HIDE DEF u
<1>8. ~isTerminal(u) /\ u.stopped = TRUE /\ u.status # "new"
  BY <1>0, <1>2, <1>7 DEF Follows, isTerminal
<1>9. Base(u, sent, requested)
  <2>1. Numbers(asked, requested) /\ Similar(asked)
    BY <1>0, <1>2 DEF Base, Numbers, Similar, WriteAllowed
  <2>2. Numbers(u, requested) /\ Similar(u)
    BY <1>2, <1>7, <2>1, FollowsRequests
  <2>3. Counted(u, sent)
    BY <1>0, <1>2, <1>5, <1>7, FollowsCounted
  <2> QED BY <1>0, <1>7, <1>8, <2>2, <2>3 DEF Base, Quiet, Blank
<1>10. Detached => Named(u)
  <2>1. Detached => Named(Now)
    BY <1>0 DEF Supervised
  <2> QED BY <1>0, <1>2, <1>7, <2>1, SameNamed DEF Follows, SameChild
<1>11. LiveIn(u) = LiveIn(Now)
  BY <1>2, <1>7 DEF LiveIn, Follows, SameChild
<1>12. PhaseIn(Now) = "open"
  BY <1>0 DEF PhaseIn, isTerminal
<1>13. CASE hasChild(u)
  <2>1. w = terminateWithEscalation(u)
    BY <1>13
  <2> HIDE DEF w
  <2>2. u.strays + One(u.stopTimer) + One(u.turnActive) + 1
          <= sent + One(u.stopped) + One(isTerminal(u))
    <3>1. One(u.stopped) = 1 /\ One(isTerminal(u)) = 0
      BY <1>8 DEF One
    <3>2. u.strays = asked.strays /\ u.stopTimer = asked.stopTimer
      BY <1>7 DEF Follows, SameChild
    <3>3. One(u.turnActive) <= One(asked.turnActive)
      BY <1>2, <1>7, BoolFacts, OneFacts DEF Follows
    <3>4. /\ asked.strays \in Nat /\ One(asked.stopTimer) \in Nat
          /\ One(asked.turnActive) \in Nat /\ One(u.turnActive) \in Nat
      BY <1>2, <1>7, BoolFacts, OneFacts
    <3>5. asked.strays + One(asked.stopTimer) + One(u.turnActive) + 1 <= sent + 1 + 0
      BY <1>0, <1>4, <3>3, <3>4
    <3> QED BY <3>1, <3>2, <3>5
  <2>3. /\ Inv(w, sent, requested)
        /\ w.status = u.status /\ w.stopped = u.stopped
        /\ LiveIn(w) = LiveIn(u)
    BY <1>9, <1>10, <1>13, <2>1, <2>2, EscalateFacts
  <2>4. PhaseIn(w) = "stopping"
    BY <1>8, <2>3 DEF PhaseIn, isTerminal
  <2>5. Detached => LiveIn(u) # {}
    <3>1. u.child \in Children
      BY <1>7, <1>13 DEF Views, hasChild
    <3> QED BY <1>10, <3>1 DEF Named, LiveIn
  <2>6. Step(Now, w)
    BY <1>0, <1>11, <1>12, <2>3, <2>4, <2>5 DEF Step, Moves
  <2> QED BY <1>1, <2>3, <2>6, Taken
<1>14. CASE ~hasChild(u)
  <2>1. w = failUnlessTerminal(u)
    BY <1>14
  <2> HIDE DEF w
  <2>2. Follows(u, w) /\ isTerminal(w)
    BY <1>7, <2>1, FailUnlessFollows
  <2>3. Base(w, sent, requested)
    BY <1>9, <2>2, FollowsBase
  <2>4. ASSUME Detached PROVE Supervised(w)
    <3>1. u.child = 0
      BY <1>10, <1>14, <2>4 DEF Named, hasChild
    <3>2. Supervised(u)
      BY <1>10, <2>4, <3>1 DEF Supervised
    <3> QED BY <1>7, <1>14, <2>2, <3>2, FollowsSupervised
  <2>5. LiveIn(w) = LiveIn(u) /\ PhaseIn(w) = "ended"
    BY <2>2, FollowsLive DEF PhaseIn, isTerminal
  <2>6. Step(Now, w)
    BY <1>0, <1>11, <2>5 DEF Step, Moves
  <2> QED BY <1>1, <2>3, <2>4, <2>6, Taken DEF Inv
<1> QED BY <1>13, <1>14

LEMMA StepRuntimeTimeout ==
  ASSUME IInv, RuntimeTimeout
  PROVE  StepTaken
<1> DEFINE fired == [Now EXCEPT !.runtimeTimer = FALSE]
           late == [fired EXCEPT !.turnActive = FALSE, !.timedOut = TRUE]
           denied == disposeAll(late)
           u == unregisterApprovalBridge(denied)
           idle == ~turnActive \/ stopped \/ isTerminal(Now)
           w == IF idle THEN fired
                ELSE IF hasChild(u) THEN terminateWithEscalation(u)
                ELSE recoverTurn(cleanupRuntimeArtifacts(u))
<1>0. /\ Now \in Views /\ Base(Now, sent, requested) /\ (Detached => Supervised(Now))
      /\ sent \in Nat
      /\ Now.stopped = stopped /\ Now.turnActive = turnActive
  BY NowView DEF Inv, Base
<1>1. Become(w) /\ UNCHANGED <<sent, requested>>
  BY DEF RuntimeTimeout
<1>2. fired \in Views
  BY <1>0 DEF Views
<1>3. CASE idle
  <2>1. w = fired
    BY <1>3
  <2>2. SameChild(Now, fired)
    BY <1>0 DEF SameChild, Views, AnyProc
  <2>3. SameRequests(Now, fired)
    BY <1>0 DEF SameRequests, Views
  <2>4. isTerminal(fired) => isTerminal(Now)
    BY <1>0 DEF isTerminal, Views
  <2>5. Follows(Now, fired)
    BY <1>0, <1>2, <2>2, <2>3 DEF Follows, Views, Blank, isTerminal
  <2>6. Become(fired)
    BY <1>1, <2>1
  <2> HIDE DEF fired, w, idle
  <2> QED BY <1>1, <2>4, <2>5, <2>6, TakenFollowing
<1>4. CASE ~idle
  <2>0. Now.turnActive = TRUE /\ Now.stopped = FALSE /\ ~isTerminal(Now)
    BY <1>0, <1>4 DEF Views
  <2>1. w = IF hasChild(u) THEN terminateWithEscalation(u)
            ELSE recoverTurn(cleanupRuntimeArtifacts(u))
    BY <1>4
  <2> HIDE DEF w, idle
  <2>2. /\ late \in Views
        /\ late.turnActive = FALSE /\ late.stopped = Now.stopped
        /\ late.proc = Now.proc /\ late.status = Now.status
        /\ late.shown = Now.shown /\ late.cached = Now.cached
        /\ late.stopTimer = Now.stopTimer /\ late.strays = Now.strays
        /\ late.child = Now.child /\ late.childExited = Now.childExited
        /\ late.held = Now.held /\ late.dirs = Now.dirs
        /\ late.approval = Now.approval /\ late.allowSimilar = Now.allowSimilar
    BY <1>0 DEF Views
  <2> HIDE DEF late
  <2>3. ~isTerminal(late)
    BY <2>0, <2>2 DEF isTerminal
  <2>4. late.strays + One(late.stopTimer) + 1 <= sent
    <3>1. Now.strays + One(Now.stopTimer) + One(Now.turnActive)
            <= sent + One(Now.stopped) + One(isTerminal(Now))
      BY <1>0 DEF Base, Counted, Paid
    <3>2. One(Now.stopped) = 0 /\ One(isTerminal(Now)) = 0 /\ One(Now.turnActive) = 1
      BY <2>0 DEF One
    <3>3. Now.strays + One(Now.stopTimer) + 1 <= sent
      BY <1>0, <3>1, <3>2
    <3> QED BY <2>2, <3>3
  <2>5. Base(late, sent, requested)
    <3>1. One(late.turnActive) = 0 /\ One(late.stopped) = 0 /\ One(isTerminal(late)) = 0
      BY <2>0, <2>2, <2>3 DEF One
    <3>2. late.strays \in Nat /\ One(late.stopTimer) \in Nat
      BY <2>2, BoolFacts, OneFacts
    <3>3. late.strays + One(late.stopTimer) + 0 <= sent + 0 + 0
      BY <1>0, <2>4, <3>2
    <3>4. Paid(late, sent)
      BY <3>1, <3>3 DEF Paid
    <3>5. Counted(late, sent)
      BY <1>0, <2>2, <3>4 DEF Base, Counted, Numbered
    <3> QED BY <1>0, <2>2, <3>5
        DEF Base, Numbers, Quiet, Pending, Blank, isTerminal, Similar, WriteAllowed
  <2>6. denied \in Views /\ Follows(late, denied) /\ denied.status = late.status
    BY <2>2, DisposeFollows DEF Follows
  <2> HIDE DEF denied
  <2>7. u \in Views /\ Follows(late, u) /\ u.status = late.status
    BY <2>2, <2>6, UnregisterFollows, FollowsTrans DEF Follows
  <2> HIDE DEF u
  <2>8. Base(u, sent, requested)
    BY <2>5, <2>7, FollowsBase
  <2>9. /\ u.stopped = FALSE /\ ~isTerminal(u) /\ u.turnActive = FALSE
        /\ PhaseIn(u) = PhaseIn(Now) /\ LiveIn(u) = LiveIn(Now)
        /\ PhaseIn(Now) = "open"
    BY <2>0, <2>2, <2>3, <2>7
      DEF Follows, SameChild, isTerminal, PhaseIn, LiveIn, Views
  <2>10. Detached => Named(u)
    <3>1. Detached => Named(Now)
      BY <1>0 DEF Supervised
    <3> QED BY <2>0, <2>2, <2>7, <3>1, SameNamed DEF Follows, SameChild
  <2>11. CASE hasChild(u)
    <3>1. u.strays + One(u.stopTimer) + One(u.turnActive) + 1
            <= sent + One(u.stopped) + One(isTerminal(u))
      <4>1. One(u.turnActive) = 0 /\ One(u.stopped) = 0 /\ One(isTerminal(u)) = 0
        BY <2>9 DEF One
      <4>2. u.strays = late.strays /\ u.stopTimer = late.stopTimer
        BY <2>7 DEF Follows, SameChild
      <4>3. late.strays \in Nat /\ One(late.stopTimer) \in Nat
        BY <2>2, BoolFacts, OneFacts
      <4>4. late.strays + One(late.stopTimer) + 0 + 1 <= sent + 0 + 0
        BY <1>0, <2>4, <4>3
      <4> QED BY <4>1, <4>2, <4>4
    <3>2. w = terminateWithEscalation(u)
      BY <2>1, <2>11
    <3>3. /\ Inv(w, sent, requested)
          /\ w.status = u.status /\ w.stopped = u.stopped
          /\ LiveIn(w) = LiveIn(u)
      BY <2>8, <2>10, <2>11, <3>1, <3>2, EscalateFacts
    <3>4. PhaseIn(w) = PhaseIn(u)
      BY <3>3 DEF PhaseIn
    <3>5. Step(Now, w)
      BY <2>0, <2>9, <3>3, <3>4 DEF Step, Moves
    <3> QED BY <1>1, <3>3, <3>5, Taken
  <2>12. CASE ~hasChild(u)
    <3> DEFINE clean == cleanupRuntimeArtifacts(u)
    <3>1. w = recoverTurn(clean)
      BY <2>1, <2>12
    <3>2. /\ Base(clean, sent, requested)
          /\ clean.proc = u.proc
          /\ clean.status = u.status /\ clean.stopped = u.stopped
          /\ clean.child = u.child /\ clean.childExited = u.childExited
          /\ clean.held = 0 /\ clean.dirs = u.dirs \ {u.held}
      BY <2>8, CleanFacts
    <3> HIDE DEF clean
    <3>3. clean \in Views
      BY <3>2 DEF Base
    <3>4. Follows(clean, w) /\ (isTerminal(w) => isTerminal(clean))
      BY <3>1, <3>3, RecoverFollows
    <3>5. Base(w, sent, requested)
      BY <3>2, <3>4, FollowsBase
    <3>6. ASSUME Detached PROVE Supervised(w)
      <4>1. /\ u.child = 0 /\ u.held = 0 /\ u.dirs = LiveIn(u) /\ 0 \notin Children
            /\ UnwrittenIn(u) = {}
        BY <2>9, <2>10, <2>12, <3>6 DEF Named, hasChild, Children
      <4>2. clean.dirs = LiveIn(clean) /\ UnwrittenIn(clean) = {}
        BY <3>2, <4>1 DEF LiveIn, UnwrittenIn
      <4>3. Named(clean)
        BY <2>10, <3>2, <3>6, <4>1, <4>2 DEF Named
      <4>4. Supervised(clean)
        BY <3>2, <4>1, <4>3 DEF Supervised
      <4> QED BY <3>3, <3>4, <4>4, FollowsSupervised
    <3>7. LiveIn(w) = LiveIn(u) /\ PhaseIn(w) \in {PhaseIn(u), "ended"}
      <4>1. LiveIn(clean) = LiveIn(u) /\ PhaseIn(clean) = PhaseIn(u)
        BY <3>2 DEF LiveIn, PhaseIn
      <4> QED BY <3>4, <4>1, FollowsLive
    <3>8. Step(Now, w)
      BY <2>0, <2>9, <3>7 DEF Step, Moves
    <3> QED BY <1>1, <3>5, <3>6, <3>8, Taken DEF Inv
  <2> QED BY <2>11, <2>12
<1> QED BY <1>3, <1>4

(* SIGKILL to the child the field names is an escalation of its own.       *)
LEMMA KillFacts ==
  ASSUME NEW v, NEW s, NEW r, Base(v, s, r), Detached => Named(v)
  PROVE  LET w == terminateChild(v, "kill") IN
         /\ Inv(w, s, r)
         /\ w.status = v.status /\ w.stopped = v.stopped /\ w.approval = v.approval
         /\ LiveIn(w) = LiveIn(v)
<1> DEFINE w == terminateChild(v, "kill")
<1>0. v \in Views
  BY DEF Base
<1>1. PICK q \in [Children -> AnyProc] :
        /\ terminateChild(v, "kill") = [v EXCEPT !.proc = q]
        /\ \A c \in Children : /\ q[c].state = v.proc[c].state
                               /\ q[c].owed = v.proc[c].owed
                               /\ c # v.child => q[c].sig = v.proc[c].sig
        /\ hasChild(v) =>
             q[v.child].sig = IF v.proc[v.child].sig = "kill" THEN "kill" ELSE "kill"
  BY <1>0, SignalFacts
<1>2. w = [v EXCEPT !.proc = q]
  BY <1>1
<1> HIDE DEF w
<1>3. /\ w \in Views
      /\ w.proc = q /\ w.status = v.status /\ w.stopped = v.stopped
      /\ w.approval = v.approval /\ w.allowSimilar = v.allowSimilar
      /\ w.child = v.child /\ w.childExited = v.childExited
      /\ w.held = v.held /\ w.dirs = v.dirs
      /\ w.strays = v.strays /\ w.stopTimer = v.stopTimer /\ w.turnActive = v.turnActive
      /\ w.shown = v.shown /\ w.cached = v.cached
  BY <1>0, <1>2 DEF Views
<1>4. Counted(w, s)
  BY <1>1, <1>3 DEF Base, Counted, Numbered, Paid, isTerminal
<1>5. Base(w, s, r)
  BY <1>3, <1>4
    DEF Base, Numbers, Quiet, Pending, Blank, isTerminal, Similar, WriteAllowed
<1>6. LiveIn(w) = LiveIn(v)
  BY <1>1, <1>3 DEF LiveIn
<1>7. ASSUME Detached PROVE Supervised(w)
  <2>1. Named(w)
    BY <1>1, <1>3, <1>7, SameNamed DEF isTerminal
  <2>2. ASSUME w.child # 0 PROVE Escalated(w)
    <3>1. hasChild(v)
      BY <1>3, <1>7, <2>2 DEF Named, hasChild
    <3> QED BY <1>1, <1>3, <3>1 DEF Escalated
  <2> QED BY <2>1, <2>2 DEF Supervised
<1> QED BY <1>3, <1>5, <1>6, <1>7 DEF Inv, w

LEMMA StepStopTimeout ==
  ASSUME IInv, StopTimeout
  PROVE  StepTaken
<1>0. /\ Now \in Views /\ Base(Now, sent, requested) /\ (Detached => Supervised(Now))
      /\ sent \in Nat
      /\ Now.stopTimer = stopTimer /\ Now.strays = strays
  BY NowView DEF Inv, Base
<1>1. UNCHANGED <<sent, requested>>
  BY DEF StopTimeout
<1>2. ASSUME NEW v \in Views,
             v.proc = Now.proc, v.status = Now.status, v.stopped = Now.stopped,
             v.turnActive = Now.turnActive, v.shown = Now.shown, v.cached = Now.cached,
             v.child = Now.child, v.childExited = Now.childExited,
             v.held = Now.held, v.dirs = Now.dirs,
             v.approval = Now.approval, v.allowSimilar = Now.allowSimilar,
             v.strays <= Now.strays, One(v.stopTimer) <= One(Now.stopTimer),
             Become(terminateChild(v, "kill"))
      PROVE  StepTaken
  <2> DEFINE w == terminateChild(v, "kill")
  <2>1. Paid(v, sent) /\ v.strays <= sent + 1
    <3>1. Now.strays + One(Now.stopTimer) + One(Now.turnActive)
            <= sent + One(Now.stopped) + One(isTerminal(Now))
      BY <1>0 DEF Base, Counted, Paid
    <3>2. /\ Now.strays \in Nat /\ One(Now.stopTimer) \in Nat
          /\ v.strays \in Nat /\ One(v.stopTimer) \in Nat
          /\ One(Now.turnActive) \in Nat /\ One(Now.stopped) \in Nat
          /\ One(isTerminal(Now)) \in Nat
      BY <1>0, <1>2, BoolFacts, OneFacts
    <3>3. v.strays + One(v.stopTimer) + One(Now.turnActive)
            <= sent + One(Now.stopped) + One(isTerminal(Now))
      BY <1>0, <1>2, <3>1, <3>2
    <3>4. isTerminal(v) = isTerminal(Now)
      BY <1>2 DEF isTerminal
    <3>5. Now.strays <= sent + 1
      BY <1>0 DEF Base, Counted
    <3>6. v.strays <= sent + 1
      BY <1>0, <1>2, <3>2, <3>5
    <3> QED BY <1>2, <3>3, <3>4, <3>6 DEF Paid
  <2>2. Counted(v, sent)
    BY <1>0, <1>2, <2>1 DEF Base, Counted, Numbered
  <2>3. Base(v, sent, requested)
    BY <1>0, <1>2, <2>2
      DEF Base, Numbers, Quiet, Pending, Blank, isTerminal, Similar, WriteAllowed
  <2>4. Detached => Named(v)
    BY <1>0, <1>2, SameNamed DEF Supervised, isTerminal
  <2>5. /\ Inv(w, sent, requested)
        /\ w.status = v.status /\ w.stopped = v.stopped /\ w.approval = v.approval
        /\ LiveIn(w) = LiveIn(v)
    BY <2>3, <2>4, KillFacts
  <2>6. Become(w)
    BY <1>2
  <2> HIDE DEF w
  <2>7. Step(Now, w)
    BY <1>2, <2>5 DEF Step, Moves, LiveIn, PhaseIn, AllowedIn
  <2> QED BY <1>1, <2>5, <2>6, <2>7, Taken
<1>3. CASE stopTimer /\ Become(terminateChild([Now EXCEPT !.stopTimer = FALSE], "kill"))
  <2> DEFINE v == [Now EXCEPT !.stopTimer = FALSE]
  <2>1. /\ v \in Views
        /\ v.proc = Now.proc /\ v.status = Now.status /\ v.stopped = Now.stopped
        /\ v.turnActive = Now.turnActive /\ v.shown = Now.shown /\ v.cached = Now.cached
        /\ v.child = Now.child /\ v.childExited = Now.childExited
        /\ v.held = Now.held /\ v.dirs = Now.dirs
        /\ v.approval = Now.approval /\ v.allowSimilar = Now.allowSimilar
        /\ v.strays = Now.strays /\ v.stopTimer = FALSE
    BY <1>0 DEF Views
  <2>2. Become(terminateChild(v, "kill"))
    BY <1>3
  <2> HIDE DEF v
  <2>3. v.strays <= Now.strays
    BY <1>0, <2>1 DEF Views
  <2>4. One(v.stopTimer) <= One(Now.stopTimer)
    BY <1>0, <2>1, BoolFacts, OneFacts
  <2> QED BY <1>2, <2>1, <2>2, <2>3, <2>4
<1>4. CASE strays > 0 /\ Become(terminateChild([Now EXCEPT !.strays = @ - 1], "kill"))
  <2> DEFINE v == [Now EXCEPT !.strays = @ - 1]
  <2>1. Now.strays \in Nat /\ Now.strays - 1 \in Nat
    BY <1>0, <1>4 DEF Views
  <2>2. /\ v \in Views
        /\ v.proc = Now.proc /\ v.status = Now.status /\ v.stopped = Now.stopped
        /\ v.turnActive = Now.turnActive /\ v.shown = Now.shown /\ v.cached = Now.cached
        /\ v.child = Now.child /\ v.childExited = Now.childExited
        /\ v.held = Now.held /\ v.dirs = Now.dirs
        /\ v.approval = Now.approval /\ v.allowSimilar = Now.allowSimilar
        /\ v.strays = Now.strays - 1 /\ v.stopTimer = Now.stopTimer
    BY <1>0, <2>1 DEF Views
  <2>3. Become(terminateChild(v, "kill"))
    BY <1>4
  <2> HIDE DEF v
  <2>4. v.strays <= Now.strays
    BY <2>1, <2>2
  <2>5. One(v.stopTimer) <= One(Now.stopTimer)
    BY <1>0, <2>2, BoolFacts, OneFacts
  <2> QED BY <1>2, <2>2, <2>3, <2>4, <2>5
<1> QED BY <1>3, <1>4 DEF StopTimeout

(* Settling or making a request touches nothing but the requests.          *)
WithRequests(v, q, b) == [v EXCEPT !.approval = q, !.allowSimilar = b]

LEMMA RequestsFacts ==
  ASSUME NEW v \in Views, NEW q \in [Approvals -> Approval], NEW b \in BOOLEAN
  PROVE  LET w == WithRequests(v, q, b) IN
         /\ w \in Views
         /\ w.approval = q /\ w.allowSimilar = b
         /\ w.status = v.status /\ w.stopped = v.stopped /\ w.timedOut = v.timedOut
         /\ w.turnActive = v.turnActive
         /\ w.proc = v.proc /\ w.child = v.child /\ w.childExited = v.childExited
         /\ w.held = v.held /\ w.dirs = v.dirs
         /\ w.strays = v.strays /\ w.stopTimer = v.stopTimer
         /\ w.shown = v.shown /\ w.cached = v.cached
BY DEF Views, WithRequests

LEMMA RequestsBase ==
  ASSUME NEW v, NEW s, NEW r, Base(v, s, r),
         NEW q \in [Approvals -> Approval], NEW b \in BOOLEAN,
         NEW w, w = WithRequests(v, q, b),
         NEW r2 \in 0..MaxApprovals, Numbers(w, r2), Quiet(w), Similar(w)
  PROVE  /\ Base(w, s, r2)
         /\ Supervised(v) => Supervised(w)
         /\ LiveIn(w) = LiveIn(v) /\ PhaseIn(w) = PhaseIn(v)
<1>0. v \in Views
  BY DEF Base
<1>1. /\ w \in Views
      /\ w.status = v.status /\ w.stopped = v.stopped /\ w.timedOut = v.timedOut
      /\ w.turnActive = v.turnActive
      /\ w.proc = v.proc /\ w.child = v.child /\ w.childExited = v.childExited
      /\ w.held = v.held /\ w.dirs = v.dirs
      /\ w.strays = v.strays /\ w.stopTimer = v.stopTimer
      /\ w.shown = v.shown /\ w.cached = v.cached
  BY <1>0, RequestsFacts
<1>2. Counted(w, s)
  BY <1>1 DEF Base, Counted, Numbered, Paid, isTerminal
<1>3. Base(w, s, r2)
  BY <1>1, <1>2 DEF Base, Blank, isTerminal
<1>4. LiveIn(w) = LiveIn(v) /\ PhaseIn(w) = PhaseIn(v)
  BY <1>1 DEF LiveIn, PhaseIn
<1>5. Supervised(v) => Supervised(w)
  <2>1. Named(v) => Named(w)
    BY <1>1, SameNamed DEF isTerminal
  <2> QED BY <1>1, <2>1 DEF Supervised, Unwanted, Escalated, isTerminal
<1> QED BY <1>3, <1>4, <1>5

(* What an answer to an existing request leads to.                         *)
LEMMA AnswerFacts ==
  ASSUME IInv, NEW a \in Approvals, approval[a].state = "pending",
         NEW state \in {"approved", "denied"}, NEW b \in BOOLEAN,
         b => allowSimilar \/ (state = "approved" /\ approval[a].kind = "write"),
         allowSimilar => b,
         state = "denied" \/ (~stopped /\ ~isTerminal(Now)),
         NEW w, w = WithRequests(Now, [approval EXCEPT ![a].state = state], b),
         Become(onApprovalResolved(w)), UNCHANGED <<sent, requested>>
  PROVE  StepTaken
<1> DEFINE q == [approval EXCEPT ![a].state = state]
<1>0. /\ Now \in Views /\ Base(Now, sent, requested) /\ (Detached => Supervised(Now))
      /\ Now.approval = approval /\ approval \in [Approvals -> Approval]
      /\ Now.allowSimilar = allowSimilar /\ Now.stopped = stopped
      /\ requested \in 0..MaxApprovals
  BY NowView DEF Inv, Views
<1>1. /\ q \in [Approvals -> Approval]
      /\ \A e \in Approvals : /\ q[e].kind = approval[e].kind
                              /\ q[e].state = IF e = a THEN state ELSE approval[e].state
  BY <1>0 DEF Approval
<1>2. w = WithRequests(Now, q, b)
  OBVIOUS
<1> HIDE DEF q
<1>3. w \in Views /\ w.approval = q /\ w.allowSimilar = b /\ w.stopped = Now.stopped
      /\ w.status = Now.status
  BY <1>0, <1>1, <1>2, RequestsFacts
<1>4. Numbers(w, requested)
  BY <1>0, <1>1, <1>3 DEF Base, Numbers
<1>5. Quiet(w)
  BY <1>0, <1>1, <1>3 DEF Base, Quiet, Pending
<1>6. Similar(w)
  <2>1. WriteAllowed(Now) => WriteAllowed(w)
    <3>1. ASSUME NEW e \in Approvals, approval[e] = [state |-> "approved", kind |-> "write"]
          PROVE  q[e] = approval[e]
      <4>1. e # a
        BY <3>1
      <4>2. q[e] \in Approval /\ approval[e] \in Approval
        BY <1>0, <1>1
      <4> QED BY <1>1, <4>1, <4>2 DEF Approval
    <3> QED BY <1>0, <1>3, <3>1 DEF WriteAllowed
  <2>2. state = "approved" /\ approval[a].kind = "write" => WriteAllowed(w)
    <3>1. q[a] \in Approval
      BY <1>1
    <3>2. state = "approved" /\ approval[a].kind = "write" =>
            q[a] = [state |-> "approved", kind |-> "write"]
      BY <1>1, <3>1 DEF Approval
    <3> QED BY <1>3, <3>2 DEF WriteAllowed
  <2>3. b => WriteAllowed(w)
    BY <1>0, <2>1, <2>2 DEF Base, Similar
  <2>4. \A e \in Approvals : q[e].state = "auto" => approval[e].state = "auto"
    BY <1>1
  <2>5. Similar(Now)
    BY <1>0 DEF Base
  <2>6. ASSUME NEW e \in Approvals, w.approval[e].state = "auto"
        PROVE  w.approval[e].kind = "write" /\ WriteAllowed(w)
    <3>1. Now.approval[e].state = "auto"
      BY <1>0, <1>3, <2>4, <2>6
    <3>2. Now.approval[e].kind = "write" /\ WriteAllowed(Now)
      BY <2>5, <3>1 DEF Similar
    <3>3. w.approval[e].kind = Now.approval[e].kind
      BY <1>0, <1>1, <1>3
    <3> QED BY <2>1, <3>2, <3>3
  <2>7. w.allowSimilar => WriteAllowed(w)
    BY <1>3, <2>3
  <2> QED BY <2>6, <2>7 DEF Similar
<1>7. /\ Base(w, sent, requested)
      /\ Detached => Supervised(w)
      /\ LiveIn(w) = LiveIn(Now) /\ PhaseIn(w) = PhaseIn(Now)
  BY <1>0, <1>1, <1>2, <1>4, <1>5, <1>6, RequestsBase
<1> DEFINE x == onApprovalResolved(w)
<1>8. Follows(w, x) /\ (isTerminal(x) <=> isTerminal(w)) /\ x.approval = w.approval
  BY <1>3, ResolvedFollows
<1> HIDE DEF x
<1>9. Inv(x, sent, requested)
  BY <1>3, <1>7, <1>8, FollowsBase, FollowsSupervised DEF Inv
<1>10. Step(Now, x)
  <2>1. LiveIn(x) = LiveIn(Now) /\ PhaseIn(x) \in {PhaseIn(Now), "ended"}
    BY <1>7, <1>8, FollowsLive
  <2>2. ASSUME state = "denied" PROVE AllowedIn(x) = AllowedIn(Now)
    BY <1>0, <1>1, <1>3, <1>8, <2>2 DEF AllowedIn
  <2> QED BY <1>0, <2>1, <2>2 DEF Step, Moves
<1> QED BY <1>9, <1>10, Taken DEF x

LEMMA StepDecide ==
  ASSUME IInv, NEW a \in Approvals, NEW decision \in {"approve", "reject"},
         NEW similar \in BOOLEAN, Decide(a, decision, similar)
  PROVE  StepTaken
<1> DEFINE state == IF decision = "approve" THEN "approved" ELSE "denied"
           b == allowSimilar \/ (decision = "approve" /\ similar /\
                                 canAutoApproveSimilar(approval[a].kind))
           w == WithRequests(Now, [approval EXCEPT ![a].state = state], b)
<1>0. /\ Now \in Views /\ Base(Now, sent, requested)
      /\ Now.approval = approval /\ Now.allowSimilar = allowSimilar
      /\ Now.stopped = stopped /\ Now.cached = cached
      /\ allowSimilar \in BOOLEAN /\ 0 \notin Approvals
  BY NowView DEF Views, Approvals
<1>1. /\ cached.shown = a /\ approval[a].state = "pending"
      /\ UNCHANGED <<sent, requested>>
  BY DEF Decide
<1>2. [Now EXCEPT !.approval[a].state = IF decision = "approve" THEN "approved" ELSE "denied",
                  !.allowSimilar = @ \/ (decision = "approve" /\ similar /\
                                         canAutoApproveSimilar(approval[a].kind))] = w
  BY <1>0 DEF Views, WithRequests
<1>3. Become(onApprovalResolved(w))
  <2> HIDE DEF w
  <2> QED BY <1>2 DEF Decide
<1>4. ~stopped
  BY <1>0, <1>1 DEF Base, Quiet, Pending
<1>5. ~isTerminal(Now)
  BY <1>0, <1>1 DEF Base, Blank
<1>6. /\ state \in {"approved", "denied"} /\ b \in BOOLEAN
      /\ b => allowSimilar \/ (state = "approved" /\ approval[a].kind = "write")
      /\ allowSimilar => b
  BY <1>0 DEF canAutoApproveSimilar
<1>7. w = WithRequests(Now, [approval EXCEPT ![a].state = state], b)
  OBVIOUS
<1> HIDE DEF w, state, b
<1> QED BY <1>1, <1>3, <1>4, <1>5, <1>6, <1>7, AnswerFacts

LEMMA StepApprovalTimeout ==
  ASSUME IInv, NEW a \in Approvals, ApprovalTimeout(a)
  PROVE  StepTaken
<1> DEFINE w == WithRequests(Now, [approval EXCEPT ![a].state = "denied"], allowSimilar)
<1>0. /\ Now \in Views /\ Now.approval = approval /\ Now.allowSimilar = allowSimilar
      /\ allowSimilar \in BOOLEAN
  BY NowView DEF Views
<1>1. approval[a].state = "pending" /\ UNCHANGED <<sent, requested>>
  BY DEF ApprovalTimeout
<1>2. [Now EXCEPT !.approval[a].state = "denied"] = w
  BY <1>0 DEF Views, WithRequests
<1>3. w = WithRequests(Now, [approval EXCEPT ![a].state = "denied"], allowSimilar)
  OBVIOUS
<1> HIDE DEF w
<1>4. Become(onApprovalResolved(w))
  BY <1>2 DEF ApprovalTimeout
<1> QED BY <1>0, <1>1, <1>3, <1>4, AnswerFacts

LEMMA StepRequest ==
  ASSUME IInv, NEW kind \in Kind, Request(kind)
  PROVE  StepTaken
<1> DEFINE a == requested + 1
           q(state) == [approval EXCEPT ![a] = [state |-> state, kind |-> kind]]
           m(state) == WithRequests(Now, q(state), allowSimilar)
<1>0. /\ Now \in Views /\ Base(Now, sent, requested) /\ (Detached => Supervised(Now))
      /\ Now.approval = approval /\ approval \in [Approvals -> Approval]
      /\ Now.allowSimilar = allowSimilar /\ allowSimilar \in BOOLEAN
      /\ Now.stopped = stopped /\ Now.proc = proc
      /\ requested \in 0..MaxApprovals
  BY NowView DEF Inv, Views
<1>1. /\ a \in Approvals /\ a \in 0..MaxApprovals /\ approval[a].state = "none"
      /\ requested' = a /\ sent' = sent
  <2>1. requested < MaxApprovals /\ requested' = a /\ sent' = sent
    BY DEF Request
  <2>2. a \in Approvals /\ a \in 0..MaxApprovals /\ ~(a <= requested)
    BY <1>0, <2>1 DEF Approvals
  <2> QED BY <1>0, <2>1, <2>2 DEF Base, Numbers
<1>2. Now.status # "new"
  <2>1. PICK c \in Children : proc[c].state = "live"
    BY DEF Request
  <2>2. PICK n \in 0..(IF Now.status = "new" THEN 0 ELSE sent + 1) : Numbered(Now, n)
    BY <1>0 DEF Base, Counted
  <2>3. c <= n
    BY <1>0, <2>1, <2>2 DEF Numbered
  <2> QED BY <2>1, <2>2, <2>3 DEF Children
<1>3. LET made == [Now EXCEPT !.approval[a] = [state |-> "pending", kind |-> kind]]
          settled(s) == [made EXCEPT !.approval[a].state = s]
      IN Become(IF stopped \/ timedOut \/ isTerminal(Now) THEN settled("denied")
                ELSE IF canAutoApproveSimilar(kind) /\ allowSimilar
                THEN onApprovalResolved(onApprovalRequired(settled("auto"), a))
                ELSE onApprovalRequired(made, a))
  BY DEF Request
<1>4. [Now EXCEPT !.approval[a] = [state |-> "pending", kind |-> kind]] = m("pending")
  BY <1>0 DEF Views, WithRequests
<1>5. ASSUME NEW s
      PROVE  [[Now EXCEPT !.approval[a] = [state |-> "pending", kind |-> kind]]
                EXCEPT !.approval[a].state = s] = m(s)
  <2> DEFINE p == [approval EXCEPT ![a] = [state |-> "pending", kind |-> kind]]
             made == WithRequests(Now, p, allowSimilar)
  <2>1. p \in [Approvals -> Approval] /\ p[a] = [state |-> "pending", kind |-> kind]
    BY <1>0, <1>1 DEF Approval
  <2>2. [p EXCEPT ![a].state = s] = q(s)
    <3> DEFINE old == [state |-> "pending", kind |-> kind]
               new == [state |-> s, kind |-> kind]
    <3>1. [old EXCEPT !.state = s] = new
      OBVIOUS
    <3>2. [p EXCEPT ![a].state = s] = [p EXCEPT ![a] = new]
      <4> HIDE DEF p, new
      <4> QED BY <2>1, <3>1
    <3>3. [p EXCEPT ![a] = new] = [approval EXCEPT ![a] = new]
      <4>1. p = [approval EXCEPT ![a] = old]
        OBVIOUS
      <4> HIDE DEF p, new, old
      <4> QED BY <1>0, <1>1, <4>1
    <3> QED BY <3>2, <3>3
  <2> HIDE DEF p
  <2>3. made \in Views /\ made.approval = p
    BY <1>0, <2>1, RequestsFacts
  <2>4. [made EXCEPT !.approval[a].state = s] = [made EXCEPT !.approval = [p EXCEPT ![a].state = s]]
    <3> HIDE DEF made
    <3> QED BY <2>3
  <2>5. [made EXCEPT !.approval = q(s)] = m(s)
    <3> HIDE DEF q
    <3> QED BY <1>0 DEF Views, WithRequests
  <2>6. [Now EXCEPT !.approval[a] = [state |-> "pending", kind |-> kind]] = made
    BY <1>4 DEF p
  <2> HIDE DEF made, q, m
  <2> QED BY <2>2, <2>4, <2>5, <2>6
<1>6. ASSUME NEW s \in {"pending", "denied", "auto"},
             s = "pending" => ~stopped,
             s = "auto" => kind = "write" /\ allowSimilar
      PROVE  /\ Base(m(s), sent, a)
             /\ Detached => Supervised(m(s))
             /\ LiveIn(m(s)) = LiveIn(Now) /\ PhaseIn(m(s)) = PhaseIn(Now)
             /\ s # "auto" => AllowedIn(m(s)) = AllowedIn(Now)
             /\ m(s) \in Views /\ m(s).status = Now.status
  <2> DEFINE w == m(s)
             p == q(s)
  <2>1. /\ p \in [Approvals -> Approval]
        /\ \A e \in Approvals : p[e] = IF e = a THEN [state |-> s, kind |-> kind]
                                       ELSE approval[e]
    BY <1>0, <1>1, <1>6 DEF Approval
  <2>2. p[a].state = s /\ p[a].kind = kind
    BY <1>1, <2>1
  <2>3. w = WithRequests(Now, p, allowSimilar)
    OBVIOUS
  <2> HIDE DEF p, w
  <2>4. w \in Views /\ w.approval = p /\ w.allowSimilar = allowSimilar
        /\ w.stopped = Now.stopped /\ w.status = Now.status
    BY <1>0, <2>1, <2>3, RequestsFacts
  <2>5. Numbers(w, a)
    <3> SUFFICES ASSUME NEW e \in Approvals, p[e].state # "none" PROVE e <= a
      BY <2>4 DEF Numbers
    <3>1. CASE e = a
      BY <1>1, <3>1
    <3>2. CASE e # a
      <4>1. e <= requested
        BY <1>0, <2>1, <3>2 DEF Base, Numbers
      <4> QED BY <1>0, <4>1 DEF Approvals
    <3> QED BY <3>1, <3>2
  <2>6. Quiet(w)
    <3> SUFFICES ASSUME stopped, NEW e \in Approvals, p[e].state = "pending" PROVE FALSE
      BY <1>0, <2>4 DEF Quiet, Pending
    <3>1. e # a
      BY <1>6, <2>2
    <3> QED BY <1>0, <2>1, <3>1 DEF Base, Quiet, Pending
  <2>7. Similar(w)
    <3>1. WriteAllowed(Now) => WriteAllowed(w)
      <4>1. ASSUME NEW e \in Approvals, approval[e] = [state |-> "approved", kind |-> "write"]
            PROVE  p[e] = approval[e]
        BY <1>1, <2>1, <4>1
      <4> QED BY <1>0, <2>4, <4>1 DEF WriteAllowed
    <3>2. allowSimilar => WriteAllowed(w)
      BY <1>0, <3>1 DEF Base, Similar
    <3>3. ASSUME NEW e \in Approvals, p[e].state = "auto"
          PROVE  p[e].kind = "write" /\ WriteAllowed(w)
      <4>1. CASE e = a
        BY <1>6, <2>2, <3>2, <3>3, <4>1
      <4>2. CASE e # a
        BY <1>0, <2>1, <3>1, <3>3, <4>2 DEF Base, Similar
      <4> QED BY <4>1, <4>2
    <3> QED BY <2>4, <3>2, <3>3 DEF Similar
  <2>8. /\ Base(w, sent, a)
        /\ Supervised(Now) => Supervised(w)
        /\ LiveIn(w) = LiveIn(Now) /\ PhaseIn(w) = PhaseIn(Now)
    BY <1>0, <1>1, <2>1, <2>3, <2>5, <2>6, <2>7, RequestsBase
  <2>9. s # "auto" => AllowedIn(w) = AllowedIn(Now)
    BY <1>0, <1>1, <1>6, <2>1, <2>2, <2>4 DEF AllowedIn
  <2> QED BY <1>0, <2>4, <2>8, <2>9 DEF w
<1> HIDE DEF m, a
<1>7. ASSUME NEW w, Become(w), NEW s \in {"pending", "denied", "auto"},
             s = "pending" => ~stopped,
             s = "auto" => kind = "write" /\ allowSimilar /\ ~stopped /\ ~isTerminal(Now),
             Follows(m(s), w), isTerminal(w) => isTerminal(m(s))
      PROVE  StepTaken
  <2>1. /\ Base(m(s), sent, a)
        /\ Detached => Supervised(m(s))
        /\ LiveIn(m(s)) = LiveIn(Now) /\ PhaseIn(m(s)) = PhaseIn(Now)
        /\ s # "auto" => AllowedIn(m(s)) = AllowedIn(Now)
        /\ m(s) \in Views
    BY <1>6, <1>7
  <2>2. Inv(w, sent, a)
    BY <1>7, <2>1, FollowsBase, FollowsSupervised DEF Inv
  <2>3. Step(Now, w)
    <3>1. LiveIn(w) = LiveIn(Now) /\ PhaseIn(w) \in {PhaseIn(Now), "ended"}
      BY <1>7, <2>1, FollowsLive
    <3>2. s # "auto" => AllowedIn(w) = AllowedIn(Now)
      BY <1>7, <2>1, FollowsRequests
    <3> QED BY <1>0, <1>7, <3>1, <3>2 DEF Step, Moves
  <2> QED BY <1>1, <1>7, <2>2, <2>3, Taken
<1>8. CASE stopped \/ timedOut \/ isTerminal(Now)
  <2>1. Become(m("denied"))
    BY <1>3, <1>5, <1>8
  <2>2. m("denied") \in Views
    BY <1>6
  <2> QED BY <1>7, <2>1, <2>2, FollowsSelf
<1>9. CASE ~(stopped \/ timedOut \/ isTerminal(Now)) /\ kind = "write" /\ allowSimilar
  <2> DEFINE shownAt == onApprovalRequired(m("auto"), a)
             w == onApprovalResolved(shownAt)
  <2>1. Become(w)
    BY <1>3, <1>5, <1>9 DEF canAutoApproveSimilar
  <2>2. m("auto") \in Views /\ m("auto").status # "new"
    BY <1>2, <1>6, <1>9
  <2>3. /\ shownAt \in Views /\ Follows(m("auto"), shownAt)
        /\ isTerminal(shownAt) <=> isTerminal(m("auto"))
    BY <1>1, <2>2, RequiredFollows DEF Follows
  <2> HIDE DEF shownAt
  <2>4. Follows(shownAt, w) /\ (isTerminal(w) <=> isTerminal(shownAt))
    BY <2>3, ResolvedFollows
  <2> HIDE DEF w
  <2>5. Follows(m("auto"), w)
    BY <2>2, <2>3, <2>4, FollowsTrans
  <2> QED BY <1>7, <1>9, <2>1, <2>3, <2>4, <2>5
<1>10. CASE ~(stopped \/ timedOut \/ isTerminal(Now)) /\ ~(kind = "write" /\ allowSimilar)
  <2> DEFINE w == onApprovalRequired(m("pending"), a)
  <2>1. Become(w)
    BY <1>3, <1>4, <1>10 DEF canAutoApproveSimilar
  <2>2. m("pending") \in Views /\ m("pending").status # "new"
    BY <1>2, <1>6, <1>10
  <2>3. Follows(m("pending"), w) /\ (isTerminal(w) <=> isTerminal(m("pending")))
    BY <1>1, <2>2, RequiredFollows
  <2> HIDE DEF w
  <2> QED BY <1>7, <1>10, <2>1, <2>3
<1> QED BY <1>8, <1>9, <1>10

LEMMA StepStart ==
  ASSUME IInv, Start
  PROVE  StepTaken
<1>0. /\ Now \in Views /\ Base(Now, sent, requested) /\ (Detached => Supervised(Now))
      /\ Now.status = "new" /\ sent \in 0..MaxMessages
  BY NowView DEF Inv, Start
<1>1. ~Now.stopped /\ ~isTerminal(Now)
  BY <1>0 DEF Base, isTerminal
<1>2. PICK outcome \in Outcome : Become(Aftermath(spawnProcess(Now, outcome), outcome))
  BY DEF Start
<1> DEFINE x == spawnProcess(Now, outcome)
<1>3. /\ NextChild(Now) \in Children /\ Now.proc[NextChild(Now)].state = "none"
  BY <1>0, NextChildFacts
<1>4. Base(x, sent, requested)
  BY <1>0, <1>1, SpawnFacts
<1>5. x.stopped = Now.stopped /\ x.status = "working"
  BY <1>0, <1>3, SpawnFields
<1>6. ASSUME Detached PROVE Now.child = 0 /\ Supervised(Now)
  <2>1. PICK n \in 0..(IF Now.status = "new" THEN 0 ELSE sent + 1) : Numbered(Now, n)
    BY <1>0 DEF Base, Counted
  <2>2. n = 0
    BY <1>0, <2>1
  <2>3. \A c \in Children : Now.proc[c].state = "none"
    BY <2>1, <2>2 DEF Numbered, Children
  <2>4. Now.child \in Children \cup {0}
    BY <1>0 DEF Views
  <2> QED BY <1>0, <1>6, <2>3, <2>4 DEF Supervised, Named
<1>7. Detached => LiveIn(Now) = {} /\ Spawned(x, outcome)
  BY <1>0, <1>1, <1>3, <1>6, SpawnNamed
<1>8. x.timedOut = FALSE
  BY <1>0, <1>3, SpawnFields
<1> HIDE DEF x
<1>9. ~isTerminal(x) /\ ~x.stopped /\ ~Unwanted(x)
  BY <1>1, <1>5, <1>8 DEF isTerminal, Unwanted
<1>11. Inv(Aftermath(x, outcome), sent, requested) /\ Step(Now, Aftermath(x, outcome))
  BY <1>1, <1>4, <1>7, <1>9, AftermathFacts
<1>12. UNCHANGED <<sent, requested>>
  BY DEF Start
<1>13. Become(Aftermath(x, outcome))
  BY <1>2 DEF x
<1> QED BY <1>11, <1>12, <1>13, Taken

LEMMA StepSendMessage ==
  ASSUME IInv, SendMessage
  PROVE  StepTaken
<1> DEFINE s2 == sent + 1
           noted == emit(Now)
<1>0. /\ Now \in Views /\ Base(Now, sent, requested) /\ (Detached => Supervised(Now))
      /\ Now.stopped = FALSE /\ ~isTerminal(Now)
      /\ s2 \in 0..MaxMessages /\ sent \in Nat
      /\ sent' = s2 /\ UNCHANGED requested
  <2>1. /\ Now.stopped = stopped /\ sent \in 0..MaxMessages
        /\ Now \in Views /\ Base(Now, sent, requested) /\ (Detached => Supervised(Now))
    BY NowView DEF Inv
  <2>2. /\ sent < MaxMessages /\ ~stopped /\ ~isTerminal(Now)
        /\ sent' = s2 /\ UNCHANGED requested
    BY DEF SendMessage
  <2>3. s2 \in 0..MaxMessages /\ sent \in Nat
    BY <2>1, <2>2
  <2>4. Now.stopped = FALSE
    BY <2>1, <2>2 DEF Views
  <2> QED BY <2>1, <2>2, <2>3, <2>4
<1>1. PICK outcome \in Outcome :
        LET w == IF Accepts(noted) THEN noted ELSE spawnProcess(noted, outcome)
        IN /\ Accepts(noted) => outcome = "ok"
           /\ Become(Aftermath(IF Accepts(w) THEN Written(w) ELSE recoverTurn(w), outcome))
  BY DEF SendMessage, Written
<1>2. Follows(Now, noted) /\ noted.status = Now.status
  BY <1>0, EmitFollows DEF emit, Views
<1> HIDE DEF noted
<1>3. /\ noted \in Views /\ Base(noted, sent, requested)
      /\ noted.stopped = FALSE /\ ~isTerminal(noted)
      /\ Detached => Supervised(noted)
      /\ LiveIn(noted) = LiveIn(Now) /\ PhaseIn(Now) = "open"
  BY <1>0, <1>2, FollowsBase, FollowsSupervised, FollowsLive
     DEF Follows, isTerminal, PhaseIn
<1>4. Detached => (Accepts(noted) <=> hasChild(noted))
  BY DEF Accepts, killed
<1>5. CASE Accepts(noted)
  <2> DEFINE w == Written(noted)
  <2>1. outcome = "ok"
    BY <1>1, <1>5
  <2>2. Become(w)
    BY <1>1, <1>5, <2>1 DEF Aftermath
  <2>3. hasChild(noted)
    BY <1>5 DEF Accepts
  <2>4. /\ Base(noted, s2, requested) /\ Paid(noted, sent)
        /\ \A c \in Children : noted.proc[c].owed <= sent
    BY <1>0, <1>3, BaseMore
  <2>5. /\ Base(w, s2, requested)
        /\ LiveIn(w) = LiveIn(noted) /\ AllowedIn(w) = AllowedIn(noted)
        /\ \A c \in Children : w.proc[c].state = noted.proc[c].state
        /\ w.status = "working" /\ w.timedOut = FALSE
        /\ w.stopped = noted.stopped
        /\ w.child = noted.child /\ w.childExited = noted.childExited
        /\ w.held = noted.held /\ w.dirs = noted.dirs
    BY <1>0, <1>3, <2>3, <2>4, WrittenFacts
  <2> HIDE DEF w
  <2>6. ~Unwanted(w) /\ PhaseIn(w) = "open"
    BY <1>3, <2>5 DEF Unwanted, isTerminal, PhaseIn
  <2>7. ASSUME Detached PROVE Supervised(w)
    <3>1. Named(noted)
      BY <1>3, <2>7 DEF Supervised
    <3>2. UnwrittenIn(w) = UnwrittenIn(noted)
      BY <2>5 DEF UnwrittenIn
    <3> QED BY <1>3, <2>5, <2>6, <3>1, <3>2 DEF Supervised, Named
  <2>8. Step(Now, w)
    BY <1>0, <1>3, <2>5, <2>6 DEF Step, Moves
  <2>9. Inv(w, s2, requested)
    BY <2>5, <2>7 DEF Inv
  <2> HIDE DEF s2
  <2> QED BY <1>0, <2>2, <2>8, <2>9, Taken
<1>6. CASE ~Accepts(noted)
  <2> DEFINE w == spawnProcess(noted, outcome)
             x == IF Accepts(w) THEN Written(w) ELSE recoverTurn(w)
  <2>1. Become(Aftermath(x, outcome))
    BY <1>1, <1>6
  <2>2. /\ NextChild(noted) \in Children /\ noted.proc[NextChild(noted)].state = "none"
    BY <1>0, <1>3, NextChildFacts
  <2>3. /\ Base(w, s2, requested) /\ Paid(w, sent)
        /\ \A c \in Children : w.proc[c].owed <= sent
    BY <1>0, <1>3, SpawnFacts
  <2>4. /\ w.stopped = noted.stopped /\ w.status = "working" /\ w.timedOut = FALSE
    BY <1>3, <2>2, SpawnFields
  <2>5. ASSUME Detached PROVE noted.child = 0
    BY <1>3, <1>4, <1>6, <2>5 DEF Supervised, Named, hasChild
  <2>6. Detached => LiveIn(noted) = {} /\ Spawned(w, outcome)
    BY <1>3, <2>2, <2>5, SpawnNamed
  <2> HIDE DEF w
  <2>7. w \in Views /\ ~isTerminal(w) /\ w.stopped = FALSE
    BY <1>3, <2>3, <2>4 DEF Base, isTerminal
  <2>8. CASE Accepts(w)
    <3>1. x = Written(w) /\ hasChild(w)
      BY <2>8 DEF Accepts
    <3>2. /\ Base(x, s2, requested)
          /\ LiveIn(x) = LiveIn(w)
          /\ \A c \in Children : x.proc[c].state = w.proc[c].state
          /\ x.status = "working" /\ x.timedOut = FALSE
          /\ x.stopped = w.stopped
          /\ x.child = w.child /\ x.childExited = w.childExited
          /\ x.held = w.held /\ x.dirs = w.dirs
      BY <1>0, <2>3, <2>7, <3>1, WrittenFacts
    <3> HIDE DEF x
    <3>3. ~isTerminal(x) /\ ~x.stopped /\ ~Unwanted(x)
      BY <2>7, <3>2 DEF isTerminal, Unwanted
    <3>4. Detached => LiveIn(Now) = {}
      BY <1>3, <2>6
    <3>5. Detached => w.child # 0 /\ outcome \notin Unprepared
      BY <2>6, <3>1 DEF hasChild, Spawned, Leftover, Unprepared
    <3>7. Detached => Spawned(x, outcome)
      <4> SUFFICES ASSUME Detached PROVE Spawned(x, outcome)
        OBVIOUS
      <4>1. UnwrittenIn(x) = UnwrittenIn(w)
        BY <3>2 DEF UnwrittenIn
      <4>2. outcome = "noProcess" => Bare(x)
        BY <2>6, <3>2, <4>1 DEF Spawned, Bare
      <4>3. ASSUME outcome = "ok"
            PROVE  (\E c \in Children : LiveIn(x) = {c}) /\ Named(x) /\ hasChild(x)
        <5>1. (\E c \in Children : LiveIn(w) = {c}) /\ Named(w)
          BY <2>6, <4>3 DEF Spawned
        <5>2. Named(x)
          BY <2>7, <3>2, <5>1, SameNamed
        <5> QED BY <3>1, <3>2, <5>1, <5>2 DEF hasChild
      <4> QED BY <3>5, <4>2, <4>3 DEF Spawned, Unprepared
    <3>8. Inv(Aftermath(x, outcome), s2, requested) /\ Step(Now, Aftermath(x, outcome))
      BY <1>0, <3>2, <3>3, <3>4, <3>7, AftermathFacts
    <3> HIDE DEF s2
    <3> QED BY <1>0, <2>1, <3>8, Taken
  <2>9. CASE ~Accepts(w)
    <3>1. x = recoverTurn(w)
      BY <2>9
    <3> HIDE DEF x
    <3>2. Follows(w, x) /\ (isTerminal(x) => isTerminal(w))
      BY <2>7, <3>1, RecoverFollows
    <3>3. Base(x, s2, requested) /\ ~x.stopped
      BY <2>3, <2>7, <3>2, FollowsBase DEF Follows
    <3>4. Detached => LiveIn(Now) = {}
      BY <1>3, <2>6
    <3>5. Detached => outcome # "ok"
      BY <2>6, <2>9 DEF Accepts, killed, Spawned
    <3>6. /\ LiveIn(x) = LiveIn(w) /\ x.dirs = w.dirs /\ x.held = w.held
          /\ hasChild(x) <=> hasChild(w)
      BY <3>2, FollowsLive DEF Follows, SameChild, hasChild
    <3>7. UnwrittenIn(x) = UnwrittenIn(w) /\ x.child = w.child
      BY <3>2 DEF Follows, SameChild, UnwrittenIn
    <3>8. ASSUME Detached PROVE Spawned(x, outcome)
      <4>1. outcome \in {"noDirectory", "threw"} =>
              LiveIn(x) = {} /\ Supervised(x) /\ ~hasChild(x)
        BY <2>6, <2>7, <3>2, <3>6, <3>8, FollowsSupervised DEF Spawned
      <4>2. outcome = "noConfig" => Leftover(x)
        BY <2>6, <3>6, <3>7, <3>8 DEF Spawned, Leftover
      <4>3. outcome = "noProcess" => Bare(x)
        BY <2>6, <3>6, <3>7, <3>8 DEF Spawned, Bare
      <4> QED BY <3>5, <3>8, <4>1, <4>2, <4>3 DEF Spawned
    <3>10. Detached => outcome # "ok"
      BY <3>5
    <3>9. Inv(Aftermath(x, outcome), s2, requested) /\ Step(Now, Aftermath(x, outcome))
      BY <1>0, <3>3, <3>4, <3>8, <3>10, AftermathFacts
    <3> HIDE DEF s2
    <3> QED BY <1>0, <2>1, <3>9, Taken
  <2> QED BY <2>8, <2>9
<1> QED BY <1>5, <1>6

-----------------------------------------------------------------------------
LEMMA InitInv == Init => IInv
<1> SUFFICES ASSUME Init PROVE IInv
  OBVIOUS
<1>1. /\ Now.status = "new" /\ Now.shown = 0 /\ Now.cached = [status |-> "new", shown |-> 0]
      /\ Now.stopped = FALSE /\ Now.timedOut = FALSE /\ Now.turnActive = FALSE
      /\ Now.child = 0 /\ Now.childExited = FALSE
      /\ Now.stopTimer = FALSE /\ Now.strays = 0
      /\ Now.held = 0 /\ Now.dirs = {}
      /\ Now.allowSimilar = FALSE
  BY DEF Init, Now
<1>2. /\ Now.proc \in [Children -> AnyProc]
      /\ \A c \in Children : Now.proc[c].state = "none" /\ Now.proc[c].owed = 0
  BY DEF Init, Now, AnyProc, NoProc
<1>3. /\ Now.approval \in [Approvals -> Approval]
      /\ \A a \in Approvals : Now.approval[a].state = "none"
  BY DEF Init, Now, Approval, Kind
<1>4. Now \in Views
  <2>1. /\ before = "none" /\ runtimeTimer = FALSE /\ bridge = FALSE
        /\ status = "new" /\ shown = 0 /\ cached = [status |-> "new", shown |-> 0]
        /\ stopped = FALSE /\ timedOut = FALSE /\ turnActive = FALSE
        /\ child = 0 /\ childExited = FALSE /\ stopTimer = FALSE /\ strays = 0
        /\ held = 0 /\ dirs = {} /\ allowSimilar = FALSE
    BY DEF Init
  <2>2. proc \in [Children -> AnyProc] /\ approval \in [Approvals -> Approval]
    BY <1>2, <1>3 DEF Now
  <2> QED BY <2>1, <2>2 DEF Now, Views, Status
<1>5. sent = 0 /\ requested = 0 /\ sent \in 0..MaxMessages /\ requested \in 0..MaxApprovals
  BY DEF Init
<1>6. Counted(Now, 0)
  <2>1. Numbered(Now, 0)
    BY <1>2 DEF Numbered, Children
  <2>2. Paid(Now, 0)
    BY <1>1 DEF Paid, One, isTerminal
  <2> QED BY <1>1, <1>2, <2>1, <2>2 DEF Counted
<1>7. Base(Now, sent, requested)
  BY <1>1, <1>3, <1>4, <1>5, <1>6
    DEF Base, Numbers, Quiet, Blank, isTerminal, Similar
<1>8. Supervised(Now)
  <2>1. LiveIn(Now) = {} /\ UnwrittenIn(Now) = {} /\ 0 \notin Children
    BY <1>2 DEF LiveIn, UnwrittenIn, Children
  <2> QED BY <1>1, <1>2, <2>1 DEF Supervised, Named
<1> QED BY <1>7, <1>8 DEF IInv, Inv

LEMMA StepInv == IInv /\ [Next]_vars => StepTaken
<1> SUFFICES ASSUME IInv, [Next]_vars PROVE StepTaken
  OBVIOUS
<1>1. CASE UNCHANGED vars
  <2>1. Now' = Now /\ sent' = sent /\ requested' = requested
    BY <1>1 DEF vars, Now
  <2>2. IInv'
    BY <2>1 DEF IInv
  <2>3. Step(Now, Now)
    BY DEF Step, Moves
  <2> QED BY <2>1, <2>2, <2>3 DEF StepTaken
<1>2. CASE Next
  BY <1>2, StepStart, StepSendMessage, StepStopSession, StepRuntimeTimeout, StepStopTimeout,
     StepExit, StepOutput, StepRequest, StepApprovalTimeout, StepDecide DEF Next
<1> QED BY <1>1, <1>2

(* Every reachable state satisfies the inductive invariant, for any        *)
(* number of messages and of permission requests.                          *)
THEOREM Invariant == Spec => []IInv
<1>1. Init => IInv
  BY InitInv
<1>2. IInv /\ [Next]_vars => IInv'
  BY StepInv DEF StepTaken
<1> QED BY <1>1, <1>2, PTL DEF Spec

(* Type correctness. The bound on the stop timers whose handle was         *)
(* overwritten is the part that is not one assignment: each was paid for   *)
(* by a message, by the stop or by the failure of the session.             *)
THEOREM TypeCorrect == Spec => []TypeOK
<1>1. IInv => TypeOK
  <2> SUFFICES ASSUME IInv PROVE TypeOK
    OBVIOUS
  <2>1. /\ Now \in Views /\ Base(Now, sent, requested)
        /\ Now.strays = strays /\ Now.proc = proc
        /\ sent \in 0..MaxMessages /\ requested \in 0..MaxApprovals
    BY NowView
  <2>2. /\ status \in Status
        /\ before \in {"none", "working", "idle"}
        /\ shown \in Approvals \cup {0}
        /\ cached \in [status : Status, shown : Approvals \cup {0}]
        /\ child \in Children \cup {0} /\ held \in Children \cup {0}
        /\ dirs \subseteq Children
        /\ approval \in [Approvals -> Approval]
    BY <2>1 DEF Views, Now
  <2>3. {stopped, timedOut, turnActive, childExited, runtimeTimer, stopTimer,
         bridge, allowSimilar} \subseteq BOOLEAN
    BY <2>1 DEF Views, Now
  <2>4. strays \in 0..(MaxMessages + 1)
    <3>1. strays \in Nat /\ strays <= sent + 1
      BY <2>1 DEF Views, Base, Counted
    <3> QED BY <2>1, <3>1
  <2>5. proc \in [Children -> Proc]
    <3>1. proc \in [Children -> AnyProc]
      BY <2>1 DEF Views
    <3>2. ASSUME NEW c \in Children PROVE proc[c] \in Proc
      <4>1. /\ proc[c] \in AnyProc /\ proc[c].owed \in Nat
            /\ proc[c].owed <= sent
        BY <2>1, <3>1 DEF AnyProc, Base, Counted
      <4>2. proc[c].owed \in 0..MaxMessages
        BY <2>1, <4>1
      <4> QED BY <4>1, <4>2 DEF AnyProc, Proc
    <3> QED BY <3>1, <3>2
  <2> QED BY <2>1, <2>2, <2>3, <2>4, <2>5 DEF TypeOK
<1> QED BY <1>1, Invariant, PTL

(* Only a low-risk file write is ever allowed without asking, and only     *)
(* after the user allowed one, in every mode.                              *)
THEOREM OnlySimilar == Spec => []AutoOnlySimilar
<1>1. IInv => AutoOnlySimilar
  BY NowView DEF AutoOnlySimilar, Base, Similar, WriteAllowed
<1> QED BY <1>1, Invariant, PTL

(* A decision that races a stop or a failure comes too late, in every      *)
(* mode.                                                                   *)
THEOREM TooLate == Spec => NoLateAllow
<1>1. IInv /\ [Next]_vars => [Ended => Allowed' = Allowed]_vars
  <2> SUFFICES ASSUME IInv, [Next]_vars, Ended PROVE Allowed' = Allowed
    OBVIOUS
  <2>1. Step(Now, Now')
    BY StepInv DEF StepTaken
  <2>2. Now.stopped \/ isTerminal(Now)
    BY DEF Ended, Now, isTerminal
  <2>3. AllowedIn(Now') = AllowedIn(Now)
    BY <2>1, <2>2 DEF Step
  <2> QED BY <2>3 DEF AllowedIn, Allowed, Now
<1> QED BY <1>1, Invariant, PTL DEF Spec, NoLateAllow

(* One process per session, when signals go to the child's group.          *)
THEOREM OneChild == ASSUME Detached PROVE Spec => []NoOrphanChild
<1>1. IInv => NoOrphanChild
  <2> SUFFICES ASSUME IInv, NEW c \in Live PROVE c = child /\ ~childExited
    BY DEF NoOrphanChild
  <2>1. /\ Named(Now) /\ Now.child = child /\ Now.childExited = childExited
        /\ Now.proc = proc
    BY NowView DEF Inv, Supervised
  <2>2. c \in Children /\ proc[c].state = "live" /\ 0 \notin Children
    BY DEF Live, Children
  <2> QED BY <2>1, <2>2 DEF Named
<1> QED BY <1>1, Invariant, PTL

(* No child outlives the decision to be rid of it.                         *)
THEOREM Escalates == ASSUME Detached PROVE Spec => []DoomedIsEscalated
<1>1. IInv => DoomedIsEscalated
  <2> SUFFICES ASSUME IInv, NEW c \in Live, Ended \/ timedOut
               PROVE  proc[c].sig = "kill" \/ (proc[c].sig = "term" /\ (stopTimer \/ strays > 0))
    BY DEF DoomedIsEscalated
  <2>1. /\ Supervised(Now) /\ Now.child = child /\ Now.proc = proc
        /\ Now.stopTimer = stopTimer /\ Now.strays = strays
        /\ Now.stopped = stopped /\ Now.timedOut = timedOut /\ Now.status = status
    BY NowView DEF Inv
  <2>2. c \in Children /\ proc[c].state = "live" /\ 0 \notin Children
    BY DEF Live, Children
  <2>3. c = child /\ child # 0
    BY <2>1, <2>2 DEF Supervised, Named
  <2>4. Unwanted(Now)
    BY <2>1 DEF Unwanted, Ended, isTerminal
  <2> QED BY <2>1, <2>3, <2>4 DEF Supervised, Escalated
<1> QED BY <1>1, Invariant, PTL

(* The MCP config is on disk while its child lives, for any number of      *)
(* messages; what stays is the directory of a config whose write failed,   *)
(* and with that failure the session ended.                                *)
THEOREM FilesOfChild == ASSUME Detached PROVE Spec => []FilesMatchChild
<1>1. IInv => FilesMatchChild
  <2> SUFFICES ASSUME IInv
               PROVE  /\ dirs = Live \cup Unwritten
                      /\ Unwritten # {} => status = "failed" /\ Live = {}
    BY DEF FilesMatchChild
  <2>1. Named(Now) /\ Now.dirs = dirs /\ Now.proc = proc /\ Now.status = status
    BY NowView DEF Inv, Supervised
  <2>2. LiveIn(Now) = Live /\ UnwrittenIn(Now) = Unwritten /\ 0 \notin Children
    BY <2>1 DEF LiveIn, Live, UnwrittenIn, Unwritten, Children
  <2>3. Unwritten # {} => Live = {}
    BY <2>1, <2>2 DEF Named, Live
  <2> QED BY <2>1, <2>2, <2>3 DEF Named, isTerminal
<1> QED BY <1>1, Invariant, PTL

(* The safety half of ImplementsContract: one process at a time, none      *)
(* started after a stop or the end, and ended is final.                    *)
THEOREM Refinement == ASSUME Detached PROVE Spec => Contract!SafetySpec
<1>1. Init => Contract!Init
  BY DEF Init, NoProc, Contract!Init, Phase, Live
<1>2. IInv /\ [Next]_vars => [Contract!Next]_(Contract!vars)
  <2> SUFFICES ASSUME IInv, [Next]_vars
               PROVE  Contract!Next \/ (Phase' = Phase /\ Live' = Live)
    BY DEF Contract!vars
  <2>1. Moves(Now, Now')
    BY StepInv DEF StepTaken, Step
  <2>2. /\ LiveIn(Now) = Live /\ LiveIn(Now') = Live'
        /\ PhaseIn(Now) = Phase /\ PhaseIn(Now') = Phase'
    BY DEF LiveIn, Live, PhaseIn, Phase, Now
  <2>3. CASE Live' = Live /\ Phase' \in {Phase, "ended"}
    BY <2>3 DEF Contract!Next, Contract!End
  <2>4. CASE Live' = Live /\ Phase = "open" /\ Live # {} /\ Phase' = "stopping"
    BY <2>4 DEF Contract!Next, Contract!RequestStop
  <2>5. CASE /\ Live = {} /\ Phase = "open" /\ (\E c \in Children : Live' = {c})
             /\ Phase' \in {"open", "ended"}
    BY <2>5 DEF Contract!Next, Contract!Launch
  <2>6. CASE /\ \E c \in Live : Live' = Live \ {c}
             /\ Phase' \in IF Phase = "open" THEN {"open", "ended"} ELSE {"ended"}
    <3>1. PICK c \in Live : Live' = Live \ {c}
      BY <2>6
    <3>2. c \in Children
      BY DEF Live
    <3>3. Contract!Reap(c)
      BY <2>6, <3>1 DEF Contract!Reap
    <3> QED BY <3>2, <3>3 DEF Contract!Next
  <2> QED BY <2>1, <2>2, <2>3, <2>4, <2>5, <2>6 DEF Moves
<1> QED BY <1>1, <1>2, Invariant, PTL DEF Spec, Contract!SafetySpec
-----------------------------------------------------------------------------
(* No handler revives a session that has failed: each asks isTerminal      *)
(* before it sets a status, and only a spawn makes a child.                *)
LEMMA EndedStep ==
  ASSUME IInv, Next, isTerminal(Now)
  PROVE  status' = "failed" /\ Live' \subseteq Live
<1>0. /\ Now \in Views /\ Now.status = status /\ Now.proc = proc /\ status = "failed"
      /\ Now.approval = approval
  BY NowView DEF isTerminal
<1>1. CASE Start \/ SendMessage \/ StopSession
  BY <1>0, <1>1 DEF Start, SendMessage, StopSession
<1>2. ASSUME NEW c \in Children, NEW line \in Line, Output(c, line)
      PROVE  status' = "failed" /\ Live' \subseteq Live
  <2>1. Become(processStreamLine(Now, c, line))
    BY <1>2 DEF Output
  <2>2. processStreamLine(Now, c, line) = emit(Now)
    BY DEF processStreamLine
  <2>3. Final(Now, emit(Now))
    BY <1>0 DEF Final, emit, LiveIn, Views
  <2> QED BY <2>1, <2>2, <2>3, BecomeFinal
<1>3. ASSUME NEW c \in Children, Exit(c)
      PROVE  status' = "failed" /\ Live' \subseteq Live
  BY <1>3, StepExit
<1>4. CASE RuntimeTimeout
  <2> DEFINE fired == [Now EXCEPT !.runtimeTimer = FALSE]
  <2>1. Become(fired)
    BY <1>4 DEF RuntimeTimeout
  <2>2. Final(Now, fired)
    BY <1>0 DEF Final, LiveIn, Views
  <2> QED BY <2>1, <2>2, BecomeFinal
<1>5. CASE StopTimeout
  <2>1. ASSUME NEW v \in Views, v.proc = Now.proc, v.status = Now.status
        PROVE  Final(Now, terminateChild(v, "kill"))
    <3>1. terminateChild(v, "kill").status = v.status
      BY <2>1 DEF terminateChild, Views
    <3>2. \A d \in Children : terminateChild(v, "kill").proc[d].state = v.proc[d].state
      BY <2>1 DEF terminateChild, Views, AnyProc
    <3> QED BY <2>1, <3>1, <3>2 DEF Final, LiveIn
  <2>2. CASE stopTimer /\ Become(terminateChild([Now EXCEPT !.stopTimer = FALSE], "kill"))
    <3> DEFINE v == [Now EXCEPT !.stopTimer = FALSE]
    <3>1. v \in Views /\ v.proc = Now.proc /\ v.status = Now.status
      BY <1>0 DEF Views
    <3> HIDE DEF v
    <3>2. Final(Now, terminateChild(v, "kill"))
      BY <2>1, <3>1
    <3> QED BY <2>2, <3>2, BecomeFinal DEF v
  <2>3. CASE strays > 0 /\ Become(terminateChild([Now EXCEPT !.strays = @ - 1], "kill"))
    <3> DEFINE v == [Now EXCEPT !.strays = @ - 1]
    <3>0. Now.strays = strays
      BY NowView
    <3>1. v \in Views /\ v.proc = Now.proc /\ v.status = Now.status
      BY <1>0, <2>3, <3>0 DEF Views
    <3> HIDE DEF v
    <3>2. Final(Now, terminateChild(v, "kill"))
      BY <2>1, <3>1
    <3> QED BY <2>3, <3>2, BecomeFinal DEF v
  <2> QED BY <1>5, <2>2, <2>3 DEF StopTimeout
<1>6. ASSUME NEW kind \in Kind, Request(kind)
      PROVE  status' = "failed" /\ Live' \subseteq Live
  <2> DEFINE a == requested + 1
             made == [Now EXCEPT !.approval[a] = [state |-> "pending", kind |-> kind]]
             denied == [made EXCEPT !.approval[a].state = "denied"]
  <2>1. Become(denied)
    BY <1>6 DEF Request
  <2>2. denied.status = Now.status /\ denied.proc = Now.proc
    BY <1>0 DEF Views
  <2>3. Final(Now, denied)
    BY <2>2 DEF Final, LiveIn
  <2> HIDE DEF denied
  <2> QED BY <2>1, <2>3, BecomeFinal
<1>7. ASSUME NEW a \in Approvals, ApprovalTimeout(a)
      PROVE  status' = "failed" /\ Live' \subseteq Live
  <2> DEFINE v == [Now EXCEPT !.approval[a].state = "denied"]
  <2>1. Become(onApprovalResolved(v))
    BY <1>7 DEF ApprovalTimeout
  <2>2. v.status = Now.status /\ v.proc = Now.proc
    BY <1>0 DEF Views
  <2>3. onApprovalResolved(v) = emit(v)
    BY <2>2 DEF onApprovalResolved, isTerminal
  <2>4. emit(v).status = Now.status /\ emit(v).proc = Now.proc
    BY <1>0 DEF emit, Views
  <2>5. Final(Now, emit(v))
    BY <2>4 DEF Final, LiveIn
  <2> HIDE DEF v
  <2> QED BY <2>1, <2>3, <2>5, BecomeFinal
<1>8. ASSUME NEW a \in Approvals, NEW decision \in {"approve", "reject"},
             NEW similar \in BOOLEAN, Decide(a, decision, similar)
      PROVE  status' = "failed" /\ Live' \subseteq Live
  <2>1. Now.cached.shown = 0 /\ cached.shown = a /\ Now.cached = cached
    BY <1>8, NowView DEF Decide, Base, Blank
  <2> QED BY <2>1 DEF Approvals
<1> QED BY <1>1, <1>2, <1>3, <1>4, <1>5, <1>6, <1>7, <1>8 DEF Next

(* What the contract promises of the end holds in both modes: a session    *)
(* that has failed is not revived by whatever its children, timers or the  *)
(* phone still do, and starts nothing.                                     *)
THEOREM EndedStaysEnded == Spec => Contract!EndedIsFinal
<1>1. IInv /\ [Next]_vars =>
        [Phase = "ended" => Phase' = "ended" /\ Live' \subseteq Live]_(Contract!vars)
  <2> SUFFICES ASSUME IInv, [Next]_vars, Phase = "ended"
               PROVE  Phase' = "ended" /\ Live' \subseteq Live
    BY DEF Contract!vars
  <2>1. isTerminal(Now)
    BY DEF Phase, isTerminal, Now
  <2>2. CASE Next
    BY <2>1, <2>2, EndedStep DEF Phase
  <2>3. CASE UNCHANGED vars
    BY <2>3 DEF vars, Phase, Live
  <2> QED BY <2>2, <2>3
<1> QED
  BY <1>1, Invariant, PTL DEF Spec, Contract!EndedIsFinal
=============================================================================
