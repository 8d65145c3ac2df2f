------------------------- MODULE SessionStoreProofs -------------------------
(***************************************************************************)
(* Proofs about the session store, for any number of sessions, requests,   *)
(* messages, hosts and options: launches and messages are idempotent, the  *)
(* events tell all, the counters are exact and outcomes are final.         *)
(*                                                                         *)
(* The argument has two halves. What a provider does to its session is a   *)
(* function from a view to a view; the first lemmas say of each that it    *)
(* leads from a faithful view (the copy and what was told agree with the   *)
(* session) to a faithful one. What the store does with the result,        *)
(* Become, then keeps the state faithful and makes the counters exact,     *)
(* whatever they were before.                                              *)
(***************************************************************************)
EXTENDS SessionStore, FiniteSetTheorems, TLAPS

(* The copy and the events agree with each provider's own session.         *)
Faithful ==
  \A s \in Session :
    IF s \in created THEN sessions[s] = LookAt(session[s]) /\ told[s] = LookAt(session[s])
    ELSE sessions[s] = NoSession /\ told[s] = NoSession

(* The record of a request is that of its only session.                    *)
Recorded ==
  \A s \in created : session[s].request # None =>
    launchRequests[session[s].request] = [session |-> s, fingerprint |-> session[s].option]

(* An applied message is a seen one.                                       *)
Counted ==
  \A m \in Session \X MessageId : applied[m] = IF m \in seenChatMessageIds THEN 1 ELSE 0

(* A mock agent with a timer is at work, one that waits has no timer, and  *)
(* it is on the way to completion, or there, only with an approval.        *)
Scripted(own) ==
  /\ own.timer # "none" => own.status = "working"
  /\ own.approval => own.status = "approvalNeeded"
  /\ own.timer = "secondResult" => own.approved
  /\ own.status = "completed" => own.approved

Mocks == \A s \in created : ~session[s].option.real => Scripted(session[s])

IInv ==
  /\ TypeOK /\ Faithful /\ Recorded /\ Counted /\ Mocks
  /\ LaunchIsIdempotent /\ CountersAreExact

-----------------------------------------------------------------------------
(* Views.                                                                  *)
Views == [own : Own, copy : Look, told : Look]
Agreeing == {v \in Views : v.copy = LookAt(v.own) /\ v.told = LookAt(v.own)}

(* v and w are views of one session, launched the same way.                *)
SameLaunch(v, w) == w.own.request = v.own.request /\ w.own.option = v.own.option

(* A mock session keeps to its script, and its outcome does not change.    *)
KeepsToScript(v, w) ==
  Scripted(v.own) =>
    /\ Scripted(w.own)
    /\ v.own.status \in Ended => w.own.status = v.own.status

(* A view with a session of its own that everything agrees with.           *)
ViewOf(own) == [own |-> own, copy |-> LookAt(own), told |-> LookAt(own)]

LEMMA LookAtType ==
  ASSUME NEW own \in Own
  PROVE  LookAt(own) \in Look
BY DEF LookAt, Look, Own

LEMMA ViewOfAgrees ==
  ASSUME NEW own \in Own
  PROVE  ViewOf(own) \in Agreeing /\ ViewOf(own).own = own
BY LookAtType DEF ViewOf, Views, Agreeing

(* What emit builds, with what it puts in hidden from the provers.         *)
LEMMA CopyAndTold ==
  ASSUME NEW v \in Views, NEW look, NEW heard
  PROVE  [v EXCEPT !.copy = look, !.told = heard]
           = [own |-> v.own, copy |-> look, told |-> heard]
<1>1. [v EXCEPT !.copy = look] = [own |-> v.own, copy |-> look, told |-> v.told]
  BY DEF Views
<1>2. [[own |-> v.own, copy |-> look, told |-> v.told] EXCEPT !.told = heard]
        = [own |-> v.own, copy |-> look, told |-> heard]
  OBVIOUS
<1> QED
  BY <1>1, <1>2

(* emit makes the copy agree; if what the event says is true, all agree.   *)
LEMMA EmitView ==
  ASSUME NEW v \in Views, NEW event, Heard(v.told, event, v.own) = LookAt(v.own)
  PROVE  emit(v, event) = ViewOf(v.own)
<1> DEFINE look == LookAt(v.own)
           heard == Heard(v.told, event, v.own)
<1> HIDE DEF look, heard
<1>1. [v EXCEPT !.copy = look, !.told = heard] = [own |-> v.own, copy |-> look, told |-> heard]
  BY CopyAndTold, Zenon
<1> QED
  BY <1>1 DEF emit, ViewOf, look, heard

LEMMA SendMessageView ==
  ASSUME NEW v \in Agreeing
  PROVE  sendMessage(v) = ViewOf(v.own)
<1>1. Heard(v.told, "session.updated", v.own) = LookAt(v.own)
  BY DEF Heard, Agreeing
<1> QED
  BY <1>1, EmitView DEF sendMessage, Agreeing

LEMMA SetStatusView ==
  ASSUME NEW v \in Views, NEW status \in Status, v.told.approval = v.own.approval
  PROVE  /\ [v.own EXCEPT !.status = status] \in Own
         /\ setStatus(v, status) = ViewOf([v.own EXCEPT !.status = status])
<1> DEFINE own == [v.own EXCEPT !.status = status]
<1>1. own \in Own /\ own.status = status /\ own.approval = v.own.approval
  BY DEF Views, Own
<1> DEFINE w == [v EXCEPT !.own.status = status]
<1>2. w \in Views /\ w.own = own /\ w.told = v.told
  BY <1>1 DEF Views
<1>3. Heard(w.told, "agent.status.changed", w.own) = [v.told EXCEPT !.status = own.status]
  BY <1>2 DEF Heard
<1>4. [v.told EXCEPT !.status = own.status] = LookAt(own)
  BY <1>1 DEF LookAt, Views, Look
<1>5. emit(w, "agent.status.changed") = ViewOf(own)
  BY <1>2, <1>3, <1>4, EmitView
<1> QED
  BY <1>1, <1>5 DEF setStatus

LEMMA ScheduleView ==
  ASSUME NEW v \in Agreeing, NEW function \in Timer
  PROVE  /\ [v.own EXCEPT !.timer = function] \in Own
         /\ schedule(v, function) = ViewOf([v.own EXCEPT !.timer = function])
<1> DEFINE own == [v.own EXCEPT !.timer = function]
<1>1. own \in Own /\ LookAt(own) = LookAt(v.own)
  BY DEF Agreeing, Views, Own, LookAt
<1> HIDE DEF own
<1>2. [v EXCEPT !.own = own] = [own |-> own, copy |-> v.copy, told |-> v.told]
  BY DEF Agreeing, Views
<1> QED
  BY <1>1, <1>2 DEF own, schedule, ViewOf, Agreeing

(* The handlers that change several fields and announce an outcome.        *)
LEMMA FailSessionView ==
  ASSUME NEW v \in Views
  PROVE  LET own == [v.own EXCEPT !.timer = "none", !.status = "failed", !.approval = FALSE]
         IN  own \in Own /\ failSession(v) = ViewOf(own)
<1> DEFINE own == [v.own EXCEPT !.timer = "none", !.status = "failed", !.approval = FALSE]
           w == [v EXCEPT !.own = own]
<1>1. own \in Own /\ own.status = "failed" /\ own.approval = FALSE
  BY DEF Views, Own, Timer, Status, Ended
<1>2. w \in Views /\ w.own = own
  BY <1>1 DEF Views
<1>3. Heard(w.told, "session.failed", own) = LookAt(own)
  BY <1>1 DEF Heard, LookAt
<1>4. failSession(v) = emit(w, "session.failed")
  BY DEF failSession
<1> QED
  BY <1>1, <1>2, <1>3, <1>4, EmitView

LEMMA CompleteSessionView ==
  ASSUME NEW v \in Views
  PROVE  LET own == [v.own EXCEPT !.status = "completed", !.approval = FALSE]
         IN  own \in Own /\ completeSession(v) = ViewOf(own)
<1> DEFINE own == [v.own EXCEPT !.status = "completed", !.approval = FALSE]
           w == [v EXCEPT !.own = own]
<1>1. own \in Own /\ own.status = "completed" /\ own.approval = FALSE
  BY DEF Views, Own, Status, Ended
<1>2. w \in Views /\ w.own = own
  BY <1>1 DEF Views
<1>3. Heard(w.told, "session.completed", own) = LookAt(own)
  BY <1>1 DEF Heard, LookAt
<1>4. completeSession(v) = emit(w, "session.completed")
  BY DEF completeSession
<1> QED
  BY <1>1, <1>2, <1>3, <1>4, EmitView

LEMMA StopMockView ==
  ASSUME NEW v \in Views
  PROVE  LET own == [v.own EXCEPT !.timer = "none", !.stopped = TRUE, !.status = "failed",
                                  !.approval = FALSE]
         IN  own \in Own /\ stopMock(v) = ViewOf(own)
<1> DEFINE own == [v.own EXCEPT !.timer = "none", !.stopped = TRUE, !.status = "failed",
                                !.approval = FALSE]
           w == [v EXCEPT !.own = own]
<1>1. own \in Own /\ own.status = "failed" /\ own.approval = FALSE
  BY DEF Views, Own, Timer, Status, Ended
<1>2. w \in Views /\ w.own = own
  BY <1>1 DEF Views
<1>3. Heard(w.told, "session.failed", own) = LookAt(own)
  BY <1>1 DEF Heard, LookAt
<1>4. stopMock(v) = emit(w, "session.failed")
  BY DEF stopMock
<1> QED
  BY <1>1, <1>2, <1>3, <1>4, EmitView

(* Two events: the status is told first, then the question.                *)
LEMMA RequestApprovalView ==
  ASSUME NEW v \in Agreeing
  PROVE  LET own == [v.own EXCEPT !.pending = TRUE, !.approval = TRUE,
                                  !.status = "approvalNeeded"]
         IN  own \in Own /\ requestApproval(v) = ViewOf(own)
<1> DEFINE asked == [v.own EXCEPT !.pending = TRUE, !.approval = TRUE]
           own == [asked EXCEPT !.status = "approvalNeeded"]
           w == [v EXCEPT !.own = own]
           x == emit(w, "agent.status.changed")
<1>1. own \in Own /\ own.status = "approvalNeeded" /\ own.approval = TRUE
  BY DEF Agreeing, Views, Own, Status, Ended
<1>2. w \in Views /\ w.own = own /\ w.told = v.told
  BY <1>1 DEF Agreeing, Views
<1>3. requestApproval(v) = emit(x, "approval.required")
  BY DEF requestApproval, setStatus
<1>4. /\ x.own = own /\ x.copy = LookAt(own)
      /\ x.told = [v.told EXCEPT !.status = "approvalNeeded"]
      /\ x = [own |-> x.own, copy |-> x.copy, told |-> x.told]
  <2>1. Heard(w.told, "agent.status.changed", own) = [v.told EXCEPT !.status = "approvalNeeded"]
    BY <1>1, <1>2 DEF Heard
  <2> DEFINE look == LookAt(own)
             heard == Heard(w.told, "agent.status.changed", own)
  <2>2. [w EXCEPT !.copy = look, !.told = heard]
          = [own |-> w.own, copy |-> look, told |-> heard]
    <3> HIDE DEF look, heard, w
    <3> QED
      BY <1>2, CopyAndTold, Zenon
  <2>3. x = [own |-> own, copy |-> look, told |-> heard]
    BY <2>2, <1>2 DEF emit
  <2> HIDE DEF look, heard, own, x
  <2> QED
    BY <2>1, <2>3 DEF look, heard
<1>5. x \in Views
  BY <1>1, <1>4, LookAtType DEF Agreeing, Views, Look, Status
<1>6. Heard(x.told, "approval.required", own) = LookAt(own)
  BY <1>1, <1>4 DEF Heard, LookAt, Agreeing, Views, Look
<1>7. emit(x, "approval.required") = ViewOf(own)
  BY <1>4, <1>5, <1>6, EmitView
<1> QED
  BY <1>1, <1>3, <1>7

-----------------------------------------------------------------------------
(* The store.                                                              *)
LEMMA ViewOfSession ==
  ASSUME TypeOK, Faithful, NEW s \in created
  PROVE  s \in Session /\ session[s] \in Own /\ View(s) = ViewOf(session[s])
BY DEF TypeOK, Faithful, created, View, ViewOf

LEMMA NoneIsNoSession ==
  /\ \A own \in Own : own # NoSession
  /\ \A look \in Look : look # NoSession
<1>1. "none" \notin Status
  BY DEF Status, Ended
<1>2. NoSession.status = "none"
  BY DEF NoSession
<1> QED
  BY <1>1, <1>2 DEF Own, Look

(* The counters are cardinalities of finite sets.                          *)
LEMMA CountIsNat ==
  ASSUME NEW T \in SUBSET Session
  PROVE  Cardinality(T) \in Nat
<1>1. IsFiniteSet(Session)
  BY BoundAssumption, FS_Interval DEF Session
<1> QED
  BY <1>1, FS_Subset, FS_CardinalityType

LEMMA BecomeStep ==
  ASSUME TypeOK, Faithful, NEW s \in Session, NEW own \in Own, Become(s, ViewOf(own))
  PROVE  /\ session' = [session EXCEPT ![s] = own]
         /\ created' = created \cup {s}
         /\ session' \in [Session -> Own \cup {NoSession}]
         /\ sessions' \in [Session -> Look \cup {NoSession}]
         /\ told' \in [Session -> Look \cup {NoSession}]
         /\ activeSessionCount' \in [Host -> Nat] /\ approvalWaitingCount' \in [Host -> Nat]
         /\ Faithful' /\ CountersAreExact'
<1>1. /\ session' = [session EXCEPT ![s] = own]
      /\ sessions' = [sessions EXCEPT ![s] = LookAt(own)]
      /\ told' = [told EXCEPT ![s] = LookAt(own)]
  BY DEF Become, ViewOf
<1>2. /\ session' \in [Session -> Own \cup {NoSession}]
      /\ sessions' \in [Session -> Look \cup {NoSession}]
      /\ told' \in [Session -> Look \cup {NoSession}]
  BY <1>1, LookAtType DEF TypeOK
<1>3. created' = created \cup {s}
  BY <1>1, NoneIsNoSession DEF created, TypeOK
<1>4. Faithful'
  BY <1>1, <1>3 DEF Faithful, TypeOK
<1>5. ASSUME NEW t \in Session
      PROVE  /\ sessions'[t] # NoSession <=> t \in created'
             /\ t \in created' => sessions'[t] = LookAt(session'[t]) /\ session'[t] \in Own
  BY <1>2, <1>4, LookAtType, NoneIsNoSession DEF Faithful, created
<1> DEFINE options == [t \in created \cup {s} |-> session'[t].option]
<1>6. syncHostCounters(sessions', options)
  BY DEF Become
<1>7. ASSUME NEW h \in Host
      PROVE  LET known == {t \in Session : sessions'[t] # NoSession}
                 here == {t \in created' : session'[t].option.host = h}
             IN  /\ {t \in known : options[t].host = h /\ isActive(sessions'[t])}
                      = {t \in here : session'[t].status \notin Ended \cup {"idle"}}
                 /\ {t \in known : options[t].host = h /\ sessions'[t].approval}
                      = {t \in here : session'[t].approval}
  <2>1. \A t \in created' : options[t] = session'[t].option
    BY <1>3
  <2>2. \A t \in created' :
          /\ isActive(sessions'[t]) <=> session'[t].status \notin Ended \cup {"idle"}
          /\ sessions'[t].approval = session'[t].approval
    <3>1. \A t \in created' : sessions'[t] = LookAt(session'[t])
      BY <1>5 DEF created
    <3>2. \A other \in Own :
            /\ isActive(LookAt(other)) <=> other.status \notin Ended \cup {"idle"}
            /\ LookAt(other).approval = other.approval
      BY DEF isActive, LookAt, Ended
    <3>3. \A t \in created' : session'[t] \in Own
      BY <1>5 DEF created
    <3> QED
      BY <3>1, <3>2, <3>3
  <2>3. {t \in Session : sessions'[t] # NoSession} = created'
    BY <1>5 DEF created
  <2> HIDE DEF options
  <2> QED
    BY <2>1, <2>2, <2>3
<1>8. ASSUME NEW h \in Host
      PROVE  LET here == {t \in created' : session'[t].option.host = h}
             IN  /\ activeSessionCount'[h] =
                      Cardinality({t \in here : session'[t].status \notin Ended \cup {"idle"}})
                 /\ approvalWaitingCount'[h] = Cardinality({t \in here : session'[t].approval})
  <2> HIDE DEF options
  <2> QED
    BY <1>6, <1>7 DEF syncHostCounters
<1>9. CountersAreExact'
  BY <1>8 DEF CountersAreExact
<1>10. activeSessionCount' \in [Host -> Nat] /\ approvalWaitingCount' \in [Host -> Nat]
  <2> DEFINE known == {t \in Session : sessions'[t] # NoSession}
  <2>1. \A h \in Host :
          /\ Cardinality({t \in known : options[t].host = h /\ isActive(sessions'[t])}) \in Nat
          /\ Cardinality({t \in known : options[t].host = h /\ sessions'[t].approval}) \in Nat
    BY CountIsNat
  <2> HIDE DEF options
  <2> QED
    BY <1>6, <2>1 DEF syncHostCounters
<1> QED
  BY <1>1, <1>2, <1>3, <1>4, <1>9, <1>10

-----------------------------------------------------------------------------
(* A handler that works on one session and answers no launch keeps the     *)
(* invariant, if it launches the session no other way and a mock session   *)
(* keeps to its script.                                                    *)
Works(s, own) ==
  /\ own.request = session[s].request /\ own.option = session[s].option
  /\ ~own.option.real => KeepsToScript(ViewOf(session[s]), ViewOf(own))
  /\ Become(s, ViewOf(own))
  /\ reply' = NoReply /\ UNCHANGED launchRequests

LEMMA WorksStep ==
  ASSUME IInv, NEW s \in created, NEW own \in Own, Works(s, own),
         (seenChatMessageIds \subseteq Session \X MessageId)',
         (applied \in [Session \X MessageId -> 0..2])', Counted'
  PROVE  /\ IInv'
         /\ session' = [session EXCEPT ![s] = own] /\ created' = created
<1>1. s \in Session /\ session[s] \in Own
  BY ViewOfSession DEF IInv
<1>2. /\ session' = [session EXCEPT ![s] = own]
      /\ created' = created
      /\ session' \in [Session -> Own \cup {NoSession}]
      /\ sessions' \in [Session -> Look \cup {NoSession}]
      /\ told' \in [Session -> Look \cup {NoSession}]
      /\ activeSessionCount' \in [Host -> Nat] /\ approvalWaitingCount' \in [Host -> Nat]
      /\ Faithful' /\ CountersAreExact'
  <2>1. TypeOK /\ Faithful /\ Become(s, ViewOf(own))
    BY DEF IInv, Works
  <2>2. created \cup {s} = created
    OBVIOUS
  <2> QED
    BY <1>1, <2>1, <2>2, BecomeStep
<1>3. TypeOK'
  BY <1>2 DEF Works, IInv, TypeOK
<1>4. \A t \in created : session'[t].request = session[t].request
                         /\ session'[t].option = session[t].option
  BY <1>1, <1>2 DEF Works, IInv, TypeOK, created
<1>5. Recorded'
  BY <1>2, <1>4 DEF Works, IInv, Recorded
<1>6. LaunchIsIdempotent'
  BY <1>2, <1>4 DEF Works, IInv, LaunchIsIdempotent, NoReply
<1>7. Mocks'
  <2>1. ~own.option.real => Scripted(own)
    BY DEF Works, IInv, Mocks, KeepsToScript, ViewOf
  <2>2. \A t \in created' : session'[t] = IF t = s THEN own ELSE session[t]
    BY <1>2 DEF IInv, TypeOK, created
  <2> QED
    BY <1>2, <2>1, <2>2 DEF IInv, Mocks
<1> QED
  BY <1>2, <1>3, <1>5, <1>6, <1>7 DEF IInv

LEMMA PhaseTimerStep ==
  ASSUME IInv, NEW s \in Session, PhaseTimer(s)
  PROVE  s \in created /\ \E own \in Own : Works(s, own) /\ UNCHANGED chat
<1> DEFINE idle == [session[s] EXCEPT !.timer = "none"]
           v == schedule(View(s), "none")
<1>1. /\ s \in created /\ session[s] \in Own /\ session[s].timer # "none"
      /\ View(s) = ViewOf(session[s]) /\ View(s) \in Agreeing /\ View(s).own = session[s]
  BY ViewOfSession, ViewOfAgrees DEF PhaseTimer, IInv
<1>2. /\ idle \in Own /\ v = ViewOf(idle) /\ v \in Agreeing /\ v.own = idle
      /\ idle.status = session[s].status /\ idle.approval = session[s].approval
      /\ idle.timer = "none"
  <2>1. idle \in Own /\ v = ViewOf(idle)
    BY <1>1, ScheduleView DEF Timer
  <2> QED
    BY <1>1, <2>1, ViewOfAgrees DEF Own
<1>3. reply' = NoReply /\ UNCHANGED <<launchRequests, chat>>
  BY DEF PhaseTimer
<1>4. v \in Views /\ v.told.approval = v.own.approval
  BY <1>2 DEF Agreeing, LookAt
(* A phase of work: the status is announced, the next timer is set.        *)
<1>5. ASSUME NEW function \in Timer, function # "secondResult",
             Become(s, schedule(setStatus(v, "working"), function))
      PROVE  \E own \in Own : Works(s, own)
  <2> DEFINE busy == [idle EXCEPT !.status = "working"]
             own == [busy EXCEPT !.timer = function]
  <2>1. busy \in Own /\ setStatus(v, "working") = ViewOf(busy)
    BY <1>2, <1>4, SetStatusView DEF Status
  <2>2. own \in Own /\ schedule(ViewOf(busy), function) = ViewOf(own)
    BY <2>1, ScheduleView, ViewOfAgrees
  <2>3. /\ own.request = session[s].request /\ own.option = session[s].option
        /\ own.status = "working" /\ own.timer = function
        /\ own.approval = session[s].approval /\ own.approved = session[s].approved
    BY <1>1 DEF Own
  <2>4. KeepsToScript(ViewOf(session[s]), ViewOf(own))
    <3> HIDE DEF own
    <3> QED
      BY <1>1, <1>5, <2>3 DEF KeepsToScript, ViewOf, Scripted, Ended
  <2> QED
    BY <1>3, <1>5, <2>1, <2>2, <2>3, <2>4 DEF Works
<1>6. ASSUME Become(s, failSession(v))
      PROVE  \E own \in Own : Works(s, own)
  <2> DEFINE own == [idle EXCEPT !.timer = "none", !.status = "failed", !.approval = FALSE]
  <2>1. own \in Own /\ failSession(v) = ViewOf(own)
    BY <1>2, <1>4, FailSessionView, Zenon
  <2>2. /\ own.request = session[s].request /\ own.option = session[s].option
        /\ own.status = "failed" /\ own.timer = "none" /\ own.approval = FALSE
    BY <1>1 DEF Own
  <2>3. KeepsToScript(ViewOf(session[s]), ViewOf(own))
    <3> HIDE DEF own
    <3> QED
      BY <1>1, <2>2 DEF KeepsToScript, ViewOf, Scripted, Ended
  <2> QED
    BY <1>3, <1>6, <2>1, <2>2, <2>3 DEF Works
<1>7. ASSUME Become(s, goStuck(v))
      PROVE  \E own \in Own : Works(s, own)
  <2> DEFINE own == [idle EXCEPT !.status = "stuck"]
  <2>1. own \in Own /\ goStuck(v) = ViewOf(own)
    BY <1>2, <1>4, SetStatusView DEF goStuck, Status
  <2>2. /\ own.request = session[s].request /\ own.option = session[s].option
        /\ own.status = "stuck" /\ own.timer = "none" /\ own.approval = session[s].approval
    BY <1>1 DEF Own
  <2>3. KeepsToScript(ViewOf(session[s]), ViewOf(own))
    <3> HIDE DEF own
    <3> QED
      BY <1>1, <2>2 DEF KeepsToScript, ViewOf, Scripted, Ended
  <2> QED
    BY <1>3, <1>7, <2>1, <2>2, <2>3 DEF Works
<1>8. ASSUME Become(s, requestApproval(v))
      PROVE  \E own \in Own : Works(s, own)
  <2> DEFINE own == [idle EXCEPT !.pending = TRUE, !.approval = TRUE,
                                 !.status = "approvalNeeded"]
  <2>1. own \in Own /\ requestApproval(v) = ViewOf(own)
    BY <1>2, RequestApprovalView, Zenon
  <2>2. /\ own.request = session[s].request /\ own.option = session[s].option
        /\ own.status = "approvalNeeded" /\ own.timer = "none"
    BY <1>1 DEF Own
  <2>3. KeepsToScript(ViewOf(session[s]), ViewOf(own))
    <3> HIDE DEF own
    <3> QED
      BY <1>1, <2>2 DEF KeepsToScript, ViewOf, Scripted, Ended
  <2> QED
    BY <1>3, <1>8, <2>1, <2>2, <2>3 DEF Works
<1>9. ASSUME Become(s, completeSession(v)), session[s].timer = "secondResult"
      PROVE  \E own \in Own : Works(s, own)
  <2> DEFINE own == [idle EXCEPT !.status = "completed", !.approval = FALSE]
  <2>1. own \in Own /\ completeSession(v) = ViewOf(own)
    BY <1>2, <1>4, CompleteSessionView, Zenon
  <2>2. /\ own.request = session[s].request /\ own.option = session[s].option
        /\ own.status = "completed" /\ own.timer = "none" /\ own.approval = FALSE
        /\ own.approved = session[s].approved
    BY <1>1 DEF Own
  <2>3. KeepsToScript(ViewOf(session[s]), ViewOf(own))
    <3> HIDE DEF own
    <3> QED
      BY <1>1, <1>9, <2>2 DEF KeepsToScript, ViewOf, Scripted, Ended
  <2> QED
    BY <1>3, <1>9, <2>1, <2>2, <2>3 DEF Works
<1> HIDE DEF v
<1>10. CASE session[s].timer = "runSearchingPhase"
  <2>1. Become(s, schedule(setStatus(v, "working"), "runEditingPhase"))
    BY <1>10 DEF PhaseTimer, runSearchingPhase, v
  <2> QED
    BY <1>1, <1>3, <1>5, <2>1 DEF Timer
<1>11. CASE session[s].timer = "runEditingPhase"
  <2>1. Become(s, schedule(setStatus(v, "working"), "runTestingPhase"))
    BY <1>11 DEF PhaseTimer, runEditingPhase, v
  <2> QED
    BY <1>1, <1>3, <1>5, <2>1 DEF Timer
<1>12. CASE session[s].timer = "runTestingPhase"
  <2>1. Become(s, schedule(setStatus(v, "working"), "firstResult"))
    BY <1>12 DEF PhaseTimer, runTestingPhase, v
  <2> QED
    BY <1>1, <1>3, <1>5, <2>1 DEF Timer
<1>13. CASE session[s].timer = "firstResult"
  <2>1. Become(s, firstResult(v))
    BY <1>13 DEF PhaseTimer, v
  <2>2. v.own.scenario \in Scenario
    BY <1>2 DEF Own
  <2>3. firstResult(v) \in {failSession(v), goStuck(v), requestApproval(v)}
    BY <2>2 DEF firstResult, Scenario
  <2> QED
    BY <1>1, <1>3, <1>6, <1>7, <1>8, <2>1, <2>3
<1>14. CASE session[s].timer = "secondResult"
  <2>1. Become(s, completeSession(v))
    BY <1>14 DEF PhaseTimer, v
  <2> QED
    BY <1>1, <1>3, <1>9, <1>14, <2>1
<1>15. session[s].timer \in Timer
  BY <1>1 DEF Own
<1> QED
  BY <1>1, <1>10, <1>11, <1>12, <1>13, <1>14, <1>15 DEF Timer

(* A decision: the question is gone before what follows from the decision. *)
LEMMA ResolvedView ==
  ASSUME NEW v \in Agreeing, NEW approved \in BOOLEAN
  PROVE  LET own == [v.own EXCEPT !.pending = FALSE, !.approval = FALSE, !.approved = approved]
             w == [v EXCEPT !.own.pending = FALSE, !.own.approval = FALSE,
                            !.own.approved = approved]
         IN  own \in Own /\ emit(w, "approval.resolved") = ViewOf(own)
<1> DEFINE own == [v.own EXCEPT !.pending = FALSE, !.approval = FALSE, !.approved = approved]
           w == [v EXCEPT !.own = own]
<1>1. own \in Own /\ own.status = v.own.status /\ own.approval = FALSE
  BY DEF Agreeing, Views, Own
<1>2. w \in Views /\ w.own = own /\ w.told = LookAt(v.own)
  BY <1>1 DEF Agreeing, Views
<1>3. Heard(w.told, "approval.resolved", own) = LookAt(own)
  <2> HIDE DEF w, own
  <2>1. Heard(w.told, "approval.resolved", own) = [LookAt(v.own) EXCEPT !.approval = FALSE]
    BY <1>2 DEF Heard
  <2> QED
    BY <1>1, <2>1 DEF LookAt
<1>4. emit(w, "approval.resolved") = ViewOf(own)
  BY <1>2, <1>3, EmitView
<1> QED
  BY <1>1, <1>4

LEMMA DecisionStep ==
  ASSUME IInv, NEW s \in Session, NEW decision \in {"approve", "reject"},
         handleApprovalDecision(s, decision)
  PROVE  s \in created /\ \E own \in Own : Works(s, own) /\ UNCHANGED chat
<1> DEFINE approved == decision = "approve"
           clear == [session[s] EXCEPT !.pending = FALSE, !.approval = FALSE,
                                       !.approved = approved]
           v == View(s)
           w == emit([v EXCEPT !.own.pending = FALSE, !.own.approval = FALSE,
                               !.own.approved = approved], "approval.resolved")
<1>1. /\ s \in created /\ session[s] \in Own
      /\ v = ViewOf(session[s]) /\ v \in Agreeing /\ v.own = session[s]
  BY ViewOfSession, ViewOfAgrees DEF handleApprovalDecision, IInv
<1>2. session[s].approval
  <2>1. sessions[s] = LookAt(session[s])
    BY <1>1 DEF IInv, Faithful
  <2> QED
    BY <2>1 DEF handleApprovalDecision, LookAt
<1>3. approved \in BOOLEAN
  OBVIOUS
<1>4. clear \in Own /\ w = ViewOf(clear)
  <2> HIDE DEF approved, v
  <2> QED
    BY <1>1, <1>3, ResolvedView, Zenon
<1>5. /\ clear.request = session[s].request /\ clear.option = session[s].option
      /\ clear.status = session[s].status /\ clear.approval = FALSE
      /\ clear.approved = approved
  BY <1>1 DEF Own
<1> HIDE DEF clear, w
<1>6. ViewOf(clear) \in Agreeing /\ ViewOf(clear).own = clear /\ ViewOf(clear) \in Views
      /\ ViewOf(clear).told.approval = clear.approval
  BY <1>4, ViewOfAgrees DEF Agreeing, LookAt
<1>7. reply' = NoReply /\ UNCHANGED <<launchRequests, chat>>
  BY DEF handleApprovalDecision
<1>8. Become(s, resolveApproval(v, decision))
  BY DEF handleApprovalDecision
<1>9. CASE decision = "reject"
  <2> DEFINE own == [clear EXCEPT !.timer = "none", !.status = "failed", !.approval = FALSE]
  <2>1. own \in Own /\ failSession(ViewOf(clear)) = ViewOf(own)
    BY <1>6, FailSessionView, Zenon
  <2>2. Become(s, ViewOf(own))
    BY <1>4, <1>8, <1>9, <2>1 DEF resolveApproval, w
  <2>3. /\ own.request = session[s].request /\ own.option = session[s].option
        /\ own.status = "failed" /\ own.timer = "none" /\ own.approval = FALSE
    BY <1>4, <1>5 DEF Own
  <2>4. KeepsToScript(ViewOf(session[s]), ViewOf(own))
    <3> HIDE DEF own
    <3> QED
      BY <1>2, <2>3 DEF KeepsToScript, ViewOf, Scripted, Ended
  <2> HIDE DEF own
  <2> QED
    BY <1>1, <1>7, <2>1, <2>2, <2>3, <2>4 DEF Works
<1>10. CASE decision = "approve"
  <2> DEFINE busy == [clear EXCEPT !.status = "working"]
             own == [busy EXCEPT !.timer = "secondResult"]
  <2>1. busy \in Own /\ setStatus(ViewOf(clear), "working") = ViewOf(busy)
    BY <1>6, SetStatusView DEF Status
  <2>2. own \in Own /\ schedule(ViewOf(busy), "secondResult") = ViewOf(own)
    BY <2>1, ScheduleView, ViewOfAgrees DEF Timer
  <2>3. Become(s, ViewOf(own))
    BY <1>4, <1>8, <1>10, <2>1, <2>2 DEF resolveApproval, runTestingPhase, w
  <2>4. /\ own.request = session[s].request /\ own.option = session[s].option
        /\ own.status = "working" /\ own.timer = "secondResult" /\ own.approval = FALSE
        /\ own.approved = TRUE
    BY <1>4, <1>5, <1>10 DEF Own
  <2>5. KeepsToScript(ViewOf(session[s]), ViewOf(own))
    <3> HIDE DEF own
    <3> QED
      BY <1>2, <2>4 DEF KeepsToScript, ViewOf, Scripted, Ended
  <2> HIDE DEF own
  <2> QED
    BY <1>1, <1>7, <2>2, <2>3, <2>4, <2>5 DEF Works
<1> QED
  BY <1>9, <1>10

LEMMA StopStep ==
  ASSUME IInv, NEW s \in Session, stopSession(s)
  PROVE  s \in created /\ \E own \in Own : Works(s, own) /\ UNCHANGED chat
<1> DEFINE v == View(s)
<1>1. /\ s \in created /\ session[s] \in Own
      /\ v = ViewOf(session[s]) /\ v \in Agreeing /\ v \in Views /\ v.own = session[s]
  BY ViewOfSession, ViewOfAgrees DEF stopSession, IInv, Agreeing
<1>2. session[s].status \notin Ended
  <2>1. sessions[s] = LookAt(session[s])
    BY <1>1 DEF IInv, Faithful
  <2> QED
    BY <2>1 DEF stopSession, LookAt
<1>3. reply' = NoReply /\ UNCHANGED <<launchRequests, chat>>
  BY DEF stopSession
<1>4. CASE session[s].option.real /\ Become(s, v)
  BY <1>1, <1>3, <1>4 DEF Works
<1>5. CASE session[s].option.real /\ Become(s, failSession(v))
  <2> DEFINE own == [session[s] EXCEPT !.timer = "none", !.status = "failed", !.approval = FALSE]
  <2>1. own \in Own /\ failSession(v) = ViewOf(own)
    BY <1>1, FailSessionView, Zenon
  <2>2. own.request = session[s].request /\ own.option = session[s].option
    BY <1>1 DEF Own
  <2> HIDE DEF own
  <2> QED
    BY <1>1, <1>3, <1>5, <2>1, <2>2 DEF Works
<1>6. CASE ~session[s].option.real /\ Become(s, stopMock(v))
  <2> DEFINE own == [session[s] EXCEPT !.timer = "none", !.stopped = TRUE,
                                       !.status = "failed", !.approval = FALSE]
  <2>1. own \in Own /\ stopMock(v) = ViewOf(own)
    BY <1>1, StopMockView, Zenon
  <2>2. /\ own.request = session[s].request /\ own.option = session[s].option
        /\ own.status = "failed" /\ own.timer = "none" /\ own.approval = FALSE
    BY <1>1 DEF Own
  <2> HIDE DEF own
  <2>3. KeepsToScript(ViewOf(session[s]), ViewOf(own))
    BY <1>2, <2>2 DEF KeepsToScript, ViewOf, Scripted, Ended
  <2> QED
    BY <1>1, <1>3, <1>6, <2>1, <2>2, <2>3 DEF Works
<1> QED
  BY <1>4, <1>5, <1>6 DEF stopSession

LEMMA RealReportsStep ==
  ASSUME IInv, NEW s \in Session, RealReports(s)
  PROVE  s \in created /\ \E own \in Own : Works(s, own) /\ UNCHANGED chat
<1> DEFINE v == View(s)
<1>1. /\ s \in created /\ session[s] \in Own /\ session[s].option.real
      /\ v = ViewOf(session[s]) /\ v \in Agreeing /\ v \in Views /\ v.own = session[s]
      /\ v.told.approval = v.own.approval
  BY ViewOfSession, ViewOfAgrees DEF RealReports, IInv, Agreeing, LookAt
<1>2. reply' = NoReply /\ UNCHANGED <<launchRequests, chat>>
  BY DEF RealReports
<1>3. ASSUME NEW own \in Own, own.request = session[s].request,
             own.option = session[s].option, Become(s, ViewOf(own))
      PROVE  Works(s, own) /\ UNCHANGED chat
  BY <1>1, <1>2, <1>3 DEF Works
<1>4. ASSUME NEW status \in {"working", "idle"} \cup Ended, Become(s, setStatus(v, status))
      PROVE  \E own \in Own : Works(s, own) /\ UNCHANGED chat
  <2> DEFINE own == [session[s] EXCEPT !.status = status]
  <2>1. own \in Own /\ setStatus(v, status) = ViewOf(own)
    BY <1>1, SetStatusView DEF Status
  <2>2. own.request = session[s].request /\ own.option = session[s].option
    BY <1>1 DEF Own
  <2> HIDE DEF own
  <2> QED
    BY <1>3, <1>4, <2>1, <2>2
<1>5. ASSUME Become(s, failSession(v))
      PROVE  \E own \in Own : Works(s, own) /\ UNCHANGED chat
  <2> DEFINE own == [session[s] EXCEPT !.timer = "none", !.status = "failed", !.approval = FALSE]
  <2>1. own \in Own /\ failSession(v) = ViewOf(own)
    BY <1>1, FailSessionView, Zenon
  <2>2. own.request = session[s].request /\ own.option = session[s].option
    BY <1>1 DEF Own
  <2> HIDE DEF own
  <2> QED
    BY <1>3, <1>5, <2>1, <2>2
<1>6. ASSUME Become(s, completeSession(v))
      PROVE  \E own \in Own : Works(s, own) /\ UNCHANGED chat
  <2> DEFINE own == [session[s] EXCEPT !.status = "completed", !.approval = FALSE]
  <2>1. own \in Own /\ completeSession(v) = ViewOf(own)
    BY <1>1, CompleteSessionView, Zenon
  <2>2. own.request = session[s].request /\ own.option = session[s].option
    BY <1>1 DEF Own
  <2> HIDE DEF own
  <2> QED
    BY <1>3, <1>6, <2>1, <2>2
<1> QED
  BY <1>1, <1>4, <1>5, <1>6 DEF RealReports

LEMMA MessageStep ==
  ASSUME IInv, NEW s \in Session, NEW m \in MessageId, handleChatMessage(s, m)
  PROVE  /\ s \in created /\ \E own \in Own : Works(s, own)
         /\ (seenChatMessageIds \subseteq Session \X MessageId)'
         /\ (applied \in [Session \X MessageId -> 0..2])' /\ Counted'
<1>1. /\ s \in created /\ session[s] \in Own
      /\ View(s) = ViewOf(session[s]) /\ View(s) \in Agreeing /\ View(s).own = session[s]
  BY ViewOfSession, ViewOfAgrees DEF handleChatMessage, IInv
<1>2. Become(s, ViewOf(session[s]))
  BY <1>1, SendMessageView DEF handleChatMessage
<1>3. Works(s, session[s])
  BY <1>1, <1>2 DEF handleChatMessage, Works, KeepsToScript, ViewOf
<1> DEFINE it == <<s, m>>
           Message == Session \X MessageId
<1>4. /\ it \in Message /\ it \notin seenChatMessageIds
      /\ seenChatMessageIds' = seenChatMessageIds \cup {it}
      /\ applied' = [applied EXCEPT ![it] = IF @ < 2 THEN @ + 1 ELSE 2]
  BY DEF handleChatMessage, Apply
<1>5. /\ seenChatMessageIds \subseteq Message /\ applied \in [Message -> 0..2]
      /\ \A x \in Message : applied[x] = IF x \in seenChatMessageIds THEN 1 ELSE 0
  BY DEF IInv, TypeOK, Counted
<1> HIDE DEF it, Message
<1>6. applied' = [applied EXCEPT ![it] = 1]
  <2>1. (IF applied[it] < 2 THEN applied[it] + 1 ELSE 2) = 1
    BY <1>4, <1>5
  <2> DEFINE more == IF applied[it] < 2 THEN applied[it] + 1 ELSE 2
  <2>2. applied' = [applied EXCEPT ![it] = more]
    BY <1>4
  <2> HIDE DEF more
  <2> QED
    BY <2>1, <2>2 DEF more
<1>7. /\ seenChatMessageIds' \subseteq Message /\ applied' \in [Message -> 0..2]
      /\ \A x \in Message : applied'[x] = IF x \in seenChatMessageIds' THEN 1 ELSE 0
  BY <1>4, <1>5, <1>6
<1> QED
  BY <1>1, <1>3, <1>7 DEF Message, Counted

(* The answers to a launch that start nothing.                             *)
LEMMA AnswerStep ==
  ASSUME IInv, NEW r \in Request \cup {None}, NEW o \in Option, Replay(r, o) \/ Reject(r, o)
  PROVE  IInv' /\ UNCHANGED session
<1>1. UNCHANGED <<session, sessions, told, launchRequests, chat, counters>>
  BY DEF Replay, Reject
<1>2. created' = created
  BY <1>1 DEF created
<1>3. /\ Faithful' /\ Recorded' /\ Counted' /\ Mocks' /\ CountersAreExact'
  BY <1>1, <1>2 DEF IInv, Faithful, Recorded, Counted, Mocks, CountersAreExact, chat, counters
<1>4. /\ reply' \in Reply /\ reply'.request = r /\ reply'.option = o
      /\ \/ /\ Bound(r) /\ launchRequests[r].fingerprint = o
            /\ reply'.kind = "replayed" /\ reply'.session = launchRequests[r].session
         \/ /\ Bound(r) /\ launchRequests[r].fingerprint # o /\ reply'.kind = "rejected"
         \/ /\ ~Bound(r) /\ reply'.kind = "rejected"
  <2>1. Bound(r) => launchRequests[r] \in Record
    BY DEF Bound, IInv, TypeOK
  <2> QED
    BY <2>1 DEF Replay, Reject, Answer, Reply, Record
<1>5. TypeOK'
  BY <1>1, <1>4 DEF IInv, TypeOK, chat, counters
<1>6. ASSUME NEW s \in created, r # None, r = session[s].request
      PROVE  /\ Bound(r)
             /\ launchRequests[r].session = s /\ launchRequests[r].fingerprint = session[s].option
  <2>1. launchRequests[r] = [session |-> s, fingerprint |-> session[s].option]
    BY <1>6 DEF IInv, Recorded
  <2>2. s # None
    BY NoneAssumption DEF created, Session
  <2> QED
    BY <1>6, <2>1, <2>2 DEF Bound, NoRecord
<1>7. LaunchIsIdempotent'
  BY <1>1, <1>2, <1>4, <1>6 DEF IInv, LaunchIsIdempotent
<1> QED
  BY <1>1, <1>3, <1>5, <1>7 DEF IInv

(* A new session, under a number and, if it has one, a request that no     *)
(* other session has.                                                      *)
LEMMA CreateStep ==
  ASSUME IInv, NEW r \in Request \cup {None}, NEW o \in Option, Create(r, o)
  PROVE  IInv' /\ \A t \in created : session'[t] = session[t]
<1>1. PICK s \in Session, scenario \in IF o.real THEN {"completes"} ELSE Scenario :
         /\ created = 1..(s - 1)
         /\ Become(s, Begin(NewSession(r, o, scenario)))
         /\ launchRequests' =
              IF r = None THEN launchRequests
              ELSE [launchRequests EXCEPT ![r] = [session |-> s, fingerprint |-> o]]
         /\ Answer(r, o, "created", s)
  BY DEF Create
<1>2. ~Bound(r) /\ UNCHANGED chat
  BY DEF Create
<1> DEFINE own == NewSession(r, o, scenario)
<1>3. /\ own \in Own /\ own.request = r /\ own.option = o
      /\ own.status = "working" /\ own.approval = FALSE /\ own.timer # "secondResult"
  <2>1. scenario \in Scenario
    BY DEF Scenario
  <2> QED
    BY <2>1 DEF NewSession, Own, Status, Timer
<1> HIDE DEF own
<1>4. Begin(own) = ViewOf(own)
  <2>1. ViewOf(own) \in Agreeing /\ ViewOf(own).own = own
    BY <1>3, ViewOfAgrees
  <2> QED
    BY <2>1, SendMessageView DEF Begin, ViewOf
<1>5. s \notin created
  BY <1>1, BoundAssumption DEF Session
<1>6. /\ session' = [session EXCEPT ![s] = own]
      /\ created' = created \cup {s}
      /\ session' \in [Session -> Own \cup {NoSession}]
      /\ sessions' \in [Session -> Look \cup {NoSession}]
      /\ told' \in [Session -> Look \cup {NoSession}]
      /\ activeSessionCount' \in [Host -> Nat] /\ approvalWaitingCount' \in [Host -> Nat]
      /\ Faithful' /\ CountersAreExact'
  <2>1. TypeOK /\ Faithful
    BY DEF IInv
  <2>2. Become(s, ViewOf(own))
    BY <1>1, <1>4 DEF own
  <2> QED
    BY <1>3, <2>1, <2>2, BecomeStep
<1>7. session'[s] = own /\ \A t \in created : session'[t] = session[t]
  BY <1>5, <1>6 DEF IInv, TypeOK, created
<1>8. /\ reply'.request = r /\ reply'.option = o /\ reply'.kind = "created"
      /\ reply'.session = s /\ reply' \in Reply
  BY <1>1 DEF Answer, Reply
<1>9. TypeOK'
  <2>1. launchRequests' \in [Request -> Record \cup {NoRecord}]
    BY <1>1 DEF IInv, TypeOK, Record
  <2> QED
    BY <1>2, <1>6, <1>8, <2>1 DEF IInv, TypeOK, chat
<1>10. Counted'
  BY <1>2 DEF IInv, Counted, chat
<1>11. \A t \in created : r # None => session[t].request # r
  <2> SUFFICES ASSUME NEW t \in created, r # None, session[t].request = r
               PROVE  FALSE
    OBVIOUS
  <2>1. launchRequests[r] = [session |-> t, fingerprint |-> session[t].option]
    BY DEF IInv, Recorded
  <2>2. t # None
    BY NoneAssumption DEF created, Session
  <2> QED
    BY <1>2, <2>1, <2>2 DEF Bound, NoRecord
<1>12. Recorded'
  <2>1. \A t \in created : session[t].request # None => session[t].request \in Request
    BY DEF IInv, TypeOK, created, Own, NoSession
  <2>2. r # None => launchRequests'[r] = [session |-> s, fingerprint |-> o]
    BY <1>1 DEF IInv, TypeOK
  <2>3. \A q \in Request : q # r => launchRequests'[q] = launchRequests[q]
    BY <1>1 DEF IInv, TypeOK
  <2> QED
    BY <1>3, <1>6, <1>7, <1>11, <2>1, <2>2, <2>3 DEF IInv, Recorded
<1>13. LaunchIsIdempotent'
  BY <1>3, <1>6, <1>7, <1>8, <1>11 DEF IInv, LaunchIsIdempotent
<1>14. Mocks'
  <2>1. Scripted(own)
    BY <1>3 DEF Scripted
  <2> QED
    BY <1>6, <1>7, <2>1 DEF IInv, Mocks
<1> QED
  BY <1>6, <1>7, <1>9, <1>10, <1>12, <1>13, <1>14 DEF IInv

-----------------------------------------------------------------------------
(* What a step keeps of the outcomes.                                      *)
KeepsOutcomes ==
  \A s \in created : ~session[s].option.real =>
    /\ session[s].status \in Ended => session'[s].status = session[s].status
    /\ session'[s].status = "completed" => session'[s].approved

LEMMA InitInvariant == Init => IInv
<1> SUFFICES ASSUME Init PROVE IInv
  OBVIOUS
<1>1. created = {}
  BY DEF Init, created
<1>2. TypeOK
  BY DEF Init, TypeOK
<1>3. Faithful /\ Recorded /\ Counted /\ Mocks /\ LaunchIsIdempotent
  BY <1>1 DEF Init, Faithful, Recorded, Counted, Mocks, LaunchIsIdempotent
<1>4. CountersAreExact
  <2>1. Cardinality({}) = 0
    BY FS_EmptySet
  <2>2. \A h \in Host :
          LET here == {s \in created : session[s].option.host = h}
          IN  /\ {s \in here : session[s].status \notin Ended \cup {"idle"}} = {}
              /\ {s \in here : session[s].approval} = {}
    BY <1>1
  <2> QED
    BY <2>1, <2>2 DEF Init, CountersAreExact
<1> QED
  BY <1>2, <1>3, <1>4 DEF IInv

(* The outcomes, from a step that works on one session.                    *)
LEMMA WorksOutcome ==
  ASSUME IInv, IInv', NEW s \in created, NEW own \in Own, Works(s, own),
         session' = [session EXCEPT ![s] = own], created' = created
  PROVE  KeepsOutcomes
<1>1. \A t \in created : session'[t] = IF t = s THEN own ELSE session[t]
  BY DEF IInv, TypeOK, created
<1>2. own.option = session[s].option
  BY DEF Works
<1>3. ~own.option.real /\ session[s].status \in Ended => own.status = session[s].status
  BY <1>2 DEF Works, KeepsToScript, ViewOf, IInv, Mocks
<1>4. \A t \in created : ~session'[t].option.real => Scripted(session'[t])
  BY DEF IInv, Mocks
<1> QED
  BY <1>1, <1>2, <1>3, <1>4 DEF KeepsOutcomes, Scripted

(* Outcomes when no session that exists changes.                           *)
LEMMA SameOutcome ==
  ASSUME IInv, \A s \in created : session'[s] = session[s]
  PROVE  KeepsOutcomes
BY DEF KeepsOutcomes, IInv, Mocks, Scripted

LEMMA NextInvariant ==
  ASSUME IInv, [Next]_vars
  PROVE  IInv' /\ KeepsOutcomes
<1>1. ASSUME NEW s \in Session,
             s \in created /\ \E own \in Own : Works(s, own) /\ UNCHANGED chat
      PROVE  IInv' /\ KeepsOutcomes
  <2>1. PICK own \in Own : Works(s, own) /\ UNCHANGED chat
    BY <1>1
  <2>2. /\ (seenChatMessageIds \subseteq Session \X MessageId)'
        /\ (applied \in [Session \X MessageId -> 0..2])' /\ Counted'
    BY <2>1 DEF IInv, TypeOK, Counted, chat
  <2>3. IInv' /\ session' = [session EXCEPT ![s] = own] /\ created' = created
    BY <1>1, <2>1, <2>2, WorksStep
  <2> QED
    BY <1>1, <2>1, <2>3, WorksOutcome
<1>2. ASSUME NEW s \in Session, NEW m \in MessageId, handleChatMessage(s, m)
      PROVE  IInv' /\ KeepsOutcomes
  <2>1. s \in created
    BY <1>2, MessageStep
  <2>2. PICK own \in Own : Works(s, own)
    BY <1>2, MessageStep
  <2>3. IInv' /\ session' = [session EXCEPT ![s] = own] /\ created' = created
    BY <1>2, <2>1, <2>2, MessageStep, WorksStep
  <2> QED
    BY <2>1, <2>2, <2>3, WorksOutcome
<1>3. ASSUME NEW r \in Request \cup {None}, NEW o \in Option, startSession(r, o)
      PROVE  IInv' /\ KeepsOutcomes
  <2>1. CASE Replay(r, o) \/ Reject(r, o)
    BY <2>1, AnswerStep, SameOutcome
  <2>2. CASE Create(r, o)
    BY <2>2, CreateStep, SameOutcome
  <2> QED
    BY <1>3, <2>1, <2>2 DEF startSession
<1>4. CASE UNCHANGED vars
  <2>1. created' = created
    BY <1>4 DEF vars, created
  <2>2. IInv'
    BY <1>4, <2>1 DEF vars, chat, counters, IInv, TypeOK, Faithful, Recorded, Counted, Mocks,
                      LaunchIsIdempotent, CountersAreExact
  <2> QED
    BY <1>4, <2>2, SameOutcome DEF vars
<1>5. ASSUME NEW s \in Session, PhaseTimer(s)
      PROVE  IInv' /\ KeepsOutcomes
  BY <1>1, <1>5, PhaseTimerStep
<1>6. ASSUME NEW s \in Session, NEW decision \in {"approve", "reject"},
             handleApprovalDecision(s, decision)
      PROVE  IInv' /\ KeepsOutcomes
  BY <1>1, <1>6, DecisionStep
<1>7. ASSUME NEW s \in Session, stopSession(s)
      PROVE  IInv' /\ KeepsOutcomes
  BY <1>1, <1>7, StopStep
<1>8. ASSUME NEW s \in Session, RealReports(s)
      PROVE  IInv' /\ KeepsOutcomes
  BY <1>1, <1>8, RealReportsStep
<1> QED
  BY <1>2, <1>3, <1>4, <1>5, <1>6, <1>7, <1>8 DEF Next

-----------------------------------------------------------------------------
(* The inductive invariant holds in every state of the store.              *)
THEOREM Invariant == Spec => []IInv
<1>1. IInv /\ [Next]_vars => IInv'
  BY NextInvariant
<1> QED
  BY InitInvariant, <1>1, PTL DEF Spec

(* The store's tables, copies and counters have their types                *)
(* (sessionStore.ts:563-582).                                              *)
THEOREM TypeCorrect == Spec => []TypeOK
<1>1. IInv => TypeOK
  BY DEF IInv
<1> QED
  BY Invariant, <1>1, PTL

(* "One logical launch id maps to exactly one process-backed session", and *)
(* every answer to that id speaks of it (sessionStore.ts:567, 848-881).    *)
THEOREM OneLaunch == Spec => []LaunchIsIdempotent
<1>1. IInv => LaunchIsIdempotent
  BY DEF IInv
<1> QED
  BY Invariant, <1>1, PTL

(* A message with an id is applied once, however often it is sent          *)
(* (sessionStore.ts:738-757).                                              *)
THEOREM AppliedOnce == Spec => []MessageOnce
<1>1. IInv => MessageOnce
  BY DEF IInv, Counted, MessageOnce
<1> QED
  BY Invariant, <1>1, PTL

(* Whoever hears every event knows each session's status and whether it    *)
(* waits for an approval: no handler changes either without saying so      *)
(* (sessionStore.ts:623-655 and each handler of the mock agent).           *)
THEOREM NothingUnsaid == Spec => []EventsTellAll
<1>1. IInv => EventsTellAll
  BY DEF IInv, Faithful, EventsTellAll, created
<1> QED
  BY Invariant, <1>1, PTL

(* The hosts' counters are those of the providers' own sessions            *)
(* (sessionStore.ts:657-677), for any number of hosts and sessions.        *)
THEOREM Counts == Spec => []CountersAreExact
<1>1. IInv => CountersAreExact
  BY DEF IInv
<1> QED
  BY Invariant, <1>1, PTL

(* No timer, decision or message changes a mock session's outcome, and it  *)
(* is completed only with an approval (AgentProvider.ts:835-868).          *)
THEOREM FinalOutcome == Spec => OutcomeIsFinal
<1>1. IInv /\ [Next]_vars =>
        [\A s \in {t \in created : ~session[t].option.real} :
           /\ session[s].status \in Ended => session'[s].status = session[s].status
           /\ session'[s].status = "completed" => session'[s].approved]_vars
  BY NextInvariant DEF KeepsOutcomes
<1> QED
  BY Invariant, <1>1, PTL DEF Spec, OutcomeIsFinal
=============================================================================
