---------------------------- MODULE SessionStore ----------------------------
(***************************************************************************)
(* The session store (src/src/sessionStore.ts) with the scripted mock      *)
(* agent (src/src/providers/AgentProvider.ts): launches with request ids,  *)
(* messages with ids, decisions, stops, the store's copy of each session   *)
(* and its host counters, and what the events it emits tell a phone.       *)
(*                                                                         *)
(* A handler runs to completion, so it is one action; within it the store  *)
(* copies a provider's session whenever an event is emitted, and not       *)
(* otherwise, which is why the order of assignments and emits is kept.     *)
(*                                                                         *)
(* Abstractions. A launch's options are what tells launches apart: the     *)
(* host, a real provider or the mock, a prompt; the fingerprint is their   *)
(* equality. Whether a real provider, its project and its controls resolve *)
(* at the moment depends on files the user edits: it is a choice. A mock   *)
(* session asks for one approval at most, so the session stands for its    *)
(* approval id. The rotation of scenarios is a choice. Events that change  *)
(* neither status nor approval (terminal lines, edits, the mock's replies) *)
(* and their timers are left out. Of a real session only the status it     *)
(* reports is here: the modules of the providers have the rest. The demo   *)
(* sessions are not seeded.                                                *)
(***************************************************************************)
EXTENDS Naturals, FiniteSets

CONSTANTS
  MaxSessions,        \* bound: sessions that are launched
  Request,            \* request ids of launches
  Host,               \* the hosts the store knows
  Option,             \* the options of launches
  MessageId,          \* ids of chat messages
  None                \* no request, no host, no session

ASSUME OptionAssumption ==
  Option \subseteq [host : Host \cup {None}, real : BOOLEAN, prompt : BOOLEAN]
ASSUME NoneAssumption == None \notin Nat \cup Request \cup Host
ASSUME BoundAssumption == MaxSessions \in Nat

VARIABLES
  session,            \* the provider's own session and state
  sessions,           \* the store's copy
  told,               \* what the events have said
  launchRequests,
  seenChatMessageIds,
  applied,            \* how often a message was appended, 2 for more
  activeSessionCount, approvalWaitingCount,
  reply               \* the answer of the last step, if it was a launch

Session == 1..MaxSessions             \* ids are numbers of a counter

counters == <<activeSessionCount, approvalWaitingCount>>
chat == <<seenChatMessageIds, applied>>
vars == <<session, sessions, told, launchRequests, chat, counters, reply>>

Ended == {"completed", "failed"}
Status == {"working", "approvalNeeded", "stuck", "idle"} \cup Ended
Scenario == {"completes", "stuck", "failed"}

(* The function the one timer between two phases will call.                *)
Timer == {"none", "runSearchingPhase", "runEditingPhase", "runTestingPhase",
          "firstResult", "secondResult"}

Look == [status : Status, approval : BOOLEAN]
Own == [request : Request \cup {None}, option : Option, scenario : Scenario,
        status : Status, approval : BOOLEAN,
        pending : BOOLEAN,                    \* pendingApprovalId is set
        approved : BOOLEAN,                   \* history: the user approved
        stopped : BOOLEAN, timer : Timer]
NoSession == [status |-> "none"]
Record == [session : Session, fingerprint : Option]
NoRecord == [session |-> None]
Reply == [request : Request \cup {None}, option : Option,
          kind : {"created", "replayed", "rejected"}, session : Session \cup {None}]
NoReply == [kind |-> "none"]

created == {s \in Session : session[s] # NoSession}

TypeOK ==
  /\ session \in [Session -> Own \cup {NoSession}]
  /\ sessions \in [Session -> Look \cup {NoSession}]
  /\ told \in [Session -> Look \cup {NoSession}]
  /\ launchRequests \in [Request -> Record \cup {NoRecord}]
  /\ seenChatMessageIds \subseteq Session \X MessageId
  /\ applied \in [Session \X MessageId -> 0..2]
  /\ activeSessionCount \in [Host -> Nat] /\ approvalWaitingCount \in [Host -> Nat]
  /\ reply \in Reply \cup {NoReply}

Init ==
  /\ session = [s \in Session |-> NoSession]
  /\ sessions = [s \in Session |-> NoSession]
  /\ told = [s \in Session |-> NoSession]
  /\ launchRequests = [r \in Request |-> NoRecord]
  /\ seenChatMessageIds = {} /\ applied = [m \in Session \X MessageId |-> 0]
  /\ activeSessionCount = [h \in Host |-> 0]
  /\ approvalWaitingCount = [h \in Host |-> 0]
  /\ reply = NoReply

-----------------------------------------------------------------------------
(* One session as a handler sees it: its provider's own state, the store's *)
(* copy and what was said about it.                                        *)
View(s) == [own |-> session[s], copy |-> sessions[s], told |-> told[s]]

LookAt(own) == [status |-> own.status, approval |-> own.approval]

(* What a phone makes of an event.                                         *)
Heard(before, event, own) ==
  CASE event = "agent.status.changed" -> [before EXCEPT !.status = own.status]
    [] event = "approval.required"    -> [before EXCEPT !.approval = TRUE]
    [] event = "approval.resolved"    -> [before EXCEPT !.approval = FALSE]
    [] event = "session.completed"    -> [status |-> "completed", approval |-> FALSE]
    [] event = "session.failed"       -> [status |-> "failed", approval |-> FALSE]
    [] event = "session.updated"      -> before

(* wireProvider's listener: absorb, then the event goes out.               *)
emit(v, event) ==
  [v EXCEPT !.copy = LookAt(v.own), !.told = Heard(v.told, event, v.own)]

isActive(look) == look.status \notin {"completed", "failed", "idle"}

syncHostCounters(copies, options) ==
  LET known == {s \in Session : copies[s] # NoSession}
  IN  /\ activeSessionCount' = [h \in Host |->
           Cardinality({s \in known : options[s].host = h /\ isActive(copies[s])})]
      /\ approvalWaitingCount' = [h \in Host |->
           Cardinality({s \in known : options[s].host = h /\ copies[s].approval})]

(* The end of a handler that worked on session s.                          *)
Become(s, v) ==
  /\ session' = [session EXCEPT ![s] = v.own]
  /\ sessions' = [sessions EXCEPT ![s] = v.copy]
  /\ told' = [told EXCEPT ![s] = v.told]
  /\ syncHostCounters(sessions', [t \in created \cup {s} |-> session'[t].option])

-----------------------------------------------------------------------------
(* The mock agent.                                                         *)
setStatus(v, status) == emit([v EXCEPT !.own.status = status], "agent.status.changed")
schedule(v, function) == [v EXCEPT !.own.timer = function]

(* Slip: the event goes out before the assignments.                        *)
failSessionLate(v) ==
  [emit(v, "session.failed") EXCEPT
     !.own.timer = "none", !.own.status = "failed", !.own.approval = FALSE]
failSession(v) ==
  emit([v EXCEPT !.own.timer = "none", !.own.status = "failed", !.own.approval = FALSE],
       "session.failed")

completeSession(v) ==
  emit([v EXCEPT !.own.status = "completed", !.own.approval = FALSE], "session.completed")

(* Slip: the status alone is announced.                                    *)
requestApprovalSilently(v) ==
  setStatus([v EXCEPT !.own.pending = TRUE, !.own.approval = TRUE], "approvalNeeded")
requestApproval(v) ==
  emit(setStatus([v EXCEPT !.own.pending = TRUE, !.own.approval = TRUE], "approvalNeeded"),
       "approval.required")

runTestingPhase(v, result) == schedule(setStatus(v, "working"), result)

(* Slip: the next phase is not scheduled.                                  *)
runEditingPhaseOnly(v) == setStatus(v, "working")
runEditingPhase(v) == schedule(setStatus(v, "working"), "runTestingPhase")
runSearchingPhase(v) == schedule(setStatus(v, "working"), "runEditingPhase")

goStuck(v) == setStatus(v, "stuck")

(* The end of the first run of the tests: red, or on to the approval.      *)
firstResult(v) ==
  CASE v.own.scenario = "failed"    -> failSession(v)
    [] v.own.scenario = "stuck"     -> goStuck(v)
    [] v.own.scenario = "completes" -> requestApproval(v)

PhaseTimer(s) ==
  /\ s \in created /\ session[s].timer # "none"
  /\ LET v == schedule(View(s), "none")
     IN  CASE session[s].timer = "runSearchingPhase" -> Become(s, runSearchingPhase(v))
           [] session[s].timer = "runEditingPhase" -> Become(s, runEditingPhase(v))
           [] session[s].timer = "runTestingPhase" ->
                Become(s, runTestingPhase(v, "firstResult"))
           [] session[s].timer = "firstResult" -> Become(s, firstResult(v))
           [] session[s].timer = "secondResult" -> Become(s, completeSession(v))
  /\ reply' = NoReply /\ UNCHANGED <<launchRequests, chat>>

(* Slip: the decision is not looked at.                                    *)
resolveApprovalAnyway(v, decision) ==
  runTestingPhase(
    emit([v EXCEPT !.own.pending = FALSE, !.own.approval = FALSE,
                   !.own.approved = (decision = "approve")], "approval.resolved"),
    "secondResult")
resolveApproval(v, decision) ==
  LET w == emit([v EXCEPT !.own.pending = FALSE, !.own.approval = FALSE,
                          !.own.approved = (decision = "approve")], "approval.resolved")
  IN  IF decision = "reject" THEN failSession(w)
      ELSE runTestingPhase(w, "secondResult")

stopMock(v) ==
  emit([v EXCEPT !.own.timer = "none", !.own.stopped = TRUE, !.own.status = "failed",
                 !.own.approval = FALSE], "session.failed")

-----------------------------------------------------------------------------
(* Launches.                                                               *)
Answer(r, o, kind, s) ==
  reply' = [request |-> r, option |-> o, kind |-> kind, session |-> s]

(* The record of a request that has been launched. Sessions are never      *)
(* removed, so the record's session is always found.                       *)
Bound(r) == r # None /\ launchRequests[r] # NoRecord

(* A request seen before: the same launch is replayed whatever has become  *)
(* of the host's configuration since. Slip: the configuration is asked     *)
(* first.                                                                  *)
ReplayIfResolved(r, o) ==
  /\ Bound(r)
  /\ \/ /\ launchRequests[r].fingerprint = o
        /\ Answer(r, o, "replayed", launchRequests[r].session)
     \/ /\ launchRequests[r].fingerprint # o \/ o.real
        /\ Answer(r, o, "rejected", None)
  /\ UNCHANGED <<session, sessions, told, launchRequests, chat, counters>>
Replay(r, o) ==
  /\ Bound(r)
  /\ IF launchRequests[r].fingerprint = o
     THEN Answer(r, o, "replayed", launchRequests[r].session)
     ELSE Answer(r, o, "rejected", None)
  /\ UNCHANGED <<session, sessions, told, launchRequests, chat, counters>>

(* The host is unknown, or the selection of a real provider does not       *)
(* resolve, or its constructor throws. Nothing is recorded: the request    *)
(* may be tried again.                                                     *)
Reject(r, o) ==
  /\ ~Bound(r)
  /\ o.host \notin Host \/ o.real
  /\ Answer(r, o, "rejected", None)
  /\ UNCHANGED <<session, sessions, told, launchRequests, chat, counters>>

(* forNewSession: the mock's lifecycle begins before the store listens, so *)
(* its first event is lost; it says what session.created says.             *)
NewSession(r, o, scenario) ==
  [request |-> r, option |-> o, scenario |-> scenario,
   status |-> "working", approval |-> FALSE, pending |-> FALSE, approved |-> FALSE,
   stopped |-> FALSE, timer |-> IF o.real THEN "none" ELSE "runSearchingPhase"]

sendMessage(v) == emit(v, "session.updated")

(* The copy and session.created are of the new session; then its prompt.   *)
Begin(own) ==
  LET v == [own |-> own, copy |-> LookAt(own), told |-> LookAt(own)]
  IN  IF own.option.prompt THEN sendMessage(v) ELSE v

Create(r, o) ==
  /\ ~Bound(r) /\ o.host \in Host
  /\ \E s \in Session, scenario \in IF o.real THEN {"completes"} ELSE Scenario :
       /\ created = 1..(s - 1)
       /\ Become(s, Begin(NewSession(r, o, scenario)))
       /\ launchRequests' =
            IF r = None THEN launchRequests
            ELSE [launchRequests EXCEPT ![r] = [session |-> s, fingerprint |-> o]]
       /\ Answer(r, o, "created", s)
  /\ UNCHANGED chat

startSession(r, o) == Replay(r, o) \/ Reject(r, o) \/ Create(r, o)

-----------------------------------------------------------------------------
(* Messages, decisions and stops.                                          *)
Apply(s, m) == applied' = [applied EXCEPT ![<<s, m>>] = IF @ < 2 THEN @ + 1 ELSE 2]

(* A message with an id. Slip: the id is not kept.                         *)
handleChatMessageAgain(s, m) ==
  /\ s \in created /\ <<s, m>> \notin seenChatMessageIds
  /\ Apply(s, m)
  /\ Become(s, sendMessage(View(s)))
  /\ reply' = NoReply /\ UNCHANGED <<seenChatMessageIds, launchRequests>>
handleChatMessage(s, m) ==
  /\ s \in created /\ <<s, m>> \notin seenChatMessageIds
  /\ seenChatMessageIds' = seenChatMessageIds \cup {<<s, m>>}
  /\ Apply(s, m)
  /\ Become(s, sendMessage(View(s)))
  /\ reply' = NoReply /\ UNCHANGED launchRequests

(* The session is found by the approval in the copy; its provider may not  *)
(* have it any more, which is an error and changes nothing.                *)
handleApprovalDecision(s, decision) ==
  /\ s \in created /\ sessions[s].approval
  /\ session[s].pending /\ ~session[s].stopped
  /\ Become(s, resolveApproval(View(s), decision))
  /\ reply' = NoReply /\ UNCHANGED <<launchRequests, chat>>

(* A stop is routed by the copy as well; a real provider takes its time.   *)
stopSession(s) ==
  /\ s \in created /\ sessions[s].status \notin Ended
  /\ IF session[s].option.real
     THEN \E v \in {failSession(View(s)), View(s)} : Become(s, v)
     ELSE Become(s, stopMock(View(s)))
  /\ reply' = NoReply /\ UNCHANGED <<launchRequests, chat>>

-----------------------------------------------------------------------------
(* A real provider reports a status; a status marker of a terminal agent   *)
(* may even follow its outcome.                                            *)
RealReports(s) ==
  /\ s \in created /\ session[s].option.real
  /\ \/ \E status \in {"working", "idle"} \cup Ended : Become(s, setStatus(View(s), status))
     \/ Become(s, failSession(View(s)))
     \/ Become(s, completeSession(View(s)))
  /\ reply' = NoReply /\ UNCHANGED <<launchRequests, chat>>

Next ==
  \/ \E r \in Request \cup {None}, o \in Option : startSession(r, o)
  \/ \E s \in Session :
       \/ PhaseTimer(s)
       \/ \E m \in MessageId : handleChatMessage(s, m)
       \/ \E decision \in {"approve", "reject"} : handleApprovalDecision(s, decision)
       \/ stopSession(s)
       \/ RealReports(s)

(* Timers fire; the phone, the user and real agents owe nothing.           *)
Spec == Init /\ [][Next]_vars /\ \A s \in Session : WF_vars(PhaseTimer(s))

-----------------------------------------------------------------------------
(* "One logical launch id maps to exactly one process-backed session"      *)
(* (sessionStore.ts:567), and every answer to that id speaks of it: the    *)
(* same launch is never refused afterwards nor started again, another one  *)
(* never gets its session.                                                 *)
LaunchIsIdempotent ==
  /\ \A s, t \in created :
       session[s].request # None /\ session[s].request = session[t].request => s = t
  /\ \A s \in created :
       reply.kind # "none" /\ reply.request # None /\ reply.request = session[s].request =>
         IF reply.option = session[s].option
         THEN reply.kind # "rejected" /\ reply.session = s
         ELSE reply.kind = "rejected"

(* "the message is applied at most once" (sessionStore.ts:738).            *)
MessageOnce == \A m \in Session \X MessageId : applied[m] <= 1

(* The events have said all there is: a phone that heard them knows each   *)
(* session's status and whether it waits for an approval, although the     *)
(* store did not listen yet when the provider began.                       *)
EventsTellAll == \A s \in created : told[s] = LookAt(session[s])

(* The hosts' counters agree with the providers' own sessions, though they *)
(* are only brought up to date by events, from copies.                     *)
CountersAreExact ==
  \A h \in Host :
    LET here == {s \in created : session[s].option.host = h}
    IN  /\ activeSessionCount[h] =
             Cardinality({s \in here : session[s].status \notin Ended \cup {"idle"}})
        /\ approvalWaitingCount[h] = Cardinality({s \in here : session[s].approval})

(* The outcome of a mock session is final, whatever timers, decisions and  *)
(* messages are still to come; and it is completed only with an approval.  *)
OutcomeIsFinal ==
  [][\A s \in {t \in created : ~session[t].option.real} :
       /\ session[s].status \in Ended => session'[s].status = session[s].status
       /\ session'[s].status = "completed" => session'[s].approved]_vars

(* A mock session never stays at work: it comes to a result, or to a       *)
(* question to the user.                                                   *)
SessionsSettle ==
  \A s \in Session :
    (s \in created /\ ~session[s].option.real /\ session[s].status = "working")
      ~> session[s].status # "working"
=============================================================================
