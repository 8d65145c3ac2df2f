---------------------------- MODULE WsConnection ----------------------------
(***************************************************************************)
(* The phone's connection to the host (src/src/ws.ts, with http.ts and     *)
(* server.ts): a handshake that presents a pairing credential, snapshots,  *)
(* then session events out and commands in, while the audit trail          *)
(* (audit.ts, auditStore.ts) writes down what happens and the project      *)
(* catalog answers when it is ready.                                       *)
(*                                                                         *)
(* Abstractions. The host does nothing else while it checks a credential,  *)
(* so of PairedDevices only the verdict is left: the client is let in, it  *)
(* is refused, or saving the store throws. The store holds one session; of *)
(* its life only the events that the audit trail derives entries from are  *)
(* kept. What was sent on an open socket is what the phone has: frames of  *)
(* one socket arrive in order. Commands that change neither session,       *)
(* catalog nor audit trail are not actions, and the content of the audit   *)
(* file is a count of the lines that are lost.                             *)
(***************************************************************************)
EXTENDS Integers

CONSTANTS
  Conn,               \* sockets; a closed one is used again
  MaxDisk,            \* bound: changes of the project folders
  MaxFaults           \* bound: appends to the audit log that fail

ASSUME ConnectionAssumption == MaxDisk \in Nat /\ MaxFaults \in Nat

VARIABLES
  conn,               \* the connection on each socket
  session,            \* the status of the session in the store
  audit,              \* the audit log file
  disk, catalog       \* version of the project folders; ProjectCatalog

vars == <<conn, session, audit, disk, catalog>>

Status == {"none", "running", "waiting", "ended"}
NoVersion == -1
Version == 0..MaxDisk

Connection ==
  [phase     : {"none", "hello", "steady", "closing"},
   listening : BOOLEAN,                   \* message, close and event listeners
   view      : Status \cup {"unseen"},    \* the session as the phone knows it
   projects  : Version \cup {NoVersion},  \* the projects as the phone knows them
   missed    : BOOLEAN]                   \* an event never reached the sockets
Closed == [phase |-> "none", listening |-> FALSE, view |-> "unseen",
           projects |-> NoVersion, missed |-> FALSE]

AuditLog == [torn : BOOLEAN, lost : Nat, faults : 0..MaxFaults]

Build == [from : Version, for : SUBSET Conn]        \* who awaits it
Catalog == [cache  : Version,                       \* currentSnapshot
            fresh  : BOOLEAN,                       \* refreshedAt is recent
            builds : SUBSET Build]                  \* refreshPromise
EmptyCatalog == [cache |-> 0, fresh |-> FALSE, builds |-> {}]

TypeOK ==
  /\ conn \in [Conn -> Connection]
  /\ session \in Status
  /\ audit \in AuditLog
  /\ disk \in Version
  /\ catalog \in Catalog

Init ==
  /\ conn = [k \in Conn |-> Closed]
  /\ session = "none"
  /\ audit = [torn |-> FALSE, lost |-> 0, faults |-> 0]
  /\ disk = 0
  /\ catalog = EmptyCatalog

---------------------------------------------------------------------------
(* The audit trail: append one line, then tell the phones. *)

Listeners == {k \in Conn : conn[k].listening /\ conn[k].phase = "steady"}

\* mutant: a line is appended without its newline.
WrittenOpen(log, heard) ==
  [log EXCEPT !.torn = TRUE, !.lost = IF log.torn /\ heard THEN @ + 1 ELSE @]

\* A torn last line swallows the line that is appended after it, although the
\* phones that listen are told of that event.
Written(log, heard) ==
  [log EXCEPT !.torn = FALSE, !.lost = IF log.torn /\ heard THEN @ + 1 ELSE @]

\* The disk is full: the line is written in part, or not at all.
Unwritten(log) ==
  {[log EXCEPT !.torn = t, !.faults = @ + 1] :
     t \in IF log.faults < MaxFaults THEN {log.torn, TRUE} ELSE {}}

\* AuditStore.record by the host: an append that fails throws.
Recorded(log) == {Written(log, Listeners # {})} \cup Unwritten(log)

\* sessionStore.emit("event"): the audit trail listens first and writes the
\* entry that it derives; if that throws, no socket hears of the event.
Tell(next) ==
  conn' = [k \in Conn |-> IF k \in Listeners THEN [conn[k] EXCEPT !.view = next] ELSE conn[k]]
Miss ==
  conn' = [k \in Conn |-> IF k \in Listeners THEN [conn[k] EXCEPT !.missed = TRUE] ELSE conn[k]]

emit(next) ==
  /\ session' = next
  /\ \/ audit' = Written(audit, Listeners # {}) /\ Tell(next)
     \/ audit' \in Unwritten(audit) /\ Miss

---------------------------------------------------------------------------
(* The project catalog *)

\* mutant: a refresh is started although one is under way.
refreshAgain(k) == [catalog EXCEPT !.builds = @ \cup {[from |-> disk, for |-> {k}]}]

\* mutant: who comes during a refresh is forgotten.
refreshAlone(k) ==
  [catalog EXCEPT !.builds = IF @ = {} THEN {[from |-> disk, for |-> {k}]} ELSE @]

\* catalog.snapshot(true): join the refresh under way, or start one.
refresh(k) ==
  [catalog EXCEPT !.builds =
     IF @ = {} THEN {[from |-> disk, for |-> {k}]}
     ELSE {[b EXCEPT !.for = @ \cup {k}] : b \in @}]

\* buildSnapshot has read the folders at some time since it began.
BuildDone ==
  \E b \in catalog.builds : \E v \in b.from..disk :
    /\ catalog' = [cache |-> v, fresh |-> TRUE, builds |-> catalog.builds \ {b}]
    /\ conn' = [k \in Conn |->
         IF k \in b.for /\ conn[k].phase = "steady"
         THEN [conn[k] EXCEPT !.projects = v] ELSE conn[k]]
    /\ UNCHANGED <<session, audit, disk>>

CacheExpires ==
  /\ catalog.fresh
  /\ catalog' = [catalog EXCEPT !.fresh = FALSE]
  /\ UNCHANGED <<conn, session, audit, disk>>

DiskChanges ==
  /\ disk < MaxDisk
  /\ disk' = disk + 1
  /\ UNCHANGED <<conn, session, audit, catalog>>

---------------------------------------------------------------------------
(* The handshake *)

\* mutant: the listeners are added after the projects were awaited.
GreetThenListen(k) ==
  /\ conn' = [conn EXCEPT ![k] =
       [phase |-> "steady", listening |-> catalog.fresh, view |-> session, missed |-> FALSE,
        projects |-> IF catalog.fresh THEN catalog.cache ELSE NoVersion]]
  /\ catalog' = IF catalog.fresh THEN catalog ELSE refresh(k)

\* server.hello, the snapshots, the listeners, and last the projects, which
\* are awaited unless the cached ones are recent.
Greet(k) ==
  /\ conn' = [conn EXCEPT ![k] =
       [phase |-> "steady", listening |-> TRUE, view |-> session, missed |-> FALSE,
        projects |-> IF catalog.fresh THEN catalog.cache ELSE NoVersion]]
  /\ catalog' = IF catalog.fresh THEN catalog ELSE refresh(k)

Shut(k) == conn' = [conn EXCEPT ![k].phase = "closing"]

\* A credential is presented. recordAuthFailed may throw, as the check may: the
\* socket is then closed by the route.
Present(k) ==
  \/ Greet(k) /\ UNCHANGED <<session, audit, disk>>
  \/ Shut(k) /\ audit' \in Recorded(audit) /\ UNCHANGED <<session, disk, catalog>>
  \/ Shut(k) /\ UNCHANGED <<session, audit, disk, catalog>>

\* A token in the query string is taken at once.
Connect(k) ==
  /\ conn[k].phase = "none"
  /\ \/ /\ conn' = [conn EXCEPT ![k].phase = "hello"]
        /\ UNCHANGED <<session, audit, disk, catalog>>
     \/ Present(k)

\* client.hello; what is no hello is ignored, and the timer runs on.
Hello(k) == conn[k].phase = "hello" /\ Present(k)

HelloTimeout(k) ==
  /\ conn[k].phase = "hello"
  /\ Shut(k)
  /\ UNCHANGED <<session, audit, disk, catalog>>

\* GET with a bearer token that is refused: 401.
RestRefused == audit' \in Recorded(audit) /\ UNCHANGED <<conn, session, disk, catalog>>

\* GET /projects refreshes for no socket.
RestProjects ==
  /\ catalog' = [catalog EXCEPT !.builds = IF @ = {} THEN {[from |-> disk, for |-> {}]} ELSE @]
  /\ UNCHANGED <<conn, session, audit, disk>>

---------------------------------------------------------------------------
(* Steady state *)

\* session.launch, or a session.start that names a provider: the request is
\* written down after the session was created, unless that has thrown.
launch ==
  /\ session = "none"
  /\ session' = "running"
  /\ \/ audit' \in Recorded(Written(audit, Listeners # {})) /\ Tell("running")
     \/ audit' \in Unwritten(audit) /\ Miss
  /\ UNCHANGED <<disk, catalog>>

\* session.start of the mock agent, which is no request worth writing down.
startMock == session = "none" /\ emit("running") /\ UNCHANGED <<disk, catalog>>

\* A launch that is refused: the request is written down, then the refusal.
refuse ==
  /\ audit' \in Unwritten(audit) \cup Recorded(Written(audit, Listeners # {}))
  /\ UNCHANGED <<conn, session, disk, catalog>>

decide == session = "waiting" /\ emit("running") /\ UNCHANGED <<disk, catalog>>

\* session.stop is written down even if there was nothing to stop.
stop == audit' \in Recorded(audit) /\ UNCHANGED <<conn, session, disk, catalog>>

projectsRequest(k) ==
  catalog' = refresh(k) /\ UNCHANGED <<conn, session, audit, disk>>

projectCreate(k) ==
  /\ disk < MaxDisk
  /\ disk' = disk + 1
  /\ catalog' = [refresh(k) EXCEPT !.fresh = FALSE]
  /\ UNCHANGED <<conn, session, audit>>

\* A repeated client.hello with another token. If recordAuthFailed throws, the
\* catch of dispatch answers internal_error and the connection stays open.
helloAgain(k) ==
  /\ \/ audit' = Written(audit, Listeners # {}) /\ Shut(k)
     \/ audit' \in Unwritten(audit) /\ UNCHANGED conn
  /\ UNCHANGED <<session, disk, catalog>>

\* Frames are still dispatched while the socket is closing.
dispatch(k) ==
  /\ conn[k].listening
  /\ \/ launch \/ startMock \/ refuse \/ decide \/ stop
     \/ projectsRequest(k) \/ projectCreate(k) \/ helloAgain(k)

\* The provider asks for an approval, has it timed out, or ends.
SessionEvent ==
  /\ \/ session = "running" /\ emit("waiting")
     \/ session = "waiting" /\ emit("running")
     \/ session \in {"running", "waiting"} /\ emit("ended")
  /\ UNCHANGED <<disk, catalog>>

Gone(k) == conn' = [conn EXCEPT ![k] = Closed]

ClientClose(k) ==
  /\ conn[k].phase \in {"hello", "steady", "closing"}
  /\ Gone(k)
  /\ catalog' = [catalog EXCEPT !.builds = {[b EXCEPT !.for = @ \ {k}] : b \in @}]
  /\ UNCHANGED <<session, audit, disk>>

\* The host dies, perhaps in the middle of an append, and is started again.
Crash ==
  /\ conn' = [k \in Conn |-> Closed]
  /\ session' = "none"
  /\ audit' \in {audit} \cup Unwritten(audit)
  /\ catalog' = EmptyCatalog
  /\ UNCHANGED disk

\* The command line writes a revocation down in the same file.
CliRecords ==
  /\ audit' \in {Written(audit, FALSE)} \cup Unwritten(audit)
  /\ UNCHANGED <<conn, session, disk, catalog>>

Next ==
  \/ \E k \in Conn : Connect(k) \/ Hello(k) \/ HelloTimeout(k) \/ dispatch(k) \/ ClientClose(k)
  \/ RestRefused \/ RestProjects \/ SessionEvent \/ BuildDone \/ CacheExpires
  \/ DiskChanges \/ CliRecords \/ Crash

\* The event loop runs expired timers and resolved promises before new input.
Fairness == WF_vars(BuildDone) /\ \A k \in Conn : WF_vars(HelloTimeout(k))

Spec == Init /\ [][Next]_vars /\ Fairness

---------------------------------------------------------------------------
(* Properties *)

\* A connected phone has the session as the store has it, whenever it came in
\* and whatever it waits for, unless an append to the audit log has failed
\* since; and a socket that is gone is no longer sent anything
\* (handleConnection, emit).
PhoneInStep ==
  \A k \in Conn :
    /\ conn[k].phase = "steady" /\ ~conn[k].missed => conn[k].view = session
    /\ conn[k].phase = "none" => ~conn[k].listening

\* An append that fails half-way costs one event at most that the phones were
\* told of: never are phones told of more that the log does not have.
AuditLossBounded == audit.lost + (IF audit.torn THEN 1 ELSE 0) <= audit.faults

\* Project listings reach a phone in the order in which they were read,
\* although the first one is awaited while the phone asks for others.
ProjectsNeverGoBack ==
  [][\A k \in Conn : conn[k].phase = "steady" /\ conn[k]'.phase = "steady"
                       => conn[k]'.projects >= conn[k].projects]_vars

\* No connection stays half-way: it is let in and gets all its snapshots, or
\* it is closed.
ConnectionsSettle ==
  \A k \in Conn :
    conn[k].phase # "none" ~> \/ conn[k].phase \in {"none", "closing"}
                              \/ conn[k].phase = "steady" /\ conn[k].projects # NoVersion
=============================================================================
