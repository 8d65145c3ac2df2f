------------------------- MODULE WsConnectionProofs -------------------------
(***************************************************************************)
(* Proofs about WsConnection, for every number of sockets, every number of *)
(* changes on disk and every number of failing appends: type correctness,  *)
(* the two safety invariants its run checks, and the order of the project  *)
(* listings.                                                               *)
(***************************************************************************)
EXTENDS WsConnection, TLAPS

USE ConnectionAssumption DEF NoVersion

(* The parts of the inductive invariant. Listeners are added in the step   *)
(* that lets a connection in, so a steady one always hears; listings are   *)
(* read by one refresh at a time, and whatever is known of the projects is *)
(* not newer than what that refresh will read.                             *)
Steady(c) == c.phase = "steady" => c.listening /\ (~c.missed => c.view = session)
Quiet(c) == c.phase = "none" => ~c.listening
ConnInv == \A k \in Conn : Steady(conn[k]) /\ Quiet(conn[k])

Sound(log) == log \in AuditLog /\ log.lost + (IF log.torn THEN 1 ELSE 0) <= log.faults

OneRefresh == \A b, d \in catalog.builds : b = d
Knows(v) == v <= disk /\ \A b \in catalog.builds : v <= b.from
CatalogInv ==
  /\ OneRefresh
  /\ \A b \in catalog.builds : b.from <= disk
  /\ Knows(catalog.cache)
  /\ \A k \in Conn : Knows(conn[k].projects)

IInv == TypeOK /\ ConnInv /\ Sound(audit) /\ CatalogInv

-----------------------------------------------------------------------------
(* The audit log: every append keeps the losses within the faults.         *)

LEMMA WrittenSound ==
  ASSUME NEW log, Sound(log), NEW heard \in BOOLEAN
  PROVE  Sound(Written(log, heard))
<1> DEFINE next == Written(log, heard)
<1>1. /\ log.lost \in Nat /\ log.faults \in 0..MaxFaults /\ log.torn \in BOOLEAN
      /\ log.lost <= log.faults /\ (log.torn => log.lost + 1 <= log.faults)
  BY DEF Sound, AuditLog
<1>2. /\ next = [log EXCEPT !.torn = FALSE, !.lost = next.lost]
      /\ next.lost \in {log.lost, log.lost + 1} /\ (next.lost # log.lost => log.torn)
      /\ ~next.torn /\ next.faults = log.faults
  BY DEF Written, Sound, AuditLog
<1> HIDE DEF next
<1>3. next \in AuditLog
  <2>1. log \in AuditLog /\ next.lost \in Nat
    BY <1>1, <1>2 DEF Sound
  <2>2. QED
    BY <1>2, <2>1 DEF AuditLog
<1>4. next.lost <= next.faults
  BY <1>1, <1>2
<1>5. QED
  BY <1>1, <1>2, <1>3, <1>4 DEF Sound, next

LEMMA UnwrittenSound ==
  ASSUME NEW log, Sound(log), NEW next \in Unwritten(log)
  PROVE  Sound(next)
<1>1. PICK t \in BOOLEAN : next = [log EXCEPT !.torn = t, !.faults = @ + 1]
  BY DEF Unwritten, Sound, AuditLog
<1>2. log.faults < MaxFaults
  BY DEF Unwritten
<1>3. /\ log.lost \in Nat /\ log.faults \in 0..MaxFaults /\ log.lost <= log.faults
  BY DEF Sound, AuditLog
<1>4. log \in AuditLog /\ log.faults + 1 \in 0..MaxFaults
  BY <1>2, <1>3 DEF Sound
<1>5. /\ next \in AuditLog /\ next.lost = log.lost /\ next.faults = log.faults + 1
      /\ next.torn = t
  BY <1>1, <1>4 DEF AuditLog
<1>6. QED
  BY <1>3, <1>5 DEF Sound

LEMMA RecordedSound ==
  ASSUME NEW log, Sound(log), NEW next \in Recorded(log)
  PROVE  Sound(next)
BY WrittenSound, UnwrittenSound DEF Recorded

-----------------------------------------------------------------------------
LEMMA InitInv == Init => IInv
<1> SUFFICES ASSUME Init PROVE IInv
  OBVIOUS
<1>1. TypeOK
  BY DEF Init, TypeOK, Closed, Connection, Status, AuditLog, Version, Catalog, EmptyCatalog
<1>2. ConnInv
  BY DEF Init, ConnInv, Steady, Quiet, Closed
<1>3. Sound(audit)
  BY DEF Init, Sound, AuditLog
<1>4. CatalogInv
  BY DEF Init, CatalogInv, OneRefresh, Knows, Closed, EmptyCatalog
<1>5. QED
  BY <1>1, <1>2, <1>3, <1>4 DEF IInv

-----------------------------------------------------------------------------
(* Steps that leave the catalog and the disk alone, and of each connection *)
(* the projects.                                                           *)
LEMMA CatalogKept ==
  ASSUME CatalogInv, UNCHANGED <<disk, catalog>>,
         \A k \in Conn : conn'[k].projects \in {conn[k].projects, NoVersion},
         disk \in Nat, \A b \in catalog.builds : b.from \in Nat
  PROVE  CatalogInv'
BY DEF CatalogInv, OneRefresh, Knows

(* A session event: the phones are told, or have missed it.                *)
LEMMA ToldFacts ==
  ASSUME IInv, NEW next \in Status, session' = next, Tell(next) \/ Miss
  PROVE  /\ conn' \in [Conn -> Connection]
         /\ ConnInv'
         /\ \A k \in Conn : conn'[k].projects = conn[k].projects
<1>1. ASSUME NEW k \in Conn
      PROVE  /\ conn'[k] \in Connection /\ Steady(conn[k])' /\ Quiet(conn[k])'
             /\ conn'[k].projects = conn[k].projects
  <2>1. conn[k] \in Connection /\ Steady(conn[k]) /\ Quiet(conn[k])
    BY DEF IInv, TypeOK, ConnInv
  <2>2. CASE k \in Listeners
    <3>1. \/ conn'[k] = [conn[k] EXCEPT !.view = next]
          \/ conn'[k] = [conn[k] EXCEPT !.missed = TRUE]
      BY <2>2 DEF Tell, Miss
    <3>2. QED
      BY <2>1, <2>2, <3>1 DEF Listeners, Steady, Quiet, Connection
  <2>3. CASE k \notin Listeners
    <3>1. conn'[k] = conn[k] /\ conn[k].phase # "steady"
      BY <2>1, <2>3 DEF Tell, Miss, Listeners, Steady
    <3>2. QED
      BY <2>1, <3>1 DEF Steady, Quiet
  <2>4. QED
    BY <2>2, <2>3
<1>2. conn' = [k \in Conn |-> conn'[k]]
  BY DEF Tell, Miss
<1>3. QED
  BY <1>1, <1>2 DEF ConnInv

LEMMA SessionStep ==
  ASSUME IInv, NEW next \in Status, session' = next, Tell(next) \/ Miss,
         Sound(audit'), UNCHANGED <<disk, catalog>>
  PROVE  IInv'
<1>1. /\ conn' \in [Conn -> Connection] /\ ConnInv'
      /\ \A k \in Conn : conn'[k].projects = conn[k].projects
  BY ToldFacts
<1>2. TypeOK'
  BY <1>1 DEF IInv, TypeOK, Sound
<1>3. CatalogInv'
  BY <1>1 DEF IInv, CatalogInv, OneRefresh, Knows
<1>4. Sound(audit)'
  BY DEF Sound
<1>5. QED
  BY <1>1, <1>2, <1>3, <1>4 DEF IInv

LEMMA EmitStep ==
  ASSUME IInv, NEW next \in Status, emit(next), UNCHANGED <<disk, catalog>>
  PROVE  IInv'
<1>1. Sound(audit') /\ session' = next /\ (Tell(next) \/ Miss)
  BY WrittenSound, UnwrittenSound DEF emit, IInv
<1>2. QED
  BY <1>1, SessionStep

(* A step of the audit log alone.                                          *)
LEMMA AuditStep ==
  ASSUME IInv, Sound(audit'), UNCHANGED <<conn, session, disk, catalog>>
  PROVE  IInv'
<1>1. TypeOK' /\ ConnInv' /\ CatalogInv' /\ Sound(audit)'
  BY DEF IInv, TypeOK, ConnInv, Steady, Quiet, CatalogInv, OneRefresh, Knows, Sound
<1>2. QED
  BY <1>1 DEF IInv

-----------------------------------------------------------------------------
(* The catalog: a refresh is joined, started, or loses one who waits for   *)
(* it; a refresh reads the folders as they are now or were when it began.  *)
Derived(next) ==
  /\ next \in Catalog
  /\ next.cache = catalog.cache
  /\ \A b, d \in next.builds : b = d
  /\ \A b \in next.builds : b.from = disk \/ \E d \in catalog.builds : b.from = d.from

LEMMA Unchanged == IInv => Derived(catalog)
BY DEF IInv, TypeOK, CatalogInv, OneRefresh, Derived

LEMMA RebuiltDerived ==
  ASSUME IInv, NEW builds \in SUBSET Build, NEW fresh \in BOOLEAN, NEW next,
         next = [catalog EXCEPT !.builds = builds, !.fresh = fresh],
         \A b, d \in builds : b = d,
         \A b \in builds : b.from = disk \/ \E d \in catalog.builds : b.from = d.from
  PROVE  Derived(next)
<1>1. catalog \in Catalog
  BY DEF IInv, TypeOK
<1>2. next \in Catalog /\ next.cache = catalog.cache /\ next.builds = builds
  BY <1>1 DEF Catalog
<1>3. QED
  BY <1>2 DEF Derived

(* The builds that a call of snapshot leaves for whoever is in "who".      *)
Joined(who) ==
  IF catalog.builds = {} THEN {[from |-> disk, for |-> who]}
  ELSE {[b EXCEPT !.for = @ \cup who] : b \in catalog.builds}

LEMMA JoinedFacts ==
  ASSUME IInv, NEW who \in SUBSET Conn
  PROVE  /\ Joined(who) \in SUBSET Build
         /\ \A b, d \in Joined(who) : b = d
         /\ \A b \in Joined(who) : b.from = disk \/ \E d \in catalog.builds : b.from = d.from
<1>1. catalog.builds \subseteq Build /\ disk \in Version /\ OneRefresh
  BY DEF IInv, TypeOK, Catalog, CatalogInv
<1>2. CASE catalog.builds = {}
  BY <1>1, <1>2 DEF Joined, Build
<1>3. CASE catalog.builds # {}
  <2>1. ASSUME NEW b \in catalog.builds
        PROVE  /\ [b EXCEPT !.for = @ \cup who] \in Build
               /\ [b EXCEPT !.for = @ \cup who].from = b.from
    BY <1>1 DEF Build
  <2>2. \A b, d \in Joined(who) : b = d
    BY <1>1, <1>3 DEF Joined, OneRefresh
  <2>3. QED
    BY <1>3, <2>1, <2>2 DEF Joined
<1>4. QED
  BY <1>2, <1>3

LEMMA RefreshDerived ==
  ASSUME IInv, NEW k \in Conn
  PROVE  Derived(refresh(k)) /\ Derived([refresh(k) EXCEPT !.fresh = FALSE])
<1>1. refresh(k) = [catalog EXCEPT !.builds = Joined({k})]
  BY DEF refresh, Joined
<1>2. catalog \in Catalog /\ catalog.fresh \in BOOLEAN
  BY DEF IInv, TypeOK, Catalog
<1>3. /\ refresh(k) = [catalog EXCEPT !.builds = Joined({k}), !.fresh = catalog.fresh]
      /\ [refresh(k) EXCEPT !.fresh = FALSE]
           = [catalog EXCEPT !.builds = Joined({k}), !.fresh = FALSE]
  BY <1>1, <1>2 DEF Catalog
<1>4. {k} \in SUBSET Conn
  OBVIOUS
<1>5. PICK builds \in SUBSET Build :
        /\ builds = Joined({k})
        /\ \A b, d \in builds : b = d
        /\ \A b \in builds : b.from = disk \/ \E d \in catalog.builds : b.from = d.from
  BY <1>4, JoinedFacts
<1>6. Derived(refresh(k))
  BY <1>2, <1>3, <1>5, RebuiltDerived
<1>7. Derived([refresh(k) EXCEPT !.fresh = FALSE])
  BY <1>3, <1>5, RebuiltDerived
<1>8. QED
  BY <1>6, <1>7

(* Whatever was known before is known with the new catalog, and the cached *)
(* version is.                                                             *)
LEMMA DerivedInv ==
  ASSUME IInv, Derived(catalog'), disk' \in Version, disk <= disk',
         \A k \in Conn : conn'[k].projects \in {conn[k].projects, NoVersion, catalog.cache}
  PROVE  CatalogInv'
<1>1. /\ disk \in Nat /\ disk' \in Nat
      /\ \A b \in catalog.builds : b.from \in Nat
      /\ catalog.cache \in Nat
      /\ \A k \in Conn : conn[k].projects \in Int
  BY DEF IInv, TypeOK, Catalog, Build, Version, Connection
<1>2. ASSUME NEW b \in catalog'.builds
      PROVE  b.from \in Nat /\ b.from <= disk /\ b.from <= disk'
  BY <1>1, <1>2 DEF Derived, IInv, CatalogInv
<1>3. ASSUME NEW v \in Int, Knows(v)
      PROVE  v <= disk' /\ \A b \in catalog'.builds : v <= b.from
  BY <1>1, <1>2, <1>3 DEF Derived, Knows
<1>4. Knows(-1)
  BY <1>1 DEF Knows
<1>5. \A k \in Conn : conn'[k].projects \in Int /\ Knows(conn'[k].projects)
  BY <1>1, <1>4 DEF IInv, CatalogInv
<1>6. catalog'.cache \in Int /\ Knows(catalog'.cache)
  BY <1>1 DEF IInv, CatalogInv, Derived
<1>7. \A k \in Conn : Knows(conn[k].projects)'
  BY <1>3, <1>5 DEF Knows
<1>8. Knows(catalog.cache)'
  BY <1>3, <1>6 DEF Knows
<1>9. OneRefresh'
  BY DEF OneRefresh, Derived
<1>10. QED
  BY <1>2, <1>7, <1>8, <1>9 DEF CatalogInv

-----------------------------------------------------------------------------
(* Steps of one connection.                                                *)

LEMMA ConnStep ==
  ASSUME IInv, NEW k \in Conn, NEW c \in Connection,
         conn' = [conn EXCEPT ![k] = c], Steady(c), Quiet(c),
         c.projects \in {conn[k].projects, NoVersion, catalog.cache},
         session' = session, disk' = disk, Sound(audit'), Derived(catalog')
  PROVE  IInv'
<1>1. conn \in [Conn -> Connection] /\ ConnInv
  BY DEF IInv, TypeOK
<1>2. conn' \in [Conn -> Connection] /\ conn'[k] = c
      /\ \A j \in Conn \ {k} : conn'[j] = conn[j]
  BY <1>1
<1>3. TypeOK'
  BY <1>2 DEF IInv, TypeOK, Sound, Derived
<1>4. ConnInv'
  BY <1>1, <1>2 DEF ConnInv, Steady, Quiet
<1>5. disk' \in Version /\ disk <= disk'
  BY DEF IInv, TypeOK, Version
<1>6. CatalogInv'
  BY <1>2, <1>5, DerivedInv
<1>7. QED
  BY <1>3, <1>4, <1>6 DEF IInv, Sound

LEMMA GreetStep ==
  ASSUME IInv, NEW k \in Conn, Greet(k), UNCHANGED <<session, audit, disk>>
  PROVE  IInv'
<1> DEFINE c == [phase |-> "steady", listening |-> TRUE, view |-> session, missed |-> FALSE,
                 projects |-> IF catalog.fresh THEN catalog.cache ELSE NoVersion]
<1>1. conn' = [conn EXCEPT ![k] = c]
  BY DEF Greet
<1>2. c \in Connection /\ Steady(c) /\ Quiet(c) /\ c.projects \in {NoVersion, catalog.cache}
  BY DEF IInv, TypeOK, Connection, Catalog, Steady, Quiet
<1>3. Derived(catalog')
  BY RefreshDerived, Unchanged DEF Greet
<1>4. Sound(audit')
  BY DEF IInv
<1> HIDE DEF c
<1>5. QED
  BY <1>1, <1>2, <1>3, <1>4, ConnStep

(* A connection moves to a phase in which nothing is expected of it.       *)
LEMMA PhaseStep ==
  ASSUME IInv, NEW k \in Conn, NEW phase \in {"hello", "closing"},
         conn' = [conn EXCEPT ![k].phase = phase],
         Sound(audit'), UNCHANGED <<session, disk, catalog>>
  PROVE  IInv'
<1> DEFINE c == [conn[k] EXCEPT !.phase = phase]
<1>1. conn[k] \in Connection
  BY DEF IInv, TypeOK
<1>2. /\ c \in Connection /\ c.phase = phase /\ c.projects = conn[k].projects
  BY <1>1 DEF Connection
<1>3. Steady(c) /\ Quiet(c)
  BY <1>2 DEF Steady, Quiet
<1>4. conn' = [conn EXCEPT ![k] = c]
  BY DEF IInv, TypeOK
<1>5. Derived(catalog')
  BY Unchanged
<1> HIDE DEF c
<1>6. QED
  BY <1>2, <1>3, <1>4, <1>5, ConnStep

LEMMA GoneStep ==
  ASSUME IInv, NEW k \in Conn, ClientClose(k)
  PROVE  IInv'
<1> DEFINE builds == {[b EXCEPT !.for = @ \ {k}] : b \in catalog.builds}
<1>1. /\ conn' = [conn EXCEPT ![k] = Closed]
      /\ catalog' = [catalog EXCEPT !.builds = builds]
      /\ UNCHANGED <<session, audit, disk>>
  BY DEF ClientClose, Gone
<1>2. Closed \in Connection /\ Steady(Closed) /\ Quiet(Closed) /\ Closed.projects = NoVersion
  BY DEF Closed, Connection, Status, Version, Steady, Quiet
<1>3. catalog \in Catalog /\ catalog.builds \subseteq Build /\ OneRefresh
  BY DEF IInv, TypeOK, Catalog, CatalogInv
<1>4. ASSUME NEW b \in catalog.builds
      PROVE  /\ [b EXCEPT !.for = @ \ {k}] \in Build
             /\ [b EXCEPT !.for = @ \ {k}].from = b.from
  BY <1>3 DEF Build
<1>5. /\ builds \in SUBSET Build /\ \A b, d \in builds : b = d
      /\ \A b \in builds : \E d \in catalog.builds : b.from = d.from
  BY <1>3, <1>4 DEF OneRefresh
<1>6. catalog' = [catalog EXCEPT !.builds = builds, !.fresh = catalog.fresh]
      /\ catalog.fresh \in BOOLEAN
  BY <1>1, <1>3 DEF Catalog
<1> HIDE DEF builds
<1>7. Derived(catalog')
  BY <1>5, <1>6, RebuiltDerived
<1>8. Sound(audit')
  BY <1>1 DEF IInv
<1>9. QED
  BY <1>1, <1>2, <1>7, <1>8, ConnStep

-----------------------------------------------------------------------------
(* Steps of the catalog and the folders.                                   *)

(* The version that a refresh has read is not older than what was known,   *)
(* and it was the only refresh.                                            *)
LEMMA BuildDoneFacts ==
  ASSUME IInv, BuildDone
  PROVE  /\ IInv'
         /\ \A k \in Conn : conn'[k].projects >= conn[k].projects
<1>0. PICK b \in catalog.builds : \E v \in b.from..disk :
        /\ catalog' = [cache |-> v, fresh |-> TRUE, builds |-> catalog.builds \ {b}]
        /\ conn' = [k \in Conn |->
             IF k \in b.for /\ conn[k].phase = "steady"
             THEN [conn[k] EXCEPT !.projects = v] ELSE conn[k]]
        /\ UNCHANGED <<session, audit, disk>>
  BY DEF BuildDone
<1>1. PICK v \in b.from..disk :
        /\ catalog' = [cache |-> v, fresh |-> TRUE, builds |-> catalog.builds \ {b}]
        /\ conn' = [k \in Conn |->
             IF k \in b.for /\ conn[k].phase = "steady"
             THEN [conn[k] EXCEPT !.projects = v] ELSE conn[k]]
        /\ UNCHANGED <<session, audit, disk>>
  BY <1>0
<1>2. /\ catalog.builds \subseteq Build /\ OneRefresh /\ disk \in Version
      /\ conn \in [Conn -> Connection] /\ ConnInv
  BY DEF IInv, TypeOK, Catalog, CatalogInv
<1>3. catalog'.builds = {} /\ catalog'.cache = v
  BY <1>1, <1>2 DEF OneRefresh
<1>4. v \in Version /\ v <= disk /\ b.from <= v /\ b.from \in Version
  BY <1>1, <1>2 DEF Build, Version
<1>5. ASSUME NEW k \in Conn
      PROVE  /\ conn'[k] \in Connection
             /\ conn'[k].projects \in {conn[k].projects, v}
             /\ conn'[k].phase = conn[k].phase /\ conn'[k].listening = conn[k].listening
             /\ conn'[k].missed = conn[k].missed /\ conn'[k].view = conn[k].view
  BY <1>1, <1>2, <1>4 DEF Connection
<1>6. \A k \in Conn : conn[k].projects <= b.from /\ conn[k].projects <= disk
                     /\ conn[k].projects \in Int
  BY <1>1, <1>2 DEF IInv, CatalogInv, Knows, Connection, Version
<1>7. TypeOK'
  <2>1. catalog' \in Catalog
    BY <1>1, <1>3, <1>4 DEF Catalog
  <2>2. conn' \in [Conn -> Connection]
    BY <1>1, <1>5
  <2>3. QED
    BY <1>1, <2>1, <2>2 DEF IInv, TypeOK
<1>8. ConnInv'
  BY <1>1, <1>2, <1>5 DEF ConnInv, Steady, Quiet
<1>9. CatalogInv'
  BY <1>1, <1>3, <1>4, <1>5, <1>6 DEF CatalogInv, OneRefresh, Knows
<1>10. \A k \in Conn : conn'[k].projects >= conn[k].projects
  BY <1>4, <1>5, <1>6 DEF Version
<1>11. QED
  BY <1>1, <1>7, <1>8, <1>9, <1>10 DEF IInv, Sound

LEMMA CatalogStep ==
  ASSUME IInv, UNCHANGED <<conn, session, audit>>, disk' \in Version, disk <= disk',
         Derived(catalog')
  PROVE  IInv'
<1>1. CatalogInv'
  BY DerivedInv
<1>2. TypeOK' /\ ConnInv' /\ Sound(audit)'
  BY DEF IInv, TypeOK, ConnInv, Steady, Quiet, Derived, Sound
<1>3. QED
  BY <1>1, <1>2 DEF IInv

LEMMA RestProjectsStep == ASSUME IInv, RestProjects PROVE IInv'
<1>1. /\ catalog' = [catalog EXCEPT !.builds = IF @ = {} THEN {[from |-> disk, for |-> {}]} ELSE @]
      /\ UNCHANGED <<conn, session, audit, disk>>
  BY DEF RestProjects
<1>2. catalog \in Catalog /\ OneRefresh /\ disk \in Version
  BY DEF IInv, TypeOK, CatalogInv
<1>3. CASE catalog.builds # {}
  <2>1. catalog' = catalog
    BY <1>1, <1>2, <1>3 DEF Catalog
  <2>2. QED
    BY <1>1, <1>2, <2>1, Unchanged, CatalogStep DEF Version
<1>4. CASE catalog.builds = {}
  <2> DEFINE builds == {[from |-> disk, for |-> {}]}
  <2>1. catalog' = [catalog EXCEPT !.builds = builds, !.fresh = catalog.fresh]
        /\ catalog.fresh \in BOOLEAN
    BY <1>1, <1>2, <1>4 DEF Catalog
  <2>2. builds \in SUBSET Build /\ (\A b, d \in builds : b = d) /\ \A b \in builds : b.from = disk
    BY <1>2 DEF Build
  <2> HIDE DEF builds
  <2>3. Derived(catalog')
    BY <2>1, <2>2, RebuiltDerived
  <2>4. QED
    BY <1>1, <1>2, <2>3, CatalogStep DEF Version
<1>5. QED
  BY <1>3, <1>4

LEMMA CacheExpiresStep == ASSUME IInv, CacheExpires PROVE IInv'
<1>1. /\ catalog' = [catalog EXCEPT !.fresh = FALSE]
      /\ UNCHANGED <<conn, session, audit, disk>>
  BY DEF CacheExpires
<1>2. catalog \in Catalog /\ OneRefresh /\ disk \in Version
  BY DEF IInv, TypeOK, CatalogInv
<1>3. catalog' \in Catalog /\ catalog'.cache = catalog.cache /\ catalog'.builds = catalog.builds
  BY <1>1, <1>2 DEF Catalog
<1>4. Derived(catalog')
  BY <1>2, <1>3 DEF Derived, OneRefresh
<1>5. QED
  BY <1>1, <1>2, <1>4, CatalogStep DEF Version

LEMMA DiskChangesStep == ASSUME IInv, DiskChanges PROVE IInv'
<1>1. disk \in Version /\ disk < MaxDisk /\ disk' = disk + 1
      /\ UNCHANGED <<conn, session, audit, catalog>>
  BY DEF DiskChanges, IInv, TypeOK
<1>2. disk' \in Version /\ disk <= disk'
  BY <1>1 DEF Version
<1>3. QED
  BY <1>1, <1>2, Unchanged, CatalogStep

LEMMA CrashStep == ASSUME IInv, Crash PROVE IInv'
<1>1. /\ conn' = [k \in Conn |-> Closed] /\ session' = "none" /\ disk' = disk
      /\ catalog' = EmptyCatalog /\ audit' \in {audit} \cup Unwritten(audit)
  BY DEF Crash
<1>2. Sound(audit')
  BY <1>1, UnwrittenSound DEF IInv
<1>3. Closed \in Connection /\ Steady(Closed)' /\ Quiet(Closed) /\ Closed.projects = NoVersion
  BY DEF Closed, Connection, Status, Version, Steady, Quiet
<1>4. EmptyCatalog \in Catalog /\ EmptyCatalog.cache = 0 /\ EmptyCatalog.builds = {}
  BY DEF EmptyCatalog, Catalog, Version
<1>5. disk \in Version
  BY DEF IInv, TypeOK
<1>6. TypeOK'
  BY <1>1, <1>2, <1>3, <1>4, <1>5 DEF TypeOK, Status, Sound
<1>7. ConnInv'
  BY <1>1, <1>3 DEF ConnInv, Steady, Quiet, Closed
<1>8. CatalogInv'
  BY <1>1, <1>3, <1>4, <1>5 DEF CatalogInv, OneRefresh, Knows, Version
<1>9. QED
  BY <1>2, <1>6, <1>7, <1>8 DEF IInv, Sound

-----------------------------------------------------------------------------
(* The handshake and the commands.                                         *)

LEMMA PresentStep ==
  ASSUME IInv, NEW k \in Conn, Present(k)
  PROVE  IInv'
<1>1. CASE Greet(k) /\ UNCHANGED <<session, audit, disk>>
  BY <1>1, GreetStep
<1>2. CASE Shut(k) /\ audit' \in Recorded(audit) /\ UNCHANGED <<session, disk, catalog>>
  BY <1>2, RecordedSound, PhaseStep DEF Shut, IInv
<1>3. CASE Shut(k) /\ UNCHANGED <<session, audit, disk, catalog>>
  BY <1>3, PhaseStep DEF Shut, IInv
<1>4. QED
  BY <1>1, <1>2, <1>3 DEF Present

LEMMA HandshakeStep ==
  ASSUME IInv, NEW k \in Conn, Connect(k) \/ Hello(k) \/ HelloTimeout(k)
  PROVE  IInv'
<1>1. CASE Present(k)
  BY <1>1, PresentStep
<1>2. CASE conn' = [conn EXCEPT ![k].phase = "hello"] /\ UNCHANGED <<session, audit, disk, catalog>>
  BY <1>2, PhaseStep DEF IInv
<1>3. CASE HelloTimeout(k)
  BY <1>3, PhaseStep DEF HelloTimeout, Shut, IInv
<1>4. QED
  BY <1>1, <1>2, <1>3 DEF Connect, Hello

LEMMA WrittenTwice ==
  ASSUME IInv, NEW heard \in BOOLEAN
  PROVE  /\ Sound(Written(audit, heard))
         /\ \A next \in Unwritten(audit) \cup Recorded(Written(audit, heard))
                          \cup Recorded(audit) : Sound(next)
<1>1. Sound(audit)
  BY DEF IInv
<1>2. Sound(Written(audit, heard))
  BY <1>1, WrittenSound
<1>3. QED
  BY <1>1, <1>2, UnwrittenSound, RecordedSound

LEMMA dispatchStep ==
  ASSUME IInv, NEW k \in Conn, dispatch(k)
  PROVE  IInv'
<1> DEFINE heard == Listeners # {}
<1>1. heard \in BOOLEAN /\ {"running", "waiting", "ended"} \subseteq Status
  BY DEF Status
<1>2. CASE launch
  <2>1. Sound(audit') /\ (Tell("running") \/ Miss)
    BY <1>1, <1>2, WrittenTwice DEF launch
  <2>2. QED
    BY <1>1, <1>2, <2>1, SessionStep DEF launch
<1>3. CASE startMock
  BY <1>1, <1>3, EmitStep DEF startMock
<1>4. CASE refuse
  BY <1>1, <1>4, WrittenTwice, AuditStep DEF refuse
<1>5. CASE decide
  BY <1>1, <1>5, EmitStep DEF decide
<1>6. CASE stop
  BY <1>1, <1>6, WrittenTwice, AuditStep DEF stop
<1>7. CASE projectsRequest(k)
  <2>1. disk \in Version /\ disk <= disk
    BY DEF IInv, TypeOK, Version
  <2>2. QED
    BY <1>7, <2>1, RefreshDerived, CatalogStep DEF projectsRequest
<1>8. CASE projectCreate(k)
  <2>1. disk' \in Version /\ disk <= disk'
    BY <1>8 DEF projectCreate, IInv, TypeOK, Version
  <2>2. QED
    BY <1>8, <2>1, RefreshDerived, CatalogStep DEF projectCreate
<1>9. CASE helloAgain(k)
  <2>1. Sound(audit')
    BY <1>1, <1>9, WrittenTwice DEF helloAgain
  <2>2. QED
    BY <1>9, <2>1, PhaseStep, AuditStep DEF helloAgain, Shut
<1>10. QED
  BY <1>2, <1>3, <1>4, <1>5, <1>6, <1>7, <1>8, <1>9 DEF dispatch

LEMMA SessionEventStep == ASSUME IInv, SessionEvent PROVE IInv'
<1>1. {"running", "waiting", "ended"} \subseteq Status
  BY DEF Status
<1>2. QED
  BY <1>1, EmitStep DEF SessionEvent

LEMMA OutsideStep == ASSUME IInv, RestRefused \/ CliRecords PROVE IInv'
<1>1. Sound(audit')
  BY WrittenSound, UnwrittenSound, RecordedSound DEF IInv, RestRefused, CliRecords
<1>2. QED
  BY <1>1, AuditStep DEF RestRefused, CliRecords

-----------------------------------------------------------------------------
LEMMA StepInv == IInv /\ [Next]_vars => IInv'
<1> SUFFICES ASSUME IInv, [Next]_vars PROVE IInv'
  OBVIOUS
<1>1. ASSUME NEW k \in Conn,
             Connect(k) \/ Hello(k) \/ HelloTimeout(k) \/ dispatch(k) \/ ClientClose(k)
      PROVE  IInv'
  BY <1>1, HandshakeStep, dispatchStep, GoneStep
<1>2. CASE UNCHANGED vars
  BY <1>2 DEF vars, IInv, TypeOK, ConnInv, Steady, Quiet, CatalogInv, OneRefresh, Knows, Sound
<1>3. QED
  BY <1>1, <1>2, OutsideStep, RestProjectsStep, SessionEventStep, BuildDoneFacts,
     CacheExpiresStep, DiskChangesStep, CrashStep DEF Next

(* Initially, and across every step, the invariant holds.                  *)
THEOREM Invariant == Spec => []IInv
BY InitInv, StepInv, PTL DEF Spec

(* Connections, session, log and catalog have their types.                 *)
THEOREM TypeCorrect == Spec => []TypeOK
<1>1. IInv => TypeOK
  BY DEF IInv
<1>2. QED
  BY <1>1, Invariant, PTL

(* A connected phone has the session as the store has it, unless an append *)
(* to the audit log kept an event from it (handleConnection, emit).        *)
THEOREM InStep == Spec => []PhoneInStep
<1>1. IInv => PhoneInStep
  BY DEF IInv, ConnInv, Steady, Quiet, PhoneInStep
<1>2. QED
  BY <1>1, Invariant, PTL

(* The log lacks no more of what phones were told than appends have failed *)
(* (AuditStore.record, FileAuditPersistence.append).                       *)
THEOREM LossBounded == Spec => []AuditLossBounded
<1>1. IInv => AuditLossBounded
  BY DEF IInv, Sound, AuditLossBounded
<1>2. QED
  BY <1>1, Invariant, PTL

(* No step moves the projects of a connection that stays.                  *)
LEMMA Forward ==
  ASSUME IInv, [Next]_vars, NEW k \in Conn,
         conn[k].phase = "steady", conn'[k].phase = "steady"
  PROVE  conn'[k].projects >= conn[k].projects
<1>1. conn \in [Conn -> Connection] /\ conn[k].projects \in Int
  BY DEF IInv, TypeOK, Connection, Version
<1> DEFINE Kept == conn'[k].projects = conn[k].projects
<1>2. ASSUME Tell("running") \/ Tell("waiting") \/ Tell("ended") \/ Miss
      PROVE  Kept
  BY <1>1, <1>2 DEF Tell, Miss, Connection
<1>3. ASSUME NEW j \in Conn, NEW phase \in {"hello", "closing"},
             conn' = [conn EXCEPT ![j].phase = phase]
      PROVE  Kept
  BY <1>1, <1>3 DEF Connection
<1>4. ASSUME NEW j \in Conn, conn[j].phase # "steady", Present(j)
      PROVE  Kept
  <2>1. CASE Shut(j)
    BY <1>3, <2>1 DEF Shut
  <2>2. CASE Greet(j)
    <3>1. j # k
      BY <1>4
    <3>2. QED
      BY <1>1, <2>2, <3>1 DEF Greet
  <2>3. QED
    BY <1>4, <2>1, <2>2 DEF Present
<1>5. ASSUME NEW j \in Conn, Connect(j) \/ Hello(j) \/ HelloTimeout(j)
      PROVE  Kept
  BY <1>3, <1>4, <1>5 DEF Connect, Hello, HelloTimeout, Shut
<1>6. ASSUME NEW j \in Conn, dispatch(j)
      PROVE  Kept
  BY <1>2, <1>3, <1>6 DEF dispatch, launch, startMock, refuse, decide, stop, emit,
     projectsRequest, projectCreate, helloAgain, Shut
<1>7. ASSUME NEW j \in Conn, ClientClose(j)
      PROVE  Kept
  BY <1>1, <1>7 DEF ClientClose, Gone, Closed
<1>8. CASE BuildDone
  BY <1>8, BuildDoneFacts
<1>9. CASE SessionEvent
  BY <1>1, <1>2, <1>9 DEF SessionEvent, emit
<1>10. CASE Crash
  BY <1>10 DEF Crash, Closed
<1>11. CASE RestRefused \/ RestProjects \/ CacheExpires \/ DiskChanges \/ CliRecords
            \/ UNCHANGED vars
  <2>1. conn' = conn
    BY <1>11 DEF RestRefused, RestProjects, CacheExpires, DiskChanges, CliRecords, vars
  <2>2. QED
    BY <1>1, <2>1
<1>12. QED
  BY <1>1, <1>5, <1>6, <1>7, <1>8, <1>9, <1>10, <1>11 DEF Next

(* Project listings reach a phone in the order in which they were read,    *)
(* because there is one refresh at most and it reads nothing older than    *)
(* what is known when it begins (ProjectCatalog.snapshot).                 *)
THEOREM NeverBack == Spec => ProjectsNeverGoBack
<1>1. IInv /\ [Next]_vars =>
        [\A k \in Conn : conn[k].phase = "steady" /\ conn[k]'.phase = "steady"
                         => conn[k]'.projects >= conn[k].projects]_vars
  BY Forward
<1>2. QED
  BY <1>1, Invariant, PTL DEF Spec, ProjectsNeverGoBack
=============================================================================
