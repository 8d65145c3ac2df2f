--------------------------- MODULE ProjectCatalog ---------------------------
(***************************************************************************)
(* Creation of projects by the phone (src/src/projectCatalog.ts): the      *)
(* directory tree under the approved root, the catalog's memory and its    *)
(* cached listing. createProject runs up to its await without letting any  *)
(* other code of the host run, but the user works in the same root between *)
(* its system calls, and the host may crash between any two of them.       *)
(*                                                                         *)
(* Abstractions. The provider of a request is left out: it is bound,       *)
(* persisted and compared with the name. Only created projects are listed; *)
(* configured and history projects never share their directories here. The *)
(* listing has an await (history discovery is on); without discovery it    *)
(* ends at once. Symbolic links and plain files in the root are absent.    *)
(* Any system call may fail. The user does not remove the directory that   *)
(* is being made in the moments between mkdir and rename.                  *)
(***************************************************************************)
EXTENDS Naturals, FiniteSets

CONSTANTS
  Request,            \* request ids
  Name,               \* normalized project names: children of the root
  Staging,            \* names that mkdtemp may choose; bound
  MaxProjects,        \* config.maxProjects
  MaxCrashes,         \* bound: crashes of the host
  None                \* no request, no name, no directory

ASSUME NamesAreDistinct ==
  /\ Name \cap Staging = {}
  /\ None \notin Request \cup Name \cup Staging
ASSUME LimitAssumption == MaxProjects \in Nat \ {0} /\ MaxCrashes \in Nat

VARIABLES
  dirs,               \* the directories under the root
  marker,             \* the request id in a directory's ownership marker
  theirs, filled,     \* directories the user made; has put files into
  making,             \* createProject between two system calls
  creationRequests,   \* the name a request id is bound to in memory
  listing,            \* created directories in launchTargets and the snapshot
  refreshing,         \* refreshPromise is set,
  captured,           \*   and what its buildSnapshot read
  waiting,            \* the createProject calls that await it
  answered,           \* the answers of the last step
  crashes

disk == <<dirs, marker, theirs, filled>>
memory == <<creationRequests, listing, refreshing, captured, waiting>>
vars == <<disk, making, memory, answered, crashes>>

Directory == Name \cup Staging
Call == [request : Request, name : Name]
Code == {"ok", "request_id_conflict", "project_already_exists",
         "project_limit_reached", "project_creation_failed"}
Answer == [request : Request, name : Name, code : Code]

Making == [step     : {"mark", "reserve", "move", "tidy", "sweep", "release"},
           request  : Request,
           name     : Name,
           stage    : Staging,
           reserved : BOOLEAN]                \* targetCreated
Idle == [step |-> "none"]

TypeOK ==
  /\ dirs \subseteq Directory
  /\ marker \in [Directory -> Request \cup {None}]
  /\ theirs \subseteq Name /\ filled \subseteq Name
  /\ making \in Making \cup {Idle}
  /\ creationRequests \in [Request -> Name \cup {None}]
  /\ listing \subseteq Directory /\ captured \subseteq Directory
  /\ refreshing \in BOOLEAN
  /\ waiting \subseteq Call
  /\ answered \subseteq Answer
  /\ crashes \in 0..MaxCrashes

Init ==
  /\ dirs = {} /\ marker = [d \in Directory |-> None]
  /\ theirs = {} /\ filled = {}
  /\ making = Idle
  /\ creationRequests = [r \in Request |-> None]
  /\ listing = {} /\ refreshing = FALSE /\ captured = {} /\ waiting = {}
  /\ answered = {}
  /\ crashes = 0

-----------------------------------------------------------------------------
isRegisteredCreatedProject(d) == d \in dirs /\ marker[d] # None

(* listCreatedProjects: every marked child of the root. Its cut at         *)
(* maxProjects does nothing as long as LimitRespected holds.               *)
Registered == {d \in Directory : isRegisteredCreatedProject(d)}
Persisted(r) == {d \in Registered : marker[d] = r}

Say(r, n, code) == answered' = {[request |-> r, name |-> n, code |-> code]}

(* snapshot(true): a refresh in flight is joined, whatever it has read.    *)
snapshot(registered) ==
  /\ refreshing' = TRUE
  /\ captured' = IF refreshing THEN captured ELSE registered

(* The end of createProject before its await. The id is bound; the call    *)
(* waits for a listing.                                                    *)
Await(r, n, registered) ==
  /\ creationRequests' = [creationRequests EXCEPT ![r] = n]
  /\ waiting' = waiting \cup {[request |-> r, name |-> n]}
  /\ snapshot(registered)
  /\ UNCHANGED listing

(* An id is bound to one project, in memory and on disk. Slip: the disk is *)
(* not asked.                                                              *)
ConflictsInMemory(r, n) == creationRequests[r] \notin {None, n}
Conflicts(r, n) ==
  creationRequests[r] \notin {None, n} \/ \E d \in Persisted(r) : d # n

(* Slips: an existing project is refused whoever asks; the limit is off by *)
(* one.                                                                    *)
MayAdoptNone(r, n) == FALSE
MayAdopt(r, n) == isRegisteredCreatedProject(n) /\ marker[n] = r
LimitReachedLate == Cardinality(Registered) > MaxProjects
LimitReached == Cardinality(Registered) >= MaxProjects

(* What createProject decides before it touches the disk.                  *)
Refuse(r, n) ==
  /\ \/ Conflicts(r, n) /\ Say(r, n, "request_id_conflict")
     \/ /\ ~Conflicts(r, n) /\ creationRequests[r] = None
        /\ \/ n \in dirs /\ ~MayAdopt(r, n) /\ Say(r, n, "project_already_exists")
           \/ n \notin dirs /\ LimitReached /\ Say(r, n, "project_limit_reached")
  /\ UNCHANGED <<disk, making, memory>>

Retry(r, n) ==
  /\ ~Conflicts(r, n)
  /\ creationRequests[r] = n \/ (n \in dirs /\ MayAdopt(r, n))
  /\ Await(r, n, Registered)
  /\ answered' = {}
  /\ UNCHANGED <<disk, making>>

mkdtemp(r, n) ==
  /\ ~Conflicts(r, n) /\ creationRequests[r] = None
  /\ n \notin dirs /\ ~LimitReached
  /\ \/ \E s \in Staging \ dirs :
          /\ dirs' = dirs \cup {s}
          /\ making' = [step |-> "mark", request |-> r, name |-> n, stage |-> s,
                        reserved |-> FALSE]
          /\ answered' = {}
     \/ /\ Say(r, n, "project_creation_failed")
        /\ UNCHANGED <<dirs, making>>
  /\ UNCHANGED <<marker, theirs, filled, memory>>

CreateProject(r, n) ==
  /\ making = Idle
  /\ Refuse(r, n) \/ Retry(r, n) \/ mkdtemp(r, n)
  /\ UNCHANGED crashes

-----------------------------------------------------------------------------
(* The system calls that follow. A failing one leads to the clean-up.      *)
Step(from) == making.step = from /\ UNCHANGED <<theirs, filled, crashes>>

Fails ==
  /\ making' = [making EXCEPT !.step = "sweep"]
  /\ UNCHANGED <<dirs, marker>>

writeMarker ==
  /\ Step("mark")
  /\ answered' = {} /\ UNCHANGED memory
  /\ \/ /\ marker' = [marker EXCEPT ![making.stage] = making.request]
        /\ making' = [making EXCEPT !.step = "reserve"]
        /\ UNCHANGED dirs
     \/ Fails

(* mkdir is atomic: what the user made meanwhile is not taken over.        *)
mkdir ==
  /\ Step("reserve")
  /\ answered' = {} /\ UNCHANGED memory
  /\ \/ /\ making.name \notin dirs
        /\ dirs' = dirs \cup {making.name}
        /\ making' = [making EXCEPT !.step = "move", !.reserved = TRUE]
        /\ UNCHANGED marker
     \/ Fails

rename ==
  /\ Step("move")
  /\ answered' = {} /\ UNCHANGED memory
  /\ \/ /\ marker' = [marker EXCEPT ![making.stage] = None, ![making.name] = making.request]
        /\ making' = [making EXCEPT !.step = "tidy"]
        /\ UNCHANGED dirs
     \/ Fails

(* The staging directory goes if it can; the project is announced.         *)
rmdirStaging ==
  /\ Step("tidy")
  /\ dirs' \in {dirs, dirs \ {making.stage}}
  /\ Await(making.request, making.name, Registered)
  /\ making' = Idle
  /\ answered' = {}
  /\ UNCHANGED marker

(* The call is answered project_creation_failed.                            *)
Failed == Say(making.request, making.name, "project_creation_failed")

(* Clean-up: the staging directory with all it holds, then the reserved    *)
(* directory if it is still empty. Each may fail.                          *)
rmStaging ==
  /\ Step("sweep")
  /\ \/ /\ dirs' = dirs \ {making.stage}
        /\ marker' = [marker EXCEPT ![making.stage] = None]
     \/ UNCHANGED <<dirs, marker>>
  /\ IF making.reserved
     THEN making' = [making EXCEPT !.step = "release"] /\ answered' = {}
     ELSE making' = Idle /\ Failed
  /\ UNCHANGED memory

(* Slip: rm -r.                                                            *)
rmTarget ==
  /\ Step("release")
  /\ dirs' = dirs \ {making.name}
  /\ making' = Idle /\ Failed
  /\ UNCHANGED <<marker, memory>>
rmdirTarget ==
  /\ Step("release")
  /\ dirs' \in {dirs} \cup {dirs \ {n} : n \in {making.name} \ filled}
  /\ making' = Idle /\ Failed
  /\ UNCHANGED <<marker, memory>>

-----------------------------------------------------------------------------
(* A refresh asked for by a connection or by projects.request.             *)
ProjectsRequest ==
  /\ making = Idle /\ ~refreshing
  /\ snapshot(Registered)
  /\ answered' = {}
  /\ UNCHANGED <<disk, making, creationRequests, listing, waiting, crashes>>

(* buildSnapshot ends: its listing replaces the old one and the waiting    *)
(* calls are answered from it.                                             *)
Result(call) ==
  [request |-> call.request, name |-> call.name,
   code |-> IF call.name \in dirs \cap captured
            THEN "ok" ELSE "project_creation_failed"]

(* Slip: only one of the waiting calls is answered.                        *)
RefreshEndsForOne ==
  /\ making = Idle /\ refreshing
  /\ refreshing' = FALSE
  /\ listing' = captured /\ captured' = {}
  /\ \E call \in waiting :
       answered' = {Result(call)} /\ waiting' = waiting \ {call}
  /\ UNCHANGED <<disk, making, creationRequests, crashes>>
RefreshEnds ==
  /\ making = Idle /\ refreshing
  /\ refreshing' = FALSE
  /\ listing' = captured /\ captured' = {}
  /\ answered' = {Result(call) : call \in waiting}
  /\ waiting' = {}
  /\ UNCHANGED <<disk, making, creationRequests, crashes>>

(* resolveLaunch for a created project: the listed target must still be    *)
(* registered. Slip: the listing is trusted.                               *)
resolveLaunchCached(d) == d \in listing
resolveLaunch(d) == d \in listing /\ isRegisteredCreatedProject(d)

-----------------------------------------------------------------------------
(* The user works in the root.                                             *)
User == answered' = {} /\ UNCHANGED <<making, memory, crashes>>

UserMakes(n) ==
  /\ n \notin dirs
  /\ dirs' = dirs \cup {n} /\ theirs' = theirs \cup {n}
  /\ UNCHANGED <<marker, filled>> /\ User

UserFills(n) ==
  /\ n \in dirs \ (theirs \cup filled)
  /\ filled' = filled \cup {n}
  /\ UNCHANGED <<dirs, marker, theirs>> /\ User

UserRemoves(n) ==
  /\ n \in dirs /\ (making # Idle => making.name # n)
  /\ dirs' = dirs \ {n} /\ theirs' = theirs \ {n} /\ filled' = filled \ {n}
  /\ marker' = [marker EXCEPT ![n] = None] /\ User

(* The host process dies and a new one starts: memory is gone.             *)
Crash ==
  /\ crashes < MaxCrashes
  /\ crashes' = crashes + 1
  /\ making' = Idle
  /\ creationRequests' = [r \in Request |-> None]
  /\ listing' = {} /\ refreshing' = FALSE /\ captured' = {} /\ waiting' = {}
  /\ answered' = {}
  /\ UNCHANGED disk

Make ==
  \/ writeMarker \/ mkdir \/ rename \/ rmdirStaging \/ rmStaging \/ rmdirTarget

Next ==
  \/ \E r \in Request, n \in Name : CreateProject(r, n)
  \/ Make \/ ProjectsRequest \/ RefreshEnds
  \/ \E n \in Name : UserMakes(n) \/ UserFills(n) \/ UserRemoves(n)
  \/ Crash

Spec == Init /\ [][Next]_vars

-----------------------------------------------------------------------------
(* A request id never makes two projects, whatever name a retry carries,   *)
(* across crashes between any two system calls: memory forgets, the marker *)
(* does not.                                                               *)
OneProjectPerRequest == \A d, e \in Registered : marker[d] = marker[e] => d = e

(* The limit holds on disk, left-over staging directories included, so     *)
(* the cut of listCreatedProjects never hides a project.                   *)
LimitRespected == Cardinality(Registered) <= MaxProjects

(* What the user made is never marked as a project nor removed, and no     *)
(* directory with the user's files in it is removed, even if they were put *)
(* there while the host was making it.                                     *)
ForeignUntouched ==
  /\ theirs \cup filled \subseteq dirs
  /\ \A d \in theirs : marker[d] = None

(* An agent is never started in a directory that is not a project made by  *)
(* the host, although listings are old: a project may have been removed    *)
(* and a directory of the user's put in its place.                         *)
LaunchIsOurs == \A d \in Directory : resolveLaunch(d) => d \in dirs \ theirs

(* "Retry remains idempotent even after a host process restart"            *)
(* (tests/project-catalog.test.ts:525), for a project that was completed:  *)
(* the same request is never refused.                                      *)
RetryIdempotent ==
  \A a \in answered : marker[a.name] = a.request =>
    a.code \in {"ok", "project_creation_failed"}

(* No call is forgotten: whoever waits for a listing waits for a refresh   *)
(* that is under way, though it may have joined one begun by someone else  *)
(* (each query of a refresh has a timeout, so it ends).                    *)
CallsAreServed == waiting # {} => refreshing
=============================================================================
