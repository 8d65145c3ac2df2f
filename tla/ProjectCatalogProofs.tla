------------------------ MODULE ProjectCatalogProofs ------------------------
(***************************************************************************)
(* Proofs about ProjectCatalog, for every set of requests, names and       *)
(* staging directories, every limit and any number of crashes.             *)
(***************************************************************************)
EXTENDS ProjectCatalog, FiniteSetTheorems, TLAPS

Marked == {d \in Directory : marker[d] # None}

(* Only what exists is marked; what the user made exists, unmarked.        *)
DiskInv ==
  /\ Marked \subseteq dirs
  /\ theirs \cup filled \subseteq dirs
  /\ \A d \in theirs : marker[d] = None

(* A request has marked one directory at most, the left-over staging       *)
(* directories included, and what memory knows of it agrees.               *)
UniqueInv ==
  \A d, e \in Marked : marker[d] = marker[e] => d = e

BoundInv ==
  \A r \in Request : creationRequests[r] # None =>
    \A d \in Directory : marker[d] = r => d = creationRequests[r]

(* Where a creation stands between two of its system calls: the marker is  *)
(* in the staging directory until rename, and the reserved directory is    *)
(* the host's, not marked yet.                                             *)
MakingInv ==
  making # Idle =>
    /\ creationRequests[making.request] = None
    /\ making.step = "mark" =>
         /\ making.stage \in dirs
         /\ \A d \in Directory : marker[d] # making.request
    /\ making.step \in {"reserve", "move"} => marker[making.stage] = making.request
    /\ making.step \in {"mark", "reserve"} => ~making.reserved
    /\ making.step \in {"move", "release"} => making.reserved
    /\ making.reserved /\ making.step # "tidy" =>
         making.name \in dirs \ theirs /\ marker[making.name] = None
    /\ making.step = "tidy" =>
         marker[making.name] = making.request /\ marker[making.stage] = None

(* There is room for the one that is about to be marked.                   *)
LimitInv ==
  /\ IsFiniteSet(Marked)
  /\ Cardinality(Marked) <= MaxProjects
  /\ making.step = "mark" => Cardinality(Marked) < MaxProjects

IInv ==
  /\ TypeOK
  /\ DiskInv
  /\ UniqueInv
  /\ BoundInv
  /\ MakingInv
  /\ LimitInv
  /\ CallsAreServed
  /\ RetryIdempotent

-----------------------------------------------------------------------------
LEMMA NoneIsNew == None \notin Request /\ None \notin Name /\ None \notin Staging
BY NamesAreDistinct

(* What can be read off the disk: registered and marked are the same.      *)
LEMMA RegisteredIsMarked == DiskInv => Registered = Marked
BY DEF DiskInv, Registered, isRegisteredCreatedProject, Marked

LEMMA MarkedSame == UNCHANGED marker => Marked' = Marked
BY DEF Marked

LEMMA IdleIsNotMaking == Idle \notin Making
BY DEF Idle, Making

(* The next step of a creation: the rest of its record stays, or only      *)
(* targetCreated is set with it.                                           *)
Moves(step, reserved) ==
  /\ making' \in Making /\ making' # Idle /\ making'.step = step
  /\ making'.request = making.request /\ making'.name = making.name
  /\ making'.stage = making.stage /\ making'.reserved = reserved

LEMMA NextStep ==
  ASSUME making \in Making,
         NEW s \in {"mark", "reserve", "move", "tidy", "sweep", "release"},
         making' = [making EXCEPT !.step = s]
  PROVE  Moves(s, making.reserved)
<1>1. making' \in Making
  BY DEF Making
<1>2. making' # Idle
  BY <1>1, IdleIsNotMaking
<1>3. QED
  BY <1>1, <1>2 DEF Moves, Making

LEMMA NextStepReserved ==
  ASSUME making \in Making, making' = [making EXCEPT !.step = "move", !.reserved = TRUE]
  PROVE  Moves("move", TRUE)
<1>1. making' \in Making
  BY DEF Making
<1>2. making' # Idle
  BY <1>1, IdleIsNotMaking
<1>3. QED
  BY <1>1, <1>2 DEF Moves, Making

LEMMA MakingIsBusy ==
  ASSUME TypeOK, making.step # "none"
  PROVE  making \in Making /\ making # Idle
BY IdleIsNotMaking DEF TypeOK, Idle

(* Adding an element to a finite set; replacing one.                       *)
LEMMA OneMore ==
  ASSUME NEW S, NEW T, NEW x, IsFiniteSet(S), T = S \cup {x}
  PROVE  IsFiniteSet(T) /\ Cardinality(T) <= Cardinality(S) + 1
<1>1. IsFiniteSet(T) /\ Cardinality(T) \in {Cardinality(S), Cardinality(S) + 1}
  BY FS_AddElement
<1>2. Cardinality(S) \in Nat
  BY FS_CardinalityType
<1>3. QED
  BY <1>1, <1>2

LEMMA OneForAnother ==
  ASSUME NEW S, NEW T, NEW x \in S, NEW y, y \notin S, IsFiniteSet(S),
         T = (S \ {x}) \cup {y}
  PROVE  IsFiniteSet(T) /\ Cardinality(T) = Cardinality(S)
<1>1. IsFiniteSet(S \ {x}) /\ Cardinality(S \ {x}) = Cardinality(S) - 1
  BY FS_RemoveElement
<1>2. IsFiniteSet(T) /\ Cardinality(T) = Cardinality(S \ {x}) + 1
  BY <1>1, FS_AddElement
<1>3. Cardinality(S) \in Nat
  BY FS_CardinalityType
<1>4. QED
  BY <1>1, <1>2, <1>3

(* A smaller set of marked directories respects the limit as well.         *)
LEMMA FewerMarked ==
  ASSUME LimitInv, Marked' \subseteq Marked,
         making'.step = "mark" => making.step = "mark"
  PROVE  LimitInv'
<1>1. IsFiniteSet(Marked') /\ Cardinality(Marked') <= Cardinality(Marked)
  BY FS_Subset DEF LimitInv
<1>2. Cardinality(Marked) \in Nat /\ Cardinality(Marked') \in Nat
  BY <1>1, FS_CardinalityType DEF LimitInv
<1>3. QED
  BY <1>1, <1>2, LimitAssumption DEF LimitInv

LEMMA InitInv == Init => IInv
<1> SUFFICES ASSUME Init PROVE IInv
  OBVIOUS
<1>1. TypeOK
  <2>1. crashes \in 0..MaxCrashes
    BY LimitAssumption DEF Init
  <2>2. making \in Making \cup {Idle}
    BY DEF Init
  <2>3. /\ dirs \subseteq Directory /\ theirs \subseteq Name /\ filled \subseteq Name
        /\ listing \subseteq Directory /\ captured \subseteq Directory
        /\ refreshing \in BOOLEAN /\ waiting \subseteq Call /\ answered \subseteq Answer
    BY DEF Init
  <2>4. /\ marker \in [Directory -> Request \cup {None}]
        /\ creationRequests \in [Request -> Name \cup {None}]
    BY DEF Init
  <2>5. QED
    BY <2>1, <2>2, <2>3, <2>4 DEF TypeOK
<1>2. Marked = {}
  BY DEF Init, Marked
<1>3. DiskInv /\ UniqueInv /\ BoundInv /\ MakingInv
  BY <1>2 DEF Init, DiskInv, UniqueInv, BoundInv, MakingInv
<1>4. LimitInv
  BY <1>2, FS_EmptySet, LimitAssumption DEF LimitInv, Init, Idle
<1>5. CallsAreServed /\ RetryIdempotent
  BY DEF Init, CallsAreServed, RetryIdempotent
<1>6. QED
  BY <1>1, <1>3, <1>4, <1>5 DEF IInv

(* What createProject refuses, it refuses for a reason other than the      *)
(* project the request made itself.                                        *)
LEMMA RefuseInv ==
  ASSUME IInv, making = Idle, NEW r \in Request, NEW n \in Name, Refuse(r, n),
         UNCHANGED crashes
  PROVE  IInv'
<1> USE DEF IInv, Refuse, disk, memory, Say
<1>1. TypeOK'
  BY DEF TypeOK, Answer, Code
<1>2. Marked' = Marked /\ Registered = Marked
  BY MarkedSame, RegisteredIsMarked
<1>3. DiskInv' /\ UniqueInv' /\ BoundInv' /\ CallsAreServed'
  BY <1>2 DEF DiskInv, UniqueInv, BoundInv, CallsAreServed
<1>4. MakingInv' /\ LimitInv'
  BY <1>2 DEF MakingInv, LimitInv
<1>5. marker[n] = r =>
        ~Conflicts(r, n) /\ (creationRequests[r] = None => n \in dirs /\ MayAdopt(r, n))
  <2> SUFFICES ASSUME marker[n] = r
               PROVE  ~Conflicts(r, n) /\ n \in dirs /\ MayAdopt(r, n)
    OBVIOUS
  <2>1. n \in Directory /\ n \in Marked
    BY NoneIsNew DEF Directory, Marked
  <2>2. creationRequests[r] \in {None, n}
    BY <2>1 DEF BoundInv
  <2>3. \A d \in Persisted(r) : d = n
    BY <1>2, <2>1 DEF Persisted, UniqueInv
  <2>4. n \in dirs /\ MayAdopt(r, n)
    BY <2>1, NoneIsNew DEF DiskInv, MayAdopt, isRegisteredCreatedProject
  <2>5. QED
    BY <2>2, <2>3, <2>4 DEF Conflicts
<1>6. \A a \in answered' : a.name = n /\ a.request = r
  OBVIOUS
<1>7. marker[n] # r
  BY <1>5
<1>8. RetryIdempotent'
  BY <1>6, <1>7 DEF RetryIdempotent
<1>9. QED
  BY <1>1, <1>3, <1>4, <1>8

(* Await binds the id to the only directory its marker is in.              *)
LEMMA AwaitInv ==
  ASSUME TypeOK, CallsAreServed, NEW r \in Request, NEW n \in Name,
         Await(r, n, Registered), marker' = marker, BoundInv,
         \A d \in Directory : marker[d] = r => d = n
  PROVE  /\ creationRequests' \in [Request -> Name \cup {None}]
         /\ listing' \subseteq Directory /\ captured' \subseteq Directory
         /\ refreshing' \in BOOLEAN /\ waiting' \subseteq Call
         /\ BoundInv' /\ CallsAreServed'
         /\ \A q \in Request : creationRequests[q] = None /\ q # r
                                 => creationRequests'[q] = None
<1> USE DEF Await, snapshot
<1>1. creationRequests' \in [Request -> Name \cup {None}]
  BY DEF TypeOK
<1>2. listing' \subseteq Directory /\ captured' \subseteq Directory
  BY DEF TypeOK, Registered
<1>3. refreshing' \in BOOLEAN /\ waiting' \subseteq Call
  BY DEF TypeOK, Call
<1>4. BoundInv'
  BY DEF TypeOK, BoundInv
<1>5. CallsAreServed'
  BY DEF CallsAreServed
<1>6. QED
  BY <1>1, <1>2, <1>3, <1>4, <1>5 DEF TypeOK

LEMMA RetryInv ==
  ASSUME IInv, making = Idle, NEW r \in Request, NEW n \in Name, Retry(r, n),
         UNCHANGED crashes
  PROVE  IInv'
<1> USE DEF IInv, Retry, disk
<1>1. Marked' = Marked /\ Registered = Marked
  BY MarkedSame, RegisteredIsMarked
<1>2. \A d \in Directory : marker[d] = r => d = n
  <2>1. CASE creationRequests[r] = n
    BY <2>1, NoneIsNew DEF BoundInv
  <2>2. CASE n \in dirs /\ MayAdopt(r, n)
    BY <2>2, NoneIsNew DEF MayAdopt, isRegisteredCreatedProject, UniqueInv, Marked, Directory
  <2>3. QED
    BY <2>1, <2>2
<1>3. /\ creationRequests' \in [Request -> Name \cup {None}]
      /\ listing' \subseteq Directory /\ captured' \subseteq Directory
      /\ refreshing' \in BOOLEAN /\ waiting' \subseteq Call
      /\ BoundInv' /\ CallsAreServed'
  BY <1>2, AwaitInv
<1>4. TypeOK'
  BY <1>3 DEF TypeOK
<1>5. DiskInv' /\ UniqueInv' /\ MakingInv' /\ LimitInv' /\ RetryIdempotent'
  BY <1>1 DEF DiskInv, UniqueInv, MakingInv, LimitInv, RetryIdempotent
<1>6. QED
  BY <1>3, <1>4, <1>5

LEMMA MkdtempInv ==
  ASSUME IInv, making = Idle, NEW r \in Request, NEW n \in Name, mkdtemp(r, n),
         UNCHANGED crashes
  PROVE  IInv'
<1> USE DEF IInv, mkdtemp, memory, Say
<1>1. Marked' = Marked /\ Registered = Marked
  BY MarkedSame, RegisteredIsMarked
<1>2. marker[n] = None
  BY DEF DiskInv, Marked, Directory
<1>3. \A d \in Directory : marker[d] # r
  <2> SUFFICES ASSUME NEW d \in Directory, marker[d] = r PROVE FALSE
    OBVIOUS
  <2>1. d \in Persisted(r)
    BY <1>1, NoneIsNew DEF Persisted, Marked
  <2>2. QED
    BY <1>2, <2>1, NoneIsNew DEF Conflicts, Persisted
<1>4. BoundInv' /\ CallsAreServed' /\ UniqueInv'
  BY <1>1 DEF BoundInv, CallsAreServed, UniqueInv
<1>5. RetryIdempotent'
  BY <1>3 DEF RetryIdempotent
<1>6. DiskInv'
  BY <1>1 DEF DiskInv
<1>7. CASE UNCHANGED <<dirs, making>>
  <2>1. TypeOK'
    BY <1>7 DEF TypeOK, Answer, Code
  <2>2. MakingInv' /\ LimitInv'
    BY <1>1, <1>7 DEF MakingInv, LimitInv
  <2>3. QED
    BY <1>4, <1>5, <1>6, <2>1, <2>2
<1>8. ASSUME NEW s \in Staging \ dirs,
             dirs' = dirs \cup {s}, answered' = {},
             making' = [step |-> "mark", request |-> r, name |-> n, stage |-> s,
                        reserved |-> FALSE]
      PROVE  IInv'
  <2>1. making' \in Making
    BY <1>8 DEF Making
  <2>2. TypeOK'
    BY <1>8, <2>1 DEF TypeOK, Directory
  <2>3. MakingInv'
    BY <1>3, <1>8 DEF MakingInv
  <2>4. Cardinality(Marked) < MaxProjects
    BY <1>1, FS_CardinalityType, LimitAssumption DEF LimitReached, LimitInv
  <2>5. LimitInv'
    BY <1>1, <2>4 DEF LimitInv
  <2>6. QED
    BY <1>4, <1>5, <1>6, <2>2, <2>3, <2>5
<1>9. QED
  BY <1>7, <1>8

-----------------------------------------------------------------------------
(* A step that gives up goes on to the clean-up with what it had.          *)
LEMMA FailsInv ==
  ASSUME IInv, making.step \in {"mark", "reserve", "move"}, Fails,
         answered' = {}, UNCHANGED <<memory, theirs, filled, crashes>>
  PROVE  IInv'
<1> USE DEF IInv, Fails, memory, Moves
<1>1. making \in Making /\ making # Idle
  BY MakingIsBusy
<1>2. Moves("sweep", making.reserved)
  BY <1>1, NextStep
<1>3. TypeOK'
  BY <1>2 DEF TypeOK
<1>4. Marked' = Marked
  BY MarkedSame
<1>5. DiskInv' /\ UniqueInv' /\ BoundInv' /\ CallsAreServed' /\ RetryIdempotent'
  BY <1>4 DEF DiskInv, UniqueInv, BoundInv, CallsAreServed, RetryIdempotent
<1>6. MakingInv'
  BY <1>1, <1>2 DEF MakingInv
<1>7. LimitInv'
  BY <1>2, <1>4 DEF LimitInv
<1>8. QED
  BY <1>3, <1>5, <1>6, <1>7

(* The request's first marker: there was none, and there was room.         *)
LEMMA WriteMarkerInv == IInv /\ writeMarker => IInv'
<1> SUFFICES ASSUME IInv, writeMarker PROVE IInv'
  OBVIOUS
<1> USE DEF IInv, writeMarker, Step, memory, Moves
<1>1. making \in Making /\ making # Idle
  BY MakingIsBusy
<1>2. CASE Fails
  BY <1>2, FailsInv
<1>3. CASE /\ marker' = [marker EXCEPT ![making.stage] = making.request]
           /\ making' = [making EXCEPT !.step = "reserve"]
           /\ UNCHANGED dirs
  <2>1. Moves("reserve", making.reserved)
    BY <1>1, <1>3, NextStep
  <2>2. /\ making.stage \in Directory /\ making.stage \notin Name
        /\ making.request \in Request /\ making.request # None
    BY <1>1, NamesAreDistinct, NoneIsNew DEF Making, Directory
  <2>3. /\ making.stage \in dirs /\ ~making.reserved
        /\ creationRequests[making.request] = None
        /\ \A d \in Directory : marker[d] # making.request
    BY <1>1 DEF MakingInv
  <2>4. /\ marker' \in [Directory -> Request \cup {None}]
        /\ marker'[making.stage] = making.request
        /\ \A d \in Directory \ {making.stage} : marker'[d] = marker[d]
    BY <1>3, <2>2 DEF TypeOK
  <2>5. TypeOK'
    BY <1>3, <2>1, <2>4 DEF TypeOK
  <2>6. Marked' = Marked \cup {making.stage}
    BY <2>2, <2>4 DEF Marked
  <2>7. DiskInv'
    BY <1>3, <2>2, <2>3, <2>4, <2>6 DEF DiskInv, TypeOK, Directory
  <2>8. UniqueInv'
    BY <2>3, <2>4, <2>6 DEF UniqueInv, Marked
  <2>9. BoundInv'
    BY <2>2, <2>3, <2>4 DEF BoundInv
  <2>10. MakingInv'
    BY <1>3, <2>1, <2>3, <2>4 DEF MakingInv
  <2>11. LimitInv'
    <3>1. making.step = "mark" /\ IsFiniteSet(Marked)
      BY DEF LimitInv
    <3>2. Cardinality(Marked) \in Nat /\ Cardinality(Marked) < MaxProjects
      BY <3>1, FS_CardinalityType DEF LimitInv
    <3>3. IsFiniteSet(Marked') /\ Cardinality(Marked') <= Cardinality(Marked) + 1
      BY <2>6, <3>1, OneMore
    <3>4. Cardinality(Marked') \in Nat
      BY <3>3, FS_CardinalityType
    <3>5. QED
      BY <2>1, <3>2, <3>3, <3>4, LimitAssumption DEF LimitInv
  <2>12. CallsAreServed' /\ RetryIdempotent'
    BY DEF CallsAreServed, RetryIdempotent
  <2>13. QED
    BY <2>5, <2>7, <2>8, <2>9, <2>10, <2>11, <2>12
<1>4. QED
  BY <1>2, <1>3

(* What mkdir reserves did not exist: it is not the user's.                *)
LEMMA MkdirInv == IInv /\ mkdir => IInv'
<1> SUFFICES ASSUME IInv, mkdir PROVE IInv'
  OBVIOUS
<1> USE DEF IInv, mkdir, Step, memory, Moves
<1>1. making \in Making /\ making # Idle
  BY MakingIsBusy
<1>2. CASE Fails
  BY <1>2, FailsInv
<1>3. CASE /\ making.name \notin dirs
           /\ dirs' = dirs \cup {making.name}
           /\ making' = [making EXCEPT !.step = "move", !.reserved = TRUE]
           /\ UNCHANGED marker
  <2>1. Moves("move", TRUE)
    BY <1>1, <1>3, NextStepReserved
  <2>2. making.name \in Directory
    BY <1>1 DEF Making, Directory
  <2>3. TypeOK'
    BY <1>3, <2>1, <2>2 DEF TypeOK
  <2>4. Marked' = Marked
    BY <1>3, MarkedSame
  <2>5. making.name \notin theirs /\ marker[making.name] = None
    BY <1>3, <2>2 DEF DiskInv, Marked
  <2>6. DiskInv' /\ UniqueInv' /\ BoundInv' /\ CallsAreServed' /\ RetryIdempotent'
    BY <1>3, <2>4 DEF DiskInv, UniqueInv, BoundInv, CallsAreServed, RetryIdempotent
  <2>7. MakingInv'
    BY <1>1, <1>3, <2>1, <2>5 DEF MakingInv
  <2>8. LimitInv'
    BY <2>1, <2>4 DEF LimitInv
  <2>9. QED
    BY <2>3, <2>6, <2>7, <2>8
<1>4. QED
  BY <1>2, <1>3

(* rename carries the marker over; the number of markers does not change.  *)
LEMMA RenameInv == IInv /\ rename => IInv'
<1> SUFFICES ASSUME IInv, rename PROVE IInv'
  OBVIOUS
<1> USE DEF IInv, rename, Step, memory, Moves
<1>1. making \in Making /\ making # Idle
  BY MakingIsBusy
<1>2. CASE Fails
  BY <1>2, FailsInv
<1>3. CASE /\ marker' = [marker EXCEPT ![making.stage] = None,
                                       ![making.name] = making.request]
           /\ making' = [making EXCEPT !.step = "tidy"]
           /\ UNCHANGED dirs
  <2>1. Moves("tidy", making.reserved)
    BY <1>1, <1>3, NextStep
  <2>2. /\ making.stage \in Directory /\ making.name \in Directory
        /\ making.stage # making.name
        /\ making.request \in Request /\ making.request # None
    BY <1>1, NamesAreDistinct, NoneIsNew DEF Making, Directory
  <2>3. /\ marker[making.stage] = making.request
        /\ making.name \in dirs \ theirs /\ marker[making.name] = None
        /\ creationRequests[making.request] = None
    BY <1>1 DEF MakingInv
  <2>4. /\ marker' \in [Directory -> Request \cup {None}]
        /\ marker'[making.stage] = None /\ marker'[making.name] = making.request
        /\ \A d \in Directory \ {making.stage, making.name} : marker'[d] = marker[d]
    BY <1>3, <2>2 DEF TypeOK
  <2>5. TypeOK'
    BY <1>3, <2>1, <2>4 DEF TypeOK
  <2>6. /\ Marked' = (Marked \ {making.stage}) \cup {making.name}
        /\ making.stage \in Marked /\ making.name \notin Marked
    BY <2>2, <2>3, <2>4 DEF Marked
  <2>7. DiskInv'
    BY <1>3, <2>2, <2>3, <2>4, <2>6 DEF DiskInv, TypeOK, Directory
  <2>8. UniqueInv'
    BY <2>2, <2>3, <2>4, <2>6 DEF UniqueInv, Marked
  <2>9. BoundInv'
    BY <2>2, <2>3, <2>4, NoneIsNew DEF BoundInv
  <2>10. MakingInv'
    BY <2>1, <2>3, <2>4 DEF MakingInv
  <2>11. LimitInv'
    <3>1. IsFiniteSet(Marked)
      BY DEF LimitInv
    <3>2. IsFiniteSet(Marked') /\ Cardinality(Marked') = Cardinality(Marked)
      BY <2>6, <3>1, OneForAnother
    <3>3. QED
      BY <2>1, <3>2 DEF LimitInv
  <2>12. CallsAreServed' /\ RetryIdempotent'
    BY DEF CallsAreServed, RetryIdempotent
  <2>13. QED
    BY <2>5, <2>7, <2>8, <2>9, <2>10, <2>11, <2>12
<1>4. QED
  BY <1>2, <1>3

LEMMA RmdirStagingInv == IInv /\ rmdirStaging => IInv'
<1> SUFFICES ASSUME IInv, rmdirStaging PROVE IInv'
  OBVIOUS
<1> USE DEF IInv, rmdirStaging, Step
<1>1. making \in Making /\ making # Idle
  BY MakingIsBusy
<1>2. /\ making.request \in Request /\ making.request # None
      /\ making.name \in Name /\ making.name \in Directory
      /\ making.stage \notin Name
  BY <1>1, NamesAreDistinct, NoneIsNew DEF Making, Directory
<1>3. marker[making.name] = making.request /\ marker[making.stage] = None
  BY <1>1 DEF MakingInv
<1>4. Marked' = Marked /\ making.stage \notin Marked
  BY <1>3, MarkedSame DEF Marked
<1>5. \A d \in Directory : marker[d] = making.request => d = making.name
  BY <1>2, <1>3 DEF UniqueInv, Marked
<1>6. /\ creationRequests' \in [Request -> Name \cup {None}]
      /\ listing' \subseteq Directory /\ captured' \subseteq Directory
      /\ refreshing' \in BOOLEAN /\ waiting' \subseteq Call
      /\ BoundInv' /\ CallsAreServed'
  BY <1>2, <1>5, AwaitInv
<1>7. TypeOK'
  BY <1>6 DEF TypeOK
<1>8. DiskInv'
  BY <1>2, <1>4 DEF DiskInv, TypeOK
<1>9. UniqueInv' /\ MakingInv' /\ RetryIdempotent'
  BY <1>4 DEF UniqueInv, MakingInv, RetryIdempotent
<1>10. LimitInv'
  BY <1>4 DEF LimitInv, Idle
<1>11. QED
  BY <1>6, <1>7, <1>8, <1>9, <1>10

(* The clean-up takes the host's own directories only.                     *)
LEMMA FailedInv ==
  ASSUME TypeOK, making \in Making, making' = Idle, Failed
  PROVE  /\ answered' \subseteq Answer /\ making' \in Making \cup {Idle}
         /\ MakingInv' /\ RetryIdempotent'
BY DEF Failed, Say, Answer, Code, Making, MakingInv, RetryIdempotent

LEMMA RmStagingInv == IInv /\ rmStaging => IInv'
<1> SUFFICES ASSUME IInv, rmStaging PROVE IInv'
  OBVIOUS
<1> USE DEF IInv, rmStaging, Step, memory, Moves
<1>1. making \in Making /\ making # Idle
  BY MakingIsBusy
<1>2. making.stage \in Directory /\ making.stage \notin Name /\ making.stage # making.name
  BY <1>1, NamesAreDistinct DEF Making, Directory
<1>3. /\ dirs' \subseteq dirs /\ dirs \ {making.stage} \subseteq dirs'
      /\ marker' \in [Directory -> Request \cup {None}]
      /\ \A d \in Directory : marker'[d] \in {marker[d], None}
      /\ \A d \in dirs \ dirs' : marker'[d] = None
      /\ marker'[making.name] = marker[making.name]
  BY <1>1, <1>2 DEF TypeOK, Making, Directory
<1>4. Marked' \subseteq Marked /\ \A d \in Marked' : marker'[d] = marker[d]
  BY <1>3 DEF Marked
<1>5. DiskInv'
  <2>1. Marked' \subseteq dirs'
    BY <1>3, <1>4 DEF Marked, DiskInv
  <2>2. (theirs \cup filled)' \subseteq dirs'
    BY <1>2, <1>3 DEF DiskInv, TypeOK
  <2>3. \A d \in theirs' : marker'[d] = None
    BY <1>3 DEF DiskInv, TypeOK, Directory
  <2>4. QED
    BY <2>1, <2>2, <2>3 DEF DiskInv
<1>6. UniqueInv'
  BY <1>4 DEF UniqueInv
<1>7. BoundInv'
  BY <1>3, NoneIsNew DEF BoundInv
<1>8. CallsAreServed'
  BY DEF CallsAreServed
<1>9. CASE ~making.reserved
  <2>1. making' = Idle /\ Failed
    BY <1>9
  <2>2. TypeOK' /\ MakingInv' /\ RetryIdempotent'
    BY <1>1, <1>3, <2>1, FailedInv DEF TypeOK
  <2>3. LimitInv'
    BY <1>4, <2>1, FewerMarked DEF Idle
  <2>4. QED
    BY <1>5, <1>6, <1>7, <1>8, <2>2, <2>3
<1>10. CASE making.reserved
  <2>1. making' = [making EXCEPT !.step = "release"] /\ answered' = {}
    BY <1>10
  <2>2. Moves("release", making.reserved)
    BY <1>1, <2>1, NextStep
  <2>3. TypeOK'
    BY <1>3, <2>1, <2>2 DEF TypeOK
  <2>4. /\ making.name \in dirs \ theirs /\ marker[making.name] = None
        /\ creationRequests[making.request] = None
    BY <1>1, <1>10 DEF MakingInv
  <2>5. MakingInv'
    BY <1>2, <1>3, <1>10, <2>2, <2>4 DEF MakingInv
  <2>6. LimitInv' /\ RetryIdempotent'
    BY <1>4, <2>1, <2>2, FewerMarked DEF RetryIdempotent
  <2>7. QED
    BY <1>5, <1>6, <1>7, <1>8, <2>3, <2>5, <2>6
<1>11. QED
  BY <1>1, <1>9, <1>10 DEF Making

LEMMA RmdirTargetInv == IInv /\ rmdirTarget => IInv'
<1> SUFFICES ASSUME IInv, rmdirTarget PROVE IInv'
  OBVIOUS
<1> USE DEF IInv, rmdirTarget, Step, memory
<1>1. making \in Making /\ making # Idle
  BY MakingIsBusy
<1>2. /\ making.name \in dirs \ theirs /\ marker[making.name] = None
  BY <1>1 DEF MakingInv
<1>3. /\ dirs' \subseteq dirs
      /\ \A d \in dirs \ dirs' : d = making.name /\ d \notin filled
  OBVIOUS
<1>4. Marked' = Marked
  BY MarkedSame
<1>5. DiskInv'
  BY <1>2, <1>3, <1>4 DEF DiskInv, Marked
<1>6. TypeOK' /\ MakingInv' /\ RetryIdempotent'
  BY <1>1, <1>3, FailedInv DEF TypeOK
<1>7. UniqueInv' /\ BoundInv' /\ CallsAreServed'
  BY <1>4 DEF UniqueInv, BoundInv, CallsAreServed
<1>8. LimitInv'
  BY <1>4 DEF LimitInv, Idle
<1>9. QED
  BY <1>5, <1>6, <1>7, <1>8

-----------------------------------------------------------------------------
(* Refreshes do not touch the disk, and answer from it.                    *)
LEMMA RefreshInv == IInv /\ (ProjectsRequest \/ RefreshEnds) => IInv'
<1> SUFFICES ASSUME IInv, ProjectsRequest \/ RefreshEnds PROVE IInv'
  OBVIOUS
<1> USE DEF IInv, ProjectsRequest, RefreshEnds, disk, snapshot
<1>1. Marked' = Marked
  BY MarkedSame
<1>2. answered' \subseteq {Result(call) : call \in waiting}
  OBVIOUS
<1>3. \A a \in answered' : a \in Answer /\ a.code \in {"ok", "project_creation_failed"}
  BY <1>2 DEF Result, TypeOK, Call, Answer, Code
<1>4. /\ listing' \subseteq Directory /\ captured' \subseteq Directory
      /\ refreshing' \in BOOLEAN /\ waiting' \subseteq Call
  BY DEF TypeOK, Registered
<1>5. TypeOK'
  BY <1>3, <1>4 DEF TypeOK
<1>6. DiskInv' /\ UniqueInv' /\ BoundInv' /\ MakingInv' /\ LimitInv'
  BY <1>1 DEF DiskInv, UniqueInv, BoundInv, MakingInv, LimitInv
<1>7. CallsAreServed' /\ RetryIdempotent'
  BY <1>3 DEF CallsAreServed, RetryIdempotent
<1>8. QED
  BY <1>5, <1>6, <1>7

(* The user only adds unmarked directories, and takes markers away.        *)
LEMMA UserInv ==
  ASSUME IInv, NEW n \in Name, UserMakes(n) \/ UserFills(n) \/ UserRemoves(n)
  PROVE  IInv'
<1> USE DEF IInv, UserMakes, UserFills, UserRemoves, User, memory
<1>1. n \in Directory /\ n \notin Staging
  BY NamesAreDistinct DEF Directory
<1>2. /\ marker' \in [Directory -> Request \cup {None}]
      /\ \A d \in Directory \ {n} : marker'[d] = marker[d]
      /\ marker'[n] \in {marker[n], None}
      /\ \A d \in Directory \ {n} : d \in dirs' <=> d \in dirs
  BY <1>1 DEF TypeOK
<1>3. Marked' \subseteq Marked /\ \A d \in Marked' : marker'[d] = marker[d]
  BY <1>2 DEF Marked
<1>4. TypeOK'
  BY <1>1, <1>2 DEF TypeOK
<1>5. DiskInv'
  <2>1. CASE UserMakes(n)
    BY <1>1, <2>1 DEF DiskInv, Marked
  <2>2. CASE UserFills(n)
    BY <2>2 DEF DiskInv, Marked
  <2>3. CASE UserRemoves(n)
    BY <1>1, <2>3 DEF DiskInv, Marked, TypeOK, Directory
  <2>4. QED
    BY <2>1, <2>2, <2>3
<1>6. UniqueInv' /\ BoundInv'
  BY <1>2, <1>3, NoneIsNew DEF UniqueInv, BoundInv
<1>7. MakingInv'
  <2> SUFFICES ASSUME making # Idle PROVE MakingInv'
    BY DEF MakingInv
  <2>1. making \in Making
    BY DEF TypeOK
  <2>2. /\ making.stage \in Directory /\ making.stage # n
        /\ making.name \in Directory
        /\ making.request \in Request /\ making.request # None
    BY <1>1, <2>1, NoneIsNew DEF Making, Directory
  <2>3. making.name = n => UserFills(n) \/ (UserMakes(n) /\ n \notin dirs)
    OBVIOUS
  <2>4. making.name = n => marker' = marker
    BY <2>3
  <2>5. marker'[making.stage] = marker[making.stage] /\ marker'[making.name] = marker[making.name]
    BY <1>2, <2>2, <2>4
  <2>6. making.stage \in dirs => making.stage \in dirs'
    BY <1>2, <2>2
  <2>7. making.name \in dirs \ theirs => making.name \in dirs' \ theirs'
    BY <1>2, <2>2, <2>3
  <2>8. (\A d \in Directory : marker[d] # making.request)
          => \A d \in Directory : marker'[d] # making.request
    BY <1>2, <2>2
  <2>9. QED
    BY <2>5, <2>6, <2>7, <2>8 DEF MakingInv
<1>8. LimitInv'
  BY <1>3, FewerMarked
<1>9. CallsAreServed' /\ RetryIdempotent'
  BY DEF CallsAreServed, RetryIdempotent
<1>10. QED
  BY <1>4, <1>5, <1>6, <1>7, <1>8, <1>9

(* The disk survives a crash with whatever the creation left on it.        *)
LEMMA CrashInv == IInv /\ Crash => IInv'
<1> SUFFICES ASSUME IInv, Crash PROVE IInv'
  OBVIOUS
<1> USE DEF IInv, Crash, disk
<1>1. Marked' = Marked
  BY MarkedSame
<1>2. crashes' \in 0..MaxCrashes
  BY LimitAssumption DEF TypeOK
<1>3. creationRequests' \in [Request -> Name \cup {None}]
  OBVIOUS
<1>4. TypeOK'
  BY <1>2, <1>3 DEF TypeOK
<1>5. DiskInv' /\ UniqueInv' /\ BoundInv' /\ MakingInv'
  BY <1>1 DEF DiskInv, UniqueInv, BoundInv, MakingInv
<1>6. LimitInv'
  BY <1>1 DEF LimitInv, Idle
<1>7. CallsAreServed' /\ RetryIdempotent'
  BY DEF CallsAreServed, RetryIdempotent
<1>8. QED
  BY <1>4, <1>5, <1>6, <1>7

LEMMA StutterInv == IInv /\ UNCHANGED vars => IInv'
<1> SUFFICES ASSUME IInv, UNCHANGED vars PROVE IInv'
  OBVIOUS
<1> USE DEF IInv, vars, disk, memory
<1>1. Marked' = Marked
  BY MarkedSame
<1>2. TypeOK' /\ CallsAreServed' /\ RetryIdempotent'
  BY DEF TypeOK, CallsAreServed, RetryIdempotent
<1>3. DiskInv' /\ UniqueInv' /\ BoundInv' /\ MakingInv' /\ LimitInv'
  BY <1>1 DEF DiskInv, UniqueInv, BoundInv, MakingInv, LimitInv
<1>4. QED
  BY <1>2, <1>3

LEMMA NextInv == IInv /\ [Next]_vars => IInv'
<1> SUFFICES ASSUME IInv, [Next]_vars PROVE IInv'
  OBVIOUS
<1>1. ASSUME NEW r \in Request, NEW n \in Name, CreateProject(r, n)
      PROVE  IInv'
  BY <1>1, RefuseInv, RetryInv, MkdtempInv DEF CreateProject
<1>2. CASE Make
  BY <1>2, WriteMarkerInv, MkdirInv, RenameInv, RmdirStagingInv, RmStagingInv,
     RmdirTargetInv DEF Make
<1>3. CASE ProjectsRequest \/ RefreshEnds
  BY <1>3, RefreshInv
<1>4. ASSUME NEW n \in Name, UserMakes(n) \/ UserFills(n) \/ UserRemoves(n)
      PROVE  IInv'
  BY <1>4, UserInv
<1>5. CASE Crash
  BY <1>5, CrashInv
<1>6. CASE UNCHANGED vars
  BY <1>6, StutterInv
<1>7. QED
  BY <1>1, <1>2, <1>3, <1>4, <1>5, <1>6 DEF Next

-----------------------------------------------------------------------------
(* The inductive invariant holds in every reachable state.                 *)
THEOREM Invariant == Spec => []IInv
BY InitInv, NextInv, PTL DEF Spec

(* Type correctness of the tree, the creation and the catalog's memory.    *)
THEOREM TypeCorrect == Spec => []TypeOK
<1>1. IInv => TypeOK
  BY DEF IInv
<1>2. QED
  BY <1>1, Invariant, PTL

(* However many crashes and retries, a request has one project at most.    *)
THEOREM OneProject == Spec => []OneProjectPerRequest
<1>1. IInv => OneProjectPerRequest
  BY RegisteredIsMarked DEF IInv, UniqueInv, OneProjectPerRequest
<1>2. QED
  BY <1>1, Invariant, PTL

(* There are never more projects on disk than the limit.                   *)
THEOREM WithinLimit == Spec => []LimitRespected
<1>1. IInv => LimitRespected
  BY RegisteredIsMarked DEF IInv, LimitInv, LimitRespected
<1>2. QED
  BY <1>1, Invariant, PTL

(* What the user made is neither marked nor removed.                       *)
THEOREM ForeignSafe == Spec => []ForeignUntouched
<1>1. IInv => ForeignUntouched
  BY DEF IInv, DiskInv, ForeignUntouched
<1>2. QED
  BY <1>1, Invariant, PTL

(* An old listing never leads an agent into a directory of the user's.     *)
THEOREM OurLaunches == Spec => []LaunchIsOurs
<1>1. IInv => LaunchIsOurs
  BY DEF IInv, DiskInv, LaunchIsOurs, resolveLaunch, isRegisteredCreatedProject
<1>2. QED
  BY <1>1, Invariant, PTL

(* A retry for a completed project is never refused.                       *)
THEOREM RetryAnswered == Spec => []RetryIdempotent
<1>1. IInv => RetryIdempotent
  BY DEF IInv
<1>2. QED
  BY <1>1, Invariant, PTL

(* A call that waits, waits for a refresh that is under way.               *)
THEOREM CallsServed == Spec => []CallsAreServed
<1>1. IInv => CallsAreServed
  BY DEF IInv
<1>2. QED
  BY <1>1, Invariant, PTL
=============================================================================
