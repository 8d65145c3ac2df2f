------------------------ MODULE PairedDevicesProofs ------------------------
(***************************************************************************)
(* Proofs about PairedDevices: type correctness and the two properties its *)
(* run checks, for every set of tokens, clients and processes, for every   *)
(* lifetime and for a clock without a bound.                               *)
(***************************************************************************)
EXTENDS PairedDevices, TLAPS

Anyone == Client \cup {None}
Copies == {p \in Process : ~Free(p)}

(* A list of records that respects what has been told and granted: what is *)
(* revoked for certain is revoked in it, and a device in use is bound.     *)
Respects(d) ==
  /\ \A t \in told : d[t].known => d[t].revoked
  /\ \A t \in Token : \A c \in users[t] : d[t].known => d[t].revoked \/ d[t].client = c

(* A list in which every record that has to end does so in time.           *)
MustEnd(r, l) == DeviceTtl > 0 /\ (l > 0 \/ r.client # None)
Allowance(r, l) == IF r.client # None \/ l < DeviceTtl THEN DeviceTtl ELSE l
EndsInTime(r, g, l) ==
  MustEnd(r, l) => r.expires # Never /\ r.expires <= g + Allowance(r, l)
Ends(d) ==
  \A t \in Token : d[t].known =>
    granted[t] # Never /\ EndsInTime(d[t], granted[t], life[t])

(* The inductive invariant. A token that was never issued is in no list,   *)
(* and no process is busy with it. As long as no outdated copy was written *)
(* the file respects the history, and so does each copy that is not yet    *)
(* outdated: with it the file will do so once it has been written. Every   *)
(* record of every list ends in time, races or not.                        *)
FreshInv ==
  \A t \in Token : granted[t] = Never =>
    /\ t \notin told /\ users[t] = {}
    /\ \A p \in Copies : saving[p].token # t

ExactInv ==
  ~raced =>
    /\ Respects(devices)
    /\ \A p \in Copies : ~saving[p].stale =>
         /\ Respects(saving[p].copy)
         /\ saving[p].for = "revoke" => saving[p].copy[saving[p].token].revoked
         /\ saving[p].for = "verify" =>
              saving[p].copy[saving[p].token].client = saving[p].client

EndsInv ==
  /\ \A t \in Token : granted[t] <= clock
  /\ Ends(devices)
  /\ \A p \in Copies : Ends(saving[p].copy)

IInv == TypeOK /\ FreshInv /\ ExactInv /\ EndsInv

USE DEF Never

-----------------------------------------------------------------------------
(* What the lists are made of.                                             *)

LEMMA UnknownType == Unknown \in Device
BY DEF Unknown, Device

LEMMA NoDevicesFacts ==
  /\ NoDevices \in [Token -> Device]
  /\ \A t \in Token : ~NoDevices[t].known
BY UnknownType DEF NoDevices, Unknown

LEMMA ExpiryFacts ==
  ASSUME NEW ttl \in Nat, clock \in Nat
  PROVE  /\ Expiry(ttl) \in Nat \cup {Never}
         /\ ttl > 0 => Expiry(ttl) = clock + ttl
BY DEF Expiry

(* A record that ends in time still does when its token was let in later.  *)
LEMMA LaterEnds ==
  ASSUME PairedAssumption, NEW r \in Device, NEW l \in Nat,
         NEW g \in Nat, NEW h \in Nat, g <= h, EndsInTime(r, g, l)
  PROVE  EndsInTime(r, h, l)
<1>1. Allowance(r, l) \in Nat /\ r.expires \in Nat \cup {Never}
  BY DEF Allowance, PairedAssumption, Device
<1> DEFINE a == Allowance(r, l)
           e == r.expires
<1>2. MustEnd(r, l) => e # Never /\ e <= g + a
  BY DEF EndsInTime
<1> HIDE DEF a, e
<1>3. MustEnd(r, l) => e # Never /\ e <= h + a
  BY <1>1, <1>2 DEF a, e
<1>4. QED
  BY <1>3 DEF EndsInTime, a, e

LEMMA NoDevicesRespects == told \subseteq Token => Respects(NoDevices) /\ Ends(NoDevices)
BY NoDevicesFacts DEF Respects, Ends

LEMMA CopyType ==
  ASSUME TypeOK, NEW p \in Copies
  PROVE  /\ p \in Process /\ saving[p] \in Saving
         /\ saving[p].token \in Token /\ saving[p].client \in Anyone
         /\ saving[p].copy \in [Token -> Device]
         /\ saving[p].stale \in BOOLEAN
BY DEF TypeOK, Copies, Free, Idle, Saving, Anyone

(* What every process is doing after p has moved on: the others as before, *)
(* with an outdated copy.                                                  *)
LEMMA MoveOnFacts ==
  ASSUME TypeOK, NEW p \in Process, NEW next \in Saving \cup {Idle}, MoveOn(p, next)
  PROVE  /\ saving' \in [Process -> Saving \cup {Idle}]
         /\ saving'[p] = next
         /\ \A q \in Process \ {p} :
              /\ Free(q) => Free(q)'
              /\ ~Free(q) => /\ ~Free(q)' /\ saving'[q].stale
                             /\ saving'[q].token = saving[q].token
                             /\ saving'[q].copy = saving[q].copy
<1>1. saving' = [q \in Process |->
                   IF q = p THEN next
                   ELSE IF Free(q) THEN saving[q] ELSE [saving[q] EXCEPT !.stale = TRUE]]
  BY DEF MoveOn
<1>2. ASSUME NEW q \in Process, q # p, ~Free(q)
      PROVE  /\ saving'[q] = [saving[q] EXCEPT !.stale = TRUE]
             /\ saving[q] \in Saving
  BY <1>1, <1>2 DEF TypeOK, Free, Idle
<1>3. ASSUME NEW q \in Process, q # p, ~Free(q)
      PROVE  /\ saving'[q] \in Saving /\ saving'[q].stale /\ ~Free(q)'
             /\ saving'[q].token = saving[q].token
             /\ saving'[q].copy = saving[q].copy
  BY <1>2, <1>3 DEF Saving, Free
<1>4. ASSUME NEW q \in Process, q # p, Free(q)
      PROVE  saving'[q] = saving[q] /\ Free(q)'
  BY <1>1, <1>4 DEF Free
<1>5. \A q \in Process : saving'[q] \in Saving \cup {Idle}
  BY <1>1, <1>3, <1>4 DEF TypeOK
<1>6. QED
  BY <1>1, <1>3, <1>4, <1>5

(* The copy that a process loads, and what it is then busy with.           *)
LEMMA LoadFacts ==
  ASSUME TypeOK, NEW p \in Process, NEW for \in {"issue", "revoke", "verify"},
         NEW t \in Token, NEW c \in Anyone, NEW record \in Device,
         Load(p, for, t, c, record)
  PROVE  /\ saving' \in [Process -> Saving \cup {Idle}]
         /\ \A q \in Process \ {p} : saving'[q] = saving[q]
         /\ ~Free(p)' /\ saving'[p].for = for /\ saving'[p].token = t
         /\ saving'[p].client = c
         /\ saving'[p].copy = [devices EXCEPT ![t] = record]
<1> DEFINE loaded == [step |-> "loaded", for |-> for, token |-> t, client |-> c,
                      copy |-> [devices EXCEPT ![t] = record], stale |-> FALSE]
<1>1. saving' = [saving EXCEPT ![p] = loaded]
  BY DEF Load
<1>2. loaded \in Saving
  BY DEF TypeOK, Saving, Anyone
<1>3. saving'[p] = loaded
  BY <1>1 DEF TypeOK
<1>4. QED
  BY <1>1, <1>2, <1>3 DEF TypeOK, Free

-----------------------------------------------------------------------------
LEMMA InitInv == PairedAssumption /\ Init => IInv
<1> SUFFICES ASSUME PairedAssumption, Init PROVE IInv
  OBVIOUS
<1>1. TypeOK
  BY NoDevicesFacts DEF Init, TypeOK
<1>2. Copies = {} /\ told = {}
  BY DEF Init, Copies, Free, Idle
<1>3. FreshInv
  BY <1>2 DEF Init, FreshInv
<1>4. ExactInv /\ EndsInv
  BY <1>2, NoDevicesRespects, PairedAssumption DEF Init, ExactInv, EndsInv
<1>5. QED
  BY <1>1, <1>3, <1>4 DEF IInv

-----------------------------------------------------------------------------
(* Steps of a save.                                                        *)

LEMMA EmptyInv ==
  ASSUME IInv, NEW p \in Process, Empty(p)
  PROVE  IInv'
<1> USE DEF IInv
<1> DEFINE next == [saving[p] EXCEPT !.step = "emptied"]
<1>1. p \in Copies /\ saving[p] \in Saving
  BY DEF Empty, Copies, Free, TypeOK, Idle
<1>2. /\ next \in Saving /\ next.for = saving[p].for /\ next.token = saving[p].token
      /\ next.client = saving[p].client /\ next.copy = saving[p].copy
      /\ next.stale = saving[p].stale /\ next.step # "none"
  BY <1>1 DEF Saving
<1>3. MoveOn(p, next) /\ devices' = NoDevices /\ UNCHANGED <<clock, history>>
  BY DEF Empty
<1> HIDE DEF next
<1>4. saving' \in [Process -> Saving \cup {Idle}] /\ saving'[p] = next
  BY <1>2, <1>3, MoveOnFacts
<1>5. ASSUME NEW q \in Copies'
      PROVE  /\ q \in Copies
             /\ saving'[q].token = saving[q].token /\ saving'[q].copy = saving[q].copy
             /\ ~saving'[q].stale => /\ saving'[q].for = saving[q].for
                                     /\ saving'[q].client = saving[q].client
                                     /\ ~saving[q].stale
  <2>1. CASE q = p
    BY <1>1, <1>2, <1>4, <2>1
  <2>2. CASE q # p
    <3>1. q \in Process \ {p} /\ ~Free(q)'
      BY <2>2 DEF Copies
    <3>2. /\ Free(q) => Free(q)'
          /\ ~Free(q) => /\ ~Free(q)' /\ saving'[q].stale
                         /\ saving'[q].token = saving[q].token
                         /\ saving'[q].copy = saving[q].copy
      BY <1>1, <1>2, <1>3, <3>1, MoveOnFacts
    <3>3. ~Free(q)
      BY <3>1, <3>2
    <3>4. q \in Copies
      BY <3>1, <3>3 DEF Copies
    <3>5. QED
      BY <3>2, <3>3, <3>4
  <2>3. QED
    BY <2>1, <2>2
<1>6. TypeOK' /\ FreshInv'
  <2>1. TypeOK'
    BY <1>3, <1>4, NoDevicesFacts DEF TypeOK, history
  <2>2. FreshInv'
    BY <1>3, <1>5 DEF FreshInv, history
  <2>3. QED
    BY <2>1, <2>2
<1>7. /\ \A d : Respects(d)' <=> Respects(d)
      /\ \A d : Ends(d)' <=> Ends(d)
  BY <1>3 DEF Respects, Ends, history
<1>8. ExactInv'
  BY <1>3, <1>5, <1>7, NoDevicesRespects DEF ExactInv, TypeOK, history
<1>9. EndsInv'
  BY <1>3, <1>5, <1>7, NoDevicesRespects DEF EndsInv, TypeOK, history
<1>10. QED
  BY <1>6, <1>8, <1>9

(* The one step that may spread an outdated copy. If the copy is not       *)
(* outdated, it respects what has been told so far and what this step adds.*)
LEMMA FillInv ==
  ASSUME PairedAssumption, IInv, NEW p \in Process, Fill(p)
  PROVE  IInv'
<1> USE DEF IInv
<1> DEFINE s == saving[p]
<1>1. p \in Copies
  BY DEF Fill, Copies, Free
<1>2. /\ s \in Saving /\ s.token \in Token /\ s.client \in Anyone
      /\ s.copy \in [Token -> Device] /\ s.stale \in BOOLEAN
  BY <1>1, CopyType
<1>3. /\ MoveOn(p, Idle) /\ devices' \in {s.copy, NoDevices}
      /\ raced' = (raced \/ s.stale)
      /\ told' = IF s.for = "revoke" THEN told \cup {s.token} ELSE told
      /\ users' = IF s.for = "verify"
                  THEN [users EXCEPT ![s.token] = @ \cup ({s.client} \ {None})]
                  ELSE users
      /\ clock' = clock /\ granted' = granted /\ life' = life
  BY DEF Fill
<1> HIDE DEF s
<1>4. saving' \in [Process -> Saving \cup {Idle}] /\ saving'[p] = Idle
  BY <1>3, MoveOnFacts
<1>5. ASSUME NEW q \in Copies'
      PROVE  /\ q \in Copies /\ saving'[q].stale
             /\ saving'[q].token = saving[q].token /\ saving'[q].copy = saving[q].copy
  <2>1. q # p
    BY <1>4 DEF Copies, Free, Idle
  <2>2. q \in Process \ {p} /\ ~Free(q)'
    BY <2>1 DEF Copies
  <2>3. /\ Free(q) => Free(q)'
        /\ ~Free(q) => /\ ~Free(q)' /\ saving'[q].stale
                       /\ saving'[q].token = saving[q].token
                       /\ saving'[q].copy = saving[q].copy
    BY <1>3, <2>2, MoveOnFacts
  <2>4. QED
    BY <2>2, <2>3 DEF Copies
<1>6. TypeOK'
  <2>1. devices' \in [Token -> Device]
    BY <1>2, <1>3, NoDevicesFacts
  <2>2. told' \subseteq Token
    BY <1>2, <1>3 DEF TypeOK
  <2>3. users' \in [Token -> SUBSET Client]
    BY <1>2, <1>3 DEF TypeOK, Anyone
  <2>4. raced' \in BOOLEAN
    BY <1>2, <1>3 DEF TypeOK
  <2>5. QED
    BY <1>3, <1>4, <2>1, <2>2, <2>3, <2>4 DEF TypeOK
<1>7. FreshInv'
  <2>1. ASSUME NEW t \in Token, granted[t] = Never
        PROVE  t # s.token /\ t \notin told' /\ users'[t] = {}
    BY <1>1, <1>2, <1>3, <2>1 DEF FreshInv, s, TypeOK
  <2>2. QED
    BY <1>3, <1>5, <2>1 DEF FreshInv
<1>8. ASSUME ~raced'
      PROVE  Respects(devices)'
  <2>1. ~raced /\ ~s.stale
    BY <1>2, <1>3, <1>8 DEF TypeOK
  <2>2. /\ Respects(s.copy)
        /\ s.for = "revoke" => s.copy[s.token].revoked
        /\ s.for = "verify" => s.copy[s.token].client = s.client
    BY <1>1, <2>1 DEF ExactInv, s
  <2>3. ASSUME NEW t \in told', devices'[t].known
        PROVE  devices'[t].revoked
    <3>1. t \in Token
      BY <1>2, <1>3 DEF TypeOK
    <3>2. devices' = s.copy
      BY <1>3, <2>3, <3>1, NoDevicesFacts
    <3>3. CASE t \in told
      BY <2>2, <2>3, <3>2, <3>3 DEF Respects
    <3>4. CASE t \notin told
      BY <1>3, <2>2, <3>2, <3>4
    <3>5. QED
      BY <3>3, <3>4
  <2>4. ASSUME NEW t \in Token, NEW c \in users'[t], devices'[t].known
        PROVE  devices'[t].revoked \/ devices'[t].client = c
    <3>1. devices' = s.copy
      BY <1>3, <2>4, NoDevicesFacts
    <3>2. CASE c \in users[t]
      BY <2>2, <2>4, <3>1, <3>2 DEF Respects
    <3>3. CASE c \notin users[t]
      <4>1. s.for = "verify" /\ t = s.token /\ c = s.client
        BY <1>2, <1>3, <2>4, <3>3 DEF TypeOK
      <4>2. QED
        BY <2>2, <3>1, <4>1
    <3>4. QED
      BY <3>2, <3>3
  <2>5. QED
    BY <2>3, <2>4 DEF Respects
<1>9. ExactInv'
  BY <1>5, <1>8 DEF ExactInv
<1>10. EndsInv'
  <2>1. \A d : Ends(d)' <=> Ends(d)
    BY <1>3 DEF Ends
  <2>2. Ends(devices)'
    <3>1. Ends(s.copy) /\ Ends(NoDevices)
      BY <1>1, NoDevicesRespects DEF EndsInv, s, TypeOK
    <3>2. Ends(devices')
      BY <1>3, <3>1
    <3>3. QED
      BY <1>3, <3>2 DEF Ends
  <2>3. ASSUME NEW q \in Copies'
        PROVE  Ends(saving[q].copy)'
    <3>1. Ends(saving'[q].copy)
      BY <1>5 DEF EndsInv
    <3>2. QED
      BY <1>3, <3>1 DEF Ends
  <2>4. QED
    BY <1>3, <2>2, <2>3 DEF EndsInv
<1>11. QED
  BY <1>6, <1>7, <1>9, <1>10

LEMMA AbandonInv ==
  ASSUME IInv, NEW p \in Process, Abandon(p)
  PROVE  IInv'
<1> USE DEF IInv
<1>1. /\ saving' = [saving EXCEPT ![p] = Idle]
      /\ UNCHANGED <<devices, clock, history>>
  BY DEF Abandon
<1>2. TypeOK'
  BY <1>1 DEF TypeOK, history
<1>3. ASSUME NEW q \in Copies'
      PROVE  q \in Copies /\ saving'[q] = saving[q]
  BY <1>1 DEF Copies, Free, Idle, TypeOK
<1>4. FreshInv'
  BY <1>1, <1>3 DEF FreshInv, history
<1>5. /\ \A d : Respects(d)' <=> Respects(d)
      /\ \A d : Ends(d)' <=> Ends(d)
  BY <1>1 DEF Respects, Ends, history
<1>6. ExactInv'
  BY <1>1, <1>3, <1>5 DEF ExactInv, history
<1>7. EndsInv'
  BY <1>1, <1>3, <1>5 DEF EndsInv, history
<1>8. QED
  BY <1>2, <1>4, <1>6, <1>7

-----------------------------------------------------------------------------
(* The operations: each loads the file and changes the record of one token.*)

(* What an operation owes the invariant: its record respects what has been *)
(* told about the token and ends in time.                                  *)
LEMMA LoadInv ==
  ASSUME IInv, NEW p \in Process, NEW for \in {"issue", "revoke", "verify"},
         NEW t \in Token, NEW c \in Anyone, NEW record \in Device,
         Load(p, for, t, c, record),
         UNCHANGED <<devices, clock, told, users, raced>>,
         granted' = granted \/ granted' = [granted EXCEPT ![t] = clock],
         granted'[t] # Never,
         life' \in [Token -> Nat],
         \A u \in Token : u # t \/ granted[t] # Never => life'[u] = life[u],
         ~raced => /\ t \in told => record.revoked
                   /\ \A u \in users[t] : record.revoked \/ record.client = u
                   /\ for = "revoke" => record.revoked
                   /\ for = "verify" => record.client = c,
         EndsInTime(record, granted'[t], life'[t])
  PROVE  IInv'
<1> USE DEF IInv
<1> DEFINE copy == [devices EXCEPT ![t] = record]
<1>1. /\ saving' \in [Process -> Saving \cup {Idle}]
      /\ \A q \in Process \ {p} : saving'[q] = saving[q]
      /\ ~Free(p)' /\ saving'[p].for = for /\ saving'[p].token = t
      /\ saving'[p].client = c /\ saving'[p].copy = copy
  BY LoadFacts
<1>2. copy \in [Token -> Device] /\ copy[t] = record
      /\ \A u \in Token \ {t} : copy[u] = devices[u]
  BY DEF TypeOK
<1> HIDE DEF copy
<1>3. ASSUME NEW q \in Copies', q # p
      PROVE  q \in Copies /\ saving'[q] = saving[q]
  BY <1>1, <1>3 DEF Copies, Free
<1>4. granted' \in [Token -> Nat \cup {Never}]
      /\ \A u \in Token : /\ granted[u] # Never => granted'[u] >= granted[u]
                          /\ granted'[u] <= clock
                          /\ granted'[u] = Never => granted[u] = Never
                          /\ u # t => granted'[u] = granted[u]
  BY DEF TypeOK, EndsInv
<1>5. TypeOK'
  BY <1>1, <1>4 DEF TypeOK
<1>6. FreshInv'
  BY <1>1, <1>3, <1>4 DEF FreshInv
<1>7. \A d : Respects(d)' <=> Respects(d)
  BY DEF Respects
<1>8. ASSUME NEW d \in [Token -> Device], Ends(d)
      PROVE  Ends(d)'
  <2>1. ASSUME NEW u \in Token, d[u].known
        PROVE  granted'[u] # Never /\ EndsInTime(d[u], granted'[u], life'[u])
    <3>1. granted[u] # Never /\ granted'[u] # Never /\ granted'[u] >= granted[u]
      BY <1>4, <1>8, <2>1 DEF Ends
    <3>2. life'[u] = life[u] /\ life[u] \in Nat
      BY <3>1 DEF TypeOK
    <3>3. EndsInTime(d[u], granted[u], life[u])
      BY <1>8, <2>1 DEF Ends
    <3>4. granted[u] \in Nat /\ granted'[u] \in Nat
      BY <1>4, <3>1 DEF TypeOK
    <3>5. QED
      BY <3>1, <3>2, <3>3, <3>4, LaterEnds, PairedAssumption
  <2>2. QED
    BY <2>1 DEF Ends
<1>9. ASSUME ~raced
      PROVE  Respects(copy)
  <2>1. Respects(devices)
    BY <1>9 DEF ExactInv
  <2>2. \A u \in told : copy[u].known => copy[u].revoked
    BY <1>2, <1>9, <2>1 DEF Respects, TypeOK
  <2>3. \A u \in Token : \A v \in users[u] :
          copy[u].known => copy[u].revoked \/ copy[u].client = v
    BY <1>2, <1>9, <2>1 DEF Respects
  <2>4. QED
    BY <2>2, <2>3 DEF Respects
<1>10. ExactInv'
  <2>1. ASSUME ~raced, NEW q \in Copies', ~saving'[q].stale
        PROVE  /\ Respects(saving'[q].copy)
               /\ saving'[q].for = "revoke" => saving'[q].copy[saving'[q].token].revoked
               /\ saving'[q].for = "verify" =>
                    saving'[q].copy[saving'[q].token].client = saving'[q].client
    <3>1. CASE q = p
      BY <1>1, <1>2, <1>9, <2>1, <3>1
    <3>2. CASE q # p
      BY <1>3, <2>1, <3>2 DEF ExactInv
    <3>3. QED
      BY <3>1, <3>2
  <2>2. QED
    BY <1>7, <2>1 DEF ExactInv
<1>11. ASSUME NEW u \in Token, copy[u].known
       PROVE  granted'[u] # Never /\ EndsInTime(copy[u], granted'[u], life'[u])
  <2>1. CASE u = t
    BY <1>2, <2>1
  <2>2. CASE u # t
    <3>1. Ends(devices)'
      BY <1>8 DEF EndsInv, TypeOK, Ends
    <3>2. copy[u] = devices[u] /\ devices' = devices
      BY <1>2, <2>2
    <3>3. QED
      BY <1>11, <3>1, <3>2 DEF Ends
  <2>3. QED
    BY <2>1, <2>2
<1>12. EndsInv'
  <2>1. Ends(devices)'
    BY <1>8 DEF EndsInv, TypeOK, Ends
  <2>2. ASSUME NEW q \in Copies'
        PROVE  Ends(saving[q].copy)'
    <3>1. CASE q = p
      BY <1>1, <1>11, <3>1 DEF Ends
    <3>2. CASE q # p
      <4>1. q \in Copies /\ saving'[q].copy = saving[q].copy
        BY <1>3, <3>2
      <4>2. Ends(saving[q].copy) /\ saving[q].copy \in [Token -> Device]
        BY <4>1, CopyType DEF EndsInv
      <4>3. QED
        BY <1>8, <4>1, <4>2 DEF Ends
    <3>3. QED
      BY <3>1, <3>2
  <2>3. QED
    BY <1>4, <2>1, <2>2 DEF EndsInv
<1>13. QED
  BY <1>5, <1>6, <1>10, <1>12

LEMMA issueInv ==
  ASSUME PairedAssumption, IInv, NEW p \in Process, NEW t \in Token,
         NEW ttl \in Nat, issuePairingCode(p, t, ttl)
  PROVE  IInv'
<1> USE DEF IInv
<1>1. /\ Load(p, "issue", t, None, issue(ttl)) /\ granted[t] = Never
      /\ granted' = [granted EXCEPT ![t] = clock] /\ life' = [life EXCEPT ![t] = ttl]
      /\ UNCHANGED <<devices, clock, told, users, raced>>
  BY DEF issuePairingCode
<1>2. clock \in Nat /\ DeviceTtl \in Nat
  BY PairedAssumption DEF TypeOK
<1>3. Expiry(ttl) \in Nat \cup {Never} /\ (ttl > 0 => Expiry(ttl) = clock + ttl)
  BY <1>2, ExpiryFacts
<1>4. issue(ttl) \in Device /\ issue(ttl).expires = Expiry(ttl) /\ issue(ttl).client = None
  BY <1>3 DEF issue, Device
<1>5. t \notin told /\ users[t] = {}
  BY <1>1 DEF FreshInv
<1>6. granted'[t] = clock /\ granted'[t] # Never
  BY <1>1, <1>2 DEF TypeOK
<1>7. life' \in [Token -> Nat] /\ life'[t] = ttl /\ \A u \in Token \ {t} : life'[u] = life[u]
  BY <1>1 DEF TypeOK
<1>8. EndsInTime(issue(ttl), granted'[t], life'[t])
  BY <1>2, <1>3, <1>4, <1>6, <1>7 DEF EndsInTime, MustEnd, Allowance
<1>9. QED
  BY <1>1, <1>4, <1>5, <1>6, <1>7, <1>8, LoadInv DEF Anyone

(* A token that is let in as a device names a record in force, bound to    *)
(* nobody or to this client.                                               *)
LEMMA CheckFacts ==
  ASSUME NEW t \in Token, NEW c, Check(t, c) = "ok"
  PROVE  /\ devices[t].known /\ ~devices[t].revoked /\ ~Expired(devices[t])
         /\ devices[t].client = None \/ devices[t].client = c
BY DEF Check

LEMMA verifyInv ==
  ASSUME PairedAssumption, IInv, NEW t \in Token, NEW c \in Anyone, verify(t, c)
  PROVE  IInv'
<1> USE DEF IInv
<1> DEFINE r == devices[t]
           record == Used(r, c)
<1>1. /\ Load(Host, "verify", t, c, record)
      /\ granted' = [granted EXCEPT ![t] = clock]
      /\ UNCHANGED <<devices, clock, told, users, life, raced>>
  BY DEF verify
<1>2. Host \in Process /\ clock \in Nat /\ DeviceTtl \in Nat
  BY PairedAssumption DEF TypeOK, Process
<1>3. Check(t, c) = "ok"
  BY DEF verify, Auth, Check
<1>4. r.known /\ ~r.revoked /\ (r.client = None \/ r.client = c)
  BY <1>3, CheckFacts
<1>5. Expiry(DeviceTtl) \in Nat \cup {Never}
      /\ (DeviceTtl > 0 => Expiry(DeviceTtl) = clock + DeviceTtl)
  BY <1>2, ExpiryFacts
<1>6. r \in Device
  BY DEF TypeOK
<1>7. /\ record \in Device /\ record.client = c /\ record.revoked = r.revoked
      /\ record.expires = Expiry(DeviceTtl)
  BY <1>4, <1>5, <1>6 DEF Used, Device, Anyone
<1>8. granted'[t] = clock
  BY <1>1 DEF TypeOK
<1>9. ASSUME ~raced
      PROVE  /\ t \notin told
             /\ \A u \in users[t] : record.client = u
  <2>1. Respects(devices)
    BY <1>9 DEF ExactInv
  <2>2. t \notin told
    BY <1>4, <2>1 DEF Respects
  <2>3. ASSUME NEW u \in users[t]
        PROVE  r.client = u /\ u # None
    BY <1>4, <2>1, <2>3, PairedAssumption DEF Respects, TypeOK
  <2>4. QED
    BY <1>4, <1>7, <2>2, <2>3
<1> HIDE DEF r, record
<1>10. EndsInTime(record, granted'[t], life'[t])
  <2> DEFINE a == Allowance(record, life[t])
  <2>1. life[t] \in Nat /\ life' = life
    BY <1>1 DEF TypeOK
  <2>2. a \in Nat /\ a >= DeviceTtl
    BY <1>2, <2>1 DEF Allowance
  <2>3. DeviceTtl > 0 => record.expires = clock + DeviceTtl
    BY <1>5, <1>7
  <2> HIDE DEF a
  <2>4. DeviceTtl > 0 => record.expires # Never /\ record.expires <= granted'[t] + a
    BY <1>2, <1>8, <2>2, <2>3
  <2>5. QED
    BY <2>1, <2>4 DEF EndsInTime, MustEnd, a
<1>11. granted'[t] # Never
  BY <1>2, <1>8
<1>12. life' \in [Token -> Nat] /\ \A u \in Token : life'[u] = life[u]
  BY <1>1 DEF TypeOK
<1>13. QED
  BY <1>1, <1>2, <1>7, <1>9, <1>10, <1>11, <1>12, LoadInv

LEMMA revokeInv ==
  ASSUME PairedAssumption, IInv, NEW p \in Process, NEW t \in Token, revoke(p, t)
  PROVE  IInv'
<1> USE DEF IInv
<1> DEFINE r == devices[t]
           record == [r EXCEPT !.revoked = TRUE]
<1>1. /\ Load(p, "revoke", t, None, record) /\ r.known
      /\ UNCHANGED <<devices, clock, told, users, life, raced>> /\ granted' = granted
  BY DEF revoke, history
<1>2. r \in Device
  BY DEF TypeOK
<1>3. /\ record \in Device /\ record.revoked /\ record.expires = r.expires
      /\ record.client = r.client
  BY <1>2 DEF Device
<1>4. granted'[t] # Never /\ EndsInTime(r, granted[t], life[t])
  BY <1>1 DEF EndsInv, Ends
<1>5. EndsInTime(record, granted'[t], life'[t])
  BY <1>1, <1>3, <1>4 DEF EndsInTime, MustEnd, Allowance
<1>6. life' \in [Token -> Nat] /\ \A u \in Token : life'[u] = life[u]
  BY <1>1 DEF TypeOK
<1> HIDE DEF r, record
<1>7. QED
  BY <1>1, <1>3, <1>4, <1>5, <1>6, LoadInv DEF Anyone

LEMMA TickInv == ASSUME IInv, Tick PROVE IInv'
<1> USE DEF IInv
<1>1. clock' = clock + 1 /\ UNCHANGED <<devices, saving, told, granted, users, life, raced>>
  BY DEF Tick, file, history
<1>2. TypeOK' /\ Copies' = Copies
  BY <1>1 DEF TypeOK, Copies, Free
<1>3. FreshInv' /\ ExactInv'
  BY <1>1, <1>2 DEF FreshInv, ExactInv, Respects
<1>4. EndsInv'
  <2>1. \A t \in Token : granted'[t] <= clock'
    BY <1>1 DEF EndsInv, TypeOK
  <2>2. QED
    BY <1>1, <1>2, <2>1 DEF EndsInv, Ends
<1>5. QED
  BY <1>2, <1>3, <1>4

-----------------------------------------------------------------------------
LEMMA StepInv == PairedAssumption /\ IInv /\ [Next]_vars => IInv'
<1> SUFFICES ASSUME PairedAssumption, IInv, [Next]_vars PROVE IInv'
  OBVIOUS
<1>1. ASSUME NEW p \in Process, SaveStep(p)
      PROVE  IInv'
  BY <1>1, EmptyInv, FillInv, AbandonInv DEF SaveStep
<1>2. CASE HostStep
  BY <1>1, <1>2, issueInv, verifyInv, PairedAssumption DEF HostStep, Process, Anyone
<1>3. CASE Tick
  BY <1>3, TickInv
<1>4. ASSUME NEW p \in Cli, CliStep(p)
      PROVE  IInv'
  BY <1>1, <1>4, issueInv, revokeInv, PairedAssumption DEF CliStep, Process
<1>5. CASE UNCHANGED vars
  <2>1. UNCHANGED <<devices, saving, clock, told, granted, users, life, raced>>
    BY <1>5 DEF vars, file, history
  <2>2. TypeOK' /\ Copies' = Copies
    BY <2>1 DEF IInv, TypeOK, Copies, Free
  <2>3. QED
    BY <2>1, <2>2 DEF IInv, FreshInv, ExactInv, EndsInv, Respects, Ends
<1>6. QED
  BY <1>2, <1>3, <1>4, <1>5 DEF Next

(* Initially, and across every step, the invariant holds.                  *)
THEOREM Invariant == Spec => []IInv
BY InitInv, StepInv, PairedAssumption, PTL DEF Spec

(* Each variable stays within its type.                                    *)
THEOREM TypeCorrect == Spec => []TypeOK
<1>1. IInv => TypeOK
  BY DEF IInv
<1>2. QED
  BY <1>1, Invariant, PTL

(* A token of the store is never taken for the static one, so whoever is   *)
(* let in with it has passed the check of its record.                      *)
LEMMA AdmittedFacts ==
  ASSUME PairedAssumption, NEW t \in Token, NEW c, Admitted(t, c)
  PROVE  Check(t, c) = "ok"
BY DEF Admitted, Auth, PairedAssumption, Check

(* As long as no process writes back an outdated copy, a confirmed         *)
(* revocation and the binding to the first client hold, for every number   *)
(* of processes and tokens, whatever fails half-way (verify, revoke).      *)
THEOREM Exact == Spec => []CredentialsExact
<1>1. PairedAssumption /\ IInv => CredentialsExact
  <2> SUFFICES ASSUME PairedAssumption, IInv, ~raced PROVE
          /\ \A t \in told, c \in Anyone : ~Admitted(t, c)
          /\ \A t \in Token : \A c \in users[t], d \in Anyone : d # c => ~Admitted(t, d)
    BY DEF CredentialsExact, Anyone
  <2>1. Respects(devices) /\ TypeOK
    BY DEF IInv, ExactInv
  <2>2. ASSUME NEW t \in told, NEW c \in Anyone, Admitted(t, c)
        PROVE  FALSE
    <3>1. t \in Token
      BY <2>1 DEF TypeOK
    <3>2. devices[t].known /\ ~devices[t].revoked
      BY <2>2, <3>1, AdmittedFacts, CheckFacts
    <3>3. QED
      BY <2>1, <3>2 DEF Respects
  <2>3. ASSUME NEW t \in Token, NEW c \in users[t], NEW d \in Anyone, d # c, Admitted(t, d)
        PROVE  FALSE
    <3>1. devices[t].known /\ ~devices[t].revoked
          /\ (devices[t].client = None \/ devices[t].client = d)
      BY <2>3, AdmittedFacts, CheckFacts
    <3>2. devices[t].client = c
      BY <2>1, <3>1 DEF Respects
    <3>3. c # None
      BY <2>1, PairedAssumption DEF TypeOK
    <3>4. QED
      BY <2>3, <3>1, <3>2, <3>3
  <2>4. QED
    BY <2>2, <2>3
<1>2. QED
  BY <1>1, Invariant, PairedAssumption, PTL

(* Races included: a token not used for its lifetime is refused, whatever  *)
(* lifetime its code was given; one whose code never expires, from when it *)
(* is bound.                                                               *)
THEOREM IdleExpire == Spec => []IdleDevicesExpire
<1>1. PairedAssumption /\ IInv => IdleDevicesExpire
  <2> SUFFICES ASSUME PairedAssumption, IInv, DeviceTtl > 0,
                      NEW t \in Token, NEW c \in Anyone, Admitted(t, c),
                      life[t] > 0 \/ devices[t].client # None
               PROVE  clock <= granted[t] + Lifetime(t, devices[t])
    BY DEF IdleDevicesExpire, Anyone
  <2> DEFINE l == Lifetime(t, devices[t])
  <2>1. devices[t].known /\ ~Expired(devices[t])
    BY AdmittedFacts, CheckFacts
  <2>2. devices[t].expires # Never /\ devices[t].expires <= granted[t] + l
        /\ granted[t] # Never
    BY <2>1 DEF IInv, EndsInv, Ends, EndsInTime, MustEnd, Allowance, Lifetime
  <2>3. /\ devices[t].expires \in Nat \cup {Never} /\ granted[t] \in Nat \cup {Never}
        /\ clock \in Nat /\ l \in Nat
    BY PairedAssumption DEF IInv, TypeOK, Device, Lifetime
  <2> HIDE DEF l
  <2>4. clock <= devices[t].expires
    BY <2>1, <2>2, <2>3 DEF Expired
  <2>5. clock <= granted[t] + l
    BY <2>2, <2>3, <2>4
  <2>6. QED
    BY <2>5 DEF l
<1>2. QED
  BY <1>1, Invariant, PairedAssumption, PTL
=============================================================================
