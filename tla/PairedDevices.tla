---------------------------- MODULE PairedDevices ----------------------------
(***************************************************************************)
(* Pairing credentials (src/src/pairedDevices.ts, auth.ts, pairingIssue.ts *)
(* and scripts/pairing-cli.ts). One file holds every device record. The    *)
(* host and each call of the command line read it whole, change their copy *)
(* and write it whole: writeFileSync empties the file, then fills it. None *)
(* of this takes a lock, so the steps of two processes interleave, and a   *)
(* process may die, or a system call fail, between any two of them.        *)
(*                                                                         *)
(* Abstractions. A record's id, its token and the token's hash are one     *)
(* value; names and dates that decide nothing are left out. A file that is *)
(* absent, empty or cannot be parsed is read as no records, so "devices"   *)
(* is what load() would return. The clock counts units of a token's life.  *)
(***************************************************************************)
EXTENDS Integers, FiniteSets

CONSTANTS
  Token,              \* device tokens that may be minted; bound
  StaticToken,        \* ORBITORY_PAIRING_TOKEN
  StaticEnabled,      \* STATIC_TOKEN_ENABLED
  Client,             \* ids of the phones' saved profiles
  Host, Cli,          \* the host process; command-line processes
  PairTtl,            \* PAIRING_TTL_SECONDS, 0: codes do not expire
  CodeTtl,            \* lifetimes that --ttl may give a single code, 0 too
  DeviceTtl,          \* DEVICE_TOKEN_TTL_SECONDS, 0: devices do not expire
  MaxClock,           \* bound
  None                \* no token, no client

ASSUME PairedAssumption ==
  /\ PairTtl \in Nat /\ CodeTtl \subseteq Nat
  /\ DeviceTtl \in Nat /\ MaxClock \in Nat
  /\ StaticEnabled \in BOOLEAN
  /\ Host \notin Cli
  /\ None \notin Token \cup Client
  /\ StaticToken \notin Token \cup {None}

VARIABLES
  devices,            \* what load() returns: a record for each token
  saving,             \* the save under way in each process
  clock,
  told,               \* tokens whose revocation was written
  granted, users,     \* when a token was issued or last let in, and whom it was
  life,               \* the lifetime its code was issued with
  raced               \* a save has written back an outdated copy

file == <<devices, saving>>
history == <<told, granted, users, life, raced>>
vars == <<file, clock, history>>

Process == Cli \cup {Host}
Never == -1
Device == [known : BOOLEAN, revoked : BOOLEAN,
           client : Client \cup {None}, expires : Nat \cup {Never}]
Unknown == [known |-> FALSE, revoked |-> FALSE, client |-> None, expires |-> Never]
NoDevices == [t \in Token |-> Unknown]

Saving == [step   : {"loaded", "emptied"},
           for    : {"issue", "revoke", "verify"},
           token  : Token,
           client : Client \cup {None},
           copy   : [Token -> Device],
           stale  : BOOLEAN]          \* another process has saved since load
Idle == [step |-> "none"]

TypeOK ==
  /\ devices \in [Token -> Device]
  /\ saving \in [Process -> Saving \cup {Idle}]
  /\ clock \in Nat
  /\ told \subseteq Token
  /\ granted \in [Token -> Nat \cup {Never}]
  /\ users \in [Token -> SUBSET Client]
  /\ life \in [Token -> Nat]
  /\ raced \in BOOLEAN

Init ==
  /\ devices = NoDevices
  /\ saving = [p \in Process |-> Idle]
  /\ clock = 0
  /\ told = {}
  /\ granted = [t \in Token |-> Never]
  /\ users = [t \in Token |-> {}]
  /\ life = [t \in Token |-> 0]
  /\ raced = FALSE

---------------------------------------------------------------------------
(* load, change, save *)

Free(p) == saving[p].step = "none"

Load(p, for, t, c, record) ==
  saving' = [saving EXCEPT ![p] =
    [step |-> "loaded", for |-> for, token |-> t, client |-> c,
     copy |-> [devices EXCEPT ![t] = record], stale |-> FALSE]]

\* The copies that others have loaded are outdated once p writes.
MoveOn(p, next) ==
  saving' = [q \in Process |->
    IF q = p THEN next
    ELSE IF Free(q) THEN saving[q] ELSE [saving[q] EXCEPT !.stale = TRUE]]

\* writeFileSync opens the file and empties it ...
Empty(p) ==
  /\ saving[p].step = "loaded"
  /\ devices' = NoDevices
  /\ MoveOn(p, [saving[p] EXCEPT !.step = "emptied"])
  /\ UNCHANGED <<clock, history>>

\* ... and fills it from the start: what another process has put there in the
\* meantime may stick out at the end, and the text is then no longer JSON.
Fill(p) ==
  LET s == saving[p] IN
  /\ s.step = "emptied"
  /\ devices' \in {s.copy} \cup (IF devices = NoDevices THEN {} ELSE {NoDevices})
  /\ MoveOn(p, Idle)
  /\ raced' = (raced \/ s.stale)
  /\ told' = IF s.for = "revoke" THEN told \cup {s.token} ELSE told
  /\ users' = IF s.for = "verify"
              THEN [users EXCEPT ![s.token] = @ \cup ({s.client} \ {None})]
              ELSE users
  /\ UNCHANGED <<clock, granted, life>>

\* The disk is full, or the process dies: the file stays as it is.
Abandon(p) ==
  /\ ~Free(p)
  /\ saving' = [saving EXCEPT ![p] = Idle]
  /\ UNCHANGED <<devices, clock, history>>

---------------------------------------------------------------------------
(* The operations of the store *)

Expiry(ttl) == IF ttl > 0 THEN clock + ttl ELSE Never

Expired(r) == r.expires # Never /\ clock > r.expires

\* The record of a token that is issued: bound to no client yet.
issue(ttl) == [known |-> TRUE, revoked |-> FALSE, client |-> None, expires |-> Expiry(ttl)]

\* A fresh random token: by the command line, and by the host when it starts.
issuePairingCode(p, t, ttl) ==
  /\ Free(p)
  /\ granted[t] = Never
  /\ Load(p, "issue", t, None, issue(ttl))
  /\ granted' = [granted EXCEPT ![t] = clock]
  /\ life' = [life EXCEPT ![t] = ttl]
  /\ UNCHANGED <<devices, clock, told, users, raced>>

\* mutant: a revocation is not looked at.
CheckUnrevoked(t, c) ==
  IF t \notin Token THEN IF t = None THEN "missing" ELSE "unknown"
  ELSE LET r == devices[t] IN
    CASE ~r.known -> "unknown"
      [] Expired(r) -> "expired"
      [] r.client # None /\ c # r.client -> "device_mismatch"
      [] OTHER -> "ok"

\* What verify answers for a token that a client presents.
Check(t, c) ==
  IF t \notin Token THEN IF t = None THEN "missing" ELSE "unknown"
  ELSE LET r == devices[t] IN
    CASE ~r.known -> "unknown"
      [] r.revoked -> "revoked"
      [] Expired(r) -> "expired"
      [] r.client # None /\ c # r.client -> "device_mismatch"
      [] OTHER -> "ok"

\* verifyPresentedToken: only a token no record knows may be the static one.
Auth(t, c) ==
  CASE Check(t, c) = "ok" -> "device"
    [] Check(t, c) \in {"missing", "unknown"} /\ StaticEnabled /\ t = StaticToken -> "static"
    [] OTHER -> Check(t, c)

Admitted(t, c) == Auth(t, c) \in {"device", "static"}

\* mutant: a code made to last for ever makes a device that does.
UsedForEver(r, c) == [r EXCEPT !.client = IF @ = None THEN c ELSE @,
                               !.expires = IF @ = Never THEN Never ELSE Expiry(DeviceTtl)]

\* The first use binds the client; every use moves the expiry on.
Used(r, c) == [r EXCEPT !.client = IF @ = None THEN c ELSE @, !.expires = Expiry(DeviceTtl)]

\* verify writes its copy back before it answers; a refusal writes nothing.
verify(t, c) ==
  /\ Free(Host)
  /\ Auth(t, c) = "device"
  /\ Load(Host, "verify", t, c, Used(devices[t], c))
  /\ granted' = [granted EXCEPT ![t] = clock]
  /\ UNCHANGED <<devices, clock, told, users, life, raced>>

\* revokeCode of the command line, which reports its success at the end.
revoke(p, t) ==
  /\ Free(p)
  /\ devices[t].known /\ ~devices[t].revoked
  /\ Load(p, "revoke", t, None, [devices[t] EXCEPT !.revoked = TRUE])
  /\ UNCHANGED <<devices, clock, history>>

Tick ==
  /\ clock < MaxClock
  /\ clock' = clock + 1
  /\ UNCHANGED <<file, history>>

SaveStep(p) == Empty(p) \/ Fill(p) \/ Abandon(p)

\* printCode takes a lifetime with --ttl, or the configured one.
CliStep(p) ==
  \/ SaveStep(p)
  \/ \E t \in Token : \/ \E ttl \in CodeTtl \cup {PairTtl} : issuePairingCode(p, t, ttl)
                     \/ revoke(p, t)

HostStep ==
  \/ SaveStep(Host)
  \/ \E t \in Token : \/ issuePairingCode(Host, t, PairTtl)
                     \/ \E c \in Client \cup {None} : verify(t, c)

Next == HostStep \/ Tick \/ \E p \in Cli : CliStep(p)

Spec == Init /\ [][Next]_vars

---------------------------------------------------------------------------
(* Properties *)

\* What the store promises as long as no process writes back an outdated
\* copy, whatever else fails or dies half-way: a device whose revocation was
\* confirmed is refused, and a device that was let in under one profile is
\* let in under no other (verify, revoke).
CredentialsExact ==
  ~raced => /\ \A t \in told, c \in Client \cup {None} : ~Admitted(t, c)
            /\ \A t \in Token : \A c \in users[t], d \in Client \cup {None} :
                 d # c => ~Admitted(t, d)

\* How long a token lives unused by its record: as a code, and as a device that
\* is renewed; once it is bound, only the latter.
Lifetime(t, r) == IF r.client # None \/ life[t] < DeviceTtl THEN DeviceTtl ELSE life[t]

\* Races included: a token that was not used for its lifetime is refused; no
\* stale copy can prolong it. Only a code that was made to last for ever
\* (--ttl 0) does so, until it is bound to its first client: a stale copy may
\* undo the binding, but whoever is bound is bounded (issue, verify).
IdleDevicesExpire ==
  DeviceTtl > 0 =>
    \A t \in Token, c \in Client \cup {None} :
      Admitted(t, c) /\ (life[t] > 0 \/ devices[t].client # None) =>
        clock <= granted[t] + Lifetime(t, devices[t])
=============================================================================
