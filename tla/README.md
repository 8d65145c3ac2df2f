# Verification of orbitory-host

TLA+ models of the host agent of Orbitory (`src/`, TypeScript), the TLC runs that
check them on small instances, and TLAPS proofs about the core. Line numbers refer to
the commit in `src/`; paths below drop the common prefix `src/src/`.

Contents: [the system](#the-system) · [modules](#modules) · [runs](#runs) ·
[fairness](#fairness) · [proofs](#proofs) · [divergences](#divergences-found) ·
[not modelled](#what-is-not-modelled) · [plan](#plan)

## The system

A phone pairs with a host process and drives coding agents on it over a WebSocket. The
host is one Node.js process: **a handler runs to completion together with the microtasks
it queues**, and everything else (timers, child-process events, sockets, file writes of
other processes) interleaves between handlers. That is the grain of atomicity of every
module: an action is one macrotask, except where the code itself waits (a system call
during which another process may act, an `await` on a query).

| component | state | operations | hard part | what makes it correct |
|---|---|---|---|---|
| Codex exec provider (`providers/CodexExecProvider.ts`) | message queue, active turn, per-turn child and two timers, thread id, status | `sendMessage`, `stopSession`, turn callbacks (`data`, `error`, `close`), runtime and stop timers | callbacks of an old turn against a new one; late output; a message during the grace period of a failed turn | one supervised child at a time; status tells whether a turn runs; messages in order; turns and stops end |
| Claude stream provider (`providers/ClaudeCodeStreamProvider.ts`) | long-lived child, turn flags, timers, bridge token, MCP config and temp directory, status before an approval | `sendMessage` (respawns), `stopSession`, stream lines, `error`, `exit`, timers | respawn while the old child dies; several approvals, one on display; a decision that races the end | one child; doomed children are escalated; config and token live as long as the child; nothing is allowed after the end |
| Approval broker (`approvalBridge.ts`) | pending requests with timers, similar-action allowance | `request`, `decide`, timeout, `disposeAll` | callbacks that fire while the map is being emptied | every request is settled once, denied by default |
| Terminal provider (`providers/AgentProvider.ts:1399`) | one child, status, timers; module-wide registries for the exit of the host | spawn, marker lines, `stopSession`, `exit`, limit, host exit | markers and late output against exit; process groups, containers | doomed children die; SIGKILL reaches everything; exit ends the session |
| Mock provider (`providers/AgentProvider.ts:420`) | scripted timers, status, approval | scenario steps, messages, decisions | timers against messages and stops | no step after the end |
| Session store (`sessionStore.ts`) | sessions, providers, launch requests, seen message ids | `startSession`, `handleChatMessage`, `handleApprovalDecision`, `stopSession`, `absorb` | retries; events before subscription | one session per request id; a message is applied at most once; the copy is the latest state |
| Project catalog (`projectCatalog.ts`) | directories and markers on disk, request bindings, cached listing, one refresh in flight | `createProject`, `snapshot`, `resolveLaunch` | a crash or the user between two system calls; joined refreshes; old listings | one project per request id; the limit; nothing foreign touched or launched |
| WebSocket endpoint (`ws.ts`, `http.ts`, `server.ts`) | per connection: phase of the handshake, listeners, what was sent | connect, hello and its timeout, dispatch of commands, forwarding of events, close; REST refusals and refreshes | events, closes and slow answers between the steps of the handshake; a listener that throws | phones stay in step with the store; listings come in order; no connection is left half-way |
| Paired devices (`pairedDevices.ts`, `auth.ts`, `pairingIssue.ts`, `scripts/pairing-cli.ts`) | one JSON file shared by host and command line | `issue`, `verify`, `revoke`, each loads, changes and saves the whole file | two processes without a lock; a file emptied before it is filled | a revoked device stays revoked, a bound one bound; unused tokens expire |
| Audit trail (`audit.ts`, `auditStore.ts`) | append-only log, also written by the command line | `record`, derived from session events and commands | an append that fails or is cut off while phones are being told | what phones were told of is in the log, but for a bounded loss |
| Agent configuration, sandbox, setup (`agentConfig.ts`, `sandbox.ts`, `bin/orbitory-host.js`) | `orbitory.config.json`, the host's allowlist and the revision it is of, the catalog the phone was sent | guided setup, removal, first file; refresh, catalog, launch | the file is replaced between two reads of one request; the engine comes and goes | what is started is current, confined as required, and as the phone was shown |
| Relay and launch policy (`relayPolicy.ts`), controls, settings, parsers, scrubbing | none (pure functions over numbers, names and text) | - | boundaries | agreement with a reference definition |
| Discovery, TLS, logging, start-up, scripts | I/O only | - | - | - |

How they interact: `ws.ts` calls the store and the catalog; the store constructs a
provider per session, subscribes to its events and keeps a copy of its session
(`absorb`), by which it routes decisions and stops; the Claude provider owns an approval
broker, which the loopback HTTP route reaches by a token; every event the store emits is
forwarded to the connections and derived into audit records. `PROJECT.json` lists every
component with its status and every hazard with the line where it bites.

## Modules

**`AgentLifecycle`** is the abstract specification: what a provider of a real agent
promises the store about one session. Its state is the phase of the session (`open`,
`stopping`, `ended`) and the set of its unreaped processes. At most one process at a
time; `ended` is final and starts nothing; a process that outlived its welcome is reaped
in the end (fairness on `ReapDoomed`). The two conversational providers are shown to
implement it by `INSTANCE AgentLifecycle WITH phase <- ..., procs <- ...`. The terminal
provider does not (see below).

**`CodexExec`** models `CodexExecProvider` for one session. `turn[t]` is the `ActiveTurn`
record of the t-th turn with the state of its child and timers; the numbers of messages
stand for their texts, so their order can be stated. The handlers are compositions of
operators named for the methods (`failSession`, `setStatus`, `terminateWithEscalation`,
`processLine`, `finishTurn`) on a value of type `View`, because the code calls them in
sequence inside one handler. `microtask` is the one queued microtask whose effect
matters (`Ready` from the constructor, `NextTurn` from `finishTurn`). A launch has four
outcomes: it works, `spawn` throws, the child cannot be spawned, the prompt cannot be
written. SIGTERM is not an action: a process may exit or ignore it at any time.

**`ClaudeStream`** models `ClaudeCodeStreamProvider` with its `ApprovalBroker` and the
store's copy of the session. The state is a record (`Now`) on which the methods are
operators; an action is `Become` of their composition. `Detached` says whether the
sandbox gives the child a process group of its own, which decides whether Node marks it
killed, and so whether `sendMessage` respawns (`Accepts`). `strays` counts SIGKILL
timers whose handle was overwritten. `proc[c].owed` counts the messages a child has been
given and not answered, a history of what is in its pipe. `dirs` and `held` are the
directories of MCP configs on disk and the one the provider would remove; a spawn that
fails does so before the directory is made, while the config is written into it, later, or
asynchronously (`Outcome`).

**`TerminalAgent`** models `TerminalAgentProvider` in its three kinds of sandbox
(`mode`), and the `process.on("exit")` net of the module. Processes started by the agent
(`members`) and the container are state of their own, because SIGKILL to the child does
not by itself reach them. A registry holds a child only until it exits, and the code does
nothing about the rest of its group afterwards; `NoOrphans` is about supervised children.

**`ProjectCatalog`** models the creation of projects. The disk is a set of directories,
the request id in each one's marker, and who put what there; `making` is `createProject`
between two of its system calls, while the user may act and the host may die. `answered`
holds the answers of the last step. `MCProjectCatalog` adds the symmetry sets.

**`SessionStore`** models the store with the mock agent as its provider. `session` is the
provider's own session, `sessions` the store's copy, `told` what a phone knows from the
events alone. The methods are operators on a `View` of one session; `emit` is the only
thing that refreshes the copy and reaches the phone, so the order of assignments and
emits inside a handler is kept. A real session only reports a status here; the providers'
modules have the rest. `MCSessionStore` gives the launch options their values.

**`PairedDevices`** models the credential file as what `load()` would return. A process
that runs `issue`, `verify` or `revoke` holds a copy (`saving`), and its save is two steps
of their own, because `writeFileSync` empties the file (`Empty`) before it fills it
(`Fill`); it may die or fail at each (`Abandon`). Two saves at once may leave text that is
no JSON, which is read as no records. `stale` marks a copy loaded before another process
wrote, and `raced` remembers that such a copy was written back. `told`, `granted` and
`users` are history: which revocations were confirmed, when a token was last let in, and
under which profiles. `life` is the lifetime a code was issued with: the command line may
give each code its own (`CodeTtl`, `--ttl`), and 0 means for ever. `MCPairedDevices`
declares tokens and phones interchangeable.

**`WsConnection`** models the connection of a phone from the upgrade to the close. The
verdict on a credential is a choice (`Present`; `PairedDevices` has the reasons), the
session is reduced to the events from which audit entries are derived, the catalog to its
cache and the refresh in flight with those who await it (`builds`), the audit log to the
number of lines that phones were told of and that it lacks (`lost`) and whether its last
line has no end (`torn`). The order of the listeners matters and is kept: the audit trail
hears of an event before the sockets do, so an append that throws silences the event
(`Miss`). The store, the catalog, the audit trail and the endpoint meet in this module.

**`AgentConfig`** holds what the host makes of one configuration file, as operators: which
entries are valid (`validateEntry`), which of several with one id counts
(`loadAgentConfigs`), how a process is confined (`resolveSandboxPolicy`,
`wrapCommandForSandbox`), and the descriptor a phone sees of a live or a rejected entry.
**`ConfigReload`** extends it with the file, the command-line processes that replace it,
an operator who edits it, a container engine that is installed and removed, and the host,
which looks at the file two or three times in one request: each look is an action
(`Stat`, `refreshAgentConfigs`, `loadProviderCatalog`, `resolveLaunch`). A launch for a
project runs in the directory the host's table has for it (`Target`), in the place of the
entry's own. A first file (`--init-config`) takes three steps, because the command looks
whether there is a file before it opens, and so empties, whatever has the name by then.
`phone` remembers the revision of the file when its catalog was asked for and the changes
of the engine when it was sent, `refused` the providers that the last request may have
been for when it was turned down. `MCConfigReload` lists entries of each kind the loader
tells apart and two answers given to setup that grant everything, and declares ids and
processes interchangeable.

**`CodexExecProofs`**, **`ClaudeStreamProofs`**, **`TerminalAgentProofs`**,
**`ProjectCatalogProofs`**, **`SessionStoreProofs`**, **`PairedDevicesProofs`**,
**`WsConnectionProofs`** and **`ConfigReloadProofs`** hold the theorems about the module
they are named after.

Operators whose comment says *Slip* or *mutant* are mistakes a programmer could make in the
definition that follows them. Nothing refers to them; each shows, when it replaces its
neighbour, that a property has teeth (`PROJECT.json`, `mutants`).

### Abstractions shared by the models

- Statuses that no code tests apart are one value, "working" (planning, editing,
  searching, testing, and for the terminal agent idle, stuck, approvalNeeded).
- An output line is the kind of event the parser makes of it; lines that change no
  control state (chat, diffs, tests, terminal text) are one kind, "silent".
- Scrubbing, truncation, ring buffers, wording and localisation are left out.
- A signal to our own child does not fail (it could only with EPERM); writing to a pipe
  that is still writable does not throw, except the first prompt of a Codex turn, whose
  failure the code handles.
- A process that has exited may still have output in its pipe.

## Runs

| run | module, cfg | bounds | shows |
|---|---|---|---|
| `codex_exec` | `CodexExec` | 3 messages | `StatusMatchesTurn`, `ChildIsSupervised`, `PromptsInOrder`; every turn ends (`TurnsEnd`); `AgentLifecycle` implemented, liveness included |
| `codex_stranded` | `CodexExecStranded.cfg` | 2 messages | violation of `NoStrandedMessage` |
| `claude_stream` | `ClaudeStream` | 2 messages, 2 approvals, own group | `DoomedIsEscalated`, `FilesMatchChild`, `AutoOnlySimilar`, `NoLateAllow`; every request is answered and the approval status cleared (`RequestsAreAnswered`, `ApprovalStatusClears`); `AgentLifecycle` implemented, liveness included |
| `claude_orphan`, `claude_unbounded` | the cfg of that name | as small as they can be | violations, see below |
| `terminal_agent` | `TerminalAgent` | none needed: finite | `DoomedIsEscalated`, `NoOrphans`, `SignalsAreSafe`, `DoomedDies`, `ExitEndsSession` |
| `terminal_ceiling` | `TerminalCeiling.cfg` | none | violation of `CeilingTerminates` |
| `project_catalog` | `MCProjectCatalog` | 3 requests, 2 names, limit 2, 1 crash | `OneProjectPerRequest`, `LimitRespected`, `ForeignUntouched`, `LaunchIsOurs`, `RetryIdempotent`, `CallsAreServed` |
| `session_store` | `MCSessionStore` | 2 sessions, 1 request id, 1 message id, 3 options | `LaunchIsIdempotent`, `MessageOnce`, `EventsTellAll`, `CountersAreExact`, `OutcomeIsFinal`, `SessionsSettle` |
| `paired_devices` | `MCPairedDevices`, `PairedDevices.cfg` | 2 tokens, 2 clients, host and 1 command line, lifetimes 1, a code may have 0 (for ever), clock up to 2 | `CredentialsExact`: confirmed revocations and bindings hold until an outdated copy is written back; `IdleDevicesExpire`: expiry holds even then, and of a code that was made to last for ever once it is bound |
| `ws_connection` | `WsConnection` | 2 sockets, 1 change on disk, 2 failing appends | `PhoneInStep`, `AuditLossBounded`, `ProjectsNeverGoBack`, `ConnectionsSettle` |
| `agent_config` | `MCConfigReload` | 3 ids, 2 command lines, 2 writes, at most 1 by hand, 1 change of the engine, history in project folders or the home, no Mac | `RefsResolve`, `LaunchIsCurrent`, `LaunchIsAsShown`, `LaunchIsConfined`, `OfferIsHonoured` |

A type invariant is stated in every module with variables, and is a theorem
(`TypeCorrect`) for each but the abstract `AgentLifecycle`; no cfg repeats it. The
inductive invariants of the proofs were model-checked under the same bounds before they
were proved.

Why the bounds are enough. Three Codex messages give an old turn whose late events meet
a new one while a third message waits, in every order; the proofs remove the bound. Two
Claude messages and the first spawn give three children, so two respawns, one of them in
the grace period of the previous child. Two approvals are enough for one to hide the
other and for one similar action to follow the one that allowed it. Three request ids
over a limit of two projects make the limit, the left-over of a crash and a conflict meet;
the one crash may fall between any two system calls and the run continues after it with
all the memory lost; two staging names let one be left behind while the other is used.
Two sessions on two hosts are enough for a request id to meet a session of its own and one
that is not, and for one session's events to disturb the other's copy or counters; the
scenario of each is a choice, so every pair of scenarios meets. The three options are a
mock session with a prompt, a real one, and one for a host that does not exist.
Two tokens and two clients let one token be revoked, or presented under another profile,
while the save of the other is under way; one command line beside the host gives two
writers of the file, the smallest number that can race; with lifetimes of one unit and a
clock of two, a token can be used and still expire, and a code for ever can outlast that
(the proofs remove these bounds). Two sockets let
one join the refresh of the other, or be closed while the other awaits; one change on disk
tells an old listing from a new one, and two failing appends are enough for a torn line to
meet a second one. Two command lines and two writes make every pair of setup, removal,
first file and edit overlap; three ids are what a first file needs, and one change of the
engine may fall between any two reads of a request. (Opening and filling a first file are
a write each, so over a file that another process put there only the opening fits; answers
that take a grant away are not in the run. The proof has both.)

Deadlock is checked, except in `TerminalAgent` (a host that has exited does nothing more),
in `PairedDevices` (when all tokens are used up only the bounded clock is left) and where
the bound on messages makes an ended session stop, as the cfg files say.

## Fairness

Assumed, and nothing more: a timer that is armed fires; a queued microtask runs; a
process that was sent SIGKILL dies, its pipes close and Node reports it. The phone owes
nothing (it may never write, decide or stop) and the agent owes nothing (it may neither
print nor exit, and may ignore SIGTERM). So every liveness property rests on the limits
and the escalation in the code, which is what it is meant to check. `WsConnection` assumes
that the hello timer fires (`HelloTimeout`) and that a refresh of the catalog ends
(`BuildDone`): it reads local folders and bounds its one external query by a timer of its
own. Nothing is assumed of phones, sockets or the agents' output. `PairedDevices` and
`ConfigReload` have no liveness: a process may die or an operator think for ever.

## Proofs

Every safety invariant that a passing run checks is also a theorem for all values of the
constants, and so is every action property and the safety half of both refinements. The
mutants of `PROJECT.json` show that the properties have teeth; the theorems, that the
bounds of the runs hide nothing.

`CodexExecProofs` (about a thousand obligations) proves for **every** number of
messages what `codex_exec` checks for three:

- `TypeCorrect`: `Spec => []TypeOK`
- `NoOrphan`, `StatusHonest`, `Supervised`, `InOrder`: `NoOrphanTurn` and the three safety
  invariants of the run
- `Refinement`: `Spec => Contract!SafetySpec`, each step of the provider is a step of
  `AgentLifecycle` or a stutter; `EndedStaysEnded`: so what the contract promises holds of
  the provider, no step revives a failed session or starts a process in it

The only assumption is `MaxMessages \in Nat \ {0}`. None of the invariants is inductive
alone. `IInv` adds `Bounds` (turns are numbered without gaps and no more were started
than messages accepted), `MicrotaskInv` (what a queued microtask will find: `finishTurn`
queues it only with no turn and a non-empty queue), `TurnFlagsInv` (a turn that reported
a failure has failed the session or is recoverable: without it `finishTurn` might leave
"working" behind) and `NumbersInv` (no message ahead of the last accepted one, which
orders the queue against the turns). The proof first gives each operator on views a
lemma that says what it keeps (`Respects`); the step lemmas, one per action, cite those
and never expand the operators.

`ClaudeStreamProofs` proves, for **every** number of messages and permission requests,
`TypeCorrect`, `OnlySimilar`, `TooLate` (an action property) and `EndedStaysEnded` in both
modes, and, when the child has a process group of its own, `OneChild`, `Escalates`,
`FilesOfChild` and `Refinement` (`Spec => Contract!SafetySpec`). The last four say
`ASSUME Detached` because each is false without: TLC finds a counterexample to every one
of them under the constants of the run `claude_orphan`, which is that mode. The other
assumptions are `DetachedAssumption` and `BoundsAssumption`. `IInv` has a part for every
mode, `Base`, and one for `Detached`, `Supervised`. `Base` counts: children are numbered
as they are spawned, no child owes more answers than messages were sent, and each
escalation is paid for by a message, the stop or the failure (`Paid`), which is what
bounds the SIGKILL timers whose handle was overwritten; a stop leaves no request pending
(`Quiet`), a failure none on display (`Blank`), and what allows a similar action is one
the phone allowed (`Similar`). `Supervised` says that the fields of the provider name the
one live child and its MCP config, and that an unwanted child is being escalated. The methods
are composed in many ways, so each has a lemma about how its result follows from its
argument (`Follows`), and the step lemmas, one per action, give the invariant, the
unchanged permissions and the step of the contract together (`StepTaken`).

`TerminalAgentProofs` proves `TypeCorrect`, `Escalated`, `NothingLeft` and `SafeSignals`
(the module has no parameter). `IInv` adds `TimersInv` (an escalation timer is pending
only after a stop or a timeout and overwritten only by the second of the two, so there is
at most one stray), `RegistryInv` (the registries that the exit of the host walks hold the
child exactly while it lives) and `FreshInv` (nothing has happened before the spawn).
`NothingLeft` says nothing of a group whose leader had exited before the host did.

`ProjectCatalogProofs` proves, for **every** set of request ids, names and staging names,
every limit and every number of crashes, all that `project_catalog` checks: `TypeCorrect`,
`OneProject`, `WithinLimit`, `ForeignSafe`, `OurLaunches`, `RetryAnswered`, `CallsServed`.
It assumes that names, staging names and `None` differ (`NamesAreDistinct`: a normalized
name cannot look like the dot directory mkdtemp makes) and that the limit is positive
(`LimitAssumption`). The properties only speak of what is on disk between two steps;
`IInv` adds what holds in the middle of a creation. `MakingInv` says where the marker is
(nowhere, in the staging directory, in the target) and that the reserved directory is the
host's and unmarked; `UniqueInv` that a request has marked one directory at most;
`BoundInv` that memory agrees with the disk; `DiskInv` that only existing directories are
marked; `LimitInv` that there is room for the marker about to be written. The step that
needs care is `rename`: it removes one marker and adds another, so uniqueness and the
count are kept only because the target was unmarked until then.

`SessionStoreProofs` proves, for **every** number of sessions and sets of request ids,
hosts, options and messages, all that `session_store` checks except liveness:
`TypeCorrect`, `OneLaunch`, `AppliedOnce`, `NothingUnsaid`, `Counts` and `FinalOutcome` (an
action property). It assumes that options are host, provider and prompt
(`OptionAssumption`), that `None` is no request, host or number (`NoneAssumption`) and
`MaxSessions \in Nat`. The proof gives every function of the mock agent a lemma: from a
view in which session, copy and what was told agree it leads to one where they agree
again, which is where the order of assignments and emits matters. `BecomeStep` then shows
that the counters come out exact whatever they were before. `IInv` adds `Faithful` (copy
and events agree with the session), `Recorded` (a session's request is recorded under its
number and options, which makes replays answer of the right session), `Counted` (an
applied message is a seen one) and `Mocks`: a mock session with a timer is at work, one
that waits has no timer, and the timer of the final result runs only after an approval.
Without it a surviving timer could revive an ended session.

`PairedDevicesProofs` proves, for **every** set of tokens, clients and command lines, all
lifetimes, those of single codes included, and a clock without a bound, both properties of `paired_devices`: `TypeCorrect`,
`Exact` and `IdleExpire`. It assumes `PairedAssumption`: lifetimes are natural numbers, the
host is no command line, `None` is neither token nor client, and the static token is none
of the store's. The properties speak of the file only; `IInv` adds what holds of the
copies. `ExactInv` says that, until an outdated copy is written back, the file and every
copy that is up to date respect what was told and granted, and that such a copy already
contains the change it was made for: so filling the file from it keeps the promise that
this very step makes. Copies that are outdated need no such fact, because writing one sets
`raced`. `EndsInv` does not depend on races: every record in every copy that is bound, or was
issued with a lifetime, ends within that of its code or the device's of when its token was
last let in, and that moment only moves on. A code issued for ever is excepted until it is
bound, so `IdleDevicesExpire` is too.
`FreshInv` says that a token never issued is in no history and in nobody's hands, so
issuing one breaks no promise. `LoadInv` states once what an operation owes the invariant;
`issueInv`, `verifyInv` and `revokeInv` discharge it.

`WsConnectionProofs` proves, for **every** set of sockets, number of changes on disk and
number of failing appends, all that `ws_connection` checks except liveness:
`TypeCorrect`, `InStep`, `LossBounded` and `NeverBack` (an action property), from
`ConnectionAssumption` (both numbers are natural). `IInv` adds to the properties that a
steady connection listens (`Steady`) and, for the listings, `CatalogInv`: there is one
refresh at most (`OneRefresh`), and nobody, neither the cache nor a phone, knows of a
listing newer than what that refresh will read (`Knows`). That is why the answer that a
handshake awaits cannot be older than one the phone got while it waited, and it would be
lost if a second refresh could start beside the first.

`ConfigReloadProofs` proves, for **every** set of ids, processes, answers and hand-written
entries, every number of changes of the file and of the engine, on a Mac and elsewhere,
all that `agent_config` checks: `TypeCorrect`, `GrantsResolve`, `Current`, `AsShown`,
`Confined` and `Offered`. It assumes `PlatformAssumption` and `ReloadAssumption` (answers
are such as setup can get, entries have their type, bounds are natural). `IInv` adds that
grants resolve not only in the file but in every copy a process may still write back,
however old (`Processes`): overlapping processes lose each other's work and still leave a
file that is sound. `Ordered` puts the revisions in order (sampled, then read, both after
the request came in), `Allowlist` says that each live configuration was made by the loader
of some entry (`Made`), from which confinement follows for any entry at all (`Bounded` is
what is left of it when a project's directory takes the place of the entry's), and
`Compared` that a strict launch outside a project is resolved against the very list the
phone's catalog was compared with. `Steady` is behind `Offered`: while neither file nor
engine change, the allowlist that the phone's catalog was made from stays in force, since
the file is read again only for a newer revision, and any later catalog comes out equal.
The lemma `WithoutIds` says which ids are left when
those of one provider are filtered out; the prover has no definition of `SelectSeq`, so
`Without` gives the filtered list by its positions, and the lemma counts them.

Only model-checked, not proved: liveness and the fairness half of the refinements, which
are out of the reach of the proof system.

## Divergences found

Four have a run that exhibits them and an entry in `PROJECT.json` with the sentence of the
repository that they contradict.

- **A stranded message** (`codex_stranded`): sent in the grace period of a recoverable
  failure, it stays queued while the session shows idle.
- **A second child** (`claude_orphan`): without a process group, a message in the grace
  period spawns beside the dying child, whose exit then drops the new one.
- **An unlimited turn** (`claude_unbounded`): the result of one turn clears the limit of
  the next, already written.
- **A marker that switches off the limit** (`terminal_ceiling`): a final status printed
  by a running agent disables its limit and its stop.

The following came up while the models were written. They have no run of their own; the
models contain the behaviour, and the properties are stated so that they hold with it.

- The older of two pending permission requests cannot be decided from the phone while the
  newer one is shown (`providers/ClaudeCodeStreamProvider.ts:855-886`,
  `sessionStore.ts:776`); it waits for its timeout. `RequestsAreAnswered` holds.
- After a crash between writing the marker and the rename, a retry is refused as a conflict
  (`projectCatalog.ts:606`). `RetryIdempotent` speaks of projects that are in place.
- A confirmed revocation is lost when another process saves a copy it loaded before
  (`pairedDevices.ts:222`), although `scripts/pairing-cli.ts:125` says "It can no longer
  authenticate". `CredentialsExact` is conditioned on `~raced` for this reason.
- A status marker sets the status also after the exit event, so an ended terminal session
  may look alive. `AgentLifecycle!EndedIsFinal` fails for it; `ExitEndsSession` states what
  does hold.
- An append to the audit log that throws keeps the event from the phones
  (`auditStore.ts:151`), because the audit trail listens first. `PhoneInStep` excepts the
  connections that missed such an event.
- A launch for a project looks the allowlist up again after the catalog was compared
  (`projectCatalog.ts:724`, `sessionStore.ts:903`), so `LaunchIsAsShown` is about launches
  outside projects. `LaunchIsCurrent` and `LaunchIsConfined` are about all.
- A project of the history, or one that was created, is run in its own directory
  (`projectCatalog.ts:776`), which `containerMountIsSafe` never sees (a root for creation
  passes `confinedWorkingDirectoryIsSafe` only, `agentConfig.ts:953`): a container may mount
  a directory below a system one, or the home. `sandbox.ts:530` says that "the Docker socket
  / home / system paths can never be mounted here (the working directory itself is
  separately validated in `agentConfig.ts`)". `LaunchIsConfined` speaks of directories only
  where the entry's own is used, and of the rest of the confinement for all.
- When the MCP config cannot be written, its directory stays
  (`providers/ClaudeCodeStreamProvider.ts:412-418`, `607-626`), perhaps with a part of the
  text and the token, although the comment at 603 says that "the dir is removed on
  stop/exit". `FilesMatchChild` allows that one directory, in a session that has failed.
- `--ttl 0` makes a code that never expires even where `PAIRING_TTL_SECONDS` is positive
  (`pairingIssue.ts:54`, `pairedDevices.ts:193`); the device it makes does. A stale copy may
  undo the binding of such a code. `IdleDevicesExpire` excepts it while it is not bound.
- `--init-config` overwrites a file that another process puts in place between its look and
  its opening (`bin/orbitory-host.js:209`, `223`). `RefsResolve` holds all the same.
- A process of an agent that outlives the leader of its group gets no SIGKILL: the
  escalation is cleared and the registry forgets the group at the exit of the leader
  (`providers/AgentProvider.ts:1658-1667`). `NoOrphans` is about supervised children.
- The allowlist is refreshed when the file changes (`agentConfig.ts:1053`), not when an
  engine is installed: an entry that was downgraded stays downgraded, and is shown so.
- Setup replaces the whole entry of its folder and the whole file, so what another process
  or an operator wrote since it read the file is lost. `RefsResolve` holds all the same.

## What is not modelled

- **Relay and launch policy, provider controls, settings**: pure functions and tables that
  are called once or looked up anew each time, without state. Their tests enumerate the
  boundaries; they enter the models as constants (`PairTtl`, `StaticEnabled`) or choices.
- **The temp directory of a Claude child** is made after the MCP config and removed with it,
  and adds no control state (`chmod` failing right after `mkdtemp` leaves one behind).
- **Parsers and scrubbers** transform text; the models start from their result. A buffer of
  the Claude provider that is not reset at a respawn, so that half a line of the old child
  precedes the first of the new one, is below this abstraction: the joined text is a line
  of any kind, which `Line` allows. So is a write to a pipe that the agent has closed.
- **Wrapping of commands**: profiles, argument vectors and environments of sandboxes are
  text; `AgentConfig` keeps the boundary and the network they give.
- **Launcher**: login, Tailscale and the gate before a public start. Setup, removal and the
  first file are modelled in `ConfigReload`.
- **Discovery, TLS, logging, start-up, the approval bridge script**: I/O without a protocol
  of their own; the script's effect is the `Request` action of `ClaudeStream`.
- **Of modelled components**: the demo sessions seeded at start and the mock's lines, edits
  and replies; configured and history projects and the helper that queries Codex threads;
  copies, renames and removals of project directories by the user while they are being
  made; summaries, read-only answers and validation of frames in the endpoint; the content
  of audit entries and the filters of their list.

## Plan

Done: every module and run above, and proofs of all their safety properties. Next:

1. In `ClaudeStream` without a process group: what still holds there of files and
   escalation, as an invariant weaker than `Supervised`; the end of a session is proved
   for that mode already.
2. In `TerminalAgent`: a property for the output that is read after the exit event, the one
   hazard without a property.
