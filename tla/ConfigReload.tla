---------------------------- MODULE ConfigReload -----------------------------
(***************************************************************************)
(* orbitory.config.json while it is in use. The command line               *)
(* (src/bin/orbitory-host.js) sets providers up, removes them and writes a *)
(* first file; each run is a process of its own that reads the file, asks  *)
(* questions for as long as the operator takes, and replaces the file by   *)
(* what it made of the text it read. An operator edits it by hand. The     *)
(* host (src/src/agentConfig.ts, sessionStore.ts) reads the file again,    *)
(* when it has changed, for every request of the phone that needs it.      *)
(*                                                                         *)
(* The host serves one request at a time and awaits nothing while it does, *)
(* but each access of the file is a step of its own: the file may be       *)
(* replaced between two of them. All providers that setup makes are for    *)
(* one project folder, the one the file is in.                             *)
(***************************************************************************)
EXTENDS AgentConfig

CONSTANTS
  Launcher,           \* command-line processes
  Answers,            \* what an operator may tell setup
  HandWritten,        \* entries that an operator may write by hand
  Found,              \* where the directories of the history may lead
  MaxWrites,          \* bound: how often the file is changed
  MaxEdits,           \* bound: how often by hand
  MaxEngine           \* bound: a container engine is installed or removed

(* A provider; whether recent projects are shared, to be shown by Codex or *)
(* to be used by Claude; whether it may create projects, if asked.         *)
Answer == [type : AgentType, share : BOOLEAN, create : {"yes", "no", "unasked"}]

ASSUME ReloadAssumption ==
  /\ Answers \subseteq {a \in Answer : a.type = "custom" => ~a.share /\ a.create = "unasked"}
  /\ HandWritten \subseteq Entry
  /\ Found \subseteq Place \ {"root", "missing"}
  /\ MaxWrites \in Nat /\ MaxEdits \in Nat /\ MaxEngine \in Nat

VARIABLES
  file,               \* orbitory.config.json
  launcher,           \* the command-line processes
  engine, installs,   \* a container engine is there; changes so far
  live,               \* the host's agentConfigs, and the revision they are of
  request,            \* the request that the host is serving
  phone,              \* the provider catalog that the phone was last sent
  started,            \* the session that the last request started, if it did
  refused             \* the providers it was refused, and might have been for

vars == <<file, launcher, engine, installs, live, request, phone, started, refused>>

(* What a file says: its entries; the provider of the recent projects and  *)
(* the others that may use them; the providers that may create projects.   *)
Content == [agents : Seq(Named), main : SUBSET Id, more : SUBSET Id, creation : SUBSET Id]
NoContent == [agents |-> <<>>, main |-> {}, more |-> {}, creation |-> {}]

(* "torn": opened to be written, and empty. rev stands for what stat says, *)
(* ino is the revision at which the file of that name came to be.          *)
File == [text : {"absent", "torn", "whole"}, is : Content, rev : 0..MaxWrites,
         ino : 0..MaxWrites, edits : 0..MaxEdits]

(* "missing": a process of --init-config that has found no file; ino is    *)
(* the file it opened then.                                                *)
Process == [pc : {"idle", "asking", "missing", "creating", "done"}, read : Content,
            ino : 0..MaxWrites]

(* "launch" is strict about the catalog that the phone shows, "start" is   *)
(* not. Which provider it is for is chosen where it is looked up.          *)
Served == [pc : {"idle", "stat", "load", "catalog", "resolve"},
           kind : {"providers", "launch", "start"}, project : BOOLEAN,
           again : BOOLEAN,               \* resolveLaunch refreshes again
           from : 0..MaxWrites,           \* the file when the request came in
           rev : 0..MaxWrites]            \* the revision that refresh sampled

Idle == [pc |-> "idle", kind |-> "providers", project |-> FALSE,
         again |-> FALSE, from |-> 0, rev |-> 0]

(* Every variable has its type, and no provider is live or offered that no *)
(* entry could make.                                                       *)
TypeOK ==
  /\ file \in File
  /\ launcher \in [Launcher -> Process]
  /\ engine \in BOOLEAN /\ installs \in 0..MaxEngine
  /\ live.rev \in 0..MaxWrites /\ live.read \in 0..MaxWrites
  /\ DOMAIN live.configs \subseteq Id
  /\ \A id \in DOMAIN live.configs : live.configs[id] \in Config
  /\ request \in Served
  /\ phone.from \in 0..MaxWrites /\ phone.installs \in 0..MaxEngine
  /\ \A s \in started : s.config \in Config
  /\ refused \subseteq Id

(* The text that a reader gets: nothing of a file that is torn.            *)
Readable == IF file.text = "whole" THEN file.is ELSE NoContent

-----------------------------------------------------------------------------
(* The command line.                                                       *)

realAgentSandbox ==
  IF Darwin THEN [mode |-> "sandbox-exec", required |-> TRUE, network |-> "on"]
  ELSE [mode |-> "restricted-process", required |-> FALSE, network |-> "unset"]

demoSandbox ==
  IF Darwin THEN [mode |-> "sandbox-exec", required |-> FALSE, network |-> "off"]
  ELSE [mode |-> "restricted-process", required |-> FALSE, network |-> "unset"]

ProviderIo == [claudeCode |-> "stream-json", codex |-> "codex-jsonl", custom |-> "text"]

createProviderConfig(type) ==
  LET sandbox == IF type = "custom" THEN demoSandbox ELSE realAgentSandbox
  IN [type |-> type, io |-> ProviderIo[type], enabled |-> TRUE, fields |-> "good",
      dir |-> "project", keys |-> "common", mode |-> sandbox.mode,
      required |-> sandbox.required, network |-> sandbox.network]

(* The ids of the entries that setup takes for the provider of this folder;*)
(* the first is used.                                                      *)
findExistingProvider(c, type) ==
  LET same == {i \in DOMAIN c.agents : c.agents[i].entry.type = type
                                       /\ c.agents[i].entry.dir = "project"}
  IN {c.agents[i].id : i \in {j \in same : \A k \in same : j <= k}}

(* The entries with another id, in the order of the file: entry k of the   *)
(* result is the one that has k of them up to its place.                   *)
Without(agents, id) ==
  LET Kept == {i \in DOMAIN agents : agents[i].id # id}
      Upto(i) == {j \in Kept : j <= i}
  IN [k \in 1..Cardinality(Kept) |->
        agents[CHOOSE i \in Kept : Cardinality(Upto(i)) = k]]

upsertAgent(agents, id, entry) == Append(Without(agents, id), [id |-> id, entry |-> entry])

(* What setup makes of the text it read and of the answers.                *)
runGuidedSetup(c, id, answer) ==
  [agents |-> upsertAgent(c.agents, id, createProviderConfig(answer.type)),
   main |-> IF answer.type # "codex" THEN c.main
            ELSE IF answer.share THEN {id} ELSE {},
   more |-> CASE answer.type = "codex" -> {}
              [] answer.type = "claudeCode" /\ c.main # {} ->
                   IF answer.share THEN c.more \cup {id} ELSE c.more \ {id}
              [] OTHER -> c.more,
   creation |-> CASE answer.create = "yes" -> c.creation \cup {id}
                  [] answer.create = "no" -> c.creation \ {id}
                  [] OTHER -> c.creation]

removeKeepingGrants(c, id) ==           \* mutant: the creation grant stays
  [agents |-> Without(c.agents, id), main |-> c.main \ {id},
   more |-> IF id \in c.main THEN {} ELSE c.more \ {id}, creation |-> c.creation]

removeConfiguredProvider(c, id) ==
  [agents |-> Without(c.agents, id),
   main |-> c.main \ {id},
   more |-> IF id \in c.main THEN {} ELSE c.more \ {id},
   creation |-> c.creation \ {id}]

WriteBy(content, hand) ==
  /\ file.rev < MaxWrites
  /\ file' = [text |-> "whole", is |-> content, rev |-> file.rev + 1,
              ino |-> file.rev + 1, edits |-> file.edits + hand]

Write(content) == WriteBy(content, 0)

(* A setup or a removal reads the file; a torn one makes it give up.       *)
loadConfigForSetup(p) ==
  /\ launcher[p].pc = "idle"
  /\ file.text # "torn"
  /\ launcher' = [launcher EXCEPT ![p] =
                    [pc |-> "asking", read |-> Readable, ino |-> 0]]
  /\ UNCHANGED <<file, engine, installs, live, request, phone, started, refused>>

Exit(p) == launcher' = [launcher EXCEPT ![p] = [pc |-> "done", read |-> NoContent, ino |-> 0]]

(* Ids are random: a new one is not found anywhere.                        *)
Fresh(id) ==
  /\ id \notin IdsOf(file.is.agents) \cup DOMAIN live.configs \cup DOMAIN phone.catalog.shown
  /\ \A p \in Launcher : id \notin IdsOf(launcher[p].read.agents)

SetUp(p) ==
  /\ launcher[p].pc = "asking"
  /\ \E answer \in Answers, id \in Id :
       LET c == launcher[p].read
           existing == findExistingProvider(c, answer.type)
       IN /\ answer.type = "claudeCode" /\ answer.share => c.main # {}
          /\ IF existing # {} THEN id \in existing ELSE Fresh(id)
          /\ Write(runGuidedSetup(c, id, answer))
  /\ Exit(p)
  /\ UNCHANGED <<engine, installs, live, request, phone, started, refused>>

Remove(p) ==
  /\ launcher[p].pc = "asking"
  /\ \E id \in IdsOf(launcher[p].read.agents) :
       Write(removeConfiguredProvider(launcher[p].read, id))
  /\ Exit(p)
  /\ UNCHANGED <<engine, installs, live, request, phone, started, refused>>

(* A login that fails, an answer that cancels, a folder that is not there. *)
GiveUp(p) ==
  /\ launcher[p].pc = "asking"
  /\ Exit(p)
  /\ UNCHANGED <<file, engine, installs, live, request, phone, started, refused>>

(* --init-config looks whether there is a file. Only then is it opened:    *)
(* created, or emptied if another process has made one in the meantime.    *)
InitConfig(p) ==
  /\ launcher[p].pc = "idle"
  /\ file.text = "absent"
  /\ launcher' = [launcher EXCEPT ![p].pc = "missing"]
  /\ UNCHANGED <<file, engine, installs, live, request, phone, started, refused>>

OpenConfig(p) ==
  LET ino == IF file.text = "absent" THEN file.rev + 1 ELSE file.ino
  IN /\ launcher[p].pc = "missing"
     /\ file.rev < MaxWrites
     /\ file' = [text |-> "torn", is |-> NoContent, rev |-> file.rev + 1,
                 ino |-> ino, edits |-> file.edits]
     /\ launcher' = [launcher EXCEPT ![p] =
                       [pc |-> "creating", read |-> NoContent, ino |-> ino]]
     /\ UNCHANGED <<engine, installs, live, request, phone, started, refused>>

(* The text goes to the file that was opened, if it still has the name.    *)
(* (Its ids are new in the code; here they may have been seen before.)     *)
FillConfig(p) ==
  LET Off(type) == [createProviderConfig(type) EXCEPT !.enabled = FALSE]
  IN /\ launcher[p].pc = "creating"
     /\ IF file.ino # launcher[p].ino THEN UNCHANGED file
        ELSE /\ file.rev < MaxWrites
             /\ \E a, b, c \in Id :
                  /\ Cardinality({a, b, c}) = 3
                  /\ file' = [file EXCEPT !.text = "whole", !.rev = @ + 1, !.is =
                        [NoContent EXCEPT !.agents =
                           <<[id |-> a, entry |-> createProviderConfig("custom")],
                             [id |-> b, entry |-> Off("claudeCode")],
                             [id |-> c, entry |-> Off("codex")]>>]]
     /\ Exit(p)
     /\ UNCHANGED <<engine, installs, live, request, phone, started, refused>>

(* By hand: another entry in the place of one, or in front under its id.   *)
Edit ==
  /\ file.text = "whole" /\ file.edits < MaxEdits
  /\ \E i \in DOMAIN file.is.agents, e \in HandWritten :
       LET named == [id |-> file.is.agents[i].id, entry |-> e]
       IN \/ WriteBy([file.is EXCEPT !.agents[i] = named], 1)
          \/ WriteBy([file.is EXCEPT !.agents = <<named>> \o @], 1)
  /\ UNCHANGED <<launcher, engine, installs, live, request, phone, started, refused>>

EngineChanges ==
  /\ installs < MaxEngine
  /\ engine' = ~engine
  /\ installs' = installs + 1
  /\ UNCHANGED <<file, launcher, live, request, phone, started, refused>>

-----------------------------------------------------------------------------
(* The host. A request begins with refreshAgentConfigs: first the revision *)
(* is sampled, then, if it is another one, the file is read.               *)

configRevisionBySize == IF file.text = "absent" THEN 0 ELSE 1 + Len(file.is.agents)  \* mutant: the size only

configRevision == file.rev

Ask(kind, project) ==
  /\ request.pc = "idle"
  /\ kind = "launch" => DOMAIN phone.catalog.shown # {}
  /\ request' = [pc |-> "stat", kind |-> kind, project |-> project, again |-> FALSE,
                 from |-> file.rev, rev |-> 0]
  /\ started' = {} /\ refused' = {}
  /\ UNCHANGED <<file, launcher, engine, installs, live, phone>>

providersRequest == Ask("providers", FALSE)
startSession == \E kind \in {"launch", "start"}, project \in BOOLEAN : Ask(kind, project)

(* What follows the allowlist's refresh.                                   *)
AfterRefresh(r) ==
  CASE r.again \/ (r.kind = "start" /\ ~r.project) -> [r EXCEPT !.pc = "resolve"]
    [] r.kind = "start" /\ ~r.again /\ r.project -> [r EXCEPT !.pc = "stat", !.again = TRUE]
    [] OTHER -> [r EXCEPT !.pc = "catalog"]

Stat ==
  /\ request.pc = "stat"
  /\ request' = IF configRevision = live.rev THEN AfterRefresh(request)
                ELSE [request EXCEPT !.pc = "load", !.rev = configRevision]
  /\ UNCHANGED <<file, launcher, engine, installs, live, phone, started, refused>>

refreshAgentConfigs ==
  /\ request.pc = "load"
  /\ live' = [configs |-> loadAgentConfigs(Readable.agents, engine),
              rev |-> request.rev, read |-> file.rev]
  /\ request' = AfterRefresh(request)
  /\ UNCHANGED <<file, launcher, engine, installs, phone, started, refused>>

Answered == request' = Idle

(* A launch is refused: it was for one of these, and for no project.       *)
Refuse(ids) == refused' = IF request.project THEN {} ELSE ids

(* The file is read once more for the descriptors: they are sent, or       *)
(* compared with what the phone was sent.                                  *)
loadProviderCatalog ==
  LET now == loadProviderDescriptors(Readable.agents, engine, live.configs)
  IN /\ request.pc = "catalog"
     /\ CASE request.kind = "providers" ->
               /\ phone' = [catalog |-> now, from |-> request.from, installs |-> installs]
               /\ Answered
               /\ UNCHANGED refused
          [] request.kind # "providers" /\ catalogRevision(now) # catalogRevision(phone.catalog) ->
               /\ Answered
               /\ Refuse(DOMAIN phone.catalog.shown)
               /\ UNCHANGED phone
          [] OTHER ->
               /\ request' = IF request.project THEN [request EXCEPT !.pc = "stat", !.again = TRUE]
                             ELSE [request EXCEPT !.pc = "resolve"]
               /\ UNCHANGED <<phone, refused>>
     /\ UNCHANGED <<file, launcher, engine, installs, live, started>>

(* What the host's table may have for a project: its kind, and where its   *)
(* directory leads. A project of the history may be anywhere but the root; *)
(* one was created where confinement is not refused.                       *)
Target ==
  [kind : {"configured"}, dir : Place \ {"root", "missing"}]
    \cup [kind : {"history"}, dir : Found]
    \cup [kind : {"created"}, dir : {d \in Place \ {"missing"} : confinedWorkingDirectoryIsSafe(d)}]

(* A configured project must still be the directory of its entry; one that *)
(* was discovered, or created, is for the providers that the file, read    *)
(* again, names for it.                                                    *)
Granted(target, id, config) ==
  CASE target.kind = "configured" -> config.entry.dir = target.dir
    [] target.kind = "history" -> Readable.main # {} /\ id \in Readable.main \cup Readable.more
    [] target.kind = "created" -> id \in Readable.creation

Start(id, kind, config) ==
  /\ started' = {[kind |-> request.kind, from |-> request.from, id |-> id, project |-> kind,
                  config |-> config, runs |-> wrapCommandForSandbox(config)]}
  /\ refused' = {}

(* A project is run in its own directory, in the place of the entry's.     *)
resolveLaunch ==
  /\ request.pc = "resolve"
  /\ \E id \in IF request.kind = "launch" THEN DOMAIN phone.catalog.shown ELSE Id :
       \/ /\ id \in DOMAIN live.configs /\ ~request.project
          /\ Start(id, "none", live.configs[id])
       \/ /\ id \in DOMAIN live.configs /\ request.project
          /\ \E target \in Target :
               /\ Granted(target, id, live.configs[id])
               /\ Start(id, target.kind, [live.configs[id] EXCEPT !.entry.dir = target.dir])
       \/ /\ request.project \/ id \notin DOMAIN live.configs
          /\ Refuse({id})
          /\ UNCHANGED started
  /\ Answered
  /\ UNCHANGED <<file, launcher, engine, installs, live, phone>>

Init ==
  /\ \/ file = [text |-> "absent", rev |-> 0, ino |-> 0, is |-> NoContent, edits |-> 0]
     \/ \E id \in Id, answer \in Answers :
          file = [text |-> "whole", rev |-> 0, ino |-> 0, edits |-> 0,
                  is |-> runGuidedSetup(NoContent, id, answer)]
  /\ launcher = [p \in Launcher |-> [pc |-> "idle", read |-> NoContent, ino |-> 0]]
  /\ engine \in BOOLEAN /\ installs = 0
  /\ live = [configs |-> loadAgentConfigs(Readable.agents, engine), rev |-> 0, read |-> 0]
  /\ request = Idle
  /\ phone = [catalog |-> [order |-> <<>>, shown |-> [id \in {} |-> 0]], from |-> 0, installs |-> 0]
  /\ started = {} /\ refused = {}

Next ==
  \/ \E p \in Launcher : loadConfigForSetup(p) \/ SetUp(p) \/ Remove(p) \/ GiveUp(p)
                         \/ InitConfig(p) \/ OpenConfig(p) \/ FillConfig(p)
  \/ Edit \/ EngineChanges
  \/ providersRequest \/ startSession
  \/ Stat \/ refreshAgentConfigs \/ loadProviderCatalog \/ resolveLaunch

Spec == Init /\ [][Next]_vars

-----------------------------------------------------------------------------
(* Whatever order setups, removals, first files and edits are made in, and *)
(* whichever of them read the file before another wrote it: a grant in the *)
(* file names a provider that is in the file. (A setup that read an old    *)
(* text may bring a provider back, together with what it was granted.)     *)
RefsResolve ==
  file.is.main \cup file.is.more \cup file.is.creation \subseteq IdsOf(file.is.agents)

(* A session runs what the file said when its request came in, or later:   *)
(* a provider that was removed or changed before cannot be started, even   *)
(* if the file is replaced while the host reads it.                        *)
LaunchIsCurrent == \A s \in started : live.read >= s.from

(* A provider chosen from the catalog on the phone, outside a project,     *)
(* runs as the catalog said: with the boundary, or without, and with the   *)
(* network, or without, although entries and engine may have changed since.*)
LaunchIsAsShown ==
  \A s \in started :
    s.kind = "launch" /\ s.project = "none" =>
      LET shown == phone.catalog.shown[s.id] IN
      /\ shown.startable
      /\ shown.networkPolicy = "denied" <=> ~s.runs.network
      /\ "unsandboxed" \in shown.warnings <=> s.runs.boundary = "none"
      /\ shown.sandboxRequired => s.runs.boundary = shown.sandboxMode

(* What is started was enabled; it has the boundary that its entry         *)
(* requires, a container has no network unless the entry asks for it, and  *)
(* no agent in it that needs the host's approval bridge. Where the entry's *)
(* own directory is used, a confined agent is let into neither the root,   *)
(* the home nor a system directory, and a container mounts nothing below   *)
(* one: no such check is made of a project of the history, or of one that  *)
(* was created, whose directory takes the place of the entry's.            *)
LaunchIsConfined ==
  \A s \in started :
    LET e == s.config.entry IN
    /\ e.enabled
    /\ e.required => s.runs.boundary = e.mode
    /\ s.runs.boundary = "container" =>
         /\ s.runs.network => e.network = "on"
         /\ e.io # "stream-json"
    /\ s.project \in {"none", "configured"} =>
         /\ s.runs.boundary # "none" => e.dir \notin {"root", "home", "system"}
         /\ s.runs.boundary = "container" => e.dir = "project"

(* The phone is offered what it gets: a launch of a provider that was      *)
(* shown as startable, outside a project, is refused only if the file has  *)
(* changed since the catalog was asked for, or the engine since it was     *)
(* sent. The catalog is put together from two reads of the file, and the   *)
(* launch is compared with a third.                                        *)
OfferIsHonoured ==
  \A id \in refused :
    id \in DOMAIN phone.catalog.shown /\ phone.catalog.shown[id].startable =>
      file.rev # phone.from \/ installs # phone.installs
=============================================================================
