----------------------------- MODULE AgentConfig -----------------------------
(***************************************************************************)
(* What the host reads out of orbitory.config.json (src/src/agentConfig.ts)*)
(* and how it runs what it read (src/src/sandbox.ts): which entries become *)
(* providers, with which sandbox, and how the phone is told about them.    *)
(* Operators only; ConfigReload gives them a file that changes.            *)
(*                                                                         *)
(* Abstractions. A command, its arguments, limits and environment keys are *)
(* well formed or not ("fields"); the sandbox block has the keys every     *)
(* mode takes, well-formed container keys too, or something that is        *)
(* rejected ("keys"); a working directory is the kind of place it resolves *)
(* to. An entry without a sandbox block is one of mode "none". Provider    *)
(* controls, and what only the wording of a warning needs, are left out.   *)
(***************************************************************************)
EXTENDS Integers, Sequences, FiniteSets

CONSTANTS
  Id,                 \* provider ids
  Darwin              \* the host is a Mac, with /usr/bin/sandbox-exec

ASSUME PlatformAssumption == Darwin \in BOOLEAN

Mode == {"none", "restricted-process", "sandbox-exec", "container"}
RealCli == {"claudeCode", "codex"}
AgentType == RealCli \cup {"custom"}
Io == {"text", "stream-json", "codex-jsonl"}

(* Where a working directory leads, symbolic links followed: a project, a  *)
(* directory below a system directory, a system directory, the home        *)
(* directory, the root, nowhere.                                           *)
Place == {"project", "inside", "system", "home", "root", "missing"}

Entry == [type : AgentType, io : Io, enabled : BOOLEAN, fields : {"good", "bad", "managed"},
          dir : Place, mode : Mode, keys : {"common", "container", "wrong"},
          required : BOOLEAN, network : {"unset", "on", "off"}]

Named == [id : Id, entry : Entry]

Config == [entry : Entry, effective : Mode, supported : BOOLEAN]

-----------------------------------------------------------------------------
(* The sandbox of an entry.                                                *)

validateContainerConfig(e) == e.keys = "container"

parseSandboxPolicy(e) ==
  IF e.mode = "container" THEN validateContainerConfig(e) ELSE e.keys = "common"

allowNetwork(e) ==
  IF e.mode = "container" THEN e.network = "on" ELSE e.network # "off"

(* engine: a container engine's client is on the host's path just now.     *)
isSandboxModeSupported(mode, engine) ==
  /\ mode = "sandbox-exec" => Darwin
  /\ mode = "container" => engine

confinedWorkingDirectoryIsSafe(dir) == dir \notin {"root", "home", "system"}
containerMountIsSafe(dir) == dir \notin {"inside", "system"}

resolveSandboxPolicy(e, engine) ==
  LET supported == isSandboxModeSupported(e.mode, engine)
  IN [entry |-> e, supported |-> supported,
      effective |-> IF supported THEN e.mode ELSE "none"]

(* What a process is confined by, and whether it has a network.            *)
Boundary(mode, network) == [boundary |-> mode, network |-> network]

buildSandboxExecProfile(e) == Boundary("sandbox-exec", allowNetwork(e))
buildContainerArgv(e) == Boundary("container", allowNetwork(e))

wrapCommandForSandbox(c) ==
  CASE c.effective = "sandbox-exec" -> buildSandboxExecProfile(c.entry)
    [] c.effective = "container" -> buildContainerArgv(c.entry)
    [] OTHER -> Boundary(c.effective, TRUE)

-----------------------------------------------------------------------------
(* The entries that become providers.                                      *)

ioIsSupported(e) ==
  /\ e.io = "stream-json" => e.type = "claudeCode" /\ e.mode # "container"
  /\ e.io = "codex-jsonl" => e.type = "codex"
  /\ e.fields = "managed" => e.io = "text"

directoryIsSafe(e) ==
  /\ e.dir \notin {"missing", "root"}
  /\ e.mode # "none" => confinedWorkingDirectoryIsSafe(e.dir)
  /\ e.mode = "container" => containerMountIsSafe(e.dir)

validateEntryLenient(e, engine) ==      \* mutant: "required" is not looked at
  /\ e.fields # "bad" /\ parseSandboxPolicy(e) /\ ioIsSupported(e) /\ e.enabled
  /\ directoryIsSafe(e)

validateEntry(e, engine) ==
  /\ e.fields # "bad"
  /\ parseSandboxPolicy(e)
  /\ ioIsSupported(e)
  /\ e.enabled
  /\ directoryIsSafe(e)
  /\ e.required => isSandboxModeSupported(e.mode, engine)

IdsOf(agents) == {agents[i].id : i \in DOMAIN agents}

(* Of the valid entries with one id, the first counts.                     *)
loadAgentConfigs(agents, engine) ==
  LET Valid(id) == {i \in DOMAIN agents :
                      agents[i].id = id /\ validateEntry(agents[i].entry, engine)}
      First(id) == CHOOSE i \in Valid(id) : \A j \in Valid(id) : i <= j
  IN [id \in {n \in IdsOf(agents) : Valid(n) # {}} |->
        resolveSandboxPolicy(agents[First(id)].entry, engine)]

-----------------------------------------------------------------------------
(* What the phone is told.                                                 *)

providerNetworkPolicy(mode, allowed) ==
  IF mode \in {"container", "sandbox-exec"}
  THEN IF allowed THEN "allowed" ELSE "denied"
  ELSE "not_applicable"

providerRiskLevel(type, mode, allowed) ==
  CASE type \in RealCli /\ mode # "container" -> "high"
    [] type \in RealCli /\ mode = "container" -> IF allowed THEN "medium" ELSE "low"
    [] OTHER -> IF mode = "none" THEN "medium" ELSE "low"

providerWarnings(type, mode, allowed, supported) ==
  {w \in {"unsandboxed", "reads_not_confined", "network_allowed",
          "real_cli_disposable_only", "sandbox_unsupported"} :
     \/ w = "unsandboxed" /\ mode = "none"
     \/ w = "reads_not_confined" /\ mode = "sandbox-exec"
     \/ w = "network_allowed" /\ mode \in {"container", "sandbox-exec"} /\ allowed
     \/ w = "real_cli_disposable_only" /\ type \in RealCli
     \/ w = "sandbox_unsupported" /\ ~supported /\ mode # "none"}

(* Descriptor of an entry: shown with the mode that was asked for, rated   *)
(* by the mode that counts.                                                *)
Descriptor(e, mode, allowed, supported, reason) ==
  [type |-> e.type, startable |-> reason = "none", unavailableReason |-> reason,
   sandboxMode |-> e.mode, sandboxRequired |-> e.required, sandboxSupported |-> supported,
   networkPolicy |-> providerNetworkPolicy(mode, allowed),
   riskLevel |-> providerRiskLevel(e.type, mode, allowed),
   warnings |-> providerWarnings(e.type, mode, allowed, supported)]

descriptorForLoadedConfig(c) ==
  Descriptor(c.entry, c.effective, allowNetwork(c.entry), c.supported, "none")

classifyUnavailableReason(e, supported) ==
  CASE ~e.enabled -> "disabled"
    [] e.enabled /\ e.required /\ ~supported ->
         IF e.mode = "container" THEN "container_engine_unavailable"
         ELSE "sandbox_required_but_unavailable"
    [] OTHER -> "invalid_config"

descriptorForRejectedEntry(e, engine) ==
  LET supported == isSandboxModeSupported(e.mode, engine)
      allowed == e.mode \in {"container", "sandbox-exec"} /\ allowNetwork(e)
  IN Descriptor(e, e.mode, allowed, supported, classifyUnavailableReason(e, supported))

(* The order in which the ids of the file are listed.                      *)
FirstMentions(agents) ==
  SelectSeq([i \in DOMAIN agents |-> [at |-> i, id |-> agents[i].id]],
            LAMBDA m : \A j \in 1..(m.at - 1) : agents[j].id # m.id)

loadProviderDescriptorsAnew(agents, engine, live) ==   \* mutant: of the file alone, judged now
  LET mentions == FirstMentions(agents)
      now == loadAgentConfigs(agents, engine)
      Raw(id) == LET m == CHOOSE m \in DOMAIN mentions : mentions[m].id = id
                 IN agents[mentions[m].at].entry
  IN [order |-> [i \in DOMAIN mentions |-> mentions[i].id],
      shown |-> [id \in IdsOf(agents) |->
                   IF id \in DOMAIN now
                   THEN descriptorForLoadedConfig(now[id])
                   ELSE descriptorForRejectedEntry(Raw(id), engine)]]

(* The entries of the file, read again, and the live providers that it     *)
(* does not name.                                                          *)
loadProviderDescriptors(agents, engine, live) ==
  LET mentions == FirstMentions(agents)
      Raw(id) == LET m == CHOOSE m \in DOMAIN mentions : mentions[m].id = id
                 IN agents[mentions[m].at].entry
  IN [order |-> [i \in DOMAIN mentions |-> mentions[i].id],
      shown |-> [id \in IdsOf(agents) \cup DOMAIN live |->
                   IF id \in DOMAIN live
                   THEN descriptorForLoadedConfig(live[id])
                   ELSE descriptorForRejectedEntry(Raw(id), engine)]]

(* A digest of the descriptors.                                            *)
catalogRevisionOfIds(c) == c.order      \* mutant: of the ids they are listed by

catalogRevision(c) == c
=============================================================================
