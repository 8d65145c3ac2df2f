------------------------- MODULE ConfigReloadProofs -------------------------
(***************************************************************************)
(* Theorems about ConfigReload, for any ids, command-line processes,       *)
(* answers and hand-written entries, any number of changes of the file and *)
(* of the engine, with and without a Mac.                                  *)
(***************************************************************************)
EXTENDS ConfigReload, FiniteSetTheorems, WellFoundedInduction, TLAPS

-----------------------------------------------------------------------------
(* Entries of a file.                                                      *)

(* Removing the entries of an id leaves a list of entries, with the other  *)
(* ids (upsertAgent and removal in bin/orbitory-host.js).                  *)
LEMMA WithoutIds ==
  ASSUME NEW agents \in Seq(Named), NEW id
  PROVE  /\ Without(agents, id) \in Seq(Named)
         /\ IdsOf(Without(agents, id)) = IdsOf(agents) \ {id}
<1>. DEFINE Kept == {i \in DOMAIN agents : agents[i].id # id}
            Upto(i) == {j \in Kept : j <= i}
            n == Cardinality(Kept)
            place == [i \in Kept |-> Cardinality(Upto(i))]
            At(k) == CHOOSE i \in Kept : Cardinality(Upto(i)) = k
<1>1. /\ DOMAIN agents = 1..Len(agents) /\ Len(agents) \in Nat
      /\ \A i \in DOMAIN agents : agents[i] \in Named
  OBVIOUS
<1>2. IsFiniteSet(Kept) /\ n \in Nat /\ Kept \subseteq Nat
  <2>1. IsFiniteSet(DOMAIN agents)
    BY <1>1, FS_Interval
  <2>. QED  BY <2>1, <1>1, FS_Subset, FS_CardinalityType
<1>3. \A i \in Kept : IsFiniteSet(Upto(i)) /\ Cardinality(Upto(i)) \in 1..n
  <2>. SUFFICES ASSUME NEW i \in Kept
                PROVE  IsFiniteSet(Upto(i)) /\ Cardinality(Upto(i)) \in 1..n
    OBVIOUS
  <2>1. Upto(i) \in SUBSET Kept /\ i \in Upto(i)
    BY <1>2
  <2>. HIDE DEF Kept, Upto, n
  <2>2. IsFiniteSet(Upto(i)) /\ Cardinality(Upto(i)) <= Cardinality(Kept)
    BY <2>1, <1>2, FS_Subset
  <2>3. Cardinality(Upto(i)) \in Nat /\ Cardinality(Upto(i)) # 0
    BY <2>1, <2>2, FS_CardinalityType, FS_EmptySet
  <2>. QED  BY <2>2, <2>3, <1>2 DEF n
<1>3a. \A i \in Kept : Cardinality(Upto(i)) \in Nat
  <2>. HIDE DEF Kept, Upto, n
  <2>. QED  BY <1>2, <1>3
<1>4. \A i, j \in Kept : i < j => Cardinality(Upto(i)) < Cardinality(Upto(j))
  <2>. SUFFICES ASSUME NEW i \in Kept, NEW j \in Kept, i < j
                PROVE  Cardinality(Upto(i)) < Cardinality(Upto(j))
    OBVIOUS
  <2>1. Upto(i) \in SUBSET Upto(j) /\ j \in Upto(j) /\ j \notin Upto(i)
    BY <1>2
  <2>2. IsFiniteSet(Upto(j)) /\ Cardinality(Upto(j)) \in Nat /\ Cardinality(Upto(i)) \in Nat
    BY <1>3, <1>3a
  <2>. HIDE DEF Kept, Upto, n
  <2>3. /\ Cardinality(Upto(i)) <= Cardinality(Upto(j))
        /\ Cardinality(Upto(j)) = Cardinality(Upto(i)) => Upto(j) = Upto(i)
    BY <2>1, <2>2, FS_Subset
  <2>. QED  BY <2>1, <2>2, <2>3
<1>5. place \in Injection(Kept, 1..n)
  <2>1. place \in [Kept -> 1..n]
    BY <1>3
  <2>2. \A i, j \in Kept : place[i] = place[j] => i = j
    <3>. SUFFICES ASSUME NEW i \in Kept, NEW j \in Kept, i # j
                  PROVE  Cardinality(Upto(i)) # Cardinality(Upto(j))
      OBVIOUS
    <3>1. i < j \/ j < i
      BY <1>2
    <3>2. Cardinality(Upto(i)) \in Nat /\ Cardinality(Upto(j)) \in Nat
      BY <1>3a
    <3>. HIDE DEF Upto, Kept, n
    <3>. QED  BY <3>1, <3>2, <1>4
  <2>. QED  BY <2>1, <2>2 DEF Injection, IsInjective
<1>6. \A k \in 1..n : \E i \in Kept : Cardinality(Upto(i)) = k
  <2>1. IsFiniteSet(1..n) /\ Cardinality(1..n) = n
    BY <1>2, FS_Interval
  <2>. HIDE DEF place
  <2>2. place \in Surjection(Kept, 1..n)
    BY <2>1, <1>5, FS_Injection
  <2>. QED  BY <2>2 DEF Surjection, place
<1>7. \A k \in 1..n : At(k) \in Kept
  BY <1>6
<1>8. \A i \in Kept : At(Cardinality(Upto(i))) = i
  <2>. SUFFICES ASSUME NEW i \in Kept
                PROVE  At(Cardinality(Upto(i))) = i
    OBVIOUS
  <2>1. \A j \in Kept : Cardinality(Upto(j)) = Cardinality(Upto(i)) => j = i
    BY <1>5 DEF Injection, IsInjective
  <2>. HIDE DEF Kept, Upto
  <2>. QED  BY <2>1
<1>9. Without(agents, id) = [k \in 1..n |-> agents[At(k)]]
  BY DEF Without
<1>. HIDE DEF n, At
<1>10. Without(agents, id) \in Seq(Named)
  BY <1>9, <1>7, <1>2, <1>1
<1>11. IdsOf(Without(agents, id)) = {agents[At(k)].id : k \in 1..n}
  BY <1>9 DEF IdsOf
<1>12. {agents[At(k)].id : k \in 1..n} = {agents[i].id : i \in Kept}
  <2>. HIDE DEF Kept, Upto
  <2>1. \A k \in 1..n : \E i \in Kept : agents[At(k)].id = agents[i].id
    BY <1>7
  <2>2. \A i \in Kept : \E k \in 1..n : agents[At(k)].id = agents[i].id
    <3>. SUFFICES ASSUME NEW i \in Kept
                  PROVE  \E k \in 1..n : agents[At(k)].id = agents[i].id
      OBVIOUS
    <3>1. Cardinality(Upto(i)) \in 1..n /\ At(Cardinality(Upto(i))) = i
      BY <1>3, <1>8
    <3>. QED  BY <3>1
  <2>. QED  BY <2>1, <2>2
<1>13. {agents[i].id : i \in Kept} = IdsOf(agents) \ {id}
  BY DEF IdsOf
<1>. QED  BY <1>10, <1>11, <1>12, <1>13

(* A list of entries with one put at its end, or in front of it.           *)
LEMMA AppendIds ==
  ASSUME NEW agents \in Seq(Named), NEW named \in Named
  PROVE  /\ Append(agents, named) \in Seq(Named)
         /\ IdsOf(Append(agents, named)) = IdsOf(agents) \cup {named.id}
         /\ <<named>> \o agents \in Seq(Named)
         /\ IdsOf(<<named>> \o agents) = IdsOf(agents) \cup {named.id}
<1>. DEFINE n == Len(agents)
<1>1. n \in Nat /\ DOMAIN agents = 1..n /\ \A i \in 1..n : agents[i] \in Named
  OBVIOUS
<1>2. /\ Append(agents, named) \in Seq(Named)
      /\ DOMAIN Append(agents, named) = 1..(n + 1)
      /\ \A i \in 1..n : Append(agents, named)[i] = agents[i]
      /\ Append(agents, named)[n + 1] = named
  OBVIOUS
<1>3. /\ <<named>> \o agents \in Seq(Named)
      /\ DOMAIN (<<named>> \o agents) = 1..(n + 1)
      /\ (<<named>> \o agents)[1] = named
      /\ \A i \in 1..n : (<<named>> \o agents)[i + 1] = agents[i]
  OBVIOUS
<1>. DEFINE last == Append(agents, named)
            first == <<named>> \o agents
<1>. HIDE DEF n, last, first
<1>4. IdsOf(last) = IdsOf(agents) \cup {named.id}
  <2>1. DOMAIN last = 1..(n + 1) /\ (\A i \in 1..n : last[i] = agents[i]) /\ last[n + 1] = named
    BY <1>2 DEF last
  <2>2. \A i \in DOMAIN last : last[i].id \in IdsOf(agents) \cup {named.id}
    <3>. SUFFICES ASSUME NEW i \in 1..(n + 1)
                  PROVE  last[i].id \in IdsOf(agents) \cup {named.id}
      BY <2>1
    <3>1. i \in 1..n \/ i = n + 1
      BY <1>1
    <3>. QED  BY <3>1, <2>1, <1>1 DEF IdsOf
  <2>3. \A i \in DOMAIN agents : agents[i].id \in IdsOf(last)
    <3>. SUFFICES ASSUME NEW i \in 1..n
                  PROVE  agents[i].id \in IdsOf(last)
      BY <1>1
    <3>1. i \in DOMAIN last /\ last[i] = agents[i]
      BY <2>1, <1>1
    <3>. QED  BY <3>1 DEF IdsOf
  <2>4. named.id \in IdsOf(last)
    <3>1. n + 1 \in DOMAIN last
      BY <2>1, <1>1
    <3>. QED  BY <3>1, <2>1 DEF IdsOf
  <2>. QED  BY <2>2, <2>3, <2>4 DEF IdsOf
<1>5. IdsOf(first) = IdsOf(agents) \cup {named.id}
  <2>1. DOMAIN first = 1..(n + 1) /\ first[1] = named /\ (\A i \in 1..n : first[i + 1] = agents[i])
    BY <1>3 DEF first
  <2>2. \A i \in DOMAIN first : first[i].id \in IdsOf(agents) \cup {named.id}
    <3>. SUFFICES ASSUME NEW i \in 1..(n + 1)
                  PROVE  first[i].id \in IdsOf(agents) \cup {named.id}
      BY <2>1
    <3>1. CASE i = 1
      BY <3>1, <2>1
    <3>2. CASE i # 1
      <4>1. i - 1 \in 1..n /\ (i - 1) + 1 = i
        BY <3>2, <1>1
      <4>2. first[i] = agents[i - 1]
        BY <4>1, <2>1
      <4>. QED  BY <4>1, <4>2, <1>1 DEF IdsOf
    <3>. QED  BY <3>1, <3>2
  <2>3. \A i \in DOMAIN agents : agents[i].id \in IdsOf(first)
    <3>. SUFFICES ASSUME NEW i \in 1..n
                  PROVE  agents[i].id \in IdsOf(first)
      BY <1>1
    <3>1. i + 1 \in DOMAIN first /\ first[i + 1] = agents[i]
      BY <2>1, <1>1
    <3>. QED  BY <3>1 DEF IdsOf
  <2>4. named.id \in IdsOf(first)
    <3>1. 1 \in DOMAIN first
      BY <2>1, <1>1
    <3>. QED  BY <3>1, <2>1 DEF IdsOf
  <2>. QED  BY <2>2, <2>3, <2>4 DEF IdsOf
<1>. QED  BY <1>2, <1>3, <1>4, <1>5 DEF last, first

(* Putting another entry under the id of one keeps the ids.                *)
LEMMA ReplaceIds ==
  ASSUME NEW agents \in Seq(Named), NEW i \in DOMAIN agents, NEW named \in Named,
         named.id = agents[i].id
  PROVE  /\ [agents EXCEPT ![i] = named] \in Seq(Named)
         /\ IdsOf([agents EXCEPT ![i] = named]) = IdsOf(agents)
<1>. DEFINE changed == [agents EXCEPT ![i] = named]
<1>1. changed \in Seq(Named) /\ DOMAIN changed = DOMAIN agents
  OBVIOUS
<1>2. \A j \in DOMAIN agents : changed[j].id = agents[j].id
  OBVIOUS
<1>. HIDE DEF changed
<1>3. IdsOf(changed) = IdsOf(agents)
  BY <1>1, <1>2 DEF IdsOf
<1>. QED  BY <1>1, <1>3 DEF changed

-----------------------------------------------------------------------------
(* Contents of a file.                                                     *)

(* A grant names a provider that is there.                                 *)
Resolves(c) == c.main \cup c.more \cup c.creation \subseteq IdsOf(c.agents)

Sound(c) == c \in Content /\ Resolves(c)

LEMMA NothingSound == Sound(NoContent)
  BY DEF Sound, NoContent, Content, Resolves

(* What setup writes is an entry (createProviderConfig).                   *)
LEMMA ProviderTyped ==
  ASSUME NEW type \in AgentType
  PROVE  createProviderConfig(type) \in Entry
<1>. USE PlatformAssumption
<1>1. CASE type = "custom"
  BY <1>1 DEF createProviderConfig, demoSandbox, ProviderIo, Entry, AgentType, RealCli, Io, Place, Mode
<1>2. CASE type = "claudeCode"
  BY <1>2 DEF createProviderConfig, realAgentSandbox, ProviderIo, Entry, AgentType, RealCli, Io, Place, Mode
<1>3. CASE type = "codex"
  BY <1>3 DEF createProviderConfig, realAgentSandbox, ProviderIo, Entry, AgentType, RealCli, Io, Place, Mode
<1>. QED  BY <1>1, <1>2, <1>3 DEF AgentType, RealCli

LEMMA UpsertIds ==
  ASSUME NEW agents \in Seq(Named), NEW id \in Id, NEW entry \in Entry
  PROVE  /\ upsertAgent(agents, id, entry) \in Seq(Named)
         /\ IdsOf(upsertAgent(agents, id, entry)) = IdsOf(agents) \cup {id}
<1>1. /\ Without(agents, id) \in Seq(Named)
      /\ IdsOf(Without(agents, id)) = IdsOf(agents) \ {id}
  BY WithoutIds
<1>2. [id |-> id, entry |-> entry] \in Named
  BY DEF Named
<1>3. /\ Append(Without(agents, id), [id |-> id, entry |-> entry]) \in Seq(Named)
      /\ IdsOf(Append(Without(agents, id), [id |-> id, entry |-> entry]))
           = IdsOf(Without(agents, id)) \cup {id}
  BY <1>1, <1>2, AppendIds
<1>. QED  BY <1>1, <1>3 DEF upsertAgent

(* Setup leaves a grant to the provider it sets up, or to one that keeps   *)
(* its entry (runGuidedSetup).                                             *)
LEMMA SetupSound ==
  ASSUME NEW c, Sound(c), NEW id \in Id, NEW answer \in Answer
  PROVE  Sound(runGuidedSetup(c, id, answer))
<1>. DEFINE d == runGuidedSetup(c, id, answer)
            entry == createProviderConfig(answer.type)
<1>1. entry \in Entry
  BY ProviderTyped DEF Answer
<1>2. /\ c.agents \in Seq(Named) /\ c.main \in SUBSET Id /\ c.more \in SUBSET Id
      /\ c.creation \in SUBSET Id
      /\ c.main \cup c.more \cup c.creation \subseteq IdsOf(c.agents)
  BY DEF Sound, Content, Resolves
<1>3. /\ upsertAgent(c.agents, id, entry) \in Seq(Named)
      /\ IdsOf(upsertAgent(c.agents, id, entry)) = IdsOf(c.agents) \cup {id}
  BY <1>1, <1>2, UpsertIds
<1>4. /\ d.agents = upsertAgent(c.agents, id, entry)
      /\ d \in [agents : {d.agents}, main : {d.main}, more : {d.more}, creation : {d.creation}]
  BY DEF runGuidedSetup
<1>5. d.main \subseteq c.main \cup {id} /\ d.more \subseteq c.more \cup {id}
      /\ d.creation \subseteq c.creation \cup {id}
  BY DEF runGuidedSetup
<1>. HIDE DEF d, entry
<1>6. d \in Content
  BY <1>2, <1>3, <1>4, <1>5 DEF Content
<1>7. Resolves(d)
  BY <1>2, <1>3, <1>4, <1>5 DEF Resolves
<1>. QED  BY <1>6, <1>7 DEF Sound, d

(* Removal takes the grants of the provider away (removeConfiguredProvider)*)
LEMMA RemovalSound ==
  ASSUME NEW c, Sound(c), NEW id
  PROVE  Sound(removeConfiguredProvider(c, id))
<1>1. /\ c.agents \in Seq(Named) /\ c.main \in SUBSET Id /\ c.more \in SUBSET Id
      /\ c.creation \in SUBSET Id
      /\ c.main \cup c.more \cup c.creation \subseteq IdsOf(c.agents)
  BY DEF Sound, Content, Resolves
<1>2. /\ Without(c.agents, id) \in Seq(Named)
      /\ IdsOf(Without(c.agents, id)) = IdsOf(c.agents) \ {id}
  BY <1>1, WithoutIds
<1>3. removeConfiguredProvider(c, id) \in Content
  BY <1>1, <1>2 DEF removeConfiguredProvider, Content
<1>4. Resolves(removeConfiguredProvider(c, id))
  BY <1>1, <1>2 DEF removeConfiguredProvider, Resolves
<1>. QED  BY <1>3, <1>4 DEF Sound

(* The first file names three providers and grants nothing (--init-config).*)
LEMMA TemplateSound ==
  ASSUME NEW x \in Named, NEW y \in Named, NEW z \in Named
  PROVE  Sound([NoContent EXCEPT !.agents = <<x, y, z>>])
<1>. DEFINE agents == <<x, y, z>>
<1>1. agents \in Seq(Named)
  OBVIOUS
<1>. HIDE DEF agents
<1>2. \A c : Sound(c) /\ c.main = {} /\ c.more = {} /\ c.creation = {}
                => Sound([c EXCEPT !.agents = agents])
  BY <1>1 DEF Sound, Content, Resolves
<1>3. NoContent.main = {} /\ NoContent.more = {} /\ NoContent.creation = {}
  BY DEF NoContent
<1>. QED  BY <1>2, <1>3, NothingSound, Zenon DEF agents

(* An edit by hand keeps every id.                                         *)
LEMMA EditSound ==
  ASSUME NEW c, Sound(c), NEW i \in DOMAIN c.agents, NEW e \in Entry
  PROVE  LET named == [id |-> c.agents[i].id, entry |-> e]
         IN /\ Sound([c EXCEPT !.agents[i] = named])
            /\ Sound([c EXCEPT !.agents = <<named>> \o @])
<1>. DEFINE named == [id |-> c.agents[i].id, entry |-> e]
            replaced == [c.agents EXCEPT ![i] = named]
            prefixed == <<named>> \o c.agents
<1>1. /\ c \in Content /\ c.agents \in Seq(Named)
      /\ c.main \cup c.more \cup c.creation \subseteq IdsOf(c.agents)
  BY DEF Sound, Content, Resolves
<1>2. c.agents[i] \in Named
  BY <1>1
<1>3. named \in Named /\ named.id = c.agents[i].id
  BY <1>2 DEF Named
<1>4. named.id \in IdsOf(c.agents)
  BY <1>3 DEF IdsOf
<1>. HIDE DEF named
<1>5. replaced \in Seq(Named) /\ IdsOf(replaced) = IdsOf(c.agents)
  BY <1>1, <1>3, ReplaceIds
<1>6. prefixed \in Seq(Named) /\ IdsOf(prefixed) = IdsOf(c.agents) \cup {named.id}
  BY <1>1, <1>3, AppendIds
<1>. HIDE DEF replaced, prefixed
<1>7. ASSUME NEW agents \in Seq(Named), IdsOf(agents) = IdsOf(c.agents)
      PROVE  Sound([c EXCEPT !.agents = agents])
  BY <1>1, <1>7 DEF Sound, Content, Resolves
<1>8. /\ [c EXCEPT !.agents[i] = named] = [c EXCEPT !.agents = replaced]
      /\ [c EXCEPT !.agents = <<named>> \o @] = [c EXCEPT !.agents = prefixed]
  BY DEF replaced, prefixed
<1>9. Sound([c EXCEPT !.agents = replaced]) /\ Sound([c EXCEPT !.agents = prefixed])
  BY <1>4, <1>5, <1>6, <1>7
<1>. QED  BY <1>8, <1>9 DEF named

-----------------------------------------------------------------------------
(* What is loaded.                                                         *)

LEMMA Least ==
  ASSUME NEW S \in SUBSET Nat, S # {}
  PROVE  \E n \in S : \A m \in S : n <= m
<1>1. IsWellFoundedOn(OpToRel(<, Nat), Nat)
  BY NatLessThanWellFounded
<1>2. PICK n \in S : \A m \in S : ~(<<m, n>> \in OpToRel(<, Nat))
  BY <1>1, WFMin
<1>3. \A m \in S : ~(m < n)
  BY <1>2 DEF OpToRel
<1>. QED  BY <1>3

(* A configuration that the loader made of an entry, with the engine there *)
(* or not (validateEntry, then resolveSandboxPolicy).                      *)
Made(c) ==
  /\ c.entry \in Entry
  /\ \E there \in BOOLEAN :
       validateEntry(c.entry, there) /\ c = resolveSandboxPolicy(c.entry, there)

(* The allowlist holds nothing else (loadAgentConfigs).                    *)
LEMMA LoadedMade ==
  ASSUME NEW agents \in Seq(Named), NEW there \in BOOLEAN
  PROVE  LET loaded == loadAgentConfigs(agents, there)
         IN /\ DOMAIN loaded \subseteq Id
            /\ \A id \in DOMAIN loaded : Made(loaded[id])
<1>. DEFINE Valid(id) == {i \in DOMAIN agents :
                            agents[i].id = id /\ validateEntry(agents[i].entry, there)}
            First(id) == CHOOSE i \in Valid(id) : \A j \in Valid(id) : i <= j
            ids == {n \in IdsOf(agents) : Valid(n) # {}}
<1>1. loadAgentConfigs(agents, there)
        = [id \in ids |-> resolveSandboxPolicy(agents[First(id)].entry, there)]
  BY DEF loadAgentConfigs
<1>2. DOMAIN agents \subseteq Nat /\ \A i \in DOMAIN agents : agents[i] \in Named
  OBVIOUS
<1>3. ids \subseteq Id
  BY <1>2 DEF IdsOf, Named
<1>4. ASSUME NEW id \in ids
      PROVE  Made(resolveSandboxPolicy(agents[First(id)].entry, there))
  <2>1. Valid(id) \in SUBSET Nat /\ Valid(id) # {}
    BY <1>2
  <2>2. \E i \in Valid(id) : \A j \in Valid(id) : i <= j
    <3>. HIDE DEF Valid
    <3>. QED  BY <2>1, Least
  <2>3. First(id) \in Valid(id)
    BY <2>2
  <2>. DEFINE e == agents[First(id)].entry
  <2>4. e \in Entry /\ validateEntry(e, there)
    BY <2>3, <1>2 DEF Named
  <2>. HIDE DEF e
  <2>5. resolveSandboxPolicy(e, there).entry = e
    BY DEF resolveSandboxPolicy
  <2>6. Made(resolveSandboxPolicy(e, there))
    BY <2>4, <2>5 DEF Made
  <2>. QED  BY <2>6 DEF e
<1>. HIDE DEF ids, First
<1>. QED  BY <1>1, <1>3, <1>4

(* What holds of a configuration wherever it is run: it is enabled, and    *)
(* has the boundary it requires.                                           *)
Bounded(c) ==
  /\ c \in Config
  /\ c.entry.enabled
  /\ c.effective \in {c.entry.mode, "none"}
  /\ c.entry.required => c.effective = c.entry.mode
  /\ c.effective = "container" => c.entry.io # "stream-json"

LEMMA MadeFacts ==
  ASSUME NEW c, Made(c)
  PROVE  /\ Bounded(c)
         /\ c.effective # "none" => c.entry.dir \notin {"root", "home", "system"}
         /\ c.effective = "container" => c.entry.dir = "project"
<1>1. PICK there \in BOOLEAN :
        validateEntry(c.entry, there) /\ c = resolveSandboxPolicy(c.entry, there)
  BY DEF Made
<1>. DEFINE e == c.entry
<1>2. e \in Entry /\ e.mode \in Mode /\ e.dir \in Place
  BY DEF Made, Entry
<1>3. isSandboxModeSupported(e.mode, there) \in BOOLEAN
  BY PlatformAssumption DEF isSandboxModeSupported
<1>4. /\ c.supported = isSandboxModeSupported(e.mode, there)
      /\ c.effective = IF isSandboxModeSupported(e.mode, there) THEN e.mode ELSE "none"
      /\ c \in [entry : {c.entry}, effective : {c.effective}, supported : {c.supported}]
  BY <1>1 DEF resolveSandboxPolicy
<1>5. c \in Config
  BY <1>2, <1>3, <1>4 DEF Config, Mode
<1>6. e.enabled /\ (e.required => isSandboxModeSupported(e.mode, there))
  BY <1>1 DEF validateEntry
<1>7. /\ e.mode = "container" => e.dir = "project" /\ e.io # "stream-json"
      /\ e.mode # "none" => e.dir \notin {"root", "home", "system"}
  BY <1>1, <1>2 DEF validateEntry, directoryIsSafe, confinedWorkingDirectoryIsSafe,
                    containerMountIsSafe, ioIsSupported, Place
<1>8. c.effective \in {e.mode, "none"}
  BY <1>4
<1>. QED  BY <1>4, <1>5, <1>6, <1>7, <1>8 DEF Bounded

(* A project's directory takes the place of the entry's, and of nothing    *)
(* else (ProjectCatalog.resolveLaunch).                                    *)
LEMMA Placed ==
  ASSUME NEW c, Bounded(c), NEW dir \in Place
  PROVE  /\ Bounded([c EXCEPT !.entry.dir = dir])
         /\ dir = c.entry.dir => [c EXCEPT !.entry.dir = dir] = c
<1>. DEFINE entry == [c.entry EXCEPT !.dir = dir]
            d == [c EXCEPT !.entry = entry]
<1>1. c \in Config /\ c.entry \in Entry
  BY DEF Bounded, Config
<1>2. /\ entry \in Entry
      /\ entry.enabled = c.entry.enabled /\ entry.mode = c.entry.mode
      /\ entry.required = c.entry.required /\ entry.io = c.entry.io
      /\ dir = c.entry.dir => entry = c.entry
  BY <1>1 DEF Entry
<1>3. [c EXCEPT !.entry.dir = dir] = d
  OBVIOUS
<1>. HIDE DEF entry
<1>4. d \in Config /\ d.entry = entry /\ d.effective = c.effective
  BY <1>1, <1>2 DEF Config
<1>5. entry = c.entry => d = c
  BY <1>1 DEF Config
<1>. HIDE DEF d
<1>6. Bounded(d)
  BY <1>2, <1>4 DEF Bounded
<1>. QED  BY <1>2, <1>3, <1>5, <1>6

(* The descriptor of a live provider is startable and says how it runs.    *)
LEMMA ShownAsRun ==
  ASSUME NEW c, Bounded(c)
  PROVE  LET shown == descriptorForLoadedConfig(c)
             runs == wrapCommandForSandbox(c)
         IN /\ shown.startable
            /\ shown.networkPolicy = "denied" <=> ~runs.network
            /\ "unsandboxed" \in shown.warnings <=> runs.boundary = "none"
            /\ shown.sandboxRequired => runs.boundary = shown.sandboxMode
            /\ runs.boundary = c.effective
            /\ c.effective = "container" /\ runs.network => c.entry.network = "on"
<1>1. /\ c.effective \in Mode
      /\ c.entry.required => c.effective = c.entry.mode
      /\ c.effective = "container" => c.entry.mode = "container"
  BY DEF Bounded, Config
<1>2. allowNetwork(c.entry) \in BOOLEAN
  BY DEF allowNetwork
<1>3. c.entry.mode = "container" => (allowNetwork(c.entry) <=> c.entry.network = "on")
  BY DEF allowNetwork
<1>. DEFINE allowed == allowNetwork(c.entry)
            shown == descriptorForLoadedConfig(c)
            runs == wrapCommandForSandbox(c)
<1>4. /\ runs.boundary = c.effective
      /\ runs.network <=> (c.effective \in {"sandbox-exec", "container"} => allowed)
  BY <1>1 DEF wrapCommandForSandbox, buildSandboxExecProfile, buildContainerArgv, Boundary, Mode
<1>5. /\ shown.startable
      /\ shown.networkPolicy = providerNetworkPolicy(c.effective, allowed)
      /\ shown.warnings = providerWarnings(c.entry.type, c.effective, allowed, c.supported)
      /\ shown.sandboxRequired = c.entry.required
      /\ shown.sandboxMode = c.entry.mode
  BY DEF descriptorForLoadedConfig, Descriptor
<1>6. providerNetworkPolicy(c.effective, allowed) = "denied"
        <=> c.effective \in {"sandbox-exec", "container"} /\ ~allowed
  BY DEF providerNetworkPolicy
<1>7. "unsandboxed" \in providerWarnings(c.entry.type, c.effective, allowed, c.supported)
        <=> c.effective = "none"
  BY DEF providerWarnings
<1>. HIDE DEF allowed, shown, runs
<1>. QED  BY <1>1, <1>3, <1>4, <1>5, <1>6, <1>7 DEF allowed, shown, runs

(* A catalog shows every live provider by its descriptor, and what else it *)
(* shows cannot be started (loadProviderDescriptors).                      *)
Shows(catalog, configs) ==
  /\ DOMAIN configs \subseteq DOMAIN catalog.shown
  /\ \A id \in DOMAIN configs : catalog.shown[id] = descriptorForLoadedConfig(configs[id])
  /\ DOMAIN configs = {id \in DOMAIN catalog.shown : catalog.shown[id].startable}

LEMMA CatalogShows ==
  ASSUME NEW agents, NEW there, NEW configs
  PROVE  LET catalog == loadProviderDescriptors(agents, there, configs)
         IN /\ Shows(catalog, configs)
            /\ DOMAIN catalog.shown = IdsOf(agents) \cup DOMAIN configs
<1>. DEFINE mentions == FirstMentions(agents)
            Raw(id) == LET m == CHOOSE m \in DOMAIN mentions : mentions[m].id = id
                       IN agents[mentions[m].at].entry
            shown == loadProviderDescriptors(agents, there, configs).shown
<1>1. shown = [id \in IdsOf(agents) \cup DOMAIN configs |->
                 IF id \in DOMAIN configs THEN descriptorForLoadedConfig(configs[id])
                 ELSE descriptorForRejectedEntry(Raw(id), there)]
  BY DEF loadProviderDescriptors
<1>2. \A c : descriptorForLoadedConfig(c).startable = TRUE
  BY DEF descriptorForLoadedConfig, Descriptor
<1>3. \A e : descriptorForRejectedEntry(e, there).startable = FALSE
  <2>1. \A e, supported : classifyUnavailableReason(e, supported) # "none"
    BY DEF classifyUnavailableReason
  <2>. QED  BY <2>1 DEF descriptorForRejectedEntry, Descriptor
<1>. HIDE DEF Raw, shown
<1>4. DOMAIN configs \subseteq DOMAIN shown
  BY <1>1
<1>5. \A id \in DOMAIN configs : shown[id] = descriptorForLoadedConfig(configs[id])
  BY <1>1
<1>6. \A id \in DOMAIN shown : id \notin DOMAIN configs => ~shown[id].startable
  BY <1>1, <1>3
<1>7. \A id \in DOMAIN configs : shown[id].startable
  BY <1>2, <1>5
<1>8. DOMAIN shown = IdsOf(agents) \cup DOMAIN configs
  BY <1>1
<1>. QED  BY <1>4, <1>5, <1>6, <1>7, <1>8 DEF shown, Shows

-----------------------------------------------------------------------------
(* The inductive invariant.                                                *)

(* Grants resolve in the file, and in every copy that a process may write  *)
(* back, however old the copy is.                                          *)
Files == file \in File /\ Sound(file.is)

Processes ==
  /\ launcher \in [Launcher -> Process]
  /\ \A p \in Launcher : Sound(launcher[p].read)

Engine == engine \in BOOLEAN /\ installs \in 0..MaxEngine

Allowlist ==
  /\ live.rev \in 0..MaxWrites /\ live.read \in 0..MaxWrites
  /\ DOMAIN live.configs \subseteq Id
  /\ \A id \in DOMAIN live.configs : Made(live.configs[id])

Serving ==
  /\ request \in Served
  /\ request.again => request.project

(* The revision is sampled before the file is read, and after the request  *)
(* came in; a request that is past its refresh has been given a list that  *)
(* is as new as itself. The file is read only when its revision is newer   *)
(* than that of the list.                                                  *)
Ordered ==
  /\ live.rev <= live.read /\ live.read <= file.rev /\ request.from <= file.rev
  /\ request.pc = "load" =>
       live.rev < request.rev /\ request.from <= request.rev /\ request.rev <= file.rev
  /\ request.pc \in {"catalog", "resolve"} =>
       request.from <= live.read /\ (request.from = file.rev => live.rev = file.rev)

(* A launch that is strict, and for no project, is resolved against the    *)
(* list that the catalog of the phone was compared with.                   *)
Compared ==
  request.pc = "resolve" /\ request.kind = "launch" /\ ~request.project =>
    \A id \in DOMAIN live.configs :
      phone.catalog.shown[id] = descriptorForLoadedConfig(live.configs[id])

Launched ==
  /\ request.pc # "idle" => started = {} /\ refused = {}
  /\ \A s \in started :
       /\ Bounded(s.config) /\ s.runs = wrapCommandForSandbox(s.config)
       /\ s.project \in {"none", "configured"} => Made(s.config)
       /\ s.from \in 0..MaxWrites /\ s.from <= live.read
       /\ s.kind = "launch" /\ s.project = "none" =>
            phone.catalog.shown[s.id] = descriptorForLoadedConfig(s.config)

(* As long as neither the file nor the engine has changed since, the host  *)
(* would put the catalog of the phone together again as it was.            *)
Steady ==
  phone.from = file.rev /\ phone.installs = installs /\ DOMAIN phone.catalog.shown # {} =>
    /\ live.rev = file.rev
    /\ phone.catalog = loadProviderDescriptors(Readable.agents, engine, live.configs)

Offers ==
  /\ phone.from \in 0..MaxWrites /\ phone.from <= file.rev
  /\ phone.installs \in 0..MaxEngine /\ phone.installs <= installs
  /\ DOMAIN phone.catalog.shown \subseteq Id
  /\ refused \subseteq Id
  /\ Steady
  /\ OfferIsHonoured

IInv ==
  /\ Files /\ Processes /\ Engine /\ Allowlist /\ Serving /\ Ordered /\ Compared
  /\ Launched /\ Offers

LEMMA IInvImplies ==
  ASSUME IInv
  PROVE  /\ TypeOK /\ RefsResolve /\ LaunchIsCurrent
         /\ LaunchIsAsShown /\ LaunchIsConfined /\ OfferIsHonoured
<1>1. TypeOK
  <2>1. \A id \in DOMAIN live.configs : live.configs[id] \in Config
    BY MadeFacts DEF IInv, Allowlist, Bounded
  <2>2. \A s \in started : s.config \in Config
    BY DEF IInv, Launched, Bounded
  <2>. QED  BY <2>1, <2>2
            DEF TypeOK, IInv, Files, Processes, Engine, Allowlist, Serving, Offers
<1>2. RefsResolve
  BY DEF RefsResolve, IInv, Files, Sound, Resolves
<1>3. LaunchIsCurrent
  <2>. SUFFICES ASSUME NEW s \in started
                PROVE  live.read >= s.from
    BY DEF LaunchIsCurrent
  <2>1. s.from \in Nat /\ live.read \in Nat /\ s.from <= live.read
    BY ReloadAssumption DEF IInv, Launched, Allowlist
  <2>. QED  BY <2>1
<1>4. LaunchIsAsShown
  <2>. SUFFICES ASSUME NEW s \in started, s.kind = "launch", s.project = "none"
                PROVE  LET shown == phone.catalog.shown[s.id] IN
                       /\ shown.startable
                       /\ shown.networkPolicy = "denied" <=> ~s.runs.network
                       /\ "unsandboxed" \in shown.warnings <=> s.runs.boundary = "none"
                       /\ shown.sandboxRequired => s.runs.boundary = shown.sandboxMode
    BY DEF LaunchIsAsShown
  <2>1. /\ Bounded(s.config) /\ s.runs = wrapCommandForSandbox(s.config)
        /\ phone.catalog.shown[s.id] = descriptorForLoadedConfig(s.config)
    BY DEF IInv, Launched
  <2>. QED  BY <2>1, ShownAsRun
<1>5. LaunchIsConfined
  <2>. SUFFICES ASSUME NEW s \in started
                PROVE  LET e == s.config.entry IN
                       /\ e.enabled
                       /\ e.required => s.runs.boundary = e.mode
                       /\ s.runs.boundary = "container" =>
                            /\ s.runs.network => e.network = "on"
                            /\ e.io # "stream-json"
                       /\ s.project \in {"none", "configured"} =>
                            /\ s.runs.boundary # "none" => e.dir \notin {"root", "home", "system"}
                            /\ s.runs.boundary = "container" => e.dir = "project"
    BY DEF LaunchIsConfined
  <2>1. Bounded(s.config) /\ s.runs = wrapCommandForSandbox(s.config)
    BY DEF IInv, Launched
  <2>2. /\ s.runs.boundary = s.config.effective
        /\ s.config.effective = "container" /\ s.runs.network => s.config.entry.network = "on"
    BY <2>1, ShownAsRun
  <2>3. s.project \in {"none", "configured"} =>
          /\ s.config.effective # "none" => s.config.entry.dir \notin {"root", "home", "system"}
          /\ s.config.effective = "container" => s.config.entry.dir = "project"
    BY MadeFacts DEF IInv, Launched
  <2>. QED  BY <2>1, <2>2, <2>3 DEF Bounded
<1>6. OfferIsHonoured
  BY DEF IInv, Offers
<1>. QED  BY <1>1, <1>2, <1>3, <1>4, <1>5, <1>6

-----------------------------------------------------------------------------
(* The command line, the operator and the engine leave the host alone.     *)

LEMMA Numbers ==
  ASSUME IInv
  PROVE  /\ file.rev \in Nat /\ file.edits \in Nat /\ MaxWrites \in Nat /\ MaxEdits \in Nat
         /\ live.rev \in Nat /\ live.read \in Nat /\ request.from \in Nat /\ request.rev \in Nat
         /\ phone.from \in Nat /\ phone.installs \in Nat /\ installs \in Nat
  BY ReloadAssumption DEF IInv, Files, File, Allowlist, Serving, Served, Offers, Engine

(* A process that leaves the file and the engine alone changes nothing.    *)
LEMMA Untouched ==
  ASSUME IInv, Processes',
         UNCHANGED <<file, engine, installs, live, request, phone, started, refused>>
  PROVE  IInv'
  BY DEF IInv, Files, Engine, Allowlist, Serving, Ordered, Compared, Launched, Offers, Steady,
         Readable, OfferIsHonoured

(* When the file is replaced, or the engine changes, all that was offered  *)
(* may be refused.                                                         *)
LEMMA Elsewhere ==
  ASSUME IInv, Files', Processes', Engine',
         file'.rev \in Nat, file.rev <= file'.rev, installs <= installs',
         file.rev < file'.rev \/ installs < installs',
         UNCHANGED <<live, request, phone, started, refused>>
  PROVE  IInv'
<1>1. Ordered'
  BY Numbers DEF IInv, Ordered
<1>2. Allowlist' /\ Serving' /\ Compared' /\ Launched'
  BY DEF IInv, Allowlist, Serving, Compared, Launched
<1>3. /\ phone.from <= file'.rev /\ phone.installs <= installs'
      /\ file'.rev # phone.from \/ installs' # phone.installs
  <2>1. installs' \in Nat
    BY ReloadAssumption DEF Engine
  <2>. QED  BY <2>1, Numbers DEF IInv, Offers
<1>4. Steady' /\ OfferIsHonoured'
  BY <1>3 DEF Steady, OfferIsHonoured
<1>5. Offers'
  BY <1>3, <1>4 DEF IInv, Offers
<1>. QED  BY <1>1, <1>2, <1>5 DEF IInv

LEMMA Written ==
  ASSUME IInv, NEW content, Sound(content), NEW hand \in {0, 1},
         file.edits + hand <= MaxEdits, WriteBy(content, hand)
  PROVE  Files' /\ file'.rev \in Nat /\ file.rev < file'.rev
<1>1. file.rev + 1 \in 0..MaxWrites /\ file.edits + hand \in 0..MaxEdits
  BY Numbers DEF WriteBy
<1>2. file' \in File
  BY <1>1 DEF WriteBy, File, Sound
<1>3. file'.is = content /\ file'.rev = file.rev + 1
  BY DEF WriteBy
<1>. QED  BY <1>2, <1>3, Numbers DEF Files

LEMMA WrittenBySetup ==
  ASSUME IInv, NEW content, Sound(content), Write(content)
  PROVE  Files' /\ file'.rev \in Nat /\ file.rev < file'.rev
<1>1. file.edits + 0 <= MaxEdits
  BY Numbers DEF IInv, Files, File
<1>. QED  BY <1>1, Written DEF Write

LEMMA ReadableSound ==
  ASSUME IInv
  PROVE  Sound(Readable)
  BY NothingSound DEF IInv, Files, Readable

LEMMA AProcess ==
  ASSUME IInv, NEW p \in Launcher, NEW q \in Process, Sound(q.read),
         launcher' = [launcher EXCEPT ![p] = q]
  PROVE  Processes'
  BY DEF IInv, Processes

LEMMA Exits ==
  ASSUME IInv, NEW p \in Launcher, Exit(p)
  PROVE  Processes'
<1>. DEFINE q == [pc |-> "done", read |-> NoContent, ino |-> 0]
<1>1. q \in Process /\ q.read = NoContent
  BY NothingSound, ReloadAssumption DEF Process, Sound
<1>2. launcher' = [launcher EXCEPT ![p] = q]
  BY DEF Exit
<1>. HIDE DEF q
<1>. QED  BY <1>1, <1>2, NothingSound, AProcess

LEMMA CommandLineStep ==
  ASSUME IInv, NEW p \in Launcher,
         \/ loadConfigForSetup(p) \/ SetUp(p) \/ Remove(p) \/ GiveUp(p)
         \/ InitConfig(p) \/ OpenConfig(p) \/ FillConfig(p)
  PROVE  IInv'
<1>. USE Numbers
<1>1. CASE loadConfigForSetup(p)
  <2>. DEFINE q == [pc |-> "asking", read |-> Readable, ino |-> 0]
  <2>1. q \in Process /\ q.read = Readable
    BY ReadableSound DEF Process, Sound
  <2>2. launcher' = [launcher EXCEPT ![p] = q]
    BY <1>1 DEF loadConfigForSetup
  <2>. HIDE DEF q
  <2>3. Processes'
    BY <2>1, <2>2, ReadableSound, AProcess
  <2>. QED  BY <1>1, <2>3, Untouched DEF loadConfigForSetup
<1>2. CASE SetUp(p)
  <2>1. PICK answer \in Answers, id \in Id :
          Write(runGuidedSetup(launcher[p].read, id, answer))
    BY <1>2 DEF SetUp
  <2>2. Sound(runGuidedSetup(launcher[p].read, id, answer))
    BY SetupSound, ReloadAssumption DEF IInv, Processes
  <2>3. Files' /\ file'.rev \in Nat /\ file.rev < file'.rev
    BY <2>1, <2>2, WrittenBySetup
  <2>4. Processes'
    BY <1>2, Exits DEF SetUp
  <2>5. Engine' /\ UNCHANGED <<installs, live, request, phone, started, refused>>
    BY <1>2 DEF SetUp, IInv, Engine
  <2>. QED  BY <2>3, <2>4, <2>5, Elsewhere
<1>3. CASE Remove(p)
  <2>1. PICK id : Write(removeConfiguredProvider(launcher[p].read, id))
    BY <1>3 DEF Remove
  <2>2. Sound(removeConfiguredProvider(launcher[p].read, id))
    BY RemovalSound DEF IInv, Processes
  <2>3. Files' /\ file'.rev \in Nat /\ file.rev < file'.rev
    BY <2>1, <2>2, WrittenBySetup
  <2>4. Processes'
    BY <1>3, Exits DEF Remove
  <2>5. Engine' /\ UNCHANGED <<installs, live, request, phone, started, refused>>
    BY <1>3 DEF Remove, IInv, Engine
  <2>. QED  BY <2>3, <2>4, <2>5, Elsewhere
<1>4. CASE GiveUp(p)
  <2>1. Processes'
    BY <1>4, Exits DEF GiveUp
  <2>. QED  BY <1>4, <2>1, Untouched DEF GiveUp
<1>5. CASE InitConfig(p)
  <2>. DEFINE q == [launcher[p] EXCEPT !.pc = "missing"]
  <2>1. launcher[p] \in Process /\ Sound(launcher[p].read)
    BY DEF IInv, Processes
  <2>2. q \in Process /\ q.read = launcher[p].read
    BY <2>1 DEF Process
  <2>3. launcher' = [launcher EXCEPT ![p] = q]
    BY <1>5 DEF InitConfig
  <2>. HIDE DEF q
  <2>4. Processes'
    BY <2>1, <2>2, <2>3, AProcess
  <2>. QED  BY <1>5, <2>4, Untouched DEF InitConfig
<1>6. CASE OpenConfig(p)
  <2>. DEFINE ino == IF file.text = "absent" THEN file.rev + 1 ELSE file.ino
              q == [pc |-> "creating", read |-> NoContent, ino |-> ino]
              torn == [text |-> "torn", is |-> NoContent, rev |-> file.rev + 1,
                       ino |-> ino, edits |-> file.edits]
  <2>1. file.rev + 1 \in 0..MaxWrites
    BY <1>6 DEF OpenConfig
  <2>2. ino \in 0..MaxWrites /\ file.edits \in 0..MaxEdits
    BY <2>1 DEF IInv, Files, File
  <2>3. file' = torn /\ launcher' = [launcher EXCEPT ![p] = q]
    BY <1>6 DEF OpenConfig
  <2>. HIDE DEF ino
  <2>4. torn \in File /\ torn.is = NoContent /\ torn.rev = file.rev + 1
    BY <2>1, <2>2, NothingSound DEF File, Sound
  <2>5. q \in Process /\ q.read = NoContent
    BY <2>2, NothingSound DEF Process, Sound
  <2>. HIDE DEF q, torn
  <2>6. Processes'
    BY <2>3, <2>5, NothingSound, AProcess
  <2>7. Files' /\ file'.rev \in Nat /\ file.rev < file'.rev
    BY <2>3, <2>4, NothingSound DEF Files
  <2>8. Engine' /\ UNCHANGED <<installs, live, request, phone, started, refused>>
    BY <1>6 DEF OpenConfig, IInv, Engine
  <2>. QED  BY <2>6, <2>7, <2>8, Elsewhere
<1>7. CASE FillConfig(p)
  <2>1. Processes'
    BY <1>7, Exits DEF FillConfig
  <2>2. Engine' /\ UNCHANGED <<engine, installs, live, request, phone, started, refused>>
    BY <1>7 DEF FillConfig, IInv, Engine
  <2>3. CASE file.ino # launcher[p].ino
    <3>1. file' = file
      BY <1>7, <2>3 DEF FillConfig
    <3>. QED  BY <2>1, <2>2, <3>1, Untouched
  <2>4. CASE file.ino = launcher[p].ino
    <3>. DEFINE Off(type) == [createProviderConfig(type) EXCEPT !.enabled = FALSE]
                Template(a, b, c) ==
                  [NoContent EXCEPT !.agents =
                     <<[id |-> a, entry |-> createProviderConfig("custom")],
                       [id |-> b, entry |-> Off("claudeCode")],
                       [id |-> c, entry |-> Off("codex")]>>]
    <3>1. PICK a \in Id, b \in Id, c \in Id :
            /\ file.rev < MaxWrites
            /\ file' = [file EXCEPT !.text = "whole", !.rev = @ + 1, !.is = Template(a, b, c)]
      BY <1>7, <2>4 DEF FillConfig
    <3>2. \A e \in Entry : [e EXCEPT !.enabled = FALSE] \in Entry
      BY DEF Entry
    <3>3. /\ createProviderConfig("custom") \in Entry
          /\ Off("claudeCode") \in Entry /\ Off("codex") \in Entry
      BY <3>2, ProviderTyped DEF AgentType, RealCli
    <3>. HIDE DEF Off
    <3>4. /\ [id |-> a, entry |-> createProviderConfig("custom")] \in Named
          /\ [id |-> b, entry |-> Off("claudeCode")] \in Named
          /\ [id |-> c, entry |-> Off("codex")] \in Named
      BY <3>3 DEF Named
    <3>5. Sound(Template(a, b, c))
      BY <3>4, TemplateSound
    <3>. HIDE DEF Template
    <3>6. file' \in File /\ file'.is = Template(a, b, c) /\ file'.rev = file.rev + 1
      <4>. DEFINE t == Template(a, b, c)
      <4>1. file.rev + 1 \in 0..MaxWrites /\ t \in Content /\ file \in File
        BY <3>1, <3>5 DEF IInv, Files, Sound
      <4>2. file' = [file EXCEPT !.text = "whole", !.rev = file.rev + 1, !.is = t]
        BY <3>1, <4>1 DEF File
      <4>. HIDE DEF t
      <4>3. file' \in File /\ file'.is = t /\ file'.rev = file.rev + 1
        BY <4>1, <4>2 DEF File
      <4>. QED  BY <4>3 DEF t
    <3>7. Files' /\ file'.rev \in Nat /\ file.rev < file'.rev
      BY <3>5, <3>6 DEF Files
    <3>. QED  BY <2>1, <2>2, <3>7, Elsewhere
  <2>. QED  BY <2>3, <2>4
<1>. QED  BY <1>1, <1>2, <1>3, <1>4, <1>5, <1>6, <1>7

LEMMA EditStep ==
  ASSUME IInv, Edit
  PROVE  IInv'
<1>1. PICK i \in DOMAIN file.is.agents, e \in HandWritten :
        LET named == [id |-> file.is.agents[i].id, entry |-> e]
        IN \/ WriteBy([file.is EXCEPT !.agents[i] = named], 1)
           \/ WriteBy([file.is EXCEPT !.agents = <<named>> \o @], 1)
  BY DEF Edit
<1>. DEFINE named == [id |-> file.is.agents[i].id, entry |-> e]
            replaced == [file.is EXCEPT !.agents[i] = named]
            prefixed == [file.is EXCEPT !.agents = <<named>> \o @]
<1>2. Sound(file.is) /\ e \in Entry
  BY ReloadAssumption DEF IInv, Files
<1>3. Sound(replaced) /\ Sound(prefixed)
  BY <1>2, EditSound
<1>4. file.edits + 1 <= MaxEdits
  BY Numbers DEF Edit
<1>5. WriteBy(replaced, 1) \/ WriteBy(prefixed, 1)
  BY <1>1
<1>. HIDE DEF replaced, prefixed
<1>6. Files' /\ file'.rev \in Nat /\ file.rev < file'.rev
  BY <1>3, <1>4, <1>5, Written
<1>7. Processes' /\ Engine' /\ UNCHANGED <<installs, live, request, phone, started, refused>>
  BY DEF Edit, IInv, Processes, Engine
<1>8. installs <= installs' /\ file.rev <= file'.rev
  BY <1>6, <1>7, Numbers
<1>. QED  BY <1>6, <1>7, <1>8, Elsewhere

LEMMA EngineStep ==
  ASSUME IInv, EngineChanges
  PROVE  IInv'
<1>1. Engine' /\ installs' = installs + 1
  BY ReloadAssumption DEF EngineChanges, IInv, Engine
<1>2. /\ Files' /\ Processes' /\ file'.rev = file.rev
      /\ UNCHANGED <<live, request, phone, started, refused>>
  BY DEF EngineChanges, IInv, Files, Processes
<1>3. installs <= installs' /\ installs < installs'
  BY <1>1, Numbers
<1>. QED  BY <1>1, <1>2, <1>3, Numbers, Elsewhere

-----------------------------------------------------------------------------
(* The host.                                                               *)

LEMMA AskStep ==
  ASSUME IInv, NEW kind \in {"providers", "launch", "start"}, NEW project \in BOOLEAN,
         Ask(kind, project)
  PROVE  IInv'
<1>1. /\ request' = [pc |-> "stat", kind |-> kind, project |-> project, again |-> FALSE,
                     from |-> file.rev, rev |-> 0]
      /\ started' = {} /\ refused' = {}
      /\ UNCHANGED <<file, launcher, engine, installs, live, phone>>
  BY DEF Ask
<1>2. Files' /\ Processes' /\ Engine' /\ Allowlist'
  BY <1>1 DEF IInv, Files, Processes, Engine, Allowlist
<1>3. Serving'
  BY <1>1, Numbers DEF IInv, Files, File, Serving, Served
<1>4. Ordered'
  BY <1>1, Numbers DEF IInv, Ordered
<1>5. Compared' /\ Launched'
  BY <1>1 DEF Compared, Launched
<1>6. Offers'
  BY <1>1 DEF IInv, Offers, Steady, Readable, OfferIsHonoured
<1>. QED  BY <1>2, <1>3, <1>4, <1>5, <1>6 DEF IInv

(* After its refresh a request looks at the catalog, resolves the launch,  *)
(* or refreshes once more (startSession).                                  *)
LEMMA Refreshed ==
  ASSUME NEW r \in Served, r.again => r.project
  PROVE  /\ AfterRefresh(r) \in Served
         /\ AfterRefresh(r).pc \in {"stat", "catalog", "resolve"}
         /\ AfterRefresh(r).from = r.from /\ AfterRefresh(r).project = r.project
         /\ AfterRefresh(r).kind = r.kind
         /\ AfterRefresh(r).again => r.project
         /\ AfterRefresh(r).pc = "resolve" => r.kind = "start" \/ r.project
<1>1. CASE r.again \/ (r.kind = "start" /\ ~r.project)
  <2>1. AfterRefresh(r) = [r EXCEPT !.pc = "resolve"]
    BY <1>1 DEF AfterRefresh
  <2>. QED  BY <1>1, <2>1 DEF Served
<1>2. CASE r.kind = "start" /\ ~r.again /\ r.project
  <2>1. AfterRefresh(r) = [r EXCEPT !.pc = "stat", !.again = TRUE]
    BY <1>2 DEF AfterRefresh
  <2>. QED  BY <1>2, <2>1 DEF Served
<1>3. CASE ~r.again /\ r.kind # "start"
  <2>1. AfterRefresh(r) = [r EXCEPT !.pc = "catalog"]
    BY <1>3 DEF AfterRefresh
  <2>. QED  BY <1>3, <2>1 DEF Served
<1>. QED  BY <1>1, <1>2, <1>3 DEF Served

LEMMA StatStep ==
  ASSUME IInv, Stat
  PROVE  IInv'
<1>1. /\ request.pc = "stat"
      /\ UNCHANGED <<file, launcher, engine, installs, live, phone, started, refused>>
  BY DEF Stat
<1>2. request \in Served /\ (request.again => request.project)
  BY DEF IInv, Serving
<1>3. started = {} /\ started' = {} /\ refused' = {}
  BY <1>1 DEF IInv, Launched
<1>4. Files' /\ Processes' /\ Engine' /\ Allowlist' /\ Launched'
  BY <1>1, <1>3 DEF IInv, Files, Processes, Engine, Allowlist, Launched
<1>5. Offers'
  BY <1>1 DEF IInv, Offers, Steady, Readable, OfferIsHonoured
<1>6. CASE configRevision = live.rev
  <2>1. request' = AfterRefresh(request)
    BY <1>6 DEF Stat
  <2>2. Serving' /\ Compared'
    BY <1>2, <2>1, Refreshed DEF Serving, Compared
  <2>3. /\ request.from <= live.read /\ live.rev = file.rev
        /\ request'.from = request.from /\ request'.pc # "load"
    BY <1>2, <1>6, <2>1, Refreshed, Numbers DEF IInv, Ordered, configRevision
  <2>4. Ordered'
    BY <1>1, <2>3 DEF IInv, Ordered
  <2>. QED  BY <1>4, <1>5, <2>2, <2>4 DEF IInv
<1>7. CASE configRevision # live.rev
  <2>1. request' = [request EXCEPT !.pc = "load", !.rev = file.rev] /\ file.rev # live.rev
    BY <1>7 DEF Stat, configRevision
  <2>2. file.rev \in 0..MaxWrites
    BY DEF IInv, Files, File
  <2>3. Serving' /\ Compared'
    BY <1>2, <2>1, <2>2 DEF Serving, Served, Compared
  <2>4. request'.from = request.from /\ request'.pc = "load" /\ request'.rev = file.rev
    BY <1>2, <2>1 DEF Served
  <2>5. Ordered'
    BY <1>1, <2>1, <2>4, Numbers DEF IInv, Ordered
  <2>. QED  BY <1>4, <1>5, <2>3, <2>5 DEF IInv
<1>. QED  BY <1>6, <1>7

LEMMA RefreshStep ==
  ASSUME IInv, refreshAgentConfigs
  PROVE  IInv'
<1>. DEFINE loaded == loadAgentConfigs(Readable.agents, engine)
<1>1. /\ request.pc = "load"
      /\ live' = [configs |-> loaded, rev |-> request.rev, read |-> file.rev]
      /\ request' = AfterRefresh(request)
      /\ UNCHANGED <<file, launcher, engine, installs, phone, started, refused>>
  BY DEF refreshAgentConfigs
<1>2. request \in Served /\ (request.again => request.project)
  BY DEF IInv, Serving
<1>3. started = {} /\ started' = {} /\ refused' = {}
  BY <1>1 DEF IInv, Launched
<1>4. DOMAIN loaded \subseteq Id /\ \A id \in DOMAIN loaded : Made(loaded[id])
  <2>1. Readable.agents \in Seq(Named) /\ engine \in BOOLEAN
    BY ReadableSound DEF IInv, Engine, Sound, Content
  <2>. QED  BY <2>1, LoadedMade
<1>. HIDE DEF loaded
<1>5. Allowlist'
  BY <1>1, <1>2, <1>4 DEF IInv, Files, File, Allowlist, Served
<1>6. Files' /\ Processes' /\ Engine' /\ Launched'
  BY <1>1, <1>3 DEF IInv, Files, Processes, Engine, Launched
<1>7. Serving' /\ Compared'
  BY <1>1, <1>2, Refreshed DEF Serving, Compared
<1>8. request'.from = request.from /\ request'.pc # "load"
  BY <1>1, <1>2, Refreshed
<1>9. Ordered'
  BY <1>1, <1>8, Numbers DEF IInv, Ordered
<1>10. live.rev # file.rev
  BY <1>1, Numbers DEF IInv, Ordered
<1>11. Offers'
  BY <1>1, <1>3, <1>10 DEF IInv, Offers, Steady, OfferIsHonoured
<1>. QED  BY <1>5, <1>6, <1>7, <1>9, <1>11 DEF IInv

LEMMA IdleServed == Idle \in Served /\ Idle.from = 0 /\ Idle.pc = "idle" /\ ~Idle.again
  BY ReloadAssumption DEF Idle, Served

(* The host would refuse nothing of what it offered (Steady).              *)
LEMMA Honours ==
  ASSUME IInv, NEW id \in DOMAIN phone.catalog.shown, phone.catalog.shown[id].startable,
         phone.from = file.rev, phone.installs = installs
  PROVE  /\ phone.catalog = loadProviderDescriptors(Readable.agents, engine, live.configs)
         /\ id \in DOMAIN live.configs
<1>1. phone.catalog = loadProviderDescriptors(Readable.agents, engine, live.configs)
  BY DEF IInv, Offers, Steady
<1>2. Shows(phone.catalog, live.configs)
  BY <1>1, CatalogShows
<1>. QED  BY <1>1, <1>2 DEF Shows

LEMMA CatalogStep ==
  ASSUME IInv, loadProviderCatalog
  PROVE  IInv'
<1>. DEFINE now == loadProviderDescriptors(Readable.agents, engine, live.configs)
<1>1. /\ request.pc = "catalog"
      /\ UNCHANGED <<file, launcher, engine, installs, live, started>>
  BY DEF loadProviderCatalog
<1>2. request \in Served /\ (request.again => request.project)
  BY DEF IInv, Serving
<1>3. started = {} /\ started' = {} /\ refused = {}
  BY <1>1 DEF IInv, Launched
<1>4. Files' /\ Processes' /\ Engine' /\ Allowlist'
  BY <1>1 DEF IInv, Files, Processes, Engine, Allowlist
<1>5. Shows(now, live.configs) /\ DOMAIN now.shown \subseteq Id
  <2>1. IdsOf(Readable.agents) \subseteq Id
    <3>1. Readable.agents \in Seq(Named)
      BY ReadableSound DEF Sound, Content
    <3>2. \A i \in DOMAIN Readable.agents : Readable.agents[i] \in Named
      BY <3>1
    <3>. QED  BY <3>2 DEF IdsOf, Named
  <2>. QED  BY <2>1, CatalogShows DEF IInv, Allowlist
<1>6. CASE request.kind = "providers"
  <2>1. /\ phone' = [catalog |-> now, from |-> request.from, installs |-> installs]
        /\ request' = Idle /\ refused' = {}
    BY <1>3, <1>6 DEF loadProviderCatalog, Answered
  <2>. HIDE DEF now
  <2>2. Steady'
    <3>1. request.from = file.rev => live.rev = file.rev
      BY <1>1 DEF IInv, Ordered
    <3>. QED  BY <1>1, <2>1, <3>1 DEF Steady, Readable, now
  <2>3. /\ request.from \in 0..MaxWrites /\ request.from <= file.rev
        /\ installs \in 0..MaxEngine /\ installs <= installs
    BY <1>2, Numbers DEF IInv, Ordered, Served, Engine
  <2>4. Offers'
    BY <1>1, <1>5, <2>1, <2>2, <2>3 DEF Offers, OfferIsHonoured
  <2>5. Serving' /\ Compared' /\ Ordered' /\ Launched'
    BY <1>1, <1>3, <2>1, IdleServed, Numbers DEF IInv, Serving, Compared, Ordered, Launched
  <2>. QED  BY <1>4, <2>4, <2>5 DEF IInv
<1>7. CASE request.kind # "providers" /\ catalogRevision(now) # catalogRevision(phone.catalog)
  <2>1. /\ request' = Idle /\ phone' = phone
        /\ refused' = {} \/ refused' = DOMAIN phone.catalog.shown
    BY <1>7 DEF loadProviderCatalog, Answered, Refuse
  <2>2. now # phone.catalog
    BY <1>7 DEF catalogRevision
  <2>3. OfferIsHonoured'
    BY <1>1, <2>1, <2>2, Honours DEF OfferIsHonoured
  <2>4. Offers'
    BY <1>1, <2>1, <2>3 DEF IInv, Offers, Steady, Readable
  <2>5. Serving' /\ Compared' /\ Ordered' /\ Launched'
    BY <1>1, <1>3, <2>1, IdleServed, Numbers DEF IInv, Serving, Compared, Ordered, Launched
  <2>. QED  BY <1>4, <2>4, <2>5 DEF IInv
<1>8. CASE request.kind # "providers" /\ catalogRevision(now) = catalogRevision(phone.catalog)
  <2>1. /\ phone' = phone /\ refused' = {}
        /\ request' = IF request.project THEN [request EXCEPT !.pc = "stat", !.again = TRUE]
                      ELSE [request EXCEPT !.pc = "resolve"]
    BY <1>3, <1>8 DEF loadProviderCatalog
  <2>2. now = phone.catalog
    BY <1>8 DEF catalogRevision
  <2>. HIDE DEF now
  <2>3. Offers'
    BY <1>1, <2>1 DEF IInv, Offers, Steady, Readable, OfferIsHonoured
  <2>4. Serving'
    BY <1>2, <2>1 DEF Serving, Served
  <2>5. Compared'
    BY <1>1, <1>5, <2>1, <2>2 DEF Compared, Shows
  <2>6. request'.from = request.from /\ request'.pc # "load"
    BY <1>2, <2>1 DEF Served
  <2>7. Ordered' /\ Launched'
    BY <1>1, <1>3, <2>1, <2>6 DEF IInv, Ordered, Launched
  <2>. QED  BY <1>4, <2>3, <2>4, <2>5, <2>7 DEF IInv
<1>. QED  BY <1>6, <1>7, <1>8

LEMMA LaunchStep ==
  ASSUME IInv, resolveLaunch
  PROVE  IInv'
<1>1. /\ request.pc = "resolve" /\ request' = Idle
      /\ UNCHANGED <<file, launcher, engine, installs, live, phone>>
  BY DEF resolveLaunch, Answered
<1>2. request \in Served /\ request.from <= live.read /\ started = {}
  BY <1>1 DEF IInv, Serving, Ordered, Launched
<1>. DEFINE Right(s) ==
       /\ Bounded(s.config) /\ s.runs = wrapCommandForSandbox(s.config)
       /\ s.project \in {"none", "configured"} => Made(s.config)
       /\ s.from \in 0..MaxWrites /\ s.from <= live.read
       /\ s.kind = "launch" /\ s.project = "none" =>
            phone.catalog.shown[s.id] = descriptorForLoadedConfig(s.config)
<1>3. ASSUME NEW id, NEW kind, NEW config, Start(id, kind, config), Bounded(config),
             kind \in {"none", "configured"} => Made(config),
             request.kind = "launch" /\ kind = "none" =>
               phone.catalog.shown[id] = descriptorForLoadedConfig(config)
      PROVE  refused' = {} /\ \A s \in started' : Right(s)
  BY <1>2, <1>3 DEF Start, Served
<1>4. ASSUME NEW id \in DOMAIN live.configs
      PROVE  Made(live.configs[id]) /\ Bounded(live.configs[id])
  BY <1>4, MadeFacts DEF IInv, Allowlist
<1>5. PICK id \in IF request.kind = "launch" THEN DOMAIN phone.catalog.shown ELSE Id :
       \/ /\ id \in DOMAIN live.configs /\ ~request.project
          /\ Start(id, "none", live.configs[id])
       \/ /\ id \in DOMAIN live.configs /\ request.project
          /\ \E target \in Target :
               /\ Granted(target, id, live.configs[id])
               /\ Start(id, target.kind, [live.configs[id] EXCEPT !.entry.dir = target.dir])
       \/ /\ request.project \/ id \notin DOMAIN live.configs
          /\ Refuse({id})
          /\ UNCHANGED started
  BY DEF resolveLaunch
<1>6. /\ \A s \in started' : Right(s)
      /\ refused' = {} \/ (refused' = {id} /\ id \notin DOMAIN live.configs)
  <2>. HIDE DEF Right
  <2>1. CASE id \in DOMAIN live.configs /\ ~request.project /\ Start(id, "none", live.configs[id])
    <3>1. request.kind = "launch" =>
            phone.catalog.shown[id] = descriptorForLoadedConfig(live.configs[id])
      BY <1>1, <2>1 DEF IInv, Compared
    <3>. QED  BY <1>3, <1>4, <2>1, <3>1
  <2>2. ASSUME id \in DOMAIN live.configs, NEW target \in Target,
               Granted(target, id, live.configs[id]),
               Start(id, target.kind, [live.configs[id] EXCEPT !.entry.dir = target.dir])
        PROVE  refused' = {} /\ \A s \in started' : Right(s)
    <3>. DEFINE config == [live.configs[id] EXCEPT !.entry.dir = target.dir]
    <3>1. target.dir \in Place /\ target.kind \in {"configured", "history", "created"}
      BY ReloadAssumption DEF Target
    <3>2. Bounded(config)
      BY <1>4, <2>2, <3>1, Placed
    <3>3. target.kind = "configured" => config = live.configs[id]
      BY <1>4, <2>2, <3>1, Placed DEF Granted
    <3>4. target.kind \in {"none", "configured"} => Made(config)
      BY <1>4, <2>2, <3>1, <3>3
    <3>. HIDE DEF config
    <3>5. Start(id, target.kind, config)
      BY <2>2 DEF config
    <3>. QED  BY <1>3, <3>1, <3>2, <3>4, <3>5
  <2>3. CASE (request.project \/ id \notin DOMAIN live.configs) /\ Refuse({id}) /\ UNCHANGED started
    BY <1>2, <2>3 DEF Refuse
  <2>. QED  BY <1>5, <2>1, <2>2, <2>3
<1>7. Launched'
  BY <1>1, <1>6, IdleServed DEF Launched
<1>8. Files' /\ Processes' /\ Engine' /\ Allowlist'
  BY <1>1 DEF IInv, Files, Processes, Engine, Allowlist
<1>9. OfferIsHonoured'
  BY <1>1, <1>6, Honours DEF OfferIsHonoured
<1>10. refused' \subseteq Id
  BY <1>5, <1>6 DEF IInv, Offers
<1>11. Offers'
  BY <1>1, <1>9, <1>10 DEF IInv, Offers, Steady, Readable
<1>12. Serving' /\ Compared' /\ Ordered'
  BY <1>1, IdleServed, Numbers DEF IInv, Serving, Compared, Ordered
<1>. QED  BY <1>7, <1>8, <1>11, <1>12 DEF IInv

-----------------------------------------------------------------------------
(* The theorems.                                                           *)

LEMMA Initially ==
  ASSUME Init
  PROVE  IInv
<1>. USE ReloadAssumption
<1>1. Files
  <2>1. CASE file = [text |-> "absent", rev |-> 0, ino |-> 0, is |-> NoContent, edits |-> 0]
    BY <2>1, NothingSound DEF Files, File, Sound
  <2>2. ASSUME NEW id \in Id, NEW answer \in Answers,
               file = [text |-> "whole", rev |-> 0, ino |-> 0, edits |-> 0,
                       is |-> runGuidedSetup(NoContent, id, answer)]
        PROVE  Files
    <3>1. Sound(runGuidedSetup(NoContent, id, answer))
      BY NothingSound, SetupSound
    <3>. QED  BY <2>2, <3>1 DEF Files, File, Sound
  <2>. QED  BY <2>1, <2>2 DEF Init
<1>2. Processes
  <2>1. [pc |-> "idle", read |-> NoContent, ino |-> 0] \in Process
    BY NothingSound DEF Process, Sound
  <2>. QED  BY <2>1, NothingSound DEF Init, Processes
<1>3. Engine
  BY DEF Init, Engine
<1>4. Allowlist
  <2>1. Readable.agents \in Seq(Named)
    BY <1>1, NothingSound DEF Files, Readable, Sound, Content
  <2>2. live = [configs |-> loadAgentConfigs(Readable.agents, engine), rev |-> 0, read |-> 0]
    BY DEF Init
  <2>3. /\ DOMAIN live.configs \subseteq Id
        /\ \A id \in DOMAIN live.configs : Made(live.configs[id])
    BY <1>3, <2>1, <2>2, LoadedMade DEF Engine
  <2>. QED  BY <2>2, <2>3 DEF Allowlist
<1>5. Serving /\ Compared
  BY IdleServed DEF Init, Serving, Compared
<1>6. Ordered
  <2>1. file.rev = 0
    BY DEF Init
  <2>. QED  BY <2>1, IdleServed DEF Init, Ordered
<1>7. Launched
  BY DEF Init, Launched
<1>8. Offers
  <2>1. /\ file.rev = 0 /\ installs = 0 /\ refused = {}
        /\ phone = [catalog |-> [order |-> <<>>, shown |-> [id \in {} |-> 0]],
                    from |-> 0, installs |-> 0]
    BY DEF Init
  <2>2. DOMAIN phone.catalog.shown = {} /\ phone.from = 0 /\ phone.installs = 0
    BY <2>1
  <2>. QED  BY <2>1, <2>2 DEF Offers, Steady, OfferIsHonoured
<1>. QED  BY <1>1, <1>2, <1>3, <1>4, <1>5, <1>6, <1>7, <1>8 DEF IInv

(* The inductive invariant, from which the rest follows.                   *)
THEOREM Invariant == Spec => []IInv
<1>1. ASSUME IInv, [Next]_vars
      PROVE  IInv'
  <2>1. CASE \E p \in Launcher : loadConfigForSetup(p) \/ SetUp(p) \/ Remove(p) \/ GiveUp(p)
                                 \/ InitConfig(p) \/ OpenConfig(p) \/ FillConfig(p)
    BY <1>1, <2>1, CommandLineStep
  <2>2. CASE Edit
    BY <1>1, <2>2, EditStep
  <2>3. CASE EngineChanges
    BY <1>1, <2>3, EngineStep
  <2>4. CASE providersRequest \/ startSession
    BY <1>1, <2>4, AskStep DEF providersRequest, startSession
  <2>5. CASE Stat
    BY <1>1, <2>5, StatStep
  <2>6. CASE refreshAgentConfigs
    BY <1>1, <2>6, RefreshStep
  <2>7. CASE loadProviderCatalog
    BY <1>1, <2>7, CatalogStep
  <2>8. CASE resolveLaunch
    BY <1>1, <2>8, LaunchStep
  <2>9. CASE UNCHANGED vars
    BY <1>1, <2>9, Untouched DEF vars, IInv, Processes
  <2>. QED  BY <1>1, <2>1, <2>2, <2>3, <2>4, <2>5, <2>6, <2>7, <2>8, <2>9 DEF Next
<1>2. Init => IInv
  BY Initially
<1>. QED  BY <1>1, <1>2, PTL DEF Spec

(* Every variable keeps its type.                                          *)
THEOREM TypeCorrect == Spec => []TypeOK
<1>1. IInv => TypeOK
  BY IInvImplies
<1>. QED  BY <1>1, Invariant, PTL

(* However many setups, removals and edits overlap, the file grants        *)
(* nothing to a provider that it does not name.                            *)
THEOREM GrantsResolve == Spec => []RefsResolve
<1>1. IInv => RefsResolve
  BY IInvImplies
<1>. QED  BY <1>1, Invariant, PTL

(* A launch never runs what the file had stopped saying when it came in    *)
(* (refreshAgentConfigs samples the revision before it reads).             *)
THEOREM Current == Spec => []LaunchIsCurrent
<1>1. IInv => LaunchIsCurrent
  BY IInvImplies
<1>. QED  BY <1>1, Invariant, PTL

(* A strict launch runs with the boundary and the network that the phone   *)
(* showed.                                                                 *)
THEOREM AsShown == Spec => []LaunchIsAsShown
<1>1. IInv => LaunchIsAsShown
  BY IInvImplies
<1>. QED  BY <1>1, Invariant, PTL

(* Whatever entries an operator writes, and wherever a project may be,     *)
(* none is started without the boundary that its entry requires, nor in a  *)
(* container that has a network its entry did not ask for; where the       *)
(* entry's own directory is used, it is one that its boundary may be given *)
(* (validateEntry, resolveLaunch).                                         *)
THEOREM Confined == Spec => []LaunchIsConfined
<1>1. IInv => LaunchIsConfined
  BY IInvImplies
<1>. QED  BY <1>1, Invariant, PTL

(* A provider that the phone was offered is not refused, for no project,   *)
(* unless the file or the engine has changed (startSession reads the file  *)
(* again for each launch).                                                 *)
THEOREM Offered == Spec => []OfferIsHonoured
<1>1. IInv => OfferIsHonoured
  BY IInvImplies
<1>. QED  BY <1>1, Invariant, PTL
=============================================================================
