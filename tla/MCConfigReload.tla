--------------------------- MODULE MCConfigReload ----------------------------
(***************************************************************************)
(* ConfigReload for TLC. Entries of each kind that the loader tells apart; *)
(* ids and command-line processes are interchangeable.                     *)
(***************************************************************************)
EXTENDS ConfigReload, TLC

Codex == [type |-> "codex", io |-> "codex-jsonl", enabled |-> TRUE, fields |-> "good",
          dir |-> "project", mode |-> "container", keys |-> "container",
          required |-> TRUE, network |-> "unset"]

MCHandWritten ==
  {Codex,                                               \* needs the engine
   [Codex EXCEPT !.required = FALSE, !.network = "on"], \* is downgraded without
   [Codex EXCEPT !.dir = "inside"],                     \* a mount that is refused
   [Codex EXCEPT !.type = "claudeCode", !.io = "stream-json"]}

(* Everything is granted.                                                  *)
MCAnswers ==
  {[type |-> "codex", share |-> TRUE, create |-> "yes"],
   [type |-> "claudeCode", share |-> TRUE, create |-> "yes"]}

MCFound == {"project", "home"}

Symmetry == Permutations(Id) \cup Permutations(Launcher)
=============================================================================
