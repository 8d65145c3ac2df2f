------------------------ MODULE TerminalAgentProofs ------------------------
(***************************************************************************)
(* Proofs about TerminalAgent: type correctness and the safety properties  *)
(* its run checks. The module has no parameter; what the proofs add to the *)
(* run is the argument.                                                    *)
(***************************************************************************)
EXTENDS TerminalAgent, TLAPS

(* The inductive invariant. A stop timer is pending only after a stop or a *)
(* timeout, and one is overwritten only by the second of the two, which is *)
(* why there is never more than one stray. The registries hold a child     *)
(* exactly while it lives, which is what the exit of the host relies on.   *)
TimersInv ==
  /\ stopTimer => stopped \/ timedOut
  /\ strays = 1 => stopped /\ timedOut
  /\ runtimeTimer = "armed" => ~timedOut

RegistryInv ==
  host = "up" => registered = IF child = "live" THEN Registries ELSE {}

FreshInv ==
  /\ status = "new" => child = "none" /\ ~stopped
  /\ child = "none" => /\ sig = "none" /\ ~timedOut /\ ~members
                       /\ runtimeTimer = "off"

IInv ==
  /\ TypeOK
  /\ DoomedIsEscalated
  /\ NoOrphans
  /\ TimersInv
  /\ RegistryInv
  /\ FreshInv

LEMMA InitInv == Init => IInv
<1> SUFFICES ASSUME Init PROVE IInv
  OBVIOUS
<1>1. TypeOK
  <2>1. mode \in Mode /\ registered \subseteq Registry
    BY DEF Init
  <2>2. /\ status \in {"new", "working"} \cup Terminal
        /\ child \in {"none", "live", "exited"}
        /\ sig \in {"none", "term", "kill"}
        /\ runtimeTimer \in {"off", "armed", "fired"}
        /\ strays \in 0..1
        /\ host \in {"up", "down"}
    BY DEF Init
  <2>3. {stopped, timedOut, members, container, removal, stopTimer} \subseteq BOOLEAN
    BY DEF Init
  <2>4. QED
    BY <2>1, <2>2, <2>3 DEF TypeOK
<1>2. DoomedIsEscalated /\ NoOrphans /\ TimersInv
  BY DEF Init, DoomedIsEscalated, NoOrphans, TimersInv
<1>3. RegistryInv /\ FreshInv
  BY DEF Init, RegistryInv, FreshInv
<1>4. QED
  BY <1>1, <1>2, <1>3 DEF IInv

LEMMA RegistriesType == Registries \subseteq Registry
BY DEF Registries, Registry

LEMMA StartInv == IInv /\ Start => IInv'
<1> SUFFICES ASSUME IInv, Start PROVE IInv'
  OBVIOUS
<1> USE DEF IInv, Start, Handler
<1>1. TypeOK'
  BY RegistriesType DEF TypeOK, FreshInv, Terminal
<1>2. DoomedIsEscalated' /\ TimersInv' /\ FreshInv'
  BY DEF TypeOK, DoomedIsEscalated, TimersInv, FreshInv, Terminal
<1>3. NoOrphans'
  BY DEF NoOrphans, FreshInv, detached
<1>4. RegistryInv'
  BY DEF TypeOK, RegistryInv, FreshInv, Registries, detached
<1>5. QED
  BY <1>1, <1>2, <1>3, <1>4

(* The signal that terminateChild leaves, and a SIGKILL is not taken back. *)
LEMMA SignalFacts ==
  ASSUME TypeOK, NEW signal \in {"term", "kill"}, terminateChild(signal)
  PROVE  /\ sig' \in {"none", "term", "kill"}
         /\ child = "live" => sig' \in {signal, "kill"}
         /\ child # "live" => sig' = sig
         /\ sig = "kill" => sig' = "kill"
         /\ sig' = "kill" => sig = "kill" \/ (child = "live" /\ signal = "kill")
BY DEF TypeOK, terminateChild

LEMMA StopSessionInv == IInv /\ StopSession => IInv'
<1> SUFFICES ASSUME IInv, StopSession PROVE IInv'
  OBVIOUS
<1> USE DEF IInv, StopSession, Handler
<1>1. CASE child = "live"
  <2>1. terminateChild("term") /\ stopTimer' /\ strays' = IF stopTimer THEN strays + 1 ELSE strays
    BY <1>1 DEF terminateWithEscalation
  <2>2. /\ sig' \in {"term", "kill"} /\ (sig = "kill" <=> sig' = "kill")
    BY <1>1, <2>1, SignalFacts DEF TypeOK
  <2>3. strays = 0
    BY DEF TypeOK, TimersInv
  <2>4. TypeOK'
    BY <1>1, <2>1, <2>2, <2>3 DEF TypeOK, terminateWithEscalation
  <2>5. DoomedIsEscalated'
    BY <2>1, <2>2 DEF DoomedIsEscalated
  <2>6. NoOrphans'
    BY <2>2 DEF NoOrphans, detached
  <2>7. TimersInv'
    BY <2>1, <2>3 DEF TimersInv, TypeOK
  <2>8. RegistryInv' /\ FreshInv'
    BY <1>1 DEF RegistryInv, FreshInv, Registries, detached
  <2>9. QED
    BY <2>4, <2>5, <2>6, <2>7, <2>8
<1>2. CASE child # "live"
  <2>1. TypeOK' /\ DoomedIsEscalated' /\ TimersInv' /\ FreshInv'
    BY <1>2 DEF TypeOK, DoomedIsEscalated, TimersInv, FreshInv, Terminal
  <2>2. NoOrphans' /\ RegistryInv'
    BY <1>2 DEF NoOrphans, RegistryInv, Registries, detached
  <2>3. QED
    BY <2>1, <2>2
<1>3. QED
  BY <1>1, <1>2

LEMMA OutputInv ==
  ASSUME NEW line \in Line, IInv, Output(line)
  PROVE  IInv'
<1> USE DEF IInv, Output, Handler, process, timers
<1>1. TypeOK'
  BY DEF TypeOK, Line, processLine, Terminal
<1>2. DoomedIsEscalated' /\ TimersInv'
  BY DEF DoomedIsEscalated, TimersInv
<1>3. NoOrphans' /\ RegistryInv'
  BY DEF NoOrphans, RegistryInv, Registries, detached
<1>4. FreshInv'
  <2>1. child' = child /\ child # "none"
    OBVIOUS
  <2>2. status' = status \/ status' = line
    BY DEF processLine
  <2>3. status' # "new"
    BY <2>1, <2>2 DEF FreshInv, Line
  <2>4. QED
    BY <2>1, <2>3 DEF FreshInv
<1>5. QED
  BY <1>1, <1>2, <1>3, <1>4

LEMMA ExitInv ==
  ASSUME NEW line \in Line, NEW code \in ExitCode, IInv, Exit(line, code)
  PROVE  IInv'
<1> USE DEF IInv, Exit, Handler
<1>1. status' \in {"working"} \cup Terminal
  BY DEF TypeOK, FreshInv, Outcome, processLine, Line, Terminal
<1>2. TypeOK'
  BY <1>1 DEF TypeOK
<1>3. DoomedIsEscalated' /\ TimersInv' /\ RegistryInv'
  BY DEF DoomedIsEscalated, TimersInv, RegistryInv
<1>4. FreshInv'
  BY <1>1 DEF FreshInv, Terminal
<1>5. NoOrphans'
  BY DEF NoOrphans, detached
<1>6. QED
  BY <1>2, <1>3, <1>4, <1>5

LEMMA RuntimeTimeoutInv == IInv /\ RuntimeTimeout => IInv'
<1> SUFFICES ASSUME IInv, RuntimeTimeout PROVE IInv'
  OBVIOUS
<1> USE DEF IInv, RuntimeTimeout, Handler
<1>1. CASE stopped \/ status \in Terminal
  <2>1. TypeOK' /\ DoomedIsEscalated' /\ TimersInv' /\ FreshInv'
    BY <1>1 DEF TypeOK, DoomedIsEscalated, TimersInv, FreshInv
  <2>2. NoOrphans' /\ RegistryInv'
    BY <1>1 DEF NoOrphans, RegistryInv, Registries, detached
  <2>3. QED
    BY <2>1, <2>2
<1>2. CASE ~(stopped \/ status \in Terminal)
  <2>1. /\ timedOut' /\ terminateChild("term") /\ stopTimer'
        /\ strays' = IF stopTimer THEN strays + 1 ELSE strays
    BY <1>2 DEF terminateWithEscalation
  <2>2. ~stopTimer /\ strays = 0 /\ child # "none"
    BY <1>2 DEF TypeOK, TimersInv, FreshInv
  <2>3. /\ sig' \in {"none", "term", "kill"} /\ (sig = "kill" <=> sig' = "kill")
        /\ child = "live" => sig' # "none"
    BY <2>1, SignalFacts DEF TypeOK
  <2>4. TypeOK'
    BY <1>2, <2>1, <2>2, <2>3 DEF TypeOK, terminateWithEscalation
  <2>5. DoomedIsEscalated'
    BY <2>1, <2>3 DEF DoomedIsEscalated
  <2>6. NoOrphans'
    BY <2>3 DEF NoOrphans, detached
  <2>7. TimersInv'
    BY <2>1, <2>2 DEF TimersInv
  <2>8. RegistryInv' /\ FreshInv'
    BY <2>2 DEF RegistryInv, FreshInv, Registries, detached
  <2>9. QED
    BY <2>4, <2>5, <2>6, <2>7, <2>8
<1>3. QED
  BY <1>1, <1>2

LEMMA StopTimeoutInv == IInv /\ StopTimeout => IInv'
<1> SUFFICES ASSUME IInv, StopTimeout PROVE IInv'
  OBVIOUS
<1> USE DEF IInv, StopTimeout, Handler
<1>1. /\ stopTimer' \in BOOLEAN /\ strays' \in 0..1
      /\ stopTimer' => stopTimer
      /\ strays' = 1 => strays = 1
  <2>1. CASE stopTimer /\ stopTimer' = FALSE /\ UNCHANGED strays
    BY <2>1 DEF TypeOK
  <2>2. CASE strays > 0 /\ strays' = strays - 1 /\ UNCHANGED stopTimer
    <3>1. strays = 1 /\ strays' = 0
      BY <2>2 DEF TypeOK
    <3>2. QED
      BY <2>2, <3>1 DEF TypeOK
  <2>3. QED
    BY <2>1, <2>2
<1>2. /\ sig' \in {"none", "term", "kill"}
      /\ child = "live" => sig' = "kill"
      /\ child # "live" => sig' = sig
  BY SignalFacts DEF TypeOK
<1>3. /\ members' \in BOOLEAN /\ removal' \in BOOLEAN
      /\ members' => members
      /\ removal => removal'
      /\ child = "live" => /\ detached => ~members'
                           /\ mode = "container" => removal'
  BY DEF TypeOK, KillRest
<1>4. TypeOK'
  BY <1>1, <1>2, <1>3 DEF TypeOK
<1>5. DoomedIsEscalated'
  BY <1>2 DEF DoomedIsEscalated
<1>6. NoOrphans'
  BY <1>2, <1>3 DEF NoOrphans, detached
<1>7. TimersInv'
  BY <1>1 DEF TimersInv
<1>8. RegistryInv' /\ FreshInv'
  BY <1>2, <1>3 DEF RegistryInv, FreshInv, Registries, detached
<1>9. QED
  BY <1>4, <1>5, <1>6, <1>7, <1>8

LEMMA HostExitInv == IInv /\ HostExit => IInv'
<1> SUFFICES ASSUME IInv, HostExit PROVE IInv'
  OBVIOUS
<1> USE DEF IInv, HostExit, timers
<1>1. CASE child = "live"
  <2>1. registered = Registries
    BY <1>1 DEF RegistryInv
  <2>2. sig' = "kill"
    BY <2>1 DEF Registries
  <2>3. /\ members' = (members /\ ~detached)
        /\ removal' = (removal \/ mode = "container")
    BY <2>1 DEF Registries
  <2>4. TypeOK'
    BY <2>2, <2>3 DEF TypeOK
  <2>5. NoOrphans'
    BY <2>2, <2>3 DEF NoOrphans, detached
  <2>6. DoomedIsEscalated' /\ TimersInv' /\ RegistryInv' /\ FreshInv'
    BY <1>1 DEF DoomedIsEscalated, TimersInv, RegistryInv, FreshInv
  <2>7. QED
    BY <2>4, <2>5, <2>6
<1>2. CASE child # "live"
  <2>1. registered = {}
    BY <1>2 DEF RegistryInv
  <2>2. sig' = sig /\ (members' <=> members) /\ (removal' <=> removal)
    BY <2>1
  <2>3. TypeOK'
    BY <2>2 DEF TypeOK
  <2>4. NoOrphans'
    BY <1>2, <2>2 DEF NoOrphans, detached
  <2>5. DoomedIsEscalated' /\ TimersInv' /\ RegistryInv' /\ FreshInv'
    BY <2>2 DEF DoomedIsEscalated, TimersInv, RegistryInv, FreshInv
  <2>6. QED
    BY <2>3, <2>4, <2>5
<1>3. QED
  BY <1>1, <1>2

LEMMA SystemInv == IInv /\ System => IInv'
<1> SUFFICES ASSUME IInv, System PROVE IInv'
  OBVIOUS
<1> USE DEF IInv, System, timers
<1>1. CASE Dies
  <2>1. TypeOK' /\ DoomedIsEscalated' /\ TimersInv'
    BY <1>1 DEF Dies, TypeOK, DoomedIsEscalated, TimersInv
  <2>2. NoOrphans'
    BY <1>1 DEF Dies, NoOrphans, detached
  <2>3. RegistryInv' /\ FreshInv'
    BY <1>1 DEF Dies, TypeOK, RegistryInv, FreshInv, Registries, detached
  <2>4. QED
    BY <2>1, <2>2, <2>3
<1>2. CASE Forks
  <2>1. TypeOK' /\ DoomedIsEscalated' /\ TimersInv'
    BY <1>2 DEF Forks, TypeOK, DoomedIsEscalated, TimersInv
  <2>2. NoOrphans'
    BY <1>2 DEF Forks, NoOrphans, detached
  <2>3. RegistryInv' /\ FreshInv'
    BY <1>2 DEF Forks, TypeOK, RegistryInv, FreshInv, Registries, detached
  <2>4. QED
    BY <2>1, <2>2, <2>3
<1>3. CASE MembersExit
  <2>1. TypeOK' /\ DoomedIsEscalated' /\ TimersInv'
    BY <1>3 DEF MembersExit, TypeOK, DoomedIsEscalated, TimersInv
  <2>2. NoOrphans'
    BY <1>3 DEF MembersExit, NoOrphans, detached
  <2>3. RegistryInv' /\ FreshInv'
    BY <1>3 DEF MembersExit, TypeOK, RegistryInv, FreshInv, Registries, detached
  <2>4. QED
    BY <2>1, <2>2, <2>3
<1>4. CASE EngineRemoves
  <2>1. TypeOK' /\ DoomedIsEscalated' /\ TimersInv'
    BY <1>4 DEF EngineRemoves, TypeOK, DoomedIsEscalated, TimersInv
  <2>2. NoOrphans'
    BY <1>4 DEF EngineRemoves, NoOrphans, detached
  <2>3. RegistryInv' /\ FreshInv'
    BY <1>4 DEF EngineRemoves, TypeOK, RegistryInv, FreshInv, Registries, detached
  <2>4. QED
    BY <2>1, <2>2, <2>3
<1>5. QED
  BY <1>1, <1>2, <1>3, <1>4

LEMMA StutterInv == IInv /\ UNCHANGED vars => IInv'
BY DEF IInv, vars, process, timers, TypeOK, DoomedIsEscalated, NoOrphans, TimersInv,
       RegistryInv, FreshInv, Registries, detached

LEMMA NextInv == IInv /\ [Next]_vars => IInv'
BY StartInv, StopSessionInv, OutputInv, ExitInv, RuntimeTimeoutInv, StopTimeoutInv,
   HostExitInv, SystemInv, StutterInv DEF Next

(* The inductive invariant holds in every reachable state, in every mode.  *)
THEOREM Invariant == Spec => []IInv
BY InitInv, NextInv, PTL DEF Spec

(* Type correctness; with it, that never more than one timer is left over. *)
THEOREM TypeCorrect == Spec => []TypeOK
<1>1. IInv => TypeOK
  BY DEF IInv
<1>2. QED
  BY <1>1, Invariant, PTL

(* A child the user stopped or whose time ran out is being killed.         *)
THEOREM Escalated == Spec => []DoomedIsEscalated
<1>1. IInv => DoomedIsEscalated
  BY DEF IInv
<1>2. QED
  BY <1>1, Invariant, PTL

(* A child that is alive when the host exits is killed, and SIGKILL reaches*)
(* its group and its container as well. (Nothing is said of the group of a *)
(* child that had exited before: the registries no longer hold it.)        *)
THEOREM NothingLeft == Spec => []NoOrphans
<1>1. IInv => NoOrphans
  BY DEF IInv
<1>2. QED
  BY <1>1, Invariant, PTL

(* No step signals a child that has exited.                                *)
THEOREM SafeSignals == Spec => SignalsAreSafe
<1>1. IInv /\ [Next]_vars => [sig' # sig => child = "live"]_vars
  <2> SUFFICES ASSUME IInv, Next, sig' # sig PROVE child = "live"
    BY DEF vars, process
  <2>1. CASE Start
    BY <2>1 DEF Start
  <2>2. CASE StopSession
    BY <2>2 DEF StopSession
  <2>3. CASE RuntimeTimeout
    BY <2>3 DEF RuntimeTimeout, terminateWithEscalation, terminateChild
  <2>4. CASE StopTimeout
    BY <2>4 DEF StopTimeout, terminateChild
  <2>5. CASE HostExit
    BY <2>5 DEF HostExit, IInv, RegistryInv
  <2>6. CASE System
    BY <2>6 DEF System, Dies, Forks, MembersExit, EngineRemoves
  <2>7. ASSUME NEW line \in Line, Output(line) PROVE child = "live"
    BY <2>7 DEF Output, process
  <2>8. ASSUME NEW line \in Line, NEW code \in ExitCode, Exit(line, code)
        PROVE child = "live"
    BY <2>8 DEF Exit
  <2>9. QED
    BY <2>1, <2>2, <2>3, <2>4, <2>5, <2>6, <2>7, <2>8 DEF Next
<1>2. QED
  BY <1>1, Invariant, PTL DEF Spec, SignalsAreSafe
=============================================================================
