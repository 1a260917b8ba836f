-------------------------- MODULE ModuleLifecycle --------------------------
(***************************************************************************)
(* What ModuleRegistry promises about each module: the phases it goes      *)
(* through, that it starts only over ready dependencies, and that once it  *)
(* is ready nothing but shutdown or unregister ends that.                  *)
(***************************************************************************)
CONSTANTS
  Module,
  Name,
  NameOf    \* the name of each module

VARIABLES
  phase,    \* what registry.phase returns for the module
  needs     \* the names a registered module depends on

vars == <<phase, needs>>

Starting == {"PreInit", "Init", "PostInit"}
Phase == Starting \cup {"Unregistered", "Registered", "Ready", "Failed", "Shutdown"}

Init ==
  /\ phase = [m \in Module |-> "Unregistered"]
  /\ needs = [m \in Module |-> {}]

\* a name is registered once
Register(m) ==
  /\ \A d \in Module : NameOf[d] = NameOf[m] => phase[d] = "Unregistered"
  /\ phase' = [phase EXCEPT ![m] = "Registered"]
  /\ \E D \in SUBSET Name : needs' = [needs EXCEPT ![m] = D]

\* start-up of a module begins only when all it needs is ready
Begin(m) ==
  /\ phase[m] \in {"Registered", "Shutdown"}
  /\ \A n \in needs[m] : \E d \in Module : NameOf[d] = n /\ phase[d] = "Ready"
  /\ phase' = [phase EXCEPT ![m] = "PreInit"]
  /\ UNCHANGED needs

Advance(m) ==
  /\ \/ phase[m] = "PreInit" /\ phase' = [phase EXCEPT ![m] = "Init"]
     \/ phase[m] = "Init" /\ phase' = [phase EXCEPT ![m] = "PostInit"]
     \/ phase[m] = "PostInit" /\ phase' = [phase EXCEPT ![m] = "Ready"]
  /\ UNCHANGED needs

\* a failure takes modules that were starting or waiting to, never a ready one
Fail(S) ==
  /\ \A m \in S : phase[m] \in {"Registered", "Shutdown", "Failed"} \cup Starting
  /\ phase' = [m \in Module |-> IF m \in S THEN "Failed" ELSE phase[m]]
  /\ UNCHANGED needs

\* a module is stopped when it is ready, or when an exception left it half way
Stop(m) ==
  /\ phase[m] \in {"Ready"} \cup Starting
  /\ phase' = [phase EXCEPT ![m] = "Shutdown"]
  /\ UNCHANGED needs

\* unregister takes one module, the destructor all
Drop(S) ==
  /\ phase' = [m \in Module |-> IF m \in S THEN "Unregistered" ELSE phase[m]]
  /\ needs' = [m \in Module |-> IF m \in S THEN {} ELSE needs[m]]

Next ==
  \/ \E m \in Module : Register(m) \/ Begin(m) \/ Advance(m) \/ Stop(m)
  \/ \E S \in SUBSET Module : Fail(S) \/ Drop(S)

Spec == Init /\ [][Next]_vars
=============================================================================
