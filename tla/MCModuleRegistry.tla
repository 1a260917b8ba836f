-------------------------- MODULE MCModuleRegistry --------------------------
(* Instances of ModuleRegistry for TLC. *)
EXTENDS ModuleRegistry

CONSTANTS core, core2, render, audio

\* core2 is another module with the name of core
Names == core :> "core" @@ core2 :> "core" @@ render :> "render" @@ audio :> "audio"
Kinds == core :> "owned" @@ core2 :> "shared" @@ render :> "raw" @@ audio :> "owned"
=============================================================================
