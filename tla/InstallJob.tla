----------------------------- MODULE InstallJob -----------------------------
(***************************************************************************)
(* What an installation job promises its caller, whatever happens on the   *)
(* network and in the installation scripts: it settles on a plan, obtains  *)
(* everything in the plan before it installs anything, installs the plan   *)
(* in order, and succeeds exactly when the whole plan is installed.  The   *)
(* Downloader implements it.                                               *)
(***************************************************************************)
EXTENDS Sequences, Naturals

CONSTANT Package

VARIABLES
    plan,        \* the packages to install, in order
    installed,   \* the packages installed, in the order they were
    phase        \* planning, fetching, installing, succeeded, failed

jobVars == <<plan, installed, phase>>

Init ==
    /\ plan = <<>>
    /\ installed = <<>>
    /\ phase = "planning"

Settle ==
    /\ phase = "planning"
    /\ plan' \in Seq(Package) \ {<<>>}
    /\ phase' = "fetching"
    /\ UNCHANGED installed

StartInstalling ==
    /\ phase = "fetching"
    /\ phase' = "installing"
    /\ UNCHANGED <<plan, installed>>

InstallNext ==
    /\ phase = "installing"
    /\ Len(installed) < Len(plan)
    /\ installed' = Append(installed, plan[Len(installed) + 1])
    /\ phase' = IF Len(installed') = Len(plan) THEN "succeeded" ELSE "installing"
    /\ UNCHANGED plan

Fail ==
    /\ phase \in {"fetching", "installing"}
    /\ phase' = "failed"
    /\ UNCHANGED <<plan, installed>>

Next == Settle \/ StartInstalling \/ InstallNext \/ Fail

Spec == Init /\ [][Next]_jobVars
=============================================================================
