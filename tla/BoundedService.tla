---------------------------- MODULE BoundedService ----------------------------
(***************************************************************************)
(* What the burl task group promises, with all mechanism left out:         *)
(* requests are admitted at most once, at most Cap (--parallel-max) of     *)
(* them are in service at any time, and none is admitted once the group    *)
(* has been closed.                                                        *)
(***************************************************************************)
EXTENDS Naturals, FiniteSets

CONSTANTS
    Clients,    \* everything that may ask to be served
    Cap         \* how many may be in service at the same time

VARIABLES
    phase,      \* phase[c] \in {"waiting", "served", "done"}
    open        \* FALSE once the service has been closed

vars == <<phase, open>>

InService == {c \in Clients : phase[c] = "served"}

Init ==
    /\ phase = [c \in Clients |-> "waiting"]
    /\ open = TRUE

Admit(c) ==
    /\ open
    /\ phase[c] = "waiting"
    /\ Cardinality(InService) < Cap
    /\ phase' = [phase EXCEPT ![c] = "served"]
    /\ UNCHANGED open

Finish(c) ==
    /\ phase[c] = "served"
    /\ phase' = [phase EXCEPT ![c] = "done"]
    /\ UNCHANGED open

(***************************************************************************)
(* The step that ends one client may also be the one that closes the       *)
(* service: burl's --fail-early does both in one completion handler.       *)
(***************************************************************************)
FinishAndClose(c) ==
    /\ phase[c] = "served"
    /\ phase' = [phase EXCEPT ![c] = "done"]
    /\ open' = FALSE

Close ==
    /\ open' = FALSE
    /\ UNCHANGED phase

Next ==
    \/ \E c \in Clients : Admit(c) \/ Finish(c) \/ FinishAndClose(c)
    \/ Close

Spec == Init /\ [][Next]_vars
===============================================================================
