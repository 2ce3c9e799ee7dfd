------------------------------ MODULE BuildLife ------------------------------
(***************************************************************************)
(* What the deployment service promises of a build, seen through its       *)
(* document: it is queued, worked on, and gets a verdict that later health *)
(* checks may revise; an artifact is offered with a good verdict only and  *)
(* is never withdrawn; a removed build never comes back.                   *)
(***************************************************************************)
CONSTANT Jobs

VARIABLES
    phase,     \* "none", "queued", "working", "good", "bad" or "removed"
    offered    \* builds whose document names an artifact

life == <<phase, offered>>

Init ==
    /\ phase = [j \in Jobs |-> "none"]
    /\ offered = {}

Move(j, from, to) ==
    /\ phase[j] \in from
    /\ phase' = [phase EXCEPT ![j] = to]

Queue(j)  == Move(j, {"none"}, "queued") /\ UNCHANGED offered
\* A preview started by hand during the build may have given an early verdict.
Work(j)   == Move(j, {"queued", "working", "good", "bad"}, "working") /\ UNCHANGED offered
Spoil(j)  == Move(j, {"queued", "working", "good", "bad"}, "bad") /\ UNCHANGED offered
Approve(j) ==
    /\ Move(j, {"working", "good", "bad"}, "good")
    /\ offered' \in {offered, offered \cup {j}}
Remove(j) == Move(j, {"queued", "working", "good", "bad"}, "removed") /\ offered' = offered \ {j}

Next == \E j \in Jobs : Queue(j) \/ Work(j) \/ Spoil(j) \/ Approve(j) \/ Remove(j)

Spec == Init /\ [][Next]_life
=============================================================================
