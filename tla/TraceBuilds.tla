------------------------------ MODULE TraceBuilds -----------------------------
(***************************************************************************)
(* The trace shipper in either build: a behaviour is one of the Windows or *)
(* of the pthread build, chosen at the beginning.                          *)
(***************************************************************************)
EXTENDS TraceTruck

CONSTANT Builds   \* which of "Windows" and "POSIX"

VARIABLES event, build

Win == INSTANCE TraceTruckWin
Posix == INSTANCE TraceTruckPosix

Init ==
    /\ build \in Builds
    /\ CommonInit
    /\ event = FALSE

InBuild(b) == build = b /\ UNCHANGED build

Next ==
    \/ InBuild("Windows") /\ Win!Next
    \/ InBuild("POSIX") /\ Posix!Next /\ UNCHANGED event

v == <<common, event, build>>

Spec == Init /\ [][Next]_v

(* The fairness of either build.                                           *)
TruckRuns ==
    \/ InBuild("Windows") /\ Win!TruckStep
    \/ InBuild("POSIX") /\ Posix!TruckStep /\ UNCHANGED event

StopRuns ==
    \/ InBuild("Windows") /\ Win!StopGoesOn
    \/ InBuild("POSIX") /\ Posix!StopGoesOn /\ UNCHANGED event

ShipRuns(p) ==
    \/ InBuild("Windows") /\ Win!ShipGoesOn(p)
    \/ InBuild("POSIX") /\ Posix!ShipGoesOn(p) /\ UNCHANGED event

FairSpec ==
    /\ Spec
    /\ WF_v(TruckRuns)
    /\ WF_v(StopRuns)
    /\ \A p \in Tracers : WF_v(ShipRuns(p))
===============================================================================
