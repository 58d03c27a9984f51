---------------------------- MODULE TraceTruckWin -----------------------------
(***************************************************************************)
(* The Windows build of z3_trace.c: a mutex and a manual-reset event.      *)
(* thread_func waits for both, drains the list, releases the mutex and     *)
(* only then resets the event.                                             *)
(***************************************************************************)
EXTENDS TraceTruck

VARIABLE event      \* msg_event is signalled

vars == <<common, event>>

Init == CommonInit /\ event = FALSE
-------------------------------------------------------------------------------
(* shipping *)
ShipLock(p) ==
    /\ pc[p] = "idle"
    /\ pc[Stopper] # "stopped"
    /\ ShippedBy(p) < MaxLines
    /\ Acquire(p, "add")
    /\ UNCHANGED <<list, quit, seenQuit, shipped, printed, atQuit, event>>

ShipAdd(p) ==
    /\ pc[p] = "add"
    /\ AddLine(p)
    /\ Release(p, "signal")
    /\ UNCHANGED <<quit, seenQuit, printed, atQuit, event>>

ShipSignal(p) ==
    /\ pc[p] = "signal"
    /\ event' = TRUE
    /\ Goto(p, "idle")
    /\ UNCHANGED <<list, quit, mutex, seenQuit, shipped, printed, atQuit>>

(* thread_func *)
TruckWait ==
    /\ pc[Truck] = "idle"
    /\ event
    /\ Acquire(Truck, "drain")
    /\ UNCHANGED <<list, quit, seenQuit, shipped, printed, atQuit, event>>

TruckDrain ==
    /\ pc[Truck] = "drain"
    /\ PrintAll
    /\ seenQuit' = quit
    /\ Release(Truck, "reset")
    /\ UNCHANGED <<quit, shipped, atQuit, event>>

TruckReset ==
    /\ pc[Truck] = "reset"
    /\ event' = FALSE
    /\ Goto(Truck, IF seenQuit THEN "final" ELSE "idle")
    /\ UNCHANGED <<list, quit, mutex, seenQuit, shipped, printed, atQuit>>

TruckLast ==
    /\ pc[Truck] = "final"
    /\ Acquire(Truck, "flush")
    /\ UNCHANGED <<list, quit, seenQuit, shipped, printed, atQuit, event>>

TruckFlush ==
    /\ pc[Truck] = "flush"
    /\ PrintAll
    /\ Release(Truck, "exited")
    /\ UNCHANGED <<quit, seenQuit, shipped, atQuit, event>>

(* stop_truck *)
StopLock ==
    /\ pc[Stopper] = "idle"
    /\ Acquire(Stopper, "quit")
    /\ UNCHANGED <<list, quit, seenQuit, shipped, printed, atQuit, event>>

StopNotify ==
    /\ pc[Stopper] = "quit"
    /\ SetQuit
    /\ event' = TRUE
    /\ Release(Stopper, "join")
    /\ UNCHANGED <<list, seenQuit, shipped, printed>>

StopJoin ==
    /\ pc[Stopper] = "join"
    /\ pc[Truck] = "exited"
    /\ Goto(Stopper, "stopped")
    /\ UNCHANGED <<list, quit, mutex, seenQuit, shipped, printed, atQuit, event>>
-------------------------------------------------------------------------------
Ship(p) == ShipLock(p) \/ ShipAdd(p) \/ ShipSignal(p)
TruckStep == TruckWait \/ TruckDrain \/ TruckReset \/ TruckLast \/ TruckFlush
Stop == StopLock \/ StopNotify \/ StopJoin

Next == TruckStep \/ Stop \/ \E p \in Tracers : Ship(p)

Spec == Init /\ [][Next]_vars

(* Threads that can run are scheduled; nobody has to trace or to stop.     *)
StopGoesOn == StopNotify \/ StopJoin
ShipGoesOn(p) == ShipAdd(p) \/ ShipSignal(p)
===============================================================================
