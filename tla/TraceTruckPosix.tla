--------------------------- MODULE TraceTruckPosix ----------------------------
(***************************************************************************)
(* The pthread build of z3_trace.c: a mutex and a condition variable.      *)
(* thread_func calls pthread_cond_wait without testing quit or the list    *)
(* first, so a signal sent while it does not wait is lost.  A spurious     *)
(* wakeup, which POSIX allows, is TruckSpurious.                           *)
(***************************************************************************)
EXTENDS TraceTruck

vars == common

Init == CommonInit

(* pthread_cond_signal wakes the truck if it is blocked in cond_wait.      *)
CondSignal(t, step) ==
    pc' = [pc EXCEPT ![t] = step,
                     ![Truck] = IF @ = "blocked" THEN "woken" ELSE @]
-------------------------------------------------------------------------------
(* shipping *)
ShipLock(p) ==
    /\ pc[p] = "idle"
    /\ pc[Stopper] # "stopped"
    /\ ShippedBy(p) < MaxLines
    /\ Acquire(p, "add")
    /\ UNCHANGED <<list, quit, seenQuit, shipped, printed, atQuit>>

ShipAdd(p) ==
    /\ pc[p] = "add"
    /\ AddLine(p)
    /\ CondSignal(p, "idle")
    /\ mutex' = NoOne
    /\ UNCHANGED <<quit, seenQuit, printed, atQuit>>

(* thread_func *)
TruckLock ==
    /\ pc[Truck] = "idle"
    /\ mutex = NoOne
    /\ Goto(Truck, "blocked")   \* cond_wait releases the mutex at once
    /\ UNCHANGED <<list, quit, mutex, seenQuit, shipped, printed, atQuit>>

TruckSpurious ==
    /\ pc[Truck] = "blocked"
    /\ Goto(Truck, "woken")
    /\ UNCHANGED <<list, quit, mutex, seenQuit, shipped, printed, atQuit>>

TruckRelock ==
    /\ pc[Truck] = "woken"
    /\ Acquire(Truck, "drain")
    /\ UNCHANGED <<list, quit, seenQuit, shipped, printed, atQuit>>

TruckDrain ==
    /\ pc[Truck] = "drain"
    /\ seenQuit' = quit
    /\ PrintAll
    /\ Release(Truck, IF quit THEN "final" ELSE "idle")
    /\ UNCHANGED <<quit, shipped, atQuit>>

TruckLast ==
    /\ pc[Truck] = "final"
    /\ Acquire(Truck, "flush")
    /\ UNCHANGED <<list, quit, seenQuit, shipped, printed, atQuit>>

TruckFlush ==
    /\ pc[Truck] = "flush"
    /\ PrintAll
    /\ Release(Truck, "exited")
    /\ UNCHANGED <<quit, seenQuit, shipped, atQuit>>

(* stop_truck *)
StopLock ==
    /\ pc[Stopper] = "idle"
    /\ Acquire(Stopper, "quit")
    /\ UNCHANGED <<list, quit, seenQuit, shipped, printed, atQuit>>

StopNotify ==
    /\ pc[Stopper] = "quit"
    /\ SetQuit
    /\ CondSignal(Stopper, "join")
    /\ mutex' = NoOne
    /\ UNCHANGED <<list, seenQuit, shipped, printed>>

StopJoin ==
    /\ pc[Stopper] = "join"
    /\ pc[Truck] = "exited"
    /\ Goto(Stopper, "stopped")
    /\ UNCHANGED <<list, quit, mutex, seenQuit, shipped, printed, atQuit>>
-------------------------------------------------------------------------------
Ship(p) == ShipLock(p) \/ ShipAdd(p)
TruckStep == TruckLock \/ TruckRelock \/ TruckDrain \/ TruckLast \/ TruckFlush
Stop == StopLock \/ StopNotify \/ StopJoin

Next == TruckStep \/ TruckSpurious \/ Stop \/ \E p \in Tracers : Ship(p)

Spec == Init /\ [][Next]_vars

(* Threads that can run are scheduled; a spurious wakeup may never come.   *)
StopGoesOn == StopNotify \/ StopJoin
ShipGoesOn(p) == ShipAdd(p)
===============================================================================
