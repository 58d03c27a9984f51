--------------------------- MODULE TraceTruckProofs ---------------------------
(***************************************************************************)
(* Proofs about the trace shipper in both builds, for any number of        *)
(* tracing threads and of lines: what msg_mutex protects, and why the last *)
(* pass of thread_func finds every line that was shipped before quit.      *)
(***************************************************************************)
EXTENDS TraceBuilds, FiniteSetTheorems, TLAPS

USE TruckAssumption

(* The steps that a thread takes with msg_mutex in its hands.              *)
Locked == {"add", "drain", "flush", "quit"}

MutexHeld == \A t \in Threads : pc[t] \in Locked => mutex = t

(* Which steps belong to which function.                                   *)
Roles ==
    /\ \A p \in Tracers : pc[p] \in {"idle", "add", "signal"}
    /\ pc[Truck] \in {"idle", "drain", "blocked", "woken", "reset", "final",
                      "flush", "exited"}
    /\ pc[Stopper] \in {"idle", "quit", "join", "stopped"}

(* A thread that is about to add a line has not reached its bound.         *)
RoomToAdd == \A p \in Tracers : pc[p] = "add" => ShippedBy(p) < MaxLines

(* stop_truck sets quit once, and counts what had been shipped by then.    *)
QuitOnce ==
    /\ quit <=> pc[Stopper] \in {"join", "stopped"}
    /\ atQuit <= Len(shipped)

(* Once thread_func has read quit under the mutex it has printed, in the   *)
(* same critical section, what was shipped before quit was set.            *)
LeavesLoop ==
    \/ pc[Truck] \in {"final", "flush", "exited"}
    \/ pc[Truck] = "reset" /\ seenQuit

QuitSeen == LeavesLoop => quit /\ Len(printed) >= atQuit

IInv ==
    /\ TypeOK
    /\ MutexHeld
    /\ Roles
    /\ RoomToAdd
    /\ PrintedInOrder
    /\ QuitOnce
    /\ QuitSeen
-------------------------------------------------------------------------------
(* The thread roles do not overlap.                                        *)
LEMMA ThreadFacts ==
    /\ Truck \in Threads /\ Stopper \in Threads /\ Truck # Stopper
    /\ \A p \in Tracers : p \in Threads /\ p # Truck /\ p # Stopper
    /\ \A t \in Threads : t # NoOne
  BY DEF Threads

(* The number of the lines of one thread is a number.                      *)
LEMMA ShippedByNat ==
    ASSUME NEW p \in Tracers, shipped \in Seq(Line)
    PROVE  ShippedBy(p) \in Nat
  <1>1. IsFiniteSet(DOMAIN shipped)
    BY FS_Interval
  <1>2. {i \in DOMAIN shipped : shipped[i][1] = p} \subseteq DOMAIN shipped
    OBVIOUS
  <1> QED  BY <1>1, <1>2, FS_Subset, FS_CardinalityType DEF ShippedBy

(* z3_list_add_tail: what is not printed yet grows with what was shipped.  *)
LEMMA AppendKeepsOrder ==
    ASSUME NEW S, NEW a \in Seq(S), NEW b \in Seq(S), NEW x \in S
    PROVE  a \o Append(b, x) = Append(a \o b, x)
  OBVIOUS

(* What a step that only moves program counters and the mutex keeps.  The  *)
(* lines and quit stay as they are; thread t goes from its step to the     *)
(* next, and takes the mutex if it enters a critical section.              *)
LEMMA MoveStep ==
    ASSUME IInv, NEW t \in Threads, NEW step,
           UNCHANGED <<list, quit, shipped, printed, atQuit, seenQuit>>,
           pc' = [pc EXCEPT ![t] = step], pc'[t] = step,
           pc[t] \notin Locked,
           step \in Locked => mutex = NoOne /\ mutex' = t,
           step \notin Locked => mutex' = mutex,
           t \in Tracers => step \in {"idle", "add"},
           step = "add" => ShippedBy(t) < MaxLines,
           t = Truck => step \in {"idle", "drain", "blocked", "woken",
                                  "final", "flush"},
           t = Stopper => step \in {"quit", "stopped"},
           t = Stopper => pc[t] = (IF step = "quit" THEN "idle" ELSE "join"),
           t = Truck /\ step \in {"final", "flush"} => LeavesLoop
    PROVE  IInv'
  <1>1. TypeOK'
    BY ThreadFacts DEF IInv, TypeOK, Locked, Threads
  <1>2. MutexHeld'
    BY ThreadFacts DEF IInv, TypeOK, MutexHeld, Locked
  <1>3. Roles'
    BY ThreadFacts DEF IInv, TypeOK, Roles
  <1>4. RoomToAdd'
    BY ThreadFacts DEF IInv, TypeOK, RoomToAdd, ShippedBy
  <1>5. PrintedInOrder' /\ QuitOnce'
    BY ThreadFacts DEF IInv, TypeOK, PrintedInOrder, QuitOnce, Roles
  <1>6. QuitSeen'
    BY ThreadFacts DEF IInv, TypeOK, QuitSeen, LeavesLoop, Roles
  <1> QED  BY <1>1, <1>2, <1>3, <1>4, <1>5, <1>6 DEF IInv

(* In the pthread build a critical section that changes the list or quit   *)
(* may also wake the truck; it moves thread t out of the section.          *)
Signals(t, step) ==
    /\ pc' = [u \in Threads |-> pc'[u]]
    /\ pc'[t] = step
    /\ \A u \in Threads \ {t} :
           \/ pc'[u] = pc[u]
           \/ u = Truck /\ pc[u] = "blocked" /\ pc'[u] = "woken"

(* What the two builds have in common at the end of a critical section.    *)
LEMMA SignalsFacts ==
    ASSUME IInv, NEW t \in Threads \ {Truck}, NEW step \in {"idle", "signal", "join"},
           \/ Goto(t, step) \/ Posix!CondSignal(t, step)
    PROVE  Signals(t, step)
  <1>1. pc = [u \in Threads |-> pc[u]]
    BY DEF IInv, TypeOK
  <1>2. CASE Goto(t, step)
    BY <1>1, <1>2, ThreadFacts DEF Goto, Signals
  <1>3. CASE Posix!CondSignal(t, step)
    <2>1. pc' = [[pc EXCEPT ![t] = step] EXCEPT
                     ![Truck] = IF @ = "blocked" THEN "woken" ELSE @]
      BY <1>3 DEF Posix!CondSignal
    <2> QED  BY <1>1, <2>1, ThreadFacts DEF Signals
  <1> QED  BY <1>2, <1>3

(* shipping adds one line at the end of the list.                          *)
LEMMA AddStep ==
    ASSUME IInv, NEW p \in Tracers, pc[p] = "add", AddLine(p), mutex' = NoOne,
           NEW step \in {"idle", "signal"}, Signals(p, step),
           UNCHANGED <<quit, seenQuit, printed, atQuit>>
    PROVE  IInv'
  <1> DEFINE line == <<p, ShippedBy(p) + 1>>
  <1>1. line \in Line
    <2>1. ShippedBy(p) \in Nat /\ ShippedBy(p) < MaxLines
      BY ShippedByNat DEF IInv, TypeOK, RoomToAdd
    <2>2. ShippedBy(p) + 1 \in 1 .. MaxLines
      BY <2>1
    <2> QED  BY <2>2 DEF Line
  <1>2. /\ list' = Append(list, line) /\ shipped' = Append(shipped, line)
        /\ list \in Seq(Line) /\ shipped \in Seq(Line) /\ printed \in Seq(Line)
    BY DEF AddLine, IInv, TypeOK
  <1>3. \A t \in Threads : pc[t] \in Locked => t = p
    BY ThreadFacts DEF IInv, MutexHeld, Locked
  <1>4. /\ pc'[Stopper] = pc[Stopper]
        /\ pc'[Truck] \in {pc[Truck], "woken"}
        /\ \A q \in Tracers \ {p} : pc'[q] = pc[q]
    BY ThreadFacts DEF Signals
  <1>5. TypeOK'
    <2>1. list' \in Seq(Line) /\ shipped' \in Seq(Line)
      BY <1>1, <1>2
    <2> QED  BY <1>2, <2>1, ThreadFacts DEF IInv, TypeOK, Signals
  <1>6. MutexHeld' /\ Roles'
    BY <1>3, <1>4, ThreadFacts DEF IInv, MutexHeld, Roles, Locked, Signals
  <1>7. RoomToAdd'
    BY <1>3, <1>4, ThreadFacts DEF Locked, Signals, RoomToAdd
  <1>8. PrintedInOrder'
    BY <1>1, <1>2, AppendKeepsOrder DEF IInv, PrintedInOrder
  <1>9. QuitOnce'
    <2>1. Len(shipped') = Len(shipped) + 1
      BY <1>1, <1>2
    <2> QED  BY <1>2, <1>4, <2>1 DEF IInv, QuitOnce, TypeOK
  <1>10. QuitSeen'
    BY <1>4 DEF IInv, QuitSeen, LeavesLoop
  <1> QED  BY <1>5, <1>6, <1>7, <1>8, <1>9, <1>10 DEF IInv

(* thread_func prints the list, in the loop or after it.                   *)
LEMMA PrintStep ==
    ASSUME IInv, pc[Truck] \in {"drain", "flush"}, PrintAll, mutex' = NoOne,
           NEW step \in {"idle", "reset", "final", "exited"}, Goto(Truck, step),
           UNCHANGED <<quit, shipped, atQuit>>, seenQuit' \in BOOLEAN,
           (step = "reset" /\ seenQuit') \/ step = "final" => quit,
           step = "exited" => pc[Truck] = "flush"
    PROVE  IInv'
  <1>1. /\ printed' = shipped /\ list' = << >>
        /\ shipped \in Seq(Line) /\ shipped' = shipped
    BY DEF PrintAll, IInv, PrintedInOrder, TypeOK
  <1>2. /\ pc' = [pc EXCEPT ![Truck] = step] /\ pc'[Truck] = step
        /\ pc'[Stopper] = pc[Stopper]
        /\ \A p \in Tracers : pc'[p] = pc[p]
    BY ThreadFacts DEF Goto, IInv, TypeOK
  <1>3. TypeOK'
    BY <1>1, <1>2, ThreadFacts DEF IInv, TypeOK
  <1>4. \A t \in Threads : pc[t] \in Locked => t = Truck
    BY ThreadFacts DEF IInv, MutexHeld, Locked
  <1>5. MutexHeld' /\ Roles'
    BY <1>2, <1>4, ThreadFacts DEF IInv, MutexHeld, Roles, Locked, TypeOK
  <1>6. RoomToAdd'
    BY <1>1, <1>2 DEF IInv, RoomToAdd, ShippedBy
  <1>7. PrintedInOrder' /\ QuitOnce'
    BY <1>1, <1>2 DEF IInv, PrintedInOrder, QuitOnce
  <1>8. QuitSeen'
    <2>1. atQuit' <= Len(printed') /\ Len(printed') \in Nat /\ atQuit' \in Nat
      BY <1>1 DEF IInv, QuitOnce, TypeOK
    <2>2. LeavesLoop' => quit'
      BY <1>2 DEF IInv, QuitSeen, LeavesLoop
    <2> QED  BY <2>1, <2>2 DEF QuitSeen
  <1> QED  BY <1>3, <1>5, <1>6, <1>7, <1>8 DEF IInv

(* stop_truck sets quit; the truck cannot have seen it before.             *)
LEMMA QuitStep ==
    ASSUME IInv, pc[Stopper] = "quit", SetQuit, mutex' = NoOne,
           Signals(Stopper, "join"), UNCHANGED <<list, seenQuit, shipped, printed>>
    PROVE  IInv'
  <1>1. ~quit /\ quit' /\ atQuit' = Len(shipped) /\ shipped \in Seq(Line)
    BY DEF SetQuit, IInv, QuitOnce, TypeOK
  <1>2. /\ pc'[Stopper] = "join"
        /\ pc'[Truck] \in {pc[Truck], "woken"}
        /\ \A q \in Tracers : pc'[q] = pc[q]
    BY ThreadFacts DEF Signals
  <1>3. TypeOK'
    BY <1>1, ThreadFacts DEF IInv, TypeOK, Signals
  <1>4. \A t \in Threads : pc[t] \in Locked => t = Stopper
    BY ThreadFacts DEF IInv, MutexHeld, Locked
  <1>5. MutexHeld' /\ Roles'
    BY <1>2, <1>4, ThreadFacts DEF IInv, MutexHeld, Roles, Locked, Signals
  <1>6. RoomToAdd'
    BY <1>1, <1>2 DEF IInv, RoomToAdd, ShippedBy
  <1>7. PrintedInOrder' /\ QuitOnce'
    BY <1>1, <1>2 DEF IInv, PrintedInOrder, QuitOnce
  <1>8. ~LeavesLoop
    BY <1>1 DEF IInv, QuitSeen
  <1>9. QuitSeen'
    BY <1>2, <1>8 DEF QuitSeen, LeavesLoop
  <1> QED  BY <1>3, <1>5, <1>6, <1>7, <1>9 DEF IInv
-------------------------------------------------------------------------------
(* A thread that acquires the mutex, or moves on outside of it.            *)
LEMMA AcquireFacts ==
    ASSUME IInv, NEW t \in Threads, NEW step \in Locked, Acquire(t, step)
    PROVE  /\ pc' = [pc EXCEPT ![t] = step] /\ pc'[t] = step
           /\ mutex = NoOne /\ mutex' = t
           /\ pc[t] \notin Locked
  BY ThreadFacts DEF Acquire, Goto, IInv, TypeOK, MutexHeld

(* Goto moves one thread and no other.                                     *)
LEMMA GotoFacts ==
    ASSUME IInv, NEW t \in Threads, NEW step, Goto(t, step)
    PROVE  pc' = [pc EXCEPT ![t] = step] /\ pc'[t] = step
  BY DEF Goto, IInv, TypeOK

(* The Windows module uses the steps of TraceTruck under its own names.  *)
LEMMA WinShared ==
    ASSUME NEW t, NEW step
    PROVE  /\ Win!Goto(t, step) <=> Goto(t, step)
           /\ Win!Acquire(t, step) <=> Acquire(t, step)
           /\ Win!Release(t, step) <=> Release(t, step)
           /\ Win!ShippedBy(t) = ShippedBy(t)
           /\ Win!AddLine(t) <=> AddLine(t)
           /\ Win!PrintAll <=> PrintAll
           /\ Win!SetQuit <=> SetQuit
  <1>1. Win!Goto(t, step) <=> Goto(t, step)
    BY DEF Goto, Win!Goto
  <1>2. Win!Acquire(t, step) <=> Acquire(t, step)
    BY <1>1 DEF Acquire, Win!Acquire
  <1>3. Win!Release(t, step) <=> Release(t, step)
    BY <1>1 DEF Release, Win!Release
  <1>4. Win!ShippedBy(t) = ShippedBy(t)
    BY DEF ShippedBy, Win!ShippedBy, Cardinality, Win!Cardinality
  <1>5. Win!AddLine(t) <=> AddLine(t)
    BY <1>4 DEF AddLine, Win!AddLine
  <1>6. (Win!PrintAll <=> PrintAll) /\ (Win!SetQuit <=> SetQuit)
    BY DEF PrintAll, SetQuit, Win!PrintAll, Win!SetQuit
  <1> QED  BY <1>1, <1>2, <1>3, <1>4, <1>5, <1>6

(* The pthread module uses the steps of TraceTruck under its own names.  *)
LEMMA PosixShared ==
    ASSUME NEW t, NEW step
    PROVE  /\ Posix!Goto(t, step) <=> Goto(t, step)
           /\ Posix!Acquire(t, step) <=> Acquire(t, step)
           /\ Posix!Release(t, step) <=> Release(t, step)
           /\ Posix!ShippedBy(t) = ShippedBy(t)
           /\ Posix!AddLine(t) <=> AddLine(t)
           /\ Posix!PrintAll <=> PrintAll
           /\ Posix!SetQuit <=> SetQuit
  <1>1. Posix!Goto(t, step) <=> Goto(t, step)
    BY DEF Goto, Posix!Goto
  <1>2. Posix!Acquire(t, step) <=> Acquire(t, step)
    BY <1>1 DEF Acquire, Posix!Acquire
  <1>3. Posix!Release(t, step) <=> Release(t, step)
    BY <1>1 DEF Release, Posix!Release
  <1>4. Posix!ShippedBy(t) = ShippedBy(t)
    BY DEF ShippedBy, Posix!ShippedBy, Cardinality, Posix!Cardinality
  <1>5. Posix!AddLine(t) <=> AddLine(t)
    BY <1>4 DEF AddLine, Posix!AddLine
  <1>6. (Posix!PrintAll <=> PrintAll) /\ (Posix!SetQuit <=> SetQuit)
    BY DEF PrintAll, SetQuit, Posix!PrintAll, Posix!SetQuit
  <1> QED  BY <1>1, <1>2, <1>3, <1>4, <1>5, <1>6

(* Every step of the Windows build keeps the invariant.                    *)
LEMMA WinStep == ASSUME IInv, Win!Next PROVE IInv'
  <1> USE ThreadFacts, WinShared
  <1>1. ASSUME NEW p \in Tracers, Win!ShipLock(p) PROVE IInv'
    <2> USE <1>1 DEF Win!ShipLock
    <2>1. "add" \in Locked
      BY DEF Locked
    <2> QED  BY <2>1, AcquireFacts, MoveStep
  <1>2. ASSUME NEW p \in Tracers, Win!ShipAdd(p) PROVE IInv'
    BY <1>2, AddStep, SignalsFacts DEF Win!ShipAdd, Release
  <1>3. ASSUME NEW p \in Tracers, Win!ShipSignal(p) PROVE IInv'
    <2> USE <1>3 DEF Win!ShipSignal
    <2>1. "idle" \notin Locked /\ "signal" \notin Locked
      BY DEF Locked
    <2> QED  BY <2>1, GotoFacts, MoveStep
  <1>4. CASE Win!TruckWait
    <2> USE <1>4 DEF Win!TruckWait
    <2>1. "drain" \in Locked
      BY DEF Locked
    <2> QED  BY <2>1, AcquireFacts, MoveStep
  <1>5. CASE Win!TruckDrain
    <2>1. quit \in BOOLEAN
      BY DEF IInv, TypeOK
    <2> QED  BY <1>5, <2>1, PrintStep DEF Win!TruckDrain, Release
  <1>6. CASE Win!TruckReset
    <2> USE <1>6 DEF Win!TruckReset
    <2>1. {"idle", "final", "reset"} \cap Locked = {}
      BY DEF Locked
    <2>2. CASE seenQuit
      <3>1. LeavesLoop
        BY <2>2 DEF LeavesLoop
      <3> QED  BY <2>1, <2>2, <3>1, GotoFacts, MoveStep
    <2>3. CASE ~seenQuit
      BY <2>1, <2>3, GotoFacts, MoveStep
    <2> QED  BY <2>2, <2>3
  <1>7. CASE Win!TruckLast
    <2> USE <1>7 DEF Win!TruckLast
    <2>1. "flush" \in Locked /\ LeavesLoop
      BY DEF Locked, LeavesLoop
    <2> QED  BY <2>1, AcquireFacts, MoveStep
  <1>8. CASE Win!TruckFlush
    <2>1. seenQuit \in BOOLEAN
      BY DEF IInv, TypeOK
    <2> QED  BY <1>8, <2>1, PrintStep DEF Win!TruckFlush, Release
  <1>9. CASE Win!StopLock
    <2> USE <1>9 DEF Win!StopLock
    <2>1. "quit" \in Locked
      BY DEF Locked
    <2> QED  BY <2>1, AcquireFacts, MoveStep
  <1>10. CASE Win!StopNotify
    BY <1>10, QuitStep, SignalsFacts DEF Win!StopNotify, Release
  <1>11. CASE Win!StopJoin
    <2> USE <1>11 DEF Win!StopJoin
    <2>1. "join" \notin Locked /\ "stopped" \notin Locked
      BY DEF Locked
    <2> QED  BY <2>1, GotoFacts, MoveStep
  <1> QED  BY <1>1, <1>2, <1>3, <1>4, <1>5, <1>6, <1>7, <1>8, <1>9, <1>10, <1>11
           DEF Win!Next, Win!TruckStep, Win!Stop, Win!Ship

(* Every step of the pthread build keeps the invariant.                    *)
LEMMA PosixStep == ASSUME IInv, Posix!Next PROVE IInv'
  <1> USE ThreadFacts, PosixShared
  <1>1. ASSUME NEW p \in Tracers, Posix!ShipLock(p) PROVE IInv'
    <2> USE <1>1 DEF Posix!ShipLock
    <2>1. "add" \in Locked
      BY DEF Locked
    <2> QED  BY <2>1, AcquireFacts, MoveStep
  <1>2. ASSUME NEW p \in Tracers, Posix!ShipAdd(p) PROVE IInv'
    BY <1>2, AddStep, SignalsFacts DEF Posix!ShipAdd
  <1>3. CASE Posix!TruckLock \/ Posix!TruckSpurious
    <2> USE <1>3 DEF Posix!TruckLock, Posix!TruckSpurious
    <2>1. {"idle", "blocked", "woken"} \cap Locked = {}
      BY DEF Locked
    <2> QED  BY <2>1, GotoFacts, MoveStep
  <1>4. CASE Posix!TruckRelock
    <2> USE <1>4 DEF Posix!TruckRelock
    <2>1. "drain" \in Locked
      BY DEF Locked
    <2> QED  BY <2>1, AcquireFacts, MoveStep
  <1>5. CASE Posix!TruckDrain
    <2> USE <1>5 DEF Posix!TruckDrain, Release
    <2>1. seenQuit' \in BOOLEAN
      BY DEF IInv, TypeOK
    <2>2. CASE quit
      BY <2>1, <2>2, PrintStep
    <2>3. CASE ~quit
      BY <2>1, <2>3, PrintStep
    <2> QED  BY <2>2, <2>3
  <1>6. CASE Posix!TruckLast
    <2> USE <1>6 DEF Posix!TruckLast
    <2>1. "flush" \in Locked /\ LeavesLoop
      BY DEF Locked, LeavesLoop
    <2> QED  BY <2>1, AcquireFacts, MoveStep
  <1>7. CASE Posix!TruckFlush
    <2>1. seenQuit \in BOOLEAN
      BY DEF IInv, TypeOK
    <2> QED  BY <1>7, <2>1, PrintStep DEF Posix!TruckFlush, Release
  <1>8. CASE Posix!StopLock
    <2> USE <1>8 DEF Posix!StopLock
    <2>1. "quit" \in Locked
      BY DEF Locked
    <2> QED  BY <2>1, AcquireFacts, MoveStep
  <1>9. CASE Posix!StopNotify
    BY <1>9, QuitStep, SignalsFacts DEF Posix!StopNotify
  <1>10. CASE Posix!StopJoin
    <2> USE <1>10 DEF Posix!StopJoin
    <2>1. "join" \notin Locked /\ "stopped" \notin Locked
      BY DEF Locked
    <2> QED  BY <2>1, GotoFacts, MoveStep
  <1> QED  BY <1>1, <1>2, <1>3, <1>4, <1>5, <1>6, <1>7, <1>8, <1>9, <1>10
           DEF Posix!Next, Posix!TruckStep, Posix!Stop, Posix!Ship
-------------------------------------------------------------------------------
(* Before the first trace everything is empty and nobody is locked.        *)
LEMMA InitIInv == Init => IInv
  <1> SUFFICES ASSUME CommonInit PROVE IInv
    BY DEF Init
  <1> USE ThreadFacts DEF CommonInit
  <1>1. TypeOK
    <2>1. << >> \in Seq(Line) /\ 0 \in Nat /\ FALSE \in BOOLEAN
      OBVIOUS
    <2> QED  BY <2>1 DEF TypeOK
  <1>4. PrintedInOrder
    BY DEF PrintedInOrder
  <1>2. MutexHeld /\ Roles /\ RoomToAdd
    BY DEF MutexHeld, Roles, RoomToAdd, Locked
  <1>3. QuitOnce /\ QuitSeen
    BY DEF QuitOnce, QuitSeen, LeavesLoop
  <1> QED  BY <1>1, <1>2, <1>3, <1>4 DEF IInv

(* A step outside the trace shipper.                                       *)
LEMMA StutterIInv == ASSUME IInv, UNCHANGED v PROVE IInv'
  BY DEF v, common, IInv, TypeOK, MutexHeld, Roles, RoomToAdd, ShippedBy,
         PrintedInOrder, QuitOnce, QuitSeen, LeavesLoop

(* IInv is inductive, hence holds in every reachable state of either       *)
(* build.                                                                  *)
THEOREM Invariance == Spec => []IInv
  <1>1. IInv /\ [Next]_v => IInv'
    BY WinStep, PosixStep, StutterIInv DEF Next
  <1> QED  BY <1>1, InitIInv, PTL DEF Spec

(* Type correctness, for any number of tracing threads.                    *)
THEOREM TypeCorrect == Spec => []TypeOK
  <1>1. IInv => TypeOK
    BY DEF IInv
  <1> QED  BY <1>1, Invariance, PTL

(* In both builds the output is the shipped lines in order, each once: at  *)
(* every moment what is printed followed by string_list is what was        *)
(* shipped.                                                                *)
THEOREM LinesPrintedInOrder == Spec => []PrintedInOrder
  <1>1. IInv => PrintedInOrder
    BY DEF IInv
  <1> QED  BY <1>1, Invariance, PTL

(* In both builds thread_func returns only after it has printed what was   *)
(* shipped before stop_truck set quit, whichever wakeups were lost.        *)
THEOREM ExitPrintsEverything == Spec => []ExitPrintsAll
  <1>1. IInv => ExitPrintsAll
    BY DEF IInv, QuitSeen, LeavesLoop, ExitPrintsAll
  <1> QED  BY <1>1, Invariance, PTL
===============================================================================
