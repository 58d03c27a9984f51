--------------------------- MODULE AsyncQueueProofs ---------------------------
(***************************************************************************)
(* Proofs about AsyncQueue for any number of producers, consumers,         *)
(* drainers and pushed elements.                                           *)
(***************************************************************************)
EXTENDS AsyncQueue, TLAPS

USE ThreadsAssumption DEF Threads

(* The queue starts in a state of the inductive invariant.                 *)
LEMMA InitIInv == Init => IInv
  <1> SUFFICES ASSUME Init PROVE IInv
    OBVIOUS
  <1>1. << >> \in Seq(Element)
    OBVIOUS
  <1>2. TypeOK
    <2>1. pc \in [Threads -> {"idle", "push", "signal", "pop", "reset",
                             "release", "drain", "drained"}]
      BY DEF Init
    <2>2. count \in [Producers -> 0 .. MaxPush]
      BY DEF Init
    <2> QED
      BY <1>1, <2>1, <2>2 DEF Init, TypeOK
  <1>3. Roles /\ PushBounded /\ ResetOnlyWhenEmpty /\ NoLostWakeup
    BY DEF Init, Roles, PushBounded, ResetOnlyWhenEmpty, NoLostWakeup
  <1>4. MutexOwner
    BY DEF Init, MutexOwner, Holding
  <1> QED
    BY <1>2, <1>3, <1>4 DEF IInv

(* What PopFront does to the queue: an element moves from its front to the *)
(* end of the history, or nothing changes.                                 *)
LEMMA PopFrontType ==
  ASSUME queue \in Seq(Element), received \in Seq(Element), PopFront
  PROVE  /\ queue' \in Seq(Element)
         /\ received' \in Seq(Element)
         /\ queue = << >> => queue' = << >>
  <1>1. CASE queue = << >>
    BY <1>1 DEF PopFront
  <1>2. CASE queue # << >>
    <2>1. Head(queue) \in Element /\ Tail(queue) \in Seq(Element)
      BY <1>2
    <2>2. queue' = Tail(queue) /\ received' = Append(received, Head(queue))
      BY <1>2 DEF PopFront
    <2> QED
      BY <1>2, <2>1, <2>2
  <1> QED
    BY <1>1, <1>2

(* A step of a producer (Push, then Signal) preserves the invariant.       *)
LEMMA ProduceIInv ==
  ASSUME IInv, NEW p \in Producers, Produce(p)
  PROVE  IInv'
  <1> USE DEF IInv, TypeOK, Roles, MutexOwner, PushBounded,
              ResetOnlyWhenEmpty, Holding
  <1>1. CASE PushLock(p)
    BY <1>1 DEF PushLock, Acquire, NoLostWakeup
  <1>2. CASE PushElement(p)
    <2> DEFINE e == <<p, count[p] + 1>>
    <2>1. e \in Element
      BY <1>2 DEF PushElement, Element
    <2>2. queue' = Append(queue, e) /\ queue' \in Seq(Element)
      BY <1>2, <2>1 DEF PushElement
    <2>3. TypeOK'
      BY <1>2, <2>2 DEF PushElement, Release
    <2>4. Roles' /\ PushBounded'
      BY <1>2 DEF PushElement, Release
    <2>5. mutex = p /\ \A t \in Threads : t # p => pc[t] \notin Holding
      BY <1>2 DEF PushElement
    <2>6. MutexOwner' /\ ResetOnlyWhenEmpty'
      BY <1>2, <2>5 DEF PushElement, Release
    <2>7. pc'[p] = "signal"
      BY <1>2 DEF PushElement, Release
    <2> QED
      BY <2>3, <2>4, <2>6, <2>7 DEF NoLostWakeup
  <1>3. CASE Signal(p)
    BY <1>3 DEF Signal, NoLostWakeup
  <1> QED
    BY <1>1, <1>2, <1>3 DEF Produce

(* A step of WaitForEV preserves the invariant.  ResetEvent is harmless    *)
(* because the mutex kept the queue empty since the emptiness test.        *)
LEMMA WaitForEVIInv ==
  ASSUME IInv, NEW c \in Consumers, WaitForEV(c)
  PROVE  IInv'
  <1> USE DEF IInv, TypeOK, Roles, MutexOwner, PushBounded,
              ResetOnlyWhenEmpty, Holding
  <1>1. CASE WaitBoth(c)
    BY <1>1 DEF WaitBoth, Acquire, NoLostWakeup
  <1>2. CASE WaitPop(c)
    <2>1. /\ queue' \in Seq(Element) /\ received' \in Seq(Element)
          /\ queue = << >> => queue' = << >>
      BY <1>2, PopFrontType DEF WaitPop
    <2>2. TypeOK'
      BY <1>2, <2>1 DEF WaitPop
    <2>3. Roles' /\ PushBounded'
      BY <1>2 DEF WaitPop
    <2>4. mutex = c /\ \A t \in Threads : t # c => pc[t] \notin Holding
      BY <1>2 DEF WaitPop
    <2>5. MutexOwner' /\ ResetOnlyWhenEmpty'
      BY <1>2, <2>4 DEF WaitPop
    <2>6. NoLostWakeup'
      BY <1>2, <2>1 DEF WaitPop, NoLostWakeup
    <2> QED
      BY <2>2, <2>3, <2>5, <2>6
  <1>3. CASE WaitReset(c)
    BY <1>3 DEF WaitReset, NoLostWakeup
  <1>4. CASE WaitRelease(c)
    BY <1>4 DEF WaitRelease, Release, NoLostWakeup
  <1> QED
    BY <1>1, <1>2, <1>3, <1>4 DEF WaitForEV

(* A step of Pop, which never touches the event, preserves the invariant.  *)
LEMMA DrainIInv ==
  ASSUME IInv, NEW d \in Drainers, Drain(d)
  PROVE  IInv'
  <1> USE DEF IInv, TypeOK, Roles, MutexOwner, PushBounded,
              ResetOnlyWhenEmpty, Holding
  <1>1. CASE PopLock(d)
    BY <1>1 DEF PopLock, Acquire, NoLostWakeup
  <1>2. CASE Pop(d)
    <2>1. /\ queue' \in Seq(Element) /\ received' \in Seq(Element)
          /\ queue = << >> => queue' = << >>
      BY <1>2, PopFrontType DEF Pop
    <2>2. TypeOK'
      BY <1>2, <2>1 DEF Pop, Release
    <2>3. Roles' /\ PushBounded'
      BY <1>2 DEF Pop, Release
    <2>4. mutex = d /\ \A t \in Threads : t # d => pc[t] \notin Holding
      BY <1>2 DEF Pop
    <2>5. MutexOwner' /\ ResetOnlyWhenEmpty'
      BY <1>2, <2>4 DEF Pop, Release
    <2>6. NoLostWakeup'
      BY <1>2, <2>1 DEF Pop, Release, NoLostWakeup
    <2> QED
      BY <2>2, <2>3, <2>5, <2>6
  <1> QED
    BY <1>1, <1>2 DEF Drain

(* IInv is inductive.                                                      *)
LEMMA NextIInv == IInv /\ [Next]_vars => IInv'
  <1> SUFFICES ASSUME IInv, [Next]_vars PROVE IInv'
    OBVIOUS
  <1>1. CASE UNCHANGED vars
    BY <1>1 DEF vars, IInv, TypeOK, Roles, MutexOwner, PushBounded,
                ResetOnlyWhenEmpty, NoLostWakeup, Holding
  <1>2. CASE Next
    BY <1>2, ProduceIInv, WaitForEVIInv, DrainIInv DEF Next
  <1> QED
    BY <1>1, <1>2

(* The inductive invariant holds of every behaviour of the queue.          *)
THEOREM Invariance == Spec => []IInv
  BY InitIInv, NextIInv, PTL DEF Spec

(* Type correctness of the queue, its mutex, its event and its callers.    *)
THEOREM TypeCorrect == Spec => []TypeOK
  <1>1. IInv => TypeOK
    BY DEF IInv
  <1> QED
    BY <1>1, Invariance, PTL

(* WaitForEV's ResetEvent never loses the wakeup of a queued element,      *)
(* whatever the numbers of threads and elements.                           *)
THEOREM NoWakeupIsLost == Spec => []NoLostWakeup
  <1>1. IInv => NoLostWakeup
    BY DEF IInv
  <1> QED
    BY <1>1, Invariance, PTL

(* Every step of the queue is a step of the abstract queue or leaves it    *)
(* alone: Push is Put, taking the front element is Take.                   *)
LEMMA StepRefines == IInv /\ [Next]_vars => [EQ!Next]_(EQ!vars)
  <1> SUFFICES ASSUME IInv, [Next]_vars PROVE [EQ!Next]_(EQ!vars)
    OBVIOUS
  <1> USE DEF EQ!vars
  <1>1. ASSUME PopFront, UNCHANGED count PROVE [EQ!Next]_(EQ!vars)
    BY <1>1 DEF PopFront, EQ!Next, EQ!Take
  <1>2. ASSUME NEW p \in Producers, Produce(p) PROVE [EQ!Next]_(EQ!vars)
    <2>1. CASE PushElement(p)
      BY <1>2, <2>1 DEF PushElement, EQ!Next, EQ!Put, IInv, PushBounded
    <2>2. CASE PushLock(p) \/ Signal(p)
      BY <2>2 DEF PushLock, Signal
    <2> QED
      BY <1>2, <2>1, <2>2 DEF Produce
  <1>3. ASSUME NEW c \in Consumers, WaitForEV(c) PROVE [EQ!Next]_(EQ!vars)
    BY <1>1, <1>3 DEF WaitForEV, WaitBoth, WaitPop, WaitReset, WaitRelease
  <1>4. ASSUME NEW d \in Drainers, Drain(d) PROVE [EQ!Next]_(EQ!vars)
    BY <1>1, <1>4 DEF Drain, PopLock, Pop
  <1>5. CASE UNCHANGED vars
    BY <1>5 DEF vars
  <1> QED
    BY <1>2, <1>3, <1>4, <1>5 DEF Next

(* AsyncQueue implements the abstract event queue: each pushed element is  *)
(* handed out once and in the order of the pushes.                         *)
THEOREM Refinement == Spec => EQ!Safety
  <1>1. Init => EQ!Init
    BY DEF Init, EQ!Init
  <1> QED
    BY <1>1, StepRefines, Invariance, PTL DEF Spec, EQ!Safety
===============================================================================
