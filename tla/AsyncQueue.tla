------------------------------ MODULE AsyncQueue ------------------------------
(***************************************************************************)
(* Z3::AsyncQueue (z3_engine/z3_async_queue.hpp), the queue between the    *)
(* IOCP thread and the executors (EV_QUEUE_T) and between the executors    *)
(* and the client thread (NOTIFY_QUEUE_T): a std::queue, a mutex and a     *)
(* manual-reset event.                                                     *)
(*                                                                         *)
(* Every kernel call is a step of its own.  The interesting interleaving   *)
(* is that Signal sets the event WITHOUT holding the mutex, while          *)
(* WaitForEV resets it under the mutex once it has emptied the queue: a    *)
(* reset that hits a signal for an element still queued would put every    *)
(* consumer to sleep on a non-empty queue, because WaitForEV needs the     *)
(* event as well as the mutex.                                             *)
(***************************************************************************)
EXTENDS Integers, Sequences

CONSTANTS Producers,  \* threads that call Push and then Signal
          Consumers,  \* threads that call WaitForEV in a loop
          Drainers,   \* threads that call Pop
          MaxPush,    \* bound: elements pushed by one producer
          NoOne       \* the mutex is free

Threads == Producers \cup Consumers \cup Drainers

ASSUME ThreadsAssumption ==
    /\ Producers \cap Consumers = {}
    /\ Producers \cap Drainers = {}
    /\ Consumers \cap Drainers = {}
    /\ NoOne \notin Threads
    /\ MaxPush \in Nat

VARIABLES queue,      \* m_Queue
          event,      \* m_hEvent is signalled
          mutex,      \* owner of m_hMutex
          pc,         \* what each thread does next
          count,      \* count[p]: elements p has pushed
          received    \* history: elements handed out, in order

vars == <<queue, event, mutex, pc, count, received>>

Element == Producers \X (1 .. MaxPush)

Init ==
    /\ queue = << >>
    /\ event = FALSE
    /\ mutex = NoOne
    /\ pc = [t \in Threads |-> "idle"]
    /\ count = [p \in Producers |-> 0]
    /\ received = << >>

Acquire(t, next) ==
    /\ mutex = NoOne
    /\ mutex' = t
    /\ pc' = [pc EXCEPT ![t] = next]

Release(t, next) ==
    /\ mutex' = NoOne
    /\ pc' = [pc EXCEPT ![t] = next]

(* Fault: the newest element is taken, as from a stack.                    *)
PopBack ==
    IF queue # << >>
    THEN /\ received' = Append(received, queue[Len(queue)])
         /\ queue' = SubSeq(queue, 1, Len(queue) - 1)
    ELSE UNCHANGED <<queue, received>>

(* Removes the front element, if there is one, into the caller's variable. *)
PopFront ==
    IF queue # << >>
    THEN /\ received' = Append(received, Head(queue))
         /\ queue' = Tail(queue)
    ELSE UNCHANGED <<queue, received>>
-------------------------------------------------------------------------------
(* Push, then Signal, as Engine::Dispatch and IOCPObj::Notify call them.   *)
PushLock(p) ==
    /\ pc[p] = "idle"
    /\ count[p] < MaxPush
    /\ Acquire(p, "push")
    /\ UNCHANGED <<queue, event, count, received>>

(* Fault: Push without Signal.                                             *)
PushUnsignalled(p) ==
    /\ pc[p] = "push"
    /\ count' = [count EXCEPT ![p] = @ + 1]
    /\ queue' = Append(queue, <<p, count[p] + 1>>)
    /\ Release(p, "idle")
    /\ UNCHANGED <<event, received>>

(* Fault: the item is pushed before it is filled in.                       *)
PushUnfilled(p) ==
    /\ pc[p] = "push"
    /\ count' = [count EXCEPT ![p] = @ + 1]
    /\ queue' = Append(queue, <<p, 0>>)
    /\ Release(p, "signal")
    /\ UNCHANGED <<event, received>>

PushElement(p) ==
    /\ pc[p] = "push"
    /\ count' = [count EXCEPT ![p] = @ + 1]
    /\ queue' = Append(queue, <<p, count[p] + 1>>)
    /\ Release(p, "signal")
    /\ UNCHANGED <<event, received>>

Signal(p) ==
    /\ pc[p] = "signal"
    /\ event' = TRUE
    /\ pc' = [pc EXCEPT ![p] = "idle"]
    /\ UNCHANGED <<queue, mutex, count, received>>
-------------------------------------------------------------------------------
(* WaitForEV.  A timeout leaves the state as it is and the caller's loop   *)
(* calls again, so it is a stuttering step.                                *)
WaitBoth(c) ==
    /\ pc[c] = "idle"
    /\ event
    /\ Acquire(c, "pop")
    /\ UNCHANGED <<queue, event, count, received>>

(* Fault: the mutex is released before ResetEvent, not after it.           *)
WaitPopUnlocks(c) ==
    /\ pc[c] = "pop"
    /\ PopFront
    /\ Release(c, IF queue' = << >> THEN "reset" ELSE "idle")
    /\ UNCHANGED <<event, count>>

(* Fault: ResetEvent only if an element was taken.                         *)
WaitPopKeepsEvent(c) ==
    /\ pc[c] = "pop"
    /\ PopFront
    /\ pc' = [pc EXCEPT ![c] = IF queue # << >> /\ queue' = << >>
                               THEN "reset" ELSE "release"]
    /\ UNCHANGED <<event, mutex, count>>

WaitPop(c) ==
    /\ pc[c] = "pop"
    /\ PopFront
    /\ pc' = [pc EXCEPT ![c] = IF queue' = << >> THEN "reset" ELSE "release"]
    /\ UNCHANGED <<event, mutex, count>>

WaitReset(c) ==
    /\ pc[c] = "reset"
    /\ event' = FALSE
    /\ pc' = [pc EXCEPT ![c] = "release"]
    /\ UNCHANGED <<queue, mutex, count, received>>

WaitRelease(c) ==
    /\ pc[c] = "release"
    /\ Release(c, "idle")
    /\ UNCHANGED <<queue, event, count, received>>
-------------------------------------------------------------------------------
(* Pop, which Engine::OnThreadStop calls to drain the queue: it leaves the *)
(* event alone, so a later WaitForEV may find the event set and the queue  *)
(* empty.  The drain loop ends with the first Pop that finds nothing.      *)
PopLock(d) ==
    /\ pc[d] = "idle"
    /\ Acquire(d, "drain")
    /\ UNCHANGED <<queue, event, count, received>>

Pop(d) ==
    /\ pc[d] = "drain"
    /\ PopFront
    /\ Release(d, IF queue # << >> THEN "idle" ELSE "drained")
    /\ UNCHANGED <<event, count>>
-------------------------------------------------------------------------------
Produce(p) == PushLock(p) \/ PushElement(p) \/ Signal(p)

WaitForEV(c) == WaitBoth(c) \/ WaitPop(c) \/ WaitReset(c) \/ WaitRelease(c)

Drain(d) == PopLock(d) \/ Pop(d)

Next ==
    \/ \E p \in Producers : Produce(p)
    \/ \E c \in Consumers : WaitForEV(c)
    \/ \E d \in Drainers : Drain(d)

(* A thread that can run is scheduled, and a thread inside Push, Signal,   *)
(* WaitForEV or Pop does not stop there.  Nobody is obliged to push or to  *)
(* drain: those calls carry no fairness for their first step.              *)
Fairness ==
    /\ \A p \in Producers : WF_vars(PushElement(p) \/ Signal(p))
    /\ \A c \in Consumers : WF_vars(WaitForEV(c))
    /\ \A d \in Drainers : WF_vars(Pop(d))

Spec == Init /\ [][Next]_vars

FairSpec == Spec /\ Fairness
-------------------------------------------------------------------------------
TypeOK ==
    /\ queue \in Seq(Element)
    /\ event \in BOOLEAN
    /\ mutex \in Threads \cup {NoOne}
    /\ pc \in [Threads -> {"idle", "push", "signal", "pop", "reset",
                           "release", "drain", "drained"}]
    /\ count \in [Producers -> 0 .. MaxPush]
    /\ received \in Seq(Element)

(* No wakeup is lost: while an element is queued the event is set, or a    *)
(* producer that has pushed is still to call Signal.  This is what makes   *)
(* ResetEvent in WaitForEV safe although Signal runs outside the mutex.    *)
NoLostWakeup ==
    queue # << >> => event \/ \E p \in Producers : pc[p] = "signal"

Holding == {"push", "pop", "reset", "release", "drain"}

(* Which thread owns the mutex in which step of its call.                  *)
MutexOwner == \A t \in Threads : pc[t] \in Holding <=> mutex = t

(* A consumer about to call ResetEvent still sees an empty queue: the      *)
(* emptiness test is not stale, because the mutex is held in between.      *)
ResetOnlyWhenEmpty == \A c \in Consumers : pc[c] = "reset" => queue = << >>

(* A thread is only ever in the steps of its own kind of call.             *)
Roles ==
    /\ \A p \in Producers : pc[p] \in {"idle", "push", "signal"}
    /\ \A c \in Consumers : pc[c] \in {"idle", "pop", "reset", "release"}
    /\ \A d \in Drainers : pc[d] \in {"idle", "drain", "drained"}

(* A producer inside Push still has room under the bound.                  *)
PushBounded == \A p \in Producers : pc[p] = "push" => count[p] < MaxPush

(* The inductive invariant behind NoLostWakeup.                            *)
IInv ==
    /\ TypeOK
    /\ Roles
    /\ MutexOwner
    /\ PushBounded
    /\ ResetOnlyWhenEmpty
    /\ NoLostWakeup

(* AsyncQueue implements the abstract queue: elements come out once each,  *)
(* in the order in which they went in (safety), and, with running threads, *)
(* no element stays in the queue for ever (Take is weakly fair).           *)
EQ == INSTANCE EventQueue WITH pending <- queue

EventQueueSpec == EQ!Spec

(* The event does not stay set on an empty queue: the consumers do not     *)
(* spin on a signal whose element a drainer has already taken.             *)
SpuriousWakeupEnds == [](queue = << >> /\ event => <>(queue # << >> \/ ~event))
===============================================================================
