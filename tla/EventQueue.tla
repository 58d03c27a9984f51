------------------------------ MODULE EventQueue ------------------------------
(***************************************************************************)
(* What the users of Z3::AsyncQueue rely on: Engine::Dispatch hands every  *)
(* completed overlapped to some executor, IOCPObj::Notify hands every      *)
(* notification to the client thread.  Each element is received exactly    *)
(* once, in the order in which the elements were put, and none waits for   *)
(* ever.  AsyncQueue.tla is shown to implement this specification.         *)
(***************************************************************************)
EXTENDS Integers, Sequences

CONSTANTS Producers,  \* threads that put elements
          MaxPush     \* bound: elements put by one producer

VARIABLES pending,    \* elements put and not yet received, oldest first
          received,   \* elements received so far, in order
          count       \* count[p]: elements p has put

vars == <<pending, received, count>>

Element == Producers \X (1 .. MaxPush)

Init ==
    /\ pending = << >>
    /\ received = << >>
    /\ count = [p \in Producers |-> 0]

Put(p) ==
    /\ count[p] < MaxPush
    /\ count' = [count EXCEPT ![p] = @ + 1]
    /\ pending' = Append(pending, <<p, count[p] + 1>>)
    /\ UNCHANGED received

Take ==
    /\ pending # << >>
    /\ received' = Append(received, Head(pending))
    /\ pending' = Tail(pending)
    /\ UNCHANGED count

Next == Take \/ \E p \in Producers : Put(p)

Safety == Init /\ [][Next]_vars

Spec == Safety /\ WF_vars(Take)
===============================================================================
