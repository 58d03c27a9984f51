------------------------------ MODULE TraceTruck ------------------------------
(***************************************************************************)
(* The trace shipper of z3_utilib/z3_trace.c: every TRACE_xxx call ships   *)
(* one line into string_list, a background thread (the truck) prints the   *)
(* list, and stop_truck tells the thread to quit and joins it.  This       *)
(* module holds what both builds share; TraceTruckWin and TraceTruckPosix  *)
(* add the steps of shipping, thread_func and stop_truck of each build.    *)
(***************************************************************************)
EXTENDS Integers, Sequences, FiniteSets

CONSTANTS Tracers,    \* threads that call TRACE_xxx
          Truck,      \* the thread that runs thread_func
          Stopper,    \* the thread that calls TRACE_UNINIT
          MaxLines,   \* bound: lines shipped by one thread
          NoOne       \* msg_mutex is free

Threads == Tracers \cup {Truck, Stopper}

ASSUME TruckAssumption ==
    /\ Truck \notin Tracers /\ Stopper \notin Tracers /\ Truck # Stopper
    /\ NoOne \notin Threads
    /\ MaxLines \in Nat

VARIABLES list,       \* string_list
          quit,       \* truck_info->quit
          mutex,      \* owner of msg_mutex
          pc,         \* next step of each thread
          seenQuit,   \* thread_func's local copy of quit
          shipped,    \* history: lines in the order they were shipped
          printed,    \* history: lines in the order they were printed
          atQuit      \* history: lines shipped when quit was set

common == <<list, quit, mutex, pc, seenQuit, shipped, printed, atQuit>>

Line == Tracers \X (1 .. MaxLines)

ShippedBy(p) == Cardinality({i \in DOMAIN shipped : shipped[i][1] = p})

CommonInit ==
    /\ list = << >>
    /\ quit = FALSE
    /\ mutex = NoOne
    /\ pc = [t \in Threads |-> "idle"]
    /\ seenQuit = FALSE
    /\ shipped = << >>
    /\ printed = << >>
    /\ atQuit = 0

Goto(t, step) == pc' = [pc EXCEPT ![t] = step]

Acquire(t, step) == mutex = NoOne /\ mutex' = t /\ Goto(t, step)

Release(t, step) == mutex' = NoOne /\ Goto(t, step)

(* Fault: an empty line is listed (for_each asserts that it is not).       *)
AddEmptyLine(p) ==
    /\ list' = Append(list, << >>)
    /\ shipped' = Append(shipped, <<p, ShippedBy(p) + 1>>)

(* Fault: z3_list_add_head instead of z3_list_add_tail.                    *)
AddLineFirst(p) ==
    LET line == <<p, ShippedBy(p) + 1>>
    IN  /\ list' = <<line>> \o list
        /\ shipped' = Append(shipped, line)

(* z3_list_add_tail of a copy of the line, under the mutex.                *)
AddLine(p) ==
    LET line == <<p, ShippedBy(p) + 1>>
    IN  /\ list' = Append(list, line)
        /\ shipped' = Append(shipped, line)

(* Fault: only the first line is printed before the list is freed.         *)
PrintFirst ==
    /\ printed' = IF list = << >> THEN printed ELSE Append(printed, Head(list))
    /\ list' = << >>

(* z3_list_foreach(for_each) and z3_list_free, under the mutex.            *)
PrintAll ==
    /\ printed' = printed \o list
    /\ list' = << >>

SetQuit ==
    /\ quit' = TRUE
    /\ atQuit' = Len(shipped)
-------------------------------------------------------------------------------
TypeOK ==
    /\ list \in Seq(Line)
    /\ quit \in BOOLEAN
    /\ mutex \in Threads \cup {NoOne}
    /\ pc \in [Threads -> {"idle", "add", "signal", "drain", "blocked", "woken",
                           "reset", "final", "flush", "exited", "quit", "join",
                           "stopped"}]
    /\ seenQuit \in BOOLEAN
    /\ shipped \in Seq(Line)
    /\ printed \in Seq(Line)
    /\ atQuit \in Nat

(* Lines are printed once each and in the order in which they were         *)
(* shipped, and none disappears between string_list and the output.        *)
PrintedInOrder == printed \o list = shipped

(* When thread_func returns it has printed every line that was shipped     *)
(* before stop_truck set quit, however the wakeups fell.                   *)
ExitPrintsAll == pc[Truck] = "exited" => Len(printed) >= atQuit

(* stop_truck notifies the thread to quit, and its join returns.           *)
StopReturns == pc[Stopper] = "join" ~> pc[Stopper] = "stopped"

===============================================================================
