--------------------------------- MODULE Alloc --------------------------------
(***************************************************************************)
(* The tracking allocator of z3_utilib/z3_alloc.c, called by several       *)
(* threads.  A call works on its block outside the mutex and on the        *)
(* tracking structure and the statistics inside it; each such piece is one *)
(* action.  The Windows build tracks blocks in one z3_list, the Linux      *)
(* build in the z3_hash of z3_utilib/z3_hash.c: here a list has the one    *)
(* bucket TheList, a hash table the buckets Keys.  Both builds keep the    *)
(* assertions.                                                             *)
(***************************************************************************)
EXTENDS Z3List

CONSTANTS AllocThreads,
          Blocks,        \* addresses malloc can return
          Keys,          \* hash buckets
          KeyOf,         \* hash_pointer_key
          TheList,       \* the single bucket of the list build
          Alignment,     \* sizeof(void *)
          UIntRange,     \* 2^32, the range of the statistics
          Sizes,         \* sizes the callers ask for
          MaxCalls       \* bound: calls in one behaviour

(* A program has a thread, and a node is found for every block.            *)
ASSUME AllocAssumption ==
    /\ AllocThreads # {}
    /\ IsFiniteSet(Blocks) /\ Cardinality(Blocks) <= Cardinality(Nodes)
    /\ KeyOf \in [Blocks -> Keys] /\ TheList \notin Keys
    /\ Alignment \in Nat \ {0} /\ UIntRange \in Nat \ {0}
    /\ Sizes \subseteq Nat /\ MaxCalls \in Nat

VARIABLES allocBuild,     \* "list" or "hash" (Z3_HASH_ENABLE)
          nodes,          \* heap of the tracking lists
          buckets,        \* memblock_list, or the buckets of hash_table
          available_num,  \* hash_table->available_num
          block,          \* length of every block that is allocated
          held,           \* blocks the callers hold
          lost,           \* blocks whose z3_realloc returned NULL
          stat,           \* the counters of alloc_stat
          call,           \* what each thread does: [op, step, b, size]
          calls,          \* calls begun
          process,        \* "runs", "aborted", "crashed" or "uninit"
          reported        \* blocks _z3_alloc_uninit showed as leaks

allocVars == <<allocBuild, nodes, buckets, available_num, block, held, lost,
               stat, call, calls, process, reported>>

tracking == <<nodes, buckets, available_num, stat>>

Idle == [op |-> "none", step |-> "idle", b |-> NULL, size |-> 0]

BucketSet == IF allocBuild = "hash" THEN Keys ELSE {TheList}

BucketOf(b) == IF allocBuild = "hash" THEN KeyOf[b] ELSE TheList

(* _z3_alloc_init was called.                                              *)
AllocInit ==
    /\ allocBuild \in {"list", "hash"}
    /\ nodes = EmptyHeap
    /\ buckets = [k \in BucketSet |-> NULL]
    /\ available_num = 0
    /\ block = << >>
    /\ held = {}
    /\ lost = {}
    /\ stat = [total_allocated_bytes |-> 0, total_free_bytes |-> 0,
               maximum_memory_bytes |-> 0, total_allocated_times |-> 0,
               total_free_times |-> 0]
    /\ call = [t \in AllocThreads |-> Idle]
    /\ calls = 0
    /\ process = "runs"
    /\ reported = {}

Align(size) == ((size + Alignment - 1) \div Alignment) * Alignment

Runs(t, step) == process = "runs" /\ call[t].step = step

Begin(t) == Runs(t, "idle") /\ calls < MaxCalls /\ calls' = calls + 1

Step(t, step) == call' = [call EXCEPT ![t].step = step]

Return(t) == call' = [call EXCEPT ![t] = Idle]

(* malloc or calloc of the C library gives block b, or NULL.               *)
Obtain(t, op, size) ==
    \/ /\ UNCHANGED <<block, call>>
    \/ \E b \in Blocks \ DOMAIN block :
           /\ block' = Put(block, b, Align(size))
           /\ call' = [call EXCEPT ![t] = [op |-> op, step |-> "track",
                                           b |-> b, size |-> size]]

_z3_malloc(t, size) ==
    /\ Begin(t)
    /\ Obtain(t, "malloc", size)
    /\ UNCHANGED <<allocBuild, tracking, held, lost, process, reported>>

_z3_calloc(t, num, size) ==
    /\ Begin(t)
    /\ Obtain(t, "malloc", num * size)
    /\ UNCHANGED <<allocBuild, tracking, held, lost, process, reported>>

(* The copy of an empty string is NULL.                                    *)
_z3_strdup(t, strlen) ==
    /\ Begin(t)
    /\ IF strlen + 1 > 1
       THEN Obtain(t, "malloc", strlen + 1)
       ELSE UNCHANGED <<block, call>>
    /\ UNCHANGED <<allocBuild, tracking, held, lost, process, reported>>

(* Fault: the number of the hash table is not raised.                      *)
InsertUncounted(b) ==
    LET r == z3_list_add_head(nodes, buckets[BucketOf(b)], b)
    IN /\ nodes' = r.heap
       /\ buckets' = [buckets EXCEPT ![BucketOf(b)] = r.list]
       /\ UNCHANGED available_num

(* z3_list_add_head into the list, or z3_hash_insert.                      *)
z3_hash_insert(b) ==
    LET r == z3_list_add_head(nodes, buckets[BucketOf(b)], b)
    IN /\ nodes' = r.heap
       /\ buckets' = [buckets EXCEPT ![BucketOf(b)] = r.list]
       /\ available_num' = available_num + 1

(* z3_list_remove from the list, or z3_hash_remove.                        *)
z3_hash_remove(b) ==
    LET r == z3_list_remove(nodes, buckets[BucketOf(b)], b)
    IN /\ nodes' = r.heap
       /\ buckets' = [buckets EXCEPT ![BucketOf(b)] = r.list]
       /\ available_num' = available_num - 1

(* The statistics of an allocation and of a free: unsigned int counters.   *)
CountAlloc(b) ==
    LET allocated == (stat.total_allocated_bytes + block[b]) % UIntRange
        bytes == (allocated - stat.total_free_bytes) % UIntRange
    IN stat' = [stat EXCEPT
                    !.total_allocated_bytes = allocated,
                    !.total_allocated_times = (@ + 1) % UIntRange,
                    !.maximum_memory_bytes = IF bytes > @ THEN bytes ELSE @]

(* Fault: the length freed is not counted.                                 *)
CountFreeTimes(b) ==
    stat' = [stat EXCEPT !.total_free_times = (@ + 1) % UIntRange]

CountFree(b) ==
    stat' = [stat EXCEPT
                 !.total_free_bytes = (@ + block[b]) % UIntRange,
                 !.total_free_times = (@ + 1) % UIntRange]

(* The critical section of _z3_malloc, _z3_calloc and _z3_realloc.         *)
Track(t) ==
    /\ Runs(t, "track")
    /\ z3_hash_insert(call[t].b)
    /\ CountAlloc(call[t].b)
    /\ IF allocBuild = "list"
       THEN Step(t, "trace") /\ UNCHANGED held
       ELSE Return(t) /\ held' = held \cup {call[t].b}
    /\ UNCHANGED <<allocBuild, block, lost, calls, process, reported>>

(* The list build then traces memblock_list->list_num without the mutex;   *)
(* the pointer is NULL when no block is tracked.  (The node it points to   *)
(* may be freed by another thread: the number printed is then any.)        *)
TraceAlloc(t) ==
    /\ Runs(t, "trace") /\ call[t].op # "free"
    /\ IF buckets[TheList] = NULL
       THEN process' = "crashed" /\ UNCHANGED <<held, call>>
       ELSE Return(t) /\ held' = held \cup {call[t].b} /\ UNCHANGED process
    /\ UNCHANGED <<allocBuild, tracking, block, lost, calls, reported>>

(* A caller frees or resizes a block it holds; the magic numbers match.    *)
_z3_free(t, b) ==
    /\ Begin(t)
    /\ b \in held
    /\ held' = held \ {b}
    /\ call' = [call EXCEPT ![t] = [op |-> "free", step |-> "untrack",
                                    b |-> b, size |-> 0]]
    /\ UNCHANGED <<allocBuild, tracking, block, lost, process, reported>>

(* z3_realloc of a NULL pointer is _z3_malloc.                             *)
_z3_realloc(t, b, size) ==
    /\ Begin(t)
    /\ b \in held
    /\ held' = held \ {b}
    /\ call' = [call EXCEPT ![t] = [op |-> "realloc", step |-> "untrack",
                                    b |-> b, size |-> size]]
    /\ UNCHANGED <<allocBuild, tracking, block, lost, process, reported>>

(* The critical section of _z3_free and the first one of _z3_realloc; the  *)
(* assertion of z3_list_remove aborts if the block is not tracked.         *)
Untrack(t) ==
    LET b == call[t].b
    IN /\ Runs(t, "untrack")
       /\ IF Removable(nodes, buckets[BucketOf(b)], b)
          THEN /\ z3_hash_remove(b)
               /\ CountFree(b)
               /\ Step(t, IF call[t].op = "realloc" THEN "realloc"
                          ELSE IF allocBuild = "list" THEN "trace"
                          ELSE "release")
               /\ UNCHANGED process
          ELSE process' = "aborted" /\ UNCHANGED <<tracking, call>>
       /\ UNCHANGED <<allocBuild, block, held, lost, calls, reported>>

(* Line 542: memblock_list is read once for the test and once more for the *)
(* number, without the mutex.                                              *)
TraceFree(t) ==
    /\ Runs(t, "trace") /\ call[t].op = "free"
    /\ Step(t, IF buckets[TheList] = NULL THEN "release" ELSE "number")
    /\ UNCHANGED <<allocBuild, tracking, block, held, lost, calls, process,
                   reported>>

TraceNumber(t) ==
    /\ Runs(t, "number")
    /\ IF buckets[TheList] = NULL
       THEN process' = "crashed" /\ UNCHANGED call
       ELSE Step(t, "release") /\ UNCHANGED process
    /\ UNCHANGED <<allocBuild, tracking, block, held, lost, calls, reported>>

ReleaseBlock(t) ==
    /\ Runs(t, "release")
    /\ block' = Restrict(block, DOMAIN block \ {call[t].b})
    /\ lost' = lost \ {call[t].b}
    /\ Return(t)
    /\ UNCHANGED <<allocBuild, tracking, held, calls, process, reported>>

(* Fault: the block realloc returned is not put back into the list.        *)
ReallocForgets(t) ==
    /\ Runs(t, "realloc")
    /\ held' = held \cup {call[t].b}
    /\ Return(t)
    /\ UNCHANGED <<allocBuild, tracking, block, lost, calls, process, reported>>

(* realloc of the C library keeps the block, moves it, or fails: the old   *)
(* block then stays allocated and with its caller.                         *)
ReallocDone(t) ==
    /\ Runs(t, "realloc")
    /\ \E b \in (Blocks \ DOMAIN block) \cup {call[t].b} :
           /\ block' = Put(Restrict(block, DOMAIN block \ {call[t].b}),
                        b, Align(call[t].size))
           /\ call' = [call EXCEPT ![t].step = "track", ![t].b = b]
    /\ UNCHANGED <<allocBuild, tracking, held, lost, calls, process, reported>>

ReallocFails(t) ==
    /\ Runs(t, "realloc")
    /\ held' = held \cup {call[t].b}
    /\ lost' = lost \cup {call[t].b}
    /\ Return(t)
    /\ UNCHANGED <<allocBuild, tracking, block, calls, process, reported>>

TrackedIn(k) == ToSet(z3_list_foreach(nodes, buckets[k]))

Tracked == UNION {TrackedIn(k) : k \in BucketSet}

(* The last call, after the other threads were joined.  Leaks are shown    *)
(* and freed: in the list build only if there are two (line 134).          *)
_z3_alloc_uninit ==
    /\ \A t \in AllocThreads : Runs(t, "idle")
    /\ process' = "uninit"
    /\ reported' = IF \/ allocBuild = "hash" /\ available_num > 0
                      \/ /\ allocBuild = "list" /\ buckets[TheList] # NULL
                         /\ nodes[buckets[TheList]].next # NULL
                   THEN Tracked ELSE {}
    /\ block' = Restrict(block, DOMAIN block \ reported')
    /\ UNCHANGED <<allocBuild, tracking, held, lost, call, calls>>

AllocNext ==
    \/ \E t \in AllocThreads :
           \/ \E size \in Sizes : _z3_malloc(t, size) \/ _z3_strdup(t, size)
           \/ \E num, size \in Sizes : _z3_calloc(t, num, size)
           \/ \E b \in Blocks : _z3_free(t, b)
           \/ \E b \in Blocks, size \in Sizes : _z3_realloc(t, b, size)
           \/ Track(t) \/ TraceAlloc(t) \/ Untrack(t) \/ TraceFree(t)
           \/ TraceNumber(t) \/ ReleaseBlock(t)
           \/ ReallocDone(t) \/ ReallocFails(t)
    \/ _z3_alloc_uninit

AllocSpec == AllocInit /\ [][AllocNext]_allocVars

(* The window of a call in which its block is not in the list.             *)
Window(t) ==
    \/ call[t].step \in {"track", "realloc", "number", "release"}
    \/ call[t].step = "trace" /\ call[t].op = "free"

InCall == {call[t].b : t \in {u \in AllocThreads : Window(u)}}

(* Whatever the threads do, the list or the hash table has exactly the     *)
(* blocks that are allocated and not inside a call's own window, each      *)
(* once and in the bucket of its address, and the number of the hash table *)
(* is their number; the one exception is a block whose realloc failed.     *)
(* So only such a block makes the assertion of z3_list_remove fail.        *)
TrackedExactly ==
    process # "uninit" =>
        /\ \A k \in BucketSet :
               /\ WellFormed(nodes, buckets[k])
               /\ TrackedIn(k) = {b \in DOMAIN block \ (InCall \cup lost) :
                                      BucketOf(b) = k}
        /\ Cardinality(Tracked) = available_num
        /\ Cardinality(DOMAIN nodes) = available_num
        /\ process = "aborted" => \E t \in AllocThreads :
               call[t].step = "untrack" /\ call[t].b \in lost

(* The statistics wrap around but their differences do not lie: allocated  *)
(* minus freed bytes is what the tracked blocks occupy, and allocated      *)
(* minus freed times is their number (both in the range of the counters).  *)
OccupiedExact ==
    process # "uninit" =>
        /\ (stat.total_allocated_bytes - stat.total_free_bytes) % UIntRange
               = MapThenSumSet(LAMBDA b : block[b], Tracked) % UIntRange
        /\ (stat.total_allocated_times - stat.total_free_times) % UIntRange
               = Cardinality(Tracked) % UIntRange

(* The final report names every leaked block the list knows, except a      *)
(* single one in the list build.                                           *)
LeaksReported ==
    process = "uninit" =>
        reported = IF allocBuild = "list" /\ Cardinality(held \ lost) = 1
                   THEN {} ELSE held \ lost
===============================================================================
