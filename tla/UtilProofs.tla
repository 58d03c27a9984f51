------------------------------ MODULE UtilProofs ------------------------------
(***************************************************************************)
(* Proofs about z3_utilib: the doubly linked list of z3_list.c holds the   *)
(* sequence it stands for after any calls, and the tracking allocator of   *)
(* z3_alloc.c knows exactly the blocks it should, in every interleaving of *)
(* its threads.  Both rest on one lemma per list function, about a chain   *)
(* of nodes: see Chain and Update below.                                   *)
(***************************************************************************)
EXTENDS ListCalls, Alloc, FiniteSetTheorems, SequenceTheorems,
        WellFoundedInduction, TLAPS

(* A heap of list nodes whose data is in V.                                *)
NodeRecords(V) == [data : V, next : Nodes \cup {NULL},
                   prev : Nodes \cup {NULL}, list_num : Int]

Heap(h, V) == DOMAIN h \subseteq Nodes /\ h \in [DOMAIN h -> NodeRecords(V)]

SameNode(g, h, x) ==
    /\ g[x].next = h[x].next /\ g[x].prev = h[x].prev
    /\ g[x].list_num = h[x].list_num /\ g[x].data = h[x].data

(* List l of heap h consists of the L nodes of ns, in this order.          *)
Links(h, ns, L) ==
    \A i \in 1 .. L :
        /\ h[ns[i]].next = IF i = L THEN NULL ELSE ns[i + 1]
        /\ h[ns[i]].prev = IF i = 1 THEN NULL ELSE ns[i - 1]

Chain(h, l, ns, L) ==
    /\ L \in Nat
    /\ ns \in [1 .. L -> DOMAIN h]
    /\ \A i, j \in 1 .. L : ns[i] = ns[j] => i = j
    /\ l = IF L = 0 THEN NULL ELSE ns[1]
    /\ Links(h, ns, L)
    /\ L > 0 => h[ns[1]].list_num = L

(* The data of these nodes.                                                *)
DataOf(h, ns, L) == [k \in 1 .. L |-> h[ns[k]].data]

(* An operation made heap h, of which it touched the nodes of set N only,  *)
(* to the heap and the list of r: a chain of the nodes ns.                 *)
Update(V, h, N, r, ns, L) ==
    /\ Heap(r.heap, V)
    /\ Chain(r.heap, r.list, ns, L)
    /\ \A x \in DOMAIN h \ N : SameNode(r.heap, h, x)
    /\ DOMAIN r.heap = (DOMAIN h \ N) \cup ToSet(ns)
    /\ ToSet(ns) \cap (DOMAIN h \ N) = {}

(* Several lists, none of which shares a node with another, make up h.     *)
Own(h, l) == ToSet(NodesOf(h, l))

IsList(h, l) == Chain(h, l, NodesOf(h, l), Len(NodesOf(h, l)))

Family(h, I, ls) ==
    /\ \A i \in I : IsList(h, ls[i])
    /\ \A i, j \in I : i # j => Own(h, ls[i]) \cap Own(h, ls[j]) = {}
    /\ DOMAIN h = UNION {Own(h, ls[i]) : i \in I}

-------------------------------------------------------------------------------
(* What is true of 0 and goes from each number to the next one holds up to *)
(* n: a set S of natural numbers without a least element is empty.         *)
LEMMA LeastExists ==
  ASSUME NEW S \in SUBSET Nat, S # {}
  PROVE  \E x \in S : \A y \in S : x <= y
  <1> DEFINE R == {ss \in Nat \X Nat : ss[1] < ss[2]}
  <1>1. IsWellFoundedOn(R, Nat)
    BY NatLessThanWellFounded, Zenon DEF OpToRel
  <1>2. \E x \in S : \A y \in S : <<y, x>> \notin R
    <2> HIDE DEF R
    <2> QED
      BY <1>1, WFMin
  <1>3. PICK x \in S : \A y \in S : <<y, x>> \notin R
    BY <1>2
  <1>4. ASSUME NEW y \in S PROVE x <= y
    <2>1. <<y, x>> \in Nat \X Nat /\ <<y, x>>[1] = y /\ <<y, x>>[2] = x
      OBVIOUS
    <2>2. ~ (y < x)
      BY <1>3, <2>1
    <2> QED
      BY <2>2
  <1> QED
    BY <1>4

(* Min of the community modules is that least element.                     *)
LEMMA MinIsLeast ==
  ASSUME NEW S \in SUBSET Nat, S # {}
  PROVE  Min(S) \in S /\ \A y \in S : Min(S) <= y
  BY LeastExists DEF Min

(* Two functions that agree at 0 and agree at k whenever they agree at     *)
(* k - 1 are equal.                                                        *)
LEMMA SameFrom0 ==
  ASSUME NEW n \in Nat, NEW f, NEW g, f[0] = g[0],
         \A k \in 1 .. n : f[k - 1] = g[k - 1] => f[k] = g[k]
  PROVE  \A k \in 0 .. n : f[k] = g[k]
  <1> DEFINE S == {k \in 0 .. n : f[k] # g[k]}
  <1> SUFFICES ASSUME S # {} PROVE FALSE
    OBVIOUS
  <1>0. S \in SUBSET Nat
    OBVIOUS
  <1>1. PICK x \in S : \A y \in S : x <= y
    <2> HIDE DEF S
    <2> QED
      BY <1>0, LeastExists
  <1>2. x \in 1 .. n /\ x - 1 \in 0 .. n /\ x - 1 \notin S
    BY <1>1
  <1>3. f[x - 1] = g[x - 1]
    BY <1>2
  <1>4. f[x] = g[x]
    BY <1>2, <1>3
  <1> QED
    BY <1>4

-------------------------------------------------------------------------------
(* The writes of z3_list.c, member by member: heap h becomes g.            *)
NextSet(V, h, g, n, m) ==
    /\ Heap(g, V) /\ DOMAIN g = DOMAIN h
    /\ \A x \in DOMAIN h :
           /\ g[x].next = IF x = n THEN m ELSE h[x].next
           /\ g[x].prev = h[x].prev
           /\ g[x].list_num = h[x].list_num /\ g[x].data = h[x].data

PrevSet(V, h, g, n, m) ==
    /\ Heap(g, V) /\ DOMAIN g = DOMAIN h
    /\ \A x \in DOMAIN h :
           /\ g[x].next = h[x].next
           /\ g[x].prev = IF x = n THEN m ELSE h[x].prev
           /\ g[x].list_num = h[x].list_num /\ g[x].data = h[x].data

NumSet(V, h, g, n, k) ==
    /\ Heap(g, V) /\ DOMAIN g = DOMAIN h
    /\ \A x \in DOMAIN h :
           /\ g[x].next = h[x].next /\ g[x].prev = h[x].prev
           /\ g[x].list_num = IF x = n THEN k ELSE h[x].list_num
           /\ g[x].data = h[x].data

Freed(V, h, g, n) ==
    /\ Heap(g, V) /\ DOMAIN g = DOMAIN h \ {n}
    /\ \A x \in DOMAIN h \ {n} : SameNode(g, h, x)

Added(V, h, g, n, rec) ==
    /\ Heap(g, V) /\ DOMAIN g = DOMAIN h \cup {n} /\ g[n] = rec
    /\ \A x \in DOMAIN h \ {n} : SameNode(g, h, x)

LEMMA SetNextFacts ==
  ASSUME NEW V, NEW h, Heap(h, V), NEW n, n \in DOMAIN h \cup {NULL},
         NEW m, m \in Nodes \cup {NULL}
  PROVE  NextSet(V, h, SetNext(h, n, m), n, m)
  BY NodeAssumption DEF NextSet, SetNext, Heap, NodeRecords

LEMMA SetPrevFacts ==
  ASSUME NEW V, NEW h, Heap(h, V), NEW n, n \in DOMAIN h \cup {NULL},
         NEW m, m \in Nodes \cup {NULL}
  PROVE  PrevSet(V, h, SetPrev(h, n, m), n, m)
  BY NodeAssumption DEF PrevSet, SetPrev, Heap, NodeRecords

LEMMA SetNumFacts ==
  ASSUME NEW V, NEW h, Heap(h, V), NEW n, n \in DOMAIN h \cup {NULL},
         NEW k, k \in Int
  PROVE  NumSet(V, h, SetNum(h, n, k), n, k)
  BY NodeAssumption DEF NumSet, SetNum, Heap, NodeRecords

LEMMA FreeFacts ==
  ASSUME NEW V, NEW h, Heap(h, V), NEW n
  PROVE  Freed(V, h, z3_list_free_1(h, n), n)
  BY DEF Freed, z3_list_free_1, Restrict, Heap, SameNode

LEMMA PutFacts ==
  ASSUME NEW V, NEW h, Heap(h, V), NEW n, n \in Nodes,
         NEW rec, rec \in NodeRecords(V)
  PROVE  Added(V, h, Put(h, n, rec), n, rec)
  BY DEF Added, Put, Heap, SameNode

-------------------------------------------------------------------------------
(* A heap is finite, and no chain is longer than its heap.                 *)
LEMMA ChainSize ==
  ASSUME NEW V, NEW h, Heap(h, V), NEW l, NEW ns, NEW L, Chain(h, l, ns, L)
  PROVE  /\ IsFiniteSet(DOMAIN h) /\ Cardinality(DOMAIN h) \in Nat
         /\ L \in Nat /\ L <= Cardinality(DOMAIN h)
  <1>1. IsFiniteSet(DOMAIN h)
    BY NodeAssumption, FS_Subset DEF Heap
  <1>2. L \in Nat /\ ns \in Injection(1 .. L, DOMAIN h)
    BY DEF Chain, Injection, IsInjective
  <1>3. Cardinality(1 .. L) <= Cardinality(DOMAIN h)
    BY <1>1, <1>2, FS_Injection
  <1>4. Cardinality(1 .. L) = L
    BY <1>2, FS_Interval
  <1> QED
    BY <1>1, <1>2, <1>3, <1>4, FS_CardinalityType

(* A loop over the next pointers of a chain visits its nodes.              *)
LEMMA ChainNodes ==
  ASSUME NEW V, NEW h, Heap(h, V), NEW l, NEW ns, NEW L, Chain(h, l, ns, L)
  PROVE  /\ NodesOf(h, l) = ns /\ Len(NodesOf(h, l)) = L
         /\ DOMAIN NodesOf(h, l) = 1 .. L
  <1>1. PICK n \in Nat : n = Cardinality(DOMAIN h) /\ L <= n
    BY ChainSize
  <1>2. /\ L \in Nat /\ ns \in [1 .. L -> DOMAIN h] /\ NULL \notin DOMAIN h
        /\ l = IF L = 0 THEN NULL ELSE ns[1]
        /\ \A i \in 1 .. L :
               h[ns[i]].next = IF i = L THEN NULL ELSE ns[i + 1]
    BY NodeAssumption DEF Chain, Links, Heap
  <1> DEFINE hop[k \in 0 .. Cardinality(DOMAIN h)] ==
                 IF k = 0 THEN l
                 ELSE IF hop[k - 1] = NULL THEN NULL
                      ELSE h[hop[k - 1]].next
             size == CHOOSE k \in DOMAIN hop :
                         hop[k] = NULL /\ \A j \in 0 .. k - 1 : hop[j] # NULL
             f == [k \in 0 .. n |-> IF k < L THEN ns[k + 1] ELSE NULL]
  <1>3. NodesOf(h, l) = [i \in 1 .. size |-> hop[i - 1]]
    BY DEF NodesOf
  <1>4. f = [k \in 0 .. Cardinality(DOMAIN h) |->
                 IF k = 0 THEN l
                 ELSE IF f[k - 1] = NULL THEN NULL ELSE h[f[k - 1]].next]
    <2>1. ASSUME NEW k \in 0 .. n
          PROVE  f[k] = IF k = 0 THEN l
                        ELSE IF f[k - 1] = NULL THEN NULL
                             ELSE h[f[k - 1]].next
      <3>1. CASE k = 0
        BY <1>1, <1>2, <3>1
      <3>2. CASE k # 0 /\ k - 1 < L
        <4>1. f[k - 1] = ns[k] /\ k \in 1 .. L /\ f[k - 1] # NULL
          BY <1>2, <3>2
        <4> QED
          BY <1>2, <3>2, <4>1
      <3>3. CASE k # 0 /\ ~ (k - 1 < L)
        BY <1>2, <3>3
      <3> QED
        BY <3>1, <3>2, <3>3
    <2> QED
      BY <1>1, <2>1
  <1>5. hop = [k \in 0 .. n |->
                   IF k = 0 THEN l
                   ELSE IF hop[k - 1] = NULL THEN NULL
                        ELSE h[hop[k - 1]].next]
    <2> HIDE DEF f
    <2> QED
      BY <1>1, <1>4
  <1> HIDE DEF hop
  <1>6. \A k \in 0 .. n : hop[k] = f[k]
    <2>1. hop[0] = f[0]
      BY <1>2, <1>5
    <2>2. ASSUME NEW k \in 1 .. n, hop[k - 1] = f[k - 1]
          PROVE  hop[k] = f[k]
      <3> HIDE DEF f
      <3>1. k \in 0 .. n /\ k # 0
        OBVIOUS
      <3>2. hop[k] = IF hop[k - 1] = NULL THEN NULL ELSE h[hop[k - 1]].next
        BY <1>5, <3>1
      <3>3. f[k] = IF f[k - 1] = NULL THEN NULL ELSE h[f[k - 1]].next
        BY <1>1, <1>4, <3>1
      <3> QED
        BY <2>2, <3>2, <3>3
    <2> HIDE DEF f
    <2> QED
      BY <2>1, <2>2, SameFrom0
  <1>7. DOMAIN hop = 0 .. n
    BY <1>5
  <1>8. size = L
    <2>1. hop[L] = NULL /\ \A j \in 0 .. L - 1 : hop[j] # NULL
      BY <1>1, <1>2, <1>6
    <2>2. ASSUME NEW k \in 0 .. n, hop[k] = NULL,
                 \A j \in 0 .. k - 1 : hop[j] # NULL
          PROVE  k = L
      BY <1>1, <1>2, <2>1, <2>2
    <2> QED
      BY <1>1, <1>2, <1>7, <2>1, <2>2
  <1>9. NodesOf(h, l) = ns
    <2>1. ASSUME NEW i \in 1 .. L PROVE hop[i - 1] = ns[i]
      BY <1>1, <1>2, <1>6
    <2> HIDE DEF size
    <2> QED
      BY <1>2, <1>3, <1>8, <2>1
  <1> QED
    BY <1>2, <1>9

(* Following the prev pointers leads from every node to the first one.     *)
LEMMA ChainFirst ==
  ASSUME NEW V, NEW h, Heap(h, V), NEW l, NEW ns, NEW L, Chain(h, l, ns, L),
         NEW i \in 1 .. L
  PROVE  z3_list_first(h, ns[i]) = l
  <1>1. PICK n \in Nat : n = Cardinality(DOMAIN h) /\ L <= n
    BY ChainSize
  <1>2. /\ L \in Nat /\ ns \in [1 .. L -> DOMAIN h] /\ NULL \notin DOMAIN h
        /\ l = ns[1] /\ i \in Nat /\ i >= 1
        /\ \A j \in 1 .. L :
               h[ns[j]].prev = IF j = 1 THEN NULL ELSE ns[j - 1]
    BY NodeAssumption DEF Chain, Links, Heap
  <1> DEFINE hop[k \in 0 .. Cardinality(DOMAIN h)] ==
                 IF k = 0 THEN ns[i]
                 ELSE IF h[hop[k - 1]].prev = NULL THEN hop[k - 1]
                      ELSE h[hop[k - 1]].prev
             f == [k \in 0 .. n |-> IF k < i THEN ns[i - k] ELSE ns[1]]
  <1>3. z3_list_first(h, ns[i]) = hop[Cardinality(DOMAIN h)]
    BY <1>2 DEF z3_list_first
  <1>4. f = [k \in 0 .. Cardinality(DOMAIN h) |->
                 IF k = 0 THEN ns[i]
                 ELSE IF h[f[k - 1]].prev = NULL THEN f[k - 1]
                      ELSE h[f[k - 1]].prev]
    <2>1. ASSUME NEW k \in 0 .. n
          PROVE  f[k] = IF k = 0 THEN ns[i]
                        ELSE IF h[f[k - 1]].prev = NULL THEN f[k - 1]
                             ELSE h[f[k - 1]].prev
      <3>1. CASE k = 0
        BY <1>1, <1>2, <3>1
      <3>2. CASE k # 0 /\ k < i
        <4>1. f[k - 1] = ns[i - k + 1] /\ i - k + 1 \in 2 .. L
          BY <1>2, <3>2
        <4>2. h[f[k - 1]].prev = ns[i - k] /\ ns[i - k] # NULL
          BY <1>2, <3>2, <4>1
        <4> QED
          BY <1>2, <3>2, <4>2
      <3>3. CASE k # 0 /\ ~ (k < i)
        <4>1. f[k - 1] = ns[1] /\ 1 \in 1 .. L
          BY <1>2, <3>3
        <4>2. h[f[k - 1]].prev = NULL
          BY <1>2, <4>1
        <4> QED
          BY <1>2, <3>3, <4>1, <4>2
      <3> QED
        BY <3>1, <3>2, <3>3
    <2> QED
      BY <1>1, <2>1
  <1>5. hop = [k \in 0 .. n |->
                   IF k = 0 THEN ns[i]
                   ELSE IF h[hop[k - 1]].prev = NULL THEN hop[k - 1]
                        ELSE h[hop[k - 1]].prev]
    <2> HIDE DEF f
    <2> QED
      BY <1>1, <1>4
  <1> HIDE DEF hop
  <1>6. \A k \in 0 .. n : hop[k] = f[k]
    <2>1. hop[0] = f[0]
      BY <1>2, <1>5
    <2>2. ASSUME NEW k \in 1 .. n, hop[k - 1] = f[k - 1]
          PROVE  hop[k] = f[k]
      <3> HIDE DEF f
      <3>1. k \in 0 .. n /\ k # 0
        OBVIOUS
      <3>2. hop[k] = IF h[hop[k - 1]].prev = NULL THEN hop[k - 1]
                     ELSE h[hop[k - 1]].prev
        BY <1>5, <3>1
      <3>3. f[k] = IF h[f[k - 1]].prev = NULL THEN f[k - 1]
                   ELSE h[f[k - 1]].prev
        BY <1>1, <1>4, <3>1
      <3> QED
        BY <2>2, <3>2, <3>3
    <2> HIDE DEF f
    <2> QED
      BY <2>1, <2>2, SameFrom0
  <1> QED
    BY <1>1, <1>2, <1>3, <1>6

(* What the functions that only read a list find in a chain.               *)
LEMMA ChainReads ==
  ASSUME NEW V, NEW h, Heap(h, V), NEW l, NEW ns, NEW L, Chain(h, l, ns, L)
  PROVE  /\ WellFormed(h, l)
         /\ z3_list_foreach(h, l) = DataOf(h, ns, L)
         /\ z3_list_last(h, l) = IF L = 0 THEN NULL ELSE ns[L]
  <1>1. /\ NodesOf(h, l) = ns /\ Len(NodesOf(h, l)) = L
        /\ DOMAIN NodesOf(h, l) = 1 .. L
    BY ChainNodes
  <1>2. z3_list_foreach(h, l) = DataOf(h, ns, L)
    BY <1>1 DEF z3_list_foreach, DataOf
  <1>3. /\ L \in Nat /\ l = IF L = 0 THEN NULL ELSE ns[1]
        /\ L > 0 => ns[1] # NULL /\ h[ns[1]].list_num = L
    BY NodeAssumption DEF Chain, Heap
  <1>4. z3_list_last(h, l) = IF L = 0 THEN NULL ELSE ns[L]
    BY <1>1, <1>3 DEF z3_list_last, Last
  <1>5. z3_list_number(h, l) = Len(NodesOf(h, l))
    BY <1>1, <1>3 DEF z3_list_number
  <1>6. ASSUME NEW i \in 1 .. L
        PROVE  /\ h[ns[i]].prev = IF i = 1 THEN NULL ELSE ns[i - 1]
               /\ z3_list_first(h, ns[i]) = l
    <2>1. z3_list_first(h, ns[i]) = l
      BY ChainFirst
    <2> QED
      BY <2>1 DEF Chain, Links
  <1>7. WellFormed(h, l)
    BY <1>1, <1>5, <1>6 DEF WellFormed
  <1> QED
    BY <1>2, <1>4, <1>7

(* The index of the first element of s that equals d, or 0.                *)
FirstAt(s, d) == SelectInSeq(s, LAMBDA e : e = d)

(* z3_list_find gives the first node that holds the data, or NULL.         *)
LEMMA ChainFind ==
  ASSUME NEW V, NEW h, Heap(h, V), NEW l, NEW ns, NEW L, Chain(h, l, ns, L),
         NEW d
  PROVE  \/ /\ z3_list_find(h, l, d) = NULL
            /\ \A i \in 1 .. L : h[ns[i]].data # d
         \/ \E p \in 1 .. L :
                /\ z3_list_find(h, l, d) = ns[p] /\ ns[p] # NULL
                /\ h[ns[p]].data = d
                /\ \A i \in 1 .. p - 1 : h[ns[i]].data # d
                /\ p = FirstAt(z3_list_foreach(h, l), d)
  <1>1. NodesOf(h, l) = ns
    BY ChainNodes
  <1> DEFINE s == [i \in 1 .. L |-> h[ns[i]].data]
             I == {i \in 1 .. L : h[ns[i]].data = d}
             p == FirstAt(z3_list_foreach(h, l), d)
  <1>2. z3_list_foreach(h, l) = s /\ Len(s) = L /\ L \in Nat
    <2>1. z3_list_foreach(h, l) = DataOf(h, ns, L)
      BY ChainReads
    <2> QED
      BY <2>1 DEF Chain, DataOf
  <1>3. p = IF I # {} THEN Min(I) ELSE 0
    BY <1>2 DEF FirstAt, SelectInSeq
  <1>4. z3_list_find(h, l, d) = IF p = 0 THEN NULL ELSE ns[p]
    BY <1>1 DEF z3_list_find, FirstAt
  <1> HIDE DEF p
  <1>5. CASE I = {}
    BY <1>3, <1>4, <1>5
  <1>6. CASE I # {}
    <2>1. I \in SUBSET Nat
      OBVIOUS
    <2>2. p \in I /\ \A y \in I : p <= y
      <3> HIDE DEF I
      <3> QED
        BY <1>3, <1>6, <2>1, MinIsLeast
    <2>3. p \in 1 .. L /\ h[ns[p]].data = d /\ ns[p] # NULL
      BY <2>2, NodeAssumption DEF Chain, Heap
    <2>4. \A i \in 1 .. p - 1 : h[ns[i]].data # d
      BY <1>2, <2>2
    <2>5. z3_list_find(h, l, d) = ns[p]
      BY <1>4, <2>3
    <2>6. p = FirstAt(z3_list_foreach(h, l), d)
      BY DEF p
    <2> QED
      BY <2>3, <2>4, <2>5, <2>6
  <1> QED
    BY <1>5, <1>6

-------------------------------------------------------------------------------
(* The nodes of a chain after each operation.                              *)
Prepended(ns, L, n) == [i \in 1 .. L + 1 |-> IF i = 1 THEN n ELSE ns[i - 1]]

Appended(ns, L, n) == [i \in 1 .. L + 1 |-> IF i = L + 1 THEN n ELSE ns[i]]

Cut(ns, L, p) == [i \in 1 .. L - 1 |-> IF i < p THEN ns[i] ELSE ns[i + 1]]

Joined(ns, L, ms, M) ==
    [i \in 1 .. L + M |-> IF i <= L THEN ns[i] ELSE ms[i - L]]

(* z3_list_add_head puts a new node in front of the chain.                 *)
LEMMA AddHeadFacts ==
  ASSUME NEW V, NEW h, Heap(h, V), NEW l, NEW ns, NEW L, Chain(h, l, ns, L),
         HasRoom(h), NEW d \in V
  PROVE  LET r == z3_list_add_head(h, l, d)
         IN  /\ Update(V, h, ToSet(ns), r, Prepended(ns, L, r.list), L + 1)
             /\ r.list \in Nodes \ DOMAIN h /\ r.heap[r.list].data = d
             /\ \A x \in DOMAIN h : r.heap[x].data = h[x].data
  <1>1. PICK n \in Nodes \ DOMAIN h : n = z3_list_alloc(h)
    BY DEF HasRoom, z3_list_alloc
  <1>2. /\ L \in Nat /\ ns \in [1 .. L -> DOMAIN h] /\ NULL \notin DOMAIN h
        /\ DOMAIN h \subseteq Nodes /\ NULL \notin Nodes
        /\ \A i, j \in 1 .. L : ns[i] = ns[j] => i = j
        /\ l = IF L = 0 THEN NULL ELSE ns[1]
        /\ \A i \in 1 .. L :
               /\ h[ns[i]].next = IF i = L THEN NULL ELSE ns[i + 1]
               /\ h[ns[i]].prev = IF i = 1 THEN NULL ELSE ns[i - 1]
        /\ L > 0 => h[ns[1]].list_num = L
    BY NodeAssumption DEF Chain, Links, Heap
  <1>3. l \in DOMAIN h \cup {NULL} /\ l \in Nodes \cup {NULL}
    BY <1>2
  <1> DEFINE g1 == SetPrev(h, l, n)
             g2 == SetNum(g1, l, 0)
             rec == Node(d, l, NULL, IF l = NULL THEN 1 ELSE h[l].list_num + 1)
             g == Put(g2, n, rec)
  <1>4. PrevSet(V, h, g1, l, n) /\ Heap(g1, V) /\ DOMAIN g1 = DOMAIN h
    <2>1. PrevSet(V, h, SetPrev(h, l, n), l, n)
      BY <1>1, <1>3, SetPrevFacts
    <2> QED
      BY <2>1 DEF PrevSet
  <1>5. NumSet(V, g1, g2, l, 0) /\ Heap(g2, V) /\ DOMAIN g2 = DOMAIN h
    <2> HIDE DEF g1
    <2>1. NumSet(V, g1, SetNum(g1, l, 0), l, 0)
      BY <1>3, <1>4, SetNumFacts
    <2> QED
      BY <1>4, <2>1 DEF NumSet
  <1>6. /\ rec \in NodeRecords(V) /\ rec.list_num = L + 1 /\ rec.next = l
        /\ rec.prev = NULL /\ rec.data = d
    BY <1>2, <1>3 DEF Node, NodeRecords
  <1>7. Added(V, g2, g, n, rec) /\ Heap(g, V) /\ DOMAIN g = DOMAIN h \cup {n}
    <2> HIDE DEF g2, rec
    <2>1. Added(V, g2, Put(g2, n, rec), n, rec)
      BY <1>1, <1>5, <1>6, PutFacts
    <2> QED
      BY <1>5, <2>1 DEF Added
  <1>8. /\ z3_list_add_head(h, l, d).heap = g
        /\ z3_list_add_head(h, l, d).list = n
    BY <1>1 DEF z3_list_add_head
  <1> HIDE DEF g1, g2, rec, g
  <1>9. /\ g[n] = rec
        /\ \A x \in DOMAIN h :
               /\ g[x].next = h[x].next
               /\ g[x].prev = IF x = l THEN n ELSE h[x].prev
               /\ g[x].data = h[x].data
               /\ x # l => SameNode(g, h, x)
    BY <1>1, <1>4, <1>5, <1>7 DEF SameNode, PrevSet, NumSet, Added
  <1>10. PICK ms : ms = Prepended(ns, L, n)
    OBVIOUS
  <1>11. /\ DOMAIN ms = 1 .. L + 1 /\ ms[1] = n
         /\ \A i \in 2 .. L + 1 : ms[i] = ns[i - 1] /\ i - 1 \in 1 .. L
         /\ ms \in [1 .. L + 1 -> DOMAIN g]
    BY <1>2, <1>7, <1>10 DEF Prepended
  <1>12. Chain(g, n, ms, L + 1)
    <2>1. L + 1 \in Nat /\ L + 1 > 0 /\ g[ms[1]].list_num = L + 1
      BY <1>2, <1>6, <1>9, <1>11
    <2>2. \A i, j \in 1 .. L + 1 : ms[i] = ms[j] => i = j
      BY <1>2, <1>1, <1>11
    <2>3. ASSUME NEW i \in 1 .. L + 1
          PROVE  /\ g[ms[i]].next = IF i = L + 1 THEN NULL ELSE ms[i + 1]
                 /\ g[ms[i]].prev = IF i = 1 THEN NULL ELSE ms[i - 1]
      <3>1. CASE i = 1
        BY <1>2, <1>6, <1>9, <1>11, <3>1
      <3>2. CASE i # 1
        <4>1. PICK j \in 1 .. L : j = i - 1 /\ ms[i] = ns[j]
          BY <1>11, <3>2
        <4>2. ns[j] \in DOMAIN h /\ (ns[j] = l <=> j = 1)
          BY <1>2
        <4>3. g[ms[i]].next = IF j = L THEN NULL ELSE ns[j + 1]
          BY <1>2, <1>9, <4>1, <4>2
        <4>4. g[ms[i]].prev = IF j = 1 THEN n ELSE ns[j - 1]
          BY <1>2, <1>9, <4>1, <4>2
        <4>5. j # L => ms[i + 1] = ns[j + 1]
          <5>1. j # L => i + 1 \in 2 .. L + 1 /\ i + 1 - 1 = j + 1
            BY <1>2, <4>1
          <5> QED
            BY <1>11, <5>1
        <4>6. ms[i - 1] = IF j = 1 THEN n ELSE ns[j - 1]
          <5>1. j # 1 => j \in 2 .. L + 1
            BY <1>2, <4>1
          <5> QED
            BY <1>11, <4>1, <5>1
        <4> QED
          BY <1>2, <3>2, <4>1, <4>3, <4>4, <4>5, <4>6
      <3> QED
        BY <3>1, <3>2
    <2>4. Links(g, ms, L + 1)
      BY <2>3 DEF Links
    <2>5. L + 1 # 0
      BY <2>1
    <2> QED
      BY <1>11, <2>1, <2>2, <2>4, <2>5 DEF Chain
  <1>13. /\ ToSet(ms) = {n} \cup ToSet(ns) /\ ToSet(ns) \subseteq DOMAIN h
         /\ l # NULL => l \in ToSet(ns)
    <2>1. DOMAIN ns = 1 .. L /\ DOMAIN ms = 1 .. L + 1
      BY <1>2, <1>11
    <2>2. ASSUME NEW j \in 1 .. L PROVE ms[j + 1] = ns[j] /\ j + 1 \in 1 .. L + 1
      BY <1>2, <1>11
    <2>3. 1 \in 1 .. L + 1
      BY <1>2
    <2>4. \A i \in 1 .. L + 1 : i = 1 \/ i \in 2 .. L + 1
      BY <1>2
    <2> QED
      <3>1. ToSet(ns) \subseteq DOMAIN h /\ (l # NULL => l \in ToSet(ns))
        BY <1>2, <2>1 DEF ToSet
      <3>2. ToSet(ms) \subseteq {n} \cup ToSet(ns)
        BY <1>11, <2>1, <2>4 DEF ToSet
      <3>3. {n} \cup ToSet(ns) \subseteq ToSet(ms)
        BY <1>11, <2>1, <2>2, <2>3 DEF ToSet
      <3> QED
        BY <3>1, <3>2, <3>3
  <1>14. PICK r : r = z3_list_add_head(h, l, d)
    OBVIOUS
  <1>15. Update(V, h, ToSet(ns), r, ms, L + 1)
    <2>1. \A x \in DOMAIN h \ ToSet(ns) : SameNode(g, h, x)
      BY <1>2, <1>9, <1>13
    <2>2. DOMAIN g = (DOMAIN h \ ToSet(ns)) \cup ToSet(ms)
      BY <1>7, <1>13
    <2> QED
      BY <1>1, <1>7, <1>8, <1>12, <1>13, <1>14, <2>1, <2>2 DEF Update
  <1> QED
    BY <1>1, <1>6, <1>7, <1>8, <1>9, <1>10, <1>14, <1>15

(* z3_list_add_tail puts a new node behind the chain.                      *)
LEMMA AddTailFacts ==
  ASSUME NEW V, NEW h, Heap(h, V), NEW l, NEW ns, NEW L, Chain(h, l, ns, L),
         HasRoom(h), NEW d \in V
  PROVE  LET r == z3_list_add_tail(h, l, d)
         IN  \E n \in Nodes \ DOMAIN h :
                 /\ Update(V, h, ToSet(ns), r, Appended(ns, L, n), L + 1)
                 /\ r.heap[n].data = d
                 /\ \A x \in DOMAIN h : r.heap[x].data = h[x].data
  <1>1. PICK n \in Nodes \ DOMAIN h : n = z3_list_alloc(h)
    BY DEF HasRoom, z3_list_alloc
  <1>2. /\ L \in Nat /\ ns \in [1 .. L -> DOMAIN h] /\ NULL \notin DOMAIN h
        /\ DOMAIN h \subseteq Nodes /\ NULL \notin Nodes
        /\ \A i, j \in 1 .. L : ns[i] = ns[j] => i = j
        /\ l = IF L = 0 THEN NULL ELSE ns[1]
        /\ \A i \in 1 .. L :
               /\ h[ns[i]].next = IF i = L THEN NULL ELSE ns[i + 1]
               /\ h[ns[i]].prev = IF i = 1 THEN NULL ELSE ns[i - 1]
        /\ L > 0 => h[ns[1]].list_num = L
    BY NodeAssumption DEF Chain, Links, Heap
  <1>3. PICK last : last = z3_list_last(h, l)
    OBVIOUS
  <1>4. /\ last = IF L = 0 THEN NULL ELSE ns[L]
        /\ last \in DOMAIN h \cup {NULL} /\ l \in DOMAIN h \cup {NULL}
        /\ (l = NULL) <=> (L = 0)
    <2>1. last = IF L = 0 THEN NULL ELSE ns[L]
      BY <1>3, ChainReads
    <2> QED
      BY <1>2, <2>1
  <1> DEFINE g1 == IF l = NULL THEN h ELSE SetNum(h, l, h[l].list_num + 1)
             g2 == SetNext(g1, last, n)
             rec == Node(d, NULL, last, IF l = NULL THEN 1 ELSE 0)
             g == Put(g2, n, rec)
  <1>5. NumSet(V, h, g1, l, L + 1) /\ Heap(g1, V) /\ DOMAIN g1 = DOMAIN h
    <2>1. CASE l = NULL
      BY <1>2, <2>1 DEF NumSet
    <2>2. CASE l # NULL
      <3>1. h[l].list_num + 1 = L + 1 /\ L + 1 \in Int
        BY <1>2, <1>4, <2>2
      <3>2. NumSet(V, h, SetNum(h, l, L + 1), l, L + 1)
        BY <1>4, <3>1, SetNumFacts
      <3> QED
        BY <2>2, <3>1, <3>2 DEF NumSet
    <2> QED
      BY <2>1, <2>2
  <1>6. NextSet(V, g1, g2, last, n) /\ Heap(g2, V) /\ DOMAIN g2 = DOMAIN h
    <2> HIDE DEF g1
    <2>1. NextSet(V, g1, SetNext(g1, last, n), last, n)
      BY <1>1, <1>4, <1>5, SetNextFacts
    <2> QED
      BY <1>5, <2>1 DEF NextSet
  <1>7. /\ rec \in NodeRecords(V) /\ rec.list_num = IF L = 0 THEN 1 ELSE 0
        /\ rec.next = NULL /\ rec.prev = last /\ rec.data = d
    BY <1>2, <1>4 DEF Node, NodeRecords
  <1>8. Added(V, g2, g, n, rec) /\ Heap(g, V) /\ DOMAIN g = DOMAIN h \cup {n}
    <2> HIDE DEF g2, rec
    <2>1. Added(V, g2, Put(g2, n, rec), n, rec)
      BY <1>1, <1>6, <1>7, PutFacts
    <2> QED
      BY <1>6, <2>1 DEF Added
  <1>9. /\ z3_list_add_tail(h, l, d).heap = g
        /\ z3_list_add_tail(h, l, d).list = IF l = NULL THEN n ELSE l
    BY <1>1, <1>3 DEF z3_list_add_tail
  <1> HIDE DEF g1, g2, rec, g
  <1>10. /\ g[n] = rec
         /\ \A x \in DOMAIN h :
                /\ g[x].next = IF x = last THEN n ELSE h[x].next
                /\ g[x].prev = h[x].prev
                /\ g[x].list_num = IF x = l THEN L + 1 ELSE h[x].list_num
                /\ g[x].data = h[x].data
                /\ x # last /\ x # l => SameNode(g, h, x)
    BY <1>1, <1>5, <1>6, <1>8 DEF SameNode, NextSet, NumSet, Added
  <1>11. PICK ms : ms = Appended(ns, L, n)
    OBVIOUS
  <1>12. /\ DOMAIN ms = 1 .. L + 1 /\ ms[L + 1] = n
         /\ \A i \in 1 .. L : ms[i] = ns[i]
         /\ ms \in [1 .. L + 1 -> DOMAIN g]
    BY <1>2, <1>8, <1>11 DEF Appended
  <1>13. PICK r : r = z3_list_add_tail(h, l, d)
    OBVIOUS
  <1>14. r.heap = g /\ r.list = ms[1]
    BY <1>2, <1>4, <1>9, <1>12, <1>13
  <1>15. Chain(g, ms[1], ms, L + 1)
    <2>1. L + 1 \in Nat /\ L + 1 > 0 /\ L + 1 # 0
      BY <1>2
    <2>2. g[ms[1]].list_num = L + 1
      <3>1. CASE L = 0
        BY <1>7, <1>10, <1>12, <3>1
      <3>2. CASE L # 0
        BY <1>2, <1>10, <1>12, <3>2
      <3> QED
        BY <3>1, <3>2
    <2>3. \A i, j \in 1 .. L + 1 : ms[i] = ms[j] => i = j
      BY <1>2, <1>1, <1>12
    <2>4. ASSUME NEW i \in 1 .. L + 1
          PROVE  /\ g[ms[i]].next = IF i = L + 1 THEN NULL ELSE ms[i + 1]
                 /\ g[ms[i]].prev = IF i = 1 THEN NULL ELSE ms[i - 1]
      <3>1. CASE i = L + 1
        BY <1>2, <1>4, <1>7, <1>10, <1>12, <3>1
      <3>2. CASE i # L + 1
        <4>1. i \in 1 .. L /\ ms[i] = ns[i] /\ ns[i] \in DOMAIN h
          BY <1>2, <1>12, <3>2
        <4>2. (ns[i] = last) <=> (i = L)
          BY <1>2, <1>4, <4>1
        <4>3. g[ms[i]].next = IF i = L THEN n ELSE ns[i + 1]
          BY <1>2, <1>10, <4>1, <4>2
        <4>4. g[ms[i]].prev = IF i = 1 THEN NULL ELSE ns[i - 1]
          BY <1>2, <1>10, <4>1
        <4>5. ms[i + 1] = IF i = L THEN n ELSE ns[i + 1]
          BY <1>2, <1>12, <4>1
        <4>6. i # 1 => ms[i - 1] = ns[i - 1]
          BY <1>2, <1>12, <4>1
        <4> QED
          BY <3>2, <4>3, <4>4, <4>5, <4>6
      <3> QED
        BY <3>1, <3>2
    <2> QED
      BY <1>12, <2>1, <2>2, <2>3, <2>4 DEF Chain, Links
  <1>16. /\ ToSet(ms) = {n} \cup ToSet(ns) /\ ToSet(ns) \subseteq DOMAIN h
         /\ l # NULL => l \in ToSet(ns) /\ last \in ToSet(ns)
    <2>1. DOMAIN ns = 1 .. L /\ DOMAIN ms = 1 .. L + 1
      BY <1>2, <1>12
    <2>2. L + 1 \in 1 .. L + 1 /\ \A i \in 1 .. L : i \in 1 .. L + 1
      BY <1>2
    <2>3. \A i \in 1 .. L + 1 : i = L + 1 \/ i \in 1 .. L
      BY <1>2
    <2>4. l # NULL => L \in 1 .. L /\ 1 \in 1 .. L
      BY <1>2, <1>4
    <2>5. ToSet(ns) \subseteq DOMAIN h
      BY <1>2, <2>1 DEF ToSet
    <2>6. l # NULL => l \in ToSet(ns) /\ last \in ToSet(ns)
      BY <1>2, <1>4, <2>1, <2>4 DEF ToSet
    <2>7. ToSet(ms) \subseteq {n} \cup ToSet(ns)
      BY <1>12, <2>1, <2>3 DEF ToSet
    <2>8. {n} \cup ToSet(ns) \subseteq ToSet(ms)
      BY <1>12, <2>1, <2>2 DEF ToSet
    <2> QED
      BY <2>5, <2>6, <2>7, <2>8
  <1>17. Update(V, h, ToSet(ns), r, ms, L + 1)
    <2>1. \A x \in DOMAIN h \ ToSet(ns) : SameNode(g, h, x)
      BY <1>2, <1>4, <1>10, <1>16
    <2>2. DOMAIN g = (DOMAIN h \ ToSet(ns)) \cup ToSet(ms)
      BY <1>8, <1>16
    <2> QED
      BY <1>1, <1>8, <1>14, <1>15, <1>16, <2>1, <2>2 DEF Update
  <1> QED
    BY <1>1, <1>7, <1>10, <1>11, <1>13, <1>14, <1>17

-------------------------------------------------------------------------------
(* What every removal of the node at position p comes to.                  *)
Removed(V, h, ns, L, p, r) ==
    /\ Heap(r.heap, V) /\ DOMAIN r.heap = DOMAIN h \ {ns[p]}
    /\ r.list = IF p = 1 THEN h[ns[1]].next ELSE ns[1]
    /\ \A x \in DOMAIN h \ {ns[p]} :
           /\ r.heap[x].next = IF x = h[ns[p]].prev THEN h[ns[p]].next
                               ELSE h[x].next
           /\ r.heap[x].prev = IF x = h[ns[p]].next THEN h[ns[p]].prev
                               ELSE h[x].prev
           /\ r.heap[x].data = h[x].data
           /\ x # r.list => r.heap[x].list_num = h[x].list_num
    /\ r.list # NULL => r.heap[r.list].list_num = L - 1

(* It leaves the chain of the other nodes.                                 *)
LEMMA CutChain ==
  ASSUME NEW V, NEW h, Heap(h, V), NEW l, NEW ns, NEW L, Chain(h, l, ns, L),
         NEW p \in 1 .. L, NEW r, Removed(V, h, ns, L, p, r)
  PROVE  Update(V, h, ToSet(ns), r, Cut(ns, L, p), L - 1)
  <1>1. /\ L \in Nat /\ ns \in [1 .. L -> DOMAIN h] /\ NULL \notin DOMAIN h
        /\ \A i, j \in 1 .. L : ns[i] = ns[j] => i = j
        /\ \A i \in 1 .. L :
               /\ h[ns[i]].next = IF i = L THEN NULL ELSE ns[i + 1]
               /\ h[ns[i]].prev = IF i = 1 THEN NULL ELSE ns[i - 1]
    BY NodeAssumption DEF Chain, Links, Heap
  <1>2. PICK g : g = r.heap
    OBVIOUS
  <1>3. /\ Heap(g, V) /\ DOMAIN g = DOMAIN h \ {ns[p]}
        /\ \A x \in DOMAIN h \ {ns[p]} :
               /\ g[x].next = IF x = h[ns[p]].prev THEN h[ns[p]].next
                              ELSE h[x].next
               /\ g[x].prev = IF x = h[ns[p]].next THEN h[ns[p]].prev
                              ELSE h[x].prev
               /\ g[x].data = h[x].data
               /\ x # r.list => g[x].list_num = h[x].list_num
    BY <1>2 DEF Removed
  <1>4. PICK ms : ms = Cut(ns, L, p)
    OBVIOUS
  <1>5. /\ DOMAIN ms = 1 .. L - 1
        /\ \A i \in 1 .. L - 1 :
               /\ i < p => ms[i] = ns[i] /\ i \in 1 .. L /\ i # p
               /\ ~ (i < p) => ms[i] = ns[i + 1] /\ i + 1 \in 1 .. L /\ i + 1 # p
    BY <1>1, <1>4 DEF Cut
  <1>6. ms \in [1 .. L - 1 -> DOMAIN g]
    <2>1. \A i \in 1 .. L : i # p => ns[i] \in DOMAIN g
      BY <1>1, <1>3
    <2>2. \A i \in 1 .. L - 1 : ms[i] \in DOMAIN g
      BY <1>1, <1>5, <2>1
    <2>3. ms = [i \in 1 .. L - 1 |-> ms[i]]
      BY <1>4, <1>5 DEF Cut
    <2> QED
      BY <2>2, <2>3
  <1>7. /\ r.list = IF L - 1 = 0 THEN NULL ELSE ms[1]
        /\ L - 1 > 0 => g[ms[1]].list_num = L - 1
    <2>1. r.list = IF p = 1 THEN h[ns[1]].next ELSE ns[1]
      BY DEF Removed
    <2>2. r.list # NULL => g[r.list].list_num = L - 1
      BY <1>2 DEF Removed
    <2>3. r.list = IF L - 1 = 0 THEN NULL ELSE ms[1]
      <3>1. CASE L = 1
        BY <1>1, <2>1, <3>1
      <3>2. CASE L # 1
        <4>1. 1 \in 1 .. L /\ 1 \in 1 .. L - 1 /\ L - 1 # 0
          BY <1>1, <3>2
        <4>2. h[ns[1]].next = ns[2]
          BY <1>1, <3>2, <4>1
        <4>3. ms[1] = IF 1 < p THEN ns[1] ELSE ns[2]
          BY <1>5, <4>1
        <4> QED
          BY <2>1, <4>1, <4>2, <4>3
      <3> QED
        BY <3>1, <3>2
    <2>4. L - 1 > 0 => ms[1] # NULL
      <3>1. L - 1 > 0 => 1 \in 1 .. L - 1
        BY <1>1
      <3> QED
        BY <1>1, <1>3, <1>6, <3>1
    <2> QED
      BY <1>1, <2>2, <2>3, <2>4
  <1>8. Links(g, ms, L - 1)
    <2> SUFFICES ASSUME NEW i \in 1 .. L - 1
                 PROVE  /\ g[ms[i]].next = IF i = L - 1 THEN NULL ELSE ms[i + 1]
                        /\ g[ms[i]].prev = IF i = 1 THEN NULL ELSE ms[i - 1]
      BY DEF Links
    <2>1. PICK q \in 1 .. L : q = (IF i < p THEN i ELSE i + 1) /\ ms[i] = ns[q]
                               /\ q # p
      BY <1>1, <1>5
    <2>2. ms[i] \in DOMAIN h \ {ns[p]} /\ NULL \notin DOMAIN h
      BY <1>1, <2>1
    <2>3. (ns[q] = h[ns[p]].prev) <=> (q = p - 1)
      <3>1. CASE p = 1
        BY <1>1, <3>1
      <3>2. CASE p # 1
        <4>1. h[ns[p]].prev = ns[p - 1] /\ p - 1 \in 1 .. L
          BY <1>1, <3>2
        <4> QED
          BY <1>1, <4>1
      <3> QED
        BY <3>1, <3>2
    <2>4. (ns[q] = h[ns[p]].next) <=> (q = p + 1)
      <3>1. CASE p = L
        BY <1>1, <3>1
      <3>2. CASE p # L
        <4>1. h[ns[p]].next = ns[p + 1] /\ p + 1 \in 1 .. L
          BY <1>1, <3>2
        <4> QED
          BY <1>1, <4>1
      <3> QED
        BY <3>1, <3>2
    <2>5. g[ms[i]].next = IF q = p - 1 THEN h[ns[p]].next ELSE h[ns[q]].next
      BY <1>3, <2>1, <2>2, <2>3
    <2>6. g[ms[i]].prev = IF q = p + 1 THEN h[ns[p]].prev ELSE h[ns[q]].prev
      BY <1>3, <2>1, <2>2, <2>4
    <2>7. g[ms[i]].next = IF i = L - 1 THEN NULL ELSE ms[i + 1]
      <3>1. i # L - 1 => ms[i + 1] = IF i + 1 < p THEN ns[i + 1] ELSE ns[i + 2]
        <4>1. i # L - 1 => i + 1 \in 1 .. L - 1 /\ i + 1 + 1 = i + 2
          BY <1>1
        <4> QED
          BY <1>5, <4>1
      <3>2. CASE q = p - 1
        BY <1>1, <2>1, <2>5, <3>1, <3>2
      <3>3. CASE q # p - 1
        BY <1>1, <2>1, <2>5, <3>1, <3>3
      <3> QED
        BY <3>2, <3>3
    <2>8. g[ms[i]].prev = IF i = 1 THEN NULL ELSE ms[i - 1]
      <3>1. i # 1 => ms[i - 1] = IF i - 1 < p THEN ns[i - 1] ELSE ns[i]
        <4>1. i # 1 => i - 1 \in 1 .. L - 1 /\ i - 1 + 1 = i
          BY <1>1
        <4> QED
          BY <1>5, <4>1
      <3>2. CASE q = p + 1
        BY <1>1, <2>1, <2>6, <3>1, <3>2
      <3>3. CASE q # p + 1
        BY <1>1, <2>1, <2>6, <3>1, <3>3
      <3> QED
        BY <3>2, <3>3
    <2> QED
      BY <2>7, <2>8
  <1>9. \A i, j \in 1 .. L - 1 : ms[i] = ms[j] => i = j
    BY <1>1, <1>5
  <1>10. Chain(g, r.list, ms, L - 1)
    BY <1>1, <1>6, <1>7, <1>8, <1>9 DEF Chain
  <1>11. ToSet(ms) = ToSet(ns) \ {ns[p]} /\ ToSet(ns) \subseteq DOMAIN h
    <2>1. DOMAIN ns = 1 .. L /\ DOMAIN ms = 1 .. L - 1
      BY <1>1, <1>5
    <2>2. ToSet(ms) \subseteq ToSet(ns) \ {ns[p]}
      <3>1. ASSUME NEW i \in 1 .. L - 1
            PROVE  \E j \in 1 .. L : ms[i] = ns[j] /\ ns[j] # ns[p]
        BY <1>1, <1>5
      <3> QED
        BY <2>1, <3>1 DEF ToSet
    <2>3. ASSUME NEW j \in 1 .. L, j # p PROVE \E i \in 1 .. L - 1 : ms[i] = ns[j]
      <3>1. CASE j < p
        <4>1. j \in 1 .. L - 1
          BY <1>1, <3>1
        <4> QED
          BY <1>5, <3>1, <4>1
      <3>2. CASE ~ (j < p)
        <4>1. j - 1 \in 1 .. L - 1 /\ ~ (j - 1 < p) /\ j - 1 + 1 = j
          BY <1>1, <2>3, <3>2
        <4> QED
          BY <1>5, <4>1
      <3> QED
        BY <3>1, <3>2
    <2>4. ToSet(ns) \ {ns[p]} \subseteq ToSet(ms)
      BY <2>1, <2>3 DEF ToSet
    <2>5. ToSet(ns) \subseteq DOMAIN h
      BY <1>1, <2>1 DEF ToSet
    <2> QED
      BY <2>2, <2>4, <2>5
  <1>12. \A x \in DOMAIN h \ ToSet(ns) : SameNode(g, h, x)
    <2>1. ns[p] \in ToSet(ns)
      BY <1>1 DEF ToSet
    <2>2. r.list = NULL \/ r.list \in ToSet(ns)
      <3>1. L - 1 # 0 => 1 \in DOMAIN ms
        BY <1>1, <1>5
      <3>2. L - 1 # 0 => ms[1] \in ToSet(ms)
        BY <3>1 DEF ToSet
      <3> QED
        BY <1>7, <1>11, <3>2
    <2>3. /\ h[ns[p]].prev = NULL \/ h[ns[p]].prev \in ToSet(ns)
          /\ h[ns[p]].next = NULL \/ h[ns[p]].next \in ToSet(ns)
      <3>1. h[ns[p]].prev = NULL \/ (h[ns[p]].prev = ns[p - 1] /\ p - 1 \in 1 .. L)
        BY <1>1
      <3>2. h[ns[p]].next = NULL \/ (h[ns[p]].next = ns[p + 1] /\ p + 1 \in 1 .. L)
        BY <1>1
      <3>3. DOMAIN ns = 1 .. L
        BY <1>1
      <3> QED
        BY <3>1, <3>2, <3>3 DEF ToSet
    <2> QED
      BY <1>1, <1>3, <2>1, <2>2, <2>3 DEF SameNode
  <1>13. DOMAIN g = (DOMAIN h \ ToSet(ns)) \cup ToSet(ms)
    <2>1. ns[p] \in ToSet(ns)
      BY <1>1 DEF ToSet
    <2> QED
      BY <1>3, <1>11, <2>1
  <1> QED
    BY <1>2, <1>3, <1>4, <1>10, <1>11, <1>12, <1>13 DEF Update

(* Unlink writes the two members that point to node n.                     *)
Unlinked(V, h, g, n) ==
    /\ Heap(g, V) /\ DOMAIN g = DOMAIN h
    /\ \A x \in DOMAIN h :
           /\ g[x].next = IF x = h[n].prev THEN h[n].next ELSE h[x].next
           /\ g[x].prev = IF x = h[n].next THEN h[n].prev ELSE h[x].prev
           /\ g[x].list_num = h[x].list_num /\ g[x].data = h[x].data

LEMMA UnlinkFacts ==
  ASSUME NEW V, NEW h, Heap(h, V), NEW n, n \in DOMAIN h,
         h[n].next \in DOMAIN h \cup {NULL}, h[n].prev \in DOMAIN h \cup {NULL}
  PROVE  Unlinked(V, h, Unlink(h, n), n)
  <1>1. PICK next, prev : next = h[n].next /\ prev = h[n].prev
    OBVIOUS
  <1>2. /\ next \in Nodes \cup {NULL} /\ prev \in Nodes \cup {NULL}
        /\ next \in DOMAIN h \cup {NULL} /\ prev \in DOMAIN h \cup {NULL}
    BY <1>1 DEF Heap
  <1>3. PICK g : g = SetNext(h, prev, next)
    OBVIOUS
  <1>4. NextSet(V, h, g, prev, next)
    BY <1>2, <1>3, SetNextFacts
  <1>5. Heap(g, V) /\ DOMAIN g = DOMAIN h
    BY <1>4 DEF NextSet
  <1>6. PICK f : f = SetPrev(g, next, prev)
    OBVIOUS
  <1>7. PrevSet(V, g, f, next, prev)
    BY <1>2, <1>5, <1>6, SetPrevFacts
  <1>8. Unlink(h, n) = f
    BY <1>1, <1>3, <1>6 DEF Unlink
  <1> QED
    BY <1>1, <1>4, <1>7, <1>8 DEF Unlinked, NextSet, PrevSet

LEMMA NumberMovedFacts ==
  ASSUME NEW V, NEW h, Heap(h, V), NEW l, l \in DOMAIN h,
         h[l].next \in DOMAIN h \cup {NULL}
  PROVE  NumSet(V, h, NumberMoved(h, l, l), h[l].next, h[l].list_num)
  <1>1. PICK k : k = h[l].list_num /\ k \in Int
    BY DEF Heap, NodeRecords
  <1>2. PICK next : next = h[l].next
    OBVIOUS
  <1>3. NumSet(V, h, SetNum(h, next, k), next, k)
    BY <1>1, <1>2, SetNumFacts
  <1> QED
    BY <1>1, <1>2, <1>3 DEF NumberMoved

LEMMA DecrementedFacts ==
  ASSUME NEW V, NEW h, Heap(h, V), NEW l, l \in DOMAIN h \cup {NULL},
         NEW k \in Int, l # NULL => h[l].list_num = k
  PROVE  NumSet(V, h, Decremented(h, l), l, k - 1)
  <1>1. NULL \notin DOMAIN h
    BY NodeAssumption DEF Heap
  <1>2. CASE l = NULL
    BY <1>1, <1>2 DEF Decremented, NumSet
  <1>3. CASE l # NULL
    <2>1. PICK j \in Int : j = k - 1
      OBVIOUS
    <2>2. NumSet(V, h, SetNum(h, l, j), l, j)
      BY SetNumFacts
    <2> QED
      BY <1>3, <2>1, <2>2 DEF Decremented
  <1> QED
    BY <1>2, <1>3

(* The facts about node n at position p of a chain that a removal needs.   *)
LEMMA NodeAt ==
  ASSUME NEW V, NEW h, Heap(h, V), NEW l, NEW ns, NEW L, Chain(h, l, ns, L),
         NEW p \in 1 .. L
  PROVE  /\ L \in Nat \ {0} /\ ns[p] \in DOMAIN h /\ l \in DOMAIN h
         /\ l = ns[1] /\ ns[p] # NULL /\ l # NULL
         /\ h[ns[p]].next \in DOMAIN h \cup {NULL}
         /\ h[ns[p]].prev \in DOMAIN h \cup {NULL}
         /\ h[ns[p]].next # ns[p] /\ h[ns[p]].prev # ns[p]
         /\ (ns[p] = l) <=> (p = 1)
         /\ (h[ns[p]].prev = NULL) <=> (p = 1)
         /\ h[l].list_num = L /\ h[l].prev = NULL
         /\ h[l].next \in DOMAIN h \cup {NULL} /\ h[l].next # l
  <1>1. /\ L \in Nat /\ ns \in [1 .. L -> DOMAIN h] /\ NULL \notin DOMAIN h
        /\ \A i, j \in 1 .. L : ns[i] = ns[j] => i = j
        /\ l = IF L = 0 THEN NULL ELSE ns[1]
        /\ \A i \in 1 .. L :
               /\ h[ns[i]].next = IF i = L THEN NULL ELSE ns[i + 1]
               /\ h[ns[i]].prev = IF i = 1 THEN NULL ELSE ns[i - 1]
        /\ L > 0 => h[ns[1]].list_num = L
    BY NodeAssumption DEF Chain, Links, Heap
  <1>2. ASSUME NEW q \in 1 .. L
        PROVE  /\ h[ns[q]].next \in DOMAIN h \cup {NULL}
               /\ h[ns[q]].prev \in DOMAIN h \cup {NULL}
               /\ h[ns[q]].next # ns[q] /\ h[ns[q]].prev # ns[q]
               /\ (h[ns[q]].prev = NULL) <=> (q = 1)
    <2>1. /\ h[ns[q]].next = NULL \/ (h[ns[q]].next = ns[q + 1] /\ q + 1 \in 1 .. L)
          /\ q # 1 => h[ns[q]].prev = ns[q - 1] /\ q - 1 \in 1 .. L
          /\ q = 1 => h[ns[q]].prev = NULL
      BY <1>1
    <2> QED
      BY <1>1, <2>1
  <1>3. 1 \in 1 .. L /\ L \in Nat \ {0}
    BY <1>1
  <1>4. l = ns[1] /\ ns[p] \in DOMAIN h /\ ns[1] \in DOMAIN h
    BY <1>1, <1>3
  <1>5. (ns[p] = l) <=> (p = 1)
    BY <1>1, <1>3, <1>4
  <1>6. h[ns[1]].prev = NULL
    BY <1>1, <1>3
  <1> QED
    BY <1>1, <1>2, <1>3, <1>4, <1>5, <1>6

(* z3_list_remove takes out the first node with the data it is given.      *)
LEMMA RemoveFacts ==
  ASSUME NEW V, NEW h, Heap(h, V), NEW l, NEW ns, NEW L, Chain(h, l, ns, L),
         NEW d, NEW p \in 1 .. L, z3_list_find(h, l, d) = ns[p]
  PROVE  Removed(V, h, ns, L, p, z3_list_remove(h, l, d))
  <1>1. PICK n : n = ns[p]
    OBVIOUS
  <1>2. /\ L \in Nat \ {0} /\ n \in DOMAIN h /\ l \in DOMAIN h
        /\ l = ns[1] /\ n # NULL /\ l # NULL
        /\ h[n].next \in DOMAIN h \cup {NULL}
        /\ h[n].prev \in DOMAIN h \cup {NULL}
        /\ h[n].next # n /\ h[n].prev # n
        /\ (n = l) <=> (p = 1)
        /\ h[l].list_num = L /\ h[l].prev = NULL
    BY <1>1, NodeAt
  <1>3. PICK head : head = (IF n = l THEN h[l].next ELSE l)
    OBVIOUS
  <1>4. head \in DOMAIN h \cup {NULL} /\ head # n
    BY <1>2, <1>3
  <1>5. PICK g1 : g1 = Unlink(h, n)
    OBVIOUS
  <1>6. Unlinked(V, h, g1, n)
    BY <1>2, <1>5, UnlinkFacts
  <1>7. /\ Heap(g1, V) /\ DOMAIN g1 = DOMAIN h
        /\ g1[l].list_num = L
        /\ n = l => g1[l].next = h[l].next
    BY <1>2, <1>6 DEF Unlinked
  <1>8. PICK g2 : g2 = NumberMoved(g1, l, n)
    OBVIOUS
  <1>9. /\ n = l => NumSet(V, g1, g2, head, L)
        /\ n # l => g2 = g1
    <2>1. CASE n = l
      <3>1. NumSet(V, g1, NumberMoved(g1, l, l), g1[l].next, g1[l].list_num)
        BY <1>2, <1>7, <2>1, NumberMovedFacts
      <3> QED
        BY <1>3, <1>7, <1>8, <2>1, <3>1
    <2>2. CASE n # l
      BY <1>8, <2>2 DEF NumberMoved
    <2> QED
      BY <2>1, <2>2
  <1>10. /\ Heap(g2, V) /\ DOMAIN g2 = DOMAIN h
         /\ head # NULL => g2[head].list_num = L
    BY <1>3, <1>4, <1>7, <1>9 DEF NumSet
  <1>11. PICK g3 : g3 = z3_list_free_1(g2, n)
    OBVIOUS
  <1>12. Freed(V, g2, g3, n)
    BY <1>10, <1>11, FreeFacts
  <1>13. /\ Heap(g3, V) /\ DOMAIN g3 = DOMAIN h \ {n}
         /\ head # NULL => g3[head].list_num = L
         /\ head \in DOMAIN g3 \cup {NULL}
    BY <1>4, <1>10, <1>12 DEF Freed, SameNode
  <1>14. PICK g : g = Decremented(g3, head)
    OBVIOUS
  <1>15. NumSet(V, g3, g, head, L - 1)
    BY <1>2, <1>13, <1>14, DecrementedFacts
  <1>16. /\ z3_list_remove(h, l, d).heap = g
         /\ z3_list_remove(h, l, d).list = head
    BY <1>1, <1>3, <1>5, <1>8, <1>11, <1>14 DEF z3_list_remove
  <1>17. Heap(g, V) /\ DOMAIN g = DOMAIN h \ {n}
    BY <1>13, <1>15 DEF NumSet
  <1>18. head # NULL => g[head].list_num = L - 1
    BY <1>4, <1>13, <1>15 DEF NumSet
  <1>19. ASSUME NEW x \in DOMAIN h \ {n}
         PROVE  /\ g[x].next = IF x = h[n].prev THEN h[n].next ELSE h[x].next
                /\ g[x].prev = IF x = h[n].next THEN h[n].prev ELSE h[x].prev
                /\ g[x].data = h[x].data
                /\ x # head => g[x].list_num = h[x].list_num
    <2>1. /\ g1[x].next = IF x = h[n].prev THEN h[n].next ELSE h[x].next
          /\ g1[x].prev = IF x = h[n].next THEN h[n].prev ELSE h[x].prev
          /\ g1[x].list_num = h[x].list_num /\ g1[x].data = h[x].data
      BY <1>6 DEF Unlinked
    <2>2. /\ g2[x].next = g1[x].next /\ g2[x].prev = g1[x].prev
          /\ g2[x].data = g1[x].data
          /\ x # head => g2[x].list_num = g1[x].list_num
      BY <1>7, <1>9 DEF NumSet
    <2>3. /\ g3[x].next = g2[x].next /\ g3[x].prev = g2[x].prev
          /\ g3[x].data = g2[x].data /\ g3[x].list_num = g2[x].list_num
      BY <1>10, <1>12 DEF Freed, SameNode
    <2>4. /\ g[x].next = g3[x].next /\ g[x].prev = g3[x].prev
          /\ g[x].data = g3[x].data
          /\ x # head => g[x].list_num = g3[x].list_num
      BY <1>13, <1>15 DEF NumSet
    <2> QED
      BY <2>1, <2>2, <2>3, <2>4
  <1>20. head = IF p = 1 THEN h[ns[1]].next ELSE ns[1]
    BY <1>1, <1>2, <1>3
  <1> QED
    BY <1>1, <1>16, <1>17, <1>18, <1>19, <1>20 DEF Removed

(* z3_list_delete_link takes out the node it is given.                     *)
LEMMA DeleteLinkFacts ==
  ASSUME NEW V, NEW h, Heap(h, V), NEW l, NEW ns, NEW L, Chain(h, l, ns, L),
         NEW p \in 1 .. L
  PROVE  Removed(V, h, ns, L, p, z3_list_delete_link(h, l, ns[p]))
  <1>1. PICK n : n = ns[p]
    OBVIOUS
  <1>2. /\ L \in Nat \ {0} /\ n \in DOMAIN h /\ l \in DOMAIN h
        /\ l = ns[1] /\ n # NULL /\ l # NULL
        /\ h[n].next \in DOMAIN h \cup {NULL}
        /\ h[n].prev \in DOMAIN h \cup {NULL}
        /\ h[n].next # n /\ h[n].prev # n
        /\ (n = l) <=> (p = 1)
        /\ h[l].list_num = L /\ h[l].prev = NULL
    BY <1>1, NodeAt
  <1>3. PICK head : head = (IF n = l THEN h[l].next ELSE l)
    OBVIOUS
  <1>4. head \in DOMAIN h \cup {NULL} /\ head # n
    BY <1>2, <1>3
  <1>5. PICK g1 : g1 = Unlink(h, n)
    OBVIOUS
  <1>6. Unlinked(V, h, g1, n)
    BY <1>2, <1>5, UnlinkFacts
  <1>7. /\ Heap(g1, V) /\ DOMAIN g1 = DOMAIN h
        /\ g1[l].list_num = L
        /\ n = l => g1[l].next = h[l].next
    BY <1>2, <1>6 DEF Unlinked
  <1>8. PICK g2 : g2 = NumberMoved(g1, l, n)
    OBVIOUS
  <1>9. /\ n = l => NumSet(V, g1, g2, head, L)
        /\ n # l => g2 = g1
    <2>1. CASE n = l
      <3>1. NumSet(V, g1, NumberMoved(g1, l, l), g1[l].next, g1[l].list_num)
        BY <1>2, <1>7, <2>1, NumberMovedFacts
      <3> QED
        BY <1>3, <1>7, <1>8, <2>1, <3>1
    <2>2. CASE n # l
      BY <1>8, <2>2 DEF NumberMoved
    <2> QED
      BY <2>1, <2>2
  <1>10. /\ Heap(g2, V) /\ DOMAIN g2 = DOMAIN h
         /\ head # NULL => g2[head].list_num = L
    BY <1>3, <1>4, <1>7, <1>9 DEF NumSet
  <1>11. PICK g3 : g3 = Decremented(g2, head)
    OBVIOUS
  <1>12. NumSet(V, g2, g3, head, L - 1)
    BY <1>2, <1>4, <1>10, <1>11, DecrementedFacts
  <1>13. Heap(g3, V) /\ DOMAIN g3 = DOMAIN h
    BY <1>10, <1>12 DEF NumSet
  <1>14. PICK g4 : g4 = SetNext(g3, n, NULL)
    OBVIOUS
  <1>15. NextSet(V, g3, g4, n, NULL)
    BY <1>2, <1>13, <1>14, SetNextFacts
  <1>16. Heap(g4, V) /\ DOMAIN g4 = DOMAIN h
    BY <1>13, <1>15 DEF NextSet
  <1>17. PICK g5 : g5 = SetPrev(g4, n, NULL)
    OBVIOUS
  <1>18. PrevSet(V, g4, g5, n, NULL)
    BY <1>2, <1>16, <1>17, SetPrevFacts
  <1>19. Heap(g5, V) /\ DOMAIN g5 = DOMAIN h
    BY <1>16, <1>18 DEF PrevSet
  <1>20. PICK g : g = z3_list_free_1(g5, n)
    OBVIOUS
  <1>21. Freed(V, g5, g, n)
    BY <1>19, <1>20, FreeFacts
  <1>22. /\ z3_list_delete_link(h, l, n).heap = g
         /\ z3_list_delete_link(h, l, n).list = head
    BY <1>3, <1>5, <1>8, <1>11, <1>14, <1>17, <1>20
       DEF z3_list_delete_link, z3_list_remove_link
  <1>23. Heap(g, V) /\ DOMAIN g = DOMAIN h \ {n}
    BY <1>19, <1>21 DEF Freed
  <1>24. ASSUME NEW x \in DOMAIN h \ {n}
         PROVE  /\ g[x].next = IF x = h[n].prev THEN h[n].next ELSE h[x].next
                /\ g[x].prev = IF x = h[n].next THEN h[n].prev ELSE h[x].prev
                /\ g[x].data = h[x].data
                /\ g[x].list_num = IF x = head THEN L - 1 ELSE h[x].list_num
    <2>1. /\ g1[x].next = IF x = h[n].prev THEN h[n].next ELSE h[x].next
          /\ g1[x].prev = IF x = h[n].next THEN h[n].prev ELSE h[x].prev
          /\ g1[x].list_num = h[x].list_num /\ g1[x].data = h[x].data
      BY <1>6 DEF Unlinked
    <2>2. /\ g2[x].next = g1[x].next /\ g2[x].prev = g1[x].prev
          /\ g2[x].data = g1[x].data
          /\ x # head => g2[x].list_num = g1[x].list_num
      BY <1>7, <1>9 DEF NumSet
    <2>3. /\ g3[x].next = g2[x].next /\ g3[x].prev = g2[x].prev
          /\ g3[x].data = g2[x].data
          /\ g3[x].list_num = IF x = head THEN L - 1 ELSE g2[x].list_num
      BY <1>10, <1>12 DEF NumSet
    <2>4. /\ g4[x].next = g3[x].next /\ g4[x].prev = g3[x].prev
          /\ g4[x].data = g3[x].data /\ g4[x].list_num = g3[x].list_num
      BY <1>13, <1>15 DEF NextSet
    <2>5. /\ g5[x].next = g4[x].next /\ g5[x].prev = g4[x].prev
          /\ g5[x].data = g4[x].data /\ g5[x].list_num = g4[x].list_num
      BY <1>16, <1>18 DEF PrevSet
    <2>6. /\ g[x].next = g5[x].next /\ g[x].prev = g5[x].prev
          /\ g[x].data = g5[x].data /\ g[x].list_num = g5[x].list_num
      BY <1>19, <1>21 DEF Freed, SameNode
    <2> QED
      BY <2>1, <2>2, <2>3, <2>4, <2>5, <2>6
  <1>25. head = IF p = 1 THEN h[ns[1]].next ELSE ns[1]
    BY <1>1, <1>2, <1>3
  <1>26. head # NULL => g[head].list_num = L - 1
    BY <1>4, <1>24
  <1> QED
    BY <1>1, <1>22, <1>23, <1>24, <1>25, <1>26 DEF Removed

(* A round of z3_list_remove_all takes out its node if it has the data.    *)
LEMMA RemoveRoundFacts ==
  ASSUME NEW V, NEW r, Heap(r.heap, V), NEW ns, NEW L,
         Chain(r.heap, r.list, ns, L), NEW p \in 1 .. L, NEW d
  PROVE  r.heap[ns[p]].data = d =>
             Removed(V, r.heap, ns, L, p, RemoveRound(r, ns[p], d))
  <1>1. PICK n, h, l : n = ns[p] /\ h = r.heap /\ l = r.list
    OBVIOUS
  <1>2. /\ L \in Nat \ {0} /\ n \in DOMAIN h /\ l \in DOMAIN h
        /\ l = ns[1] /\ n # NULL /\ l # NULL
        /\ h[n].next \in DOMAIN h \cup {NULL}
        /\ h[n].prev \in DOMAIN h \cup {NULL}
        /\ h[n].next # n /\ h[n].prev # n
        /\ (n = l) <=> (p = 1)
        /\ (h[n].prev = NULL) <=> (p = 1)
        /\ h[l].list_num = L /\ h[l].prev = NULL
    BY <1>1, NodeAt
  <1> SUFFICES ASSUME h[n].data = d
               PROVE  Removed(V, h, ns, L, p, RemoveRound(r, n, d))
    BY <1>1
  <1>4. PICK head : head = (IF h[n].prev = NULL THEN h[n].next ELSE l)
    OBVIOUS
  <1>5. /\ head \in DOMAIN h \cup {NULL} /\ head # n
        /\ head = IF p = 1 THEN h[n].next ELSE l
    BY <1>2, <1>4
  <1>6. PICK g1 : g1 = IF h[n].prev = NULL THEN NumberMoved(h, l, n) ELSE h
    OBVIOUS
  <1>7. /\ p = 1 => NumSet(V, h, g1, head, L)
        /\ p # 1 => g1 = h
    <2>1. CASE p = 1
      <3>1. NumSet(V, h, NumberMoved(h, l, l), h[l].next, h[l].list_num)
        BY <1>1, <1>2, <2>1, NumberMovedFacts
      <3> QED
        BY <1>2, <1>5, <1>6, <2>1, <3>1
    <2> QED
      BY <1>2, <1>6, <2>1
  <1>8. /\ Heap(g1, V) /\ DOMAIN g1 = DOMAIN h
        /\ head # NULL => g1[head].list_num = L
    BY <1>1, <1>2, <1>5, <1>7 DEF NumSet
  <1>9. PICK g2 : g2 = Decremented(g1, head)
    OBVIOUS
  <1>10. NumSet(V, g1, g2, head, L - 1)
    BY <1>2, <1>5, <1>8, <1>9, DecrementedFacts
  <1>11. Heap(g2, V) /\ DOMAIN g2 = DOMAIN h
    BY <1>8, <1>10 DEF NumSet
  <1>12. ASSUME NEW x \in DOMAIN h
         PROVE  /\ g2[x].next = h[x].next /\ g2[x].prev = h[x].prev
                /\ g2[x].data = h[x].data
                /\ g2[x].list_num = IF x = head THEN L - 1 ELSE h[x].list_num
    <2>1. /\ g1[x].next = h[x].next /\ g1[x].prev = h[x].prev
          /\ g1[x].data = h[x].data
          /\ x # head => g1[x].list_num = h[x].list_num
      BY <1>7 DEF NumSet
    <2>2. /\ g2[x].next = g1[x].next /\ g2[x].prev = g1[x].prev
          /\ g2[x].data = g1[x].data
          /\ g2[x].list_num = IF x = head THEN L - 1 ELSE g1[x].list_num
      BY <1>8, <1>10 DEF NumSet
    <2> QED
      BY <2>1, <2>2
  <1>13. PICK g3 : g3 = Unlink(g2, n)
    OBVIOUS
  <1>14. Unlinked(V, g2, g3, n)
    BY <1>2, <1>11, <1>12, <1>13, UnlinkFacts
  <1>15. Heap(g3, V) /\ DOMAIN g3 = DOMAIN h
    BY <1>11, <1>14 DEF Unlinked
  <1>16. PICK g : g = z3_list_free_1(g3, n)
    OBVIOUS
  <1>17. Freed(V, g3, g, n)
    BY <1>15, <1>16, FreeFacts
  <1>18. Heap(g, V) /\ DOMAIN g = DOMAIN h \ {n}
    BY <1>15, <1>17 DEF Freed
  <1>19. /\ RemoveRound(r, n, d).heap = g
         /\ RemoveRound(r, n, d).list = head
    BY <1>1, <1>4, <1>6, <1>9, <1>13, <1>16 DEF RemoveRound
  <1>20. ASSUME NEW x \in DOMAIN h \ {n}
         PROVE  /\ g[x].next = IF x = h[n].prev THEN h[n].next ELSE h[x].next
                /\ g[x].prev = IF x = h[n].next THEN h[n].prev ELSE h[x].prev
                /\ g[x].data = h[x].data
                /\ g[x].list_num = IF x = head THEN L - 1 ELSE h[x].list_num
    <2>1. /\ g3[x].next = IF x = g2[n].prev THEN g2[n].next ELSE g2[x].next
          /\ g3[x].prev = IF x = g2[n].next THEN g2[n].prev ELSE g2[x].prev
          /\ g3[x].list_num = g2[x].list_num /\ g3[x].data = g2[x].data
      BY <1>11, <1>14 DEF Unlinked
    <2>2. /\ g[x].next = g3[x].next /\ g[x].prev = g3[x].prev
          /\ g[x].data = g3[x].data /\ g[x].list_num = g3[x].list_num
      BY <1>15, <1>17 DEF Freed, SameNode
    <2> QED
      BY <1>2, <1>12, <2>1, <2>2
  <1>21. head # NULL => g[head].list_num = L - 1
    BY <1>5, <1>20
  <1> QED
    BY <1>1, <1>2, <1>5, <1>18, <1>19, <1>20, <1>21 DEF Removed

(* The chains ns and ms became one, with their nodes and data in order.    *)
Concatenated(V, h, ns, L, ms, M, r) ==
    /\ Update(V, h, ToSet(ns) \cup ToSet(ms), r, Joined(ns, L, ms, M), L + M)
    /\ \A x \in DOMAIN h : r.heap[x].data = h[x].data

-------------------------------------------------------------------------------
(* z3_list_concat hangs one chain behind another.                          *)
LEMMA ConcatFacts ==
  ASSUME NEW V, NEW h, Heap(h, V), NEW l, NEW ns, NEW L, Chain(h, l, ns, L),
         NEW k, NEW ms, NEW M, Chain(h, k, ms, M),
         ToSet(ns) \cap ToSet(ms) = {}
  PROVE  Concatenated(V, h, ns, L, ms, M, z3_list_concat(h, l, k))
  <1>1. /\ L \in Nat /\ ns \in [1 .. L -> DOMAIN h] /\ NULL \notin DOMAIN h
        /\ DOMAIN h \subseteq Nodes
        /\ \A i, j \in 1 .. L : ns[i] = ns[j] => i = j
        /\ l = IF L = 0 THEN NULL ELSE ns[1]
        /\ \A i \in 1 .. L :
               /\ h[ns[i]].next = IF i = L THEN NULL ELSE ns[i + 1]
               /\ h[ns[i]].prev = IF i = 1 THEN NULL ELSE ns[i - 1]
        /\ L > 0 => h[ns[1]].list_num = L
    BY NodeAssumption DEF Chain, Links, Heap
  <1>2. /\ M \in Nat /\ ms \in [1 .. M -> DOMAIN h]
        /\ \A i, j \in 1 .. M : ms[i] = ms[j] => i = j
        /\ k = IF M = 0 THEN NULL ELSE ms[1]
        /\ \A i \in 1 .. M :
               /\ h[ms[i]].next = IF i = M THEN NULL ELSE ms[i + 1]
               /\ h[ms[i]].prev = IF i = 1 THEN NULL ELSE ms[i - 1]
        /\ M > 0 => h[ms[1]].list_num = M
    BY DEF Chain, Links
  <1>3. \A i \in 1 .. L : \A j \in 1 .. M : ns[i] # ms[j]
    <2>1. \A i \in 1 .. L : ns[i] \in ToSet(ns)
      BY <1>1 DEF ToSet
    <2>2. \A j \in 1 .. M : ms[j] \in ToSet(ms)
      BY <1>2 DEF ToSet
    <2> QED
      BY <2>1, <2>2
  <1>4. PICK r : r = z3_list_concat(h, l, k)
    OBVIOUS
  <1>5. PICK last : last = z3_list_last(h, l)
    OBVIOUS
  <1>6. last = IF L = 0 THEN NULL ELSE ns[L]
    BY <1>5, ChainReads
  <1>7. /\ l \in DOMAIN h \cup {NULL} /\ k \in DOMAIN h \cup {NULL}
        /\ last \in DOMAIN h \cup {NULL}
        /\ (l = NULL) <=> (L = 0)
        /\ (last = NULL) <=> (L = 0)
        /\ (k = NULL) <=> (M = 0)
    BY <1>1, <1>2, <1>6
  <1>8. PICK g : g = r.heap
    OBVIOUS
  <1>9. /\ Heap(g, V) /\ DOMAIN g = DOMAIN h
        /\ r.list = IF L = 0 THEN k ELSE l
        /\ M = 0 => g = h
        /\ M > 0 =>
               \A x \in DOMAIN h :
                   /\ g[x].next = IF x = last THEN k ELSE h[x].next
                   /\ g[x].prev = IF x = k THEN last ELSE h[x].prev
                   /\ x # l /\ x # k => g[x].list_num = h[x].list_num
                   /\ L > 0 /\ x = l => g[x].list_num = L + M
                   /\ L = 0 => g[x].list_num = h[x].list_num
                   /\ g[x].data = h[x].data
    <2>1. CASE M = 0
      <3>1. r.heap = h /\ r.list = l
        BY <1>4, <1>7, <2>1 DEF z3_list_concat
      <3> QED
        BY <1>2, <1>7, <1>8, <2>1, <3>1
    <2>2. CASE M > 0 /\ L = 0
      <3>1. g = SetPrev(h, k, last) /\ r.list = k /\ last = NULL
        BY <1>4, <1>5, <1>7, <1>8, <2>2 DEF z3_list_concat
      <3>2. PrevSet(V, h, g, k, last)
        BY <1>1, <1>7, <3>1, SetPrevFacts
      <3> QED
        BY <1>1, <2>2, <3>1, <3>2 DEF PrevSet
    <2>3. CASE M > 0 /\ L > 0
      <3>1. /\ l # NULL /\ k # NULL /\ last # NULL
            /\ k # l /\ k \in Nodes \cup {NULL} /\ last \in Nodes \cup {NULL}
            /\ h[l].list_num + h[k].list_num = L + M
        BY <1>1, <1>2, <1>3, <1>6, <1>7, <2>3
      <3>2. PICK g1 : g1 = SetNext(h, last, k)
        OBVIOUS
      <3>3. NextSet(V, h, g1, last, k)
        BY <1>7, <3>1, <3>2, SetNextFacts
      <3>4. Heap(g1, V) /\ DOMAIN g1 = DOMAIN h
        BY <3>3 DEF NextSet
      <3>5. PICK g2 : g2 = SetNum(g1, l, L + M)
        OBVIOUS
      <3>6. NumSet(V, g1, g2, l, L + M)
        <4>1. L + M \in Int
          BY <1>1, <1>2
        <4> QED
          BY <1>7, <3>4, <3>5, <4>1, SetNumFacts
      <3>7. Heap(g2, V) /\ DOMAIN g2 = DOMAIN h
        BY <3>4, <3>6 DEF NumSet
      <3>8. PICK g3 : g3 = SetNum(g2, k, 0)
        OBVIOUS
      <3>9. NumSet(V, g2, g3, k, 0)
        BY <1>7, <3>7, <3>8, SetNumFacts
      <3>10. Heap(g3, V) /\ DOMAIN g3 = DOMAIN h
        BY <3>7, <3>9 DEF NumSet
      <3>11. g = SetPrev(g3, k, last) /\ r.list = l
        BY <1>4, <1>5, <1>8, <3>1, <3>2, <3>5, <3>8 DEF z3_list_concat
      <3>12. PrevSet(V, g3, g, k, last)
        BY <1>7, <3>1, <3>10, <3>11, SetPrevFacts
      <3>13. Heap(g, V) /\ DOMAIN g = DOMAIN h
        BY <3>10, <3>12 DEF PrevSet
      <3>14. ASSUME NEW x \in DOMAIN h
             PROVE  /\ g[x].next = IF x = last THEN k ELSE h[x].next
                    /\ g[x].prev = IF x = k THEN last ELSE h[x].prev
                    /\ x # l /\ x # k => g[x].list_num = h[x].list_num
                    /\ x = l => g[x].list_num = L + M
                    /\ g[x].data = h[x].data
        <4>1. /\ g1[x].next = IF x = last THEN k ELSE h[x].next
              /\ g1[x].prev = h[x].prev
              /\ g1[x].list_num = h[x].list_num /\ g1[x].data = h[x].data
          BY <3>3 DEF NextSet
        <4>2. /\ g2[x].next = g1[x].next /\ g2[x].prev = g1[x].prev
              /\ g2[x].list_num = IF x = l THEN L + M ELSE g1[x].list_num
              /\ g2[x].data = g1[x].data
          BY <3>4, <3>6 DEF NumSet
        <4>3. /\ g3[x].next = g2[x].next /\ g3[x].prev = g2[x].prev
              /\ g3[x].list_num = IF x = k THEN 0 ELSE g2[x].list_num
              /\ g3[x].data = g2[x].data
          BY <3>7, <3>9 DEF NumSet
        <4>4. /\ g[x].next = g3[x].next
              /\ g[x].prev = IF x = k THEN last ELSE g3[x].prev
              /\ g[x].list_num = g3[x].list_num /\ g[x].data = g3[x].data
          BY <3>10, <3>12 DEF PrevSet
        <4> QED
          BY <3>1, <4>1, <4>2, <4>3, <4>4
      <3> QED
        BY <2>3, <3>11, <3>13, <3>14
    <2> QED
      BY <1>1, <1>2, <2>1, <2>2, <2>3
  <1>10. \A x \in DOMAIN h : g[x].data = h[x].data
    BY <1>2, <1>9
  <1>11. PICK js : js = Joined(ns, L, ms, M)
    OBVIOUS
  <1>12. /\ DOMAIN js = 1 .. L + M
         /\ \A i \in 1 .. L : js[i] = ns[i] /\ i \in 1 .. L + M
         /\ \A i \in 1 .. M : js[L + i] = ms[i] /\ L + i \in 1 .. L + M
         /\ \A i \in 1 .. L + M : i \in 1 .. L \/ i - L \in 1 .. M
    <2>1. \A i \in 1 .. M : L + i \in 1 .. L + M /\ ~ (L + i <= L) /\ L + i - L = i
      BY <1>1, <1>2
    <2>2. \A i \in 1 .. L : i \in 1 .. L + M /\ i <= L
      BY <1>1, <1>2
    <2>3. \A i \in 1 .. L + M : i \in 1 .. L \/ i - L \in 1 .. M
      BY <1>1, <1>2
    <2>4. js = [i \in 1 .. L + M |-> IF i <= L THEN ns[i] ELSE ms[i - L]]
      BY <1>11 DEF Joined
    <2>5. ASSUME NEW i \in 1 .. M PROVE js[L + i] = ms[i]
      <3>1. PICK q \in 1 .. L + M : q = L + i
        BY <2>1
      <3>2. ~ (q <= L) /\ q - L = i
        BY <1>1, <1>2, <3>1
      <3>3. js[q] = ms[q - L]
        BY <2>4, <3>2
      <3> QED
        BY <3>1, <3>2, <3>3
    <2>6. ASSUME NEW i \in 1 .. L PROVE js[i] = ns[i]
      BY <2>2, <2>4
    <2> QED
      BY <2>1, <2>2, <2>3, <2>4, <2>5, <2>6
  <1>13. ASSUME NEW i \in 1 .. L + M
         PROVE  \/ i \in 1 .. L /\ js[i] = ns[i]
                \/ \E j \in 1 .. M : i = L + j /\ js[i] = ms[j]
    <2>1. CASE i \in 1 .. L
      BY <1>12, <2>1
    <2>2. CASE i - L \in 1 .. M
      <3>1. PICK j \in 1 .. M : j = i - L
        BY <2>2
      <3>2. i = L + j
        BY <1>1, <3>1
      <3> QED
        BY <1>12, <3>2
    <2> QED
      BY <1>12, <2>1, <2>2
  <1>14. js \in [1 .. L + M -> DOMAIN h]
    <2>1. \A i \in 1 .. L + M : js[i] \in DOMAIN h
      BY <1>1, <1>2, <1>13
    <2>2. js = [i \in 1 .. L + M |-> js[i]]
      BY <1>11, <1>12 DEF Joined
    <2> QED
      BY <2>1, <2>2
  <1>15. \A i, j \in 1 .. L + M : js[i] = js[j] => i = j
    BY <1>1, <1>2, <1>3, <1>13
  <1>16. r.list = IF L + M = 0 THEN NULL ELSE js[1]
    <2>1. CASE L = 0
      <3>1. M # 0 => 1 \in 1 .. M /\ L + 1 = 1
        BY <1>2, <2>1
      <3> QED
        BY <1>2, <1>9, <1>12, <2>1, <3>1
    <2>2. CASE L # 0
      <3>1. 1 \in 1 .. L /\ L + M # 0
        BY <1>1, <1>2, <2>2
      <3> QED
        BY <1>1, <1>9, <1>12, <2>2, <3>1
    <2> QED
      BY <2>1, <2>2
  <1>17. L + M > 0 => g[js[1]].list_num = L + M
    <2>1. CASE M = 0
      <3>1. L + M > 0 => 1 \in 1 .. L
        BY <1>1, <2>1
      <3> QED
        BY <1>1, <1>9, <1>12, <2>1, <3>1
    <2>2. CASE M # 0 /\ L = 0
      <3>1. 1 \in 1 .. M /\ L + 1 = 1
        BY <1>2, <2>2
      <3> QED
        BY <1>2, <1>9, <1>12, <2>2, <3>1
    <2>3. CASE M # 0 /\ L # 0
      <3>1. 1 \in 1 .. L /\ L > 0 /\ M > 0
        BY <1>1, <1>2, <2>3
      <3> QED
        BY <1>1, <1>9, <1>12, <3>1
    <2> QED
      BY <2>1, <2>2, <2>3
  <1>18. Links(g, js, L + M)
    <2> SUFFICES ASSUME NEW i \in 1 .. L + M
                 PROVE  /\ g[js[i]].next = IF i = L + M THEN NULL ELSE js[i + 1]
                        /\ g[js[i]].prev = IF i = 1 THEN NULL ELSE js[i - 1]
      BY DEF Links
    <2>1. CASE i \in 1 .. L
      <3>1. js[i] = ns[i] /\ ns[i] \in DOMAIN h
        BY <1>1, <1>12, <2>1
      <3>2. M > 0 => (ns[i] = last <=> i = L) /\ ns[i] # k
        <4>1. L \in 1 .. L
          BY <1>1, <2>1
        <4>2. M > 0 => k = ms[1] /\ 1 \in 1 .. M
          BY <1>2
        <4> QED
          BY <1>1, <1>3, <1>6, <2>1, <4>1, <4>2
      <3>3. g[js[i]].next = IF i < L THEN ns[i + 1] ELSE k
        BY <1>1, <1>2, <1>9, <2>1, <3>1, <3>2
      <3>4. g[js[i]].prev = IF i = 1 THEN NULL ELSE ns[i - 1]
        BY <1>1, <1>2, <1>9, <2>1, <3>1, <3>2
      <3>5. i < L => js[i + 1] = ns[i + 1] /\ i # L + M
        BY <1>1, <1>2, <1>12, <2>1
      <3>6. i = L /\ M # 0 => js[i + 1] = k /\ i # L + M
        <4>1. M # 0 => 1 \in 1 .. M /\ k = ms[1]
          BY <1>2
        <4> QED
          BY <1>1, <1>2, <1>12, <4>1
      <3>7. i # 1 => js[i - 1] = ns[i - 1]
        BY <1>1, <1>12, <2>1
      <3>8. i < L \/ (i = L /\ M # 0) \/ (i = L /\ M = 0 /\ i = L + M /\ k = NULL)
        BY <1>1, <1>2, <2>1
      <3> QED
        BY <3>3, <3>4, <3>5, <3>6, <3>7, <3>8
    <2>2. CASE i \notin 1 .. L
      <3>1. PICK j \in 1 .. M : i = L + j /\ js[i] = ms[j]
        BY <1>13, <2>2
      <3>2. ms[j] \in DOMAIN h /\ M > 0 /\ (ms[j] = k <=> j = 1)
        BY <1>2
      <3>3. ms[j] # last
        <4>1. L # 0 => L \in 1 .. L
          BY <1>1
        <4> QED
          BY <1>1, <1>3, <1>6, <3>2, <4>1
      <3>4. g[js[i]].next = IF j = M THEN NULL ELSE ms[j + 1]
        BY <1>2, <1>9, <3>1, <3>2, <3>3
      <3>5. g[js[i]].prev = IF j = 1 THEN last ELSE ms[j - 1]
        BY <1>2, <1>9, <3>1, <3>2
      <3>6. j # M => js[i + 1] = ms[j + 1]
        <4>1. j # M => j + 1 \in 1 .. M /\ L + (j + 1) = i + 1
          BY <1>1, <1>2, <3>1
        <4> QED
          BY <1>12, <4>1
      <3>7. j # 1 => js[i - 1] = ms[j - 1] /\ i # 1
        <4>1. j # 1 => j - 1 \in 1 .. M /\ L + (j - 1) = i - 1 /\ i # 1
          BY <1>1, <1>2, <3>1
        <4> QED
          BY <1>12, <4>1
      <3>8. j = 1 /\ L # 0 => js[i - 1] = last /\ i # 1
        <4>1. j = 1 /\ L # 0 => i - 1 = L /\ L \in 1 .. L /\ i # 1
          BY <1>1, <3>1
        <4> QED
          BY <1>6, <1>12, <4>1
      <3>9. (j = M <=> i = L + M) /\ (j = 1 /\ L = 0 => i = 1 /\ last = NULL)
        BY <1>1, <1>2, <1>6, <3>1
      <3> QED
        BY <3>4, <3>5, <3>6, <3>7, <3>8, <3>9
    <2> QED
      BY <2>1, <2>2
  <1>19. Chain(g, r.list, js, L + M)
    <2>1. L + M \in Nat
      BY <1>1, <1>2
    <2> QED
      BY <1>9, <1>14, <1>15, <1>16, <1>17, <1>18, <2>1 DEF Chain
  <1>20. ToSet(js) = ToSet(ns) \cup ToSet(ms) /\ ToSet(js) \subseteq DOMAIN h
    <2>1. DOMAIN ns = 1 .. L /\ DOMAIN ms = 1 .. M /\ DOMAIN js = 1 .. L + M
      BY <1>1, <1>2, <1>12
    <2>2. ToSet(js) \subseteq ToSet(ns) \cup ToSet(ms)
      BY <1>13, <2>1 DEF ToSet
    <2>3. ToSet(ns) \subseteq ToSet(js)
      BY <1>12, <2>1 DEF ToSet
    <2>4. ToSet(ms) \subseteq ToSet(js)
      BY <1>12, <2>1 DEF ToSet
    <2>5. ToSet(js) \subseteq DOMAIN h
      BY <1>14, <2>1 DEF ToSet
    <2> QED
      BY <2>2, <2>3, <2>4, <2>5
  <1>21. \A x \in DOMAIN h \ ToSet(js) : SameNode(g, h, x)
    <2>1. /\ L # 0 => l \in ToSet(ns) /\ last \in ToSet(ns)
          /\ M # 0 => k \in ToSet(ms)
      <3>1. DOMAIN ns = 1 .. L /\ DOMAIN ms = 1 .. M
        BY <1>1, <1>2
      <3>2. (L # 0 => 1 \in 1 .. L /\ L \in 1 .. L) /\ (M # 0 => 1 \in 1 .. M)
        BY <1>1, <1>2
      <3> QED
        BY <1>1, <1>2, <1>6, <3>1, <3>2 DEF ToSet
    <2> QED
      BY <1>1, <1>2, <1>7, <1>9, <1>20, <2>1 DEF SameNode
  <1>22. Update(V, h, ToSet(ns) \cup ToSet(ms), r, js, L + M)
    BY <1>8, <1>9, <1>19, <1>20, <1>21 DEF Update
  <1> QED
    BY <1>4, <1>8, <1>10, <1>11, <1>22 DEF Concatenated

(* z3_list_free frees every node of the chain.                             *)
LEMMA FreeListFacts ==
  ASSUME NEW V, NEW h, Heap(h, V), NEW l, NEW ns, NEW L, Chain(h, l, ns, L)
  PROVE  Update(V, h, ToSet(ns), [heap |-> z3_list_free(h, l), list |-> NULL],
                << >>, 0)
  <1>1. PICK g : g = z3_list_free(h, l)
    OBVIOUS
  <1>2. g = [x \in DOMAIN h \ ToSet(ns) |-> h[x]]
    BY <1>1, ChainNodes DEF z3_list_free, Restrict
  <1>3. Heap(g, V) /\ \A x \in DOMAIN h \ ToSet(ns) : SameNode(g, h, x)
    BY <1>2 DEF Heap, SameNode
  <1>4. Chain(g, NULL, << >>, 0) /\ ToSet(<< >>) = {}
    BY DEF Chain, Links, ToSet
  <1> QED
    BY <1>1, <1>2, <1>3, <1>4 DEF Update

-------------------------------------------------------------------------------
(* The loop of z3_list_remove_all, after each of its rounds.               *)
PassOf(f, h, l, ns, d, m) ==
    f = [k \in 0 .. m |-> IF k = 0 THEN [heap |-> h, list |-> l]
                          ELSE RemoveRound(f[k - 1], ns[k], d)]

LEMMA PassExists ==
  ASSUME NEW h, NEW l, NEW ns, NEW d, NEW n \in Nat
  PROVE  \E f : PassOf(f, h, l, ns, d, n)
  <1> DEFINE S == {m \in Nat : ~ \E f : PassOf(f, h, l, ns, d, m)}
  <1> SUFFICES ASSUME S # {} PROVE FALSE
    OBVIOUS
  <1>1. S \in SUBSET Nat
    OBVIOUS
  <1>2. PICK x \in S : \A y \in S : x <= y
    <2> HIDE DEF S
    <2> QED
      BY <1>1, LeastExists
  <1>3. x \in Nat /\ ~ \E f : PassOf(f, h, l, ns, d, x)
    OBVIOUS
  <1>4. CASE x = 0
    <2>1. PICK f : f = [k \in 0 .. 0 |-> [heap |-> h, list |-> l]]
      OBVIOUS
    <2>2. \A k \in 0 .. 0 : k = 0
      OBVIOUS
    <2>3. PassOf(f, h, l, ns, d, 0)
      BY <2>1, <2>2 DEF PassOf
    <2> QED
      BY <1>3, <1>4, <2>3
  <1>5. CASE x # 0
    <2>1. x - 1 \in Nat /\ x - 1 \notin S
      BY <1>2, <1>3, <1>5
    <2>2. PICK f : PassOf(f, h, l, ns, d, x - 1)
      BY <2>1
    <2>3. PICK g : g = [k \in 0 .. x |-> IF k = x THEN RemoveRound(f[x - 1], ns[x], d)
                                         ELSE f[k]]
      OBVIOUS
    <2>4. ASSUME NEW k \in 0 .. x
          PROVE  g[k] = IF k = 0 THEN [heap |-> h, list |-> l]
                        ELSE RemoveRound(g[k - 1], ns[k], d)
      <3>1. k # 0 => k - 1 \in 0 .. x /\ k - 1 # x
        BY <1>3
      <3>2. k # 0 => g[k - 1] = f[k - 1]
        BY <2>3, <3>1
      <3>3. CASE k = x
        BY <1>5, <2>3, <3>2, <3>3
      <3>4. CASE k # x
        <4>1. k \in 0 .. x - 1
          BY <1>3, <3>4
        <4>2. f[k] = IF k = 0 THEN [heap |-> h, list |-> l]
                     ELSE RemoveRound(f[k - 1], ns[k], d)
          BY <2>2, <4>1 DEF PassOf
        <4> QED
          BY <2>3, <3>2, <3>4, <4>2
      <3> QED
        BY <3>3, <3>4
    <2>5. PassOf(g, h, l, ns, d, x)
      BY <2>3, <2>4 DEF PassOf
    <2> QED
      BY <1>3, <2>5
  <1> QED
    BY <1>4, <1>5

LEMMA RemoveAllPass ==
  ASSUME NEW V, NEW h, Heap(h, V), NEW l, NEW ns, NEW L, Chain(h, l, ns, L),
         NEW d
  PROVE  \E f : PassOf(f, h, l, ns, d, L) /\ z3_list_remove_all(h, l, d) = f[L]
  <1>1. NodesOf(h, l) = ns /\ Len(NodesOf(h, l)) = L /\ L \in Nat
    BY ChainNodes, ChainSize
  <1> DEFINE pass[k \in 0 .. Len(NodesOf(h, l))] ==
                 IF k = 0 THEN [heap |-> h, list |-> l]
                 ELSE RemoveRound(pass[k - 1], NodesOf(h, l)[k], d)
  <1>2. z3_list_remove_all(h, l, d) = pass[Len(NodesOf(h, l))]
    BY DEF z3_list_remove_all
  <1>3. PICK f : PassOf(f, h, l, ns, d, L)
    BY <1>1, PassExists
  <1>4. f = [k \in 0 .. Len(NodesOf(h, l)) |->
                 IF k = 0 THEN [heap |-> h, list |-> l]
                 ELSE RemoveRound(f[k - 1], NodesOf(h, l)[k], d)]
    BY <1>1, <1>3 DEF PassOf
  <1>5. pass = [k \in 0 .. Len(NodesOf(h, l)) |->
                    IF k = 0 THEN [heap |-> h, list |-> l]
                    ELSE RemoveRound(pass[k - 1], NodesOf(h, l)[k], d)]
    BY <1>4
  <1> HIDE DEF pass
  <1>6. PassOf(pass, h, l, ns, d, L)
    BY <1>1, <1>5 DEF PassOf
  <1> QED
    BY <1>1, <1>2, <1>6

(* The sequence that the loop leaves behind it.                            *)
KeptOf(f, s, d, m) ==
    f = [k \in 0 .. m |-> IF k = 0 THEN << >>
                          ELSE IF s[k] = d THEN f[k - 1]
                               ELSE Append(f[k - 1], s[k])]

LEMMA KeptExists ==
  ASSUME NEW s, NEW d, NEW n \in Nat
  PROVE  \E f : KeptOf(f, s, d, n)
  <1> DEFINE S == {m \in Nat : ~ \E f : KeptOf(f, s, d, m)}
  <1> SUFFICES ASSUME S # {} PROVE FALSE
    OBVIOUS
  <1>1. S \in SUBSET Nat
    OBVIOUS
  <1>2. PICK x \in S : \A y \in S : x <= y
    <2> HIDE DEF S
    <2> QED
      BY <1>1, LeastExists
  <1>3. x \in Nat /\ ~ \E f : KeptOf(f, s, d, x)
    OBVIOUS
  <1>4. CASE x = 0
    <2>1. PICK f : f = [k \in 0 .. 0 |-> << >>]
      OBVIOUS
    <2>2. \A k \in 0 .. 0 : k = 0
      OBVIOUS
    <2>3. KeptOf(f, s, d, 0)
      BY <2>1, <2>2 DEF KeptOf
    <2> QED
      BY <1>3, <1>4, <2>3
  <1>5. CASE x # 0
    <2>1. x - 1 \in Nat /\ x - 1 \notin S
      BY <1>2, <1>3, <1>5
    <2>2. PICK f : KeptOf(f, s, d, x - 1)
      BY <2>1
    <2>3. PICK g : g = [k \in 0 .. x |->
                            IF k = x THEN IF s[x] = d THEN f[x - 1]
                                          ELSE Append(f[x - 1], s[x])
                            ELSE f[k]]
      OBVIOUS
    <2>4. ASSUME NEW k \in 0 .. x
          PROVE  g[k] = IF k = 0 THEN << >>
                        ELSE IF s[k] = d THEN g[k - 1]
                             ELSE Append(g[k - 1], s[k])
      <3>1. k # 0 => k - 1 \in 0 .. x /\ k - 1 # x
        BY <1>3
      <3>2. k # 0 => g[k - 1] = f[k - 1]
        BY <2>3, <3>1
      <3>3. CASE k = x
        BY <1>5, <2>3, <3>2, <3>3
      <3>4. CASE k # x
        <4>1. k \in 0 .. x - 1
          BY <1>3, <3>4
        <4>2. f[k] = IF k = 0 THEN << >>
                     ELSE IF s[k] = d THEN f[k - 1]
                          ELSE Append(f[k - 1], s[k])
          BY <2>2, <4>1 DEF KeptOf
        <4> QED
          BY <2>3, <3>2, <3>4, <4>2
      <3> QED
        BY <3>3, <3>4
    <2>5. KeptOf(g, s, d, x)
      BY <2>3, <2>4 DEF KeptOf
    <2> QED
      BY <1>3, <2>5
  <1> QED
    BY <1>4, <1>5

LEMMA WithoutAllKept ==
  ASSUME NEW V, NEW s \in Seq(V), NEW d
  PROVE  \E f : KeptOf(f, s, d, Len(s)) /\ WithoutAll(s, d) = f[Len(s)]
  <1> DEFINE kept[k \in 0 .. Len(s)] ==
                 IF k = 0 THEN << >>
                 ELSE IF s[k] = d THEN kept[k - 1]
                      ELSE Append(kept[k - 1], s[k])
  <1>1. WithoutAll(s, d) = kept[Len(s)]
    BY DEF WithoutAll
  <1>2. PICK f : KeptOf(f, s, d, Len(s))
    <2>1. PICK n \in Nat : n = Len(s)
      OBVIOUS
    <2> QED
      BY <2>1, KeptExists
  <1>3. kept = [k \in 0 .. Len(s) |->
                    IF k = 0 THEN << >>
                    ELSE IF s[k] = d THEN kept[k - 1]
                         ELSE Append(kept[k - 1], s[k])]
    <2>1. f = [k \in 0 .. Len(s) |-> IF k = 0 THEN << >>
                                     ELSE IF s[k] = d THEN f[k - 1]
                                          ELSE Append(f[k - 1], s[k])]
      BY <1>2 DEF KeptOf
    <2> QED
      BY <2>1, Zenon
  <1> HIDE DEF kept
  <1>4. KeptOf(kept, s, d, Len(s))
    BY <1>3 DEF KeptOf
  <1> QED
    BY <1>1, <1>4

(* An operation on what an operation left.                                 *)
LEMMA UpdateTrans ==
  ASSUME NEW V, NEW h, NEW N, NEW q, NEW ms, NEW M,
         Update(V, h, N, q, ms, M),
         NEW r, NEW js, NEW J, Update(V, q.heap, ToSet(ms), r, js, J)
  PROVE  Update(V, h, N, r, js, J)
  <1>1. /\ \A x \in DOMAIN h \ N : SameNode(q.heap, h, x)
        /\ DOMAIN q.heap = (DOMAIN h \ N) \cup ToSet(ms)
        /\ ToSet(ms) \cap (DOMAIN h \ N) = {}
    BY DEF Update
  <1>2. /\ Heap(r.heap, V) /\ Chain(r.heap, r.list, js, J)
        /\ \A x \in DOMAIN q.heap \ ToSet(ms) : SameNode(r.heap, q.heap, x)
        /\ DOMAIN r.heap = (DOMAIN q.heap \ ToSet(ms)) \cup ToSet(js)
        /\ ToSet(js) \cap (DOMAIN q.heap \ ToSet(ms)) = {}
    BY DEF Update
  <1>3. DOMAIN q.heap \ ToSet(ms) = DOMAIN h \ N
    BY <1>1
  <1>4. \A x \in DOMAIN h \ N : SameNode(r.heap, h, x)
    BY <1>1, <1>2, <1>3 DEF SameNode
  <1> QED
    BY <1>2, <1>3, <1>4 DEF Update

(* What is left after k rounds: the kept nodes, whose data is t, and the   *)
(* nodes that the loop has not reached.                                    *)
Remaining(V, h, ns, L, k, q, t, ms, M, a) ==
    /\ a \in Nat /\ M = a + (L - k)
    /\ Update(V, h, ToSet(ns), q, ms, M)
    /\ \A x \in DOMAIN q.heap : x \in DOMAIN h /\ q.heap[x].data = h[x].data
    /\ \A j \in 1 .. L - k : ms[a + j] = ns[k + j]
    /\ t = [i \in 1 .. a |-> h[ms[i]].data]

AfterRounds(V, h, ns, L, k, q, t) ==
    \E ms, M, a : Remaining(V, h, ns, L, k, q, t, ms, M, a)

LEMMA RoundKeeps ==
  ASSUME NEW V, NEW h, Heap(h, V), NEW l, NEW ns, NEW L, Chain(h, l, ns, L),
         NEW d, NEW k \in 0 .. L - 1, NEW q, NEW t,
         AfterRounds(V, h, ns, L, k, q, t)
  PROVE  AfterRounds(V, h, ns, L, k + 1, RemoveRound(q, ns[k + 1], d),
                     IF h[ns[k + 1]].data = d THEN t
                     ELSE Append(t, h[ns[k + 1]].data))
  <1>1. L \in Nat /\ ns \in [1 .. L -> DOMAIN h]
    BY DEF Chain
  <1>2. h \in [DOMAIN h -> NodeRecords(V)]
    BY DEF Heap
  <1>3. PICK ms, M, a : Remaining(V, h, ns, L, k, q, t, ms, M, a)
    BY DEF AfterRounds
  <1>4. /\ a \in Nat /\ M = a + (L - k)
        /\ Update(V, h, ToSet(ns), q, ms, M)
        /\ \A x \in DOMAIN q.heap : x \in DOMAIN h /\ q.heap[x].data = h[x].data
        /\ \A j \in 1 .. L - k : ms[a + j] = ns[k + j]
        /\ t = [i \in 1 .. a |-> h[ms[i]].data]
    BY <1>3 DEF Remaining
  <1>5. PICK p \in 1 .. M : p = a + 1
    BY <1>1, <1>4
  <1>6. /\ Heap(q.heap, V) /\ Chain(q.heap, q.list, ms, M)
        /\ M \in Nat /\ ms \in [1 .. M -> DOMAIN q.heap]
    BY <1>4 DEF Update, Chain
  <1>7. PICK n : n = ns[k + 1] /\ n = ms[p]
    <2>1. 1 \in 1 .. L - k
      BY <1>1
    <2> QED
      BY <1>4, <1>5, <2>1
  <1>8. n \in DOMAIN q.heap /\ q.heap[n].data = h[n].data
    BY <1>4, <1>6, <1>7
  <1>9. PICK r : r = RemoveRound(q, n, d)
    OBVIOUS
  <1>10. CASE h[n].data # d
    <2>1. r = q
      <3>1. q.heap[ms[p]].data # d
        BY <1>7, <1>8, <1>10
      <3>2. RemoveRound(q, ms[p], d) = q
        BY <3>1 DEF RemoveRound
      <3> QED
        BY <1>7, <1>9, <3>2
    <2>2. PICK u : u = Append(t, h[n].data)
      OBVIOUS
    <2>3. u = [i \in 1 .. a + 1 |-> h[ms[i]].data]
      <3>1. ASSUME NEW i \in 1 .. a PROVE h[ms[i]].data \in V
        <4>1. i \in 1 .. M
          BY <1>1, <1>4
        <4>2. ms[i] \in DOMAIN h
          BY <1>4, <1>6, <4>1
        <4> QED
          BY <1>2, <4>2 DEF NodeRecords
      <3>2. t \in Seq(V) /\ Len(t) = a /\ \A i \in 1 .. a : t[i] = h[ms[i]].data
        BY <1>4, <3>1
      <3>3. h[n].data \in V
        BY <1>2, <1>4, <1>8 DEF NodeRecords
      <3>4. /\ Len(u) = a + 1 /\ u \in Seq(V) /\ u[a + 1] = h[n].data
            /\ \A i \in 1 .. a : u[i] = t[i]
        BY <2>2, <3>2, <3>3, AppendProperties
      <3>5. ASSUME NEW i \in 1 .. a + 1 PROVE u[i] = h[ms[i]].data
        BY <1>4, <1>5, <1>7, <3>2, <3>4
      <3>6. u = [i \in 1 .. a + 1 |-> u[i]]
        BY <1>4, <3>4
      <3> QED
        BY <3>5, <3>6
    <2>4. M = (a + 1) + (L - (k + 1)) /\ a + 1 \in Nat
      BY <1>1, <1>4
    <2>5. ASSUME NEW j \in 1 .. L - (k + 1) PROVE ms[(a + 1) + j] = ns[(k + 1) + j]
      <3>1. j + 1 \in 1 .. L - k /\ a + (j + 1) = (a + 1) + j
            /\ k + (j + 1) = (k + 1) + j
        BY <1>1, <1>4
      <3>2. ms[a + (j + 1)] = ns[k + (j + 1)]
        BY <1>4, <3>1
      <3> QED
        BY <3>1, <3>2
    <2>6. Remaining(V, h, ns, L, k + 1, q, u, ms, M, a + 1)
      BY <1>4, <2>3, <2>4, <2>5 DEF Remaining
    <2> QED
      BY <1>7, <1>9, <1>10, <2>1, <2>2, <2>6 DEF AfterRounds
  <1>11. CASE h[n].data = d
    <2>1. Removed(V, q.heap, ms, M, p, r)
      <3>1. q.heap[ms[p]].data = d
        BY <1>7, <1>8, <1>11
      <3>2. Removed(V, q.heap, ms, M, p, RemoveRound(q, ms[p], d))
        BY <1>6, <3>1, RemoveRoundFacts
      <3> QED
        BY <1>7, <1>9, <3>2
    <2>2. PICK js : js = Cut(ms, M, p)
      OBVIOUS
    <2>3. Update(V, q.heap, ToSet(ms), r, js, M - 1)
      BY <1>6, <2>1, <2>2, CutChain
    <2>4. Update(V, h, ToSet(ns), r, js, M - 1)
      BY <1>4, <2>3, UpdateTrans
    <2>5. \A x \in DOMAIN r.heap : x \in DOMAIN h /\ r.heap[x].data = h[x].data
      BY <1>4, <2>1 DEF Removed
    <2>6. \A i \in 1 .. M - 1 : js[i] = IF i < p THEN ms[i] ELSE ms[i + 1]
      BY <2>2 DEF Cut
    <2>7. M - 1 = a + (L - (k + 1))
      BY <1>1, <1>4
    <2>8. ASSUME NEW j \in 1 .. L - (k + 1) PROVE js[a + j] = ns[(k + 1) + j]
      <3>1. /\ j + 1 \in 1 .. L - k /\ a + (j + 1) = (a + j) + 1
            /\ k + (j + 1) = (k + 1) + j
            /\ a + j \in 1 .. M - 1 /\ ~ (a + j < p)
        BY <1>1, <1>4, <1>5
      <3>2. js[a + j] = ms[(a + j) + 1]
        BY <2>6, <3>1
      <3>3. ms[a + (j + 1)] = ns[k + (j + 1)]
        BY <1>4, <3>1
      <3> QED
        BY <3>1, <3>2, <3>3
    <2>9. t = [i \in 1 .. a |-> h[js[i]].data]
      <3>1. ASSUME NEW i \in 1 .. a PROVE js[i] = ms[i]
        <4>1. i \in 1 .. M - 1 /\ i < p
          BY <1>1, <1>4, <1>5
        <4> QED
          BY <2>6, <4>1
      <3> QED
        BY <1>4, <3>1
    <2>10. Remaining(V, h, ns, L, k + 1, r, t, js, M - 1, a)
      BY <1>4, <2>4, <2>5, <2>7, <2>8, <2>9 DEF Remaining
    <2> QED
      BY <1>7, <1>9, <1>11, <2>10 DEF AfterRounds
  <1> QED
    BY <1>10, <1>11

(* z3_list_remove_all leaves the nodes with other data, in their order.    *)
LEMMA RemoveAllFacts ==
  ASSUME NEW V, NEW h, Heap(h, V), NEW l, NEW ns, NEW L, Chain(h, l, ns, L),
         NEW d, NEW s, s = DataOf(h, ns, L)
  PROVE  LET r == z3_list_remove_all(h, l, d)
         IN  \E ms, M :
                 /\ Update(V, h, ToSet(ns), r, ms, M)
                 /\ WithoutAll(s, d) = DataOf(r.heap, ms, M)
  <1>1. /\ L \in Nat /\ ns \in [1 .. L -> DOMAIN h]
        /\ h \in [DOMAIN h -> NodeRecords(V)]
    BY DEF Chain, Heap
  <1>2. s \in Seq(V) /\ Len(s) = L
    <2>1. \A i \in 1 .. L : h[ns[i]].data \in V
      BY <1>1 DEF NodeRecords
    <2> QED
      BY <1>1, <2>1 DEF DataOf
  <1>3. PICK f : PassOf(f, h, l, ns, d, L) /\ z3_list_remove_all(h, l, d) = f[L]
    BY RemoveAllPass
  <1>4. PICK kept : KeptOf(kept, s, d, L) /\ WithoutAll(s, d) = kept[L]
    BY <1>2, WithoutAllKept
  <1> DEFINE S == {k \in 0 .. L : ~ AfterRounds(V, h, ns, L, k, f[k], kept[k])}
  <1>5. S = {}
    <2> SUFFICES ASSUME S # {} PROVE FALSE
      OBVIOUS
    <2>1. S \in SUBSET Nat
      BY <1>1
    <2>2. PICK x \in S : \A y \in S : x <= y
      <3> HIDE DEF S
      <3> QED
        BY <2>1, LeastExists
    <2>3. x \in 0 .. L /\ ~ AfterRounds(V, h, ns, L, x, f[x], kept[x])
      OBVIOUS
    <2>4. CASE x = 0
      <3>1. PICK q : q = f[0]
        OBVIOUS
      <3>2. q.heap = h /\ q.list = l /\ kept[0] = << >>
        BY <1>1, <1>3, <1>4, <3>1 DEF PassOf, KeptOf
      <3>3. Update(V, h, ToSet(ns), q, ns, L)
        <4>1. ToSet(ns) \subseteq DOMAIN h
          BY <1>1 DEF ToSet
        <4> QED
          BY <3>2, <4>1 DEF Update, SameNode
      <3>4. Remaining(V, h, ns, L, 0, q, << >>, ns, L, 0)
        <4>1. L = 0 + (L - 0) /\ \A j \in 1 .. L - 0 : ns[0 + j] = ns[0 + j]
          BY <1>1
        <4>2. << >> = [i \in 1 .. 0 |-> h[ns[i]].data]
          OBVIOUS
        <4> QED
          BY <3>2, <3>3, <4>1, <4>2 DEF Remaining
      <3> QED
        BY <2>3, <2>4, <3>1, <3>2, <3>4 DEF AfterRounds
    <2>5. CASE x # 0
      <3>1. PICK k \in 0 .. L - 1 : k + 1 = x /\ k \notin S /\ k \in 0 .. L
        <4>1. x - 1 \in 0 .. L - 1 /\ (x - 1) + 1 = x /\ x - 1 \notin S
              /\ x - 1 \in 0 .. L
          BY <1>1, <2>2, <2>3, <2>5
        <4> QED
          BY <4>1
      <3>2. AfterRounds(V, h, ns, L, k, f[k], kept[k])
        BY <3>1
      <3>3. x - 1 = k /\ x # 0
        BY <1>1, <2>5, <3>1
      <3>4. f[x] = RemoveRound(f[k], ns[x], d)
        BY <1>3, <2>3, <3>3 DEF PassOf
      <3>5. kept[x] = IF s[x] = d THEN kept[k] ELSE Append(kept[k], s[x])
        BY <1>4, <2>3, <3>3 DEF KeptOf
      <3>6. s[x] = h[ns[x]].data
        <4>1. x \in 1 .. L
          BY <1>1, <2>3, <2>5
        <4> QED
          BY <4>1 DEF DataOf
      <3>7. AfterRounds(V, h, ns, L, k + 1, RemoveRound(f[k], ns[k + 1], d),
                        IF h[ns[k + 1]].data = d THEN kept[k]
                        ELSE Append(kept[k], h[ns[k + 1]].data))
        <4> HIDE DEF S
        <4> QED
          BY <3>2, RoundKeeps
      <3>8. AfterRounds(V, h, ns, L, x, f[x], kept[x])
        BY <3>1, <3>4, <3>5, <3>6, <3>7
      <3> QED
        BY <2>3, <3>8
    <2> QED
      BY <2>4, <2>5
  <1>6. AfterRounds(V, h, ns, L, L, f[L], kept[L])
    BY <1>1, <1>5
  <1>7. PICK ms, M, a : Remaining(V, h, ns, L, L, f[L], kept[L], ms, M, a)
    BY <1>6 DEF AfterRounds
  <1>8. PICK r : r = f[L]
    OBVIOUS
  <1>9. /\ a \in Nat /\ M = a
        /\ Update(V, h, ToSet(ns), r, ms, M)
        /\ \A x \in DOMAIN r.heap : x \in DOMAIN h /\ r.heap[x].data = h[x].data
        /\ kept[L] = [i \in 1 .. M |-> h[ms[i]].data]
    BY <1>1, <1>7, <1>8 DEF Remaining
  <1>10. ms \in [1 .. M -> DOMAIN r.heap]
    BY <1>9 DEF Update, Chain
  <1>11. kept[L] = [i \in 1 .. M |-> r.heap[ms[i]].data]
    BY <1>9, <1>10
  <1>12. Update(V, h, ToSet(ns), z3_list_remove_all(h, l, d), ms, M)
    BY <1>3, <1>8, <1>9
  <1>13. WithoutAll(s, d) = DataOf(z3_list_remove_all(h, l, d).heap, ms, M)
    BY <1>3, <1>4, <1>8, <1>11 DEF DataOf
  <1> QED
    BY <1>12, <1>13, Zenon

-------------------------------------------------------------------------------
(* A chain of nodes that an operation did not touch stays as it was.       *)
LEMMA ChainKept ==
  ASSUME NEW V, NEW h, NEW N, NEW r, NEW ns, NEW L, Update(V, h, N, r, ns, L),
         NEW l, NEW ms, NEW M, Chain(h, l, ms, M), ToSet(ms) \cap N = {}
  PROVE  /\ Chain(r.heap, l, ms, M)
         /\ \A i \in 1 .. M : r.heap[ms[i]].data = h[ms[i]].data
  <1>1. PICK g : g = r.heap
    OBVIOUS
  <1>2. /\ \A x \in DOMAIN h \ N : SameNode(g, h, x)
        /\ DOMAIN h \ N \subseteq DOMAIN g
    BY <1>1 DEF Update
  <1>3. M \in Nat /\ ms \in [1 .. M -> DOMAIN h]
    BY DEF Chain
  <1>4. \A i \in 1 .. M : ms[i] \in DOMAIN h \ N
    <2>1. \A i \in 1 .. M : ms[i] \in ToSet(ms)
      BY <1>3 DEF ToSet
    <2> QED
      BY <1>3, <2>1
  <1>5. \A i \in 1 .. M : SameNode(g, h, ms[i]) /\ ms[i] \in DOMAIN g
    BY <1>2, <1>4
  <1>6. ms \in [1 .. M -> DOMAIN g]
    BY <1>3, <1>5
  <1>7. Links(g, ms, M)
    BY <1>5 DEF SameNode, Chain, Links
  <1>8. M > 0 => g[ms[1]].list_num = M
    <2>1. M > 0 => 1 \in 1 .. M
      BY <1>3
    <2> QED
      BY <1>5, <2>1 DEF SameNode, Chain
  <1>9. Chain(g, l, ms, M)
    BY <1>6, <1>7, <1>8 DEF Chain
  <1> QED
    BY <1>1, <1>5, <1>9 DEF SameNode

(* NULL is the empty list.                                                 *)
LEMMA EmptyChain ==
  ASSUME NEW h
  PROVE  Chain(h, NULL, << >>, 0)
  BY DEF Chain, Links

(* A list is the chain of its nodes.                                       *)
LEMMA ListOfChain ==
  ASSUME NEW V, NEW h, Heap(h, V), NEW l, NEW ns, NEW L, Chain(h, l, ns, L)
  PROVE  IsList(h, l) /\ Own(h, l) = ToSet(ns)
  BY ChainNodes DEF IsList, Own

(* Some lists of a family, those in C, were changed to one list i: the     *)
(* lists are a family again and the other lists are as they were.          *)
Changed(V, h, I, ls, C, i, r, ns, L, ls2) ==
    /\ Heap(h, V) /\ Family(h, I, ls) /\ C \subseteq I /\ i \in C
    /\ Update(V, h, UNION {Own(h, ls[c]) : c \in C}, r, ns, L)
    /\ ls2[i] = r.list
    /\ \A c \in C \ {i} : ls2[c] = NULL
    /\ \A j \in I \ C : ls2[j] = ls[j]

LEMMA FamilyUpdate ==
  ASSUME NEW V, NEW h, NEW I, NEW ls, NEW C, NEW i, NEW r, NEW ns, NEW L,
         NEW ls2, Changed(V, h, I, ls, C, i, r, ns, L, ls2)
  PROVE  /\ Heap(r.heap, V) /\ Family(r.heap, I, ls2)
         /\ Own(r.heap, ls2[i]) = ToSet(ns)
         /\ \A c \in C \ {i} : Own(r.heap, ls2[c]) = {}
         /\ \A j \in I \ C :
                /\ Own(r.heap, ls2[j]) = Own(h, ls[j])
                /\ z3_list_foreach(r.heap, ls2[j]) = z3_list_foreach(h, ls[j])
  <1> USE DEF Changed
  <1>1. PICK g, N : g = r.heap /\ N = UNION {Own(h, ls[c]) : c \in C}
    OBVIOUS
  <1>2. Update(V, h, N, r, ns, L)
    BY <1>1
  <1>3. /\ Heap(g, V) /\ Chain(g, ls2[i], ns, L)
        /\ DOMAIN g = (DOMAIN h \ N) \cup ToSet(ns)
        /\ ToSet(ns) \cap (DOMAIN h \ N) = {}
    BY <1>1, <1>2 DEF Update
  <1>4. IsList(g, ls2[i]) /\ Own(g, ls2[i]) = ToSet(ns)
    BY <1>3, ListOfChain
  <1>5. ASSUME NEW c \in C \ {i}
        PROVE  IsList(g, ls2[c]) /\ Own(g, ls2[c]) = {}
    <2>1. Chain(g, ls2[c], << >>, 0)
      BY EmptyChain
    <2>2. ToSet(<< >>) = {}
      BY DEF ToSet
    <2> QED
      BY <1>3, <2>1, <2>2, ListOfChain
  <1>6. /\ \A j \in I : IsList(h, ls[j])
        /\ \A j, k \in I : j # k => Own(h, ls[j]) \cap Own(h, ls[k]) = {}
        /\ DOMAIN h = UNION {Own(h, ls[j]) : j \in I}
    BY DEF Family
  <1>7. ASSUME NEW j \in I \ C
        PROVE  /\ IsList(g, ls2[j]) /\ Own(g, ls2[j]) = Own(h, ls[j])
               /\ Own(h, ls[j]) \cap N = {} /\ Own(h, ls[j]) \subseteq DOMAIN h \ N
               /\ z3_list_foreach(g, ls2[j]) = z3_list_foreach(h, ls[j])
    <2>1. PICK ms, M : ms = NodesOf(h, ls[j]) /\ M = Len(ms)
      OBVIOUS
    <2>2. Chain(h, ls[j], ms, M) /\ ToSet(ms) = Own(h, ls[j])
      BY <1>6, <2>1 DEF IsList, Own
    <2>3. Own(h, ls[j]) \cap N = {} /\ Own(h, ls[j]) \subseteq DOMAIN h
      BY <1>1, <1>6
    <2>4. /\ Chain(g, ls2[j], ms, M)
          /\ \A k \in 1 .. M : g[ms[k]].data = h[ms[k]].data
      <3>1. ToSet(ms) \cap N = {} /\ ls2[j] = ls[j]
        BY <2>2, <2>3
      <3>2. /\ Chain(r.heap, ls[j], ms, M)
            /\ \A k \in 1 .. M : r.heap[ms[k]].data = h[ms[k]].data
        BY <1>2, <2>2, <3>1, ChainKept
      <3> QED
        BY <1>1, <3>1, <3>2
    <2>5. IsList(g, ls2[j]) /\ Own(g, ls2[j]) = ToSet(ms)
      BY <1>3, <2>4, ListOfChain
    <2>6. z3_list_foreach(h, ls[j]) = DataOf(h, ms, M)
      BY <2>2, ChainReads
    <2>7. z3_list_foreach(g, ls2[j]) = DataOf(g, ms, M)
      BY <1>3, <2>4, ChainReads
    <2>8. DataOf(g, ms, M) = DataOf(h, ms, M)
      BY <2>4 DEF DataOf
    <2> QED
      BY <2>2, <2>3, <2>5, <2>6, <2>7, <2>8
  <1>8. Family(g, I, ls2)
    <2>1. \A j \in I : IsList(g, ls2[j])
      BY <1>4, <1>5, <1>7
    <2>2. ASSUME NEW j \in I, NEW k \in I, j # k
          PROVE  Own(g, ls2[j]) \cap Own(g, ls2[k]) = {}
      <3>1. CASE j \in C /\ k \in C
        BY <1>5, <2>2, <3>1
      <3>2. CASE j \in C /\ k \notin C
        BY <1>3, <1>4, <1>5, <1>7, <3>2
      <3>3. CASE j \notin C /\ k \in C
        BY <1>3, <1>4, <1>5, <1>7, <3>3
      <3>4. CASE j \notin C /\ k \notin C
        BY <1>6, <1>7, <2>2, <3>4
      <3> QED
        BY <3>1, <3>2, <3>3, <3>4
    <2>3. UNION {Own(g, ls2[j]) : j \in I} \subseteq DOMAIN g
      <3>1. ASSUME NEW j \in I PROVE Own(g, ls2[j]) \subseteq DOMAIN g
        BY <1>3, <1>4, <1>5, <1>7
      <3> QED
        BY <3>1
    <2>4. DOMAIN g \subseteq UNION {Own(g, ls2[j]) : j \in I}
      <3>1. ASSUME NEW x \in DOMAIN h \ N
            PROVE  \E j \in I : x \in Own(g, ls2[j])
        <4>1. PICK j \in I : x \in Own(h, ls[j])
          BY <1>6
        <4>2. j \notin C
          BY <1>1, <4>1
        <4> QED
          BY <1>7, <4>1, <4>2
      <3>2. ASSUME NEW x \in ToSet(ns)
            PROVE  \E j \in I : x \in Own(g, ls2[j])
        BY <1>4
      <3> QED
        BY <1>3, <3>1, <3>2
    <2> QED
      BY <2>1, <2>2, <2>3, <2>4 DEF Family
  <1> QED
    BY <1>1, <1>3, <1>4, <1>5, <1>7, <1>8

(* A chain has as many nodes as its length says.                           *)
LEMMA OwnSize ==
  ASSUME NEW V, NEW h, Heap(h, V), NEW l, NEW ns, NEW L, Chain(h, l, ns, L)
  PROVE  /\ IsFiniteSet(ToSet(ns)) /\ Cardinality(ToSet(ns)) = L
         /\ ToSet(ns) \subseteq DOMAIN h
  <1>1. /\ L \in Nat /\ ns \in [1 .. L -> DOMAIN h] /\ DOMAIN ns = 1 .. L
        /\ \A i, j \in 1 .. L : ns[i] = ns[j] => i = j
    BY DEF Chain
  <1>2. ns \in [1 .. L -> ToSet(ns)] /\ ToSet(ns) \subseteq DOMAIN h
    BY <1>1 DEF ToSet
  <1>3. \A y \in ToSet(ns) : \E i \in 1 .. L : ns[i] = y
    BY <1>1 DEF ToSet
  <1>4. ns \in Bijection(1 .. L, ToSet(ns))
    BY <1>1, <1>2, <1>3 DEF Bijection, Injection, IsInjective, Surjection
  <1>5. ExistsBijection(1 .. L, ToSet(ns))
    BY <1>4 DEF ExistsBijection
  <1>6. IsFiniteSet(1 .. L)
    BY <1>1, FS_Interval
  <1> QED
    BY <1>1, <1>2, <1>5, <1>6, FS_CountingElements, FS_Bijection

-------------------------------------------------------------------------------
(* The inductive invariant of the calls on lists: the two lists are a      *)
(* family of chains that make up the heap, and hold their sequences.       *)
ListInv ==
    /\ Heap(listHeap, Data)
    /\ lists \in [Which -> Nodes \cup {NULL}]
    /\ seqs \in [Which -> Seq(Data)]
    /\ Family(listHeap, Which, lists)
    /\ \A i \in Which : z3_list_foreach(listHeap, lists[i]) = seqs[i]

(* The pointer and the data of a chain have their types.                   *)
LEMMA ChainTypes ==
  ASSUME NEW V, NEW h, Heap(h, V), NEW l, NEW ns, NEW L, Chain(h, l, ns, L)
  PROVE  /\ l \in Nodes \cup {NULL}
         /\ DataOf(h, ns, L) \in Seq(V) /\ Len(DataOf(h, ns, L)) = L
  <1>1. /\ L \in Nat /\ ns \in [1 .. L -> DOMAIN h] /\ DOMAIN h \subseteq Nodes
        /\ l = IF L = 0 THEN NULL ELSE ns[1]
        /\ h \in [DOMAIN h -> NodeRecords(V)]
    BY DEF Chain, Heap
  <1>2. \A k \in 1 .. L : h[ns[k]].data \in V
    BY <1>1 DEF NodeRecords
  <1>3. L # 0 => 1 \in 1 .. L
    BY <1>1
  <1> QED
    BY <1>1, <1>2, <1>3 DEF DataOf

(* Both lists after a call on list i that updated its chain.               *)
LEMMA BecomesKeeps ==
  ASSUME ListInv, NEW i \in Which, NEW r, NEW s, Becomes(i, r, s),
         NEW ns, NEW L,
         Update(Data, listHeap, Own(listHeap, lists[i]), r, ns, L),
         s = DataOf(r.heap, ns, L)
  PROVE  ListInv'
  <1>1. /\ Heap(listHeap, Data) /\ Family(listHeap, Which, lists)
        /\ lists \in [Which -> Nodes \cup {NULL}]
        /\ seqs \in [Which -> Seq(Data)]
        /\ \A j \in Which : z3_list_foreach(listHeap, lists[j]) = seqs[j]
    BY DEF ListInv
  <1>2. /\ listHeap' = r.heap
        /\ lists' = [lists EXCEPT ![i] = r.list]
        /\ seqs' = [seqs EXCEPT ![i] = s]
    BY DEF Becomes
  <1>3. /\ lists'[i] = r.list /\ seqs'[i] = s
        /\ \A j \in Which \ {i} : lists'[j] = lists[j] /\ seqs'[j] = seqs[j]
    BY <1>1, <1>2
  <1>4. PICK ls : ls = lists'
    OBVIOUS
  <1>5. UNION {Own(listHeap, lists[c]) : c \in {i}} = Own(listHeap, lists[i])
    OBVIOUS
  <1>6. /\ Heap(r.heap, Data) /\ Family(r.heap, Which, ls)
        /\ \A j \in Which \ {i} :
               z3_list_foreach(r.heap, ls[j]) = z3_list_foreach(listHeap, lists[j])
    <2>1. Changed(Data, listHeap, Which, lists, {i}, i, r, ns, L, ls)
      BY <1>1, <1>3, <1>4, <1>5 DEF Changed
    <2> QED
      BY <2>1, FamilyUpdate
  <1>7. Heap(r.heap, Data) /\ Chain(r.heap, r.list, ns, L)
    BY DEF Update
  <1>8. /\ r.list \in Nodes \cup {NULL} /\ s \in Seq(Data)
        /\ z3_list_foreach(r.heap, r.list) = s
    BY <1>7, ChainTypes, ChainReads
  <1>9. \A j \in Which : z3_list_foreach(listHeap', lists'[j]) = seqs'[j]
    BY <1>1, <1>2, <1>3, <1>4, <1>6, <1>8
  <1>10. /\ lists' \in [Which -> Nodes \cup {NULL}]
         /\ seqs' \in [Which -> Seq(Data)]
    BY <1>1, <1>2, <1>8
  <1>11. Heap(listHeap', Data) /\ Family(listHeap', Which, lists')
    BY <1>2, <1>4, <1>6
  <1> QED
    BY <1>9, <1>10, <1>11 DEF ListInv, Heap, Family, IsList, Own

(* The chain of a list and the sequence it stands for.                     *)
LEMMA ListChain ==
  ASSUME ListInv, NEW i \in Which
  PROVE  \E ns, L :
             /\ Heap(listHeap, Data) /\ Chain(listHeap, lists[i], ns, L)
             /\ ns = NodesOf(listHeap, lists[i])
             /\ ToSet(ns) = Own(listHeap, lists[i])
             /\ seqs[i] = DataOf(listHeap, ns, L)
             /\ seqs[i] \in Seq(Data) /\ Len(seqs[i]) = L /\ L \in Nat
  <1>1. /\ Heap(listHeap, Data) /\ IsList(listHeap, lists[i])
        /\ z3_list_foreach(listHeap, lists[i]) = seqs[i]
    BY DEF ListInv, Family
  <1>2. PICK ns, L : ns = NodesOf(listHeap, lists[i]) /\ L = Len(ns)
    OBVIOUS
  <1>3. Chain(listHeap, lists[i], ns, L) /\ ToSet(ns) = Own(listHeap, lists[i])
    BY <1>1, <1>2 DEF IsList, Own
  <1>4. seqs[i] = DataOf(listHeap, ns, L)
    BY <1>1, <1>3, ChainReads
  <1>5. seqs[i] \in Seq(Data) /\ Len(seqs[i]) = L
    BY <1>1, <1>3, <1>4, ChainTypes
  <1>6. L \in Nat
    BY <1>3 DEF Chain
  <1> QED
    BY <1>1, <1>2, <1>3, <1>4, <1>5, <1>6

-------------------------------------------------------------------------------
(* A sequence is known by its elements.                                    *)
LEMMA IsDataOf ==
  ASSUME NEW V, NEW u \in Seq(V), NEW h, NEW ns, NEW L \in Nat, Len(u) = L,
         \A k \in 1 .. L : u[k] = h[ns[k]].data
  PROVE  u = DataOf(h, ns, L)
  <1>1. u = [k \in 1 .. L |-> u[k]]
    OBVIOUS
  <1> QED
    BY <1>1 DEF DataOf

(* RemoveAt, element by element.                                           *)
LacksAt(V, s, p, u) ==
    /\ u \in Seq(V) /\ Len(u) = Len(s) - 1
    /\ \A k \in 1 .. Len(s) - 1 : u[k] = IF k < p THEN s[k] ELSE s[k + 1]

LEMMA RemoveAtElements ==
  ASSUME NEW V, NEW s, s \in Seq(V), NEW p, p \in 1 .. Len(s)
  PROVE  LacksAt(V, s, p, RemoveAt(s, p))
  <1>0. PICK L \in Nat : L = Len(s) /\ p \in 1 .. L
    OBVIOUS
  <1>1. PICK a, b : a = SubSeq(s, 1, p - 1) /\ b = SubSeq(s, p + 1, L)
    OBVIOUS
  <1>2. /\ a \in Seq(V) /\ Len(a) = p - 1
        /\ \A k \in 1 .. p - 1 : a[k] = s[k]
    <2>1. PICK m \in 0 .. L : m = p - 1
      BY <1>0
    <2>2. \A k \in 1 .. m : s[k] \in V
      BY <1>0
    <2>3. SubSeq(s, 1, m) = [k \in 1 .. m |-> s[k]]
      BY <1>0
    <2> QED
      BY <1>1, <2>1, <2>2, <2>3
  <1>3. /\ b \in Seq(V) /\ Len(b) = L - p
        /\ \A k \in 1 .. L - p : b[k] = s[p + k]
    <2>1. PICK m \in 1 .. L + 1 : m = p + 1
      BY <1>0
    <2>2. SubSeq(s, m, L) = [k \in 1 .. (1 + L - m) |-> s[k + m - 1]]
      BY <1>0
    <2>3. 1 + L - m = L - p /\ 1 + L - m \in Nat
      BY <2>1
    <2>4. \A k \in 1 .. L - p : k + m - 1 = p + k /\ p + k \in 1 .. L
      BY <2>1
    <2>5. b = [k \in 1 .. L - p |-> s[p + k]]
      BY <1>1, <2>1, <2>2, <2>3, <2>4
    <2>6. \A k \in 1 .. L - p : s[p + k] \in V
      BY <1>0, <2>4
    <2>7. L - p \in Nat
      BY <1>0
    <2> QED
      BY <2>5, <2>6, <2>7
  <1>4. RemoveAt(s, p) = a \o b
    BY <1>0, <1>1 DEF RemoveAt
  <1>5. /\ a \o b \in Seq(V) /\ Len(a \o b) = L - 1
        /\ \A k \in 1 .. L - 1 :
               (a \o b)[k] = IF k <= p - 1 THEN a[k] ELSE b[k - (p - 1)]
    <2>1. Len(a) + Len(b) = L - 1
      BY <1>2, <1>3
    <2>2. /\ a \o b \in Seq(V) /\ Len(a \o b) = Len(a) + Len(b)
          /\ \A k \in 1 .. Len(a) + Len(b) :
                 (a \o b)[k] = IF k <= Len(a) THEN a[k] ELSE b[k - Len(a)]
      BY <1>2, <1>3, ConcatProperties
    <2> QED
      BY <1>2, <2>1, <2>2
  <1>6. ASSUME NEW k \in 1 .. L - 1
        PROVE  (a \o b)[k] = IF k < p THEN s[k] ELSE s[k + 1]
    <2>1. CASE k < p
      BY <1>2, <1>5, <2>1
    <2>2. CASE ~ (k < p)
      <3>1. PICK m \in 1 .. L - p : m = k - (p - 1)
        BY <2>2
      <3>2. ~ (k <= p - 1) /\ p + m = k + 1
        BY <2>2, <3>1
      <3>3. (a \o b)[k] = b[m]
        BY <1>5, <3>1, <3>2
      <3> QED
        BY <1>3, <2>2, <3>2, <3>3
    <2> QED
      BY <2>1, <2>2
  <1> QED
    BY <1>0, <1>4, <1>5, <1>6 DEF LacksAt

(* Every removal at position p: the other data stays, in its order.        *)
LEMMA RemovedData ==
  ASSUME NEW V, NEW h, Heap(h, V), NEW l, NEW ns, NEW L, Chain(h, l, ns, L),
         NEW p \in 1 .. L, NEW r, Removed(V, h, ns, L, p, r),
         NEW s, s \in Seq(V), s = DataOf(h, ns, L), Len(s) = L
  PROVE  RemoveAt(s, p) = DataOf(r.heap, Cut(ns, L, p), L - 1)
  <1>1. /\ L \in Nat /\ ns \in [1 .. L -> DOMAIN h]
        /\ \A i, j \in 1 .. L : ns[i] = ns[j] => i = j
    BY DEF Chain
  <1>2. PICK u : u = RemoveAt(s, p)
    OBVIOUS
  <1>3. /\ u \in Seq(V) /\ Len(u) = L - 1
        /\ \A k \in 1 .. L - 1 : u[k] = IF k < p THEN s[k] ELSE s[k + 1]
    <2>1. LacksAt(V, s, p, RemoveAt(s, p))
      BY RemoveAtElements
    <2> QED
      BY <1>2, <2>1 DEF LacksAt
  <1>4. ASSUME NEW k \in 1 .. L, k # p
        PROVE  r.heap[ns[k]].data = s[k]
    <2>1. ns[k] \in DOMAIN h \ {ns[p]}
      BY <1>1, <1>4
    <2>2. r.heap[ns[k]].data = h[ns[k]].data
      BY <2>1 DEF Removed
    <2> QED
      BY <2>2 DEF DataOf
  <1>5. ASSUME NEW k \in 1 .. L - 1
        PROVE  u[k] = r.heap[Cut(ns, L, p)[k]].data
    <2>1. Cut(ns, L, p)[k] = IF k < p THEN ns[k] ELSE ns[k + 1]
      BY DEF Cut
    <2>2. CASE k < p
      <3>1. k \in 1 .. L /\ k # p
        BY <1>1, <2>2
      <3> QED
        BY <1>3, <1>4, <2>1, <2>2, <3>1
    <2>3. CASE ~ (k < p)
      <3>1. PICK m \in 1 .. L : m = k + 1 /\ m # p
        BY <1>1, <2>3
      <3> QED
        BY <1>3, <1>4, <2>1, <2>3, <3>1
    <2> QED
      BY <2>2, <2>3
  <1>6. PICK m \in Nat : m = L - 1
    BY <1>1
  <1> QED
    BY <1>2, <1>3, <1>5, <1>6, IsDataOf

-------------------------------------------------------------------------------
(* One lemma per call.                                                     *)
LEMMA AddHeadKeeps ==
  ASSUME ListInv, NEW i \in Which, NEW d \in Data, ListAddHead(i, d)
  PROVE  ListInv'
  <1>1. PICK ns, L :
            /\ Heap(listHeap, Data) /\ Chain(listHeap, lists[i], ns, L)
            /\ ToSet(ns) = Own(listHeap, lists[i])
            /\ seqs[i] = DataOf(listHeap, ns, L)
            /\ seqs[i] \in Seq(Data) /\ Len(seqs[i]) = L /\ L \in Nat
    BY ListChain
  <1>2. PICK r : r = z3_list_add_head(listHeap, lists[i], d)
    OBVIOUS
  <1>3. PICK ms : ms = Prepended(ns, L, r.list)
    OBVIOUS
  <1>4. /\ Update(Data, listHeap, ToSet(ns), r, ms, L + 1)
        /\ r.heap[r.list].data = d
        /\ \A x \in DOMAIN listHeap : r.heap[x].data = listHeap[x].data
    BY <1>1, <1>2, <1>3, AddHeadFacts DEF ListAddHead
  <1>5. PICK s : s = <<d>> \o seqs[i]
    OBVIOUS
  <1>6. /\ s \in Seq(Data) /\ Len(s) = L + 1 /\ s[1] = d
        /\ \A k \in 2 .. L + 1 : s[k] = seqs[i][k - 1]
    <2>1. PICK e : e = <<d>>
      OBVIOUS
    <2>2. e \in Seq(Data) /\ Len(e) = 1 /\ e[1] = d
      BY <2>1
    <2>3. PICK t : t = seqs[i] /\ t \in Seq(Data) /\ Len(t) = L
      BY <1>1
    <2>4. /\ e \o t \in Seq(Data) /\ Len(e \o t) = Len(e) + Len(t)
          /\ \A k \in 1 .. Len(e) + Len(t) :
                 (e \o t)[k] = IF k <= Len(e) THEN e[k] ELSE t[k - Len(e)]
      BY <2>2, <2>3, ConcatProperties
    <2>5. /\ e \o t \in Seq(Data) /\ Len(e \o t) = L + 1
          /\ \A k \in 1 .. L + 1 :
                 (e \o t)[k] = IF k <= 1 THEN e[k] ELSE t[k - 1]
      BY <1>1, <2>2, <2>3, <2>4
    <2>6. s = e \o t
      BY <1>5, <2>1, <2>3
    <2> QED
      BY <1>1, <2>2, <2>3, <2>5, <2>6
  <1>7. ASSUME NEW k \in 1 .. L + 1 PROVE s[k] = r.heap[ms[k]].data
    <2>1. ms[k] = IF k = 1 THEN r.list ELSE ns[k - 1]
      BY <1>3 DEF Prepended
    <2>2. CASE k = 1
      BY <1>4, <1>6, <2>1, <2>2
    <2>3. CASE k # 1
      <3>1. PICK m \in 1 .. L : m = k - 1 /\ k \in 2 .. L + 1
        BY <1>1, <2>3
      <3>2. ns[m] \in DOMAIN listHeap
        BY <1>1 DEF Chain
      <3>3. seqs[i][m] = listHeap[ns[m]].data
        BY <1>1 DEF DataOf
      <3> QED
        BY <1>4, <1>6, <2>1, <2>3, <3>1, <3>2, <3>3
    <2> QED
      BY <2>2, <2>3
  <1>8. s = DataOf(r.heap, ms, L + 1)
    <2>1. PICK m \in Nat : m = L + 1
      BY <1>1
    <2> QED
      BY <1>6, <1>7, <2>1, IsDataOf
  <1>9. Becomes(i, r, s)
    BY <1>2, <1>5 DEF ListAddHead
  <1> QED
    BY <1>1, <1>4, <1>8, <1>9, BecomesKeeps

LEMMA AddTailKeeps ==
  ASSUME ListInv, NEW i \in Which, NEW d \in Data, ListAddTail(i, d)
  PROVE  ListInv'
  <1>1. PICK ns, L :
            /\ Heap(listHeap, Data) /\ Chain(listHeap, lists[i], ns, L)
            /\ ToSet(ns) = Own(listHeap, lists[i])
            /\ seqs[i] = DataOf(listHeap, ns, L)
            /\ seqs[i] \in Seq(Data) /\ Len(seqs[i]) = L /\ L \in Nat
    BY ListChain
  <1>2. PICK r : r = z3_list_add_tail(listHeap, lists[i], d)
    OBVIOUS
  <1>3. PICK n : /\ Update(Data, listHeap, ToSet(ns), r, Appended(ns, L, n), L + 1)
                 /\ r.heap[n].data = d
                 /\ \A x \in DOMAIN listHeap : r.heap[x].data = listHeap[x].data
    BY <1>1, <1>2, AddTailFacts DEF ListAddTail
  <1>4. PICK ms : ms = Appended(ns, L, n)
    OBVIOUS
  <1>5. PICK s : s = Append(seqs[i], d)
    OBVIOUS
  <1>6. /\ s \in Seq(Data) /\ Len(s) = L + 1 /\ s[L + 1] = d
        /\ \A k \in 1 .. L : s[k] = seqs[i][k]
    BY <1>1, <1>5, AppendProperties
  <1>7. ASSUME NEW k \in 1 .. L + 1 PROVE s[k] = r.heap[ms[k]].data
    <2>1. ms[k] = IF k = L + 1 THEN n ELSE ns[k]
      BY <1>4 DEF Appended
    <2>2. CASE k = L + 1
      BY <1>3, <1>6, <2>1, <2>2
    <2>3. CASE k # L + 1
      <3>1. k \in 1 .. L
        BY <1>1, <2>3
      <3>2. ns[k] \in DOMAIN listHeap
        BY <1>1, <3>1 DEF Chain
      <3>3. seqs[i][k] = listHeap[ns[k]].data
        BY <1>1, <3>1 DEF DataOf
      <3> QED
        BY <1>3, <1>6, <2>1, <2>3, <3>1, <3>2, <3>3
    <2> QED
      BY <2>2, <2>3
  <1>8. s = DataOf(r.heap, ms, L + 1)
    <2>1. PICK m \in Nat : m = L + 1
      BY <1>1
    <2> QED
      BY <1>6, <1>7, <2>1, IsDataOf
  <1>9. Becomes(i, r, s)
    BY <1>2, <1>5 DEF ListAddTail
  <1> QED
    BY <1>1, <1>3, <1>4, <1>8, <1>9, BecomesKeeps

LEMMA RemoveKeeps ==
  ASSUME ListInv, NEW i \in Which, NEW d \in Data, ListRemove(i, d)
  PROVE  ListInv'
  <1>1. PICK ns, L :
            /\ Heap(listHeap, Data) /\ Chain(listHeap, lists[i], ns, L)
            /\ ToSet(ns) = Own(listHeap, lists[i])
            /\ seqs[i] = DataOf(listHeap, ns, L)
            /\ seqs[i] \in Seq(Data) /\ Len(seqs[i]) = L /\ L \in Nat
    BY ListChain
  <1>2. z3_list_find(listHeap, lists[i], d) # NULL
    BY DEF ListRemove, Removable
  <1>3. PICK p \in 1 .. L :
            /\ z3_list_find(listHeap, lists[i], d) = ns[p]
            /\ listHeap[ns[p]].data = d
            /\ p = FirstAt(z3_list_foreach(listHeap, lists[i]), d)
    BY <1>1, <1>2, ChainFind
  <1>4. PICK r : r = z3_list_remove(listHeap, lists[i], d)
    OBVIOUS
  <1>5. Removed(Data, listHeap, ns, L, p, r)
    BY <1>1, <1>3, <1>4, RemoveFacts
  <1>6. Update(Data, listHeap, ToSet(ns), r, Cut(ns, L, p), L - 1)
    BY <1>1, <1>5, CutChain
  <1>7. RemoveAt(seqs[i], p) = DataOf(r.heap, Cut(ns, L, p), L - 1)
    BY <1>1, <1>5, RemovedData
  <1>8. RemoveFirst(seqs[i], d) = RemoveAt(seqs[i], p)
    <2>1. z3_list_foreach(listHeap, lists[i]) = seqs[i]
      BY DEF ListInv
    <2>2. seqs[i][p] = d /\ p \in 1 .. Len(seqs[i])
      BY <1>1, <1>3 DEF DataOf
    <2>3. p = FirstAt(seqs[i], d)
      BY <1>3, <2>1
    <2> QED
      BY <2>2, <2>3 DEF RemoveFirst, FirstAt
  <1>9. Becomes(i, r, RemoveAt(seqs[i], p))
    BY <1>4, <1>8 DEF ListRemove
  <1> QED
    BY <1>1, <1>6, <1>7, <1>9, BecomesKeeps

LEMMA RemoveAllKeeps ==
  ASSUME ListInv, NEW i \in Which, NEW d \in Data, ListRemoveAll(i, d)
  PROVE  ListInv'
  <1>1. PICK ns, L :
            /\ Heap(listHeap, Data) /\ Chain(listHeap, lists[i], ns, L)
            /\ ToSet(ns) = Own(listHeap, lists[i])
            /\ seqs[i] = DataOf(listHeap, ns, L)
    BY ListChain
  <1>2. PICK r : r = z3_list_remove_all(listHeap, lists[i], d)
    OBVIOUS
  <1>3. PICK ms, M : /\ Update(Data, listHeap, ToSet(ns), r, ms, M)
                     /\ WithoutAll(seqs[i], d) = DataOf(r.heap, ms, M)
    BY <1>1, <1>2, RemoveAllFacts
  <1>4. Becomes(i, r, WithoutAll(seqs[i], d))
    BY <1>2 DEF ListRemoveAll
  <1> QED
    BY <1>1, <1>3, <1>4, BecomesKeeps

LEMMA DeleteLinkKeeps ==
  ASSUME ListInv, NEW i \in Which, NEW k, ListDeleteLink(i, k)
  PROVE  ListInv'
  <1>1. PICK ns, L :
            /\ Heap(listHeap, Data) /\ Chain(listHeap, lists[i], ns, L)
            /\ ns = NodesOf(listHeap, lists[i])
            /\ ToSet(ns) = Own(listHeap, lists[i])
            /\ seqs[i] = DataOf(listHeap, ns, L)
            /\ seqs[i] \in Seq(Data) /\ Len(seqs[i]) = L /\ L \in Nat
    BY ListChain
  <1>2. k \in 1 .. L
    BY <1>1 DEF ListDeleteLink
  <1>3. PICK r : r = z3_list_delete_link(listHeap, lists[i], ns[k])
    OBVIOUS
  <1>4. Removed(Data, listHeap, ns, L, k, r)
    BY <1>1, <1>2, <1>3, DeleteLinkFacts
  <1>5. Update(Data, listHeap, ToSet(ns), r, Cut(ns, L, k), L - 1)
    BY <1>1, <1>2, <1>4, CutChain
  <1>6. RemoveAt(seqs[i], k) = DataOf(r.heap, Cut(ns, L, k), L - 1)
    BY <1>1, <1>2, <1>4, RemovedData
  <1>7. Becomes(i, r, RemoveAt(seqs[i], k))
    BY <1>1, <1>3 DEF ListDeleteLink
  <1> QED
    BY <1>1, <1>5, <1>6, <1>7, BecomesKeeps

LEMMA FreeKeeps ==
  ASSUME ListInv, NEW i \in Which, ListFree(i)
  PROVE  ListInv'
  <1>1. PICK ns, L :
            /\ Heap(listHeap, Data) /\ Chain(listHeap, lists[i], ns, L)
            /\ ToSet(ns) = Own(listHeap, lists[i])
    BY ListChain
  <1>2. PICK r : r = [heap |-> z3_list_free(listHeap, lists[i]), list |-> NULL]
    OBVIOUS
  <1>3. Update(Data, listHeap, ToSet(ns), r, << >>, 0)
    BY <1>1, <1>2, FreeListFacts
  <1>4. << >> = DataOf(r.heap, << >>, 0)
    BY DEF DataOf
  <1>5. Becomes(i, r, << >>)
    BY <1>2 DEF ListFree
  <1> QED
    BY <1>1, <1>3, <1>4, <1>5, BecomesKeeps

LEMMA ConcatKeeps ==
  ASSUME ListInv, NEW i \in Which, NEW j \in Which \ {i}, ListConcat(i, j)
  PROVE  ListInv'
  <1>1. PICK ns, L :
            /\ Heap(listHeap, Data) /\ Chain(listHeap, lists[i], ns, L)
            /\ ToSet(ns) = Own(listHeap, lists[i])
            /\ seqs[i] = DataOf(listHeap, ns, L)
            /\ seqs[i] \in Seq(Data) /\ Len(seqs[i]) = L /\ L \in Nat
    BY ListChain
  <1>2. PICK ms, M :
            /\ Heap(listHeap, Data) /\ Chain(listHeap, lists[j], ms, M)
            /\ ToSet(ms) = Own(listHeap, lists[j])
            /\ seqs[j] = DataOf(listHeap, ms, M)
            /\ seqs[j] \in Seq(Data) /\ Len(seqs[j]) = M /\ M \in Nat
    BY ListChain
  <1>3. /\ Family(listHeap, Which, lists)
        /\ lists \in [Which -> Nodes \cup {NULL}]
        /\ seqs \in [Which -> Seq(Data)]
        /\ \A k \in Which : z3_list_foreach(listHeap, lists[k]) = seqs[k]
    BY DEF ListInv
  <1>4. ToSet(ns) \cap ToSet(ms) = {}
    BY <1>1, <1>2, <1>3 DEF Family
  <1>5. PICK r : r = z3_list_concat(listHeap, lists[i], lists[j])
    OBVIOUS
  <1>6. PICK js : js = Joined(ns, L, ms, M)
    OBVIOUS
  <1>7. /\ Update(Data, listHeap, ToSet(ns) \cup ToSet(ms), r, js, L + M)
        /\ \A x \in DOMAIN listHeap : r.heap[x].data = listHeap[x].data
    <2>1. Concatenated(Data, listHeap, ns, L, ms, M,
                       z3_list_concat(listHeap, lists[i], lists[j]))
      BY <1>1, <1>2, <1>4, ConcatFacts
    <2> QED
      BY <1>5, <1>6, <2>1 DEF Concatenated
  <1>8. /\ listHeap' = r.heap
        /\ lists' = [lists EXCEPT ![i] = r.list, ![j] = NULL]
        /\ seqs' = [seqs EXCEPT ![i] = seqs[i] \o seqs[j], ![j] = << >>]
    BY <1>5 DEF ListConcat
  <1>9. PICK ls : ls = lists'
    OBVIOUS
  <1>10. ls[i] = r.list /\ ls[j] = NULL /\ Which = {i, j} /\ i # j
    BY <1>3, <1>8, <1>9 DEF Which
  <1>11. Changed(Data, listHeap, Which, lists, Which, i, r, js, L + M, ls)
    <2>1. UNION {Own(listHeap, lists[c]) : c \in Which} = ToSet(ns) \cup ToSet(ms)
      BY <1>1, <1>2, <1>10
    <2> QED
      BY <1>1, <1>3, <1>7, <1>10, <2>1 DEF Changed
  <1>12. Heap(r.heap, Data) /\ Family(r.heap, Which, ls)
    BY <1>11, FamilyUpdate
  <1>13. PICK s : s = seqs[i] \o seqs[j]
    OBVIOUS
  <1>14. /\ s \in Seq(Data) /\ Len(s) = L + M
         /\ \A k \in 1 .. L + M :
                s[k] = IF k <= L THEN seqs[i][k] ELSE seqs[j][k - L]
    <2>1. PICK a, b : /\ a = seqs[i] /\ b = seqs[j] /\ a \in Seq(Data)
                      /\ b \in Seq(Data) /\ Len(a) = L /\ Len(b) = M
      BY <1>1, <1>2
    <2>2. /\ a \o b \in Seq(Data) /\ Len(a \o b) = Len(a) + Len(b)
          /\ \A k \in 1 .. Len(a) + Len(b) :
                 (a \o b)[k] = IF k <= Len(a) THEN a[k] ELSE b[k - Len(a)]
      BY <2>1, ConcatProperties
    <2> QED
      BY <1>13, <2>1, <2>2
  <1>15. ASSUME NEW k \in 1 .. L + M PROVE s[k] = r.heap[js[k]].data
    <2>1. js[k] = IF k <= L THEN ns[k] ELSE ms[k - L]
      BY <1>6 DEF Joined
    <2>2. CASE k <= L
      <3>1. k \in 1 .. L
        BY <1>1, <2>2
      <3>2. ns[k] \in DOMAIN listHeap /\ seqs[i][k] = listHeap[ns[k]].data
        BY <1>1, <3>1 DEF Chain, DataOf
      <3> QED
        BY <1>7, <1>14, <2>1, <2>2, <3>2
    <2>3. CASE ~ (k <= L)
      <3>1. PICK m \in 1 .. M : m = k - L
        BY <1>1, <1>2, <2>3
      <3>2. ms[m] \in DOMAIN listHeap /\ seqs[j][m] = listHeap[ms[m]].data
        BY <1>2 DEF Chain, DataOf
      <3> QED
        BY <1>7, <1>14, <2>1, <2>3, <3>1, <3>2
    <2> QED
      BY <2>2, <2>3
  <1>16. s = DataOf(r.heap, js, L + M)
    <2>1. PICK m \in Nat : m = L + M
      BY <1>1, <1>2
    <2> QED
      BY <1>14, <1>15, <2>1, IsDataOf
  <1>17. Chain(r.heap, r.list, js, L + M)
    BY <1>7 DEF Update
  <1>18. r.list \in Nodes \cup {NULL} /\ z3_list_foreach(r.heap, r.list) = s
    BY <1>12, <1>16, <1>17, ChainTypes, ChainReads
  <1>19. z3_list_foreach(r.heap, NULL) = << >>
    <2>1. Chain(r.heap, NULL, << >>, 0)
      BY EmptyChain
    <2>2. z3_list_foreach(r.heap, NULL) = DataOf(r.heap, << >>, 0)
      BY <1>12, <2>1, ChainReads
    <2> QED
      BY <2>2 DEF DataOf
  <1>20. seqs'[i] = s /\ seqs'[j] = << >>
    BY <1>3, <1>8, <1>10, <1>13
  <1>21. \A k \in Which : z3_list_foreach(listHeap', lists'[k]) = seqs'[k]
    BY <1>8, <1>9, <1>10, <1>18, <1>19, <1>20
  <1>22. << >> \in Seq(Data)
    OBVIOUS
  <1>23. /\ lists' \in [Which -> Nodes \cup {NULL}]
         /\ seqs' \in [Which -> Seq(Data)]
    BY <1>3, <1>8, <1>13, <1>14, <1>18, <1>22
  <1>24. Heap(listHeap', Data) /\ Family(listHeap', Which, lists')
    BY <1>8, <1>9, <1>12
  <1> QED
    BY <1>21, <1>23, <1>24 DEF ListInv, Heap, Family, IsList, Own

(* ListInv holds at the beginning.                                         *)
LEMMA ListInitInv ==
  ASSUME ListInit
  PROVE  ListInv
  <1>1. /\ listHeap = << >> /\ DOMAIN listHeap = {}
        /\ \A i \in Which : lists[i] = NULL /\ seqs[i] = << >>
        /\ lists \in [Which -> Nodes \cup {NULL}]
        /\ seqs \in [Which -> Seq(Data)]
    BY DEF ListInit, EmptyHeap
  <1>2. Heap(listHeap, Data)
    BY <1>1 DEF Heap
  <1>3. Chain(listHeap, NULL, << >>, 0) /\ ToSet(<< >>) = {}
    BY EmptyChain DEF ToSet
  <1>4. IsList(listHeap, NULL) /\ Own(listHeap, NULL) = {}
    BY <1>2, <1>3, ListOfChain
  <1>5. z3_list_foreach(listHeap, NULL) = << >>
    <2>1. z3_list_foreach(listHeap, NULL) = DataOf(listHeap, << >>, 0)
      BY <1>2, <1>3, ChainReads
    <2> QED
      BY <2>1 DEF DataOf
  <1>6. Family(listHeap, Which, lists)
    BY <1>1, <1>4 DEF Family
  <1> QED
    BY <1>1, <1>2, <1>5, <1>6 DEF ListInv

(* ListInv implies the invariant that the run checks.                      *)
LEMMA ListInvImplies ==
  ASSUME ListInv
  PROVE  ListIsSequence
  <1>1. ASSUME NEW i \in Which
        PROVE  /\ WellFormed(listHeap, lists[i])
               /\ z3_list_foreach(listHeap, lists[i]) = seqs[i]
               /\ IsFiniteSet(Own(listHeap, lists[i]))
               /\ Cardinality(Own(listHeap, lists[i])) = Len(seqs[i])
               /\ Len(seqs[i]) \in Nat
    <2>1. PICK ns, L :
              /\ Heap(listHeap, Data) /\ Chain(listHeap, lists[i], ns, L)
              /\ ToSet(ns) = Own(listHeap, lists[i])
              /\ Len(seqs[i]) = L /\ L \in Nat
      BY ListChain
    <2>2. WellFormed(listHeap, lists[i])
      BY <2>1, ChainReads
    <2>3. IsFiniteSet(ToSet(ns)) /\ Cardinality(ToSet(ns)) = L
      BY <2>1, OwnSize
    <2>4. z3_list_foreach(listHeap, lists[i]) = seqs[i]
      BY DEF ListInv
    <2> QED
      BY <2>1, <2>2, <2>3, <2>4
  <1>2. PICK A, B : A = Own(listHeap, lists[1]) /\ B = Own(listHeap, lists[2])
    OBVIOUS
  <1>3. 1 \in Which /\ 2 \in Which /\ Which = {1, 2}
    BY DEF Which
  <1>4. DOMAIN listHeap = A \cup B /\ A \cap B = {}
    BY <1>2, <1>3 DEF ListInv, Family
  <1>5. /\ IsFiniteSet(A) /\ Cardinality(A) = Len(seqs[1]) /\ Len(seqs[1]) \in Nat
        /\ IsFiniteSet(B) /\ Cardinality(B) = Len(seqs[2]) /\ Len(seqs[2]) \in Nat
    BY <1>1, <1>2, <1>3
  <1>6. Cardinality(A \cup B) = Cardinality(A) + Cardinality(B) - Cardinality({})
    BY <1>4, <1>5, FS_Union
  <1>7. Cardinality(DOMAIN listHeap) = Len(seqs[1]) + Len(seqs[2])
    <2>1. Cardinality({}) = 0
      BY FS_EmptySet
    <2>2. PICK a, b, c :
              /\ a \in Nat /\ b \in Nat
              /\ a = Len(seqs[1]) /\ b = Len(seqs[2]) /\ c = Cardinality(A \cup B)
              /\ a = Cardinality(A) /\ b = Cardinality(B)
      BY <1>5
    <2>3. c = a + b - 0
      BY <1>6, <2>1, <2>2
    <2>4. c = a + b
      BY <2>2, <2>3
    <2> QED
      BY <1>4, <2>2, <2>4
  <1> QED
    BY <1>1, <1>7 DEF ListIsSequence

(* Every call on a list keeps ListInv.                                     *)
LEMMA ListNextInv ==
  ASSUME ListInv, [ListNext]_listVars
  PROVE  ListInv'
  <1>1. CASE UNCHANGED listVars
    BY <1>1 DEF listVars, ListInv, Heap, Family, IsList, Own
  <1>2. CASE ListNext
    <2>1. PICK i \in Which :
              \/ \E d \in Data :
                     ListAddHead(i, d) \/ ListAddTail(i, d) \/ ListRemove(i, d)
                         \/ ListRemoveAll(i, d)
              \/ \E k \in 1 .. Cardinality(Nodes) : ListDeleteLink(i, k)
              \/ \E j \in Which \ {i} : ListConcat(i, j)
              \/ ListFree(i)
      BY <1>2 DEF ListNext
    <2> QED
      BY <2>1, AddHeadKeeps, AddTailKeeps, RemoveKeeps, RemoveAllKeeps,
         DeleteLinkKeeps, ConcatKeeps, FreeKeeps
  <1> QED
    BY <1>1, <1>2

(* After any calls of the functions of z3_list.c, z3_list_foreach finds    *)
(* the sequence each list stands for, the prev pointers and the number in  *)
(* the first node are right, and no node leaks.                            *)
THEOREM ListCorrect == ListSpec => []ListIsSequence
  <1>1. ListInit => ListInv
    BY ListInitInv
  <1>2. ListInv /\ [ListNext]_listVars => ListInv'
    BY ListNextInv
  <1>3. ListInv => ListIsSequence
    BY ListInvImplies
  <1> QED
    BY <1>1, <1>2, <1>3, PTL DEF ListSpec

-------------------------------------------------------------------------------
(* The blocks of the set S are tracked in the lists bs, each once and in   *)
(* the bucket that the function B gives it.                                *)
Tracks(h, K, bs, B, S) ==
    /\ Heap(h, Blocks) /\ bs \in [K -> Nodes \cup {NULL}] /\ Family(h, K, bs)
    /\ \A k \in K : \A x \in Own(h, bs[k]) : B[h[x].data] = k
    /\ \A x, y \in DOMAIN h : h[x].data = h[y].data => x = y
    /\ S = {h[x].data : x \in DOMAIN h}

(* The list of a bucket is a chain.                                        *)
LEMMA TracksChain ==
  ASSUME NEW h, NEW K, NEW bs, NEW B, NEW S, Tracks(h, K, bs, B, S), NEW k \in K
  PROVE  \E ns, L : /\ Heap(h, Blocks) /\ Chain(h, bs[k], ns, L)
                    /\ ToSet(ns) = Own(h, bs[k]) /\ L \in Nat
                    /\ ns \in [1 .. L -> DOMAIN h]
  <1>1. Heap(h, Blocks) /\ IsList(h, bs[k])
    BY DEF Tracks, Family
  <1>2. PICK ns, L : ns = NodesOf(h, bs[k]) /\ L = Len(ns)
    OBVIOUS
  <1>3. Chain(h, bs[k], ns, L) /\ ToSet(ns) = Own(h, bs[k])
    BY <1>1, <1>2 DEF IsList, Own
  <1>4. L \in Nat /\ ns \in [1 .. L -> DOMAIN h]
    BY <1>3 DEF Chain
  <1> QED
    BY <1>1, <1>3, <1>4

(* A bucket reads back as the tracked blocks that belong to it.            *)
LEMMA TracksReads ==
  ASSUME NEW h, NEW K, NEW bs, NEW B, NEW S, Tracks(h, K, bs, B, S), NEW k \in K
  PROVE  /\ WellFormed(h, bs[k])
         /\ ToSet(z3_list_foreach(h, bs[k])) = {b \in S : B[b] = k}
  <1>1. PICK ns, L : /\ Heap(h, Blocks) /\ Chain(h, bs[k], ns, L)
                     /\ ToSet(ns) = Own(h, bs[k]) /\ L \in Nat
                     /\ ns \in [1 .. L -> DOMAIN h]
    BY TracksChain
  <1>2. WellFormed(h, bs[k]) /\ z3_list_foreach(h, bs[k]) = DataOf(h, ns, L)
    BY <1>1, ChainReads
  <1>3. ToSet(DataOf(h, ns, L)) = {h[x].data : x \in ToSet(ns)}
    BY <1>1 DEF DataOf, ToSet
  <1>4. ASSUME NEW x \in ToSet(ns)
        PROVE  h[x].data \in S /\ B[h[x].data] = k
    <2>1. x \in DOMAIN h
      BY <1>1 DEF ToSet
    <2> QED
      BY <1>1, <2>1 DEF Tracks
  <1>5. ASSUME NEW b \in S, B[b] = k
        PROVE  \E x \in ToSet(ns) : b = h[x].data
    <2>1. PICK x \in DOMAIN h : b = h[x].data
      BY DEF Tracks
    <2>2. PICK j \in K : x \in Own(h, bs[j])
      BY DEF Tracks, Family
    <2>3. B[h[x].data] = j
      BY <2>2 DEF Tracks
    <2> QED
      BY <1>1, <1>5, <2>1, <2>2, <2>3
  <1> QED
    BY <1>2, <1>3, <1>4, <1>5

(* There are as many nodes as tracked blocks.                              *)
LEMMA TracksSize ==
  ASSUME NEW h, NEW K, NEW bs, NEW B, NEW S, Tracks(h, K, bs, B, S)
  PROVE  /\ IsFiniteSet(DOMAIN h) /\ IsFiniteSet(S)
         /\ Cardinality(S) = Cardinality(DOMAIN h)
         /\ Cardinality(DOMAIN h) \in Nat /\ S \subseteq Blocks
  <1>1. DOMAIN h \subseteq Nodes /\ h \in [DOMAIN h -> NodeRecords(Blocks)]
    BY DEF Tracks, Heap
  <1>2. IsFiniteSet(DOMAIN h)
    BY <1>1, NodeAssumption, FS_Subset
  <1>3. PICK f : f = [x \in DOMAIN h |-> h[x].data]
    OBVIOUS
  <1>4. S = {h[x].data : x \in DOMAIN h}
    BY DEF Tracks
  <1>5. f \in [DOMAIN h -> S] /\ \A y \in S : \E x \in DOMAIN h : f[x] = y
    BY <1>3, <1>4
  <1>6. \A x, y \in DOMAIN h : f[x] = f[y] => x = y
    BY <1>3 DEF Tracks
  <1>7. f \in Bijection(DOMAIN h, S)
    BY <1>5, <1>6 DEF Bijection, Injection, IsInjective, Surjection
  <1>8. IsFiniteSet(S) /\ Cardinality(S) = Cardinality(DOMAIN h)
    <2>1. ExistsBijection(DOMAIN h, S)
      BY <1>7 DEF ExistsBijection
    <2> QED
      BY <1>2, <2>1, FS_Bijection
  <1>9. Cardinality(DOMAIN h) \in Nat
    BY <1>2, FS_CardinalityType
  <1>10. S \subseteq Blocks
    BY <1>1, <1>4 DEF NodeRecords
  <1> QED
    BY <1>2, <1>8, <1>9, <1>10

(* z3_list_find finds a block in its bucket exactly if it is tracked.      *)
LEMMA TracksFind ==
  ASSUME NEW h, NEW K, NEW bs, NEW B, NEW S, Tracks(h, K, bs, B, S),
         NEW b, B[b] \in K
  PROVE  Removable(h, bs[B[b]], b) <=> b \in S
  <1>1. PICK k \in K : k = B[b]
    OBVIOUS
  <1>2. PICK ns, L : /\ Heap(h, Blocks) /\ Chain(h, bs[k], ns, L)
                     /\ ToSet(ns) = Own(h, bs[k]) /\ L \in Nat
                     /\ ns \in [1 .. L -> DOMAIN h]
    BY TracksChain
  <1>3. CASE /\ z3_list_find(h, bs[k], b) = NULL
             /\ \A i \in 1 .. L : h[ns[i]].data # b
    <2>1. b \notin S
      <3>1. SUFFICES ASSUME b \in S PROVE FALSE
        OBVIOUS
      <3>2. PICK x \in DOMAIN h : b = h[x].data
        BY <3>1 DEF Tracks
      <3>3. PICK j \in K : x \in Own(h, bs[j])
        BY DEF Tracks, Family
      <3>4. j = k
        BY <1>1, <3>2, <3>3 DEF Tracks
      <3>5. x \in ToSet(ns)
        BY <1>2, <3>3, <3>4
      <3> QED
        BY <1>2, <1>3, <3>2, <3>5 DEF ToSet
    <2> QED
      BY <1>1, <1>3, <2>1 DEF Removable
  <1>4. CASE \E p \in 1 .. L :
                 /\ z3_list_find(h, bs[k], b) = ns[p] /\ ns[p] # NULL
                 /\ h[ns[p]].data = b
    <2>1. PICK p \in 1 .. L : /\ z3_list_find(h, bs[k], b) = ns[p]
                              /\ ns[p] # NULL /\ h[ns[p]].data = b
      BY <1>4
    <2>2. ns[p] \in DOMAIN h
      BY <1>2
    <2>3. b \in S
      BY <2>1, <2>2 DEF Tracks
    <2> QED
      BY <1>1, <2>1, <2>3 DEF Removable
  <1> QED
    BY <1>2, <1>3, <1>4, ChainFind

(* FamilyUpdate for a change of one list.                                  *)
OwnNow(h, I, ls, i, g, ls2, ns) ==
    /\ Own(g, ls2[i]) = ToSet(ns)
    /\ \A j \in I \ {i} : Own(g, ls2[j]) = Own(h, ls[j])

LEMMA OneListUpdate ==
  ASSUME NEW V, NEW h, NEW I, NEW ls, NEW i, NEW r, NEW ns, NEW L,
         NEW ls2, Changed(V, h, I, ls, {i}, i, r, ns, L, ls2)
  PROVE  /\ Heap(r.heap, V) /\ Family(r.heap, I, ls2)
         /\ OwnNow(h, I, ls, i, r.heap, ls2, ns)
  BY FamilyUpdate DEF OwnNow

(* The data of a heap g, if no two nodes have the same.                    *)
BlocksIn(g) == {g[x].data : x \in DOMAIN g}

OneEach(g) == \A x, y \in DOMAIN g : g[x].data = g[y].data => x = y

Belong(g, N, B, k) == \A x \in N : B[g[x].data] = k

(* The structure tracks the blocks its heap has, after a change of bucket  *)
(* k that puts no block there twice or wrongly.                            *)
LEMMA TracksUpdate ==
  ASSUME NEW h, NEW K, NEW bs, NEW B, NEW S, Tracks(h, K, bs, B, S),
         NEW k \in K, NEW r, NEW ns, NEW L, NEW ls,
         Update(Blocks, h, Own(h, bs[k]), r, ns, L),
         ls = [bs EXCEPT ![k] = r.list],
         Belong(r.heap, ToSet(ns), B, k), OneEach(r.heap)
  PROVE  Tracks(r.heap, K, ls, B, BlocksIn(r.heap))
  <1>1. /\ Heap(h, Blocks) /\ Family(h, K, bs) /\ bs \in [K -> Nodes \cup {NULL}]
        /\ \A j \in K : \A x \in Own(h, bs[j]) : B[h[x].data] = j
    BY DEF Tracks
  <1>2. ls[k] = r.list /\ \A j \in K \ {k} : ls[j] = bs[j]
    BY <1>1
  <1>3. UNION {Own(h, bs[c]) : c \in {k}} = Own(h, bs[k])
    OBVIOUS
  <1>4. Changed(Blocks, h, K, bs, {k}, k, r, ns, L, ls)
    BY <1>1, <1>2, <1>3 DEF Changed
  <1>5. /\ Heap(r.heap, Blocks) /\ Family(r.heap, K, ls)
        /\ Own(r.heap, ls[k]) = ToSet(ns)
        /\ \A j \in K \ {k} : Own(r.heap, ls[j]) = Own(h, bs[j])
    <2>1. /\ Heap(r.heap, Blocks) /\ Family(r.heap, K, ls)
          /\ OwnNow(h, K, bs, k, r.heap, ls, ns)
      BY <1>4, OneListUpdate
    <2> QED
      BY <2>1 DEF OwnNow
  <1>6. r.list \in Nodes \cup {NULL}
    <2>1. Chain(r.heap, r.list, ns, L)
      BY DEF Update
    <2> QED
      BY <1>5, <2>1, ChainTypes
  <1>7. ls \in [K -> Nodes \cup {NULL}]
    BY <1>1, <1>6
  <1>8. ASSUME NEW j \in K, NEW x \in Own(r.heap, ls[j])
        PROVE  B[r.heap[x].data] = j
    <2>1. CASE j = k
      BY <1>5, <1>8, <2>1 DEF Belong
    <2>2. CASE j # k
      <3>1. x \in Own(h, bs[j])
        BY <1>5, <1>8, <2>2
      <3>2. x \in DOMAIN h \ Own(h, bs[k])
        BY <1>1, <2>2, <3>1 DEF Family
      <3>3. r.heap[x].data = h[x].data
        BY <3>2 DEF Update, SameNode
      <3> QED
        BY <1>1, <3>1, <3>3
    <2> QED
      BY <2>1, <2>2
  <1> QED
    BY <1>5, <1>7, <1>8 DEF Tracks, OneEach, BlocksIn

(* The heap g tracks the blocks S after h, with n nodes more.              *)
Follows(h, K, ls, B, S, g, n) ==
    /\ Tracks(g, K, ls, B, S)
    /\ Cardinality(DOMAIN g) = Cardinality(DOMAIN h) + n

(* z3_list_add_head tracks one more block.                                 *)
LEMMA TracksInsert ==
  ASSUME NEW h, NEW K, NEW bs, NEW B, NEW S, Tracks(h, K, bs, B, S),
         HasRoom(h), NEW b \in Blocks, b \notin S, NEW k \in K, k = B[b],
         NEW r, r = z3_list_add_head(h, bs[k], b),
         NEW ls, ls = [bs EXCEPT ![k] = r.list]
  PROVE  Follows(h, K, ls, B, S \cup {b}, r.heap, 1)
  <1>1. PICK ns, L : /\ Heap(h, Blocks) /\ Chain(h, bs[k], ns, L)
                     /\ ToSet(ns) = Own(h, bs[k]) /\ L \in Nat
                     /\ ns \in [1 .. L -> DOMAIN h]
    BY TracksChain
  <1>2. PICK n, ms, M : n = r.list /\ ms = Prepended(ns, L, n) /\ M = L + 1
    OBVIOUS
  <1>3. /\ Update(Blocks, h, ToSet(ns), r, ms, M)
        /\ n \in Nodes \ DOMAIN h /\ r.heap[n].data = b
        /\ \A x \in DOMAIN h : r.heap[x].data = h[x].data
    BY <1>1, <1>2, AddHeadFacts
  <1>4. ToSet(ms) = ToSet(ns) \cup {n}
    <2>1. DOMAIN ms = 1 .. M /\ DOMAIN ns = 1 .. L /\ M = L + 1 /\ L \in Nat
      BY <1>1, <1>2 DEF Prepended
    <2>2. ms[1] = n /\ \A i \in 1 .. L : ms[i + 1] = ns[i] /\ i + 1 \in 1 .. M
      BY <1>1, <1>2 DEF Prepended
    <2>3. \A i \in 1 .. M : i = 1 \/ (i - 1 \in 1 .. L /\ ms[i] = ns[i - 1])
      BY <1>1, <1>2 DEF Prepended
    <2>4. 1 \in 1 .. M
      BY <2>1
    <2> QED
      BY <2>1, <2>2, <2>3, <2>4 DEF ToSet
  <1>5. DOMAIN r.heap = DOMAIN h \cup {n}
    <2>1. ToSet(ns) \subseteq DOMAIN h
      BY <1>1 DEF ToSet
    <2> QED
      BY <1>3, <1>4, <2>1 DEF Update
  <1>6. /\ \A x, y \in DOMAIN h : h[x].data = h[y].data => x = y
        /\ \A x \in DOMAIN h : h[x].data \in S
        /\ S = {h[x].data : x \in DOMAIN h}
    BY DEF Tracks
  <1>7. Belong(r.heap, ToSet(ms), B, k)
    <2>1. \A x \in ToSet(ns) : B[h[x].data] = k /\ x \in DOMAIN h
      BY <1>1 DEF Tracks, ToSet
    <2> QED
      BY <1>3, <1>4, <2>1 DEF Belong
  <1>8. OneEach(r.heap)
    BY <1>3, <1>5, <1>6 DEF OneEach
  <1>9. BlocksIn(r.heap) = S \cup {b}
    BY <1>3, <1>5, <1>6 DEF BlocksIn
  <1>10. Tracks(r.heap, K, ls, B, S \cup {b})
    <2>1. Tracks(r.heap, K, ls, B, BlocksIn(r.heap))
      <3>1. Update(Blocks, h, Own(h, bs[k]), r, ms, M)
        BY <1>1, <1>3
      <3> QED
        BY <1>7, <1>8, <3>1, TracksUpdate
    <2> QED
      BY <1>9, <2>1
  <1>11. Cardinality(DOMAIN r.heap) = Cardinality(DOMAIN h) + 1
    <2>1. IsFiniteSet(DOMAIN h)
      BY TracksSize
    <2>2. Cardinality(DOMAIN h \cup {n}) =
              IF n \in DOMAIN h THEN Cardinality(DOMAIN h)
              ELSE Cardinality(DOMAIN h) + 1
      BY <2>1, FS_AddElement
    <2> QED
      BY <1>3, <1>5, <2>2
  <1> QED
    BY <1>10, <1>11 DEF Follows

(* z3_list_remove tracks one block less.                                   *)
LEMMA TracksRemove ==
  ASSUME NEW h, NEW K, NEW bs, NEW B, NEW S, Tracks(h, K, bs, B, S),
         NEW b, b \in S, NEW k \in K, k = B[b],
         NEW r, r = z3_list_remove(h, bs[k], b),
         NEW ls, ls = [bs EXCEPT ![k] = r.list]
  PROVE  Follows(h, K, ls, B, S \ {b}, r.heap, -1)
  <1>1. PICK ns, L : /\ Heap(h, Blocks) /\ Chain(h, bs[k], ns, L)
                     /\ ToSet(ns) = Own(h, bs[k]) /\ L \in Nat
                     /\ ns \in [1 .. L -> DOMAIN h]
    BY TracksChain
  <1>2. PICK p \in 1 .. L : /\ z3_list_find(h, bs[k], b) = ns[p]
                            /\ h[ns[p]].data = b
    <2>1. z3_list_find(h, bs[k], b) # NULL
      BY TracksFind DEF Removable
    <2>2. \/ /\ z3_list_find(h, bs[k], b) = NULL
             /\ \A i \in 1 .. L : h[ns[i]].data # b
          \/ \E p \in 1 .. L :
                /\ z3_list_find(h, bs[k], b) = ns[p] /\ ns[p] # NULL
                /\ h[ns[p]].data = b
                /\ \A i \in 1 .. p - 1 : h[ns[i]].data # b
                /\ p = FirstAt(z3_list_foreach(h, bs[k]), b)
      BY <1>1, ChainFind
    <2> QED
      BY <2>1, <2>2
  <1>3. Removed(Blocks, h, ns, L, p, r)
    BY <1>1, <1>2, RemoveFacts
  <1>4. PICK n, ms, M : n = ns[p] /\ ms = Cut(ns, L, p) /\ M = L - 1
    OBVIOUS
  <1>5. Update(Blocks, h, ToSet(ns), r, ms, M)
    BY <1>1, <1>3, <1>4, CutChain
  <1>6. /\ DOMAIN r.heap = DOMAIN h \ {n} /\ n \in DOMAIN h /\ h[n].data = b
        /\ \A x \in DOMAIN h \ {n} : r.heap[x].data = h[x].data
    BY <1>1, <1>2, <1>3, <1>4 DEF Removed
  <1>7. ToSet(ms) \subseteq ToSet(ns)
    <2>1. DOMAIN ms = 1 .. M /\ DOMAIN ns = 1 .. L
      BY <1>1, <1>4 DEF Cut
    <2>2. \A i \in 1 .. M : \E j \in 1 .. L : ms[i] = ns[j]
      BY <1>1, <1>4 DEF Cut
    <2> QED
      BY <2>1, <2>2 DEF ToSet
  <1>8. ToSet(ms) \subseteq DOMAIN r.heap
    BY <1>5 DEF Update
  <1>9. /\ \A x, y \in DOMAIN h : h[x].data = h[y].data => x = y
        /\ S = {h[x].data : x \in DOMAIN h}
    BY DEF Tracks
  <1>10. Belong(r.heap, ToSet(ms), B, k)
    <2>1. \A x \in ToSet(ns) : B[h[x].data] = k
      BY <1>1 DEF Tracks
    <2> QED
      BY <1>6, <1>7, <1>8, <2>1 DEF Belong
  <1>11. OneEach(r.heap)
    BY <1>6, <1>9 DEF OneEach
  <1>12. BlocksIn(r.heap) = S \ {b}
    BY <1>6, <1>9 DEF BlocksIn
  <1>13. Tracks(r.heap, K, ls, B, S \ {b})
    <2>1. Tracks(r.heap, K, ls, B, BlocksIn(r.heap))
      <3>1. Update(Blocks, h, Own(h, bs[k]), r, ms, M)
        BY <1>1, <1>5
      <3> QED
        BY <1>10, <1>11, <3>1, TracksUpdate
    <2> QED
      BY <1>12, <2>1
  <1>14. Cardinality(DOMAIN r.heap) = Cardinality(DOMAIN h) - 1
    <2>1. IsFiniteSet(DOMAIN h)
      BY TracksSize
    <2>2. Cardinality(DOMAIN h \ {n}) =
              IF n \in DOMAIN h THEN Cardinality(DOMAIN h) - 1
              ELSE Cardinality(DOMAIN h)
      BY <2>1, FS_RemoveElement
    <2> QED
      BY <1>6, <2>2
  <1> QED
    BY <1>13, <1>14, TracksSize DEF Follows

-------------------------------------------------------------------------------
(* The sum that MapThenSumSet computes.                                    *)
Total(f, S) == MapThenSumSet(LAMBDA b : f[b], S)

(* One element of the set s, and the recursion of the sum.                 *)
One(s) == CHOOSE x \in s : TRUE

SumStep(f, g, s) == IF s = {} THEN 0 ELSE f[One(s)] + g[s \ {One(s)}]

Sums(g, f, S) == g = [s \in SUBSET S |-> SumStep(f, g, s)]

LEMMA SumsExist ==
  ASSUME NEW S, IsFiniteSet(S), NEW f
  PROVE  \E g : Sums(g, f, S)
  <1> DEFINE Upto(g, n) ==
               /\ g = [s \in SUBSET S |-> g[s]]
               /\ \A s \in SUBSET S : Cardinality(s) <= n => g[s] = SumStep(f, g, s)
             Bad == {n \in Nat : ~ \E g : Upto(g, n)}
  <1>1. \A s \in SUBSET S : IsFiniteSet(s) /\ Cardinality(s) \in Nat
    BY FS_Subset, FS_CardinalityType
  <1>2. Bad = {}
    <2>1. SUFFICES ASSUME Bad # {} PROVE FALSE
      OBVIOUS
    <2>2. PICK n \in Bad : \A m \in Bad : n <= m
      <3>1. Bad \in SUBSET Nat
        OBVIOUS
      <3> HIDE DEF Bad
      <3> QED
        BY <2>1, <3>1, LeastExists
    <2>3. CASE n = 0
      <3>1. PICK g : g = [s \in SUBSET S |-> 0]
        OBVIOUS
      <3>2. ASSUME NEW s \in SUBSET S, Cardinality(s) <= 0
            PROVE  g[s] = SumStep(f, g, s)
        <4>1. s = {}
          BY <1>1, <3>2, FS_EmptySet
        <4> QED
          BY <3>1, <4>1 DEF SumStep
      <3>3. Upto(g, n)
        BY <2>3, <3>1, <3>2
      <3> QED
        BY <3>3
    <2>4. CASE n # 0
      <3>1. n \in Nat /\ n - 1 \in Nat /\ n - 1 \notin Bad
        <4>1. n \in Nat
          OBVIOUS
        <4> HIDE DEF Bad
        <4> QED
          BY <2>2, <2>4, <4>1
      <3>2. PICK g : Upto(g, n - 1)
        BY <3>1
      <3>3. PICK k : k = [s \in SUBSET S |-> IF Cardinality(s) <= n - 1 THEN g[s]
                                             ELSE SumStep(f, g, s)]
        OBVIOUS
      <3>4. ASSUME NEW s \in SUBSET S, Cardinality(s) <= n
            PROVE  k[s] = SumStep(f, k, s)
        <4>1. CASE s = {}
          <5>1. Cardinality(s) <= n - 1 /\ k[s] = g[s]
            BY <3>1, <3>3, <4>1, FS_EmptySet
          <5> QED
            BY <3>2, <4>1, <5>1 DEF SumStep
        <4>2. CASE s # {}
          <5>1. PICK x : x = One(s) /\ x \in s
            BY <4>2 DEF One
          <5>2. PICK r \in SUBSET S : r = s \ {x}
            OBVIOUS
          <5>3. Cardinality(r) = Cardinality(s) - 1
            BY <1>1, <5>1, <5>2, FS_RemoveElement
          <5>4. Cardinality(r) <= n - 1 /\ k[r] = g[r]
            BY <1>1, <3>1, <3>3, <3>4, <5>3
          <5>5. SumStep(f, k, s) = SumStep(f, g, s)
            BY <5>1, <5>2, <5>4 DEF SumStep
          <5>6. k[s] = SumStep(f, g, s)
            BY <3>2, <3>3
          <5> QED
            BY <5>5, <5>6
        <4> QED
          BY <4>1, <4>2
      <3>5. Upto(k, n)
        BY <3>3, <3>4
      <3> QED
        BY <3>5
    <2> QED
      BY <2>3, <2>4
  <1>3. PICK g : Upto(g, Cardinality(S))
    <2>1. Cardinality(S) \in Nat
      BY FS_CardinalityType
    <2> QED
      BY <1>2, <2>1
  <1>4. \A s \in SUBSET S : Cardinality(s) <= Cardinality(S)
    BY FS_Subset
  <1>5. \A s \in SUBSET S : g[s] = SumStep(f, g, s)
    BY <1>3, <1>4
  <1>6. g = [s \in SUBSET S |-> g[s]]
    BY <1>3
  <1> QED
    BY <1>5, <1>6 DEF Sums

(* Two such sums agree on the sets on which their functions agree.         *)
LEMMA SumsAgree ==
  ASSUME NEW S, IsFiniteSet(S), NEW f, NEW g, Sums(g, f, S),
         NEW T, NEW e, NEW k, Sums(k, e, T), S \subseteq T,
         \A x \in S : f[x] = e[x]
  PROVE  \A s \in SUBSET S : g[s] = k[s]
  <1> DEFINE Bad == {n \in Nat : \E s \in SUBSET S : /\ Cardinality(s) = n
                                                     /\ g[s] # k[s]}
  <1>1. \A s \in SUBSET S : IsFiniteSet(s) /\ Cardinality(s) \in Nat
    BY FS_Subset, FS_CardinalityType
  <1>2. \A s \in SUBSET S : g[s] = SumStep(f, g, s) /\ k[s] = SumStep(e, k, s)
    BY DEF Sums
  <1>3. SUFFICES Bad = {}
    BY <1>1
  <1>4. SUFFICES ASSUME Bad # {} PROVE FALSE
    OBVIOUS
  <1>5. PICK n \in Bad : \A m \in Bad : n <= m
    <2>1. Bad \in SUBSET Nat
      OBVIOUS
    <2> HIDE DEF Bad
    <2> QED
      BY <1>4, <2>1, LeastExists
  <1>6. PICK s \in SUBSET S : Cardinality(s) = n /\ g[s] # k[s]
    OBVIOUS
  <1>7. s # {}
    BY <1>2, <1>6 DEF SumStep
  <1>8. PICK x : x = One(s) /\ x \in s
    BY <1>7 DEF One
  <1>9. PICK r \in SUBSET S : r = s \ {x}
    OBVIOUS
  <1>10. Cardinality(r) = Cardinality(s) - 1
    BY <1>1, <1>8, <1>9, FS_RemoveElement
  <1>11. g[r] = k[r]
    <2>1. Cardinality(r) \in Nat /\ Cardinality(r) \notin Bad
      <3>1. n \in Nat
        OBVIOUS
      <3> HIDE DEF Bad
      <3> QED
        BY <1>1, <1>5, <1>6, <1>10, <3>1
    <2> QED
      BY <2>1
  <1>12. g[s] = f[x] + g[r] /\ k[s] = e[x] + k[r]
    BY <1>2, <1>7, <1>8, <1>9 DEF SumStep
  <1> QED
    BY <1>6, <1>8, <1>11, <1>12

(* The element that a sum is split at does not matter.                     *)
Splits(g, f, S) ==
    \A s \in SUBSET S :
        g[s] \in Int /\ \A b \in s : g[s] = f[b] + g[s \ {b}]

LEMMA SumsSplit ==
  ASSUME NEW S, IsFiniteSet(S), NEW f, \A x \in S : f[x] \in Int,
         NEW g, Sums(g, f, S)
  PROVE  Splits(g, f, S)
  <1> DEFINE OK(s) == /\ g[s] \in Int
                      /\ \A b \in s : g[s] = f[b] + g[s \ {b}]
             Bad == {n \in Nat : \E s \in SUBSET S : /\ Cardinality(s) = n
                                                     /\ ~ OK(s)}
  <1>1. \A s \in SUBSET S : IsFiniteSet(s) /\ Cardinality(s) \in Nat
    BY FS_Subset, FS_CardinalityType
  <1>2. \A s \in SUBSET S : g[s] = SumStep(f, g, s)
    BY DEF Sums
  <1>3. SUFFICES Bad = {}
    BY <1>1 DEF Splits
  <1>4. SUFFICES ASSUME Bad # {} PROVE FALSE
    OBVIOUS
  <1>5. PICK n \in Bad : \A m \in Bad : n <= m
    <2>1. Bad \in SUBSET Nat
      OBVIOUS
    <2> HIDE DEF Bad
    <2> QED
      BY <1>4, <2>1, LeastExists
  <1>6. PICK s \in SUBSET S : Cardinality(s) = n /\ ~ OK(s)
    OBVIOUS
  <1>7. s # {}
    BY <1>2, <1>6 DEF SumStep
  <1>8. PICK x : x = One(s) /\ x \in s
    BY <1>7 DEF One
  <1>9. ASSUME NEW r \in SUBSET S, Cardinality(r) = Cardinality(s) - 1
        PROVE  g[r] \in Int /\ \A b \in r : g[r] = f[b] + g[r \ {b}]
    <2>1. Cardinality(r) \in Nat /\ Cardinality(r) \notin Bad
      <3>1. n \in Nat
        OBVIOUS
      <3> HIDE DEF Bad
      <3> QED
        BY <1>1, <1>5, <1>6, <1>9, <3>1
    <2> QED
      BY <2>1
  <1>10. PICK r \in SUBSET S : r = s \ {x}
    OBVIOUS
  <1>11. Cardinality(r) = Cardinality(s) - 1
    BY <1>1, <1>8, <1>10, FS_RemoveElement
  <1>12. g[s] = f[x] + g[r] /\ g[r] \in Int /\ f[x] \in Int
    BY <1>2, <1>7, <1>8, <1>9, <1>10, <1>11 DEF SumStep
  <1>13. ASSUME NEW b \in s PROVE g[s] = f[b] + g[s \ {b}]
    <2>1. CASE b = x
      BY <1>10, <1>12, <2>1
    <2>2. CASE b # x
      <3>1. PICK q \in SUBSET S : q = s \ {b}
        OBVIOUS
      <3>2. Cardinality(q) = Cardinality(s) - 1
        BY <1>1, <3>1, FS_RemoveElement
      <3>3. b \in r /\ x \in q
        BY <1>8, <1>10, <2>2, <3>1
      <3>4. g[r] = f[b] + g[r \ {b}]
        BY <1>9, <1>11, <3>3
      <3>5. g[q] = f[x] + g[q \ {x}]
        BY <1>9, <3>2, <3>3
      <3>6. PICK d \in SUBSET S : d = r \ {b} /\ d = q \ {x}
        BY <1>10, <3>1
      <3>7. f[b] \in Int /\ f[x] \in Int
        BY <1>8
      <3>8. g[d] \in Int
        <4>1. d = {} => g[d] = 0
          BY <1>2 DEF SumStep
        <4>2. g[r] = f[b] + g[d] /\ g[r] \in Int
          BY <1>12, <3>4, <3>6
        <4>3. ASSUME d # {} PROVE g[d] \in Int
          <5>1. Cardinality(d) = Cardinality(s) - 2
            <6>1. Cardinality(d) = Cardinality(r) - 1
              BY <1>1, <3>3, <3>6, FS_RemoveElement
            <6> QED
              BY <1>1, <1>11, <6>1
          <5>2. Cardinality(d) \notin Bad
            <6>1. n \in Nat
              OBVIOUS
            <6> HIDE DEF Bad
            <6> QED
              BY <1>1, <1>5, <1>6, <5>1, <6>1
          <5> QED
            BY <1>1, <5>2
        <4> QED
          BY <4>1, <4>3
      <3>9. g[s] = f[x] + (f[b] + g[d]) /\ g[q] = f[x] + g[d]
        BY <1>12, <3>4, <3>5, <3>6
      <3> QED
        BY <3>1, <3>7, <3>8, <3>9
    <2> QED
      BY <2>1, <2>2
  <1> QED
    BY <1>6, <1>12, <1>13

(* The total is the value of the recursion.                                *)
LEMMA TotalIsSum ==
  ASSUME NEW S, IsFiniteSet(S), NEW f
  PROVE  \E g : Sums(g, f, S) /\ Total(f, S) = g[S]
  <1> DEFINE G == CHOOSE g : g = [s \in SUBSET S |->
                     IF s = {} THEN 0
                     ELSE f[CHOOSE x \in s : TRUE] + g[s \ {CHOOSE x \in s : TRUE}]]
  <1>1. Total(f, S) = G[S]
    BY DEF Total, MapThenSumSet, MapThenFoldSet
  <1>2. Sums(G, f, S)
    <2> DEFINE Is(g) == g = [s \in SUBSET S |->
                     IF s = {} THEN 0
                     ELSE f[CHOOSE x \in s : TRUE] + g[s \ {CHOOSE x \in s : TRUE}]]
    <2>1. \E g : Is(g)
      <3>1. PICK g : Sums(g, f, S)
        BY SumsExist
      <3> QED
        BY <3>1 DEF Sums, SumStep, One
    <2>2. G = CHOOSE g : Is(g)
      OBVIOUS
    <2>3. Is(G)
      <3> HIDE DEF Is, G
      <3> QED
        BY <2>1, <2>2, Zenon
    <2> QED
      BY <2>3 DEF Sums, SumStep, One
  <1> QED
    BY <1>1, <1>2

(* What totals depend on, and what one more element adds.                  *)
LEMMA TotalSame ==
  ASSUME NEW S, IsFiniteSet(S), NEW f, NEW e, \A x \in S : f[x] = e[x]
  PROVE  Total(f, S) = Total(e, S)
  <1>1. PICK g : Sums(g, f, S) /\ Total(f, S) = g[S]
    BY TotalIsSum
  <1>2. PICK k : Sums(k, e, S) /\ Total(e, S) = k[S]
    BY TotalIsSum
  <1>3. \A s \in SUBSET S : g[s] = k[s]
    BY <1>1, <1>2, SumsAgree
  <1> QED
    BY <1>1, <1>2, <1>3

Adds(f, S, b) == /\ Total(f, S) \in Int
                 /\ Total(f, S \cup {b}) = Total(f, S) + f[b]

LEMMA TotalAdd ==
  ASSUME NEW S, IsFiniteSet(S), NEW f, NEW b, b \notin S,
         \A x \in S \cup {b} : f[x] \in Int
  PROVE  Adds(f, S, b)
  <1>1. PICK T : T = S \cup {b}
    OBVIOUS
  <1>2. IsFiniteSet(T)
    BY <1>1, FS_AddElement
  <1>3. PICK g : Sums(g, f, S) /\ Total(f, S) = g[S]
    BY TotalIsSum
  <1>4. PICK k : Sums(k, f, T) /\ Total(f, T) = k[T]
    BY <1>2, TotalIsSum
  <1>5. \A s \in SUBSET S : g[s] = k[s]
    BY <1>1, <1>3, <1>4, SumsAgree
  <1>6. Splits(k, f, T)
    <2>1. \A x \in T : f[x] \in Int
      BY <1>1
    <2> QED
      BY <1>2, <1>4, <2>1, SumsSplit
  <1>7. T \in SUBSET T /\ S \in SUBSET T /\ b \in T /\ T \ {b} = S
    BY <1>1
  <1>8. k[T] = f[b] + k[S] /\ k[S] \in Int /\ f[b] \in Int
    <2>1. k[T] = f[b] + k[T \ {b}]
      BY <1>6, <1>7 DEF Splits
    <2>2. k[S] \in Int
      BY <1>6, <1>7 DEF Splits
    <2> QED
      BY <1>1, <1>7, <2>1, <2>2
  <1>9. g[S] = k[S]
    BY <1>5
  <1> QED
    BY <1>1, <1>3, <1>4, <1>8, <1>9 DEF Adds

LEMMA TotalEmpty ==
  ASSUME NEW f
  PROVE  Total(f, {}) = 0
  <1>1. IsFiniteSet({})
    BY FS_EmptySet
  <1>2. PICK g : Sums(g, f, {}) /\ Total(f, {}) = g[{}]
    BY <1>1, TotalIsSum
  <1> QED
    BY <1>2 DEF Sums, SumStep

(* Congruence modulo U.                                                    *)
Cong(a, b, U) == \E k \in Int : a - b = k * U

LEMMA ModCong ==
  ASSUME NEW a \in Int, NEW U \in Nat \ {0}
  PROVE  Cong(a % U, a, U) /\ a % U \in Int
  <1>1. a = U * (a \div U) + (a % U) /\ a \div U \in Int /\ a % U \in Int
    OBVIOUS
  <1>2. PICK k \in Int : k = 0 - (a \div U)
    BY <1>1
  <1>3. (a % U) - a = k * U
    BY <1>1, <1>2
  <1> QED
    BY <1>1, <1>3 DEF Cong

LEMMA CongMod ==
  ASSUME NEW a \in Int, NEW b \in Int, NEW U \in Nat \ {0}, Cong(a, b, U)
  PROVE  a % U = b % U
  <1>1. PICK q, r \in Int : q = a \div U /\ r = a % U /\ a = U * q + r /\ 0 <= r /\ r < U
    OBVIOUS
  <1>2. PICK p, s \in Int : p = b \div U /\ s = b % U /\ b = U * p + s /\ 0 <= s /\ s < U
    OBVIOUS
  <1>3. PICK k \in Int : a - b = k * U
    BY DEF Cong
  <1>4. PICK d \in Int : d = k - q + p
    OBVIOUS
  <1>5. r - s = U * d
    BY <1>1, <1>2, <1>3, <1>4
  <1>6. d < 1 /\ d > -1
    <2>1. ~ (d >= 1)
      <3>1. SUFFICES ASSUME d >= 1 PROVE FALSE
        OBVIOUS
      <3>2. U * d >= U
        BY <3>1
      <3> QED
        BY <1>1, <1>2, <1>5, <3>2
    <2>2. ~ (d <= -1)
      <3>1. SUFFICES ASSUME d <= -1 PROVE FALSE
        OBVIOUS
      <3>2. U * d <= -U
        BY <3>1
      <3> QED
        BY <1>1, <1>2, <1>5, <3>2
    <2> QED
      BY <2>1, <2>2
  <1>7. d = 0
    BY <1>6
  <1> QED
    BY <1>1, <1>2, <1>5, <1>7

LEMMA ModEqual ==
  ASSUME NEW a \in Int, NEW b \in Int, NEW U \in Nat \ {0}, a % U = b % U
  PROVE  Cong(a, b, U)
  <1>1. PICK q, r \in Int : q = a \div U /\ r = a % U /\ a = U * q + r
    OBVIOUS
  <1>2. PICK p \in Int : p = b \div U /\ b = U * p + r
    BY <1>1
  <1>3. PICK k \in Int : k = q - p
    OBVIOUS
  <1>4. a - b = k * U
    BY <1>1, <1>2, <1>3
  <1> QED
    BY <1>4 DEF Cong

(* The counters x and y that wrap around at U differ by s.                 *)
Fits(x, y, s, U) == (x - y) % U = s % U

(* Their difference follows what they count.                               *)
LEMMA CountUp ==
  ASSUME NEW x \in Int, NEW y \in Int, NEW s \in Int, NEW n \in Int,
         NEW U \in Nat \ {0}, Fits(x, y, s, U)
  PROVE  Fits((x + n) % U, y, s + n, U)
  <1>1. Cong(x - y, s, U)
    BY ModEqual DEF Fits
  <1>2. PICK a \in Int : a = (x + n) % U /\ Cong(a, x + n, U)
    <2>1. PICK w \in Int : w = x + n
      OBVIOUS
    <2>2. Cong(w % U, w, U) /\ w % U \in Int
      BY ModCong
    <2> QED
      BY <2>1, <2>2
  <1>3. PICK j, k \in Int : (x - y) - s = j * U /\ a - (x + n) = k * U
    BY <1>1, <1>2 DEF Cong
  <1>4. PICK i \in Int : i = j + k
    OBVIOUS
  <1>5. (a - y) - (s + n) = i * U
    BY <1>3, <1>4
  <1>6. PICK p, q \in Int : p = a - y /\ q = s + n
    OBVIOUS
  <1>7. Cong(p, q, U)
    BY <1>5, <1>6 DEF Cong
  <1>8. p % U = q % U
    BY <1>7, CongMod
  <1> QED
    BY <1>2, <1>6, <1>8 DEF Fits

LEMMA CountDown ==
  ASSUME NEW x \in Int, NEW y \in Int, NEW s \in Int, NEW n \in Int,
         NEW U \in Nat \ {0}, Fits(x, y, s, U)
  PROVE  Fits(x, (y + n) % U, s - n, U)
  <1>1. Cong(x - y, s, U)
    BY ModEqual DEF Fits
  <1>2. PICK b \in Int : b = (y + n) % U /\ Cong(b, y + n, U)
    <2>1. PICK w \in Int : w = y + n
      OBVIOUS
    <2>2. Cong(w % U, w, U) /\ w % U \in Int
      BY ModCong
    <2> QED
      BY <2>1, <2>2
  <1>3. PICK j, m \in Int : (x - y) - s = j * U /\ b - (y + n) = m * U
    BY <1>1, <1>2 DEF Cong
  <1>4. PICK i \in Int : i = j - m
    OBVIOUS
  <1>5. (x - b) - (s - n) = i * U
    BY <1>3, <1>4
  <1>6. PICK p, q \in Int : p = x - b /\ q = s - n
    OBVIOUS
  <1>7. Cong(p, q, U)
    BY <1>5, <1>6 DEF Cong
  <1>8. p % U = q % U
    BY <1>7, CongMod
  <1> QED
    BY <1>2, <1>6, <1>8 DEF Fits

-------------------------------------------------------------------------------
(* A record c of the calls of the threads: who is in a call, and who is in *)
(* a call whose block is not tracked.                                      *)
Busy(c, t) == c[t].step # "idle"

InWindow(c, t) ==
    \/ c[t].step \in {"track", "realloc", "number", "release"}
    \/ c[t].step = "trace" /\ c[t].op = "free"

(* The blocks that are tracked, given the blocks D that are allocated, the *)
(* lost ones and the calls.                                                *)
ToTrack(D, Lo, c) ==
    {x \in D : x \notin Lo /\ \A t \in AllocThreads : InWindow(c, t) => c[t].b # x}

(* Every allocated block has one owner, a caller or a call, and a call     *)
(* that works on a lost block has not passed the assertion.                *)
Owners(D, H, Lo, c) ==
    /\ D \subseteq Blocks /\ H \subseteq D /\ Lo \subseteq D
    /\ \A t \in AllocThreads : Busy(c, t) => c[t].b \in D \ H
    /\ \A t, u \in AllocThreads :
           Busy(c, t) /\ Busy(c, u) /\ t # u => c[t].b # c[u].b
    /\ \A x \in D \ H : \E t \in AllocThreads : Busy(c, t) /\ c[t].b = x
    /\ \A t \in AllocThreads :
           Busy(c, t) /\ c[t].step # "untrack" => c[t].b \notin Lo

(* Only thread t does something.                                           *)
Others(c, c2, t) == \A u \in AllocThreads \ {t} : c2[u] = c[u]

(* malloc gives thread t a block.                                          *)
LEMMA OwnersObtain ==
  ASSUME NEW D, NEW H, NEW Lo, NEW c, Owners(D, H, Lo, c), NEW c2,
         NEW t \in AllocThreads, Others(c, c2, t), ~ Busy(c, t),
         NEW b \in Blocks \ D, c2[t].step = "track", c2[t].b = b
  PROVE  /\ Owners(D \cup {b}, H, Lo, c2)
         /\ ToTrack(D \cup {b}, Lo, c2) = ToTrack(D, Lo, c)
  <1>1. Busy(c2, t) /\ InWindow(c2, t) /\ ~ InWindow(c, t)
    BY DEF Busy, InWindow
  <1>2. \A u \in AllocThreads \ {t} :
            /\ Busy(c2, u) <=> Busy(c, u)
            /\ InWindow(c2, u) <=> InWindow(c, u)
            /\ c2[u].b = c[u].b /\ c2[u].step = c[u].step
    BY DEF Others, Busy, InWindow
  <1>3. Owners(D \cup {b}, H, Lo, c2)
    BY <1>1, <1>2 DEF Owners
  <1>4. \A x : x \in ToTrack(D \cup {b}, Lo, c2) <=> x \in ToTrack(D, Lo, c)
    BY <1>1, <1>2 DEF ToTrack
  <1> QED
    BY <1>3, <1>4

(* Thread t goes on in its call with the same block.                       *)
Goes(c, c2, t, Lo) ==
    /\ Others(c, c2, t) /\ Busy(c, t) /\ Busy(c2, t)
    /\ c2[t].b = c[t].b /\ c[t].b \notin Lo

LEMMA OwnersStep ==
  ASSUME NEW D, NEW H, NEW Lo, NEW c, Owners(D, H, Lo, c), NEW c2,
         NEW t \in AllocThreads, Goes(c, c2, t, Lo)
  PROVE  Owners(D, H, Lo, c2)
  <1>1. \A u \in AllocThreads \ {t} :
            /\ Busy(c2, u) <=> Busy(c, u)
            /\ InWindow(c2, u) <=> InWindow(c, u)
            /\ c2[u].b = c[u].b /\ c2[u].step = c[u].step
    BY DEF Goes, Others, Busy, InWindow
  <1>2. \A u \in AllocThreads : (Busy(c2, u) <=> Busy(c, u)) /\ c2[u].b = c[u].b
    BY <1>1 DEF Goes
  <1>3. \A u \in AllocThreads :
            Busy(c2, u) /\ c2[u].step # "untrack" => c2[u].b \notin Lo
    BY <1>1 DEF Goes, Owners
  <1> QED
    BY <1>2, <1>3 DEF Owners

(* Its block stays out of the list, is put into it, or is taken out.       *)
LEMMA StaysOut ==
  ASSUME NEW D, NEW H, NEW Lo, NEW c, Owners(D, H, Lo, c), NEW c2,
         NEW t \in AllocThreads, Goes(c, c2, t, Lo),
         InWindow(c, t), InWindow(c2, t)
  PROVE  ToTrack(D, Lo, c2) = ToTrack(D, Lo, c)
  <1>1. \A u \in AllocThreads \ {t} :
            /\ Busy(c2, u) <=> Busy(c, u)
            /\ InWindow(c2, u) <=> InWindow(c, u)
            /\ c2[u].b = c[u].b /\ c2[u].step = c[u].step
    BY DEF Goes, Others, Busy, InWindow
  <1>2. c[t].b \in D /\ c[t].b \notin Lo /\ c2[t].b = c[t].b
    BY DEF Goes, Owners
  <1>3. \A u \in AllocThreads \ {t} : InWindow(c, u) => c[u].b # c[t].b
    BY DEF Goes, Owners, Busy, InWindow
  <1> QED
    BY <1>1, <1>2 DEF ToTrack

LEMMA PutsIn ==
  ASSUME NEW D, NEW H, NEW Lo, NEW c, Owners(D, H, Lo, c), NEW c2,
         NEW t \in AllocThreads, Goes(c, c2, t, Lo),
         InWindow(c, t), ~ InWindow(c2, t)
  PROVE  ToTrack(D, Lo, c2) = ToTrack(D, Lo, c) \cup {c[t].b}
  <1>1. \A u \in AllocThreads \ {t} :
            /\ Busy(c2, u) <=> Busy(c, u)
            /\ InWindow(c2, u) <=> InWindow(c, u)
            /\ c2[u].b = c[u].b /\ c2[u].step = c[u].step
    BY DEF Goes, Others, Busy, InWindow
  <1>2. c[t].b \in D /\ c[t].b \notin Lo /\ c2[t].b = c[t].b
    BY DEF Goes, Owners
  <1>3. \A u \in AllocThreads \ {t} : InWindow(c, u) => c[u].b # c[t].b
    BY DEF Goes, Owners, Busy, InWindow
  <1> QED
    BY <1>1, <1>2, <1>3 DEF ToTrack

LEMMA TakesOut ==
  ASSUME NEW D, NEW H, NEW Lo, NEW c, Owners(D, H, Lo, c), NEW c2,
         NEW t \in AllocThreads, Goes(c, c2, t, Lo),
         ~ InWindow(c, t), InWindow(c2, t)
  PROVE  ToTrack(D, Lo, c2) = ToTrack(D, Lo, c) \ {c[t].b}
  <1>1. \A u \in AllocThreads \ {t} :
            /\ Busy(c2, u) <=> Busy(c, u)
            /\ InWindow(c2, u) <=> InWindow(c, u)
            /\ c2[u].b = c[u].b /\ c2[u].step = c[u].step
    BY DEF Goes, Others, Busy, InWindow
  <1>2. c[t].b \in D /\ c[t].b \notin Lo /\ c2[t].b = c[t].b
    BY DEF Goes, Owners
  <1>3. \A u \in AllocThreads \ {t} : InWindow(c, u) => c[u].b # c[t].b
    BY DEF Goes, Owners, Busy, InWindow
  <1> QED
    BY <1>1, <1>2, <1>3 DEF ToTrack

(* Thread t returns a block to its caller.                                 *)
Ends(c, c2, t) ==
    /\ Others(c, c2, t) /\ Busy(c, t) /\ ~ Busy(c2, t)
    /\ c[t].step # "untrack"

LEMMA OwnersReturn ==
  ASSUME NEW D, NEW H, NEW Lo, NEW c, Owners(D, H, Lo, c), NEW c2,
         NEW t \in AllocThreads, Ends(c, c2, t)
  PROVE  /\ Owners(D, H \cup {c[t].b}, Lo, c2)
         /\ Owners(D, H \cup {c[t].b}, Lo \cup {c[t].b}, c2)
  <1>1. \A u \in AllocThreads \ {t} :
            /\ Busy(c2, u) <=> Busy(c, u)
            /\ InWindow(c2, u) <=> InWindow(c, u)
            /\ c2[u].b = c[u].b /\ c2[u].step = c[u].step
    BY DEF Ends, Others, Busy, InWindow
  <1>2. c[t].b \in D /\ c[t].b \notin Lo /\ ~ Busy(c2, t) /\ ~ InWindow(c2, t)
    BY DEF Ends, Owners, Busy, InWindow
  <1>3. \A u \in AllocThreads \ {t} : InWindow(c, u) => c[u].b # c[t].b
    BY DEF Ends, Owners, Busy, InWindow
  <1>4. PICK b : b = c[t].b
    OBVIOUS
  <1>5. Owners(D, H \cup {b}, Lo, c2)
    <2>1. Busy(c, t)
      BY DEF Ends
    <2> QED
      BY <1>1, <1>2, <1>4, <2>1 DEF Owners
  <1>6. Owners(D, H \cup {b}, Lo \cup {b}, c2)
    <2>1. \A u \in AllocThreads :
              Busy(c2, u) /\ c2[u].step # "untrack" => c2[u].b \notin Lo \cup {b}
      BY <1>1, <1>2, <1>4 DEF Owners, Ends
    <2> QED
      BY <1>2, <1>4, <1>5, <2>1 DEF Owners
  <1> QED
    BY <1>4, <1>5, <1>6

(* Its block was tracked before, is tracked now, or is lost.               *)
LEMMA ReturnsTracked ==
  ASSUME NEW D, NEW H, NEW Lo, NEW c, Owners(D, H, Lo, c), NEW c2,
         NEW t \in AllocThreads, Ends(c, c2, t), ~ InWindow(c, t)
  PROVE  ToTrack(D, Lo, c2) = ToTrack(D, Lo, c)
  <1>1. \A u \in AllocThreads \ {t} :
            /\ Busy(c2, u) <=> Busy(c, u)
            /\ InWindow(c2, u) <=> InWindow(c, u)
            /\ c2[u].b = c[u].b /\ c2[u].step = c[u].step
    BY DEF Ends, Others, Busy, InWindow
  <1>2. c[t].b \in D /\ c[t].b \notin Lo /\ ~ Busy(c2, t) /\ ~ InWindow(c2, t)
    BY DEF Ends, Owners, Busy, InWindow
  <1>3. \A u \in AllocThreads \ {t} : InWindow(c, u) => c[u].b # c[t].b
    BY DEF Ends, Owners, Busy, InWindow
  <1> QED
    BY <1>1, <1>2 DEF ToTrack

LEMMA ReturnsNew ==
  ASSUME NEW D, NEW H, NEW Lo, NEW c, Owners(D, H, Lo, c), NEW c2,
         NEW t \in AllocThreads, Ends(c, c2, t), InWindow(c, t)
  PROVE  ToTrack(D, Lo, c2) = ToTrack(D, Lo, c) \cup {c[t].b}
  <1>1. \A u \in AllocThreads \ {t} :
            /\ Busy(c2, u) <=> Busy(c, u)
            /\ InWindow(c2, u) <=> InWindow(c, u)
            /\ c2[u].b = c[u].b /\ c2[u].step = c[u].step
    BY DEF Ends, Others, Busy, InWindow
  <1>2. c[t].b \in D /\ c[t].b \notin Lo /\ ~ Busy(c2, t) /\ ~ InWindow(c2, t)
    BY DEF Ends, Owners, Busy, InWindow
  <1>3. \A u \in AllocThreads \ {t} : InWindow(c, u) => c[u].b # c[t].b
    BY DEF Ends, Owners, Busy, InWindow
  <1> QED
    BY <1>1, <1>2, <1>3 DEF ToTrack

LEMMA ReturnsLost ==
  ASSUME NEW D, NEW H, NEW Lo, NEW c, Owners(D, H, Lo, c), NEW c2,
         NEW t \in AllocThreads, Ends(c, c2, t), InWindow(c, t)
  PROVE  ToTrack(D, Lo \cup {c[t].b}, c2) = ToTrack(D, Lo, c)
  <1>1. \A u \in AllocThreads \ {t} :
            /\ Busy(c2, u) <=> Busy(c, u)
            /\ InWindow(c2, u) <=> InWindow(c, u)
            /\ c2[u].b = c[u].b /\ c2[u].step = c[u].step
    BY DEF Ends, Others, Busy, InWindow
  <1>2. c[t].b \in D /\ c[t].b \notin Lo /\ ~ Busy(c2, t) /\ ~ InWindow(c2, t)
    BY DEF Ends, Owners, Busy, InWindow
  <1>3. \A u \in AllocThreads \ {t} : InWindow(c, u) => c[u].b # c[t].b
    BY DEF Ends, Owners, Busy, InWindow
  <1> QED
    BY <1>1, <1>2, <1>3 DEF ToTrack

(* A caller gives a block it holds to thread t.                            *)
LEMMA OwnersGive ==
  ASSUME NEW D, NEW H, NEW Lo, NEW c, Owners(D, H, Lo, c), NEW c2,
         NEW t \in AllocThreads, Others(c, c2, t), ~ Busy(c, t),
         NEW b \in H, c2[t].step = "untrack", c2[t].b = b
  PROVE  /\ Owners(D, H \ {b}, Lo, c2)
         /\ ToTrack(D, Lo, c2) = ToTrack(D, Lo, c)
  <1>1. \A u \in AllocThreads \ {t} :
            /\ Busy(c2, u) <=> Busy(c, u)
            /\ InWindow(c2, u) <=> InWindow(c, u)
            /\ c2[u].b = c[u].b /\ c2[u].step = c[u].step
    BY DEF Others, Busy, InWindow
  <1>2. Busy(c2, t) /\ ~ InWindow(c2, t) /\ ~ InWindow(c, t)
    BY DEF Busy, InWindow
  <1>3. Owners(D, H \ {b}, Lo, c2)
    BY <1>1, <1>2 DEF Owners
  <1>4. ToTrack(D, Lo, c2) = ToTrack(D, Lo, c)
    BY <1>1, <1>2 DEF ToTrack
  <1> QED
    BY <1>3, <1>4

(* Thread t frees its block.                                               *)
LEMMA OwnersRelease ==
  ASSUME NEW D, NEW H, NEW Lo, NEW c, Owners(D, H, Lo, c), NEW c2,
         NEW t \in AllocThreads, Others(c, c2, t), InWindow(c, t),
         ~ Busy(c2, t), NEW b, b = c[t].b
  PROVE  /\ Owners(D \ {b}, H, Lo \ {b}, c2)
         /\ ToTrack(D \ {b}, Lo \ {b}, c2) = ToTrack(D, Lo, c)
  <1>1. \A u \in AllocThreads \ {t} :
            /\ Busy(c2, u) <=> Busy(c, u)
            /\ InWindow(c2, u) <=> InWindow(c, u)
            /\ c2[u].b = c[u].b /\ c2[u].step = c[u].step
    BY DEF Others, Busy, InWindow
  <1>2. Busy(c, t) /\ c[t].step # "untrack" /\ ~ InWindow(c2, t)
    BY DEF Busy, InWindow
  <1>3. b \in D \ H /\ b \notin Lo
    BY <1>2 DEF Owners
  <1>4. Owners(D \ {b}, H, Lo \ {b}, c2)
    BY <1>1, <1>2, <1>3 DEF Owners
  <1>5. ToTrack(D \ {b}, Lo \ {b}, c2) = ToTrack(D, Lo, c)
    BY <1>1, <1>2, <1>3 DEF ToTrack
  <1> QED
    BY <1>4, <1>5

(* realloc moves the block of thread t.                                    *)
LEMMA OwnersMove ==
  ASSUME NEW D, NEW H, NEW Lo, NEW c, Owners(D, H, Lo, c), NEW c2,
         NEW t \in AllocThreads, Others(c, c2, t), InWindow(c, t),
         InWindow(c2, t), NEW a, a = c[t].b,
         NEW b \in (Blocks \ D) \cup {a}, c2[t].b = b
  PROVE  /\ Owners((D \ {a}) \cup {b}, H, Lo, c2)
         /\ ToTrack((D \ {a}) \cup {b}, Lo, c2) = ToTrack(D, Lo, c)
  <1>1. \A u \in AllocThreads \ {t} :
            /\ Busy(c2, u) <=> Busy(c, u)
            /\ InWindow(c2, u) <=> InWindow(c, u)
            /\ c2[u].b = c[u].b /\ c2[u].step = c[u].step
    BY DEF Others, Busy, InWindow
  <1>2. /\ Busy(c, t) /\ c[t].step # "untrack"
        /\ Busy(c2, t) /\ c2[t].step # "untrack"
    BY DEF Busy, InWindow
  <1>3. a \in D \ H /\ a \notin Lo /\ b \notin Lo /\ b \notin H /\ b \in Blocks
    BY <1>2 DEF Owners
  <1>4. \A u \in AllocThreads \ {t} : Busy(c, u) => c[u].b \in D \ {a}
    BY <1>2 DEF Owners
  <1>5. Owners((D \ {a}) \cup {b}, H, Lo, c2)
    BY <1>1, <1>2, <1>3, <1>4 DEF Owners
  <1>6. ToTrack((D \ {a}) \cup {b}, Lo, c2) = ToTrack(D, Lo, c)
    BY <1>1, <1>2, <1>3, <1>4 DEF ToTrack
  <1> QED
    BY <1>5, <1>6

CallRecords ==
    [op : {"none", "malloc", "free", "realloc"},
     step : {"idle", "track", "trace", "untrack", "number", "release",
             "realloc"},
     b : Blocks \cup {NULL}, size : Nat]

StatRecords ==
    [total_allocated_bytes : Int, total_free_bytes : Int,
     maximum_memory_bytes : Int, total_allocated_times : Int,
     total_free_times : Int]

(* Lengths of blocks; two of them that agree on a set.                     *)
Lengths(f) == DOMAIN f \subseteq Blocks /\ f \in [DOMAIN f -> Int]

Agree(f, g, S) == \A x \in S : g[x] = f[x]

(* The steps of the different calls.                                       *)
GoodCall(w) ==
    /\ w.step = "untrack" => w.op \in {"free", "realloc"}
    /\ w.step = "realloc" => w.op = "realloc"
    /\ w.step = "track" => w.op # "free"

CallsTyped ==
    /\ call \in [AllocThreads -> CallRecords]
    /\ \A t \in AllocThreads : GoodCall(call[t])

Bucket == [b \in Blocks |-> BucketOf(b)]

NowTracked == ToTrack(DOMAIN block, lost, call)

(* The counters st fit the blocks S of the lengths f.                      *)
Counted(st, f, S) ==
    /\ Fits(st.total_allocated_bytes, st.total_free_bytes, Total(f, S), UIntRange)
    /\ Fits(st.total_allocated_times, st.total_free_times, Cardinality(S),
            UIntRange)

(* The state of the allocator until _z3_alloc_uninit: every block has one  *)
(* owner, exactly the blocks that no call has taken out and no realloc has *)
(* lost are tracked, each once, and the statistics are theirs.             *)
Running ==
    /\ allocBuild \in {"list", "hash"} /\ stat \in StatRecords
    /\ Lengths(block)
    /\ CallsTyped
    /\ Owners(DOMAIN block, held, lost, call)
    /\ Tracks(nodes, BucketSet, buckets, Bucket, NowTracked)
    /\ available_num = Cardinality(DOMAIN nodes)
    /\ Counted(stat, block, NowTracked)

(* The assertion of z3_list_remove stopped the program at a lost block.    *)
AbortsAtLost ==
    process = "aborted" => \E t \in AllocThreads :
        call[t].step = "untrack" /\ call[t].b \in lost

(* The inductive invariant of the allocator.                               *)
AllocInv ==
    \/ /\ process \in {"runs", "crashed", "aborted"}
       /\ Running
       /\ AbortsAtLost
    \/ process = "uninit" /\ LeaksReported

(* Facts about the state that the steps use.                               *)
LEMMA BucketFacts ==
  ASSUME allocBuild \in {"list", "hash"}
  PROVE  /\ \A b \in Blocks : Bucket[b] = BucketOf(b) /\ Bucket[b] \in BucketSet
         /\ allocBuild = "list" => BucketSet = {TheList}
  <1>1. CASE allocBuild = "hash"
    BY <1>1, AllocAssumption DEF Bucket, BucketOf, BucketSet
  <1>2. CASE allocBuild = "list"
    BY <1>2 DEF Bucket, BucketOf, BucketSet
  <1> QED
    BY <1>1, <1>2

LEMMA NowTrackedIs ==
  NowTracked = DOMAIN block \ (InCall \cup lost)
  BY DEF NowTracked, ToTrack, InCall, Window, InWindow

(* A step that leaves the tracking structure, the blocks tracked and their *)
(* lengths alone.                                                          *)
LEMMA QuietStep ==
  ASSUME Running, UNCHANGED <<allocBuild, tracking>>, Lengths(block'),
         CallsTyped', Owners(DOMAIN block', held', lost', call'),
         NowTracked' = NowTracked,
         Agree(block, block', NowTracked)
  PROVE  Running'
  <1>1. /\ nodes' = nodes /\ buckets' = buckets /\ stat' = stat
        /\ available_num' = available_num /\ allocBuild' = allocBuild
    BY DEF tracking
  <1>2. BucketSet' = BucketSet /\ Bucket' = Bucket
    BY <1>1 DEF BucketSet, Bucket, BucketOf
  <1>3. PICK S : S = NowTracked
    OBVIOUS
  <1>4. Tracks(nodes, BucketSet, buckets, Bucket, S) /\ Counted(stat, block, S)
    BY <1>3 DEF Running
  <1>5. IsFiniteSet(S)
    BY <1>4, TracksSize
  <1>6. Total(block', S) = Total(block, S)
    <2>1. PICK e : e = block'
      OBVIOUS
    <2>2. Total(e, S) = Total(block, S)
      BY <1>3, <1>5, <2>1, TotalSame DEF Agree
    <2> QED
      BY <2>1, <2>2
  <1>7. Counted(stat', block', S)
    BY <1>1, <1>4, <1>6 DEF Counted
  <1>8. Tracks(nodes', BucketSet', buckets', Bucket', S)
    BY <1>1, <1>2, <1>4
  <1>9. NowTracked' = S
    BY <1>3
  <1>10. /\ allocBuild' \in {"list", "hash"} /\ stat' \in StatRecords
         /\ available_num' = Cardinality(DOMAIN nodes')
    BY <1>1 DEF Running
  <1> QED
    BY <1>7, <1>8, <1>9, <1>10 DEF Running

(* Thread t gets the record w.                                             *)
LEMMA CallChange ==
  ASSUME CallsTyped, NEW t \in AllocThreads, NEW w \in CallRecords,
         GoodCall(w), call' = [call EXCEPT ![t] = w]
  PROVE  CallsTyped' /\ Others(call, call', t) /\ call'[t] = w
  <1>1. /\ call' \in [AllocThreads -> CallRecords] /\ call'[t] = w
        /\ \A u \in AllocThreads \ {t} : call'[u] = call[u]
    BY DEF CallsTyped
  <1>2. Others(call, call', t)
    BY <1>1 DEF Others
  <1>3. \A u \in AllocThreads : GoodCall(call'[u])
    BY <1>1 DEF CallsTyped
  <1> QED
    BY <1>1, <1>2, <1>3 DEF CallsTyped

(* The record of a thread that is in no call.                              *)
LEMMA IdleType ==
  Idle \in CallRecords /\ Idle.step = "idle"
  BY DEF Idle, CallRecords

(* What a thread has in its call.                                          *)
LEMMA CallFacts ==
  ASSUME Running, NEW t \in AllocThreads
  PROVE  /\ call[t] \in CallRecords /\ GoodCall(call[t])
         /\ Busy(call, t) => call[t].b \in DOMAIN block /\ call[t].b \in Blocks
         /\ Busy(call, t) /\ call[t].step # "untrack" => call[t].b \notin lost
  <1>1. CallsTyped /\ Owners(DOMAIN block, held, lost, call)
    BY DEF Running
  <1>2. call[t] \in CallRecords /\ GoodCall(call[t])
    BY <1>1 DEF CallsTyped
  <1> QED
    BY <1>1, <1>2 DEF Owners

(* The blocks after one was added or taken away.                           *)
LEMMA BlockPut ==
  ASSUME NEW f, Lengths(f), NEW b \in Blocks, NEW n \in Int
  PROVE  /\ Lengths(Put(f, b, n)) /\ DOMAIN Put(f, b, n) = DOMAIN f \cup {b}
         /\ Agree(f, Put(f, b, n), DOMAIN f \ {b})
  BY DEF Put, Lengths, Agree

LEMMA BlockTaken ==
  ASSUME NEW f, Lengths(f), NEW b
  PROVE  /\ Lengths(Restrict(f, DOMAIN f \ {b}))
         /\ DOMAIN Restrict(f, DOMAIN f \ {b}) = DOMAIN f \ {b}
         /\ Agree(f, Restrict(f, DOMAIN f \ {b}), DOMAIN f \ {b})
  BY DEF Restrict, Lengths, Agree

LEMMA AlignInt ==
  ASSUME NEW n \in Nat
  PROVE  Align(n) \in Int
  BY AllocAssumption DEF Align

(* A block in the window of a call is not tracked.                         *)
LEMMA NotTracked ==
  ASSUME NEW D, NEW Lo, NEW c, NEW t \in AllocThreads, InWindow(c, t)
  PROVE  c[t].b \notin ToTrack(D, Lo, c)
  BY DEF ToTrack

(* malloc, calloc and strdup.                                              *)
LEMMA ObtainKeeps ==
  ASSUME Running, NEW t \in AllocThreads, call[t].step = "idle",
         NEW size \in Nat, Obtain(t, "malloc", size),
         UNCHANGED <<allocBuild, tracking, held, lost>>
  PROVE  Running'
  <1>1. CASE UNCHANGED <<block, call>>
    <2>1. Lengths(block') /\ CallsTyped'
      BY <1>1 DEF Running, CallsTyped
    <2>2. NowTracked' = NowTracked
      BY <1>1 DEF NowTracked
    <2>3. Owners(DOMAIN block', held', lost', call')
      BY <1>1 DEF Running
    <2>4. Agree(block, block', NowTracked)
      BY <1>1 DEF Agree
    <2> QED
      BY <2>1, <2>2, <2>3, <2>4, QuietStep
  <1>2. ASSUME NEW b \in Blocks \ DOMAIN block,
               block' = Put(block, b, Align(size)),
               call' = [call EXCEPT ![t] = [op |-> "malloc", step |-> "track",
                                            b |-> b, size |-> size]]
        PROVE  Running'
    <2>0. PICK w : w = [op |-> "malloc", step |-> "track", b |-> b, size |-> size]
      OBVIOUS
    <2>1. w \in CallRecords /\ w.step = "track" /\ w.b = b /\ GoodCall(w)
      BY <2>0 DEF CallRecords, GoodCall
    <2>2. CallsTyped' /\ Others(call, call', t) /\ call'[t] = w
      <3>1. CallsTyped /\ call' = [call EXCEPT ![t] = w]
        BY <1>2, <2>0 DEF Running
      <3> QED
        BY <2>1, <3>1, CallChange
    <2>3. PICK f, g : f = block /\ g = block'
      OBVIOUS
    <2>4. Lengths(g) /\ DOMAIN g = DOMAIN f \cup {b} /\ Agree(f, g, DOMAIN f \ {b})
      <3>1. Lengths(f)
        BY <2>3 DEF Running
      <3>2. PICK n \in Int : n = Align(size)
        BY AlignInt
      <3>3. g = Put(f, b, n) /\ b \in Blocks
        BY <1>2, <2>3, <3>2
      <3> QED
        BY <3>1, <3>3, BlockPut
    <2>5. Lengths(block')
      BY <2>3, <2>4
    <2>6. PICK c : c = call'
      OBVIOUS
    <2>7. /\ Owners(DOMAIN f \cup {b}, held, lost, c)
          /\ ToTrack(DOMAIN f \cup {b}, lost, c) = ToTrack(DOMAIN f, lost, call)
      <3>1. Owners(DOMAIN f, held, lost, call)
        BY <2>3 DEF Running
      <3>2. Others(call, c, t) /\ ~ Busy(call, t) /\ b \in Blocks \ DOMAIN f
        BY <2>2, <2>3, <2>6 DEF Busy
      <3>3. c[t].step = "track" /\ c[t].b = b
        BY <2>1, <2>2, <2>6
      <3> QED
        BY <3>1, <3>2, <3>3, OwnersObtain
    <2>8. Owners(DOMAIN block', held', lost', call')
      BY <2>3, <2>4, <2>6, <2>7
    <2>9. NowTracked' = NowTracked
      BY <2>3, <2>4, <2>6, <2>7 DEF NowTracked
    <2>10. Agree(block, block', NowTracked)
      <3>1. NowTracked \subseteq DOMAIN f
        BY <2>3 DEF NowTracked, ToTrack
      <3> QED
        BY <2>3, <2>4, <3>1 DEF Agree
    <2> QED
      BY <2>2, <2>5, <2>8, <2>9, <2>10, QuietStep
  <1> QED
    BY <1>1, <1>2 DEF Obtain

(* A caller frees or resizes a block.                                      *)
LEMMA GiveKeeps ==
  ASSUME Running, NEW t \in AllocThreads, call[t].step = "idle",
         NEW b \in held, NEW w \in CallRecords, w.step = "untrack",
         w.op \in {"free", "realloc"}, w.b = b,
         held' = held \ {b}, call' = [call EXCEPT ![t] = w],
         UNCHANGED <<allocBuild, tracking, block, lost>>
  PROVE  Running'
  <1>1. CallsTyped' /\ Others(call, call', t) /\ call'[t] = w
    <2>1. CallsTyped /\ GoodCall(w)
      BY DEF Running, GoodCall
    <2> QED
      BY <2>1, CallChange
  <1>2. PICK c : c = call'
    OBVIOUS
  <1>3. /\ Owners(DOMAIN block, held \ {b}, lost, c)
        /\ ToTrack(DOMAIN block, lost, c) = ToTrack(DOMAIN block, lost, call)
    <2>1. Owners(DOMAIN block, held, lost, call)
      BY DEF Running
    <2>2. Others(call, c, t) /\ ~ Busy(call, t)
      BY <1>1, <1>2 DEF Busy
    <2>3. c[t].step = "untrack" /\ c[t].b = b
      BY <1>1, <1>2
    <2> QED
      BY <2>1, <2>2, <2>3, OwnersGive
  <1>4. Owners(DOMAIN block', held', lost', call')
    BY <1>2, <1>3
  <1>5. NowTracked' = NowTracked /\ Lengths(block')
    BY <1>2, <1>3 DEF NowTracked, Running
  <1>6. Agree(block, block', NowTracked)
    BY DEF Agree
  <1> QED
    BY <1>1, <1>4, <1>5, <1>6, QuietStep

(* A step inside a call that stays in the window, or that aborts or        *)
(* crashes.                                                                *)
LEMMA StepKeeps ==
  ASSUME Running, NEW t \in AllocThreads, InWindow(call, t),
         NEW step \in {"number", "release"}, Step(t, step),
         UNCHANGED <<allocBuild, tracking, block, held, lost>>
  PROVE  Running'
  <1>1. /\ call[t] \in CallRecords /\ Busy(call, t)
        /\ call[t].step # "untrack" /\ call[t].b \notin lost
    BY CallFacts DEF InWindow, Busy
  <1>2. PICK w : w = [call[t] EXCEPT !.step = step]
    OBVIOUS
  <1>3. w \in CallRecords /\ w.step = step /\ w.b = call[t].b /\ GoodCall(w)
    BY <1>1, <1>2 DEF CallRecords, GoodCall
  <1>4. CallsTyped' /\ Others(call, call', t) /\ call'[t] = w
    <2>1. CallsTyped /\ call' = [call EXCEPT ![t] = w]
      BY <1>2 DEF Running, Step
    <2> QED
      BY <1>3, <2>1, CallChange
  <1>5. PICK c : c = call'
    OBVIOUS
  <1>6. /\ Owners(DOMAIN block, held, lost, c)
        /\ ToTrack(DOMAIN block, lost, c) = ToTrack(DOMAIN block, lost, call)
    <2>1. Owners(DOMAIN block, held, lost, call)
      BY DEF Running
    <2>2. Goes(call, c, t, lost) /\ InWindow(c, t)
      BY <1>1, <1>3, <1>4, <1>5 DEF Busy, InWindow, Goes
    <2> QED
      BY <2>1, <2>2, OwnersStep, StaysOut
  <1>7. Owners(DOMAIN block', held', lost', call')
    BY <1>5, <1>6
  <1>8. NowTracked' = NowTracked /\ Lengths(block')
    BY <1>5, <1>6 DEF NowTracked, Running
  <1>9. Agree(block, block', NowTracked)
    BY DEF Agree
  <1> QED
    BY <1>4, <1>7, <1>8, <1>9, QuietStep

(* A call returns; what it leaves in its thread.                           *)
LEMMA ReturnCall ==
  ASSUME CallsTyped, NEW t \in AllocThreads, Return(t)
  PROVE  CallsTyped' /\ Others(call, call', t) /\ ~ Busy(call', t)
  <1>1. PICK w \in CallRecords : w = Idle /\ w.step = "idle"
    BY IdleType
  <1>2. CallsTyped' /\ Others(call, call', t) /\ call'[t] = w
    <2>1. GoodCall(w) /\ call' = [call EXCEPT ![t] = w]
      BY <1>1 DEF Return, GoodCall
    <2> QED
      BY <2>1, CallChange
  <1> QED
    BY <1>1, <1>2 DEF Busy

(* TraceAlloc returns a block that is tracked already.                     *)
LEMMA TraceAllocKeeps ==
  ASSUME Running, NEW t \in AllocThreads, call[t].step = "trace",
         call[t].op # "free", Return(t), held' = held \cup {call[t].b},
         UNCHANGED <<allocBuild, tracking, block, lost>>
  PROVE  Running'
  <1>1. CallsTyped' /\ Others(call, call', t) /\ ~ Busy(call', t)
    BY ReturnCall DEF Running
  <1>2. PICK c : c = call'
    OBVIOUS
  <1>3. /\ Owners(DOMAIN block, held \cup {call[t].b}, lost, c)
        /\ ToTrack(DOMAIN block, lost, c) = ToTrack(DOMAIN block, lost, call)
    <2>1. Owners(DOMAIN block, held, lost, call)
      BY DEF Running
    <2>2. Ends(call, c, t) /\ ~ InWindow(call, t)
      BY <1>1, <1>2 DEF Ends, Busy, InWindow
    <2>3. Owners(DOMAIN block, held \cup {call[t].b}, lost, c)
      BY <2>1, <2>2, OwnersReturn
    <2>4. ToTrack(DOMAIN block, lost, c) = ToTrack(DOMAIN block, lost, call)
      BY <2>1, <2>2, ReturnsTracked
    <2> QED
      BY <2>3, <2>4
  <1>4. Owners(DOMAIN block', held', lost', call')
    BY <1>2, <1>3
  <1>5. NowTracked' = NowTracked /\ Lengths(block')
    BY <1>2, <1>3 DEF NowTracked, Running
  <1>6. Agree(block, block', NowTracked)
    BY DEF Agree
  <1> QED
    BY <1>1, <1>4, <1>5, <1>6, QuietStep

(* A realloc that fails returns a block that stays out of the list.        *)
LEMMA ReallocFailsKeeps ==
  ASSUME Running, NEW t \in AllocThreads, call[t].step = "realloc",
         Return(t), held' = held \cup {call[t].b},
         lost' = lost \cup {call[t].b},
         UNCHANGED <<allocBuild, tracking, block>>
  PROVE  Running'
  <1>1. CallsTyped' /\ Others(call, call', t) /\ ~ Busy(call', t)
    BY ReturnCall DEF Running
  <1>2. PICK c : c = call'
    OBVIOUS
  <1>3. /\ Owners(DOMAIN block, held \cup {call[t].b}, lost \cup {call[t].b}, c)
        /\ ToTrack(DOMAIN block, lost \cup {call[t].b}, c)
               = ToTrack(DOMAIN block, lost, call)
    <2>1. Owners(DOMAIN block, held, lost, call)
      BY DEF Running
    <2>2. Ends(call, c, t) /\ InWindow(call, t)
      BY <1>1, <1>2 DEF Ends, Busy, InWindow
    <2> QED
      BY <2>1, <2>2, OwnersReturn, ReturnsLost
  <1>4. Owners(DOMAIN block', held', lost', call')
    BY <1>2, <1>3
  <1>5. NowTracked' = NowTracked /\ Lengths(block')
    BY <1>2, <1>3 DEF NowTracked, Running
  <1>6. Agree(block, block', NowTracked)
    BY DEF Agree
  <1> QED
    BY <1>1, <1>4, <1>5, <1>6, QuietStep

(* The block is given back to the C library.                               *)
LEMMA ReleaseKeeps ==
  ASSUME Running, NEW t \in AllocThreads, ReleaseBlock(t)
  PROVE  Running'
  <1>1. /\ call[t].step = "release" /\ Return(t)
        /\ lost' = lost \ {call[t].b}
        /\ block' = Restrict(block, DOMAIN block \ {call[t].b})
        /\ UNCHANGED <<allocBuild, tracking, held>>
    BY DEF ReleaseBlock, Runs
  <1>2. CallsTyped' /\ Others(call, call', t) /\ ~ Busy(call', t)
    BY <1>1, ReturnCall DEF Running
  <1>3. PICK c, b, f : c = call' /\ b = call[t].b /\ f = block'
    OBVIOUS
  <1>4. /\ Owners(DOMAIN block \ {b}, held, lost \ {b}, c)
        /\ ToTrack(DOMAIN block \ {b}, lost \ {b}, c)
               = ToTrack(DOMAIN block, lost, call)
    <2>1. Owners(DOMAIN block, held, lost, call)
      BY DEF Running
    <2>2. Others(call, c, t) /\ InWindow(call, t) /\ ~ Busy(c, t)
      BY <1>1, <1>2, <1>3 DEF InWindow
    <2> QED
      BY <1>3, <2>1, <2>2, OwnersRelease
  <1>5. /\ Lengths(f) /\ DOMAIN f = DOMAIN block \ {b}
        /\ Agree(block, f, DOMAIN block \ {b})
    <2>1. Lengths(block) /\ f = Restrict(block, DOMAIN block \ {b})
      BY <1>1, <1>3 DEF Running
    <2> QED
      BY <2>1, BlockTaken
  <1>6. Owners(DOMAIN block', held', lost', call')
    BY <1>1, <1>3, <1>4, <1>5
  <1>7. NowTracked' = NowTracked /\ Lengths(block')
    BY <1>1, <1>3, <1>4, <1>5 DEF NowTracked
  <1>8. Agree(block, block', NowTracked)
    <2>1. NowTracked \subseteq DOMAIN block \ {b}
      BY <1>4 DEF NowTracked, ToTrack
    <2> QED
      BY <1>3, <1>5, <2>1 DEF Agree
  <1> QED
    BY <1>1, <1>2, <1>6, <1>7, <1>8, QuietStep

(* The C library kept or moved the block.                                  *)
LEMMA ReallocDoneKeeps ==
  ASSUME Running, NEW t \in AllocThreads, ReallocDone(t)
  PROVE  Running'
  <1>1. PICK b \in (Blocks \ DOMAIN block) \cup {call[t].b} :
            /\ block' = Put(Restrict(block, DOMAIN block \ {call[t].b}),
                            b, Align(call[t].size))
            /\ call' = [call EXCEPT ![t].step = "track", ![t].b = b]
    BY DEF ReallocDone
  <1>2. /\ call[t].step = "realloc"
        /\ UNCHANGED <<allocBuild, tracking, held, lost>>
    BY DEF ReallocDone, Runs
  <1>3. /\ InWindow(call, t) /\ call[t] \in CallRecords
        /\ call[t].b \in DOMAIN block /\ call[t].b \in Blocks
        /\ call[t].op = "realloc"
    BY <1>2, CallFacts DEF InWindow, Busy, GoodCall
  <1>4. PICK w : w = [call[t] EXCEPT !.step = "track", !.b = b]
    OBVIOUS
  <1>5. /\ w \in CallRecords /\ w.step = "track" /\ w.b = b /\ b \in Blocks
        /\ GoodCall(w)
    BY <1>3, <1>4 DEF CallRecords, GoodCall
  <1>6. CallsTyped' /\ Others(call, call', t) /\ call'[t] = w
    <2>1. CallsTyped
      BY DEF Running
    <2>2. call' = [call EXCEPT ![t] = w]
      BY <1>1, <1>4, <2>1 DEF CallsTyped
    <2> QED
      BY <1>5, <2>1, <2>2, CallChange
  <1>7. PICK c, a, f, g : /\ c = call' /\ a = call[t].b /\ g = block'
                          /\ f = Restrict(block, DOMAIN block \ {a})
    OBVIOUS
  <1>8. /\ Owners((DOMAIN block \ {a}) \cup {b}, held, lost, c)
        /\ ToTrack((DOMAIN block \ {a}) \cup {b}, lost, c)
               = ToTrack(DOMAIN block, lost, call)
    <2>1. Owners(DOMAIN block, held, lost, call)
      BY DEF Running
    <2>2. Others(call, c, t) /\ InWindow(c, t) /\ c[t].b = b
      BY <1>5, <1>6, <1>7 DEF InWindow
    <2>3. b \in (Blocks \ DOMAIN block) \cup {a}
      BY <1>7
    <2> QED
      BY <1>3, <1>7, <2>1, <2>2, <2>3, OwnersMove
  <1>9. /\ Lengths(f) /\ DOMAIN f = DOMAIN block \ {a}
        /\ Agree(block, f, DOMAIN block \ {a})
    <2>1. Lengths(block)
      BY DEF Running
    <2> QED
      BY <1>7, <2>1, BlockTaken
  <1>10. Lengths(g) /\ DOMAIN g = DOMAIN f \cup {b} /\ Agree(f, g, DOMAIN f \ {b})
    <2>1. PICK n \in Int : n = Align(call[t].size)
      <3>1. call[t].size \in Nat
        BY <1>3 DEF CallRecords
      <3> QED
        BY <3>1, AlignInt
    <2>2. g = Put(f, b, n)
      BY <1>1, <1>7, <2>1
    <2> QED
      BY <1>5, <1>9, <2>2, BlockPut
  <1>11. Owners(DOMAIN block', held', lost', call')
    BY <1>2, <1>7, <1>8, <1>9, <1>10
  <1>12. NowTracked' = NowTracked /\ Lengths(block')
    BY <1>2, <1>7, <1>8, <1>9, <1>10 DEF NowTracked
  <1>13. Agree(block, block', NowTracked)
    <2>1. a \notin NowTracked /\ NowTracked \subseteq DOMAIN block
      BY <1>3, <1>7 DEF NowTracked, ToTrack
    <2>2. b \notin NowTracked
      BY <1>7, <2>1
    <2> QED
      BY <1>7, <1>9, <1>10, <2>1, <2>2 DEF Agree
  <1> QED
    BY <1>2, <1>6, <1>11, <1>12, <1>13, QuietStep

(* There is a node for a block that is not tracked.                        *)
LEMMA RoomFor ==
  ASSUME NEW h, NEW K, NEW bs, NEW B, NEW S, Tracks(h, K, bs, B, S),
         NEW b \in Blocks, b \notin S
  PROVE  HasRoom(h)
  <1>1. /\ IsFiniteSet(S) /\ Cardinality(S) = Cardinality(DOMAIN h)
        /\ S \subseteq Blocks /\ Cardinality(DOMAIN h) \in Nat
    BY TracksSize
  <1>2. DOMAIN h \subseteq Nodes
    BY DEF Tracks, Heap
  <1>3. IsFiniteSet(S \cup {b}) /\ Cardinality(S \cup {b}) = Cardinality(S) + 1
    BY <1>1, FS_AddElement
  <1>4. Cardinality(S \cup {b}) <= Cardinality(Blocks)
    <2>1. S \cup {b} \in SUBSET Blocks
      BY <1>1
    <2> QED
      BY <2>1, AllocAssumption, FS_Subset
  <1>5. Cardinality(Blocks) \in Nat /\ Cardinality(Nodes) \in Nat
    BY AllocAssumption, NodeAssumption, FS_CardinalityType
  <1>6. Cardinality(DOMAIN h) # Cardinality(Nodes)
    BY <1>1, <1>3, <1>4, <1>5, AllocAssumption
  <1>7. DOMAIN h # Nodes
    BY <1>6
  <1> QED
    BY <1>2, <1>7 DEF HasRoom

(* The counters after an allocation and after a free.                      *)
LEMMA CountedMore ==
  ASSUME NEW st \in StatRecords, NEW f, NEW S, IsFiniteSet(S),
         Counted(st, f, S), NEW b, b \notin S,
         \A x \in S \cup {b} : f[x] \in Int, NEW st2,
         st2.total_allocated_bytes = (st.total_allocated_bytes + f[b]) % UIntRange,
         st2.total_allocated_times = (st.total_allocated_times + 1) % UIntRange,
         st2.total_free_bytes = st.total_free_bytes,
         st2.total_free_times = st.total_free_times
  PROVE  Counted(st2, f, S \cup {b})
  <1>1. UIntRange \in Nat \ {0}
    BY AllocAssumption
  <1>2. PICK x, y, n : /\ x = st.total_allocated_bytes /\ y = st.total_free_bytes
                       /\ n = f[b] /\ x \in Int /\ y \in Int /\ n \in Int
    BY DEF StatRecords
  <1>3. PICK v, w : /\ v = st.total_allocated_times /\ w = st.total_free_times
                    /\ v \in Int /\ w \in Int
    BY DEF StatRecords
  <1>4. PICK z, m : /\ z = Total(f, S) /\ m = Cardinality(S)
                    /\ z \in Int /\ m \in Int
    <2>1. Adds(f, S, b)
      BY TotalAdd
    <2>2. Cardinality(S) \in Nat
      BY FS_CardinalityType
    <2> QED
      BY <2>1, <2>2 DEF Adds
  <1>5. Fits(x, y, z, UIntRange) /\ Fits(v, w, m, UIntRange)
    BY <1>2, <1>3, <1>4 DEF Counted
  <1>6. Fits((x + n) % UIntRange, y, z + n, UIntRange)
    BY <1>1, <1>2, <1>4, <1>5, CountUp
  <1>7. Fits((v + 1) % UIntRange, w, m + 1, UIntRange)
    BY <1>1, <1>3, <1>4, <1>5, CountUp
  <1>8. Total(f, S \cup {b}) = z + n
    <2>1. Adds(f, S, b)
      BY TotalAdd
    <2> QED
      BY <1>2, <1>4, <2>1 DEF Adds
  <1>9. Cardinality(S \cup {b}) = m + 1
    BY <1>4, FS_AddElement
  <1> QED
    BY <1>2, <1>3, <1>6, <1>7, <1>8, <1>9 DEF Counted

LEMMA CountedLess ==
  ASSUME NEW st \in StatRecords, NEW f, NEW S, IsFiniteSet(S),
         Counted(st, f, S), NEW b, b \in S,
         \A x \in S : f[x] \in Int, NEW st2,
         st2.total_free_bytes = (st.total_free_bytes + f[b]) % UIntRange,
         st2.total_free_times = (st.total_free_times + 1) % UIntRange,
         st2.total_allocated_bytes = st.total_allocated_bytes,
         st2.total_allocated_times = st.total_allocated_times
  PROVE  Counted(st2, f, S \ {b})
  <1>1. UIntRange \in Nat \ {0}
    BY AllocAssumption
  <1>2. PICK x, y, n : /\ x = st.total_allocated_bytes /\ y = st.total_free_bytes
                       /\ n = f[b] /\ x \in Int /\ y \in Int /\ n \in Int
    BY DEF StatRecords
  <1>3. PICK v, w : /\ v = st.total_allocated_times /\ w = st.total_free_times
                    /\ v \in Int /\ w \in Int
    BY DEF StatRecords
  <1>4. PICK R : R = S \ {b} /\ b \notin R /\ R \cup {b} = S
    <2>1. b \notin S \ {b} /\ (S \ {b}) \cup {b} = S
      OBVIOUS
    <2> QED
      BY <2>1
  <1>5. IsFiniteSet(R) /\ Cardinality(R) = Cardinality(S) - 1
    BY <1>4, FS_RemoveElement
  <1>6. Total(f, R) \in Int /\ Total(f, R \cup {b}) = Total(f, R) + f[b]
    <2>1. \A d \in R \cup {b} : f[d] \in Int
      BY <1>4
    <2>2. Adds(f, R, b)
      BY <1>4, <1>5, <2>1, TotalAdd
    <2> QED
      BY <2>2 DEF Adds
  <1>7. PICK z, m : /\ z = Total(f, S) /\ m = Cardinality(S)
                    /\ z \in Int /\ m \in Int /\ Total(f, R) = z - n
    <2>1. Total(f, S) = Total(f, R) + n
      BY <1>2, <1>4, <1>6
    <2>2. Cardinality(S) \in Nat
      BY FS_CardinalityType
    <2>3. PICK q \in Int : q = Total(f, R)
      BY <1>6
    <2>4. q + n \in Int /\ q = (q + n) - n
      BY <1>2
    <2>5. Total(f, S) \in Int /\ Total(f, R) = Total(f, S) - n
      BY <2>1, <2>3, <2>4
    <2> QED
      BY <2>2, <2>5
  <1>8. Fits(x, y, z, UIntRange) /\ Fits(v, w, m, UIntRange)
    BY <1>2, <1>3, <1>7 DEF Counted
  <1>9. Fits(x, (y + n) % UIntRange, z - n, UIntRange)
    BY <1>1, <1>2, <1>7, <1>8, CountDown
  <1>10. Fits(v, (w + 1) % UIntRange, m - 1, UIntRange)
    BY <1>1, <1>3, <1>7, <1>8, CountDown
  <1>11. Counted(st2, f, R)
    BY <1>2, <1>3, <1>5, <1>7, <1>9, <1>10 DEF Counted
  <1> QED
    BY <1>4, <1>11

(* A step of the tracking structure: what is left to show.                 *)
LEMMA TrackingStep ==
  ASSUME Running, UNCHANGED <<allocBuild, block>>, CallsTyped',
         Owners(DOMAIN block', held', lost', call'), stat' \in StatRecords,
         NEW S, NowTracked' = S,
         Tracks(nodes', BucketSet, buckets', Bucket, S),
         available_num' = Cardinality(DOMAIN nodes'),
         Counted(stat', block, S)
  PROVE  Running'
  <1>1. BucketSet' = BucketSet /\ Bucket' = Bucket
    BY DEF BucketSet, Bucket, BucketOf
  <1>2. Tracks(nodes', BucketSet', buckets', Bucket', S)
    BY <1>1
  <1>3. Counted(stat', block', S) /\ Lengths(block') /\ allocBuild' \in {"list", "hash"}
    BY DEF Running
  <1> QED
    BY <1>2, <1>3 DEF Running

(* The critical section that tracks a block.                               *)
LEMMA TrackKeeps ==
  ASSUME Running, NEW t \in AllocThreads, Track(t)
  PROVE  Running'
  <1>1. /\ call[t].step = "track" /\ z3_hash_insert(call[t].b)
        /\ CountAlloc(call[t].b) /\ UNCHANGED <<allocBuild, block, lost>>
        /\ IF allocBuild = "list"
           THEN Step(t, "trace") /\ UNCHANGED held
           ELSE Return(t) /\ held' = held \cup {call[t].b}
    BY DEF Track, Runs
  <1>2. PICK b : b = call[t].b
    OBVIOUS
  <1>3. /\ InWindow(call, t) /\ Busy(call, t) /\ call[t] \in CallRecords
        /\ b \in Blocks /\ b \in DOMAIN block /\ b \notin lost
        /\ call[t].op # "free"
    BY <1>1, <1>2, CallFacts DEF InWindow, Busy, GoodCall
  <1>4. PICK S : S = NowTracked
    OBVIOUS
  <1>5. b \notin S /\ S \subseteq DOMAIN block
    BY <1>2, <1>3, <1>4, NotTracked DEF NowTracked, ToTrack
  <1>6. /\ Tracks(nodes, BucketSet, buckets, Bucket, S) /\ Counted(stat, block, S)
        /\ available_num = Cardinality(DOMAIN nodes) /\ stat \in StatRecords
        /\ Lengths(block) /\ CallsTyped
        /\ Owners(DOMAIN block, held, lost, call)
    BY <1>4 DEF Running
  <1>7. HasRoom(nodes)
    BY <1>3, <1>5, <1>6, RoomFor
  <1>8. PICK k \in BucketSet : k = Bucket[b] /\ k = BucketOf(b)
    BY <1>3, BucketFacts DEF Running
  <1>9. PICK r : r = z3_list_add_head(nodes, buckets[k], b)
    OBVIOUS
  <1>10. /\ nodes' = r.heap /\ buckets' = [buckets EXCEPT ![k] = r.list]
         /\ available_num' = available_num + 1
    BY <1>1, <1>2, <1>8, <1>9 DEF z3_hash_insert
  <1>11. /\ Tracks(nodes', BucketSet, buckets', Bucket, S \cup {b})
         /\ available_num' = Cardinality(DOMAIN nodes')
    <2>1. PICK ls : ls = [buckets EXCEPT ![k] = r.list]
      OBVIOUS
    <2>2. Follows(nodes, BucketSet, ls, Bucket, S \cup {b}, r.heap, 1)
      BY <1>3, <1>5, <1>6, <1>7, <1>8, <1>9, <2>1, TracksInsert
    <2> QED
      BY <1>6, <1>10, <2>1, <2>2 DEF Follows
  <1>12. stat' \in StatRecords /\ Counted(stat', block, S \cup {b})
    <2>1. PICK a, y : /\ a = (stat.total_allocated_bytes + block[b]) % UIntRange
                      /\ y = (a - stat.total_free_bytes) % UIntRange
      OBVIOUS
    <2>2. stat' = [stat EXCEPT
                       !.total_allocated_bytes = a,
                       !.total_allocated_times = (@ + 1) % UIntRange,
                       !.maximum_memory_bytes = IF y > @ THEN y ELSE @]
      BY <1>1, <1>2, <2>1 DEF CountAlloc
    <2>3. block[b] \in Int /\ \A x \in S \cup {b} : block[x] \in Int
      BY <1>3, <1>5, <1>6 DEF Lengths
    <2>4. a \in Int /\ y \in Int /\ (stat.total_allocated_times + 1) % UIntRange \in Int
      BY <1>6, <2>1, <2>3, AllocAssumption DEF StatRecords
    <2>5. stat' \in StatRecords
      BY <1>6, <2>2, <2>4 DEF StatRecords
    <2>6. PICK st2 : st2 = stat'
      OBVIOUS
    <2>7. /\ st2.total_allocated_bytes
                 = (stat.total_allocated_bytes + block[b]) % UIntRange
          /\ st2.total_allocated_times
                 = (stat.total_allocated_times + 1) % UIntRange
          /\ st2.total_free_bytes = stat.total_free_bytes
          /\ st2.total_free_times = stat.total_free_times
      BY <1>6, <2>1, <2>2, <2>6 DEF StatRecords
    <2>8. IsFiniteSet(S)
      BY <1>6, TracksSize
    <2>9. Counted(st2, block, S \cup {b})
      BY <1>5, <1>6, <2>3, <2>7, <2>8, CountedMore
    <2> QED
      BY <2>5, <2>6, <2>9
  <1>13. PICK c : c = call'
    OBVIOUS
  <1>14. CASE allocBuild = "list"
    <2>1. Step(t, "trace") /\ held' = held
      BY <1>1, <1>14
    <2>2. PICK w : w = [call[t] EXCEPT !.step = "trace"]
      OBVIOUS
    <2>3. /\ w \in CallRecords /\ w.step = "trace" /\ w.b = b
          /\ w.op # "free" /\ GoodCall(w)
      BY <1>2, <1>3, <2>2 DEF CallRecords, GoodCall
    <2>4. CallsTyped' /\ Others(call, call', t) /\ call'[t] = w
      <3>1. call' = [call EXCEPT ![t] = w]
        BY <2>1, <2>2 DEF Step
      <3> QED
        BY <1>6, <2>3, <3>1, CallChange
    <2>5. Goes(call, c, t, lost) /\ ~ InWindow(c, t)
      BY <1>2, <1>3, <1>13, <2>3, <2>4 DEF Goes, Busy, InWindow
    <2>6. Owners(DOMAIN block, held, lost, c)
      BY <1>6, <2>5, OwnersStep
    <2>7. ToTrack(DOMAIN block, lost, c) = ToTrack(DOMAIN block, lost, call) \cup {b}
      BY <1>2, <1>3, <1>6, <2>5, PutsIn
    <2>8. NowTracked' = S \cup {b}
      BY <1>1, <1>4, <1>13, <2>7 DEF NowTracked
    <2>9. Owners(DOMAIN block', held', lost', call')
      BY <1>1, <1>13, <2>1, <2>6
    <2> QED
      BY <1>1, <1>11, <1>12, <2>4, <2>8, <2>9, TrackingStep
  <1>15. CASE allocBuild # "list"
    <2>1. Return(t) /\ held' = held \cup {b}
      BY <1>1, <1>2, <1>15
    <2>2. CallsTyped' /\ Others(call, call', t) /\ ~ Busy(call', t)
      BY <1>6, <2>1, ReturnCall
    <2>3. Ends(call, c, t)
      BY <1>1, <1>3, <1>13, <2>2 DEF Ends
    <2>4. Owners(DOMAIN block, held \cup {b}, lost, c)
      BY <1>2, <1>6, <2>3, OwnersReturn
    <2>5. ToTrack(DOMAIN block, lost, c) = ToTrack(DOMAIN block, lost, call) \cup {b}
      BY <1>2, <1>3, <1>6, <2>3, ReturnsNew
    <2>6. NowTracked' = S \cup {b}
      BY <1>1, <1>4, <1>13, <2>5 DEF NowTracked
    <2>7. Owners(DOMAIN block', held', lost', call')
      BY <1>1, <1>13, <2>1, <2>4
    <2> QED
      BY <1>1, <1>11, <1>12, <2>2, <2>6, <2>7, TrackingStep
  <1> QED
    BY <1>14, <1>15

(* The critical section that takes a block out of the list.                *)
LEMMA UntrackKeeps ==
  ASSUME Running, NEW t \in AllocThreads, Untrack(t),
         Removable(nodes, buckets[BucketOf(call[t].b)], call[t].b)
  PROVE  Running'
  <1>1. PICK b : b = call[t].b
    OBVIOUS
  <1>2. PICK step : step = IF call[t].op = "realloc" THEN "realloc"
                           ELSE IF allocBuild = "list" THEN "trace"
                           ELSE "release"
    OBVIOUS
  <1>3. /\ call[t].step = "untrack" /\ z3_hash_remove(b) /\ CountFree(b)
        /\ Step(t, step) /\ UNCHANGED <<allocBuild, block, held, lost>>
    BY <1>1, <1>2 DEF Untrack, Runs
  <1>4. /\ ~ InWindow(call, t) /\ Busy(call, t) /\ call[t] \in CallRecords
        /\ b \in Blocks /\ b \in DOMAIN block
        /\ call[t].op \in {"free", "realloc"}
    BY <1>1, <1>3, CallFacts DEF InWindow, Busy, GoodCall
  <1>5. PICK S : S = NowTracked
    OBVIOUS
  <1>6. /\ Tracks(nodes, BucketSet, buckets, Bucket, S) /\ Counted(stat, block, S)
        /\ available_num = Cardinality(DOMAIN nodes) /\ stat \in StatRecords
        /\ Lengths(block) /\ CallsTyped
        /\ Owners(DOMAIN block, held, lost, call)
    BY <1>5 DEF Running
  <1>7. PICK k \in BucketSet : k = Bucket[b] /\ k = BucketOf(b)
    BY <1>4, BucketFacts DEF Running
  <1>8. b \in S
    <2>1. Removable(nodes, buckets[Bucket[b]], b)
      BY <1>1, <1>7
    <2>2. Bucket[b] \in BucketSet
      BY <1>7
    <2>3. Removable(nodes, buckets[Bucket[b]], b) <=> b \in S
      BY <1>6, <2>2, TracksFind
    <2> QED
      BY <2>1, <2>3
  <1>9. b \notin lost /\ S \subseteq DOMAIN block
    BY <1>5, <1>8 DEF NowTracked, ToTrack
  <1>10. PICK r : r = z3_list_remove(nodes, buckets[k], b)
    OBVIOUS
  <1>11. /\ nodes' = r.heap /\ buckets' = [buckets EXCEPT ![k] = r.list]
         /\ available_num' = available_num - 1
    BY <1>3, <1>7, <1>10 DEF z3_hash_remove
  <1>12. /\ Tracks(nodes', BucketSet, buckets', Bucket, S \ {b})
         /\ available_num' = Cardinality(DOMAIN nodes')
    <2>1. PICK ls : ls = [buckets EXCEPT ![k] = r.list]
      OBVIOUS
    <2>2. Follows(nodes, BucketSet, ls, Bucket, S \ {b}, r.heap, -1)
      BY <1>6, <1>7, <1>8, <1>10, <2>1, TracksRemove
    <2>3. PICK n \in Nat : n = Cardinality(DOMAIN nodes)
      BY <1>6, TracksSize
    <2>4. n - 1 = n + (-1)
      OBVIOUS
    <2> QED
      BY <1>6, <1>11, <2>1, <2>2, <2>3, <2>4 DEF Follows
  <1>13. stat' \in StatRecords /\ Counted(stat', block, S \ {b})
    <2>1. stat' = [stat EXCEPT
                       !.total_free_bytes = (@ + block[b]) % UIntRange,
                       !.total_free_times = (@ + 1) % UIntRange]
      BY <1>3 DEF CountFree
    <2>2. block[b] \in Int /\ \A x \in S : block[x] \in Int
      BY <1>4, <1>6, <1>9 DEF Lengths
    <2>3. /\ (stat.total_free_bytes + block[b]) % UIntRange \in Int
          /\ (stat.total_free_times + 1) % UIntRange \in Int
      BY <1>6, <2>2, AllocAssumption DEF StatRecords
    <2>4. stat' \in StatRecords
      BY <1>6, <2>1, <2>3 DEF StatRecords
    <2>5. PICK st2 : st2 = stat'
      OBVIOUS
    <2>6. /\ st2.total_free_bytes = (stat.total_free_bytes + block[b]) % UIntRange
          /\ st2.total_free_times = (stat.total_free_times + 1) % UIntRange
          /\ st2.total_allocated_bytes = stat.total_allocated_bytes
          /\ st2.total_allocated_times = stat.total_allocated_times
      BY <1>6, <2>1, <2>5 DEF StatRecords
    <2>7. IsFiniteSet(S)
      BY <1>6, TracksSize
    <2>8. Counted(st2, block, S \ {b})
      BY <1>6, <1>8, <2>2, <2>6, <2>7, CountedLess
    <2> QED
      BY <2>4, <2>5, <2>8
  <1>14. PICK w : w = [call[t] EXCEPT !.step = step]
    OBVIOUS
  <1>15. /\ w \in CallRecords /\ w.step = step /\ w.b = b
         /\ w.op = call[t].op /\ GoodCall(w) /\ step # "idle"
    BY <1>1, <1>2, <1>4, <1>14 DEF CallRecords, GoodCall
  <1>16. CallsTyped' /\ Others(call, call', t) /\ call'[t] = w
    <2>1. call' = [call EXCEPT ![t] = w]
      BY <1>3, <1>14 DEF Step
    <2> QED
      BY <1>6, <1>15, <2>1, CallChange
  <1>17. PICK c : c = call'
    OBVIOUS
  <1>18. Goes(call, c, t, lost) /\ InWindow(c, t)
    BY <1>1, <1>2, <1>4, <1>9, <1>15, <1>16, <1>17 DEF Goes, Busy, InWindow
  <1>19. Owners(DOMAIN block, held, lost, c)
    BY <1>6, <1>18, OwnersStep
  <1>20. ToTrack(DOMAIN block, lost, c) = ToTrack(DOMAIN block, lost, call) \ {b}
    BY <1>1, <1>4, <1>6, <1>18, TakesOut
  <1>21. NowTracked' = S \ {b}
    BY <1>3, <1>5, <1>17, <1>20 DEF NowTracked
  <1>22. Owners(DOMAIN block', held', lost', call')
    BY <1>3, <1>17, <1>19
  <1> QED
    BY <1>3, <1>12, <1>13, <1>16, <1>21, <1>22, TrackingStep

(* Only a lost block is missing from the list when its call looks for it.  *)
LEMMA MissingIsLost ==
  ASSUME Running, NEW t \in AllocThreads, call[t].step = "untrack",
         ~ Removable(nodes, buckets[BucketOf(call[t].b)], call[t].b)
  PROVE  call[t].b \in lost
  <1>1. PICK b : b = call[t].b
    OBVIOUS
  <1>2. b \in Blocks /\ b \in DOMAIN block /\ Busy(call, t) /\ ~ InWindow(call, t)
    BY <1>1, CallFacts DEF Busy, InWindow
  <1>3. PICK k \in BucketSet : k = Bucket[b] /\ k = BucketOf(b)
    BY <1>2, BucketFacts DEF Running
  <1>4. b \notin NowTracked
    <2>1. Tracks(nodes, BucketSet, buckets, Bucket, NowTracked)
      BY DEF Running
    <2>2. ~ Removable(nodes, buckets[Bucket[b]], b)
      BY <1>1, <1>3
    <2>3. Bucket[b] \in BucketSet
      BY <1>3
    <2>4. Removable(nodes, buckets[Bucket[b]], b) <=> b \in NowTracked
      BY <2>1, <2>3, TracksFind
    <2> QED
      BY <2>2, <2>4
  <1>5. \A u \in AllocThreads : InWindow(call, u) => call[u].b # b
    BY <1>1, <1>2 DEF Running, Owners, InWindow, Busy
  <1> QED
    BY <1>1, <1>2, <1>4, <1>5 DEF NowTracked, ToTrack

(* Nothing that Running speaks of changes.                                 *)
LEMMA SameRunning ==
  ASSUME Running, UNCHANGED <<allocBuild, tracking, block, held, lost, call>>
  PROVE  Running'
  <1>1. Lengths(block') /\ Owners(DOMAIN block', held', lost', call')
    BY DEF Running
  <1>2. CallsTyped'
    BY DEF Running, CallsTyped
  <1>3. NowTracked' = NowTracked
    BY DEF NowTracked
  <1>4. Agree(block, block', NowTracked)
    BY DEF Agree
  <1> QED
    BY <1>1, <1>2, <1>3, <1>4, QuietStep

(* What is read through the buckets is what is tracked.                    *)
LEMMA TrackedIs ==
  ASSUME Running
  PROVE  /\ \A k \in BucketSet :
                /\ WellFormed(nodes, buckets[k])
                /\ TrackedIn(k) = {b \in NowTracked : BucketOf(b) = k}
         /\ Tracked = NowTracked
         /\ IsFiniteSet(NowTracked) /\ Cardinality(NowTracked) = available_num
         /\ Cardinality(DOMAIN nodes) = available_num /\ available_num \in Nat
  <1>1. PICK S : S = NowTracked
    OBVIOUS
  <1>2. Tracks(nodes, BucketSet, buckets, Bucket, S)
    BY <1>1 DEF Running
  <1>3. /\ IsFiniteSet(S) /\ S \subseteq Blocks
        /\ Cardinality(S) = Cardinality(DOMAIN nodes)
        /\ Cardinality(DOMAIN nodes) \in Nat
    BY <1>2, TracksSize
  <1>4. available_num = Cardinality(DOMAIN nodes)
    BY DEF Running
  <1>5. \A b \in Blocks : Bucket[b] = BucketOf(b) /\ Bucket[b] \in BucketSet
    BY BucketFacts DEF Running
  <1>6. ASSUME NEW k \in BucketSet
        PROVE  /\ WellFormed(nodes, buckets[k])
               /\ TrackedIn(k) = {b \in S : BucketOf(b) = k}
    <2>1. /\ WellFormed(nodes, buckets[k])
          /\ ToSet(z3_list_foreach(nodes, buckets[k])) = {b \in S : Bucket[b] = k}
      BY <1>2, TracksReads
    <2>2. {b \in S : Bucket[b] = k} = {b \in S : BucketOf(b) = k}
      BY <1>3, <1>5
    <2> QED
      BY <2>1, <2>2 DEF TrackedIn
  <1>7. Tracked = S
    BY <1>3, <1>5, <1>6 DEF Tracked
  <1> QED
    BY <1>1, <1>3, <1>4, <1>6, <1>7

(* The list build shows its blocks only if there are two or more.          *)
LEMMA ListShows ==
  ASSUME Running, allocBuild = "list"
  PROVE  (buckets[TheList] # NULL /\ nodes[buckets[TheList]].next # NULL)
             <=> available_num > 1
  <1>1. Tracks(nodes, BucketSet, buckets, Bucket, NowTracked)
    BY DEF Running
  <1>2. BucketSet = {TheList} /\ TheList \in BucketSet
    BY BucketFacts
  <1>3. PICK ns, L : /\ Heap(nodes, Blocks) /\ Chain(nodes, buckets[TheList], ns, L)
                     /\ ToSet(ns) = Own(nodes, buckets[TheList]) /\ L \in Nat
                     /\ ns \in [1 .. L -> DOMAIN nodes]
    BY <1>1, <1>2, TracksChain
  <1>4. DOMAIN nodes = ToSet(ns)
    <2>1. DOMAIN nodes = UNION {Own(nodes, buckets[k]) : k \in BucketSet}
      BY <1>1 DEF Tracks, Family
    <2> QED
      BY <1>2, <1>3, <2>1
  <1>5. available_num = L
    <2>1. Cardinality(ToSet(ns)) = L
      BY <1>3, OwnSize
    <2> QED
      BY <1>4, <2>1 DEF Running
  <1>6. /\ buckets[TheList] = IF L = 0 THEN NULL ELSE ns[1]
        /\ \A i \in 1 .. L : nodes[ns[i]].next = IF i = L THEN NULL ELSE ns[i + 1]
    BY <1>3 DEF Chain, Links
  <1>7. \A i \in 1 .. L : ns[i] # NULL
    BY <1>3, NodeAssumption DEF Heap
  <1>8. CASE L = 0
    BY <1>5, <1>6, <1>8
  <1>9. CASE L = 1
    BY <1>5, <1>6, <1>9
  <1>10. CASE L > 1
    <2>1. 1 \in 1 .. L /\ 2 \in 1 .. L /\ 1 # L /\ 1 + 1 = 2 /\ L # 0
      BY <1>3, <1>10
    <2>2. buckets[TheList] = ns[1] /\ nodes[ns[1]].next = ns[2]
      BY <1>6, <2>1
    <2> QED
      BY <1>5, <1>7, <1>10, <2>1, <2>2
  <1> QED
    BY <1>3, <1>8, <1>9, <1>10

(* _z3_alloc_uninit shows the leaks.                                       *)
LEMMA UninitReports ==
  ASSUME Running, _z3_alloc_uninit
  PROVE  process' = "uninit" /\ LeaksReported'
  <1>1. /\ process' = "uninit" /\ allocBuild' = allocBuild /\ held' = held
        /\ lost' = lost
        /\ reported' = IF \/ allocBuild = "hash" /\ available_num > 0
                          \/ /\ allocBuild = "list" /\ buckets[TheList] # NULL
                             /\ nodes[buckets[TheList]].next # NULL
                       THEN Tracked ELSE {}
        /\ \A t \in AllocThreads : call[t].step = "idle"
    BY DEF _z3_alloc_uninit, Runs
  <1>2. NowTracked = held \ lost
    <2>1. \A t \in AllocThreads : ~ Busy(call, t) /\ ~ InWindow(call, t)
      BY <1>1 DEF Busy, InWindow
    <2>2. DOMAIN block = held
      BY <2>1 DEF Running, Owners
    <2> QED
      BY <2>1, <2>2 DEF NowTracked, ToTrack
  <1>3. PICK S : S = held \ lost
    OBVIOUS
  <1>4. /\ Tracked = S /\ IsFiniteSet(S) /\ Cardinality(S) = available_num
        /\ available_num \in Nat
    BY <1>2, <1>3, TrackedIs
  <1>5. available_num = 0 => S = {}
    BY <1>4, FS_EmptySet
  <1>6. CASE allocBuild = "hash"
    <2>1. reported' = IF available_num > 0 THEN S ELSE {}
      BY <1>1, <1>4, <1>6
    <2>2. reported' = S
      BY <1>4, <1>5, <2>1
    <2> QED
      BY <1>1, <1>3, <1>6, <2>2 DEF LeaksReported
  <1>7. CASE allocBuild = "list"
    <2>1. reported' = IF available_num > 1 THEN S ELSE {}
      <3>1. (buckets[TheList] # NULL /\ nodes[buckets[TheList]].next # NULL)
                <=> available_num > 1
        BY <1>7, ListShows
      <3> QED
        BY <1>1, <1>4, <1>7, <3>1
    <2>2. reported' = IF Cardinality(S) = 1 THEN {} ELSE S
      BY <1>4, <1>5, <2>1
    <2> QED
      BY <1>1, <1>3, <1>7, <2>2 DEF LeaksReported
  <1> QED
    BY <1>6, <1>7 DEF Running, LeaksReported

(* AllocInv holds when the program begins.                                 *)
LEMMA AllocInitInv ==
  ASSUME AllocInit
  PROVE  AllocInv
  <1>1. /\ allocBuild \in {"list", "hash"} /\ nodes = << >> /\ DOMAIN nodes = {}
        /\ buckets = [k \in BucketSet |-> NULL] /\ available_num = 0
        /\ block = << >> /\ DOMAIN block = {} /\ held = {} /\ lost = {}
        /\ call = [t \in AllocThreads |-> Idle] /\ process = "runs"
    BY DEF AllocInit, EmptyHeap
  <1>2. /\ stat \in StatRecords
        /\ stat.total_allocated_bytes = 0 /\ stat.total_free_bytes = 0
        /\ stat.total_allocated_times = 0 /\ stat.total_free_times = 0
    BY DEF AllocInit, StatRecords
  <1>3. \A t \in AllocThreads : call[t] = Idle
    BY <1>1
  <1>4. Lengths(block)
    BY <1>1 DEF Lengths
  <1>5. CallsTyped
    <2>1. GoodCall(Idle) /\ Idle \in CallRecords
      BY IdleType DEF GoodCall
    <2> QED
      BY <1>1, <2>1 DEF CallsTyped
  <1>6. Owners(DOMAIN block, held, lost, call)
    <2>1. \A t \in AllocThreads : ~ Busy(call, t)
      BY <1>3, IdleType DEF Busy
    <2> QED
      BY <1>1, <2>1 DEF Owners
  <1>7. NowTracked = {}
    BY <1>1 DEF NowTracked, ToTrack
  <1>8. Tracks(nodes, BucketSet, buckets, Bucket, NowTracked)
    <2>1. Heap(nodes, Blocks)
      BY <1>1 DEF Heap
    <2>2. Chain(nodes, NULL, << >>, 0) /\ ToSet(<< >>) = {}
      BY EmptyChain DEF ToSet
    <2>3. IsList(nodes, NULL) /\ Own(nodes, NULL) = {}
      BY <2>1, <2>2, ListOfChain
    <2>4. \A k \in BucketSet : buckets[k] = NULL
      BY <1>1
    <2>5. Family(nodes, BucketSet, buckets)
      BY <1>1, <2>3, <2>4 DEF Family
    <2>6. buckets \in [BucketSet -> Nodes \cup {NULL}]
      BY <1>1
    <2>7. \A k \in BucketSet : \A x \in Own(nodes, buckets[k]) :
              Bucket[nodes[x].data] = k
      BY <2>3, <2>4
    <2> QED
      BY <1>1, <1>7, <2>1, <2>5, <2>6, <2>7 DEF Tracks
  <1>9. Cardinality({}) = 0 /\ Total(block, {}) = 0
    BY TotalEmpty, FS_EmptySet
  <1>10. Counted(stat, block, NowTracked)
    BY <1>2, <1>7, <1>9 DEF Counted, Fits
  <1>11. Running
    BY <1>1, <1>2, <1>4, <1>5, <1>6, <1>8, <1>9, <1>10 DEF Running
  <1> QED
    BY <1>1, <1>11 DEF AllocInv, AbortsAtLost

(* A step of the program is taken while it runs.                           *)
LEMMA StepsRun ==
  ASSUME AllocNext
  PROVE  process = "runs"
  <1>1. ASSUME _z3_alloc_uninit PROVE process = "runs"
    BY <1>1, AllocAssumption DEF _z3_alloc_uninit, Runs
  <1>2. ASSUME NEW t \in AllocThreads,
               \/ \E size \in Sizes : _z3_malloc(t, size) \/ _z3_strdup(t, size)
               \/ \E num, size \in Sizes : _z3_calloc(t, num, size)
               \/ \E b \in Blocks : _z3_free(t, b)
               \/ \E b \in Blocks, size \in Sizes : _z3_realloc(t, b, size)
               \/ Track(t) \/ TraceAlloc(t) \/ Untrack(t) \/ TraceFree(t)
               \/ TraceNumber(t) \/ ReleaseBlock(t)
               \/ ReallocDone(t) \/ ReallocFails(t)
        PROVE  process = "runs"
    BY <1>2 DEF _z3_malloc, _z3_strdup, _z3_calloc, _z3_free, _z3_realloc,
                Track, TraceAlloc, Untrack, TraceFree, TraceNumber,
                ReleaseBlock, ReallocDone, ReallocFails, Begin, Runs
  <1> QED
    BY <1>1, <1>2 DEF AllocNext

(* Every step keeps AllocInv.                                              *)
LEMMA AllocNextInv ==
  ASSUME AllocInv, [AllocNext]_allocVars
  PROVE  AllocInv'
  <1>1. CASE UNCHANGED allocVars
    <2>1. CASE process = "uninit" /\ LeaksReported
      BY <1>1, <2>1 DEF allocVars, AllocInv, LeaksReported
    <2>2. CASE /\ process \in {"runs", "crashed", "aborted"}
               /\ Running /\ AbortsAtLost
      <3>1. UNCHANGED <<allocBuild, tracking, block, held, lost, call>>
        BY <1>1 DEF allocVars, tracking
      <3>2. Running'
        BY <2>2, <3>1, SameRunning
      <3>3. AbortsAtLost' /\ process' \in {"runs", "crashed", "aborted"}
        BY <1>1, <2>2 DEF allocVars, AbortsAtLost
      <3> QED
        BY <3>2, <3>3 DEF AllocInv
    <2> QED
      BY <2>1, <2>2 DEF AllocInv
  <1>2. CASE AllocNext
    <2>1. process = "runs" /\ Running
      BY <1>2, StepsRun DEF AllocInv
    <2>2. SUFFICES \/ Running' /\ process' \in {"runs", "crashed"}
                   \/ /\ Running' /\ process' = "aborted"
                      /\ \E t \in AllocThreads :
                             call'[t].step = "untrack" /\ call'[t].b \in lost'
                   \/ process' = "uninit" /\ LeaksReported'
      BY DEF AllocInv, AbortsAtLost
    <2>3. ASSUME NEW t \in AllocThreads, NEW size \in Sizes,
                 _z3_malloc(t, size) \/ _z3_strdup(t, size)
          PROVE  Running' /\ process' = "runs"
      <3>1. /\ call[t].step = "idle" /\ process' = "runs"
            /\ UNCHANGED <<allocBuild, tracking, held, lost>>
        BY <2>1, <2>3 DEF _z3_malloc, _z3_strdup, Begin, Runs
      <3>2. PICK n \in Nat : \/ Obtain(t, "malloc", n)
                             \/ UNCHANGED <<block, call>>
        <4>1. size \in Nat /\ size + 1 \in Nat
          BY AllocAssumption
        <4> QED
          BY <2>3, <4>1 DEF _z3_malloc, _z3_strdup
      <3>3. Obtain(t, "malloc", n)
        BY <3>2 DEF Obtain
      <3> QED
        BY <2>1, <3>1, <3>3, ObtainKeeps
    <2>4. ASSUME NEW t \in AllocThreads, NEW num \in Sizes, NEW size \in Sizes,
                 _z3_calloc(t, num, size)
          PROVE  Running' /\ process' = "runs"
      <3>1. /\ call[t].step = "idle" /\ process' = "runs"
            /\ UNCHANGED <<allocBuild, tracking, held, lost>>
        BY <2>1, <2>4 DEF _z3_calloc, Begin, Runs
      <3>2. PICK n \in Nat : Obtain(t, "malloc", n)
        <4>1. num * size \in Nat
          BY AllocAssumption
        <4> QED
          BY <2>4, <4>1 DEF _z3_calloc
      <3> QED
        BY <2>1, <3>1, <3>2, ObtainKeeps
    <2>5. ASSUME NEW t \in AllocThreads, NEW b \in Blocks, NEW size \in Nat,
                 \/ _z3_free(t, b)
                 \/ _z3_realloc(t, b, size)
          PROVE  Running' /\ process' = "runs"
      <3>1. /\ call[t].step = "idle" /\ process' = "runs" /\ b \in held
            /\ held' = held \ {b}
            /\ UNCHANGED <<allocBuild, tracking, block, lost>>
        BY <2>1, <2>5 DEF _z3_free, _z3_realloc, Begin, Runs
      <3>2. PICK w : /\ \/ w = [op |-> "free", step |-> "untrack",
                                b |-> b, size |-> 0]
                        \/ w = [op |-> "realloc", step |-> "untrack",
                                b |-> b, size |-> size]
                     /\ call' = [call EXCEPT ![t] = w]
        BY <2>5 DEF _z3_free, _z3_realloc
      <3>3. /\ w \in CallRecords /\ w.step = "untrack" /\ w.b = b
            /\ w.op \in {"free", "realloc"}
        BY <3>2 DEF CallRecords
      <3> QED
        BY <2>1, <3>1, <3>2, <3>3, GiveKeeps
    <2>6. ASSUME NEW t \in AllocThreads, Track(t)
          PROVE  Running' /\ process' = "runs"
      BY <2>1, <2>6, TrackKeeps DEF Track
    <2>7. ASSUME NEW t \in AllocThreads, TraceAlloc(t)
          PROVE  Running' /\ process' \in {"runs", "crashed"}
      <3>1. /\ call[t].step = "trace" /\ call[t].op # "free"
            /\ UNCHANGED <<allocBuild, tracking, block, lost>>
            /\ \/ process' = "crashed" /\ UNCHANGED <<held, call>>
               \/ /\ Return(t) /\ held' = held \cup {call[t].b}
                  /\ UNCHANGED process
        BY <2>7 DEF TraceAlloc, Runs
      <3>2. CASE process' = "crashed" /\ UNCHANGED <<held, call>>
        BY <2>1, <3>1, <3>2, SameRunning
      <3>3. CASE Return(t) /\ held' = held \cup {call[t].b} /\ UNCHANGED process
        BY <2>1, <3>1, <3>3, TraceAllocKeeps
      <3> QED
        BY <3>1, <3>2, <3>3
    <2>8. ASSUME NEW t \in AllocThreads, Untrack(t)
          PROVE  \/ Running' /\ process' = "runs"
                 \/ /\ Running' /\ process' = "aborted"
                    /\ call'[t].step = "untrack" /\ call'[t].b \in lost'
      <3>1. CASE Removable(nodes, buckets[BucketOf(call[t].b)], call[t].b)
        <4>1. process' = "runs"
          BY <2>1, <2>8, <3>1 DEF Untrack
        <4> QED
          BY <2>1, <2>8, <3>1, <4>1, UntrackKeeps
      <3>2. CASE ~ Removable(nodes, buckets[BucketOf(call[t].b)], call[t].b)
        <4>1. /\ process' = "aborted" /\ call[t].step = "untrack"
              /\ UNCHANGED <<allocBuild, tracking, block, held, lost, call>>
          BY <2>8, <3>2 DEF Untrack, Runs
        <4>2. call[t].b \in lost
          BY <2>1, <3>2, <4>1, MissingIsLost
        <4>3. Running'
          BY <2>1, <4>1, SameRunning
        <4> QED
          BY <4>1, <4>2, <4>3
      <3> QED
        BY <3>1, <3>2
    <2>9. ASSUME NEW t \in AllocThreads, TraceFree(t)
          PROVE  Running' /\ process' = "runs"
      <3>1. /\ InWindow(call, t) /\ process' = "runs"
            /\ UNCHANGED <<allocBuild, tracking, block, held, lost>>
        BY <2>1, <2>9 DEF TraceFree, Runs, InWindow
      <3>2. PICK step \in {"number", "release"} : Step(t, step)
        BY <2>9 DEF TraceFree
      <3> QED
        BY <2>1, <3>1, <3>2, StepKeeps
    <2>10. ASSUME NEW t \in AllocThreads, TraceNumber(t)
           PROVE  Running' /\ process' \in {"runs", "crashed"}
      <3>1. /\ InWindow(call, t)
            /\ UNCHANGED <<allocBuild, tracking, block, held, lost>>
            /\ \/ process' = "crashed" /\ UNCHANGED call
               \/ Step(t, "release") /\ process' = "runs"
        BY <2>1, <2>10 DEF TraceNumber, Runs, InWindow
      <3>2. CASE process' = "crashed" /\ UNCHANGED call
        BY <2>1, <3>1, <3>2, SameRunning
      <3>3. CASE Step(t, "release") /\ process' = "runs"
        <4>1. PICK step \in {"number", "release"} : Step(t, step)
          BY <3>3
        <4> QED
          BY <2>1, <3>1, <3>3, <4>1, StepKeeps
      <3> QED
        BY <3>1, <3>2, <3>3
    <2>11. ASSUME NEW t \in AllocThreads, ReleaseBlock(t)
           PROVE  Running' /\ process' = "runs"
      BY <2>1, <2>11, ReleaseKeeps DEF ReleaseBlock
    <2>12. ASSUME NEW t \in AllocThreads, ReallocDone(t)
           PROVE  Running' /\ process' = "runs"
      BY <2>1, <2>12, ReallocDoneKeeps DEF ReallocDone
    <2>13. ASSUME NEW t \in AllocThreads, ReallocFails(t)
           PROVE  Running' /\ process' = "runs"
      <3>1. /\ call[t].step = "realloc" /\ Return(t) /\ process' = "runs"
            /\ held' = held \cup {call[t].b} /\ lost' = lost \cup {call[t].b}
            /\ UNCHANGED <<allocBuild, tracking, block>>
        BY <2>1, <2>13 DEF ReallocFails, Runs
      <3> QED
        BY <2>1, <3>1, ReallocFailsKeeps
    <2>14. ASSUME _z3_alloc_uninit PROVE process' = "uninit" /\ LeaksReported'
      BY <2>1, <2>14, UninitReports
    <2>15. \A size \in Sizes : size \in Nat
      BY AllocAssumption
    <2>16. ASSUME NEW t \in AllocThreads,
                  \/ \E size \in Sizes : _z3_malloc(t, size) \/ _z3_strdup(t, size)
                  \/ \E num, size \in Sizes : _z3_calloc(t, num, size)
                  \/ \E b \in Blocks : _z3_free(t, b)
                  \/ \E b \in Blocks, size \in Sizes : _z3_realloc(t, b, size)
           PROVE  Running' /\ process' = "runs"
      <3>1. 0 \in Nat
        OBVIOUS
      <3> QED
        BY <2>3, <2>4, <2>5, <2>15, <2>16, <3>1
    <2> QED
      BY <1>2, <2>6, <2>7, <2>8, <2>9, <2>10, <2>11, <2>12, <2>13, <2>14,
         <2>16 DEF AllocNext
  <1> QED
    BY <1>1, <1>2

(* The invariants that the run checks follow.                              *)
LEMMA AllocInvImplies ==
  ASSUME AllocInv
  PROVE  TrackedExactly /\ OccupiedExact /\ LeaksReported
  <1>1. CASE process = "uninit" /\ LeaksReported
    BY <1>1 DEF TrackedExactly, OccupiedExact
  <1>2. CASE process # "uninit" /\ Running /\ AbortsAtLost
    <2>1. /\ \A k \in BucketSet :
                 /\ WellFormed(nodes, buckets[k])
                 /\ TrackedIn(k) = {b \in NowTracked : BucketOf(b) = k}
          /\ Tracked = NowTracked
          /\ Cardinality(NowTracked) = available_num
          /\ Cardinality(DOMAIN nodes) = available_num
      BY <1>2, TrackedIs
    <2>2. NowTracked = DOMAIN block \ (InCall \cup lost)
      BY NowTrackedIs
    <2>3. TrackedExactly
      BY <1>2, <2>1, <2>2 DEF TrackedExactly, AbortsAtLost
    <2>4. OccupiedExact
      <3>1. Counted(stat, block, Tracked)
        BY <1>2, <2>1 DEF Running
      <3> QED
        BY <3>1 DEF Counted, Fits, Total, OccupiedExact
    <2> QED
      BY <1>2, <2>3, <2>4 DEF LeaksReported
  <1> QED
    BY <1>1, <1>2 DEF AllocInv

LEMMA AllocAlways ==
  AllocSpec => []AllocInv
  <1>1. AllocInit => AllocInv
    BY AllocInitInv
  <1>2. AllocInv /\ [AllocNext]_allocVars => AllocInv'
    BY AllocNextInv
  <1> QED
    BY <1>1, <1>2, PTL DEF AllocSpec

(* For any threads, blocks, sizes and hash function: the list or the hash  *)
(* table of z3_alloc.c has exactly the blocks that are allocated and not   *)
(* inside a call's own window, except those whose realloc failed, and only *)
(* such a one makes the assertion of z3_list_remove fail.                  *)
THEOREM AllocTracks == AllocSpec => []TrackedExactly
  <1>1. AllocInv => TrackedExactly
    BY AllocInvImplies
  <1> QED
    BY <1>1, AllocAlways, PTL

(* The statistics of z3_alloc.c, which wrap around, differ by what the     *)
(* tracked blocks occupy and by their number.                              *)
THEOREM AllocCounts == AllocSpec => []OccupiedExact
  <1>1. AllocInv => OccupiedExact
    BY AllocInvImplies
  <1> QED
    BY <1>1, AllocAlways, PTL

(* _z3_alloc_uninit shows every leaked block the structure knows, except a *)
(* single one in the list build.                                           *)
THEOREM AllocReports == AllocSpec => []LeaksReported
  <1>1. AllocInv => LeaksReported
    BY AllocInvImplies
  <1> QED
    BY <1>1, AllocAlways, PTL
===============================================================================
