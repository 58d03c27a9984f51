-------------------------------- MODULE Z3List --------------------------------
(***************************************************************************)
(* The doubly linked list of z3_utilib/z3_list.c, at the level of its      *)
(* pointers.  A heap maps every allocated node to its four members; an     *)
(* operation maps a heap and a list (a pointer to its first node) to a new *)
(* heap and a new list.  The number of nodes is kept in the first node     *)
(* only.  Reading a member through NULL or through a freed node has no     *)
(* value here, so TLC stops at one.                                        *)
(***************************************************************************)
EXTENDS Integers, FiniteSets, SequencesExt

CONSTANTS Nodes,   \* node addresses calloc can return
          NULL

ASSUME NodeAssumption == NULL \notin Nodes /\ IsFiniteSet(Nodes)

EmptyHeap == << >>

(* z3_list_alloc; the address is one that is not in use.                   *)
z3_list_alloc(h) == CHOOSE n \in Nodes : n \notin DOMAIN h

HasRoom(h) == Nodes \ DOMAIN h # {}

z3_list_free_1(h, n) == Restrict(h, DOMAIN h \ {n})

(* Heap h (or any other map from addresses) with value x at address n.     *)
Put(h, n, x) == [m \in DOMAIN h \cup {n} |-> IF m = n THEN x ELSE h[m]]

(* A write through a pointer that the code has tested for NULL first.      *)
SetNext(h, n, m) == IF n = NULL THEN h ELSE [h EXCEPT ![n].next = m]
SetPrev(h, n, m) == IF n = NULL THEN h ELSE [h EXCEPT ![n].prev = m]
SetNum(h, n, k) == IF n = NULL THEN h ELSE [h EXCEPT ![n].list_num = k]

(* The nodes that a loop over the next pointers of list l visits.          *)
NodesOf(h, l) ==
    LET hop[k \in 0 .. Cardinality(DOMAIN h)] ==
            IF k = 0 THEN l
            ELSE IF hop[k - 1] = NULL THEN NULL ELSE h[hop[k - 1]].next
        size == CHOOSE k \in DOMAIN hop :
                    hop[k] = NULL /\ \A j \in 0 .. k - 1 : hop[j] # NULL
    IN [i \in 1 .. size |-> hop[i - 1]]

(* What z3_list_foreach hands to its function, in this order.              *)
z3_list_foreach(h, l) ==
    [i \in DOMAIN NodesOf(h, l) |-> h[NodesOf(h, l)[i]].data]

z3_list_last(h, l) == IF l = NULL THEN NULL ELSE Last(NodesOf(h, l))

z3_list_first(h, l) ==
    LET hop[k \in 0 .. Cardinality(DOMAIN h)] ==
            IF k = 0 THEN l
            ELSE IF h[hop[k - 1]].prev = NULL THEN hop[k - 1]
                 ELSE h[hop[k - 1]].prev
    IN IF l = NULL THEN NULL ELSE hop[Cardinality(DOMAIN h)]

z3_list_number(h, l) == IF l = NULL THEN 0 ELSE h[l].list_num

z3_list_find(h, l, d) ==
    LET found == SelectInSeq(z3_list_foreach(h, l), LAMBDA e : e = d)
    IN IF found = 0 THEN NULL ELSE NodesOf(h, l)[found]

z3_list_free(h, l) == Restrict(h, DOMAIN h \ ToSet(NodesOf(h, l)))

Node(d, next, prev, num) ==
    [data |-> d, next |-> next, prev |-> prev, list_num |-> num]

z3_list_add_head(h, l, d) ==
    LET n == z3_list_alloc(h)
        new == Node(d, l, NULL, IF l = NULL THEN 1 ELSE h[l].list_num + 1)
    IN [heap |-> Put(SetNum(SetPrev(h, l, n), l, 0), n, new), list |-> n]

z3_list_add_tail(h, l, d) ==
    LET n == z3_list_alloc(h)
        last == z3_list_last(h, l)
        counted == IF l = NULL THEN h ELSE SetNum(h, l, h[l].list_num + 1)
        new == Node(d, NULL, last, IF l = NULL THEN 1 ELSE 0)
    IN [heap |-> Put(SetNext(counted, last, n), n, new),
        list |-> IF l = NULL THEN n ELSE l]

(* Take node n out of the links of its neighbours.                         *)
Unlink(h, n) ==
    SetPrev(SetNext(h, h[n].prev, h[n].next), h[n].next, h[n].prev)

(* The number moves to the new first node if node n was the first.         *)
NumberMoved(h, l, n) ==
    IF n = l THEN SetNum(h, h[l].next, h[l].list_num) ELSE h

Decremented(h, l) == IF l = NULL THEN h ELSE SetNum(h, l, h[l].list_num - 1)

(* The assertion of z3_list_remove (line 111): the data is in the list.    *)
Removable(h, l, d) == z3_list_find(h, l, d) # NULL

(* Fault: the number is not handed to the new first node.                  *)
RemoveKeepsNumber(h, l, d) ==
    LET n == z3_list_find(h, l, d)
        head == IF n = l THEN h[l].next ELSE l
    IN [heap |-> Decremented(z3_list_free_1(Unlink(h, n), n), head),
        list |-> head]

(* The first node with data d is unlinked and freed.                       *)
z3_list_remove(h, l, d) ==
    LET n == z3_list_find(h, l, d)
        head == IF n = l THEN h[l].next ELSE l
        left == z3_list_free_1(NumberMoved(Unlink(h, n), l, n), n)
    IN [heap |-> Decremented(left, head), list |-> head]

(* One round of the loop of z3_list_remove_all, at node n.                 *)
RemoveRound(r, n, d) ==
    LET g == r.heap
        isHead == g[n].prev = NULL
        head == IF isHead THEN g[n].next ELSE r.list
        moved == IF isHead THEN NumberMoved(g, r.list, n) ELSE g
    IN IF g[n].data # d THEN r
       ELSE [heap |-> z3_list_free_1(Unlink(Decremented(moved, head), n), n),
             list |-> head]

(* Every node with data d, in one pass over the list.                      *)
z3_list_remove_all(h, l, d) ==
    LET ns == NodesOf(h, l)
        pass[k \in 0 .. Len(ns)] ==
            IF k = 0 THEN [heap |-> h, list |-> l]
            ELSE RemoveRound(pass[k - 1], ns[k], d)
    IN pass[Len(ns)]

(* z3_list_remove_link (line 170) writes through the next pointer of a     *)
(* first node without a test: the only node of a list cannot be unlinked.  *)
Unlinkable(h, l, n) == n # l \/ h[l].next # NULL

z3_list_remove_link(h, l, n) ==
    LET head == IF n = l THEN h[l].next ELSE l
        left == Decremented(NumberMoved(Unlink(h, n), l, n), head)
    IN [heap |-> SetPrev(SetNext(left, n, NULL), n, NULL), list |-> head]

z3_list_delete_link(h, l, n) ==
    LET r == z3_list_remove_link(h, l, n)
    IN [r EXCEPT !.heap = z3_list_free_1(@, n)]

z3_list_concat(h, l1, l2) ==
    LET last == z3_list_last(h, l1)
        joined == SetNum(SetNum(SetNext(h, last, l2), l1,
                                h[l1].list_num + h[l2].list_num), l2, 0)
    IN IF l2 = NULL THEN [heap |-> h, list |-> l1]
       ELSE [heap |-> SetPrev(IF last = NULL THEN h ELSE joined, l2, last),
             list |-> IF last = NULL THEN l2 ELSE l1]

(* What every list of this module is between two calls: its prev pointers  *)
(* lead back along its next pointers and its first node has the number.    *)
WellFormed(h, l) ==
    LET ns == NodesOf(h, l)
    IN /\ z3_list_number(h, l) = Len(ns)
       /\ \A i \in DOMAIN ns :
              /\ h[ns[i]].prev = IF i = 1 THEN NULL ELSE ns[i - 1]
              /\ z3_list_first(h, ns[i]) = l
===============================================================================
