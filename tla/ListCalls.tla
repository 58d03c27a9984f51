------------------------------- MODULE ListCalls ------------------------------
(***************************************************************************)
(* A caller of the z3_list functions that keeps two lists, as the trace    *)
(* shipper and the tests do, next to the two sequences they stand for.     *)
(***************************************************************************)
EXTENDS Z3List

CONSTANT Data

VARIABLES listHeap,  \* the nodes of both lists
          lists,     \* the caller's two list pointers
          seqs       \* history: what each list stands for

listVars == <<listHeap, lists, seqs>>

Which == {1, 2}

ListInit ==
    /\ listHeap = EmptyHeap
    /\ lists = [i \in Which |-> NULL]
    /\ seqs = [i \in Which |-> << >>]

(* list = z3_list_xxx(list, ...); the sequence becomes s.                  *)
Becomes(i, r, s) ==
    /\ listHeap' = r.heap
    /\ lists' = [lists EXCEPT ![i] = r.list]
    /\ seqs' = [seqs EXCEPT ![i] = s]

ListAddHead(i, d) ==
    /\ HasRoom(listHeap)
    /\ Becomes(i, z3_list_add_head(listHeap, lists[i], d), <<d>> \o seqs[i])

ListAddTail(i, d) ==
    /\ HasRoom(listHeap)
    /\ Becomes(i, z3_list_add_tail(listHeap, lists[i], d),
               Append(seqs[i], d))

ListRemove(i, d) ==
    /\ Removable(listHeap, lists[i], d)
    /\ Becomes(i, z3_list_remove(listHeap, lists[i], d),
               RemoveFirst(seqs[i], d))

(* Sequence s without the elements that equal d.                           *)
WithoutAll(s, d) ==
    LET kept[k \in 0 .. Len(s)] ==
            IF k = 0 THEN << >>
            ELSE IF s[k] = d THEN kept[k - 1] ELSE Append(kept[k - 1], s[k])
    IN kept[Len(s)]

ListRemoveAll(i, d) ==
    Becomes(i, z3_list_remove_all(listHeap, lists[i], d),
            WithoutAll(seqs[i], d))

ListDeleteLink(i, k) ==
    /\ k \in DOMAIN seqs[i]
    /\ LET link == NodesOf(listHeap, lists[i])[k]
       IN /\ Unlinkable(listHeap, lists[i], link)
          /\ Becomes(i, z3_list_delete_link(listHeap, lists[i], link),
                     RemoveAt(seqs[i], k))

ListConcat(i, j) ==
    LET r == z3_list_concat(listHeap, lists[i], lists[j])
    IN /\ listHeap' = r.heap
       /\ lists' = [lists EXCEPT ![i] = r.list, ![j] = NULL]
       /\ seqs' = [seqs EXCEPT ![i] = seqs[i] \o seqs[j], ![j] = << >>]

ListFree(i) ==
    Becomes(i, [heap |-> z3_list_free(listHeap, lists[i]), list |-> NULL],
            << >>)

ListNext ==
    \E i \in Which :
        \/ \E d \in Data :
               ListAddHead(i, d) \/ ListAddTail(i, d) \/ ListRemove(i, d)
                   \/ ListRemoveAll(i, d)
        \/ \E k \in 1 .. Cardinality(Nodes) : ListDeleteLink(i, k)
        \/ \E j \in Which \ {i} : ListConcat(i, j)
        \/ ListFree(i)

ListSpec == ListInit /\ [][ListNext]_listVars

(* Whatever sequence of calls built it, a list holds the sequence it       *)
(* stands for, forwards and backwards, its first node knows its length,    *)
(* and no node is left that belongs to neither list.                       *)
ListIsSequence ==
    /\ \A i \in Which :
           /\ WellFormed(listHeap, lists[i])
           /\ z3_list_foreach(listHeap, lists[i]) = seqs[i]
    /\ Cardinality(DOMAIN listHeap) = Len(seqs[1]) + Len(seqs[2])
===============================================================================
