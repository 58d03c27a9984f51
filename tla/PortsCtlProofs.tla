---------------------------- MODULE PortsCtlProofs ----------------------------
(***************************************************************************)
(* Proofs about PortsCtl for every port range: GetTwo's marking and        *)
(* unmarking neither leaks a port nor hands one out twice, and the two     *)
(* counters stay exact.                                                    *)
(***************************************************************************)
EXTENDS PortsCtl, FiniteSetTheorems, TLAPS

USE RangeAssumption

(* Held and excluded ports are ports of the range, hence finite sets.      *)
LEMMA HeldFinite ==
  ASSUME TypeOK, PairsAligned, LowEven
  PROVE  /\ Held \subseteq Ports
         /\ IsFiniteSet(Held) /\ Cardinality(Held) \in Nat
         /\ IsFiniteSet(excluded) /\ Cardinality(excluded) \in Nat
  <1>1. IsFiniteSet(Ports)
    BY FS_Interval DEF Ports
  <1>2. Held \subseteq Ports /\ excluded \subseteq Ports
    BY DEF Held, PairPorts, InHand, TypeOK, PairsAligned, LowEven
  <1> QED
    BY <1>1, <1>2, FS_Subset, FS_CardinalityType

(* Counting: m_nUsed++ for a port that was not held before.                *)
LEMMA OneMore ==
  ASSUME NEW S, NEW x, IsFiniteSet(S), x \notin S
  PROVE  Cardinality(S \cup {x}) = Cardinality(S) + 1
  BY FS_AddElement

(* Counting: --m_nUsed for a port that was held.                           *)
LEMMA OneLess ==
  ASSUME NEW S, NEW x, IsFiniteSet(S), x \in S
  PROVE  /\ Cardinality(S \ {x}) = Cardinality(S) - 1
         /\ IsFiniteSet(S \ {x})
         /\ Cardinality(S \ {x}) \in Nat
  BY FS_RemoveElement, FS_CardinalityType

(* m_nNext stays inside the range.                                         *)
LEMMA FollowingPort == \A p \in Ports : Following(p) \in Ports
  BY DEF Following, Ports

(* SetRange leaves the controller in a state of the inductive invariant.   *)
LEMMA InitIInv == Init => IInv
  <1> SUFFICES ASSUME Init PROVE IInv
    OBVIOUS
  <1>1. Held = {} /\ excluded = {}
    BY DEF Init, Held, PairPorts, InHand
  <1>2. TypeOK
    BY DEF Init, TypeOK, Ports
  <1>3. PairsAligned /\ LowEven
    BY DEF Init, PairsAligned, LowEven
  <1>4. NoSharedPort /\ MarkedIsHeld
    BY <1>1 DEF Init, NoSharedPort, MarkedIsHeld, PairPorts, InHand
  <1>5. CountsExact
    BY <1>1, FS_EmptySet DEF Init, CountsExact
  <1> QED
    BY <1>2, <1>3, <1>4, <1>5 DEF IInv

(* A step that leaves the marks, the counters and every holder alone.      *)
LEMMA KeepsIInv ==
  ASSUME IInv,
         UNCHANGED <<marked, used, reserved, low, history>>,
         next' \in Ports,
         pc' \in {"idle", "single", "low", "high"},
         pc' = "high" <=> pc = "high"
  PROVE  IInv'
  <1>1. TypeOK' /\ PairsAligned' /\ LowEven'
    BY DEF IInv, TypeOK, PairsAligned, LowEven, history
  <1>2. Held' = Held /\ PairPorts' = PairPorts /\ InHand' = InHand
    BY DEF Held, PairPorts, InHand, history
  <1>3. NoSharedPort' /\ MarkedIsHeld' /\ CountsExact'
    BY <1>2 DEF IInv, NoSharedPort, MarkedIsHeld, CountsExact, history
  <1> QED
    BY <1>1, <1>3 DEF IInv

(* GetOnePort's step, which takes the free port next.                      *)
LEMMA GotOneIInv == ASSUME IInv, GotOne PROVE IInv'
  <1> USE DEF GotOne, Found
  <1>1. next \in Ports /\ next \notin marked
    BY DEF IInv, TypeOK
  <1>2. /\ Held' = Held \cup {next} /\ PairPorts' = PairPorts
        /\ InHand' = {} /\ InHand = {}
    BY DEF Held, PairPorts, InHand
  <1>3. next \notin Held /\ next \notin excluded \cup stray
    BY <1>1 DEF IInv, MarkedIsHeld
  <1>4. used' = Cardinality(Held')
    BY <1>2, <1>3, HeldFinite, OneMore DEF IInv, CountsExact
  <1>5. TypeOK'
    BY <1>1, FollowingPort DEF IInv, TypeOK
  <1>6. PairsAligned' /\ LowEven'
    BY DEF IInv, PairsAligned, LowEven
  <1>7. NoSharedPort' /\ MarkedIsHeld'
    BY <1>2, <1>3 DEF IInv, NoSharedPort, MarkedIsHeld, Held
  <1> QED
    BY <1>4, <1>5, <1>6, <1>7 DEF IInv, CountsExact

(* GetTwo takes an even port as its low port.                              *)
LEMMA EvenLowIInv == ASSUME IInv, EvenLow PROVE IInv'
  <1> USE DEF EvenLow, Found, history
  <1>1. next \in Ports /\ next \notin marked
    BY DEF IInv, TypeOK
  <1>2. /\ Held' = Held \cup {next} /\ PairPorts' = PairPorts
        /\ InHand' = {next} /\ InHand = {}
    BY DEF Held, PairPorts, InHand
  <1>3. next \notin Held /\ next \notin excluded \cup stray
    BY <1>1 DEF IInv, MarkedIsHeld
  <1>4. used' = Cardinality(Held')
    BY <1>2, <1>3, HeldFinite, OneMore DEF IInv, CountsExact
  <1>5. TypeOK'
    BY <1>1, FollowingPort DEF IInv, TypeOK, Ports
  <1>6. PairsAligned' /\ LowEven'
    BY <1>1 DEF IInv, PairsAligned, LowEven
  <1>7. NoSharedPort' /\ MarkedIsHeld'
    BY <1>2, <1>3 DEF IInv, NoSharedPort, MarkedIsHeld, Held
  <1> QED
    BY <1>4, <1>5, <1>6, <1>7 DEF IInv, CountsExact

(* GetTwo completes its pair with the neighbour of low.                    *)
LEMMA GotTwoIInv == ASSUME IInv, GotTwo PROVE IInv'
  <1> USE DEF GotTwo, Found
  <1>1. next \in Ports /\ next \notin marked /\ low \in Ports /\ ~Odd(low)
    BY DEF IInv, TypeOK, LowEven
  <1>2. /\ Held' = Held \cup {next}
        /\ PairPorts' = PairPorts \cup {low, next}
        /\ InHand' = {} /\ InHand = {low}
    BY <1>1 DEF Held, PairPorts, InHand
  <1>3. next \notin Held /\ next \notin excluded \cup stray
    BY <1>1 DEF IInv, MarkedIsHeld
  <1>4. used' = Cardinality(Held')
    BY <1>2, <1>3, HeldFinite, OneMore DEF IInv, CountsExact
  <1>5. TypeOK'
    BY <1>1, FollowingPort DEF IInv, TypeOK
  <1>6. PairsAligned' /\ LowEven'
    BY <1>1 DEF IInv, PairsAligned, LowEven
  <1>7. NoSharedPort' /\ MarkedIsHeld'
    BY <1>2, <1>3 DEF IInv, NoSharedPort, MarkedIsHeld, Held
  <1> QED
    BY <1>4, <1>5, <1>6, <1>7 DEF IInv, CountsExact

(* GetTwo exchanges its low port for another even port.                    *)
LEMMA EvenHighIInv == ASSUME IInv, EvenHigh PROVE IInv'
  <1> USE DEF EvenHigh, Found, history
  <1>1. next \in Ports /\ next \notin marked
    BY DEF IInv, TypeOK
  <1>2. /\ PairPorts' = PairPorts
        /\ InHand' = {next} /\ InHand = {low}
    BY DEF PairPorts, InHand
  <1>3. next \notin Held /\ next \notin excluded \cup stray /\ low \in Held
    BY <1>1, <1>2 DEF IInv, MarkedIsHeld, Held
  <1>4. Held' = (Held \ {low}) \cup {next}
    BY <1>2, <1>3 DEF IInv, NoSharedPort, Held
  <1>5. used' = Cardinality(Held')
    <2>1. Cardinality(Held \ {low}) = used - 1 /\ IsFiniteSet(Held \ {low})
      BY <1>3, HeldFinite, OneLess DEF IInv, CountsExact
    <2>2. Cardinality(Held') = used - 1 + 1
      BY <1>3, <1>4, <2>1, OneMore
    <2> QED
      BY <2>2 DEF IInv, TypeOK
  <1>6. TypeOK'
    BY <1>1, FollowingPort DEF IInv, TypeOK, Ports
  <1>7. PairsAligned' /\ LowEven'
    BY <1>1 DEF IInv, PairsAligned, LowEven
  <1>8. NoSharedPort' /\ MarkedIsHeld'
    BY <1>2, <1>3, <1>4 DEF IInv, NoSharedPort, MarkedIsHeld, Held
  <1> QED
    BY <1>5, <1>6, <1>7, <1>8 DEF IInv, CountsExact

(* GetTwo puts its low port back: before it starts over with an odd port   *)
(* in sight, or because GetOne is out of ports.                            *)
LEMMA LowPutBack ==
  ASSUME IInv, pc = "high", pc' \in {"idle", "low"}, next' \in Ports,
         marked' = marked \ {low}, used' = used - 1,
         UNCHANGED <<reserved, low, history>>
  PROVE  IInv'
  <1> USE DEF history
  <1>1. PairPorts' = PairPorts /\ InHand' = {} /\ InHand = {low}
    BY DEF PairPorts, InHand
  <1>2. low \in Held /\ low \notin excluded \cup stray
    BY <1>1 DEF IInv, NoSharedPort, Held
  <1>3. Held' = Held \ {low}
    BY <1>1, <1>2 DEF IInv, NoSharedPort, Held
  <1>4. used' = Cardinality(Held') /\ used' \in Nat
    BY <1>2, <1>3, HeldFinite, OneLess DEF IInv, CountsExact
  <1>5. TypeOK'
    BY <1>4 DEF IInv, TypeOK
  <1>6. PairsAligned' /\ LowEven'
    BY DEF IInv, PairsAligned, LowEven
  <1>7. NoSharedPort' /\ MarkedIsHeld'
    BY <1>1, <1>2, <1>3 DEF IInv, NoSharedPort, MarkedIsHeld, Held
  <1> QED
    BY <1>4, <1>5, <1>6, <1>7 DEF IInv, CountsExact

(* PutOnePort of a port granted by GetOnePort.                             *)
LEMMA PutOneIInv ==
  ASSUME IInv, NEW p \in Ports, PutOne(p)
  PROVE  IInv'
  <1> USE DEF PutOne, callVars
  <1>1. PairPorts' = PairPorts /\ InHand' = {} /\ InHand = {}
    BY DEF PairPorts, InHand
  <1>2. p \in Held /\ p \notin excluded \cup stray
    BY DEF IInv, NoSharedPort, Held
  <1>3. Held' = Held \ {p}
    BY <1>1, <1>2 DEF IInv, NoSharedPort, Held
  <1>4. used' = Cardinality(Held') /\ used' \in Nat
    BY <1>2, <1>3, HeldFinite, OneLess DEF IInv, CountsExact
  <1>5. TypeOK'
    BY <1>4 DEF IInv, TypeOK
  <1>6. PairsAligned' /\ LowEven'
    BY DEF IInv, PairsAligned, LowEven
  <1>7. NoSharedPort' /\ MarkedIsHeld'
    BY <1>1, <1>2, <1>3 DEF IInv, NoSharedPort, MarkedIsHeld, Held
  <1> QED
    BY <1>4, <1>5, <1>6, <1>7 DEF IInv, CountsExact

(* PutPairPorts of a pair granted by GetPairPorts.  The two ports belong   *)
(* to no other pair, because every pair begins with an even port.          *)
LEMMA PutTwoIInv ==
  ASSUME IInv, NEW p \in Ports, PutTwo(p)
  PROVE  IInv'
  <1> USE DEF PutTwo, callVars
  <1>1. PairPorts' = PairPorts \ {p, p + 1}
    <2>1. \A q \in pairs : q # p => q # p + 1 /\ q + 1 # p /\ q + 1 # p + 1
      BY DEF IInv, TypeOK, PairsAligned, Odd, Ports
    <2>2. PairPorts = {p, p + 1} \cup PairPorts'
      BY DEF PairPorts
    <2>3. PairPorts' \cap {p, p + 1} = {}
      <3> SUFFICES ASSUME NEW r \in PairPorts' PROVE r \notin {p, p + 1}
        OBVIOUS
      <3>1. PICK q \in pairs : q # p /\ (r = q \/ r = q + 1)
        BY DEF PairPorts
      <3> QED
        BY <2>1, <3>1
    <2> QED
      BY <2>2, <2>3
  <1>2. InHand' = {} /\ InHand = {}
    BY DEF InHand
  <1>3. /\ p \in PairPorts /\ p + 1 \in PairPorts
        /\ p \in Held /\ p + 1 \in Held
        /\ p \notin excluded \cup stray /\ p + 1 \notin excluded \cup stray
    BY DEF IInv, NoSharedPort, Held, PairPorts
  <1>4. Held' = (Held \ {p}) \ {p + 1}
    BY <1>1, <1>2, <1>3 DEF IInv, NoSharedPort, Held
  <1>5. used' = Cardinality(Held') /\ used' \in Nat
    <2>1. Cardinality(Held \ {p}) = used - 1 /\ IsFiniteSet(Held \ {p})
      BY <1>3, HeldFinite, OneLess DEF IInv, CountsExact
    <2>2. p + 1 \in Held \ {p}
      BY <1>3 DEF Ports
    <2>3. /\ Cardinality((Held \ {p}) \ {p + 1}) = Cardinality(Held \ {p}) - 1
          /\ Cardinality((Held \ {p}) \ {p + 1}) \in Nat
      BY ONLY <2>1, <2>2, OneLess
    <2>4. Cardinality(Held') = used - 1 - 1 /\ Cardinality(Held') \in Nat
      BY ONLY <1>4, <2>1, <2>3
    <2> QED
      BY <2>4 DEF IInv, TypeOK
  <1>6. TypeOK'
    BY <1>5 DEF IInv, TypeOK
  <1>7. PairsAligned' /\ LowEven'
    BY DEF IInv, PairsAligned, LowEven
  <1>8. NoSharedPort'
    BY <1>1, <1>2, <1>4 DEF IInv, NoSharedPort
  <1>9. MarkedIsHeld'
    BY <1>3, <1>4 DEF IInv, MarkedIsHeld
  <1> QED
    BY <1>5, <1>6, <1>7, <1>8, <1>9 DEF IInv, CountsExact

(* SetResevedPort.                                                         *)
LEMMA SetReservedIInv ==
  ASSUME IInv, NEW p \in Ports, SetReserved(p)
  PROVE  IInv'
  <1> USE DEF SetReserved, callVars
  <1>1. Held' = Held /\ PairPorts' = PairPorts /\ InHand' = InHand
    BY DEF Held, PairPorts, InHand
  <1>2. CASE p \in marked
    BY <1>1, <1>2 DEF IInv, TypeOK, PairsAligned, LowEven, NoSharedPort,
                      MarkedIsHeld, CountsExact
  <1>3. CASE p \notin marked
    <2>1. p \notin Held /\ p \notin excluded /\ p \notin stray
      BY <1>3 DEF IInv, MarkedIsHeld
    <2>2. reserved' = Cardinality(excluded')
      BY <1>3, <2>1, HeldFinite, OneMore DEF IInv, CountsExact
    <2>3. TypeOK' /\ PairsAligned' /\ LowEven'
      BY <1>3 DEF IInv, TypeOK, PairsAligned, LowEven
    <2>4. NoSharedPort' /\ MarkedIsHeld'
      BY <1>1, <1>3, <2>1 DEF IInv, NoSharedPort, MarkedIsHeld
    <2> QED
      BY <1>1, <2>2, <2>3, <2>4 DEF IInv, CountsExact
  <1> QED
    BY <1>2, <1>3

(* One iteration of a search preserves the invariant.                      *)
LEMMA SearchIInv == ASSUME IInv, Search PROVE IInv'
  <1>1. CASE Skip
    BY <1>1, KeepsIInv, FollowingPort DEF Skip, IInv, TypeOK
  <1>2. CASE GotOne
    BY <1>2, GotOneIInv
  <1>3. CASE Refuse
    <2>1. CASE pc = "high"
      BY <1>3, <2>1, LowPutBack DEF Refuse, IInv, TypeOK
    <2>2. CASE pc # "high"
      BY <1>3, <2>2, KeepsIInv DEF Refuse, IInv, TypeOK
    <2> QED
      BY <2>1, <2>2
  <1>4. CASE OddLow
    BY <1>4, KeepsIInv, FollowingPort DEF OddLow, Found, IInv, TypeOK
  <1>5. CASE EvenLow
    BY <1>5, EvenLowIInv
  <1>6. CASE GotTwo
    BY <1>6, GotTwoIInv
  <1>7. CASE EvenHigh
    BY <1>7, EvenHighIInv
  <1>8. CASE OddHigh
    BY <1>8, LowPutBack, FollowingPort DEF OddHigh, Found, IInv, TypeOK
  <1> QED
    BY <1>1, <1>2, <1>3, <1>4, <1>5, <1>6, <1>7, <1>8 DEF Search

(* Every step preserves the invariant.                                     *)
LEMMA NextIInv == ASSUME IInv, [Next]_vars PROVE IInv'
  <1>1. CASE Search
    BY <1>1, SearchIInv
  <1>2. CASE GetTwo
    BY <1>2, KeepsIInv DEF GetTwo, IInv, TypeOK
  <1>3. CASE GetOne
    BY <1>3, KeepsIInv DEF GetOne, IInv, TypeOK
  <1>4. ASSUME NEW p \in Ports, PutTwo(p) PROVE IInv'
    BY <1>4, PutTwoIInv
  <1>5. ASSUME NEW p \in Ports, PutOne(p) \/ SetReserved(p) PROVE IInv'
    BY <1>5, PutOneIInv, SetReservedIInv
  <1>6. CASE UNCHANGED vars
    BY <1>6, KeepsIInv DEF vars, callVars, IInv, TypeOK
  <1> QED
    BY <1>1, <1>2, <1>3, <1>4, <1>5, <1>6 DEF Next

(* The inductive invariant holds in every reachable state, for every port  *)
(* range and every sequence of calls to MediaPorts.                        *)
THEOREM Invariance == Spec => []IInv
  BY InitIInv, NextIInv, PTL DEF Spec

(* m_nNext, the marks and the port in hand stay inside the range, and the  *)
(* counters never go below zero.                                           *)
THEOREM TypeCorrect == Spec => []TypeOK
  <1>1. IInv => TypeOK
    BY DEF IInv
  <1> QED
    BY <1>1, Invariance, PTL

(* No port is granted to two holders, whatever GetOnePort, GetPairPorts,   *)
(* PutOnePort, PutPairPorts and SetResevedPort are called in which order.  *)
THEOREM NoPortIsShared == Spec => []NoSharedPort
  <1>1. IInv => NoSharedPort
    BY DEF IInv
  <1> QED
    BY <1>1, Invariance, PTL

(* GetTwo's marking and unmarking leaks no port, and the bit that PutOne   *)
(* resets is always set.                                                   *)
THEOREM NoPortLeaks == Spec => []MarkedIsHeld
  <1>1. IInv => MarkedIsHeld
    BY DEF IInv
  <1> QED
    BY <1>1, Invariance, PTL

(* m_nUsed and m_nReserved are exact whenever GetOne or GetTwo test them.  *)
THEOREM CountersExact == Spec => []CountsExact
  <1>1. IInv => CountsExact
    BY DEF IInv
  <1> QED
    BY <1>1, Invariance, PTL

(* Every pair handed out is an even port and its odd successor.            *)
THEOREM PairsAreAligned == Spec => []PairsAligned
  <1>1. IInv => PairsAligned
    BY DEF IInv
  <1> QED
    BY <1>1, Invariance, PTL
===============================================================================
