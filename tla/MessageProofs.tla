----------------------------- MODULE MessageProofs ----------------------------
(***************************************************************************)
(* Proofs about the two things an RTSP exchange carries.                   *)
(*                                                                         *)
(* RtspMsg, for any sizes of the header array, any values and any number   *)
(* of messages: growing the array and removing headers neither leak nor    *)
(* share a long value, and a message that lost no header but its last      *)
(* keeps what it was given.                                                *)
(*                                                                         *)
(* Sdp, for descriptions of any length: every line goes to the section it  *)
(* stands in, the control of a track is the first of its own media, and    *)
(* the destructor frees exactly what it owns.                              *)
(***************************************************************************)
EXTENDS RtspMsg, Sdp, FiniteSetTheorems, SequenceTheorems, WellFoundedInduction, TLAPS

USE MsgAssumption

(* What a slot can hold: a header, nothing, or the copy of an emptied one. *)
Headers == [m_field : Fields, m_pValue : Values]

KeyValues == {Unfilled, CopyOf(Unfilled)} \cup Headers

Arrays ==
    [m_nSize : {0, DEF_MAX_KEY_VALUE, TOP_MAX_KEY_VALUE}, m_nKeyValueSum : Nat,
     slots : Seq(KeyValues), blocks : Int]

(* An array has as many slots as it says and uses some of them.            *)
ArrayOK(a) ==
    /\ a \in Arrays
    /\ Len(a.slots) = a.m_nSize
    /\ a.m_nKeyValueSum <= a.m_nSize

(* Its heap blocks are itself and its long values.                         *)
Owned(a) == a.blocks = LongIn(a.slots) + (IF a.m_nSize = 0 THEN 0 ELSE 1)

(* It holds the headers s and nothing beyond them.                         *)
Holds(a, s) ==
    /\ InUse(a) = s
    /\ \A i \in 1 .. a.m_nSize : i > a.m_nKeyValueSum => a.slots[i] = Unfilled

(* The inductive invariant of the calls.                                   *)
MsgInv ==
    /\ hdrFields \in [Msgs -> Arrays]
    /\ wanted \in [Msgs -> Seq(Headers)]
    /\ damaged \subseteq Msgs
    /\ \A m \in Msgs : ArrayOK(hdrFields[m]) /\ Owned(hdrFields[m])
    /\ \A m \in Msgs \ damaged : Holds(hdrFields[m], wanted[m])
    /\ msgFault.at = "fill" => msgFault.of \in damaged
-------------------------------------------------------------------------------
(* A set of positions that is not empty has a first one.                   *)
LEMMA FirstExists ==
  ASSUME NEW S \in SUBSET Nat, S # {}
  PROVE  Min(S) \in S /\ \A y \in S : Min(S) <= y
  <1> DEFINE R == {ss \in Nat \X Nat : ss[1] < ss[2]}
  <1>1. IsWellFoundedOn(R, Nat)
    BY NatLessThanWellFounded, Zenon DEF OpToRel
  <1>2. \E x \in S : \A y \in S : <<y, x>> \notin R
    <2> HIDE DEF R
    <2> QED
      BY <1>1, WFMin
  <1>3. PICK x \in S : \A y \in S : <<y, x>> \notin R
    BY <1>2
  <1>4. ASSUME NEW y \in S PROVE x <= y
    <2>1. <<y, x>> \in Nat \X Nat /\ <<y, x>>[1] = y /\ <<y, x>>[2] = x
      OBVIOUS
    <2>2. ~ (y < x)
      BY <1>3, <2>1
    <2> QED
      BY <2>2
  <1> QED
    BY <1>4 DEF Min

(* FirstOf is a position of the sequence, or 0 if no header has the field. *)
LEMMA FirstOfRange ==
  ASSUME NEW s \in Seq(KeyValues), NEW field
  PROVE  /\ FirstOf(s, field) \in 0 .. Len(s)
         /\ FirstOf(s, field) # 0 => s[FirstOf(s, field)].m_field = field
  <1> DEFINE I == {i \in 1 .. Len(s) : s[i].m_field = field}
  <1>1. FirstOf(s, field) = IF I # {} THEN Min(I) ELSE 0
    BY DEF FirstOf, SelectInSeq
  <1>2. I \in SUBSET Nat
    OBVIOUS
  <1>3. I # {} => Min(I) \in I
    BY <1>2, FirstExists
  <1> QED
    BY <1>1, <1>3
-------------------------------------------------------------------------------
(* A short value, and no value at all, has no heap block.                  *)
LEMMA ShortValues ==
  /\ Unfilled \in KeyValues /\ Unfilled.m_pValue = "NULL"
  /\ "NULL" \notin LongValues /\ "m_szInit" \notin LongValues
  /\ \A k \in KeyValues : /\ CopyOf(k) \in KeyValues
                          /\ k.m_pValue = "NULL" => k = Unfilled
  /\ \A h \in Headers : h \in KeyValues /\ CopyOf(h) = h /\ h.m_pValue # "NULL"
  BY DEF Unfilled, CopyOf, KeyValues, Headers

(* The slots with a long value can be counted.                             *)
LEMMA LongInNat ==
  ASSUME NEW s \in Seq(KeyValues)
  PROVE  LongIn(s) \in Nat
  <1> DEFINE L == {i \in DOMAIN s : s[i].m_pValue \in LongValues}
  <1>1. L \in SUBSET (1 .. Len(s)) /\ Len(s) \in Nat
    OBVIOUS
  <1>2. IsFiniteSet(1 .. Len(s))
    BY <1>1, FS_Interval
  <1> HIDE DEF L
  <1>3. IsFiniteSet(L)
    BY <1>1, <1>2, FS_Subset
  <1>4. Cardinality(L) \in Nat
    BY <1>3, FS_CardinalityType
  <1> QED
    BY <1>4 DEF LongIn, L

(* Counting: a slot without a value is filled.                             *)
LEMMA LongFilled ==
  ASSUME NEW s \in Seq(KeyValues), NEW i \in 1 .. Len(s), s[i] = Unfilled,
         NEW h \in KeyValues
  PROVE  LongIn([s EXCEPT ![i] = h]) = LongIn(s) + HeapOf(h.m_pValue)
  <1> DEFINE L == {j \in DOMAIN s : s[j].m_pValue \in LongValues}
             t == [s EXCEPT ![i] = h]
             M == {j \in DOMAIN t : t[j].m_pValue \in LongValues}
  <1>1. L \in SUBSET (1 .. Len(s)) /\ Len(s) \in Nat
    OBVIOUS
  <1>2. M = IF h.m_pValue \in LongValues THEN L \cup {i} ELSE L
    BY ShortValues
  <1>3. i \notin L
    BY ShortValues
  <1>4. IsFiniteSet(1 .. Len(s))
    BY <1>1, FS_Interval
  <1> HIDE DEF L, M, t
  <1>5. IsFiniteSet(L)
    BY <1>1, <1>4, FS_Subset
  <1>6. Cardinality(L) \in Nat /\ Cardinality(L \cup {i}) = Cardinality(L) + 1
    BY <1>3, <1>5, FS_AddElement, FS_CardinalityType
  <1>7. LongIn(s) = Cardinality(L) /\ LongIn(t) = Cardinality(M)
    BY DEF LongIn, L, M
  <1> QED
    BY <1>2, <1>6, <1>7 DEF HeapOf, t

(* Counting: a slot is emptied.                                            *)
LEMMA LongEmptied ==
  ASSUME NEW s \in Seq(KeyValues), NEW i \in 1 .. Len(s)
  PROVE  LongIn([s EXCEPT ![i] = Unfilled]) = LongIn(s) - HeapOf(s[i].m_pValue)
  <1> DEFINE L == {j \in DOMAIN s : s[j].m_pValue \in LongValues}
             t == [s EXCEPT ![i] = Unfilled]
             M == {j \in DOMAIN t : t[j].m_pValue \in LongValues}
  <1>1. L \in SUBSET (1 .. Len(s)) /\ Len(s) \in Nat
    OBVIOUS
  <1>2. M = L \ {i}
    BY ShortValues
  <1>3. i \in L <=> s[i].m_pValue \in LongValues
    OBVIOUS
  <1>4. IsFiniteSet(1 .. Len(s))
    BY <1>1, FS_Interval
  <1> HIDE DEF L, M, t
  <1>5. IsFiniteSet(L)
    BY <1>1, <1>4, FS_Subset
  <1>6. /\ Cardinality(L) \in Nat
        /\ Cardinality(L \ {i}) = IF i \in L THEN Cardinality(L) - 1
                                  ELSE Cardinality(L)
    BY <1>5, FS_RemoveElement, FS_CardinalityType
  <1>7. LongIn(s) = Cardinality(L) /\ LongIn(t) = Cardinality(M)
    BY DEF LongIn, L, M
  <1> QED
    BY <1>2, <1>3, <1>6, <1>7 DEF HeapOf, t

(* The slots in use are a sequence.                                        *)
LEMMA InUseSeq ==
  ASSUME NEW a, ArrayOK(a)
  PROVE  /\ InUse(a) \in Seq(KeyValues)
         /\ Len(InUse(a)) = a.m_nKeyValueSum
         /\ \A i \in 1 .. a.m_nKeyValueSum : InUse(a)[i] = a.slots[i]
  BY DEF InUse, ArrayOK, Arrays

(* RemoveHeader and GetHeader look at slots in use only.                   *)
LEMMA IndexOfRange ==
  ASSUME NEW a, ArrayOK(a), NEW field
  PROVE  /\ IndexOf(a, field) \in 0 .. a.m_nKeyValueSum
         /\ IndexOf(a, field) # 0 => a.slots[IndexOf(a, field)].m_field = field
  BY InUseSeq, FirstOfRange DEF IndexOf

(* Growing: the larger array owns its copies, the old ones are gone, and   *)
(* headers are copied as they are.                                         *)
LEMMA Grown ==
  ASSUME NEW a, ArrayOK(a), Owned(a), a.m_nSize = DEF_MAX_KEY_VALUE,
         NEW b, b = TakeKeyValuesToLarger(a, TOP_MAX_KEY_VALUE)
  PROVE  /\ ArrayOK(b) /\ Owned(b)
         /\ b.m_nSize = TOP_MAX_KEY_VALUE /\ b.m_nKeyValueSum = a.m_nKeyValueSum
         /\ \A s \in Seq(Headers) : Holds(a, s) => Holds(b, s)
  <1> DEFINE copies == [i \in 1 .. TOP_MAX_KEY_VALUE |->
                            IF i <= a.m_nKeyValueSum THEN CopyOf(a.slots[i])
                            ELSE Unfilled]
  <1>1. /\ a \in Arrays /\ a.slots \in Seq(KeyValues) /\ a.m_nKeyValueSum \in Nat
        /\ a.blocks \in Int /\ Len(a.slots) = DEF_MAX_KEY_VALUE
        /\ a.m_nKeyValueSum <= DEF_MAX_KEY_VALUE
    BY DEF ArrayOK, Arrays
  <1>2. \A i \in 1 .. a.m_nKeyValueSum : a.slots[i] \in KeyValues
    BY <1>1
  <1>3. copies \in Seq(KeyValues) /\ Len(copies) = TOP_MAX_KEY_VALUE
    BY <1>1, <1>2, ShortValues
  <1>4. \A i \in 1 .. TOP_MAX_KEY_VALUE :
            copies[i] = IF i <= a.m_nKeyValueSum THEN CopyOf(a.slots[i])
                        ELSE Unfilled
    OBVIOUS
  <1>5. b = [a EXCEPT !.m_nSize = TOP_MAX_KEY_VALUE, !.slots = copies,
                      !.blocks = (a.blocks + 1 + LongIn(copies))
                                 - (1 + LongIn(a.slots))]
    BY DEF TakeKeyValuesToLarger
  <1> HIDE DEF copies
  <1>6. LongIn(copies) \in Nat /\ LongIn(a.slots) \in Nat
    BY <1>1, <1>3, LongInNat
  <1>7. /\ b.m_nSize = TOP_MAX_KEY_VALUE /\ b.slots = copies
        /\ b.m_nKeyValueSum = a.m_nKeyValueSum
        /\ b.blocks = (a.blocks + 1 + LongIn(copies)) - (1 + LongIn(a.slots))
    BY <1>1, <1>5 DEF Arrays
  <1>8. ArrayOK(b)
    <2>1. b.blocks \in Int
      BY <1>1, <1>6, <1>7
    <2>2. b = [m_nSize |-> b.m_nSize, m_nKeyValueSum |-> b.m_nKeyValueSum,
               slots |-> b.slots, blocks |-> b.blocks]
      BY <1>1, <1>5 DEF Arrays
    <2>3. b \in Arrays
      BY <1>1, <1>3, <1>7, <2>1, <2>2 DEF Arrays
    <2> QED
      BY <1>1, <1>3, <1>7, <2>3 DEF ArrayOK
  <1>9. Owned(b)
    BY <1>1, <1>6, <1>7 DEF Owned
  <1>10. ASSUME NEW s \in Seq(Headers), Holds(a, s)
         PROVE  Holds(b, s)
    <2>1. /\ Len(s) = a.m_nKeyValueSum
          /\ \A i \in 1 .. a.m_nKeyValueSum : s[i] = a.slots[i] /\ s[i] \in Headers
      BY <1>10, InUseSeq DEF Holds
    <2>2. \A i \in 1 .. a.m_nKeyValueSum : copies[i] = s[i]
      BY <1>1, <1>4, <2>1, ShortValues
    <2>3. InUse(b) = s
      BY <1>1, <1>7, <2>1, <2>2 DEF InUse
    <2> QED
      BY <1>1, <1>4, <1>7, <2>3 DEF Holds
  <1> QED
    BY <1>7, <1>8, <1>9, <1>10

(* The array that AddHeader fills.                                         *)
LEMMA EnlargedOK ==
  ASSUME NEW a, ArrayOK(a), Owned(a), NEW b, b = Enlarged(a)
  PROVE  /\ ArrayOK(b) /\ Owned(b)
         /\ b.m_nSize # 0 /\ b.m_nKeyValueSum = a.m_nKeyValueSum
         /\ b.m_nKeyValueSum = b.m_nSize => a.m_nKeyValueSum = TOP_MAX_KEY_VALUE
         /\ \A s \in Seq(Headers) : Holds(a, s) => Holds(b, s)
  <1> DEFINE c == IF a.m_nSize = 0 THEN RtspKeyValueArray ELSE a
             empty == [i \in 1 .. DEF_MAX_KEY_VALUE |-> Unfilled]
  <1>1. /\ ArrayOK(c) /\ Owned(c)
        /\ c.m_nSize # 0 /\ c.m_nKeyValueSum = a.m_nKeyValueSum
        /\ \A s \in Seq(Headers) : Holds(a, s) => Holds(c, s)
    <2>1. CASE a.m_nSize # 0
      BY <2>1
    <2>2. CASE a.m_nSize = 0
      <3>1. empty \in Seq(KeyValues) /\ Len(empty) = DEF_MAX_KEY_VALUE
        BY ShortValues
      <3>2. \A i \in 1 .. DEF_MAX_KEY_VALUE : empty[i] = Unfilled
        OBVIOUS
      <3>3. {j \in DOMAIN empty : empty[j].m_pValue \in LongValues} = {}
        BY ShortValues
      <3>4. LongIn(empty) = 0
        BY <3>3, FS_EmptySet DEF LongIn
      <3>5. /\ c.m_nSize = DEF_MAX_KEY_VALUE /\ c.m_nKeyValueSum = 0
            /\ c.slots = empty /\ c.blocks = 1
            /\ c = [m_nSize |-> DEF_MAX_KEY_VALUE, m_nKeyValueSum |-> 0,
                    blocks |-> 1, slots |-> empty]
        BY <2>2 DEF RtspKeyValueArray
      <3> HIDE DEF empty, c
      <3>6. ArrayOK(c)
        BY <3>1, <3>5 DEF ArrayOK, Arrays
      <3>7. Owned(c)
        BY <3>4, <3>5 DEF Owned
      <3>8. a.m_nKeyValueSum = 0
        BY <2>2 DEF ArrayOK, Arrays
      <3>9. ASSUME NEW s \in Seq(Headers), Holds(a, s) PROVE Holds(c, s)
        <4>1. InUse(c) = InUse(a)
          BY <3>5, <3>8 DEF InUse
        <4> QED
          BY <3>2, <3>5, <3>9, <4>1 DEF Holds
      <3> QED
        BY <3>5, <3>6, <3>7, <3>8, <3>9
    <2> QED
      BY <2>1, <2>2
  <1>2. b = IF c.m_nSize = DEF_MAX_KEY_VALUE /\ c.m_nKeyValueSum = c.m_nSize
            THEN TakeKeyValuesToLarger(c, TOP_MAX_KEY_VALUE) ELSE c
    BY DEF Enlarged
  <1> HIDE DEF c
  <1>3. c.m_nSize \in {DEF_MAX_KEY_VALUE, TOP_MAX_KEY_VALUE}
    BY <1>1 DEF ArrayOK, Arrays
  <1>4. CASE c.m_nSize = DEF_MAX_KEY_VALUE /\ c.m_nKeyValueSum = c.m_nSize
    BY <1>1, <1>2, <1>4, Grown
  <1>5. CASE ~ (c.m_nSize = DEF_MAX_KEY_VALUE /\ c.m_nKeyValueSum = c.m_nSize)
    BY <1>1, <1>2, <1>3, <1>5
  <1> QED
    BY <1>4, <1>5

(* AddHeader appends the header, or leaves the headers as they are; it     *)
(* finds a used slot only beyond headers that are not all there are.       *)
LEMMA AddHeaderOK ==
  ASSUME NEW a, ArrayOK(a), Owned(a), NEW field \in Fields, NEW v \in Values,
         NEW r, r = AddHeader(a, field, v)
  PROVE  /\ ArrayOK(r.fields) /\ Owned(r.fields)
         /\ r.fields.m_nSize # 0
         /\ r.result = "ERROR" => a.m_nKeyValueSum = TOP_MAX_KEY_VALUE
         /\ r.result = "EOK" => r.fields.m_nKeyValueSum = a.m_nKeyValueSum + 1
         /\ r.result \in {"EOK", "ERROR", "assert"}
         /\ \A s \in Seq(Headers) :
                Holds(a, s) =>
                    /\ r.result # "assert"
                    /\ r.result = "EOK" =>
                           Holds(r.fields, Append(s, Header(field, v)))
                    /\ r.result # "EOK" => Holds(r.fields, s)
  <1> DEFINE b == Enlarged(a)
             n == b.m_nKeyValueSum + 1
             h == [m_field |-> field, m_pValue |-> v]
             filled == [b.slots EXCEPT ![n] = h]
  <1>1. /\ ArrayOK(b) /\ Owned(b)
        /\ b.m_nSize # 0 /\ b.m_nKeyValueSum = a.m_nKeyValueSum
        /\ b.m_nKeyValueSum = b.m_nSize => a.m_nKeyValueSum = TOP_MAX_KEY_VALUE
        /\ \A s \in Seq(Headers) : Holds(a, s) => Holds(b, s)
    BY EnlargedOK
  <1>2. r = IF b.m_nKeyValueSum = b.m_nSize THEN [fields |-> b, result |-> "ERROR"]
            ELSE IF b.slots[n].m_pValue # "NULL"
            THEN [fields |-> b, result |-> "assert"]
            ELSE [fields |-> AddKeyValue(b, field, v), result |-> "EOK"]
    BY DEF AddHeader
  <1>3. /\ b \in Arrays /\ b.slots \in Seq(KeyValues) /\ b.m_nKeyValueSum \in Nat
        /\ b.m_nSize \in Nat /\ b.blocks \in Int
        /\ Len(b.slots) = b.m_nSize /\ b.m_nKeyValueSum <= b.m_nSize
    BY <1>1 DEF ArrayOK, Arrays
  <1> HIDE DEF b
  <1>4. CASE b.m_nKeyValueSum = b.m_nSize
    BY <1>1, <1>2, <1>4
  <1>5. CASE b.m_nKeyValueSum # b.m_nSize /\ b.slots[n].m_pValue # "NULL"
    <2>1. n \in 1 .. b.m_nSize /\ n > b.m_nKeyValueSum
      BY <1>3, <1>5
    <2>2. b.slots[n] # Unfilled
      BY <1>5, ShortValues
    <2>3. r = [fields |-> b, result |-> "assert"]
      BY <1>2, <1>5
    <2> QED
      BY <1>1, <2>1, <2>2, <2>3 DEF Holds
  <1>6. CASE b.m_nKeyValueSum # b.m_nSize /\ b.slots[n].m_pValue = "NULL"
    <2>1. n \in 1 .. Len(b.slots) /\ n = b.m_nKeyValueSum + 1
      BY <1>3, <1>6
    <2>2. b.slots[n] \in KeyValues /\ h \in Headers /\ h.m_pValue = v
      BY <1>3, <2>1 DEF Headers
    <2>3. b.slots[n] = Unfilled /\ h \in KeyValues
      BY <1>6, <2>2, ShortValues
    <2>4. LongIn(filled) = LongIn(b.slots) + HeapOf(v)
      BY <1>3, <2>1, <2>2, <2>3, LongFilled
    <2>5. /\ r.result = "EOK"
          /\ r.fields = [b EXCEPT !.slots = filled, !.m_nKeyValueSum = n,
                                  !.blocks = b.blocks + HeapOf(v)]
      BY <1>2, <1>3, <1>6 DEF AddKeyValue, Arrays
    <2>6. filled \in Seq(KeyValues) /\ Len(filled) = Len(b.slots)
      BY <1>3, <2>1, <2>3
    <2>7. /\ \A i \in 1 .. Len(b.slots) : i # n => filled[i] = b.slots[i]
          /\ filled[n] = h
      BY <1>3, <2>1
    <2>8. HeapOf(v) \in Int /\ LongIn(b.slots) \in Nat
      BY <1>3, LongInNat DEF HeapOf
    <2> HIDE DEF filled, n, h
    <2>9. /\ r.fields.m_nSize = b.m_nSize /\ r.fields.m_nKeyValueSum = n
          /\ r.fields.slots = filled
          /\ r.fields.blocks = b.blocks + HeapOf(v)
      BY <1>3, <2>5 DEF Arrays
    <2>10. ArrayOK(r.fields)
      <3>1. r.fields.blocks \in Int /\ n \in Nat
        BY <1>3, <2>1, <2>8, <2>9
      <3>2. r.fields = [m_nSize |-> r.fields.m_nSize,
                        m_nKeyValueSum |-> r.fields.m_nKeyValueSum,
                        slots |-> r.fields.slots, blocks |-> r.fields.blocks]
        BY <1>3, <2>5 DEF Arrays
      <3>3. r.fields \in Arrays
        BY <1>3, <2>6, <2>9, <3>1, <3>2 DEF Arrays
      <3> QED
        BY <1>3, <2>1, <2>6, <2>9, <3>3 DEF ArrayOK
    <2>11. Owned(r.fields)
      BY <1>1, <1>3, <2>4, <2>8, <2>9 DEF Owned
    <2>12. ASSUME NEW s \in Seq(Headers), Holds(a, s)
           PROVE  Holds(r.fields, Append(s, Header(field, v)))
      <3>1. /\ Holds(b, s) /\ Len(s) = b.m_nKeyValueSum
            /\ \A i \in 1 .. b.m_nKeyValueSum : s[i] = b.slots[i]
        BY <1>1, <2>12, InUseSeq DEF Holds
      <3>2. Header(field, v) = h
        BY DEF Header, h
      <3>3. /\ Append(s, h) \in Seq(Headers) /\ Len(Append(s, h)) = n
            /\ \A i \in 1 .. b.m_nKeyValueSum : Append(s, h)[i] = filled[i]
            /\ Append(s, h)[n] = h
        <4>1. /\ Append(s, h) \in Seq(Headers)
              /\ Len(Append(s, h)) = Len(s) + 1
              /\ \A i \in 1 .. Len(s) : Append(s, h)[i] = s[i]
              /\ Append(s, h)[Len(s) + 1] = h
          BY <2>2, AppendProperties
        <4>2. \A i \in 1 .. b.m_nKeyValueSum : filled[i] = b.slots[i]
          BY <1>3, <2>1, <2>7
        <4> QED
          BY <2>1, <3>1, <4>1, <4>2
      <3>4. InUse(r.fields) = Append(s, h)
        <4>1. \A i \in 1 .. n : Append(s, h)[i] = filled[i]
          BY <1>3, <2>1, <2>7, <3>3
        <4>2. n \in Nat
          BY <1>3, <2>1
        <4> DEFINE t == Append(s, h)
        <4>3. t \in Seq(Headers) /\ Len(t) = n /\ \A i \in 1 .. n : t[i] = filled[i]
          BY <3>3, <4>1
        <4> HIDE DEF t
        <4>4. t = [i \in 1 .. n |-> t[i]]
          BY <4>2, <4>3
        <4>5. InUse(r.fields) = t
          BY <2>9, <4>3, <4>4 DEF InUse
        <4> QED
          BY <4>5 DEF t
      <3>5. \A i \in 1 .. b.m_nSize : i > n => filled[i] = Unfilled
        BY <1>3, <2>1, <2>7, <3>1 DEF Holds
      <3> QED
        BY <2>9, <3>2, <3>4, <3>5 DEF Holds
    <2> QED
      BY <1>1, <2>1, <2>5, <2>9, <2>10, <2>11, <2>12
  <1> QED
    BY <1>4, <1>5, <1>6

(* Removing the last header.                                               *)
LEMMA WithoutLast ==
  ASSUME NEW s \in Seq(Headers), NEW field, FirstOf(s, field) \in {0, Len(s)}
  PROVE  /\ Without(s, field) \in Seq(Headers)
         /\ FirstOf(s, field) = 0 => Without(s, field) = s
         /\ FirstOf(s, field) # 0 => Without(s, field) = SubSeq(s, 1, Len(s) - 1)
  <1>1. CASE FirstOf(s, field) = 0
    BY <1>1 DEF Without
  <1>2. CASE FirstOf(s, field) # 0
    <2> DEFINE n == Len(s)
    <2>1. n \in Nat /\ \A i \in 1 .. n : s[i] \in Headers
      OBVIOUS
    <2>2. Without(s, field) = SubSeq(s, 1, n - 1) \o SubSeq(s, n + 1, n)
      BY <1>2 DEF Without, RemoveAt
    <2>3. SubSeq(s, n + 1, n) = << >>
      BY <2>1, SubSeqEmpty
    <2>4. SubSeq(s, 1, n - 1) \in Seq(Headers)
      BY <2>1, SubSeqProperties
    <2>5. SubSeq(s, 1, n - 1) \o << >> = SubSeq(s, 1, n - 1)
      BY <2>4, ConcatEmptySeq
    <2> QED
      BY <1>2, <2>2, <2>3, <2>4, <2>5
  <1> QED
    BY <1>1, <1>2

(* Also in a damaged message Without is a sequence of headers.             *)
LEMMA WithoutSeq ==
  ASSUME NEW s \in Seq(Headers), NEW field
  PROVE  Without(s, field) \in Seq(Headers)
  <1> DEFINE i == FirstOf(s, field)
  <1>1. i \in 0 .. Len(s) /\ Len(s) \in Nat /\ \A j \in 1 .. Len(s) : s[j] \in Headers
    <2>1. s \in Seq(KeyValues)
      BY SeqMonotonic DEF KeyValues
    <2> QED
      BY <2>1, FirstOfRange
  <1>2. CASE i = 0
    BY <1>2 DEF Without
  <1>3. CASE i # 0
    <2>1. Without(s, field) = SubSeq(s, 1, i - 1) \o SubSeq(s, i + 1, Len(s))
      BY <1>3 DEF Without, RemoveAt
    <2> HIDE DEF i
    <2>2. SubSeq(s, 1, i - 1) \in Seq(Headers)
      <3>1. \A j \in 1 .. i - 1 : s[j] \in Headers
        BY <1>1
      <3> QED
        BY <1>1, <3>1, SubSeqProperties
    <2>3. SubSeq(s, i + 1, Len(s)) \in Seq(Headers)
      <3>1. \A j \in i + 1 .. Len(s) : s[j] \in Headers
        BY <1>1, <1>3
      <3> QED
        BY <1>1, <3>1, SubSeqProperties
    <2> QED
      BY <2>1, <2>2, <2>3, ConcatProperties
  <1> QED
    BY <1>2, <1>3

(* RemoveHeader frees the value it removes, also when it empties a slot    *)
(* that is not the last; otherwise the message keeps its other headers.    *)
LEMMA RemoveHeaderOK ==
  ASSUME NEW a, ArrayOK(a), Owned(a), NEW field, NEW b, b = RemoveHeader(a, field)
  PROVE  /\ ArrayOK(b) /\ Owned(b)
         /\ b = a \/ b.m_nKeyValueSum < TOP_MAX_KEY_VALUE
         /\ \A s \in Seq(Headers) :
                Holds(a, s) /\ ~ Damages(a, field) =>
                    /\ Without(s, field) \in Seq(Headers)
                    /\ Holds(b, Without(s, field))
                    /\ b = a => Without(s, field) = s
  <1> DEFINE i == IndexOf(a, field)
             n == a.m_nKeyValueSum
             emptied == [a.slots EXCEPT ![i] = Unfilled]
  <1>1. /\ a \in Arrays /\ a.slots \in Seq(KeyValues) /\ n \in Nat
        /\ a.m_nSize \in Nat /\ a.blocks \in Int
        /\ Len(a.slots) = a.m_nSize /\ n <= a.m_nSize
        /\ a.m_nSize <= TOP_MAX_KEY_VALUE
    BY DEF ArrayOK, Arrays
  <1>2. i \in 0 .. n
    BY IndexOfRange
  <1>3. \A s : Holds(a, s) => i = FirstOf(s, field)
    BY DEF Holds, IndexOf
  <1>4. \A s \in Seq(Headers) : Holds(a, s) => Len(s) = n
    BY InUseSeq DEF Holds
  <1>5. CASE i = 0
    <2>1. b = a
      BY <1>5 DEF RemoveHeader
    <2>2. ASSUME NEW s \in Seq(Headers), Holds(a, s)
          PROVE  Without(s, field) = s
      BY <1>3, <1>5, <2>2 DEF Without
    <2> QED
      BY <2>1, <2>2
  <1>6. CASE i # 0
    <2>1. i \in 1 .. Len(a.slots) /\ i \in 1 .. n
      BY <1>1, <1>2, <1>6
    <2>2. LongIn(emptied) = LongIn(a.slots) - HeapOf(a.slots[i].m_pValue)
      BY <1>1, <2>1, LongEmptied
    <2>3. emptied \in Seq(KeyValues) /\ Len(emptied) = Len(a.slots)
      BY <1>1, <2>1, ShortValues
    <2>4. /\ \A j \in 1 .. Len(a.slots) : j # i => emptied[j] = a.slots[j]
          /\ emptied[i] = Unfilled
      BY <1>1, <2>1
    <2>5. b = [a EXCEPT !.slots = emptied, !.m_nKeyValueSum = n - 1,
                        !.blocks = a.blocks - HeapOf(a.slots[i].m_pValue)]
      BY <1>1, <1>6 DEF RemoveHeader, UnsetKeyValue, Arrays
    <2>6. HeapOf(a.slots[i].m_pValue) \in Int /\ LongIn(a.slots) \in Nat
      BY <1>1, LongInNat DEF HeapOf
    <2>7. i = n \/ Damages(a, field)
      BY <1>6 DEF Damages
    <2> HIDE DEF i, emptied
    <2>8. /\ b.m_nSize = a.m_nSize /\ b.m_nKeyValueSum = n - 1 /\ b.slots = emptied
          /\ b.blocks = a.blocks - HeapOf(a.slots[i].m_pValue)
          /\ b = [m_nSize |-> b.m_nSize, m_nKeyValueSum |-> b.m_nKeyValueSum,
                  slots |-> b.slots, blocks |-> b.blocks]
      BY <1>1, <2>5 DEF Arrays
    <2>9. b.blocks \in Int /\ n - 1 \in Nat
      BY <1>1, <2>1, <2>6, <2>8
    <2>10. ArrayOK(b)
      <3>1. b \in Arrays
        BY <1>1, <2>3, <2>8, <2>9 DEF Arrays
      <3> QED
        BY <1>1, <2>3, <2>8, <3>1 DEF ArrayOK
    <2>11. Owned(b)
      BY <1>1, <2>2, <2>6, <2>8 DEF Owned
    <2>12. ASSUME NEW s \in Seq(Headers), Holds(a, s), ~ Damages(a, field)
           PROVE  Without(s, field) \in Seq(Headers) /\ Holds(b, Without(s, field))
      <3> DEFINE t == Without(s, field)
      <3>1. i = n /\ Len(s) = n /\ FirstOf(s, field) = n /\ n # 0
        BY <1>3, <1>4, <1>6, <2>7, <2>12 DEF i
      <3>2. t \in Seq(Headers) /\ t = SubSeq(s, 1, n - 1)
        BY <3>1, WithoutLast
      <3>3. \A j \in 1 .. n : s[j] \in Headers
        BY <3>1
      <3>4. Len(t) = n - 1 /\ \A j \in 1 .. n - 1 : t[j] = s[j]
        <4>1. \A j \in 1 .. n - 1 : s[j] \in Headers
          BY <1>1, <3>3
        <4> QED
          BY <1>1, <2>9, <3>2, <4>1, SubSeqProperties
      <3> HIDE DEF t
      <3>5. \A j \in 1 .. n - 1 : t[j] = emptied[j]
        <4>1. \A j \in 1 .. n : s[j] = a.slots[j]
          BY <2>12, InUseSeq DEF Holds
        <4> QED
          BY <1>1, <2>4, <3>1, <3>4, <4>1
      <3>6. t = [j \in 1 .. n - 1 |-> t[j]]
        BY <2>9, <3>2, <3>4
      <3>7. InUse(b) = t
        BY <2>8, <3>5, <3>6 DEF InUse
      <3>8. \A j \in 1 .. a.m_nSize : j > n - 1 => emptied[j] = Unfilled
        BY <1>1, <2>4, <2>12, <3>1 DEF Holds
      <3> QED
        BY <2>8, <3>2, <3>7, <3>8 DEF Holds, t
    <2>13. b # a /\ b.m_nKeyValueSum < TOP_MAX_KEY_VALUE
      BY <1>1, <2>8, <2>9
    <2> QED
      BY <2>10, <2>11, <2>12, <2>13
  <1> QED
    BY <1>5, <1>6

(* GetHeader finds a value that was given, or none.                        *)
LEMMA GetHeaderOK ==
  ASSUME NEW a, ArrayOK(a), NEW field, field # "INVALID"
  PROVE  GetHeader(a, field) \in Values \cup {"NULL"}
  <1> DEFINE i == IndexOf(a, field)
  <1>1. CASE i = 0
    BY <1>1 DEF GetHeader
  <1>2. CASE i # 0
    <2>1. a.slots[i].m_field = field /\ i \in 1 .. a.m_nKeyValueSum
      BY <1>2, IndexOfRange DEF ArrayOK, Arrays
    <2>2. a.slots[i] \in KeyValues
      BY <2>1 DEF ArrayOK, Arrays
    <2>3. a.slots[i] \in Headers
      BY <2>1, <2>2 DEF KeyValues, CopyOf, Unfilled
    <2> QED
      BY <1>2, <2>3 DEF GetHeader, Headers
  <1> QED
    BY <1>1, <1>2

(* A response takes a header over from its request.                        *)
LEMMA TakeOverOK ==
  ASSUME NEW a, ArrayOK(a), Owned(a), NEW s \in Seq(Headers), Holds(a, s),
         a.m_nKeyValueSum < TOP_MAX_KEY_VALUE,
         NEW field \in Fields, NEW v \in Values \cup {"NULL"},
         NEW b, b = TakeOver(a, field, v), NEW t, t = Given(s, field, v)
  PROVE  /\ ArrayOK(b) /\ Owned(b) /\ t \in Seq(Headers) /\ Holds(b, t)
         /\ b.m_nKeyValueSum <= a.m_nKeyValueSum + 1
  <1>0. a.m_nKeyValueSum \in Nat
    BY DEF ArrayOK, Arrays
  <1>1. CASE v = "NULL"
    BY <1>0, <1>1 DEF TakeOver, Given
  <1>2. CASE v # "NULL"
    <2> DEFINE r == AddHeader(a, field, v)
    <2>1. v \in Values /\ Header(field, v) \in Headers
      BY <1>2 DEF Header, Headers
    <2>2. /\ ArrayOK(r.fields) /\ Owned(r.fields)
          /\ r.result \in {"EOK", "ERROR", "assert"}
          /\ r.result # "assert" /\ r.result # "ERROR"
          /\ r.result = "EOK" => Holds(r.fields, Append(s, Header(field, v)))
          /\ r.result = "EOK" => r.fields.m_nKeyValueSum = a.m_nKeyValueSum + 1
      BY <1>0, <2>1, AddHeaderOK
    <2>3. b = r.fields /\ t = Append(s, Header(field, v))
      BY <1>2 DEF TakeOver, Given
    <2>4. t \in Seq(Headers)
      BY <2>1, <2>3, AppendProperties
    <2> QED
      BY <1>0, <2>2, <2>3, <2>4
  <1> QED
    BY <1>1, <1>2

(* A message without header fields.                                        *)
LEMMA NoFieldsOK ==
  /\ ArrayOK(NoFields) /\ Owned(NoFields) /\ Holds(NoFields, << >>)
  /\ NoFields.m_nKeyValueSum = 0 /\ << >> \in Seq(Headers)
  <1>1. ArrayOK(NoFields)
    BY DEF ArrayOK, Arrays, NoFields
  <1>2. {i \in DOMAIN << >> : << >>[i].m_pValue \in LongValues} = {}
    OBVIOUS
  <1>3. Owned(NoFields)
    BY <1>2, FS_EmptySet DEF Owned, LongIn, NoFields
  <1>4. InUse(NoFields) = << >>
    BY DEF InUse, NoFields
  <1>5. Holds(NoFields, << >>)
    BY <1>4 DEF Holds, NoFields
  <1> QED
    BY <1>1, <1>3, <1>5 DEF NoFields

(* The program begins without messages.                                    *)
LEMMA InitIInv == MsgInit => MsgInv
  BY NoFieldsOK DEF MsgInit, MsgInv, NoFault, ArrayOK

(* Unset, and whatever the Init functions make of the message.             *)
LEMMA BeginsIInv ==
  ASSUME MsgInv, NEW m \in Msgs, NEW obj, NEW fields, ArrayOK(fields), Owned(fields),
         NEW headers \in Seq(Headers), Holds(fields, headers),
         Begins(m, obj, fields, headers), Works, UNCHANGED msgFault
  PROVE  MsgInv'
  <1>1. /\ hdrFields' = [hdrFields EXCEPT ![m] = fields]
        /\ wanted' = [wanted EXCEPT ![m] = headers]
        /\ damaged' = damaged \ {m}
    BY DEF Begins
  <1>2. fields \in Arrays
    BY DEF ArrayOK
  <1>3. /\ hdrFields' \in [Msgs -> Arrays] /\ wanted' \in [Msgs -> Seq(Headers)]
        /\ damaged' \subseteq Msgs
    BY <1>1, <1>2 DEF MsgInv
  <1>4. ASSUME NEW n \in Msgs
        PROVE  /\ ArrayOK(hdrFields'[n]) /\ Owned(hdrFields'[n])
               /\ n \notin damaged' => Holds(hdrFields'[n], wanted'[n])
    <2>1. CASE n = m
      BY <1>1, <2>1 DEF MsgInv
    <2>2. CASE n # m
      BY <1>1, <2>2 DEF MsgInv
    <2> QED
      BY <2>1, <2>2
  <1>5. msgFault'.at # "fill"
    BY DEF Works
  <1> QED
    BY <1>3, <1>4, <1>5 DEF MsgInv

(* The response to a request: at most two headers, so that the array never *)
(* is full.                                                                *)
LEMMA InitResponseToIInv ==
  ASSUME MsgInv, NEW m \in Msgs, NEW request \in Msgs, InitResponseTo(m, request)
  PROVE  MsgInv'
  <1> DEFINE a == hdrFields[request]
             cseq == GetHeader(a, "CSEQ")
             session == SessionOf(a)
             b == TakeOver(NoFields, "CSEQ", cseq)
             t == Given(<< >>, "CSEQ", cseq)
             c == TakeOver(b, "SESSION", session)
             u == Given(t, "SESSION", session)
  <1>1. ArrayOK(a)
    BY DEF MsgInv
  <1>2. cseq \in Values \cup {"NULL"} /\ GetHeader(a, "SESSION") \in Values \cup {"NULL"}
    BY <1>1, GetHeaderOK
  <1>3. session \in Values \cup {"NULL"}
    BY <1>2 DEF SessionOf
  <1>4. Begins(m, "RESPONSE", c, u) /\ Works /\ UNCHANGED msgFault
    BY DEF InitResponseTo
  <1> HIDE DEF a, cseq, session
  <1>5. /\ ArrayOK(b) /\ Owned(b) /\ t \in Seq(Headers) /\ Holds(b, t)
        /\ b.m_nKeyValueSum <= 1
    <2>1. "CSEQ" \in Fields
      OBVIOUS
    <2>2. NoFields.m_nKeyValueSum < TOP_MAX_KEY_VALUE /\ NoFields.m_nKeyValueSum + 1 = 1
      BY NoFieldsOK
    <2>3. b = TakeOver(NoFields, "CSEQ", cseq) /\ t = Given(<< >>, "CSEQ", cseq)
      OBVIOUS
    <2> HIDE DEF b, t
    <2>4. ArrayOK(b) /\ Owned(b) /\ t \in Seq(Headers) /\ Holds(b, t)
          /\ b.m_nKeyValueSum <= NoFields.m_nKeyValueSum + 1
      BY <1>2, <2>1, <2>2, <2>3, NoFieldsOK, TakeOverOK
    <2> QED
      BY <2>2, <2>4
  <1>6. b.m_nKeyValueSum < TOP_MAX_KEY_VALUE
    BY <1>5 DEF ArrayOK, Arrays
  <1> HIDE DEF b, t
  <1>7. ArrayOK(c) /\ Owned(c) /\ u \in Seq(Headers) /\ Holds(c, u)
    <2>1. "SESSION" \in Fields
      OBVIOUS
    <2> QED
      BY <1>3, <1>5, <1>6, <2>1, TakeOverOK
  <1> QED
    BY <1>4, <1>7, BeginsIInv

(* A caller adds a header, which may make the array grow, be refused, or   *)
(* find a slot that a damaged array left filled.                           *)
LEMMA CallAddHeaderIInv ==
  ASSUME MsgInv, NEW m \in Msgs, NEW field \in Fields, NEW v \in HeaderValues[field],
         CallAddHeader(m, field, v)
  PROVE  MsgInv'
  <1> DEFINE r == AddHeader(hdrFields[m], field, v)
             h == Header(field, v)
  <1>1. v \in Values /\ h \in Headers
    BY DEF Values, Header, Headers
  <1>2. ArrayOK(hdrFields[m]) /\ Owned(hdrFields[m]) /\ wanted[m] \in Seq(Headers)
    BY DEF MsgInv
  <1>3. /\ ArrayOK(r.fields) /\ Owned(r.fields) /\ r.fields \in Arrays
        /\ m \notin damaged =>
              /\ r.result # "assert"
              /\ r.result = "EOK" => Holds(r.fields, Append(wanted[m], h))
              /\ r.result # "EOK" => Holds(r.fields, wanted[m])
    BY <1>1, <1>2, AddHeaderOK DEF MsgInv, ArrayOK
  <1>4. Append(wanted[m], h) \in Seq(Headers)
    BY <1>1, <1>2, AppendProperties
  <1>5. /\ hdrFields' = [hdrFields EXCEPT ![m] = r.fields]
        /\ wanted' = IF r.result # "EOK" THEN wanted
                     ELSE [wanted EXCEPT ![m] = Append(wanted[m], h)]
        /\ damaged' = damaged /\ Works
        /\ IF r.result = "assert" THEN Fails(m, "fill") ELSE UNCHANGED msgFault
    BY DEF CallAddHeader
  <1> HIDE DEF r, h
  <1>6. /\ hdrFields' \in [Msgs -> Arrays] /\ wanted' \in [Msgs -> Seq(Headers)]
        /\ damaged' \subseteq Msgs
    BY <1>3, <1>4, <1>5 DEF MsgInv
  <1>7. ASSUME NEW n \in Msgs
        PROVE  /\ ArrayOK(hdrFields'[n]) /\ Owned(hdrFields'[n])
               /\ n \notin damaged' => Holds(hdrFields'[n], wanted'[n])
    <2>1. CASE n = m
      <3>1. hdrFields'[n] = r.fields
        BY <1>5, <2>1 DEF MsgInv
      <3>2. wanted'[n] = IF r.result # "EOK" THEN wanted[m] ELSE Append(wanted[m], h)
        BY <1>5, <2>1 DEF MsgInv
      <3> QED
        BY <1>3, <1>5, <2>1, <3>1, <3>2
    <2>2. CASE n # m
      <3>1. hdrFields'[n] = hdrFields[n] /\ wanted'[n] = wanted[n]
        BY <1>5, <2>2 DEF MsgInv
      <3> QED
        BY <1>5, <3>1 DEF MsgInv
    <2> QED
      BY <2>1, <2>2
  <1>8. msgFault'.at = "fill" => msgFault'.of \in damaged'
    BY <1>3, <1>5 DEF Works, Fails
  <1> QED
    BY <1>6, <1>7, <1>8 DEF MsgInv

(* ToString's Date: an older one is removed first, so a full array has     *)
(* room for it unless it had none.                                         *)
LEMMA DatedOK ==
  ASSUME MsgInv, NEW m \in Msgs
  PROVE  /\ ArrayOK(Dated(m).fields) /\ Owned(Dated(m).fields)
         /\ DatedWanted(m) \in Seq(Headers)
         /\ m \notin damaged
            /\ ~ (msgObj[m] = "RESPONSE" /\ Damages(hdrFields[m], "DATE")) =>
               /\ Dated(m).result # "assert"
               /\ Holds(Dated(m).fields, DatedWanted(m))
  <1> DEFINE a == hdrFields[m]
             b == RemoveHeader(a, "DATE")
             r == AddHeader(b, "DATE", "now")
             s == wanted[m]
             h == Header("DATE", "now")
  <1>1. ArrayOK(a) /\ Owned(a) /\ s \in Seq(Headers) /\ (m \notin damaged => Holds(a, s))
    BY DEF MsgInv
  <1>2. CASE msgObj[m] # "RESPONSE"
    <2>1. Dated(m) = [fields |-> a, result |-> "none"]
      BY <1>2 DEF Dated
    <2>2. DatedWanted(m) = s
      BY <2>1 DEF DatedWanted
    <2> QED
      BY <1>1, <2>1, <2>2
  <1>3. CASE msgObj[m] = "RESPONSE"
    <2>1. Dated(m) = r
      BY <1>3 DEF Dated
    <2>2. DatedWanted(m) = IF r.result = "EOK" THEN Append(Without(s, "DATE"), h) ELSE s
      BY <2>1 DEF DatedWanted
    <2>3. "DATE" \in Fields /\ "now" \in Values /\ h \in Headers
      <3>1. "now" \in Values
        BY DEF Values
      <3>2. "DATE" \in Fields
        OBVIOUS
      <3>3. ASSUME NEW f \in Fields, NEW v \in Values PROVE Header(f, v) \in Headers
        BY DEF Header, Headers
      <3> QED
        BY <3>1, <3>2, <3>3
    <2> HIDE DEF a, h, s
    <2>4. /\ ArrayOK(b) /\ Owned(b)
          /\ b = a \/ b.m_nKeyValueSum < TOP_MAX_KEY_VALUE
          /\ Holds(a, s) /\ ~ Damages(a, "DATE") =>
                /\ Holds(b, Without(s, "DATE"))
                /\ b = a => Without(s, "DATE") = s
      BY <1>1, RemoveHeaderOK
    <2>5. Without(s, "DATE") \in Seq(Headers)
      BY <1>1, WithoutSeq
    <2> HIDE DEF b
    <2>6. /\ ArrayOK(r.fields) /\ Owned(r.fields)
          /\ r.result = "ERROR" => b.m_nKeyValueSum = TOP_MAX_KEY_VALUE
          /\ r.result \in {"EOK", "ERROR", "assert"}
          /\ Holds(b, Without(s, "DATE")) =>
                /\ r.result # "assert"
                /\ r.result = "EOK" => Holds(r.fields, Append(Without(s, "DATE"), h))
                /\ r.result # "EOK" => Holds(r.fields, Without(s, "DATE"))
      BY <2>3, <2>4, <2>5, AddHeaderOK DEF h
    <2> HIDE DEF r
    <2>7. DatedWanted(m) \in Seq(Headers)
      BY <1>1, <2>2, <2>3, <2>5, AppendProperties
    <2>8. ASSUME m \notin damaged, ~ Damages(a, "DATE")
          PROVE  r.result # "assert" /\ Holds(r.fields, DatedWanted(m))
      <3>1. CASE r.result = "EOK"
        BY <1>1, <2>2, <2>4, <2>6, <2>8, <3>1
      <3>2. CASE r.result # "EOK"
        <4>1. r.result = "ERROR"
          BY <1>1, <2>4, <2>6, <2>8, <3>2
        <4>2. b = a
          BY <2>4, <2>6, <4>1
        <4> QED
          BY <1>1, <2>2, <2>4, <2>6, <2>8, <4>1, <4>2
      <3> QED
        BY <3>1, <3>2
    <2> QED
      BY <1>3, <2>1, <2>6, <2>7, <2>8 DEF a
  <1> QED
    BY <1>2, <1>3

(* ToString rewrites the headers; where it removes one that is not the     *)
(* last, the message counts as damaged.                                    *)
LEMMA MsgToStringIInv == ASSUME MsgInv, NEW m \in Msgs, MsgToString(m) PROVE MsgInv'
  <1> DEFINE d == Dated(m)
             w == DatedWanted(m)
             e == RemoveHeader(d.fields, "CONTENT_LENGTH")
             u == Without(w, "CONTENT_LENGTH")
  <1>1. CASE msgObj[m] = "NULL"
    <2>1. UNCHANGED <<hdrFields, wanted, damaged>> /\ msgFault'.at = "object"
      BY <1>1 DEF MsgToString, Fails
    <2> QED
      BY <2>1 DEF MsgInv
  <1>2. CASE msgObj[m] # "NULL"
    <2>1. /\ hdrFields' = [hdrFields EXCEPT ![m] = e]
          /\ wanted' = [wanted EXCEPT ![m] = u]
          /\ damaged' = IF DamagedBy(m) THEN damaged \cup {m} ELSE damaged
          /\ msgFault' = msgFault \/ msgFault'.at # "fill"
             \/ (d.result = "assert" /\ msgFault'.of = m)
          /\ Works
      BY <1>2 DEF MsgToString, Fails
    <2>2. DamagedBy(m) <=> \/ msgObj[m] = "RESPONSE" /\ Damages(hdrFields[m], "DATE")
                           \/ Damages(d.fields, "CONTENT_LENGTH")
      BY DEF DamagedBy
    <2>3. /\ ArrayOK(d.fields) /\ Owned(d.fields) /\ w \in Seq(Headers)
          /\ m \notin damaged' => d.result # "assert" /\ Holds(d.fields, w)
                                  /\ ~ Damages(d.fields, "CONTENT_LENGTH")
      BY <2>1, <2>2, DatedOK
    <2> HIDE DEF d, w
    <2>4. /\ ArrayOK(e) /\ Owned(e) /\ e \in Arrays
          /\ m \notin damaged' => Holds(e, u)
      BY <2>3, RemoveHeaderOK DEF ArrayOK
    <2>5. u \in Seq(Headers)
      BY <2>3, WithoutSeq
    <2> HIDE DEF e, u
    <2>6. /\ hdrFields' \in [Msgs -> Arrays] /\ wanted' \in [Msgs -> Seq(Headers)]
          /\ damaged' \subseteq Msgs
      BY <2>1, <2>4, <2>5 DEF MsgInv
    <2>7. ASSUME NEW n \in Msgs
          PROVE  /\ ArrayOK(hdrFields'[n]) /\ Owned(hdrFields'[n])
                 /\ n \notin damaged' => Holds(hdrFields'[n], wanted'[n])
      <3>1. CASE n = m
        <4>1. hdrFields'[n] = e /\ wanted'[n] = u
          BY <2>1, <3>1 DEF MsgInv
        <4> QED
          BY <2>4, <3>1, <4>1
      <3>2. CASE n # m
        <4>1. hdrFields'[n] = hdrFields[n] /\ wanted'[n] = wanted[n]
          BY <2>1, <3>2 DEF MsgInv
        <4>2. n \notin damaged' => n \notin damaged
          BY <2>1
        <4> QED
          BY <4>1, <4>2 DEF MsgInv
      <3> QED
        BY <3>1, <3>2
    <2>8. msgFault'.at = "fill" => msgFault'.of \in damaged'
      BY <2>1, <2>3 DEF Works
    <2> QED
      BY <2>6, <2>7, <2>8 DEF MsgInv
  <1> QED
    BY <1>1, <1>2

(* Every step preserves the invariant.                                     *)
LEMMA NextIInv == ASSUME MsgInv, [MsgNext]_msgVars PROVE MsgInv'
  <1>1. ASSUME NEW m \in Msgs, Unset(m) \/ InitData(m) PROVE MsgInv'
    BY <1>1, NoFieldsOK, BeginsIInv DEF Unset, InitData
  <1>2. ASSUME NEW m \in Msgs, NEW empty \in BOOLEAN,
               InitRequest(m, empty) \/ InitResponse(m, empty)
        PROVE  MsgInv'
    BY <1>2, NoFieldsOK, BeginsIInv DEF InitRequest, InitResponse
  <1>3. ASSUME NEW m \in Msgs, SetBodySize(m) PROVE MsgInv'
    BY <1>3 DEF SetBodySize, MsgInv
  <1>4. CASE UNCHANGED msgVars
    BY <1>4 DEF msgVars, MsgInv
  <1> QED
    BY <1>1, <1>2, <1>3, <1>4, MsgToStringIInv, InitResponseToIInv,
       CallAddHeaderIInv DEF MsgNext
-------------------------------------------------------------------------------
(* The inductive invariant holds in every reachable state, for any sizes   *)
(* of the header array, any values and any number of messages.             *)
THEOREM MsgInvariance == MsgSpec => []MsgInv
  BY InitIInv, NextIInv, PTL DEF MsgSpec

(* RtspMsg neither leaks a long header value nor shares one between arrays *)
(* or slots: TakeKeyValuesToLarger, UnsetKeyValue and the destructors free *)
(* what FillKeyValue and operator= allocated, also after RemoveHeader left *)
(* a filled slot behind.                                                   *)
THEOREM ValuesAreOwned == MsgSpec => []ValuesOwned
  <1>1. MsgInv => ValuesOwned
    BY DEF MsgInv, Owned, ValuesOwned
  <1> QED
    BY <1>1, MsgInvariance, PTL

(* A message keeps the headers it was given through growth, refusals and   *)
(* ToString, and FillKeyValue's assertion holds, as long as ToString       *)
(* removed no header but the last one.                                     *)
THEOREM HeadersAreKept == MsgSpec => []HeadersKept
  <1>1. MsgInv => HeadersKept
    BY DEF MsgInv, Holds, HeadersKept
  <1> QED
    BY <1>1, MsgInvariance, PTL
-------------------------------------------------------------------------------
HIDE MsgAssumption
USE SdpAssumption

LineTypes == Strings \cup {"e", "p", "c", "b", "a", "m", "t"}

LineTexts == {"full", "empty", "control"}

Lines == [type : LineTypes, text : LineTexts]

Messages ==
    [v : Nat, o : Nat, s : Nat, i : Nat, u : Nat, c : Nat,
     e : Seq(Nat), p : Seq(Nat), b : Seq(Nat), a : Seq(Nat)]

Medias == [m : Nat, i : Nat, c : Seq(Nat), b : Seq(Nat), a : Seq(Nat)]

(* The context is that of the last media, and there is one per m= line.    *)
SdpTypeOK ==
    /\ sdpLines \in Seq(Lines)
    /\ sdp \in Messages
    /\ medias \in Seq(Medias)
    /\ sdpHeap \in SUBSET Nat
    /\ controls \in Seq(Nat)
    /\ ctx \in {"SESSION", "MEDIA"}
    /\ (ctx = "SESSION") = (Len(medias) = 0)
    /\ Section(Len(sdpLines)) = Len(medias)

(* Number n is that of a line of this type.                                *)
IsLine(n, type) == n \in DOMAIN sdpLines /\ sdpLines[n].type = type

(* What the message has is from lines of the right type and section.       *)
MessageOwns ==
    /\ sdp.v # NULLPTR => IsLine(sdp.v, "v")
    /\ sdp.o # NULLPTR => IsLine(sdp.o, "o")
    /\ sdp.s # NULLPTR => IsLine(sdp.s, "s")
    /\ sdp.u # NULLPTR => IsLine(sdp.u, "u")
    /\ \A n \in ToSet(sdp.e) : IsLine(n, "e")
    /\ \A n \in ToSet(sdp.p) : IsLine(n, "p")
    /\ sdp.b = << >>
    /\ InOrder(sdp.a, LinesOf("a", 0))
    /\ IsLast(sdp.i, LinesOf("i", 0))
    /\ IsLast(sdp.c, LinesOf("c", 0))

(* And so is what a media has, which is the k-th.                          *)
MediaOwns(media, k) ==
    /\ LinesOf("m", k) = {media.m}
    /\ InOrder(media.a, LinesOf("a", k))
    /\ InOrder(media.b, LinesOf("b", k))
    /\ InOrder(media.c, LinesOf("c", k))
    /\ IsLast(media.i, LinesOf("i", k))

MediasOwn == \A k \in 1 .. Len(medias) : MediaOwns(medias[k], k)

(* A control is the first one of its media; there is none before the '\0'. *)
IsControl(n, k) ==
    /\ n \in LinesOf("a", k) /\ Text(n) = "control"
    /\ \A l \in LinesOf("a", k) : Text(l) = "control" => n <= l

ControlsFirst ==
    /\ \A k \in 1 .. Len(controls) : IsControl(controls[k], k)
    /\ sdpPhase = "parsing" => controls = << >>
    /\ Len(controls) <= Len(medias)

(* What no destructor frees.                                               *)
Leaked ==
    LinesOf("b", 0) \cup {n \in LinesOf("c", 0) : \E l \in LinesOf("c", 0) : n < l}

(* The heap is what the description owns and what it leaks.                *)
HeapExact ==
    /\ sdpPhase \in {"parsing", "parsed"} =>
           /\ 0 \notin sdpHeap
           /\ \A n \in Nat \ {0} : n \in sdpHeap <=> n \in OwnedBySdp \cup Leaked
    /\ sdpPhase = "deleted" => sdpHeap = Leaked

(* The inductive invariant of a description.                               *)
SdpInv ==
    /\ SdpTypeOK
    /\ sdpPhase # "crashed" =>
           MessageOwns /\ MediasOwn /\ ControlsFirst /\ HeapExact
-------------------------------------------------------------------------------
(* The elements of a sequence after Append.                                *)
LEMMA AppendToSet ==
  ASSUME NEW s \in Seq(Nat), NEW x \in Nat
  PROVE  /\ Append(s, x) \in Seq(Nat)
         /\ ToSet(Append(s, x)) = ToSet(s) \cup {x}
  <1> DEFINE t == Append(s, x)
  <1>1. /\ t \in Seq(Nat) /\ Len(t) = Len(s) + 1
        /\ \A i \in 1 .. Len(s) : t[i] = s[i]
        /\ t[Len(s) + 1] = x
    BY AppendProperties
  <1> HIDE DEF t
  <1>2. ASSUME NEW y \in ToSet(t) PROVE y \in ToSet(s) \cup {x}
    <2>1. PICK i \in 1 .. Len(t) : y = t[i]
      BY <1>1, <1>2 DEF ToSet
    <2>2. Len(s) \in Nat
      OBVIOUS
    <2>3. i \in 1 .. Len(s) \/ i = Len(s) + 1
      BY <1>1, <2>1, <2>2
    <2>4. ASSUME i \in 1 .. Len(s) PROVE y \in ToSet(s)
      <3>1. y = s[i] /\ i \in DOMAIN s
        BY <1>1, <2>1, <2>4
      <3> QED
        BY <3>1, Zenon DEF ToSet
    <2> QED
      BY <1>1, <2>1, <2>3, <2>4
  <1>3. ASSUME NEW y \in ToSet(s) PROVE y \in ToSet(t)
    <2>1. PICK i \in 1 .. Len(s) : y = s[i]
      BY <1>3 DEF ToSet
    <2>2. i \in DOMAIN t /\ t[i] = y
      BY <1>1, <2>1
    <2> QED
      BY <2>2 DEF ToSet
  <1>4. x \in ToSet(t)
    <2>1. Len(s) + 1 \in DOMAIN t
      BY <1>1
    <2> QED
      BY <1>1, <2>1 DEF ToSet
  <1> QED
    BY <1>1, <1>2, <1>3, <1>4 DEF t

(* A line after all others is the last one of its sequence.                *)
LEMMA AppendInOrder ==
  ASSUME NEW s \in Seq(Nat), NEW S, NEW x \in Nat, InOrder(s, S), \A l \in S : l < x
  PROVE  InOrder(Append(s, x), S \cup {x})
  <1> DEFINE t == Append(s, x)
  <1>1. /\ t \in Seq(Nat) /\ Len(t) = Len(s) + 1
        /\ \A i \in 1 .. Len(s) : t[i] = s[i]
        /\ t[Len(s) + 1] = x
    BY AppendProperties
  <1>2. ToSet(t) = S \cup {x}
    BY AppendToSet DEF InOrder
  <1> HIDE DEF t
  <1>3. ASSUME NEW i \in DOMAIN t, NEW j \in DOMAIN t, i < j PROVE t[i] < t[j]
    <2>1. i \in 1 .. Len(s) /\ j \in 1 .. Len(s) + 1
      BY <1>1, <1>3
    <2>2. t[i] = s[i] /\ s[i] \in S
      BY <1>1, <2>1 DEF InOrder, ToSet
    <2>3. CASE j = Len(s) + 1
      BY <1>1, <2>2, <2>3
    <2>4. CASE j # Len(s) + 1
      <3>1. j \in 1 .. Len(s) /\ t[j] = s[j]
        BY <1>1, <2>1, <2>4
      <3>2. s[i] < s[j]
        BY <1>3, <2>1, <3>1 DEF InOrder
      <3> QED
        BY <2>2, <3>1, <3>2
    <2> QED
      BY <2>3, <2>4
  <1> QED
    BY <1>2, <1>3 DEF InOrder, t

(* A new line and the lines before it.                                     *)
LEMMA LineAdded ==
  ASSUME SdpTypeOK, NEW type, NEW text, NextLine(type, text),
         type \in LineTypes, text \in LineTexts
  PROVE  /\ sdpLines' \in Seq(Lines) /\ Len(sdpLines') = Here /\ Here \in Nat
         /\ \A n \in 1 .. Len(sdpLines) : sdpLines'[n] = sdpLines[n]
         /\ sdpLines'[Here].type = type /\ sdpLines'[Here].text = text
  <1> DEFINE l == [type |-> type, text |-> text]
  <1>1. sdpLines' = Append(sdpLines, l) /\ l \in Lines /\ sdpLines \in Seq(Lines)
    BY DEF NextLine, SdpTypeOK, Lines
  <1>2. l.type = type /\ l.text = text
    OBVIOUS
  <1> HIDE DEF l
  <1>3. /\ Append(sdpLines, l) \in Seq(Lines)
        /\ Len(Append(sdpLines, l)) = Len(sdpLines) + 1
        /\ \A i \in 1 .. Len(sdpLines) : Append(sdpLines, l)[i] = sdpLines[i]
        /\ Append(sdpLines, l)[Len(sdpLines) + 1] = l
    BY <1>1, AppendProperties
  <1> QED
    BY <1>1, <1>2, <1>3 DEF Here

(* The sections of the lines do not change, and none is beyond the last.   *)
LEMMA SectionBounded ==
  ASSUME SdpTypeOK, NEW n \in 0 .. Len(sdpLines)
  PROVE  Section(n) \in 0 .. Len(medias)
  <1> DEFINE M(k) == {i \in 1 .. k : sdpLines[i].type = "m"}
             N == Len(sdpLines)
  <1>1. N \in Nat /\ Len(medias) \in Nat
    BY DEF SdpTypeOK
  <1>2. M(n) \in SUBSET M(N) /\ M(N) \in SUBSET (1 .. N)
    BY <1>1
  <1>3. IsFiniteSet(1 .. N)
    BY <1>1, FS_Interval
  <1>4. Section(n) = Cardinality(M(n)) /\ Cardinality(M(N)) = Len(medias)
    BY DEF Section, SdpTypeOK
  <1> HIDE DEF M, N
  <1>5. IsFiniteSet(M(N))
    BY <1>2, <1>3, FS_Subset
  <1>6. IsFiniteSet(M(n)) /\ Cardinality(M(n)) <= Cardinality(M(N))
    BY <1>2, <1>5, FS_Subset
  <1>7. Cardinality(M(n)) \in Nat
    BY <1>6, FS_CardinalityType
  <1> QED
    BY <1>1, <1>4, <1>6, <1>7

(* The section of the new line is the last one, or a new one if it is m=.  *)
LEMMA SectionAdded ==
  ASSUME SdpTypeOK, NEW type, NEW text, NextLine(type, text),
         type \in LineTypes, text \in LineTexts
  PROVE  /\ \A n \in 1 .. Len(sdpLines) : Section(n)' = Section(n)
         /\ \A n \in Nat : n = Here =>
                Section(n)' = IF type = "m" THEN Len(medias) + 1 ELSE Len(medias)
  <1> DEFINE N == Len(sdpLines)
             M == {i \in 1 .. N : sdpLines[i].type = "m"}
  <1>1. /\ N \in Nat /\ Here = N + 1 /\ Len(medias) \in Nat
        /\ \A n \in 1 .. N : sdpLines'[n] = sdpLines[n]
        /\ sdpLines'[Here].type = type
    BY LineAdded DEF SdpTypeOK, Here
  <1>2. ASSUME NEW n \in 1 .. N PROVE Section(n)' = Section(n)
    <2>1. {i \in 1 .. n : sdpLines'[i].type = "m"} = {i \in 1 .. n : sdpLines[i].type = "m"}
      BY <1>1
    <2> QED
      BY <2>1 DEF Section
  <1>3. ASSUME NEW n \in Nat, n = Here
        PROVE  Section(n)' = IF type = "m" THEN Len(medias) + 1 ELSE Len(medias)
    <2>1. Cardinality(M) = Len(medias) /\ M \in SUBSET (1 .. N) /\ n \notin M
      BY <1>1, <1>3 DEF SdpTypeOK, Section
    <2>2. {i \in 1 .. n : sdpLines'[i].type = "m"} = IF type = "m" THEN M \cup {n} ELSE M
      BY <1>1, <1>3
    <2>3. IsFiniteSet(1 .. N)
      BY <1>1, FS_Interval
    <2> HIDE DEF M
    <2>4. IsFiniteSet(M)
      BY <2>1, <2>3, FS_Subset
    <2>5. Cardinality(M \cup {n}) = Cardinality(M) + 1
      BY <2>1, <2>4, FS_AddElement
    <2> QED
      BY <2>1, <2>2, <2>5 DEF Section
  <1> QED
    BY <1>2, <1>3

(* The new line joins the lines of its type in the last section, and no    *)
(* others.                                                                 *)
LEMMA LinesAdded ==
  ASSUME SdpTypeOK, NEW type, NEW text, NextLine(type, text),
         type \in LineTypes, text \in LineTexts,
         NEW last, last = IF type = "m" THEN Len(medias) + 1 ELSE Len(medias)
  PROVE  \A ty, k : LinesOf(ty, k)' = IF ty = type /\ k = last
                                      THEN LinesOf(ty, k) \cup {Here}
                                      ELSE LinesOf(ty, k)
  <1>1. SUFFICES ASSUME NEW ty, NEW k
                 PROVE  LinesOf(ty, k)' = IF ty = type /\ k = last
                                          THEN LinesOf(ty, k) \cup {Here}
                                          ELSE LinesOf(ty, k)
    OBVIOUS
  <1>2. /\ sdpLines \in Seq(Lines) /\ sdpLines' \in Seq(Lines)
        /\ Len(sdpLines') = Len(sdpLines) + 1 /\ Here = Len(sdpLines) + 1
        /\ \A n \in 1 .. Len(sdpLines) : sdpLines'[n] = sdpLines[n]
        /\ sdpLines'[Here].type = type
    BY LineAdded DEF SdpTypeOK, Here
  <1>3. ASSUME NEW n
        PROVE  n \in LinesOf(ty, k)' <=>
                   n \in LinesOf(ty, k) \/ (n = Here /\ ty = type /\ k = last)
    <2>1. n \in LinesOf(ty, k) <=>
              n \in 1 .. Len(sdpLines) /\ sdpLines[n].type = ty /\ Section(n) = k
      BY <1>2 DEF LinesOf
    <2>2. n \in LinesOf(ty, k)' <=>
              n \in 1 .. Here /\ sdpLines'[n].type = ty /\ Section(n)' = k
      BY <1>2 DEF LinesOf
    <2>3. CASE n \in 1 .. Len(sdpLines)
      BY <1>2, <2>1, <2>2, <2>3, SectionAdded
    <2>4. CASE n = Here
      <3>1. n \in Nat /\ Section(n)' = last
        BY <1>2, <2>4, SectionAdded
      <3> QED
        BY <1>2, <2>1, <2>2, <2>4, <3>1
    <2>5. CASE n \notin 1 .. Here
      BY <1>2, <2>1, <2>2, <2>5
    <2> QED
      BY <1>2, <2>3, <2>4, <2>5
  <1> QED
    BY <1>3

(* Line numbers: those of a section are lines before the next one, and a   *)
(* section that has not begun has no lines.                                *)
LEMMA LinesBefore ==
  ASSUME SdpTypeOK, NEW type, NEW k
  PROVE  /\ \A n \in LinesOf(type, k) : n \in Nat \ {0} /\ n < Here
         /\ k \notin 0 .. Len(medias) => LinesOf(type, k) = {}
  BY SectionBounded DEF LinesOf, Here, SdpTypeOK
-------------------------------------------------------------------------------
(* Whose line a number is.                                                 *)
LEMMA LinesAreLines ==
  ASSUME NEW type, NEW k, NEW n \in LinesOf(type, k)
  PROVE  IsLine(n, type) /\ Section(n) = k
  BY DEF LinesOf, IsLine

(* Of which lines the message has something.                               *)
LEMMA MessageOwned ==
  ASSUME SdpTypeOK, MessageOwns, NEW n \in OwnedByMessage, n # NULLPTR
  PROVE  \/ n = sdp.v /\ IsLine(n, "v")
         \/ n = sdp.o /\ IsLine(n, "o")
         \/ n = sdp.s /\ IsLine(n, "s")
         \/ n = sdp.u /\ IsLine(n, "u")
         \/ n = sdp.i /\ IsLine(n, "i") /\ Section(n) = 0
         \/ n = sdp.c /\ IsLine(n, "c") /\ Section(n) = 0
         \/ IsLine(n, "e")
         \/ IsLine(n, "p")
         \/ IsLine(n, "a") /\ Section(n) = 0
  <1>1. \/ n \in {sdp.v, sdp.o, sdp.s, sdp.u}
        \/ n \in {sdp.i, sdp.c}
        \/ n \in ToSet(sdp.e) \/ n \in ToSet(sdp.p)
        \/ n \in ToSet(sdp.b) \/ n \in ToSet(sdp.a)
    BY DEF OwnedByMessage
  <1>2. CASE n \in {sdp.v, sdp.o, sdp.s, sdp.u}
    BY <1>2 DEF MessageOwns
  <1>3. CASE n = sdp.i
    BY <1>3, LinesAreLines DEF MessageOwns, IsLast
  <1>4. CASE n = sdp.c
    BY <1>4, LinesAreLines DEF MessageOwns, IsLast
  <1>5. CASE n \in ToSet(sdp.e) \/ n \in ToSet(sdp.p)
    BY <1>5 DEF MessageOwns
  <1>6. CASE n \in ToSet(sdp.b)
    <2>1. sdp.b = << >>
      BY DEF MessageOwns
    <2> QED
      BY <1>6, <2>1 DEF ToSet
  <1>7. CASE n \in ToSet(sdp.a)
    BY <1>7, LinesAreLines DEF MessageOwns, InOrder
  <1> QED
    BY <1>1, <1>2, <1>3, <1>4, <1>5, <1>6, <1>7

(* Of which lines a media has something, all of them in its section.       *)
LEMMA MediaOwned ==
  ASSUME NEW media, NEW k, MediaOwns(media, k), NEW n \in OwnedByMedia(media), n # NULLPTR
  PROVE  /\ Section(n) = k
         /\ \/ IsLine(n, "m")
            \/ n = media.i /\ IsLine(n, "i")
            \/ IsLine(n, "c")
            \/ IsLine(n, "b")
            \/ IsLine(n, "a")
  <1>1. \/ n = media.m \/ n = media.i
        \/ n \in ToSet(media.c) \/ n \in ToSet(media.b) \/ n \in ToSet(media.a)
    BY DEF OwnedByMedia
  <1>2. CASE n = media.m
    <2>1. n \in LinesOf("m", k)
      BY <1>2 DEF MediaOwns
    <2> QED
      BY <2>1, LinesAreLines
  <1>3. CASE n = media.i
    <2>1. n \in LinesOf("i", k)
      BY <1>3 DEF MediaOwns, IsLast
    <2> QED
      BY <1>3, <2>1, LinesAreLines
  <1>4. CASE n \in ToSet(media.c)
    <2>1. n \in LinesOf("c", k)
      BY <1>4 DEF MediaOwns, InOrder
    <2> QED
      BY <2>1, LinesAreLines
  <1>5. CASE n \in ToSet(media.b)
    <2>1. n \in LinesOf("b", k)
      BY <1>5 DEF MediaOwns, InOrder
    <2> QED
      BY <2>1, LinesAreLines
  <1>6. CASE n \in ToSet(media.a)
    <2>1. n \in LinesOf("a", k)
      BY <1>6 DEF MediaOwns, InOrder
    <2> QED
      BY <2>1, LinesAreLines
  <1> QED
    BY <1>1, <1>2, <1>3, <1>4, <1>5, <1>6

(* The owners, one by one.                                                 *)
LEMMA Owners ==
  ASSUME SdpTypeOK, NEW n
  PROVE  n \in OwnedBySdp <=>
             \/ n \in OwnedByMessage
             \/ \E k \in 1 .. Len(medias) : n \in OwnedByMedia(medias[k])
  <1>1. DOMAIN medias = 1 .. Len(medias)
    BY DEF SdpTypeOK
  <1> QED
    BY <1>1 DEF OwnedBySdp

(* Nothing that is owned is leaked.                                        *)
LEMMA LeakedNotOwned ==
  ASSUME SdpTypeOK, MessageOwns, MediasOwn, NEW n \in Leaked
  PROVE  n \in Nat \ {0} /\ n \notin OwnedBySdp
  <1>1. n \in Nat \ {0}
    BY LinesBefore DEF Leaked
  <1>2. /\ IsLine(n, "b") \/ IsLine(n, "c")
        /\ Section(n) = 0
    BY LinesAreLines DEF Leaked
  <1>3. n # sdp.c
    <2>1. CASE n \in LinesOf("b", 0)
      <3>1. sdp.c \in LinesOf("c", 0) \/ sdp.c = NULLPTR
        BY DEF MessageOwns, IsLast
      <3>2. IsLine(n, "b")
        BY <2>1, LinesAreLines
      <3> QED
        BY <1>1, <3>1, <3>2, LinesAreLines DEF IsLine, NULLPTR
    <2>2. CASE \E l \in LinesOf("c", 0) : n < l
      <3>1. PICK l \in LinesOf("c", 0) : n < l
        BY <2>2
      <3>2. l <= sdp.c /\ l \in Nat /\ sdp.c \in Nat
        BY LinesBefore DEF MessageOwns, IsLast, SdpTypeOK, Messages
      <3> QED
        BY <1>1, <3>1, <3>2
    <2> QED
      BY <2>1, <2>2 DEF Leaked
  <1>4. n \notin OwnedByMessage
    BY <1>1, <1>2, <1>3, MessageOwned DEF IsLine, NULLPTR
  <1>5. ASSUME NEW k \in 1 .. Len(medias) PROVE n \notin OwnedByMedia(medias[k])
    BY <1>1, <1>2, MediaOwned DEF MediasOwn, NULLPTR
  <1> QED
    BY <1>1, <1>4, <1>5, Owners
-------------------------------------------------------------------------------
(* The types after a line.                                                 *)
LEMMA TypesAfter ==
  ASSUME SdpTypeOK, NEW type, NEW text, NextLine(type, text),
         type \in LineTypes, text \in LineTexts,
         sdp' \in Messages, medias' \in Seq(Medias), sdpHeap' \in SUBSET Nat,
         controls' = controls, ctx' = IF type = "m" THEN "MEDIA" ELSE ctx,
         Len(medias') = IF type = "m" THEN Len(medias) + 1 ELSE Len(medias)
  PROVE  SdpTypeOK'
  <1>1. sdpLines' \in Seq(Lines) /\ Len(sdpLines') = Here /\ Here \in Nat
    BY LineAdded
  <1>2. ASSUME NEW n \in Nat, n = Here PROVE Section(n)' = Len(medias')
    BY <1>2, SectionAdded
  <1>3. Section(Len(sdpLines))' = Len(medias')
    BY <1>1, <1>2 DEF Section
  <1>4. ctx' \in {"SESSION", "MEDIA"} /\ ((ctx' = "SESSION") = (Len(medias') = 0))
    <2>1. /\ ctx \in {"SESSION", "MEDIA"} /\ (ctx = "SESSION" <=> Len(medias) = 0)
          /\ Len(medias) \in Nat
      BY DEF SdpTypeOK
    <2>2. ctx' = "SESSION" <=> Len(medias') = 0
      BY <2>1
    <2> QED
      BY <2>1, <2>2
  <1> QED
    BY <1>1, <1>3, <1>4 DEF SdpTypeOK

(* A line of one type does not disturb what is owned of the others.        *)
LEMMA LinesKept ==
  ASSUME SdpTypeOK, NEW type, NEW text, NextLine(type, text),
         type \in LineTypes, text \in LineTexts
  PROVE  \A n, ty : IsLine(n, ty) => IsLine(n, ty)'
  <1>1. /\ sdpLines \in Seq(Lines) /\ sdpLines' \in Seq(Lines)
        /\ Len(sdpLines') = Len(sdpLines) + 1
        /\ \A n \in 1 .. Len(sdpLines) : sdpLines'[n] = sdpLines[n]
    BY LineAdded DEF SdpTypeOK, Here
  <1>2. ASSUME NEW n, NEW ty, IsLine(n, ty) PROVE IsLine(n, ty)'
    <2>1. n \in 1 .. Len(sdpLines) /\ sdpLines[n].type = ty
      BY <1>1, <1>2 DEF IsLine
    <2>2. n \in DOMAIN sdpLines' /\ sdpLines'[n].type = ty
      BY <1>1, <2>1
    <2> QED
      BY <2>2 DEF IsLine
  <1> QED
    BY <1>2

(* What the message has, if the new line is not for it.                    *)
LEMMA MessageKept ==
  ASSUME SdpTypeOK, MessageOwns, NEW type, NEW text, NextLine(type, text),
         type \in LineTypes, text \in LineTexts, UNCHANGED sdp,
         type \in {"a", "i", "c"} => Len(medias) # 0
  PROVE  MessageOwns'
  <1>1. /\ LinesOf("a", 0)' = LinesOf("a", 0)
        /\ LinesOf("i", 0)' = LinesOf("i", 0)
        /\ LinesOf("c", 0)' = LinesOf("c", 0)
    BY LinesAdded
  <1>2. \A n, ty : IsLine(n, ty) => IsLine(n, ty)'
    BY LinesKept
  <1> QED
    BY <1>1, <1>2 DEF MessageOwns, InOrder, IsLast

(* What a media has, if the new line is not for it.                        *)
LEMMA MediaKept ==
  ASSUME SdpTypeOK, NEW type, NEW text, NextLine(type, text),
         type \in LineTypes, text \in LineTexts,
         NEW media, NEW k \in 1 .. Len(medias), MediaOwns(media, k),
         type \in {"a", "b", "c", "i"} => k # Len(medias)
  PROVE  MediaOwns(media, k)'
  <1>1. Len(medias) \in Nat
    BY DEF SdpTypeOK
  <1>2. /\ LinesOf("m", k)' = LinesOf("m", k)
        /\ LinesOf("a", k)' = LinesOf("a", k)
        /\ LinesOf("b", k)' = LinesOf("b", k)
        /\ LinesOf("c", k)' = LinesOf("c", k)
        /\ LinesOf("i", k)' = LinesOf("i", k)
    BY <1>1, LinesAdded
  <1> QED
    BY <1>2 DEF MediaOwns, InOrder, IsLast

(* The media sections are kept by a line of the message.                   *)
LEMMA MediasKept ==
  ASSUME SdpTypeOK, MediasOwn, NEW type, NEW text, NextLine(type, text),
         type \in LineTypes, text \in LineTexts, UNCHANGED medias,
         type \in {"a", "b", "c", "i"} => Len(medias) = 0
  PROVE  MediasOwn'
  <1>1. ASSUME NEW k \in 1 .. Len(medias), NEW media, media = medias[k]
        PROVE  MediaOwns(media, k)'
    <2>1. Len(medias) \in Nat
      BY DEF SdpTypeOK
    <2>2. MediaOwns(media, k)
      BY <1>1 DEF MediasOwn
    <2> QED
      BY <1>1, <2>1, <2>2, MediaKept
  <1> QED
    BY <1>1 DEF MediasOwn, MediaOwns, InOrder, IsLast

(* No control is asked for before the end of the description.              *)
LEMMA ControlsKept ==
  ASSUME ControlsFirst, SdpTypeOK', sdpPhase = "parsing", UNCHANGED controls
  PROVE  ControlsFirst'
  <1>1. controls' = << >> /\ Len(medias') \in Nat
    BY DEF ControlsFirst, SdpTypeOK
  <1> QED
    BY <1>1 DEF ControlsFirst

(* The heap after a line that allocates, and frees what it replaces.       *)
LEMMA HeapStep ==
  ASSUME SdpTypeOK, HeapExact, sdpPhase = "parsing", sdpPhase' = "parsing",
         NEW old, sdpHeap' = (sdpHeap \ {old}) \cup {Here},
         \A n \in Nat \ {0} :
             n \in OwnedBySdp' \cup Leaked' <=>
                 (n \in OwnedBySdp \cup Leaked /\ n # old) \/ n = Here
  PROVE  HeapExact'
  <1>1. Here \in Nat \ {0}
    BY DEF Here, SdpTypeOK
  <1>2. 0 \notin sdpHeap' /\ 0 \notin sdpHeap
    BY <1>1 DEF HeapExact
  <1>3. \A n \in Nat \ {0} : n \in sdpHeap <=> n \in OwnedBySdp \cup Leaked
    BY DEF HeapExact
  <1>4. ASSUME NEW n \in Nat \ {0}
        PROVE  n \in sdpHeap' <=> n \in OwnedBySdp' \cup Leaked'
    BY <1>3
  <1> QED
    BY <1>2, <1>4 DEF HeapExact

(* Only the message's own b= and c= lines change what is leaked.           *)
LEMMA LeakedKept ==
  ASSUME SdpTypeOK, NEW type, NEW text, NextLine(type, text),
         type \in LineTypes, text \in LineTexts,
         type \in {"b", "c"} => Len(medias) # 0
  PROVE  Leaked' = Leaked
  <1>1. LinesOf("b", 0)' = LinesOf("b", 0) /\ LinesOf("c", 0)' = LinesOf("c", 0)
    BY LinesAdded
  <1> QED
    BY <1>1 DEF Leaked
-------------------------------------------------------------------------------
(* Every member of the message is from a line of its own type.             *)
LEMMA MemberLines ==
  ASSUME SdpTypeOK, MessageOwns
  PROVE  /\ sdp.v # 0 => IsLine(sdp.v, "v")
         /\ sdp.o # 0 => IsLine(sdp.o, "o")
         /\ sdp.s # 0 => IsLine(sdp.s, "s")
         /\ sdp.u # 0 => IsLine(sdp.u, "u")
         /\ sdp.i # 0 => IsLine(sdp.i, "i")
         /\ sdp.c # 0 => IsLine(sdp.c, "c")
         /\ \A n \in ToSet(sdp.e) : IsLine(n, "e")
         /\ \A n \in ToSet(sdp.p) : IsLine(n, "p")
         /\ \A n \in ToSet(sdp.a) : IsLine(n, "a")
         /\ ToSet(sdp.b) = {}
         /\ \A n, x, y : IsLine(n, x) /\ IsLine(n, y) => x = y
  <1>1. /\ \A n \in ToSet(sdp.a) : IsLine(n, "a")
        /\ sdp.i # 0 => IsLine(sdp.i, "i")
        /\ sdp.c # 0 => IsLine(sdp.c, "c")
    BY LinesAreLines DEF MessageOwns, InOrder, IsLast, NULLPTR
  <1>2. ToSet(sdp.b) = {}
    <2>1. sdp.b = << >>
      BY DEF MessageOwns
    <2> QED
      BY <2>1 DEF ToSet
  <1>3. \A n, x, y : IsLine(n, x) /\ IsLine(n, y) => x = y
    BY DEF IsLine
  <1> QED
    BY <1>1, <1>2, <1>3 DEF MessageOwns, NULLPTR

(* What a description owns after a line of the message.                    *)
LEMMA MessageOwnsStep ==
  ASSUME SdpTypeOK, SdpTypeOK', UNCHANGED medias, NEW old,
         \A n \in Nat \ {0} :
             n \in OwnedByMessage' <=>
                 (n \in OwnedByMessage /\ n # old) \/ n = Here,
         \A k \in 1 .. Len(medias) :
             old # 0 => old \notin OwnedByMedia(medias[k])
  PROVE  \A n \in Nat \ {0} :
             n \in OwnedBySdp' <=> (n \in OwnedBySdp /\ n # old) \/ n = Here
  <1>1. ASSUME NEW n
        PROVE  n \in OwnedBySdp' <=>
                   \/ n \in OwnedByMessage'
                   \/ \E k \in 1 .. Len(medias) : n \in OwnedByMedia(medias[k])
    <2>1. DOMAIN medias' = 1 .. Len(medias)
      BY DEF SdpTypeOK
    <2> QED
      BY <2>1 DEF OwnedBySdp, OwnedByMedia
  <1> QED
    BY <1>1, Owners
-------------------------------------------------------------------------------
(* v=, o=, s=, u=, and i= of the message: one member is replaced.          *)
LEMMA SetStringInv ==
  ASSUME SdpInv, NEW type \in Strings, NEW text \in {"full", "empty"},
         SetString(type, text)
  PROVE  SdpInv'
  <1> DEFINE old == sdp[type]
  <1>1. /\ NextLine(type, text) /\ UNCHANGED <<ctx, medias, controls>>
        /\ type = "i" => ctx = "SESSION"
        /\ sdp' = [sdp EXCEPT ![type] = Here]
        /\ sdpHeap' = (sdpHeap \ {old}) \cup {Here}
        /\ sdpPhase' = IF text = "empty" THEN "crashed" ELSE sdpPhase
        /\ sdpPhase = "parsing"
    BY DEF SetString, Replaces, NextLine
  <1>2. type \in LineTypes /\ text \in LineTexts /\ type \in {"v", "o", "s", "i", "u"}
    BY DEF Strings, LineTypes, LineTexts
  <1>3. /\ SdpTypeOK /\ MessageOwns /\ MediasOwn /\ ControlsFirst /\ HeapExact
        /\ Here \in Nat \ {0} /\ sdp \in Messages
    BY <1>1 DEF SdpInv, SdpTypeOK, Here
  <1>4. /\ sdp' \in Messages
        /\ sdp'.v = IF type = "v" THEN Here ELSE sdp.v
        /\ sdp'.o = IF type = "o" THEN Here ELSE sdp.o
        /\ sdp'.s = IF type = "s" THEN Here ELSE sdp.s
        /\ sdp'.u = IF type = "u" THEN Here ELSE sdp.u
        /\ sdp'.i = IF type = "i" THEN Here ELSE sdp.i
        /\ sdp'.c = sdp.c /\ sdp'.e = sdp.e /\ sdp'.p = sdp.p
        /\ sdp'.b = sdp.b /\ sdp'.a = sdp.a
    BY <1>1, <1>2, <1>3 DEF Messages
  <1>5. SdpTypeOK'
    BY <1>1, <1>2, <1>3, <1>4, TypesAfter DEF SdpTypeOK
  <1>6. ASSUME sdpPhase' # "crashed" PROVE MessageOwns'
    <2>1. \A ty : LinesOf(ty, 0)' = IF ty = type /\ 0 = Len(medias)
                                    THEN LinesOf(ty, 0) \cup {Here}
                                    ELSE LinesOf(ty, 0)
      <3>1. Len(medias) = IF type = "m" THEN Len(medias) + 1 ELSE Len(medias)
        BY <1>2
      <3> QED
        BY <1>1, <1>2, <1>3, <3>1, LinesAdded
    <2>2. LinesOf("a", 0)' = LinesOf("a", 0) /\ LinesOf("c", 0)' = LinesOf("c", 0)
      BY <1>2, <2>1
    <2>3. IsLast(sdp.i, LinesOf("i", 0))'
      <3>1. CASE type = "i"
        <4>1. LinesOf("i", 0)' = LinesOf("i", 0) \cup {Here} /\ sdp'.i = Here
          BY <1>1, <1>3, <1>4, <2>1, <3>1 DEF SdpTypeOK
        <4>2. \A n \in LinesOf("i", 0) : n < Here /\ n \in Nat
          BY <1>3, LinesBefore
        <4> QED
          BY <1>3, <4>1, <4>2 DEF IsLast
      <3>2. CASE type # "i"
        <4>1. LinesOf("i", 0)' = LinesOf("i", 0) /\ sdp'.i = sdp.i
          BY <1>4, <2>1, <3>2
        <4> QED
          BY <1>3, <4>1 DEF IsLast, MessageOwns
      <3> QED
        BY <3>1, <3>2
    <2>4. \A n, ty : IsLine(n, ty) => IsLine(n, ty)'
      BY <1>1, <1>2, <1>3, LinesKept
    <2>5. ASSUME NEW n, n = Here PROVE IsLine(n, type)'
      <3>1. /\ sdpLines' \in Seq(Lines) /\ Len(sdpLines') = Here /\ Here \in Nat
            /\ sdpLines'[Here].type = type
        BY <1>1, <1>2, <1>3, LineAdded
      <3> QED
        BY <1>3, <2>5, <3>1 DEF IsLine
    <2>6. /\ sdp'.v # 0 => IsLine(sdp.v, "v")'
          /\ sdp'.o # 0 => IsLine(sdp.o, "o")'
          /\ sdp'.s # 0 => IsLine(sdp.s, "s")'
          /\ sdp'.u # 0 => IsLine(sdp.u, "u")'
      <3>1. ASSUME NEW n, n = sdp'.v, n # 0 PROVE IsLine(n, "v")'
        BY <1>3, <1>4, <2>4, <2>5, <3>1, MemberLines
      <3>2. ASSUME NEW n, n = sdp'.o, n # 0 PROVE IsLine(n, "o")'
        BY <1>3, <1>4, <2>4, <2>5, <3>2, MemberLines
      <3>3. ASSUME NEW n, n = sdp'.s, n # 0 PROVE IsLine(n, "s")'
        BY <1>3, <1>4, <2>4, <2>5, <3>3, MemberLines
      <3>4. ASSUME NEW n, n = sdp'.u, n # 0 PROVE IsLine(n, "u")'
        BY <1>3, <1>4, <2>4, <2>5, <3>4, MemberLines
      <3> QED
        BY <3>1, <3>2, <3>3, <3>4 DEF IsLine
    <2>7. /\ (\A n \in ToSet(sdp.e) : IsLine(n, "e"))'
          /\ (\A n \in ToSet(sdp.p) : IsLine(n, "p"))'
      BY <1>3, <1>4, <2>4, MemberLines
    <2>8. InOrder(sdp.a, LinesOf("a", 0))' /\ IsLast(sdp.c, LinesOf("c", 0))'
      BY <1>3, <1>4, <2>2 DEF MessageOwns, InOrder, IsLast
    <2>9. sdp'.b = << >>
      BY <1>3, <1>4 DEF MessageOwns
    <2> QED
      BY <2>3, <2>6, <2>7, <2>8, <2>9 DEF MessageOwns, NULLPTR
  <1>7. MediasOwn'
    BY <1>1, <1>2, <1>3, MediasKept DEF SdpTypeOK
  <1>8. ControlsFirst'
    BY <1>1, <1>3, <1>5, ControlsKept
  <1>9. ASSUME sdpPhase' # "crashed" PROVE HeapExact'
    <2>1. ASSUME NEW n \in Nat \ {0}
          PROVE  n \in OwnedByMessage' <=>
                     (n \in OwnedByMessage /\ n # old) \/ n = Here
      <3>1. n \in OwnedByMessage' <=>
                \/ n \in {sdp'.v, sdp'.o, sdp'.s, sdp'.i, sdp'.u, sdp.c}
                \/ n \in ToSet(sdp.e) \/ n \in ToSet(sdp.p) \/ n \in ToSet(sdp.a)
                \/ n \in ToSet(sdp.b)
        BY <1>4 DEF OwnedByMessage
      <3>2. n \in OwnedByMessage <=>
                \/ n \in {sdp.v, sdp.o, sdp.s, sdp.i, sdp.u, sdp.c}
                \/ n \in ToSet(sdp.e) \/ n \in ToSet(sdp.p) \/ n \in ToSet(sdp.a)
                \/ n \in ToSet(sdp.b)
        BY DEF OwnedByMessage
      <3> QED
        BY <1>2, <1>3, <1>4, <3>1, <3>2, MemberLines
    <2>2. ASSUME NEW k \in 1 .. Len(medias), old # 0
          PROVE  old \notin OwnedByMedia(medias[k])
      <3>1. type # "i" /\ IsLine(old, type)
        BY <1>1, <1>2, <1>3, <2>2, MemberLines DEF SdpTypeOK
      <3>2. MediaOwns(medias[k], k)
        BY <1>3 DEF MediasOwn
      <3> QED
        BY <1>2, <1>3, <2>2, <3>1, <3>2, MediaOwned, MemberLines DEF NULLPTR
    <2>3. \A n \in Nat \ {0} :
              n \in OwnedBySdp' <=> (n \in OwnedBySdp /\ n # old) \/ n = Here
      BY <1>1, <1>3, <1>5, <2>1, <2>2, MessageOwnsStep
    <2>4. Leaked' = Leaked
      BY <1>1, <1>2, <1>3, LeakedKept
    <2>5. old \notin Leaked \/ old = 0
      <3>1. old # 0 => old \in OwnedBySdp
        BY <1>2, <1>3, Owners DEF OwnedByMessage
      <3> QED
        BY <1>3, <3>1, LeakedNotOwned
    <2> HIDE DEF old
    <2>6. \A n \in Nat \ {0} :
              n \in OwnedBySdp' \cup Leaked' <=>
                  (n \in OwnedBySdp \cup Leaked /\ n # old) \/ n = Here
      BY <2>3, <2>4, <2>5
    <2>7. sdpPhase' = "parsing"
      BY <1>1, <1>9
    <2> QED
      BY <1>1, <1>3, <2>6, <2>7, HeapStep
  <1> QED
    BY <1>5, <1>6, <1>7, <1>8, <1>9 DEF SdpInv

(* e= and p= lines, in any section, and a= of the message: one more item.  *)
LEMMA ItemInv ==
  ASSUME SdpInv, sdpPhase = "parsing", NEW type, NEW text \in LineTexts,
         NextLine(type, text),
         type \in {"e", "p"} \/ (type = "a" /\ ctx = "SESSION"),
         sdp' \in Messages, ToSet(sdp'[type]) = ToSet(sdp[type]) \cup {Here},
         type = "a" => sdp'.a = Append(sdp.a, Here),
         UNCHANGED <<sdp.v, sdp.o, sdp.s, sdp.u, sdp.i, sdp.c, sdp.b>>,
         type # "e" => sdp'.e = sdp.e,
         type # "p" => sdp'.p = sdp.p,
         type # "a" => sdp'.a = sdp.a,
         sdpHeap' = sdpHeap \cup {Here},
         UNCHANGED <<sdpPhase, ctx, medias, controls>>
  PROVE  SdpInv'
  <1>1. type \in LineTypes /\ type # "m"
    BY DEF LineTypes
  <1>2. /\ SdpTypeOK /\ MessageOwns /\ MediasOwn /\ ControlsFirst /\ HeapExact
        /\ Here \in Nat \ {0} /\ sdp \in Messages
    BY DEF SdpInv, SdpTypeOK, Here
  <1>3. SdpTypeOK'
    BY <1>1, <1>2, TypesAfter DEF SdpTypeOK
  <1>4. MessageOwns'
    <2>1. \A ty : LinesOf(ty, 0)' = IF ty = type /\ 0 = Len(medias)
                                    THEN LinesOf(ty, 0) \cup {Here}
                                    ELSE LinesOf(ty, 0)
      <3>1. Len(medias) = IF type = "m" THEN Len(medias) + 1 ELSE Len(medias)
        BY <1>1
      <3> QED
        BY <1>1, <1>2, <3>1, LinesAdded
    <2>2. \A n, ty : IsLine(n, ty) => IsLine(n, ty)'
      BY <1>1, <1>2, LinesKept
    <2>3. ASSUME NEW n, n = Here PROVE IsLine(n, type)'
      <3>1. /\ sdpLines' \in Seq(Lines) /\ Len(sdpLines') = Here
            /\ sdpLines'[Here].type = type
        BY <1>1, <1>2, LineAdded
      <3> QED
        BY <1>2, <2>3, <3>1 DEF IsLine
    <2>4. InOrder(sdp.a, LinesOf("a", 0))'
      <3>1. CASE type = "a"
        <4>1. LinesOf("a", 0)' = LinesOf("a", 0) \cup {Here}
          BY <1>2, <2>1, <3>1 DEF SdpTypeOK
        <4>2. \A n \in LinesOf("a", 0) : n < Here
          BY <1>2, LinesBefore
        <4>3. InOrder(sdp'.a, LinesOf("a", 0) \cup {Here})
          <5>1. sdp.a \in Seq(Nat) /\ InOrder(sdp.a, LinesOf("a", 0))
            BY <1>2 DEF Messages, MessageOwns
          <5>2. sdp'.a = Append(sdp.a, Here)
            BY <3>1
          <5> QED
            BY <1>2, <4>2, <5>1, <5>2, AppendInOrder
        <4> QED
          BY <4>1, <4>3 DEF InOrder
      <3>2. CASE type # "a"
        <4>1. LinesOf("a", 0)' = LinesOf("a", 0)
          BY <2>1, <3>2
        <4> QED
          BY <1>2, <3>2, <4>1 DEF MessageOwns, InOrder
      <3> QED
        BY <3>1, <3>2
    <2>5. IsLast(sdp.i, LinesOf("i", 0))' /\ IsLast(sdp.c, LinesOf("c", 0))'
      <3>1. LinesOf("i", 0)' = LinesOf("i", 0) /\ LinesOf("c", 0)' = LinesOf("c", 0)
        BY <2>1
      <3> QED
        BY <1>2, <3>1 DEF MessageOwns, IsLast
    <2>6. /\ (\A n \in ToSet(sdp.e) : IsLine(n, "e"))'
          /\ (\A n \in ToSet(sdp.p) : IsLine(n, "p"))'
      <3>1. ASSUME NEW n \in ToSet(sdp'.e) PROVE IsLine(n, "e")'
        <4>1. CASE type = "e"
          <5>1. n \in ToSet(sdp.e) \/ n = Here
            BY <3>1, <4>1
          <5> QED
            BY <1>2, <2>2, <2>3, <4>1, <5>1, MemberLines
        <4>2. CASE type # "e"
          BY <1>2, <2>2, <3>1, <4>2, MemberLines
        <4> QED
          BY <4>1, <4>2
      <3>2. ASSUME NEW n \in ToSet(sdp'.p) PROVE IsLine(n, "p")'
        <4>1. CASE type = "p"
          <5>1. n \in ToSet(sdp.p) \/ n = Here
            BY <3>2, <4>1
          <5> QED
            BY <1>2, <2>2, <2>3, <4>1, <5>1, MemberLines
        <4>2. CASE type # "p"
          BY <1>2, <2>2, <3>2, <4>2, MemberLines
        <4> QED
          BY <4>1, <4>2
      <3> QED
        BY <3>1, <3>2
    <2>7. /\ sdp'.v # 0 => IsLine(sdp.v, "v")'
          /\ sdp'.o # 0 => IsLine(sdp.o, "o")'
          /\ sdp'.s # 0 => IsLine(sdp.s, "s")'
          /\ sdp'.u # 0 => IsLine(sdp.u, "u")'
      BY <1>2, <2>2, MemberLines DEF IsLine
    <2>8. sdp'.b = << >>
      BY <1>2 DEF MessageOwns
    <2> QED
      BY <2>4, <2>5, <2>6, <2>7, <2>8 DEF MessageOwns, NULLPTR
  <1>5. MediasOwn'
    BY <1>1, <1>2, MediasKept DEF SdpTypeOK
  <1>6. ControlsFirst'
    BY <1>2, <1>3, ControlsKept
  <1>7. HeapExact'
    <2>1. ASSUME NEW n \in Nat \ {0}
          PROVE  n \in OwnedByMessage' <=>
                     (n \in OwnedByMessage /\ n # 0) \/ n = Here
      BY DEF OwnedByMessage
    <2>2. \A n \in Nat \ {0} :
              n \in OwnedBySdp' <=> (n \in OwnedBySdp /\ n # 0) \/ n = Here
      BY <1>2, <1>3, <2>1, MessageOwnsStep
    <2>3. Leaked' = Leaked
      BY <1>1, <1>2, LeakedKept
    <2>4. sdpHeap' = (sdpHeap \ {0}) \cup {Here}
      BY <1>2 DEF HeapExact
    <2> QED
      BY <1>2, <2>2, <2>3, <2>4, HeapStep
  <1> QED
    BY <1>3, <1>4, <1>5, <1>6, <1>7 DEF SdpInv

(* e= and p=.                                                              *)
LEMMA AddItemInv ==
  ASSUME SdpInv, NEW type \in {"e", "p"}, AddItemIntoVector(type, "full")
  PROVE  SdpInv'
  <1>1. /\ NextLine(type, "full") /\ sdpPhase = "parsing" /\ "full" \in LineTexts
        /\ sdp' = [sdp EXCEPT ![type] = Append(sdp[type], Here)]
        /\ sdpHeap' = sdpHeap \cup {Here}
        /\ UNCHANGED <<sdpPhase, ctx, medias, controls>>
    BY DEF AddItemIntoVector, NextLine, LineTexts
  <1>2. sdp \in Messages /\ Here \in Nat /\ sdp[type] \in Seq(Nat)
    BY DEF SdpInv, SdpTypeOK, Here, Messages
  <1>3. /\ Append(sdp[type], Here) \in Seq(Nat)
        /\ ToSet(Append(sdp[type], Here)) = ToSet(sdp[type]) \cup {Here}
    BY <1>2, AppendToSet
  <1>4. /\ sdp' \in Messages /\ sdp'[type] = Append(sdp[type], Here)
        /\ UNCHANGED <<sdp.v, sdp.o, sdp.s, sdp.u, sdp.i, sdp.c, sdp.b, sdp.a>>
        /\ type # "e" => sdp'.e = sdp.e
        /\ type # "p" => sdp'.p = sdp.p
    BY <1>1, <1>2, <1>3 DEF Messages
  <1> QED
    BY <1>1, <1>3, <1>4, ItemInv

(* The last media after a line of its section.                             *)
LEMMA MediaItemInv ==
  ASSUME SdpInv, sdpPhase = "parsing", NEW type \in {"a", "b", "c", "i"},
         NEW text \in LineTexts, NextLine(type, text), ctx = "MEDIA",
         NEW K, K = Len(medias), NEW media, media = medias[K],
         NEW new \in Medias, medias' = [medias EXCEPT ![K] = new],
         new.m = media.m,
         new.a = IF type = "a" THEN Append(media.a, Here) ELSE media.a,
         new.b = IF type = "b" THEN Append(media.b, Here) ELSE media.b,
         new.c = IF type = "c" THEN Append(media.c, Here) ELSE media.c,
         new.i = IF type = "i" THEN Here ELSE media.i,
         NEW old, old = IF type = "i" THEN media.i ELSE 0,
         sdpHeap' = (sdpHeap \ {old}) \cup {Here},
         UNCHANGED <<ctx, sdp, controls>>, sdpPhase' \in {"parsing", "crashed"}
  PROVE  SdpInv'
  <1>1. type \in LineTypes /\ type # "m"
    BY DEF LineTypes, Strings
  <1>2. /\ SdpTypeOK /\ MessageOwns /\ MediasOwn /\ ControlsFirst /\ HeapExact
        /\ Here \in Nat \ {0} /\ medias \in Seq(Medias)
    BY DEF SdpInv, SdpTypeOK, Here
  <1>3. K \in 1 .. Len(medias) /\ Len(medias) # 0 /\ K # 0
    BY <1>2 DEF SdpTypeOK
  <1>4. media \in Medias /\ MediaOwns(media, K)
    BY <1>2, <1>3 DEF MediasOwn
  <1>5. /\ medias' \in Seq(Medias) /\ Len(medias') = Len(medias)
        /\ medias'[K] = new
        /\ \A k \in 1 .. Len(medias) : k # K => medias'[k] = medias[k]
    BY <1>2, <1>3
  <1>6. SdpTypeOK'
    <2>1. sdpHeap' \in SUBSET Nat /\ sdp' \in Messages
      BY <1>2 DEF SdpTypeOK
    <2> QED
      BY <1>1, <1>2, <1>5, <2>1, TypesAfter
  <1>7. MessageOwns'
    BY <1>1, <1>2, <1>3, MessageKept
  <1>8. MediaOwns(new, K)'
    <2>1. \A ty : LinesOf(ty, K)' = IF ty = type THEN LinesOf(ty, K) \cup {Here}
                                    ELSE LinesOf(ty, K)
      <3>1. K = IF type = "m" THEN Len(medias) + 1 ELSE Len(medias)
        BY <1>1
      <3> QED
        BY <1>1, <1>2, <3>1, LinesAdded
    <2>2. \A ty : \A n \in LinesOf(ty, K) : n \in Nat /\ n < Here
      BY <1>2, LinesBefore
    <2>3. media.a \in Seq(Nat) /\ media.b \in Seq(Nat) /\ media.c \in Seq(Nat)
      BY <1>4 DEF Medias
    <2>4. LinesOf("m", K)' = {new.m}
      BY <1>4, <2>1 DEF MediaOwns
    <2>5. InOrder(new.a, LinesOf("a", K)')
      <3>1. InOrder(media.a, LinesOf("a", K))
        BY <1>4 DEF MediaOwns
      <3>2. CASE type = "a"
        <4>1. InOrder(Append(media.a, Here), LinesOf("a", K) \cup {Here})
          BY <1>2, <2>2, <2>3, <3>1, AppendInOrder
        <4> QED
          BY <2>1, <3>2, <4>1
      <3>3. CASE type # "a"
        BY <2>1, <3>1, <3>3
      <3> QED
        BY <3>2, <3>3
    <2>6. InOrder(new.b, LinesOf("b", K)')
      <3>1. InOrder(media.b, LinesOf("b", K))
        BY <1>4 DEF MediaOwns
      <3>2. CASE type = "b"
        <4>1. InOrder(Append(media.b, Here), LinesOf("b", K) \cup {Here})
          BY <1>2, <2>2, <2>3, <3>1, AppendInOrder
        <4> QED
          BY <2>1, <3>2, <4>1
      <3>3. CASE type # "b"
        BY <2>1, <3>1, <3>3
      <3> QED
        BY <3>2, <3>3
    <2>7. InOrder(new.c, LinesOf("c", K)')
      <3>1. InOrder(media.c, LinesOf("c", K))
        BY <1>4 DEF MediaOwns
      <3>2. CASE type = "c"
        <4>1. InOrder(Append(media.c, Here), LinesOf("c", K) \cup {Here})
          BY <1>2, <2>2, <2>3, <3>1, AppendInOrder
        <4> QED
          BY <2>1, <3>2, <4>1
      <3>3. CASE type # "c"
        BY <2>1, <3>1, <3>3
      <3> QED
        BY <3>2, <3>3
    <2>8. IsLast(new.i, LinesOf("i", K)')
      <3>1. IsLast(media.i, LinesOf("i", K))
        BY <1>4 DEF MediaOwns
      <3> QED
        BY <1>2, <2>1, <2>2, <3>1 DEF IsLast
    <2> QED
      BY <2>4, <2>5, <2>6, <2>7, <2>8 DEF MediaOwns, InOrder, IsLast
  <1>9. MediasOwn'
    <2>1. ASSUME NEW k \in 1 .. Len(medias), NEW x, x = medias'[k]
          PROVE  MediaOwns(x, k)'
      <3>1. CASE k = K
        BY <1>5, <1>8, <2>1, <3>1
      <3>2. CASE k # K
        <4>1. x = medias[k] /\ MediaOwns(x, k)
          BY <1>2, <1>5, <2>1, <3>2 DEF MediasOwn
        <4> QED
          BY <1>1, <1>2, <3>2, <4>1, MediaKept
      <3> QED
        BY <3>1, <3>2
    <2> QED
      BY <1>5, <2>1 DEF MediasOwn, MediaOwns, InOrder, IsLast
  <1>10. ControlsFirst'
    BY <1>2, <1>6, ControlsKept
  <1>11. ASSUME sdpPhase' # "crashed" PROVE HeapExact'
    <2>1. ASSUME NEW n \in Nat \ {0}
          PROVE  n \in OwnedByMedia(new) <=>
                     (n \in OwnedByMedia(media) /\ n # old) \/ n = Here
      <3>1. CASE type = "i"
        <4>1. OwnedByMedia(new) = {media.m, Here} \cup ToSet(media.c)
                                  \cup ToSet(media.b) \cup ToSet(media.a)
          BY <3>1 DEF OwnedByMedia
        <4>2. OwnedByMedia(media) = {media.m, media.i} \cup ToSet(media.c)
                                    \cup ToSet(media.b) \cup ToSet(media.a)
          BY DEF OwnedByMedia
        <4>3. ASSUME n = media.i
              PROVE  n \notin {media.m} \cup ToSet(media.c) \cup ToSet(media.b)
                              \cup ToSet(media.a)
          <5>1. IsLine(n, "i")
            BY <1>4, <4>3, LinesAreLines DEF MediaOwns, IsLast, NULLPTR
          <5>2. /\ ~ IsLine(n, "m") => n # media.m
                /\ ~ IsLine(n, "a") => n \notin ToSet(media.a)
                /\ ~ IsLine(n, "b") => n \notin ToSet(media.b)
                /\ ~ IsLine(n, "c") => n \notin ToSet(media.c)
            BY <1>4, LinesAreLines DEF MediaOwns, InOrder
          <5> QED
            BY <5>1, <5>2 DEF IsLine
        <4> QED
          BY <3>1, <4>1, <4>2, <4>3
      <3>2. CASE type # "i"
        <4>1. /\ ToSet(Append(media.a, Here)) = ToSet(media.a) \cup {Here}
              /\ ToSet(Append(media.b, Here)) = ToSet(media.b) \cup {Here}
              /\ ToSet(Append(media.c, Here)) = ToSet(media.c) \cup {Here}
          <5>1. media.a \in Seq(Nat) /\ media.b \in Seq(Nat) /\ media.c \in Seq(Nat)
            BY <1>4 DEF Medias
          <5> QED
            BY <1>2, <5>1, AppendToSet
        <4> QED
          BY <3>2, <4>1 DEF OwnedByMedia
      <3> QED
        BY <3>1, <3>2
    <2>2. OwnedByMessage' = OwnedByMessage
      BY DEF OwnedByMessage
    <2>3. old # 0 =>
              /\ IsLine(old, "i") /\ Section(old) = K
              /\ old \in OwnedByMedia(media) /\ old = media.i
      <3>1. old # 0 => old \in LinesOf("i", K) /\ old = media.i
        BY <1>4 DEF MediaOwns, IsLast, NULLPTR
      <3> QED
        BY <3>1, LinesAreLines DEF OwnedByMedia
    <2>4. ASSUME NEW k \in 1 .. Len(medias), k # K, old # 0
          PROVE  old \notin OwnedByMedia(medias[k])
      BY <1>2, <2>3, <2>4, MediaOwned DEF MediasOwn, NULLPTR
    <2>5. old # 0 => old \notin OwnedByMessage
      <3>1. old # 0 => ~ IsLine(old, "v") /\ ~ IsLine(old, "o") /\ ~ IsLine(old, "s")
                       /\ ~ IsLine(old, "u") /\ ~ IsLine(old, "c")
                       /\ ~ IsLine(old, "e") /\ ~ IsLine(old, "p")
                       /\ ~ IsLine(old, "a") /\ Section(old) # 0
        BY <1>3, <2>3 DEF IsLine
      <3> QED
        BY <1>2, <3>1, MessageOwned DEF NULLPTR
    <2>6. ASSUME NEW n \in Nat \ {0}
          PROVE  n \in OwnedBySdp' <=> (n \in OwnedBySdp /\ n # old) \/ n = Here
      <3>1. n \in OwnedBySdp' <=>
                \/ n \in OwnedByMessage
                \/ \E k \in 1 .. Len(medias) : n \in OwnedByMedia(medias'[k])
        <4>1. DOMAIN medias' = 1 .. Len(medias)
          BY <1>5
        <4> QED
          BY <2>2, <4>1 DEF OwnedBySdp, OwnedByMedia
      <3>2. (\E k \in 1 .. Len(medias) : n \in OwnedByMedia(medias'[k])) <=>
                \/ n \in OwnedByMedia(new)
                \/ \E k \in 1 .. Len(medias) : k # K /\ n \in OwnedByMedia(medias[k])
        BY <1>3, <1>5
      <3>3. n \in OwnedBySdp <=>
                \/ n \in OwnedByMessage
                \/ n \in OwnedByMedia(media)
                \/ \E k \in 1 .. Len(medias) : k # K /\ n \in OwnedByMedia(medias[k])
        BY <1>2, <1>3, Owners
      <3> QED
        BY <2>1, <2>4, <2>5, <3>1, <3>2, <3>3
    <2>7. Leaked' = Leaked
      BY <1>1, <1>2, <1>3, LeakedKept
    <2>8. old # 0 => old \notin Leaked
      BY <1>2, <1>3, <2>3, Owners, LeakedNotOwned
    <2>9. \A n \in Nat \ {0} :
              n \in OwnedBySdp' \cup Leaked' <=>
                  (n \in OwnedBySdp \cup Leaked /\ n # old) \/ n = Here
      BY <2>6, <2>7, <2>8
    <2>10. sdpPhase' = "parsing"
      BY <1>11
    <2>11. sdpHeap' = (sdpHeap \ {old}) \cup {Here} /\ sdpPhase = "parsing"
      OBVIOUS
    <2> QED
      BY ONLY <1>2, <2>9, <2>10, <2>11, HeapStep
  <1> QED
    BY <1>6, <1>7, <1>9, <1>10, <1>11 DEF SdpInv

(* i= of a media.                                                          *)
LEMMA SetInfoInv ==
  ASSUME SdpInv, NEW text \in {"full", "empty"}, SetInfo(text)
  PROVE  SdpInv'
  <1> DEFINE K == Len(medias)
             media == medias[K]
             new == [media EXCEPT !.i = Here]
  <1>1. /\ NextLine("i", text) /\ ctx = "MEDIA" /\ sdpPhase = "parsing"
        /\ medias' = [medias EXCEPT ![K].i = Here]
        /\ sdpPhase' \in {"parsing", "crashed"}
        /\ UNCHANGED <<ctx, sdp, controls>>
    BY DEF SetInfo, Replaces, NextLine
  <1>2. medias \in Seq(Medias) /\ K \in 1 .. Len(medias) /\ Here \in Nat
    BY <1>1 DEF SdpInv, SdpTypeOK, Here
  <1>3. media \in Medias
    BY <1>2
  <1>4. Last(medias) = media
    BY <1>2 DEF Last
  <1>5. sdpHeap' = (sdpHeap \ {media.i}) \cup {Here}
    BY <1>4 DEF SetInfo, Replaces
  <1>6. medias' = [medias EXCEPT ![K] = new]
    BY <1>1, <1>2
  <1>7. /\ new \in Medias /\ new.m = media.m /\ new.a = media.a /\ new.b = media.b
        /\ new.c = media.c /\ new.i = Here
    BY <1>2, <1>3 DEF Medias
  <1>8. text \in LineTexts
    BY DEF LineTexts
  <1> DEFINE type == "i"
             old == media.i
  <1>9. /\ K = Len(medias) /\ media = medias[K] /\ new \in Medias
        /\ NextLine(type, text) /\ type \in {"a", "b", "c", "i"}
        /\ new.a = IF type = "a" THEN Append(media.a, Here) ELSE media.a
        /\ new.b = IF type = "b" THEN Append(media.b, Here) ELSE media.b
        /\ new.c = IF type = "c" THEN Append(media.c, Here) ELSE media.c
        /\ new.i = IF type = "i" THEN Here ELSE media.i
        /\ old = IF type = "i" THEN media.i ELSE 0
        /\ sdpHeap' = (sdpHeap \ {old}) \cup {Here}
        /\ new.m = media.m /\ ctx = "MEDIA" /\ sdpPhase = "parsing"
        /\ sdpPhase' \in {"parsing", "crashed"} /\ UNCHANGED <<ctx, sdp, controls>>
    BY <1>1, <1>5, <1>7
  <1> HIDE DEF K, media, new, type, old
  <1> QED
    BY ONLY SdpInv, <1>6, <1>8, <1>9, MediaItemInv

(* c=, b= and a= of a media.                                               *)
LEMMA MediaAppendInv ==
  ASSUME SdpInv, sdpPhase = "parsing", NEW type \in {"a", "b", "c"},
         NEW text \in LineTexts, NextLine(type, text), ctx = "MEDIA",
         NEW K, K = Len(medias), NEW media, media = medias[K],
         NEW new, medias' = [medias EXCEPT ![K] = new],
         \/ type = "a" /\ new = [media EXCEPT !.a = Append(media.a, Here)]
         \/ type = "b" /\ new = [media EXCEPT !.b = Append(media.b, Here)]
         \/ type = "c" /\ new = [media EXCEPT !.c = Append(media.c, Here)],
         sdpHeap' = sdpHeap \cup {Here},
         UNCHANGED <<ctx, sdp, controls, sdpPhase>>
  PROVE  SdpInv'
  <1>1. /\ medias \in Seq(Medias) /\ K \in 1 .. Len(medias) /\ Here \in Nat
        /\ 0 \notin sdpHeap
    BY DEF SdpInv, SdpTypeOK, Here, HeapExact
  <1>2. media \in Medias
    BY <1>1
  <1>3. media.a \in Seq(Nat) /\ media.b \in Seq(Nat) /\ media.c \in Seq(Nat)
    BY <1>2 DEF Medias
  <1>4. /\ Append(media.a, Here) \in Seq(Nat) /\ Append(media.b, Here) \in Seq(Nat)
        /\ Append(media.c, Here) \in Seq(Nat)
    BY <1>1, <1>3, AppendToSet
  <1>5. /\ new \in Medias /\ new.m = media.m
        /\ new.a = IF type = "a" THEN Append(media.a, Here) ELSE media.a
        /\ new.b = IF type = "b" THEN Append(media.b, Here) ELSE media.b
        /\ new.c = IF type = "c" THEN Append(media.c, Here) ELSE media.c
        /\ new.i = IF type = "i" THEN Here ELSE media.i
    <2>1. CASE type = "a"
      BY <1>2, <1>4, <2>1 DEF Medias
    <2>2. CASE type = "b"
      BY <1>2, <1>4, <2>2 DEF Medias
    <2>3. CASE type = "c"
      BY <1>2, <1>4, <2>3 DEF Medias
    <2> QED
      BY <2>1, <2>2, <2>3
  <1> DEFINE old == 0
  <1>6. /\ old = IF type = "i" THEN media.i ELSE 0
        /\ sdpHeap' = (sdpHeap \ {old}) \cup {Here}
        /\ sdpPhase' \in {"parsing", "crashed"} /\ type \in {"a", "b", "c", "i"}
        /\ NextLine(type, text) /\ ctx = "MEDIA" /\ sdpPhase = "parsing"
        /\ UNCHANGED <<ctx, sdp, controls>> /\ text \in LineTexts
        /\ K = Len(medias) /\ media = medias[K] /\ medias' = [medias EXCEPT ![K] = new]
    BY <1>1
  <1> HIDE DEF old
  <1> QED
    BY ONLY SdpInv, <1>5, <1>6, MediaItemInv

(* c= of the message: the connection before becomes a leak.                *)
LEMMA MessageConnectionInv ==
  ASSUME SdpInv, sdpPhase = "parsing", NEW text \in LineTexts, NextLine("c", text),
         ctx = "SESSION", sdp' = [sdp EXCEPT !.c = Here],
         sdpHeap' = sdpHeap \cup {Here},
         UNCHANGED <<sdpPhase, ctx, medias, controls>>
  PROVE  SdpInv'
  <1>1. "c" \in LineTypes /\ "c" # "m"
    BY DEF LineTypes
  <1>2. /\ SdpTypeOK /\ MessageOwns /\ MediasOwn /\ ControlsFirst /\ HeapExact
        /\ Here \in Nat \ {0} /\ sdp \in Messages /\ Len(medias) = 0
    BY DEF SdpInv, SdpTypeOK, Here
  <1>3. /\ sdp' \in Messages /\ sdp'.c = Here
        /\ UNCHANGED <<sdp.v, sdp.o, sdp.s, sdp.u, sdp.i, sdp.e, sdp.p, sdp.b, sdp.a>>
    BY <1>2 DEF Messages
  <1>4. SdpTypeOK'
    BY <1>1, <1>2, <1>3, TypesAfter DEF SdpTypeOK
  <1>5. /\ LinesOf("a", 0)' = LinesOf("a", 0) /\ LinesOf("i", 0)' = LinesOf("i", 0)
        /\ LinesOf("b", 0)' = LinesOf("b", 0)
        /\ LinesOf("c", 0)' = LinesOf("c", 0) \cup {Here}
    <2>1. 0 = IF "c" = "m" THEN Len(medias) + 1 ELSE Len(medias)
      BY <1>2
    <2> QED
      BY <1>1, <1>2, <2>1, LinesAdded
  <1>6. \A n \in LinesOf("c", 0) : n \in Nat \ {0} /\ n < Here
    BY <1>2, LinesBefore
  <1>7. IsLast(sdp.c, LinesOf("c", 0))'
    BY <1>2, <1>3, <1>5, <1>6 DEF IsLast
  <1>8. MessageOwns'
    <2>1. \A n, ty : IsLine(n, ty) => IsLine(n, ty)'
      BY <1>1, <1>2, LinesKept
    <2>2. /\ sdp'.v # 0 => IsLine(sdp.v, "v")'
          /\ sdp'.o # 0 => IsLine(sdp.o, "o")'
          /\ sdp'.s # 0 => IsLine(sdp.s, "s")'
          /\ sdp'.u # 0 => IsLine(sdp.u, "u")'
      BY <1>2, <1>3, <2>1, MemberLines DEF IsLine
    <2>3. /\ (\A n \in ToSet(sdp.e) : IsLine(n, "e"))'
          /\ (\A n \in ToSet(sdp.p) : IsLine(n, "p"))'
      BY <1>2, <1>3, <2>1, MemberLines
    <2>4. InOrder(sdp.a, LinesOf("a", 0))' /\ IsLast(sdp.i, LinesOf("i", 0))'
      BY <1>2, <1>3, <1>5 DEF MessageOwns, InOrder, IsLast
    <2>5. sdp'.b = << >>
      BY <1>2, <1>3 DEF MessageOwns
    <2> QED
      BY <1>7, <2>2, <2>3, <2>4, <2>5 DEF MessageOwns, NULLPTR
  <1>9. MediasOwn'
    BY <1>1, <1>2, MediasKept
  <1>10. ControlsFirst'
    BY <1>2, <1>4, ControlsKept
  <1>11. HeapExact'
    <2>1. ASSUME NEW n \in Nat \ {0}
          PROVE  n \in OwnedByMessage' <=>
                     (n \in OwnedByMessage /\ n # sdp.c) \/ n = Here
      <3>1. n \in OwnedByMessage' <=>
                \/ n \in {sdp.v, sdp.o, sdp.s, sdp.i, sdp.u, Here}
                \/ n \in ToSet(sdp.e) \/ n \in ToSet(sdp.p) \/ n \in ToSet(sdp.a)
                \/ n \in ToSet(sdp.b)
        BY <1>3 DEF OwnedByMessage
      <3>2. n \in OwnedByMessage <=>
                \/ n \in {sdp.v, sdp.o, sdp.s, sdp.i, sdp.u, sdp.c}
                \/ n \in ToSet(sdp.e) \/ n \in ToSet(sdp.p) \/ n \in ToSet(sdp.a)
                \/ n \in ToSet(sdp.b)
        BY DEF OwnedByMessage
      <3> QED
        BY <1>2, <3>1, <3>2, MemberLines
    <2> DEFINE old == sdp.c
    <2>2. \A n \in Nat \ {0} :
              n \in OwnedBySdp' <=> (n \in OwnedBySdp /\ n # old) \/ n = Here
      <3>1. \A k \in 1 .. Len(medias) : old # 0 => old \notin OwnedByMedia(medias[k])
        BY <1>2
      <3> QED
        BY <1>2, <1>4, <2>1, <3>1, MessageOwnsStep
    <2>3. old # 0 => old \in LinesOf("c", 0)
      BY <1>2 DEF MessageOwns, IsLast, NULLPTR
    <2>4. old \in OwnedBySdp
      BY <1>2, Owners DEF OwnedByMessage
    <2>5. ASSUME NEW n \in Nat \ {0}
          PROVE  n \in Leaked' <=> n \in Leaked \/ n = old
      <3>1. n \in Leaked' <=>
                \/ n \in LinesOf("b", 0)
                \/ /\ n \in LinesOf("c", 0) \cup {Here}
                   /\ \E l \in LinesOf("c", 0) \cup {Here} : n < l
        BY <1>5 DEF Leaked
      <3>2. n \in Leaked' <=> n \in LinesOf("b", 0) \/ n \in LinesOf("c", 0)
        BY <1>2, <1>6, <3>1
      <3>3. n \in Leaked <=>
                \/ n \in LinesOf("b", 0)
                \/ n \in LinesOf("c", 0) /\ \E l \in LinesOf("c", 0) : n < l
        BY DEF Leaked
      <3>4. ASSUME n \in LinesOf("c", 0)
            PROVE  (\E l \in LinesOf("c", 0) : n < l) \/ n = old
        <4>1. old \in LinesOf("c", 0) /\ n <= old
          BY <1>2, <3>4 DEF MessageOwns, IsLast
        <4>2. old \in Nat
          BY <1>6, <4>1
        <4> QED
          BY <4>1, <4>2
      <3> QED
        BY <2>3, <3>2, <3>3, <3>4
    <2>6. sdpHeap' = (sdpHeap \ {0}) \cup {Here}
      BY <1>2 DEF HeapExact
    <2> HIDE DEF old
    <2>7. \A n \in Nat \ {0} :
              n \in OwnedBySdp' \cup Leaked' <=>
                  (n \in OwnedBySdp \cup Leaked /\ n # 0) \/ n = Here
      BY <2>2, <2>4, <2>5
    <2>8. sdpPhase = "parsing" /\ sdpPhase' = "parsing"
      OBVIOUS
    <2> QED
      BY ONLY <1>2, <2>6, <2>7, <2>8, HeapStep
  <1> QED
    BY <1>4, <1>8, <1>9, <1>10, <1>11 DEF SdpInv

(* b= of the message, a leak from the beginning.                           *)
LEMMA MessageBandwidthInv ==
  ASSUME SdpInv, sdpPhase = "parsing", NEW text \in LineTexts, NextLine("b", text),
         ctx = "SESSION", sdpHeap' = sdpHeap \cup {Here},
         UNCHANGED <<sdpPhase, ctx, sdp, medias, controls>>
  PROVE  SdpInv'
  <1>1. "b" \in LineTypes /\ "b" # "m"
    BY DEF LineTypes
  <1>2. /\ SdpTypeOK /\ MessageOwns /\ MediasOwn /\ ControlsFirst /\ HeapExact
        /\ Here \in Nat \ {0} /\ Len(medias) = 0
    BY DEF SdpInv, SdpTypeOK, Here
  <1>3. SdpTypeOK'
    BY <1>1, <1>2, TypesAfter DEF SdpTypeOK
  <1>4. MessageOwns' /\ MediasOwn' /\ ControlsFirst'
    BY <1>1, <1>2, <1>3, MessageKept, MediasKept, ControlsKept
  <1>5. HeapExact'
    <2>1. 0 = IF "b" = "m" THEN Len(medias) + 1 ELSE Len(medias)
      BY <1>2
    <2>2. /\ LinesOf("b", 0)' = LinesOf("b", 0) \cup {Here}
          /\ LinesOf("c", 0)' = LinesOf("c", 0)
      BY <1>1, <1>2, <2>1, LinesAdded
    <2>3. Leaked' = Leaked \cup {Here}
      BY <2>2 DEF Leaked
    <2>4. OwnedBySdp' = OwnedBySdp
      BY DEF OwnedBySdp, OwnedByMessage, OwnedByMedia
    <2>5. sdpHeap' = (sdpHeap \ {0}) \cup {Here}
      BY <1>2 DEF HeapExact
    <2>6. \A n \in Nat \ {0} :
              n \in OwnedBySdp' \cup Leaked' <=>
                  (n \in OwnedBySdp \cup Leaked /\ n # 0) \/ n = Here
      BY <2>3, <2>4
    <2>7. sdpPhase = "parsing" /\ sdpPhase' = "parsing"
      OBVIOUS
    <2> QED
      BY ONLY <1>2, <2>5, <2>6, <2>7, HeapStep
  <1> QED
    BY <1>3, <1>4, <1>5 DEF SdpInv

(* c=, of the message or of the last media.                                *)
LEMMA AddConnectionInv ==
  ASSUME SdpInv, NEW text \in {"full", "empty"}, AddConnection(text)
  PROVE  SdpInv'
  <1>1. /\ NextLine("c", text) /\ sdpPhase = "parsing"
        /\ sdpHeap' = sdpHeap \cup {Here} /\ UNCHANGED <<ctx, controls>>
        /\ text \in LineTexts
    BY DEF AddConnection, NextLine, LineTexts
  <1>2. CASE text = "empty"
    <2>1. sdpPhase' = "crashed" /\ UNCHANGED <<sdp, medias>>
      BY <1>2 DEF AddConnection
    <2>2. /\ SdpTypeOK /\ Here \in Nat /\ "c" \in LineTypes /\ "c" # "m"
          /\ medias \in Seq(Medias) /\ sdp \in Messages /\ sdpHeap \in SUBSET Nat
      BY DEF SdpInv, SdpTypeOK, Here, LineTypes
    <2>3. SdpTypeOK'
      BY <1>1, <2>1, <2>2, TypesAfter
    <2> QED
      BY <2>1, <2>3 DEF SdpInv
  <1>3. CASE text # "empty" /\ ctx = "SESSION"
    <2>1. sdp' = [sdp EXCEPT !.c = Here] /\ UNCHANGED <<sdpPhase, medias>>
      BY <1>3 DEF AddConnection
    <2> QED
      BY <1>1, <1>3, <2>1, MessageConnectionInv
  <1>4. CASE text # "empty" /\ ctx # "SESSION"
    <2> DEFINE K == Len(medias)
               media == medias[K]
               new == [media EXCEPT !.c = Append(media.c, Here)]
               type == "c"
    <2>1. medias' = [medias EXCEPT ![K].c = Append(medias[K].c, Here)]
      BY <1>4 DEF AddConnection
    <2>2. medias \in Seq(Medias) /\ K \in 1 .. Len(medias) /\ ctx = "MEDIA"
      BY <1>4 DEF SdpInv, SdpTypeOK
    <2>3. /\ medias' = [medias EXCEPT ![K] = new] /\ K = Len(medias)
          /\ media = medias[K]
          /\ type \in {"a", "b", "c"} /\ NextLine(type, text)
          /\ \/ type = "a" /\ new = [media EXCEPT !.a = Append(media.a, Here)]
             \/ type = "b" /\ new = [media EXCEPT !.b = Append(media.b, Here)]
             \/ type = "c" /\ new = [media EXCEPT !.c = Append(media.c, Here)]
          /\ UNCHANGED <<ctx, sdp, controls, sdpPhase>>
      BY <1>1, <1>4, <2>1, <2>2 DEF AddConnection
    <2> HIDE DEF K, media, new, type
    <2> QED
      BY ONLY SdpInv, <1>1, <2>2, <2>3, MediaAppendInv
  <1> QED
    BY <1>2, <1>3, <1>4

(* b=, of the message or of the last media.                                *)
LEMMA AddBandwidthInv ==
  ASSUME SdpInv, NEW text \in {"full", "empty"}, AddBandwidth(text)
  PROVE  SdpInv'
  <1>1. /\ NextLine("b", text) /\ sdpPhase = "parsing"
        /\ sdpHeap' = sdpHeap \cup {Here} /\ UNCHANGED <<sdpPhase, ctx, sdp, controls>>
        /\ text \in LineTexts
    BY DEF AddBandwidth, NextLine, LineTexts
  <1>2. CASE ctx = "SESSION"
    <2>1. UNCHANGED medias
      BY <1>2 DEF AddBandwidth
    <2> QED
      BY <1>1, <1>2, <2>1, MessageBandwidthInv
  <1>3. CASE ctx # "SESSION"
    <2> DEFINE K == Len(medias)
               media == medias[K]
               new == [media EXCEPT !.b = Append(media.b, Here)]
               type == "b"
    <2>1. medias' = [medias EXCEPT ![K].b = Append(medias[K].b, Here)]
      BY <1>3 DEF AddBandwidth
    <2>2. medias \in Seq(Medias) /\ K \in 1 .. Len(medias) /\ ctx = "MEDIA"
      BY <1>3 DEF SdpInv, SdpTypeOK
    <2>3. /\ medias' = [medias EXCEPT ![K] = new] /\ K = Len(medias)
          /\ media = medias[K]
          /\ type \in {"a", "b", "c"} /\ NextLine(type, text)
          /\ \/ type = "a" /\ new = [media EXCEPT !.a = Append(media.a, Here)]
             \/ type = "b" /\ new = [media EXCEPT !.b = Append(media.b, Here)]
             \/ type = "c" /\ new = [media EXCEPT !.c = Append(media.c, Here)]
          /\ UNCHANGED <<ctx, sdp, controls, sdpPhase>>
      BY <1>1, <2>1, <2>2
    <2> HIDE DEF K, media, new, type
    <2> QED
      BY ONLY SdpInv, <1>1, <2>2, <2>3, MediaAppendInv
  <1> QED
    BY <1>2, <1>3

(* a=, of the message or of the last media.                                *)
LEMMA AddAttributeInv ==
  ASSUME SdpInv, NEW text \in LineTexts, AddAttribute(text)
  PROVE  SdpInv'
  <1>1. /\ NextLine("a", text) /\ sdpPhase = "parsing"
        /\ sdpHeap' = sdpHeap \cup {Here} /\ UNCHANGED <<sdpPhase, ctx, controls>>
    BY DEF AddAttribute, NextLine
  <1>2. CASE ctx = "SESSION"
    <2> DEFINE type == "a"
    <2>1. sdp' = [sdp EXCEPT !.a = Append(sdp.a, Here)] /\ UNCHANGED medias
      BY <1>2 DEF AddAttribute
    <2>2. sdp \in Messages /\ Here \in Nat
      BY DEF SdpInv, SdpTypeOK, Here
    <2>3. sdp.a \in Seq(Nat)
      BY <2>2 DEF Messages
    <2>4. /\ Append(sdp.a, Here) \in Seq(Nat)
          /\ ToSet(Append(sdp.a, Here)) = ToSet(sdp.a) \cup {Here}
      BY <2>2, <2>3, AppendToSet
    <2>5. /\ sdp' \in Messages /\ sdp'.a = Append(sdp.a, Here)
          /\ UNCHANGED <<sdp.v, sdp.o, sdp.s, sdp.u, sdp.i, sdp.c, sdp.b>>
          /\ sdp'.e = sdp.e /\ sdp'.p = sdp.p
      BY <2>1, <2>2, <2>4 DEF Messages
    <2>6. /\ ToSet(sdp'[type]) = ToSet(sdp[type]) \cup {Here}
          /\ type = "a" => sdp'.a = Append(sdp.a, Here)
          /\ type # "e" => sdp'.e = sdp.e
          /\ type # "p" => sdp'.p = sdp.p
          /\ type # "a" => sdp'.a = sdp.a
          /\ type \in {"e", "p"} \/ (type = "a" /\ ctx = "SESSION")
          /\ NextLine(type, text)
      BY <1>1, <1>2, <2>4, <2>5
    <2> HIDE DEF type
    <2> QED
      BY ONLY SdpInv, text \in LineTexts, <1>1, <2>1, <2>5, <2>6, ItemInv
  <1>3. CASE ctx # "SESSION"
    <2> DEFINE K == Len(medias)
               media == medias[K]
               new == [media EXCEPT !.a = Append(media.a, Here)]
               type == "a"
    <2>1. medias' = [medias EXCEPT ![K].a = Append(medias[K].a, Here)] /\ UNCHANGED sdp
      BY <1>3 DEF AddAttribute
    <2>2. medias \in Seq(Medias) /\ K \in 1 .. Len(medias) /\ ctx = "MEDIA"
      BY <1>3 DEF SdpInv, SdpTypeOK
    <2>3. /\ medias' = [medias EXCEPT ![K] = new] /\ K = Len(medias)
          /\ media = medias[K]
          /\ type \in {"a", "b", "c"} /\ NextLine(type, text)
          /\ \/ type = "a" /\ new = [media EXCEPT !.a = Append(media.a, Here)]
             \/ type = "b" /\ new = [media EXCEPT !.b = Append(media.b, Here)]
             \/ type = "c" /\ new = [media EXCEPT !.c = Append(media.c, Here)]
          /\ UNCHANGED <<ctx, sdp, controls, sdpPhase>> /\ text \in LineTexts
      BY <1>1, <2>1, <2>2
    <2> HIDE DEF K, media, new, type
    <2> QED
      BY ONLY SdpInv, <1>1, <2>2, <2>3, MediaAppendInv
  <1> QED
    BY <1>2, <1>3

(* m=: a section begins, whose only line is the m= itself.                 *)
LEMMA AddMediaInv ==
  ASSUME SdpInv, NEW text \in {"full", "empty"}, AddMedia(text)
  PROVE  SdpInv'
  <1> DEFINE type == "m"
  <1> SUFFICES ASSUME NEW K, K = Len(medias) + 1,
                      NEW new, new = [m |-> Here, i |-> NULLPTR, c |-> << >>,
                                      b |-> << >>, a |-> << >>]
               PROVE  SdpInv'
    OBVIOUS
  <1>1. /\ type \in LineTypes /\ type = "m" /\ text \in LineTexts
        /\ NextLine(type, text) /\ sdpPhase = "parsing" /\ sdpPhase' = "parsing"
        /\ medias' = Append(medias, new) /\ sdpHeap' = sdpHeap \cup {Here}
        /\ ctx' = "MEDIA" /\ UNCHANGED <<sdp, controls>>
    BY DEF AddMedia, LineTypes, LineTexts, NextLine
  <1>2. /\ SdpTypeOK /\ MessageOwns /\ MediasOwn /\ ControlsFirst /\ HeapExact
        /\ Here \in Nat \ {0} /\ medias \in Seq(Medias) /\ Len(medias) \in Nat
        /\ sdpHeap \in SUBSET Nat /\ sdp \in Messages
    BY <1>1 DEF SdpInv, SdpTypeOK, Here
  <1>3. new \in Medias /\ K = Len(medias) + 1
    BY <1>2 DEF Medias, NULLPTR
  <1>4. /\ new.m = Here /\ new.i = 0
        /\ new.a = << >> /\ new.b = << >> /\ new.c = << >>
    BY DEF NULLPTR
  <1> HIDE DEF type
  <1>5. /\ medias' \in Seq(Medias) /\ Len(medias') = K
        /\ medias'[K] = new
        /\ \A k \in 1 .. Len(medias) : medias'[k] = medias[k]
    BY <1>1, <1>2, <1>3, AppendProperties
  <1>6. SdpTypeOK'
    <2>1. sdpHeap' \in SUBSET Nat /\ sdp' \in Messages
      BY <1>1, <1>2
    <2> QED
      BY ONLY <1>1, <1>2, <1>3, <1>5, <2>1, TypesAfter
  <1>7. MessageOwns'
    BY <1>1, <1>2, MessageKept
  <1>8. MediaOwns(new, K)'
    <2>1. \A ty : LinesOf(ty, K)' = IF ty = type THEN LinesOf(ty, K) \cup {Here}
                                    ELSE LinesOf(ty, K)
      <3>1. K = IF type = "m" THEN Len(medias) + 1 ELSE Len(medias)
        BY <1>1, <1>3
      <3>2. \A ty, k : LinesOf(ty, k)' = IF ty = type /\ k = K
                                         THEN LinesOf(ty, k) \cup {Here}
                                         ELSE LinesOf(ty, k)
        BY ONLY <1>1, <1>2, <3>1, LinesAdded
      <3> QED
        BY <3>2
    <2>2. \A ty : LinesOf(ty, K) = {}
      <3>1. K \notin 0 .. Len(medias)
        BY <1>2, <1>3
      <3> QED
        BY <1>2, <3>1, LinesBefore
    <2>3. /\ LinesOf("m", K)' = {Here} /\ LinesOf("a", K)' = {}
          /\ LinesOf("b", K)' = {} /\ LinesOf("c", K)' = {} /\ LinesOf("i", K)' = {}
      BY <1>1, <2>1, <2>2
    <2>4. InOrder(<< >>, {})
      BY DEF InOrder, ToSet
    <2> QED
      BY <1>4, <2>3, <2>4 DEF MediaOwns, IsLast, InOrder, NULLPTR
  <1>9. MediasOwn'
    <2>1. ASSUME NEW k \in 1 .. K, NEW x, x = medias'[k]
          PROVE  MediaOwns(x, k)'
      <3>1. CASE k = K
        BY <1>5, <1>8, <2>1, <3>1
      <3>2. CASE k # K
        <4>1. k \in 1 .. Len(medias)
          BY <1>2, <1>3, <3>2
        <4>2. x = medias[k] /\ MediaOwns(x, k)
          BY <1>2, <1>5, <2>1, <4>1 DEF MediasOwn
        <4> QED
          BY <1>1, <1>2, <4>1, <4>2, MediaKept
      <3> QED
        BY <3>1, <3>2
    <2> QED
      BY <1>5, <2>1 DEF MediasOwn, MediaOwns, InOrder, IsLast
  <1>10. ControlsFirst'
    BY <1>1, <1>2, <1>6, ControlsKept
  <1>11. HeapExact'
    <2>1. OwnedByMedia(new) = {Here, 0}
      BY <1>4 DEF OwnedByMedia, ToSet
    <2>2. OwnedByMessage' = OwnedByMessage
      BY <1>1 DEF OwnedByMessage
    <2>3. ASSUME NEW n \in Nat \ {0}
          PROVE  n \in OwnedBySdp' <=> n \in OwnedBySdp \/ n = Here
      <3>1. n \in OwnedBySdp' <=>
                \/ n \in OwnedByMessage'
                \/ \E k \in 1 .. K : n \in OwnedByMedia(medias'[k])
        <4>1. DOMAIN medias' = 1 .. K
          BY <1>5
        <4> QED
          BY <4>1 DEF OwnedBySdp, OwnedByMedia
      <3>2. (\E k \in 1 .. K : n \in OwnedByMedia(medias'[k])) <=>
                \/ \E k \in 1 .. Len(medias) : n \in OwnedByMedia(medias[k])
                \/ n \in OwnedByMedia(new)
        BY <1>2, <1>3, <1>5
      <3> QED
        BY <1>2, <2>1, <2>2, <3>1, <3>2, Owners
    <2>4. Leaked' = Leaked
      BY <1>1, <1>2, LeakedKept
    <2>5. sdpHeap' = (sdpHeap \ {0}) \cup {Here}
      BY <1>1, <1>2 DEF HeapExact
    <2>6. \A n \in Nat \ {0} :
              n \in OwnedBySdp' \cup Leaked' <=>
                  (n \in OwnedBySdp \cup Leaked /\ n # 0) \/ n = Here
      BY <2>3, <2>4
    <2> QED
      BY ONLY <1>1, <1>2, <2>5, <2>6, HeapStep
  <1> QED
    BY <1>6, <1>7, <1>9, <1>10, <1>11 DEF SdpInv

(* A line that is skipped leaves no trace.                                 *)
LEMMA SkipLineInv ==
  ASSUME SdpInv, SkipLine
  PROVE  SdpInv'
  <1> DEFINE type == "t"
             text == "full"
  <1>1. /\ type \in LineTypes /\ type # "m" /\ text \in LineTexts
        /\ type \notin {"a", "b", "c", "i"}
        /\ NextLine(type, text) /\ sdpPhase = "parsing"
        /\ UNCHANGED <<sdpPhase, ctx, sdp, medias, sdpHeap, controls>>
    BY DEF SkipLine, LineTypes, LineTexts, NextLine
  <1> HIDE DEF type, text
  <1>2. /\ SdpTypeOK /\ MessageOwns /\ MediasOwn /\ ControlsFirst /\ HeapExact
        /\ medias \in Seq(Medias) /\ sdpHeap \in SUBSET Nat /\ sdp \in Messages
    BY <1>1 DEF SdpInv, SdpTypeOK
  <1>3. SdpTypeOK'
    <2>1. /\ sdpHeap' \in SUBSET Nat /\ sdp' \in Messages /\ medias' \in Seq(Medias)
          /\ controls' = controls /\ Len(medias') = Len(medias) /\ ctx' = ctx
      BY <1>1, <1>2
    <2> QED
      BY <1>1, <1>2, <2>1, TypesAfter
  <1>4. MessageOwns'
    BY <1>1, <1>2, MessageKept
  <1>5. MediasOwn'
    BY <1>1, <1>2, MediasKept
  <1>6. ControlsFirst'
    BY <1>1, <1>2, <1>3, ControlsKept
  <1>7. HeapExact'
    <2>1. Leaked' = Leaked
      BY <1>1, <1>2, LeakedKept
    <2>2. OwnedBySdp' = OwnedBySdp
      BY <1>1 DEF OwnedBySdp, OwnedByMessage, OwnedByMedia
    <2> QED
      BY <1>1, <1>2, <2>1, <2>2 DEF HeapExact
  <1> QED
    BY <1>3, <1>4, <1>5, <1>6, <1>7 DEF SdpInv

(* The steps after the last line read no line: what the description holds  *)
(* stays.                                                                  *)
LEMMA TreeKept ==
  ASSUME UNCHANGED <<ctx, sdp, medias, sdpLines>>
  PROVE  /\ MessageOwns' = MessageOwns /\ MediasOwn' = MediasOwn
         /\ OwnedBySdp' = OwnedBySdp /\ Leaked' = Leaked
         /\ \A n, k : IsControl(n, k)' = IsControl(n, k)
         /\ \A type, k : LinesOf(type, k)' = LinesOf(type, k)
  <1>1. \A n : Section(n)' = Section(n)
    BY DEF Section
  <1>2. \A type, k : LinesOf(type, k)' = LinesOf(type, k)
    BY <1>1 DEF LinesOf
  <1>3. Leaked' = Leaked
    BY <1>2 DEF Leaked
  <1>4. MessageOwns' = MessageOwns
    BY <1>2 DEF MessageOwns, InOrder, IsLast, IsLine
  <1>5. MediasOwn' = MediasOwn
    BY <1>2 DEF MediasOwn, MediaOwns, InOrder, IsLast
  <1>6. OwnedBySdp' = OwnedBySdp
    BY DEF OwnedBySdp, OwnedByMessage, OwnedByMedia
  <1>7. ASSUME NEW n, NEW k PROVE IsControl(n, k)' = IsControl(n, k)
    BY <1>2 DEF IsControl, Text
  <1> QED
    BY <1>2, <1>3, <1>4, <1>5, <1>6, <1>7

(* The types, after a step that reads no line.                             *)
LEMMA TypesKept ==
  ASSUME SdpTypeOK, UNCHANGED <<ctx, sdp, medias, sdpLines>>,
         sdpHeap' \in SUBSET Nat, controls' \in Seq(Nat)
  PROVE  SdpTypeOK'
  <1>1. Section(Len(sdpLines))' = Section(Len(sdpLines))
    BY DEF Section
  <1> QED
    BY <1>1 DEF SdpTypeOK

(* The '\0' changes nothing but the phase.                                 *)
LEMMA ParseStringDoneInv ==
  ASSUME SdpInv, ParseStringDone
  PROVE  SdpInv'
  <1>1. /\ sdpPhase = "parsing" /\ sdpPhase' = "parsed"
        /\ UNCHANGED <<ctx, sdp, medias, sdpHeap, sdpLines, controls>>
    BY DEF ParseStringDone
  <1>2. /\ SdpTypeOK /\ MessageOwns /\ MediasOwn /\ ControlsFirst /\ HeapExact
        /\ sdpHeap \in SUBSET Nat /\ controls \in Seq(Nat)
    BY <1>1 DEF SdpInv, SdpTypeOK
  <1>3. SdpTypeOK'
    BY <1>1, <1>2, TypesKept
  <1>4. MessageOwns' /\ MediasOwn'
    BY <1>1, <1>2, TreeKept
  <1>5. ControlsFirst'
    BY <1>1, <1>2, TreeKept DEF ControlsFirst
  <1>6. HeapExact'
    BY <1>1, <1>2, TreeKept DEF HeapExact
  <1> QED
    BY <1>3, <1>4, <1>5, <1>6 DEF SdpInv

(* What GetAttributeValue finds is the first control of the media.         *)
LEMMA ControlFound ==
  ASSUME SdpTypeOK, NEW media \in Medias, NEW k, InOrder(media.a, LinesOf("a", k)),
         NEW n, n = GetAttributeValue(media, "control"),
         n # NULLPTR, Text(n) # "empty"
  PROVE  n \in Nat /\ IsControl(n, k)
  <1> DEFINE s == media.a
             I == {i \in 1 .. Len(s) : Text(s[i]) \in {"control", "empty"}}
  <1>1. s \in Seq(Nat)
    BY DEF Medias
  <1>2. n = IF I # {} THEN IF Min(I) = 0 THEN NULLPTR ELSE s[Min(I)] ELSE NULLPTR
    BY DEF GetAttributeValue, SelectInSeq
  <1>3. I # {}
    BY <1>2
  <1>4. I \in SUBSET Nat
    BY <1>1
  <1>5. Min(I) \in I /\ \A j \in I : Min(I) <= j
    BY <1>3, <1>4, FirstExists
  <1>6. PICK i \in I : i = Min(I)
    BY <1>5
  <1>7. n = s[i] /\ i \in 1 .. Len(s) /\ \A j \in I : i <= j
    BY <1>2, <1>3, <1>5, <1>6
  <1>8. Text(n) = "control" /\ n \in Nat
    <2>1. Text(s[i]) \in {"control", "empty"}
      BY <1>6
    <2>2. s[i] \in Nat
      BY <1>1, <1>7
    <2> HIDE DEF s, I
    <2> QED
      BY <1>7, <2>1, <2>2
  <1>9. n \in LinesOf("a", k)
    BY <1>1, <1>7 DEF InOrder, ToSet
  <1>10. ASSUME NEW l \in LinesOf("a", k), Text(l) = "control" PROVE n <= l
    <2>1. PICK j \in 1 .. Len(s) : l = s[j]
      BY <1>1, <1>10 DEF InOrder, ToSet
    <2>2. j \in I /\ i <= j
      BY <1>7, <1>10, <2>1
    <2>3. i = j \/ s[i] < s[j]
      BY <1>1, <1>7, <2>1, <2>2 DEF InOrder
    <2>4. s[i] \in Nat /\ s[j] \in Nat
      BY <1>1, <1>7, <2>1
    <2> QED
      BY <1>7, <2>1, <2>3, <2>4
  <1> QED
    BY <1>8, <1>9, <1>10 DEF IsControl

(* A control that SendSETUP got is the first one of its media.             *)
LEMMA AskControlInv ==
  ASSUME SdpInv, AskControl
  PROVE  SdpInv'
  <1> DEFINE k == Len(controls) + 1
             n == GetAttributeValue(medias[k], "control")
  <1>1. /\ sdpPhase = "parsed" /\ Len(controls) < Len(medias)
        /\ UNCHANGED <<ctx, sdp, medias, sdpHeap, sdpLines>>
        /\ IF n = NULLPTR \/ Text(n) = "empty"
           THEN sdpPhase' = "crashed" /\ UNCHANGED controls
           ELSE controls' = Append(controls, n) /\ UNCHANGED sdpPhase
    BY DEF AskControl
  <1>2. /\ SdpTypeOK /\ MessageOwns /\ MediasOwn /\ ControlsFirst /\ HeapExact
        /\ sdpHeap \in SUBSET Nat /\ controls \in Seq(Nat) /\ medias \in Seq(Medias)
    BY <1>1 DEF SdpInv, SdpTypeOK
  <1>3. CASE n = NULLPTR \/ Text(n) = "empty"
    <2>1. SdpTypeOK' /\ sdpPhase' = "crashed"
      BY <1>1, <1>2, <1>3, TypesKept
    <2> QED
      BY <2>1 DEF SdpInv
  <1>4. CASE ~ (n = NULLPTR \/ Text(n) = "empty")
    <2>1. /\ controls' = Append(controls, n) /\ sdpPhase' = "parsed"
          /\ n # NULLPTR /\ Text(n) # "empty"
      BY <1>1, <1>4
    <2>2. k \in 1 .. Len(medias) /\ k = Len(controls) + 1
      BY <1>1, <1>2
    <2>3. n \in Nat /\ IsControl(n, k)
      <3> DEFINE media == medias[k]
      <3>1. media \in Medias /\ InOrder(media.a, LinesOf("a", k))
        BY <1>2, <2>2 DEF MediasOwn, MediaOwns
      <3>2. n = GetAttributeValue(media, "control")
        OBVIOUS
      <3> HIDE DEF media, k, n
      <3> QED
        BY <1>2, <2>1, <3>1, <3>2, ControlFound
    <2> HIDE DEF k, n
    <2>4. /\ controls' \in Seq(Nat) /\ Len(controls') = k
          /\ controls'[k] = n
          /\ \A j \in 1 .. Len(controls) : controls'[j] = controls[j]
      BY <1>2, <2>1, <2>2, <2>3, AppendProperties
    <2>5. SdpTypeOK'
      BY <1>1, <1>2, <2>4, TypesKept
    <2>6. MessageOwns' /\ MediasOwn'
      BY <1>1, <1>2, TreeKept
    <2>7. ControlsFirst'
      <3>1. ASSUME NEW j \in 1 .. k, NEW x, x = controls'[j] PROVE IsControl(x, j)'
        <4>1. IsControl(x, j)
          <5>1. CASE j = k
            BY <2>3, <2>4, <3>1, <5>1
          <5>2. CASE j # k
            <6>1. j \in 1 .. Len(controls)
              BY <1>2, <2>2, <5>2
            <6> QED
              BY <1>2, <2>4, <3>1, <6>1 DEF ControlsFirst
          <5> QED
            BY <5>1, <5>2
        <4> QED
          BY <1>1, <4>1, TreeKept
      <3>2. (\A j \in 1 .. Len(controls) : IsControl(controls[j], j))'
        BY <2>4, <3>1 DEF IsControl, Text
      <3>3. Len(controls') <= Len(medias') /\ sdpPhase' # "parsing"
        BY <1>1, <2>1, <2>2, <2>4
      <3> QED
        BY <3>2, <3>3 DEF ControlsFirst
    <2>8. HeapExact'
      BY <1>1, <1>2, <2>1, TreeKept DEF HeapExact
    <2> QED
      BY <2>5, <2>6, <2>7, <2>8 DEF SdpInv
  <1> QED
    BY <1>3, <1>4

(* The destructors leave what is leaked and nothing else.                  *)
LEMMA DeleteSdpInv ==
  ASSUME SdpInv, DeleteSdp
  PROVE  SdpInv'
  <1>1. /\ sdpPhase = "parsed" /\ sdpPhase' = "deleted"
        /\ sdpHeap' = sdpHeap \ OwnedBySdp
        /\ UNCHANGED <<ctx, sdp, medias, sdpLines, controls>>
    BY DEF DeleteSdp
  <1>2. /\ SdpTypeOK /\ MessageOwns /\ MediasOwn /\ ControlsFirst /\ HeapExact
        /\ sdpHeap \in SUBSET Nat /\ controls \in Seq(Nat)
    BY <1>1 DEF SdpInv, SdpTypeOK
  <1>3. SdpTypeOK'
    BY <1>1, <1>2, TypesKept
  <1>4. MessageOwns' /\ MediasOwn'
    BY <1>1, <1>2, TreeKept
  <1>5. ControlsFirst'
    BY <1>1, <1>2, TreeKept DEF ControlsFirst
  <1>6. HeapExact'
    <2>1. 0 \notin sdpHeap /\ \A n \in Nat \ {0} : n \in sdpHeap <=> n \in OwnedBySdp \cup Leaked
      BY <1>1, <1>2 DEF HeapExact
    <2>2. \A n \in Leaked : n \in Nat \ {0} /\ n \notin OwnedBySdp
      BY <1>2, LeakedNotOwned
    <2>3. sdpHeap' = Leaked
      BY <1>1, <1>2, <2>1, <2>2
    <2> QED
      BY <1>1, <2>3, TreeKept DEF HeapExact
  <1> QED
    BY <1>3, <1>4, <1>5, <1>6 DEF SdpInv
-------------------------------------------------------------------------------
(* The empty description.                                                  *)
LEMMA SdpInitInv ==
  ASSUME SdpInit
  PROVE  SdpInv
  <1>1. /\ sdpPhase = "parsing" /\ ctx = "SESSION" /\ medias = << >>
        /\ sdpHeap = {} /\ sdpLines = << >> /\ controls = << >>
        /\ sdp = [v |-> 0, o |-> 0, s |-> 0, i |-> 0, u |-> 0, c |-> 0,
                  e |-> << >>, p |-> << >>, b |-> << >>, a |-> << >>]
    BY DEF SdpInit, NULLPTR
  <1>2. /\ sdp \in Messages
        /\ sdp.v = 0 /\ sdp.o = 0 /\ sdp.s = 0 /\ sdp.i = 0 /\ sdp.u = 0 /\ sdp.c = 0
        /\ sdp.e = << >> /\ sdp.p = << >> /\ sdp.b = << >> /\ sdp.a = << >>
    BY <1>1 DEF Messages
  <1>3. /\ Len(sdpLines) = 0 /\ Len(medias) = 0 /\ Len(controls) = 0
        /\ DOMAIN sdpLines = {} /\ DOMAIN medias = {}
    BY <1>1
  <1>4. \A type, k : LinesOf(type, k) = {}
    BY <1>3 DEF LinesOf
  <1>5. ToSet(<< >>) = {} /\ InOrder(<< >>, {})
    BY DEF InOrder, ToSet
  <1>6. Section(0) = 0
    <2>1. {i \in 1 .. 0 : sdpLines[i].type = "m"} = {}
      OBVIOUS
    <2> QED
      BY <2>1, FS_EmptySet DEF Section
  <1>7. SdpTypeOK
    <2>1. /\ sdpLines \in Seq(Lines) /\ medias \in Seq(Medias) /\ controls \in Seq(Nat)
          /\ sdpHeap \in SUBSET Nat
      BY <1>1
    <2>2. (ctx = "SESSION") = (Len(medias) = 0)
      BY <1>1, <1>3
    <2> QED
      BY <1>1, <1>2, <1>3, <1>6, <2>1, <2>2 DEF SdpTypeOK
  <1>8. MessageOwns
    BY <1>2, <1>4, <1>5 DEF MessageOwns, IsLast, NULLPTR
  <1>9. MediasOwn /\ ControlsFirst
    BY <1>1, <1>3 DEF MediasOwn, ControlsFirst
  <1>10. HeapExact
    <2>1. Leaked = {}
      BY <1>4 DEF Leaked
    <2>2. OwnedByMessage = {0}
      BY <1>2, <1>5 DEF OwnedByMessage
    <2>3. OwnedBySdp = {0}
      BY <1>3, <2>2 DEF OwnedBySdp
    <2> QED
      BY <1>1, <2>1, <2>3 DEF HeapExact
  <1> QED
    BY <1>7, <1>8, <1>9, <1>10 DEF SdpInv

(* Every step of the parser, of SendSETUP and of the destructor.           *)
LEMMA SdpNextInv ==
  ASSUME SdpInv, [SdpNext]_sdpVars
  PROVE  SdpInv'
  <1>1. CASE ParseLine
    <2>1. ASSUME NEW type \in Strings, NEW text \in {"full", "empty"}, SetString(type, text)
          PROVE  SdpInv'
      BY <2>1, SetStringInv
    <2>2. ASSUME NEW text \in {"full", "empty"}, SetInfo(text)
          PROVE  SdpInv'
      BY <2>2, SetInfoInv
    <2>3. ASSUME NEW text \in {"full", "empty"}, AddConnection(text)
          PROVE  SdpInv'
      BY <2>3, AddConnectionInv
    <2>4. ASSUME NEW text \in {"full", "empty"}, AddBandwidth(text)
          PROVE  SdpInv'
      BY <2>4, AddBandwidthInv
    <2>5. ASSUME NEW text \in {"full", "empty"}, AddMedia(text)
          PROVE  SdpInv'
      BY <2>5, AddMediaInv
    <2>6. ASSUME NEW type \in {"e", "p"}, AddItemIntoVector(type, "full")
          PROVE  SdpInv'
      BY <2>6, AddItemInv
    <2>7. ASSUME NEW text \in {"control", "full", "empty"}, AddAttribute(text)
          PROVE  SdpInv'
      BY <2>7, AddAttributeInv DEF LineTexts
    <2>8. CASE SkipLine
      BY <2>8, SkipLineInv
    <2> QED
      BY <1>1, <2>1, <2>2, <2>3, <2>4, <2>5, <2>6, <2>7, <2>8 DEF ParseLine
  <1>2. CASE ParseStringDone
    BY <1>2, ParseStringDoneInv
  <1>3. CASE AskControl
    BY <1>3, AskControlInv
  <1>4. CASE DeleteSdp
    BY <1>4, DeleteSdpInv
  <1>5. CASE UNCHANGED sdpVars
    <2>1. UNCHANGED <<ctx, sdp, medias, sdpLines>> /\ UNCHANGED <<sdpPhase, sdpHeap, controls>>
      BY <1>5 DEF sdpVars
    <2>2. SdpTypeOK'
      BY <2>1, TypesKept DEF SdpInv, SdpTypeOK
    <2>3. sdpPhase # "crashed" => ControlsFirst' /\ HeapExact'
      BY <2>1, TreeKept DEF SdpInv, ControlsFirst, HeapExact
    <2> QED
      BY <2>1, <2>2, <2>3, TreeKept DEF SdpInv
  <1> QED
    BY <1>1, <1>2, <1>3, <1>4, <1>5 DEF SdpNext

(* SdpInv holds of every state of the parser, whatever the description.    *)
THEOREM SdpInvariance == SdpSpec => []SdpInv
  <1>1. SdpInit => SdpInv
    BY SdpInitInv
  <1>2. SdpInv /\ [SdpNext]_sdpVars => SdpInv'
    BY SdpNextInv
  <1> QED
    BY <1>1, <1>2, PTL DEF SdpSpec

(* However long the description, every line is with the section it stands  *)
(* in and the control of each track is the first one of its own media.     *)
THEOREM LinesAreKept == SdpSpec => []LinesBelong
  <1>1. SdpInv => LinesBelong
    <2>1. SUFFICES ASSUME SdpInv, sdpPhase # "crashed" PROVE LinesBelong
      BY DEF LinesBelong
    <2>2. /\ SdpTypeOK /\ MessageOwns /\ MediasOwn /\ ControlsFirst
      BY <2>1 DEF SdpInv
    <2>3. DOMAIN medias = 1 .. Len(medias) /\ DOMAIN controls = 1 .. Len(controls)
      BY <2>2 DEF SdpTypeOK
    <2>4. \A k \in DOMAIN medias :
              /\ LinesOf("m", k) = {medias[k].m}
              /\ InOrder(medias[k].a, LinesOf("a", k))
              /\ InOrder(medias[k].b, LinesOf("b", k))
              /\ InOrder(medias[k].c, LinesOf("c", k))
              /\ IsLast(medias[k].i, LinesOf("i", k))
      BY <2>2, <2>3 DEF MediasOwn, MediaOwns
    <2>5. \A k \in DOMAIN controls :
              LET own == {n \in LinesOf("a", k) : Text(n) = "control"}
              IN controls[k] \in own /\ \A n \in own : controls[k] <= n
      BY <2>2, <2>3 DEF ControlsFirst, IsControl
    <2> QED
      BY <2>2, <2>4, <2>5 DEF LinesBelong, MessageOwns
  <1> QED
    BY <1>1, SdpInvariance, PTL

(* However long the description, its destructor frees all but the known    *)
(* leaks and never what is not allocated.                                  *)
THEOREM DescriptionIsFreed == SdpSpec => []DeleteFreesAll
  <1>1. SdpInv => DeleteFreesAll
    <2>1. SUFFICES ASSUME SdpInv PROVE DeleteFreesAll
      OBVIOUS
    <2>2. sdpPhase = "deleted" => sdpHeap = Leaked
      BY <2>1 DEF SdpInv, HeapExact
    <2>3. ASSUME sdpPhase = "parsed" PROVE OwnedBySdp \ {NULLPTR} \subseteq sdpHeap
      <3>1. SdpTypeOK /\ MessageOwns /\ MediasOwn
        BY <2>1, <2>3 DEF SdpInv
      <3>2. \A n \in Nat \ {0} : n \in OwnedBySdp => n \in sdpHeap
        BY <2>1, <2>3 DEF SdpInv, HeapExact
      <3>3. ASSUME NEW n \in OwnedBySdp, n # 0 PROVE n \in Nat
        <4>1. n \in DOMAIN sdpLines
          <5>1. CASE n \in OwnedByMessage
            BY <3>1, <3>3, <5>1, MessageOwned DEF IsLine, NULLPTR
          <5>2. CASE \E k \in 1 .. Len(medias) : n \in OwnedByMedia(medias[k])
            BY <3>1, <3>3, <5>2, MediaOwned DEF MediasOwn, IsLine, NULLPTR
          <5> QED
            BY <3>1, <3>3, <5>1, <5>2, Owners
        <4> QED
          BY <3>1, <4>1 DEF SdpTypeOK
      <3> QED
        BY <3>2, <3>3 DEF NULLPTR
    <2> QED
      BY <2>2, <2>3 DEF DeleteFreesAll, Leaked
  <1> QED
    BY <1>1, SdpInvariance, PTL
===============================================================================
