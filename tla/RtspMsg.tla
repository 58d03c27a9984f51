------------------------------- MODULE RtspMsg --------------------------------
(***************************************************************************)
(* RtspMsg and its array of header fields (z3_rtsp_client/z3_rtsp_msg.cpp) *)
(* under any order of the calls that the session and the parser make.  The *)
(* array starts with DEF_MAX_KEY_VALUE slots and is copied once to one of  *)
(* TOP_MAX_KEY_VALUE; a value longer than DEF_MAX_VALUE_LEN is on the heap *)
(* and every copy of it is one more heap block.                            *)
(***************************************************************************)
EXTENDS Integers, FiniteSets, SequencesExt

CONSTANTS Msgs,
          DEF_MAX_KEY_VALUE,
          TOP_MAX_KEY_VALUE,
          HeaderValues,  \* the values of each header field that can occur
          LongValues,    \* values longer than DEF_MAX_VALUE_LEN
          UptoColon,     \* a value cut at its ':' and chomped
          MaxHeaders     \* bound: AddHeader calls of the callers

Fields == DOMAIN HeaderValues

(* The values given to headers, the Date of ToString included.             *)
Values == {"now"} \cup (UNION {HeaderValues[f] : f \in Fields})

ASSUME MsgAssumption ==
    /\ DEF_MAX_KEY_VALUE \in Nat \ {0}
    /\ TOP_MAX_KEY_VALUE \in Nat /\ TOP_MAX_KEY_VALUE > DEF_MAX_KEY_VALUE
    /\ MaxHeaders \in Nat
    /\ {"CSEQ", "SESSION", "DATE", "CONTENT_LENGTH"} \subseteq Fields
    /\ LongValues \subseteq Values
    /\ UptoColon \in [Values -> Values]
    /\ {"NULL", "m_szInit"} \cap Values = {}

VARIABLES msgObj,    \* type of m_pMsgObj, or "NULL"
          hdrFields, \* m_pHdrFields; m_nSize = 0 if it is NULL
          bodySize,  \* m_nBodySize; 0 if m_pBody is NULL
          wanted,    \* history: the headers each message was given
          damaged,   \* history: messages that lost a header not the last
          added,     \* AddHeader calls so far
          msgFault   \* [at, of]: where the process stopped, on which message

msgVars == <<msgObj, hdrFields, bodySize, wanted, damaged, added, msgFault>>

Unfilled == [m_field |-> "INVALID", m_pValue |-> "NULL"]

NoFields == [m_nSize |-> 0, m_nKeyValueSum |-> 0, slots |-> << >>, blocks |-> 0]

NoFault == [at |-> "none", of |-> "none"]

MsgInit ==
    /\ msgObj = [m \in Msgs |-> "NULL"]
    /\ hdrFields = [m \in Msgs |-> NoFields]
    /\ bodySize = [m \in Msgs |-> 0]
    /\ wanted = [m \in Msgs |-> << >>]
    /\ damaged = {}
    /\ added = 0
    /\ msgFault = NoFault
-------------------------------------------------------------------------------
(* The array.  Its member blocks counts the heap blocks it has: itself and *)
(* its long values.                                                        *)
HeapOf(v) == IF v \in LongValues THEN 1 ELSE 0

LongIn(slots) == Cardinality({i \in DOMAIN slots :
                                  slots[i].m_pValue \in LongValues})

RtspKeyValueArray ==
    [m_nSize |-> DEF_MAX_KEY_VALUE, m_nKeyValueSum |-> 0, blocks |-> 1,
     slots |-> [i \in 1 .. DEF_MAX_KEY_VALUE |-> Unfilled]]

(* Fault: the copy stops one key-value early.                              *)
TakeAllButLast(a, nLargerSize) ==
    [a EXCEPT !.m_nSize = nLargerSize,
              !.slots = [i \in 1 .. nLargerSize |->
                             IF i < a.m_nKeyValueSum THEN a.slots[i]
                             ELSE Unfilled]]

(* Fault: the values of the old array are not freed with it.               *)
TakeKeepsOld(a, nLargerSize) ==
    [a EXCEPT !.m_nSize = nLargerSize,
              !.slots = [i \in 1 .. nLargerSize |->
                             IF i <= a.m_nKeyValueSum THEN a.slots[i]
                             ELSE Unfilled],
              !.blocks = @ + LongIn(a.slots)]

(* RtspKeyValue::operator= never leaves the pointer NULL, also when it     *)
(* copies a slot in use that RemoveHeader emptied.                         *)
CopyOf(keyValue) ==
    [keyValue EXCEPT !.m_pValue = IF @ = "NULL" THEN "m_szInit" ELSE @]

(* The slots in use are copied; ~RtspKeyValue runs for all of the old ones.*)
TakeKeyValuesToLarger(a, nLargerSize) ==
    LET copies == [i \in 1 .. nLargerSize |->
                       IF i <= a.m_nKeyValueSum THEN CopyOf(a.slots[i])
                       ELSE Unfilled]
    IN [a EXCEPT !.m_nSize = nLargerSize,
                 !.slots = copies,
                 !.blocks = (@ + 1 + LongIn(copies)) - (1 + LongIn(a.slots))]

(* FillKeyValue of the first unused slot.                                  *)
AddKeyValue(a, field, v) ==
    [a EXCEPT !.slots[a.m_nKeyValueSum + 1] = [m_field |-> field,
                                               m_pValue |-> v],
              !.m_nKeyValueSum = @ + 1,
              !.blocks = @ + HeapOf(v)]

UnsetKeyValue(a, i) ==
    [a EXCEPT !.slots[i] = Unfilled, !.blocks = @ - HeapOf(a.slots[i].m_pValue)]

(* The array AddHeader fills: it is made, or enlarged, if need be.         *)
Enlarged(a) ==
    LET b == IF a.m_nSize = 0 THEN RtspKeyValueArray ELSE a
    IN IF b.m_nSize = DEF_MAX_KEY_VALUE /\ b.m_nKeyValueSum = b.m_nSize
       THEN TakeKeyValuesToLarger(b, TOP_MAX_KEY_VALUE) ELSE b

(* Z3_ERROR from an array that cannot grow; FillKeyValue asserts that the  *)
(* slot is empty.                                                          *)
AddHeader(a, field, v) ==
    LET b == Enlarged(a)
    IN IF b.m_nKeyValueSum = b.m_nSize THEN [fields |-> b, result |-> "ERROR"]
       ELSE IF b.slots[b.m_nKeyValueSum + 1].m_pValue # "NULL"
       THEN [fields |-> b, result |-> "assert"]
       ELSE [fields |-> AddKeyValue(b, field, v), result |-> "EOK"]

InUse(a) == [i \in 1 .. a.m_nKeyValueSum |-> a.slots[i]]

FirstOf(s, field) == SelectInSeq(s, LAMBDA h : h.m_field = field)

IndexOf(a, field) == FirstOf(InUse(a), field)

(* The value of the first header of this field, or "NULL" (ENOTIMPL).      *)
GetHeader(a, field) ==
    LET i == IndexOf(a, field)
    IN IF i = 0 THEN "NULL" ELSE a.slots[i].m_pValue

(* With index -1.  Line 564 takes key-value i for the last one, so i is    *)
(* filled from itself, which is empty by then, and unset again; the last   *)
(* key-value stays filled beyond the new number.                           *)
RemoveHeader(a, field) ==
    LET i == IndexOf(a, field)
    IN IF i = 0 THEN a
       ELSE [UnsetKeyValue(a, i) EXCEPT !.m_nKeyValueSum = @ - 1]

Damages(a, field) == IndexOf(a, field) \notin {0, a.m_nKeyValueSum}

(* What RemoveHeader is meant to do to the headers in the order added.     *)
Without(s, field) ==
    LET i == FirstOf(s, field)
    IN IF i = 0 THEN s ELSE RemoveAt(s, i)
-------------------------------------------------------------------------------
Works == msgFault.at = "none"

Fails(m, at) == msgFault' = [at |-> at, of |-> m]

(* Unset, then the new object if Init of it succeeded.                     *)
Begins(m, obj, fields, headers) ==
    /\ msgObj' = [msgObj EXCEPT ![m] = obj]
    /\ hdrFields' = [hdrFields EXCEPT ![m] = fields]
    /\ wanted' = [wanted EXCEPT ![m] = headers]
    /\ damaged' = damaged \ {m}

Unset(m) ==
    /\ Works
    /\ Begins(m, "NULL", NoFields, << >>)
    /\ bodySize' = [bodySize EXCEPT ![m] = 0]
    /\ UNCHANGED <<added, msgFault>>

(* An empty URI is refused.                                                *)
InitRequest(m, emptyUri) ==
    /\ Works
    /\ IF emptyUri THEN Begins(m, "NULL", NoFields, << >>)
       ELSE Begins(m, "REQUEST", NoFields, << >>)
    /\ bodySize' = [bodySize EXCEPT ![m] = 0]
    /\ UNCHANGED <<added, msgFault>>

Header(field, v) == [m_field |-> field, m_pValue |-> v]

(* The response to a request takes over its CSeq and its Session; one that *)
(* the request does not have is not added.                                 *)
SessionOf(a) ==
    LET v == GetHeader(a, "SESSION") IN IF v = "NULL" THEN v ELSE UptoColon[v]

TakeOver(a, field, v) == IF v = "NULL" THEN a ELSE AddHeader(a, field, v).fields

Given(s, field, v) == IF v = "NULL" THEN s ELSE Append(s, Header(field, v))

(* A response without a request is the parser's; an empty reason (the rest *)
(* of the status line) is refused.                                         *)
InitResponse(m, emptyReason) ==
    /\ Works
    /\ IF emptyReason THEN Begins(m, "NULL", NoFields, << >>)
       ELSE Begins(m, "RESPONSE", NoFields, << >>)
    /\ bodySize' = [bodySize EXCEPT ![m] = 0]
    /\ UNCHANGED <<added, msgFault>>

InitResponseTo(m, request) ==
    /\ Works /\ request # m
    /\ LET cseq == GetHeader(hdrFields[request], "CSEQ")
           session == SessionOf(hdrFields[request])
       IN Begins(m, "RESPONSE",
                 TakeOver(TakeOver(NoFields, "CSEQ", cseq), "SESSION", session),
                 Given(Given(<< >>, "CSEQ", cseq), "SESSION", session))
    /\ bodySize' = [bodySize EXCEPT ![m] = 0]
    /\ UNCHANGED <<added, msgFault>>

(* The RtspData object is not assigned to m_pMsgObj.                       *)
InitData(m) ==
    /\ Works
    /\ Begins(m, "NULL", NoFields, << >>)
    /\ bodySize' = [bodySize EXCEPT ![m] = 1]
    /\ UNCHANGED <<added, msgFault>>

(* A caller adds a header to a message it began.                           *)
CallAddHeader(m, field, v) ==
    LET r == AddHeader(hdrFields[m], field, v)
    IN /\ Works /\ msgObj[m] # "NULL" /\ added < MaxHeaders
       /\ added' = added + 1
       /\ hdrFields' = [hdrFields EXCEPT ![m] = r.fields]
       /\ wanted' = IF r.result # "EOK" THEN wanted
                    ELSE [wanted EXCEPT ![m] = Append(@, Header(field, v))]
       /\ IF r.result = "assert" THEN Fails(m, "fill") ELSE UNCHANGED msgFault
       /\ UNCHANGED <<msgObj, bodySize, damaged>>

(* The parser at the empty line of a response with a Content-Length.       *)
SetBodySize(m) ==
    /\ Works
    /\ msgObj[m] = "RESPONSE" /\ bodySize[m] = 0
    /\ GetHeader(hdrFields[m], "CONTENT_LENGTH") # "NULL"
    /\ bodySize' = [bodySize EXCEPT ![m] = 1]
    /\ UNCHANGED <<msgObj, hdrFields, wanted, damaged, added, msgFault>>

(* The header fields as ToString changes them: a Date of now, and no       *)
(* Content-Length.                                                         *)
Dated(m) ==
    IF msgObj[m] = "RESPONSE"
    THEN AddHeader(RemoveHeader(hdrFields[m], "DATE"), "DATE", "now")
    ELSE [fields |-> hdrFields[m], result |-> "none"]

DatedWanted(m) ==
    IF Dated(m).result = "EOK"
    THEN Append(Without(wanted[m], "DATE"), Header("DATE", "now"))
    ELSE wanted[m]

DamagedBy(m) ==
    \/ msgObj[m] = "RESPONSE" /\ Damages(hdrFields[m], "DATE")
    \/ Damages(Dated(m).fields, "CONTENT_LENGTH")

MsgToString(m) ==
    /\ Works
    /\ IF msgObj[m] = "NULL"
       THEN Fails(m, "object") /\ UNCHANGED <<hdrFields, wanted, damaged>>
       ELSE /\ hdrFields' = [hdrFields EXCEPT ![m] =
                                 RemoveHeader(Dated(m).fields, "CONTENT_LENGTH")]
            /\ wanted' = [wanted EXCEPT ![m] =
                              Without(DatedWanted(m), "CONTENT_LENGTH")]
            /\ damaged' = IF DamagedBy(m) THEN damaged \cup {m} ELSE damaged
            /\ IF Dated(m).result = "assert" THEN Fails(m, "fill")
               ELSE IF bodySize[m] > 0 THEN Fails(m, "body")
               ELSE IF hdrFields'[m].m_nSize = 0 THEN Fails(m, "headers")
               ELSE UNCHANGED msgFault
    /\ UNCHANGED <<msgObj, bodySize, added>>

MsgNext ==
    \E m \in Msgs :
        \/ Unset(m) \/ InitData(m) \/ SetBodySize(m) \/ MsgToString(m)
        \/ \E empty \in BOOLEAN : InitRequest(m, empty) \/ InitResponse(m, empty)
        \/ \E request \in Msgs : InitResponseTo(m, request)
        \/ \E field \in Fields : \E v \in HeaderValues[field] :
               CallAddHeader(m, field, v)

MsgSpec == MsgInit /\ [][MsgNext]_msgVars
-------------------------------------------------------------------------------
(* Across the growth of the array, refused headers and the rewriting of    *)
(* ToString, a message has the headers it was given, in their order, as    *)
(* long as every header that ToString removed was the last one; and no     *)
(* call finds a used slot where the next header goes unless one was not.   *)
HeadersKept ==
    /\ \A m \in Msgs \ damaged : InUse(hdrFields[m]) = wanted[m]
    /\ msgFault.at = "fill" => msgFault.of \in damaged

(* Every long value in an array is one heap block of that array, and there *)
(* are no others: growing and removing neither leak a value nor share one, *)
(* also in an array that RemoveHeader damaged.                             *)
ValuesOwned ==
    \A m \in Msgs :
        hdrFields[m].blocks = LongIn(hdrFields[m].slots)
                              + (IF hdrFields[m].m_nSize = 0 THEN 0 ELSE 1)
===============================================================================
