------------------------------- MODULE PortsCtl -------------------------------
(***************************************************************************)
(* PortsCtl and MediaPorts (z3_rtsp_client/z3_media_ports.cpp): the local  *)
(* UDP ports of the media sessions.  MediaSession::Init takes an even port *)
(* for RTP and the next odd port for RTCP with GetPairPorts.               *)
(*                                                                         *)
(* GetTwo is built from GetOne and PutOne, which mark and unmark ports     *)
(* round robin; one step here is one iteration of GetOne's loop together   *)
(* with what GetTwo does to the port it returns.  All of it runs under     *)
(* m_Lock, so calls do not interleave, but a loop that never ends never    *)
(* gives the lock back.  Three details of the source:                      *)
(*   - Bitmap::Alloc allocates MaxPort - MinPort entries (one byte each),  *)
(*     so the entry of MaxPort lies behind the block and SetZero does not  *)
(*     clear it: its first value is arbitrary (stray);                     *)
(*   - nTotal is unsigned, so "--nTotal < 0" never ends GetOne's loop;     *)
(*   - SetReserved of a port that is marked already has no effect.         *)
(***************************************************************************)
EXTENDS Integers, FiniteSets

CONSTANTS MinPort, MaxPort

(* SetRange asserts 0 < nLow < nHigh; m_nNext is 16 bits wide and does not *)
(* wrap below 65535 (the default range is 20000 .. 30000).                 *)
ASSUME RangeAssumption ==
    /\ MinPort \in Nat /\ MaxPort \in Nat
    /\ 0 < MinPort /\ MinPort < MaxPort /\ MaxPort < 65535

Ports == MinPort .. MaxPort
Total == MaxPort - MinPort + 1

VARIABLES
    marked,    \* m_pBitmap: ports whose entry is set
    used,      \* m_nUsed
    reserved,  \* m_nReserved
    next,      \* m_nNext
    pc,        \* "idle", or the GetOne call under way
    low,       \* *pnLow, held by GetTwo while it looks for the other port
    stray,     \* what stood behind the bitmap when it was allocated
    singles,   \* history: ports granted by GetOnePort and not put back
    pairs,     \* history: low ports of the pairs granted and not put back
    excluded   \* history: ports that SetReserved has marked

callVars == <<next, pc, low>>
history == <<stray, singles, pairs, excluded>>
vars == <<marked, used, reserved, callVars, history>>

(* SetRange, called once by MediaPorts::GetInstance.                       *)
Init ==
    /\ stray \in SUBSET {MaxPort}
    /\ marked = stray
    /\ used = 0
    /\ reserved = 0
    /\ next = MinPort
    /\ pc = "idle"
    /\ low = 0
    /\ singles = {}
    /\ pairs = {}
    /\ excluded = {}

Odd(p) == p % 2 = 1

(* Fault: the wrap is tested before the increment.                         *)
FollowingLate(p) == IF p > MaxPort THEN MinPort ELSE p + 1

Following(p) == IF p + 1 > MaxPort THEN MinPort ELSE p + 1

OutOfPorts == used + reserved >= Total
-------------------------------------------------------------------------------
(* GetOne: an iteration that meets a marked port, and one that takes a     *)
(* free port.  OutOfPorts is tested on entry and does not change before    *)
(* the loop ends.                                                          *)
Skip ==
    /\ pc # "idle"
    /\ ~OutOfPorts
    /\ next \in marked
    /\ next' = Following(next)
    /\ UNCHANGED <<marked, used, reserved, pc, low, history>>

(* Fault: the bit is not tested.                                           *)
FoundAny(call) ==
    /\ pc = call
    /\ ~OutOfPorts
    /\ next' = Following(next)

Found(call) ==
    /\ pc = call
    /\ ~OutOfPorts
    /\ next \notin marked
    /\ next' = Following(next)

(* GetOnePort *)
GetOne ==
    /\ pc = "idle"
    /\ pc' = "single"
    /\ UNCHANGED <<marked, used, reserved, next, low, history>>

GotOne ==
    /\ Found("single")
    /\ marked' = marked \cup {next}
    /\ used' = used + 1
    /\ singles' = singles \cup {next}
    /\ pc' = "idle"
    /\ UNCHANGED <<reserved, low, stray, pairs, excluded>>

(* A GetOne that reports Z3_RTSP_EOUTOFPORTS ends the call; in GetTwo's    *)
(* second loop the low port is put back first.                             *)
Refuse ==
    /\ pc # "idle"
    /\ OutOfPorts
    /\ marked' = IF pc = "high" THEN marked \ {low} ELSE marked
    /\ used' = IF pc = "high" THEN used - 1 ELSE used
    /\ pc' = "idle"
    /\ UNCHANGED <<reserved, next, low, history>>

(* GetPairPorts: its test against MaxPort - MinPort is one port stricter   *)
(* than GetOne's.                                                          *)
GetTwo ==
    /\ pc = "idle"
    /\ used + reserved + 2 <= MaxPort - MinPort
    /\ pc' = "low"
    /\ UNCHANGED <<marked, used, reserved, next, low, history>>

(* First loop: an odd port is put back and the loop goes on.               *)
OddLow ==
    /\ Found("low")
    /\ Odd(next)
    /\ UNCHANGED <<marked, used, reserved, pc, low, history>>

(* Fault: the low port may be odd.                                         *)
AnyLow ==
    /\ Found("low")
    /\ marked' = marked \cup {next}
    /\ used' = used + 1
    /\ low' = next
    /\ pc' = "high"
    /\ UNCHANGED <<reserved, history>>

EvenLow ==
    /\ Found("low")
    /\ ~Odd(next)
    /\ marked' = marked \cup {next}
    /\ used' = used + 1
    /\ low' = next
    /\ pc' = "high"
    /\ UNCHANGED <<reserved, history>>

(* Second loop: the neighbour of low completes the pair; otherwise low is  *)
(* put back and an even port takes its place, an odd one is put back too.  *)
GotTwo ==
    /\ Found("high")
    /\ next = low + 1
    /\ marked' = marked \cup {next}
    /\ used' = used + 1
    /\ pairs' = pairs \cup {low}
    /\ pc' = "idle"
    /\ UNCHANGED <<reserved, low, stray, singles, excluded>>

EvenHigh ==
    /\ Found("high")
    /\ next # low + 1
    /\ ~Odd(next)
    /\ marked' = (marked \cup {next}) \ {low}
    /\ low' = next
    /\ UNCHANGED <<used, reserved, pc, history>>

(* Fault: the low port is not put back before the search starts over.      *)
OddHighLeaks ==
    /\ Found("high")
    /\ next # low + 1
    /\ Odd(next)
    /\ pc' = "low"
    /\ UNCHANGED <<marked, used, reserved, low, history>>

OddHigh ==
    /\ Found("high")
    /\ next # low + 1
    /\ Odd(next)
    /\ marked' = marked \ {low}
    /\ used' = used - 1
    /\ pc' = "low"
    /\ UNCHANGED <<reserved, low, history>>
-------------------------------------------------------------------------------
(* PutOnePort and PutPairPorts, for ports that were granted.               *)
PutOne(p) ==
    /\ pc = "idle"
    /\ p \in singles
    /\ marked' = marked \ {p}
    /\ used' = used - 1
    /\ singles' = singles \ {p}
    /\ UNCHANGED <<reserved, callVars, stray, pairs, excluded>>

(* Fault: only the low port of the pair is unmarked.                       *)
PutTwoLow(p) ==
    /\ pc = "idle"
    /\ p \in pairs
    /\ marked' = marked \ {p}
    /\ used' = used - 2
    /\ pairs' = pairs \ {p}
    /\ UNCHANGED <<reserved, callVars, stray, singles, excluded>>

PutTwo(p) ==
    /\ pc = "idle"
    /\ p \in pairs
    /\ marked' = marked \ {p, p + 1}
    /\ used' = used - 2
    /\ pairs' = pairs \ {p}
    /\ UNCHANGED <<reserved, callVars, stray, singles, excluded>>

(* Fault: a port that is marked already is counted again.                  *)
SetReservedTwice(p) ==
    /\ pc = "idle"
    /\ marked' = marked \cup {p}
    /\ reserved' = reserved + 1
    /\ excluded' = IF p \in marked THEN excluded ELSE excluded \cup {p}
    /\ UNCHANGED <<used, callVars, stray, singles, pairs>>

(* SetResevedPort; a port outside the range is ignored.                    *)
SetReserved(p) ==
    /\ pc = "idle"
    /\ marked' = marked \cup {p}
    /\ reserved' = IF p \in marked THEN reserved ELSE reserved + 1
    /\ excluded' = IF p \in marked THEN excluded ELSE excluded \cup {p}
    /\ UNCHANGED <<used, callVars, stray, singles, pairs>>
-------------------------------------------------------------------------------
Search ==
    Skip \/ GotOne \/ Refuse \/ OddLow \/ EvenLow \/ GotTwo \/ EvenHigh \/ OddHigh

Next ==
    \/ Search
    \/ GetOne
    \/ GetTwo
    \/ \E p \in Ports : PutOne(p) \/ PutTwo(p) \/ SetReserved(p)

Spec == Init /\ [][Next]_vars

(* A call that has begun goes on; nobody is obliged to call.               *)
FairSpec == Spec /\ WF_vars(Search)
-------------------------------------------------------------------------------
(* Ports handed out, and the port that GetTwo holds meanwhile.             *)
PairPorts == pairs \cup {p + 1 : p \in pairs}
InHand == IF pc = "high" THEN {low} ELSE {}
Held == singles \cup PairPorts \cup InHand

TypeOK ==
    /\ marked \subseteq Ports
    /\ used \in Nat
    /\ reserved \in Nat
    /\ next \in Ports
    /\ pc \in {"idle", "single", "low", "high"}
    /\ low \in Nat
    /\ stray \subseteq {MaxPort}
    /\ singles \subseteq Ports
    /\ pairs \subseteq Ports
    /\ excluded \subseteq Ports

(* A pair is an even RTP port and the odd port after it, both in the range.*)
PairsAligned == \A p \in pairs : ~Odd(p) /\ p + 1 \in Ports

(* No port has two holders: a single, a pair, the port GetTwo holds, an    *)
(* excluded port and the stray entry never share a port.                   *)
NoSharedPort ==
    /\ singles \cap PairPorts = {}
    /\ InHand \cap (singles \cup PairPorts) = {}
    /\ (excluded \cup stray) \cap Held = {}
    /\ excluded \cap stray = {}

(* Exactly the ports that are held, excluded or stray are marked, so the   *)
(* juggling of GetTwo leaks no port and Bitmap::Reset always finds the bit *)
(* set (its assertion "was reset twice").                                  *)
MarkedIsHeld == marked = Held \cup excluded \cup stray

(* m_nUsed and m_nReserved count what they are meant to count, so that     *)
(* OutOfPorts is tested against the truth.                                 *)
CountsExact ==
    /\ used = Cardinality(Held)
    /\ reserved = Cardinality(excluded)

(* The low port in hand is an even port of the range.                      *)
LowEven == pc = "high" => low \in Ports /\ ~Odd(low)

(* The inductive invariant: each of its parts needs the others.            *)
IInv ==
    /\ TypeOK
    /\ PairsAligned
    /\ LowEven
    /\ NoSharedPort
    /\ MarkedIsHeld
    /\ CountsExact

(* A call returns, with a port, a pair or Z3_RTSP_EOUTOFPORTS, and gives   *)
(* m_Lock back: GetOne and GetTwo never search for ever.                   *)
CallReturns == pc # "idle" ~> pc = "idle"

(* While only pairs are out and nothing is reserved, which is how          *)
(* MediaSession uses the ports, GetPairPorts returns; and GetOnePort       *)
(* returns unless the stray entry hides a port from the counters.          *)
OrdinaryCallReturns ==
    /\ pc = "low" /\ singles = {} /\ excluded = {} ~> pc = "idle"
    /\ pc = "single" /\ stray = {} ~> pc = "idle"
===============================================================================
