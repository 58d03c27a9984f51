-------------------------- MODULE RtspSessionProofs --------------------------
(***************************************************************************)
(* Proofs about RtspSession, for any number of tracks and of responses     *)
(* sent twice: the order of the requests, the assertions at the head of    *)
(* OnDescribeRespond, the types of the state and of what travels, and that *)
(* every request waits for the answers to the earlier ones.                *)
(***************************************************************************)
EXTENDS RtspSession, SequenceTheorems, TLAPS

USE SessionAssumption

(* What the CASE of MethodAt says, for the indices the proofs use.         *)
LEMMA MethodAtFacts ==
    ASSUME NEW i \in Nat \ {0}, NEW k \in Nat
    PROVE  /\ MethodAt(1, k) = "OPTIONS"
           /\ MethodAt(2, k) = "DESCRIBE"
           /\ i > 2 /\ i <= k + 2 => MethodAt(i, k) = "SETUP"
           /\ MethodAt(k + 3, k) = "PLAY"
           /\ MethodAt(i, k) = "OPTIONS" => i = 1
           /\ MethodAt(i, k) = "DESCRIBE" => i = 2
           /\ MethodAt(i, k) = "SETUP" => i > 2 /\ i <= k + 2
  BY DEF MethodAt

(* A step that writes no request and starts no read keeps the invariant:   *)
(* parsing, the server and the refusals of the session.                    *)
LEMMA QuietStep ==
    ASSUME IInv, pc # "connect" => pc' # "connect",
           UNCHANGED <<method, cseq, tracks, track, ready, sent>>,
           Live' => Live, pc' = "connect" => pc = "connect" /\ UNCHANGED reading
    PROVE  IInv'
  BY DEF IInv, Counters, Fresh, LastRequest, RequestsInOrder, Live, MethodAt

(* A request that is the next in order keeps the order; if a read follows, *)
(* the session's record of it is the truth.                                *)
LEMMA RequestStep ==
    ASSUME Counters, RequestsInOrder, NEW m \in Methods, tracks' \in Nat,
           NEW n \in Nat, Request(m, n), n = Len(sent),
           m = MethodAt(Len(sent) + 1, tracks'),
           \A i \in 1 .. Len(sent) : MethodAt(i, tracks') = MethodAt(i, tracks)
    PROVE  /\ RequestsInOrder'
           /\ cseq' \in Nat
           /\ sent' \in Seq(Requests)
           /\ reading' => /\ Len(sent') = Len(sent) + 1
                          /\ cseq' = Len(sent)
                          /\ method' = m
                          /\ sent'[Len(sent')].method = m
  <1>1. PICK written \in BOOLEAN, started \in BOOLEAN :
            /\ sent' = IF written THEN Append(sent, [method |-> m, cseq |-> n])
                       ELSE sent
            /\ method' = IF written THEN m ELSE method
            /\ cseq' = n
            /\ reading' = (written /\ started)
    BY DEF Request
  <1>2. [method |-> m, cseq |-> n] \in Requests
    BY DEF Requests
  <1>3. CASE written
    <2>1. /\ sent' = Append(sent, [method |-> m, cseq |-> n])
          /\ sent' \in Seq(Requests)
          /\ Len(sent') = Len(sent) + 1
          /\ \A i \in 1 .. Len(sent) : sent'[i] = sent[i]
          /\ sent'[Len(sent) + 1] = [method |-> m, cseq |-> n]
      BY <1>1, <1>2, <1>3 DEF Counters
    <2>2. ASSUME NEW i \in 1 .. Len(sent')
          PROVE  sent'[i].cseq = i - 1 /\ sent'[i].method = MethodAt(i, tracks')
      <3>1. CASE i \in 1 .. Len(sent)
        BY <2>1, <3>1 DEF RequestsInOrder
      <3>2. CASE i = Len(sent) + 1
        BY <2>1, <3>2 DEF Counters
      <3>. QED  BY <2>1, <3>1, <3>2 DEF Counters
    <2>. QED  BY <1>1, <1>3, <2>1, <2>2 DEF RequestsInOrder, MethodAt
  <1>4. CASE ~written
    BY <1>1, <1>4 DEF Counters, RequestsInOrder, MethodAt
  <1>. QED  BY <1>3, <1>4

(* In state Live the last request determines how many there were.          *)
LEMMA LastSent ==
    ASSUME IInv, Live
    PROVE  /\ Len(sent) \in Nat \ {0}
           /\ cseq + 1 = Len(sent)
           /\ method = MethodAt(Len(sent), tracks)
  BY DEF IInv, Counters, LastRequest, RequestsInOrder

(* A handler that gives up leaves no read behind, so nothing is promised   *)
(* about the session's record any more.                                    *)
LEMMA GivenUp ==
    ASSUME IInv, NEW why, GiveUp(why), pc' = "idle",
           UNCHANGED tracks, track' \in Nat
    PROVE  IInv'
  BY DEF IInv, Counters, Fresh, LastRequest, RequestsInOrder, Live, GiveUp, MethodAt

(* OnConnect sends the first request.                                      *)
LEMMA OnConnectIInv == ASSUME IInv, OnConnect PROVE IInv'
  <1>1. /\ pc = "connect" /\ pc' = "idle"
        /\ UNCHANGED <<tracks, track, ready>>
    BY DEF OnConnect
  <1>2. Len(sent) = 0 /\ tracks = 0 /\ ~ready /\ Counters /\ RequestsInOrder
    BY <1>1 DEF IInv, Fresh
  <1>3. CASE Request("OPTIONS", 0)
    <2>1. MethodAt(1, tracks') = "OPTIONS" /\ "OPTIONS" \in Methods
      BY <1>1, <1>2, MethodAtFacts DEF Methods
    <2>2. /\ RequestsInOrder'
          /\ cseq' \in Nat
          /\ sent' \in Seq(Requests)
          /\ reading' => /\ Len(sent') = Len(sent) + 1
                         /\ cseq' = Len(sent)
                         /\ method' = "OPTIONS"
                         /\ sent'[Len(sent')].method = "OPTIONS"
      BY <1>1, <1>2, <1>3, <2>1, RequestStep
    <2>3. Counters' /\ Fresh'
      BY <1>1, <1>2, <2>2 DEF Counters, Fresh
    <2>4. LastRequest'
      <3>1. SUFFICES ASSUME Live' PROVE LastRequest'
        BY DEF LastRequest
      <3>2. reading'
        BY <1>1, <3>1 DEF Live
      <3>3. Len(sent') = 1 /\ cseq' = 0 /\ method' = "OPTIONS"
            /\ sent'[Len(sent')].method = "OPTIONS"
        BY <1>2, <2>2, <3>2
      <3>4. tracks' = 0 /\ ~ready'
        BY <1>1, <1>2
      <3>. QED  BY <3>3, <3>4 DEF LastRequest
    <2>. QED  BY <2>2, <2>3, <2>4 DEF IInv
  <1>4. CASE GiveUp("closed")
    BY <1>1, <1>4, GivenUp DEF IInv, Counters
  <1>. QED  BY <1>3, <1>4 DEF OnConnect

(* The next request of a handler, with what it leaves of the tracks.       *)
LEMMA SendStep ==
    ASSUME IInv, Live, pc' = "idle", NEW m \in Methods \ {"OPTIONS"}, Send(m),
           tracks' \in Nat, track' \in Nat,
           m = MethodAt(Len(sent) + 1, tracks'),
           \A i \in 1 .. Len(sent) : MethodAt(i, tracks') = MethodAt(i, tracks),
           m = "DESCRIBE" => UNCHANGED <<tracks, ready>>,
           m = "SETUP" => track' = Len(sent) - 1
    PROVE  IInv'
  <1>1. Len(sent) \in Nat \ {0} /\ cseq + 1 = Len(sent) /\ Counters
            /\ RequestsInOrder /\ LastRequest
    BY LastSent DEF IInv
  <1>2. CASE Request(m, cseq + 1)
    <2>1. /\ RequestsInOrder'
          /\ cseq' \in Nat
          /\ sent' \in Seq(Requests)
          /\ reading' => /\ Len(sent') = Len(sent) + 1
                         /\ cseq' = Len(sent)
                         /\ method' = m
                         /\ sent'[Len(sent')].method = m
      BY <1>1, <1>2, RequestStep
    <2>2. m = "DESCRIBE" => tracks' = 0 /\ ~ready'
      <3>1. SUFFICES ASSUME m = "DESCRIBE" PROVE tracks = 0 /\ ~ready
        OBVIOUS
      <3>2. Len(sent) + 1 = 2
        <4>1. PICK i \in Nat \ {0} : i = Len(sent) + 1
          BY <1>1
        <4>2. MethodAt(i, tracks') = "DESCRIBE"
          BY <3>1, <4>1
        <4>3. i = 2
          BY <4>2, MethodAtFacts
        <4>. QED  BY <4>1, <4>3
      <3>3. method = "OPTIONS"
        BY <1>1, <3>2, LastSent, MethodAtFacts DEF Counters
      <3>. QED  BY <1>1, <3>3 DEF LastRequest
    <2>. QED  BY <1>1, <2>1, <2>2 DEF IInv, Counters, Fresh, LastRequest, Live
  <1>3. CASE GiveUp("local")
    <2>1. ~reading' /\ UNCHANGED <<sent, method, cseq>>
      BY <1>3 DEF GiveUp
    <2>2. RequestsInOrder'
      BY <1>1, <2>1 DEF RequestsInOrder, MethodAt
    <2>. QED  BY <1>1, <2>1, <2>2 DEF IInv, Counters, Fresh, LastRequest, Live
  <1>. QED  BY <1>2, <1>3 DEF Send

(* The response to OPTIONS leads to DESCRIBE.                              *)
LEMMA OnOptionsRespondIInv == ASSUME IInv, OnOptionsRespond PROVE IInv'
  <1>1. /\ pc = "dispatch" /\ pc' = "idle" /\ method = "OPTIONS"
        /\ UNCHANGED <<tracks, track, ready>> /\ Live
        /\ track \in Nat /\ tracks \in Nat
    BY DEF OnOptionsRespond, Dispatch, Live, IInv, Counters
  <1>2. CASE Send("DESCRIBE")
    <2>1. Len(sent) = 1
      BY <1>1, LastSent, MethodAtFacts
    <2>2. "DESCRIBE" = MethodAt(Len(sent) + 1, tracks')
      BY <1>1, <2>1, MethodAtFacts
    <2>. QED  BY <1>1, <1>2, <2>2, SendStep DEF Methods
  <1>3. CASE GiveUp("refused")
    BY <1>1, <1>3, GivenUp
  <1>. QED  BY <1>2, <1>3 DEF OnOptionsRespond

(* The response to DESCRIBE fixes the number of tracks before any SETUP.   *)
LEMMA OnDescribeRespondIInv == ASSUME IInv, OnDescribeRespond PROVE IInv'
  <1>1. /\ pc = "dispatch" /\ pc' = "idle" /\ method = "DESCRIBE"
        /\ UNCHANGED ready /\ Live /\ track \in Nat /\ tracks \in Nat
    BY DEF OnDescribeRespond, Dispatch, Live, IInv, Counters
  <1>2. ASSUME NEW k \in 1 .. MaxTracks, tracks' = k, SendSETUP(0)
        PROVE  IInv'
    <2>1. Len(sent) = 2
      BY <1>1, LastSent, MethodAtFacts
    <2>2. track' = 1 /\ Send("SETUP") /\ k \in Nat \ {0}
      BY <1>2 DEF SendSETUP
    <2>3. "SETUP" = MethodAt(Len(sent) + 1, tracks')
      BY <1>2, <2>1, <2>2, MethodAtFacts
    <2>4. \A i \in 1 .. Len(sent) : MethodAt(i, tracks') = MethodAt(i, tracks)
      BY <1>1, <1>2, <2>1, <2>2, MethodAtFacts
    <2>. QED  BY <1>1, <1>2, <2>1, <2>2, <2>3, <2>4, SendStep DEF Methods
  <1>3. ASSUME NEW why, GiveUp(why), UNCHANGED <<tracks, track>> PROVE IInv'
    BY <1>1, <1>3, GivenUp
  <1>. QED  BY <1>2, <1>3 DEF OnDescribeRespond

(* The response to SETUP leads to the next SETUP, or to PLAY.              *)
LEMMA OnSetupRespondIInv == ASSUME IInv, OnSetupRespond PROVE IInv'
  <1>1. /\ pc = "dispatch" /\ pc' = "idle" /\ method = "SETUP"
        /\ UNCHANGED tracks /\ Live /\ track \in Nat /\ tracks \in Nat
    BY DEF OnSetupRespond, Dispatch, Live, IInv, Counters
  <1>2. Len(sent) > 2 /\ Len(sent) <= tracks + 2 /\ Len(sent) \in Nat
    BY <1>1, LastSent, MethodAtFacts
  <1>3. track = Len(sent) - 2
    BY <1>1 DEF IInv, LastRequest
  <1>4. CASE track >= tracks /\ Send("PLAY") /\ UNCHANGED track
    <2>1. Len(sent) + 1 = tracks + 3
      BY <1>1, <1>2, <1>3, <1>4
    <2>2. "PLAY" = MethodAt(Len(sent) + 1, tracks')
      BY <1>1, <2>1, MethodAtFacts
    <2>. QED  BY <1>1, <1>4, <2>2, SendStep DEF Methods
  <1>5. CASE ~(track >= tracks) /\ SendSETUP(track)
    <2>1. track' = Len(sent) - 1 /\ track' \in Nat /\ Send("SETUP")
      BY <1>1, <1>2, <1>3, <1>5 DEF SendSETUP
    <2>2. Len(sent) + 1 > 2 /\ Len(sent) + 1 <= tracks + 2
      BY <1>1, <1>2, <1>3, <1>5
    <2>3. "SETUP" = MethodAt(Len(sent) + 1, tracks')
      BY <1>1, <1>2, <2>2, MethodAtFacts
    <2>. QED  BY <1>1, <2>1, <2>3, SendStep DEF Methods
  <1>6. CASE GiveUp("refused") /\ UNCHANGED track
    BY <1>1, <1>6, GivenUp
  <1>. QED  BY <1>4, <1>5, <1>6 DEF OnSetupRespond

(* Every step of the specification keeps the invariant.                    *)
LEMMA StepIInv == ASSUME IInv, [Next]_vars PROVE IInv'
  <1>1. CASE Parse
    <2>1. /\ UNCHANGED <<method, cseq, tracks, track, ready, sent, reading>>
          /\ pc = "parse" /\ pc' \in {"parse", "idle", "dispatch"}
      BY <1>1 DEF Parse, ParseStart, ParseInterrupted, ParseStale, ParseEmptyLine,
                  ParseLine, ParseBroken, ParseBody, ParseOver, InState, Unchanged,
                  sessionVars
    <2>. QED  BY <2>1, QuietStep DEF Live
  <1>2. CASE Receive \/ ReadFails
    <2>1. /\ UNCHANGED <<method, cseq, tracks, track, ready, sent>>
          /\ reading /\ pc = "idle" /\ pc' \in {"parse", "idle"}
      BY <1>2 DEF Receive, OnEvRead, ReadFails, sessionVars
    <2>. QED  BY <2>1, QuietStep DEF Live
  <1>3. CASE Answer \/ AnswerTwice
    <2>1. UNCHANGED <<method, cseq, tracks, track, ready, sent, reading, pc>>
      BY <1>3 DEF Answer, AnswerTwice, sessionVars
    <2>. QED  BY <2>1, QuietStep DEF Live
  <1>4. CASE OnPlayRespond \/ DispatchUnexpected
    <2>1. /\ UNCHANGED <<method, cseq, tracks, track, ready, sent>>
          /\ pc = "dispatch" /\ pc' = "idle"
      BY <1>4 DEF OnPlayRespond, DispatchUnexpected, Dispatch, GiveUp, sessionVars
    <2>. QED  BY <2>1, QuietStep DEF Live
  <1>5. CASE UNCHANGED vars
    <2>1. UNCHANGED <<method, cseq, tracks, track, ready, sent, reading, pc>>
      BY <1>5 DEF vars, sessionVars
    <2>. QED  BY <2>1, QuietStep DEF Live
  <1>. QED  BY <1>1, <1>2, <1>3, <1>4, <1>5, OnConnectIInv, OnOptionsRespondIInv,
               OnDescribeRespondIInv, OnSetupRespondIInv
            DEF Next, Executor, InvokeStateMachine

(* Initially nothing has been sent.                                        *)
LEMMA InitIInv == Init => IInv
  BY DEF Init, IInv, Counters, Fresh, LastRequest, RequestsInOrder, Live, Requests

(* IInv is inductive, hence holds in every reachable state.                *)
THEOREM Invariance == Spec => []IInv
  BY InitIInv, StepIInv, PTL DEF Spec

(* Whatever the server answers and however TCP cuts it, the session sends  *)
(* OPTIONS, DESCRIBE, one SETUP per track and PLAY, numbered in order.     *)
THEOREM RequestsAreInOrder == Spec => []RequestsInOrder
  <1>1. IInv => RequestsInOrder
    BY DEF IInv
  <1>. QED  BY <1>1, Invariance, PTL

(* The assertions of OnDescribeRespond hold whenever it is called.         *)
THEOREM DescribeAssertionsHold == Spec => []DescribeFindsNoMedia
  <1>1. IInv => DescribeFindsNoMedia
    BY DEF IInv, LastRequest, Live, DescribeFindsNoMedia
  <1>. QED  BY <1>1, Invariance, PTL
-------------------------------------------------------------------------------
(* The types of what travels: the value of a session line is one of the    *)
(* two ids, or old text.                                                   *)
Kinds == {"status", "cseq", "public", "base", "length", "session", "blank",
          "body", "junk"}

Lines ==
    {l \in [kind : Kinds, value : Int] :
        l.kind = "session" => l.value \in {1, 2, Bad}}

PiecesOver(S) == [line : S, part : {"text", "cr", "lf", "body", "rest"}]

Received == msg \subseteq Lines /\ buf \in Seq(PiecesOver(Lines))

OnTheWire == wire \in Seq(PiecesOver(Lines))

(* TypeOK is inductive with the types of the lines, and with the server    *)
(* answering only what was sent.                                           *)
TInv == TypeOK /\ Received /\ OnTheWire /\ answered <= Len(sent)

(* The lines of which only a CSeq line with value v is one.                *)
Naming(v) == {l \in Lines : l.kind = "cseq" => l.value = v}
-------------------------------------------------------------------------------
(* The pieces of a response carry its lines and no others.                 *)
LEMMA PiecesCarryLines ==
  ASSUME NEW S, NEW r \in Seq(S)
  PROVE  Pieces(r) \in Seq(PiecesOver(S))
  <1> DEFINE B == PiecesOver(S)
             p(i) == IF i > Len(r) THEN << >> ELSE PiecesOf(r[i])
  <1>1. ASSUME NEW line \in S, NEW part \in {"text", "cr", "lf", "body", "rest"}
        PROVE  Piece(line, part) \in B
    BY DEF Piece, PiecesOver
  <1>2. ASSUME NEW line \in S PROVE PiecesOf(line) \in Seq(B)
    <2>1. /\ Piece(line, "text") \in B /\ Piece(line, "cr") \in B
          /\ Piece(line, "lf") \in B /\ Piece(line, "body") \in B
          /\ Piece(line, "rest") \in B
      BY <1>1
    <2> HIDE DEF B
    <2>2. CASE line.kind = "blank"
      <3>1. PiecesOf(line) = <<Piece(line, "cr"), Piece(line, "lf")>>
        BY <2>2 DEF PiecesOf
      <3> QED
        BY <2>1, <3>1
    <2>3. CASE line.kind = "body"
      <3>1. PiecesOf(line) = <<Piece(line, "body"), Piece(line, "rest")>>
        BY <2>3 DEF PiecesOf
      <3> QED
        BY <2>1, <3>1
    <2>4. CASE line.kind # "blank" /\ line.kind # "body"
      <3>1. PiecesOf(line) = <<Piece(line, "text"), Piece(line, "cr"), Piece(line, "lf")>>
        BY <2>4 DEF PiecesOf
      <3> QED
        BY <2>1, <3>1
    <2> QED
      BY <2>2, <2>3, <2>4
  <1>3. ASSUME NEW i \in 1 .. 6 PROVE p(i) \in Seq(B)
    <2>1. CASE i > Len(r)
      BY <2>1
    <2>2. CASE ~(i > Len(r))
      <3>1. r[i] \in S
        BY <2>2
      <3> QED
        BY <1>2, <2>2, <3>1
    <2> QED
      BY <2>1, <2>2
  <1>4. Pieces(r) = p(1) \o p(2) \o p(3) \o p(4) \o p(5) \o p(6)
    BY DEF Pieces
  <1>5. /\ p(1) \in Seq(B) /\ p(2) \in Seq(B) /\ p(3) \in Seq(B)
        /\ p(4) \in Seq(B) /\ p(5) \in Seq(B) /\ p(6) \in Seq(B)
    BY <1>3
  <1> HIDE DEF B, p
  <1> QED
    BY <1>4, <1>5 DEF B

(* The lines the server uses.                                              *)
LEMMA LineTypes ==
  ASSUME NEW v \in Int
  PROVE  /\ \A code \in Int : Status(code) \in Naming(v)
         /\ Line("cseq", v) \in Naming(v)
         /\ \A k \in Int : Line("body", k) \in Naming(v)
         /\ Line("public", Describe) \in Naming(v) /\ Blank \in Naming(v)
         /\ Line("base", 0) \in Naming(v) /\ Line("length", 0) \in Naming(v)
         /\ Line("session", 1) \in Naming(v) /\ Line("session", 2) \in Naming(v)
         /\ Line("junk", 0) \in Naming(v)
  BY DEF Naming, Lines, Kinds, Status, Blank, Line, Describe

(* A proper response names the CSeq of its request, in its second line.    *)
LEMMA ProperNames ==
  ASSUME NEW q \in Requests, NEW k \in Nat, NEW p, p = Proper(q, k)
  PROVE  /\ p \in Seq(Naming(q.cseq)) /\ Len(p) >= 3
         /\ q.method = "DESCRIBE" => Len(p) = 6
         /\ q.method = "SETUP" => Len(p) = 4
         /\ \A i \in 1 .. Len(p) : i # 2 => p[i].kind # "cseq"
  <1> DEFINE v == q.cseq
  <1>1. v \in Int /\ k \in Int /\ q.method \in Methods
    BY DEF Requests
  <1>2. /\ Status(200) \in Naming(v) /\ Line("cseq", v) \in Naming(v)
        /\ Line("public", Describe) \in Naming(v) /\ Blank \in Naming(v)
        /\ Line("base", 0) \in Naming(v) /\ Line("length", 0) \in Naming(v)
        /\ Line("body", k) \in Naming(v) /\ Line("session", 1) \in Naming(v)
    BY <1>1, LineTypes
  <1>3. /\ Status(200).kind # "cseq" /\ Line("public", Describe).kind # "cseq"
        /\ Blank.kind # "cseq" /\ Line("base", 0).kind # "cseq"
        /\ Line("length", 0).kind # "cseq" /\ Line("body", k).kind # "cseq"
        /\ Line("session", 1).kind # "cseq"
    BY DEF Status, Blank, Line
  <1>4. PICK t : /\ p = <<Status(200), Line("cseq", v)>> \o t
                 /\ t \in Seq(Naming(v)) /\ Len(t) >= 1
                 /\ q.method = "DESCRIBE" => Len(t) = 4
                 /\ q.method = "SETUP" => Len(t) = 2
                 /\ \A i \in 1 .. Len(t) : t[i].kind # "cseq"
    <2>1. CASE q.method = "OPTIONS"
      <3> DEFINE t == <<Line("public", Describe), Blank>>
      <3>1. p = <<Status(200), Line("cseq", v)>> \o t
        BY <2>1 DEF Proper
      <3>2. /\ t \in Seq(Naming(v)) /\ Len(t) = 2
            /\ \A i \in 1 .. Len(t) : t[i].kind # "cseq"
        BY <1>2, <1>3
      <3>3. Len(t) >= 1
        BY <3>2
      <3> HIDE DEF t
      <3> QED
        BY ONLY <2>1, <3>1, <3>2, <3>3
    <2>2. CASE q.method = "DESCRIBE"
      <3> DEFINE t == <<Line("base", 0), Line("length", 0), Blank, Line("body", k)>>
      <3>1. p = <<Status(200), Line("cseq", v)>> \o t
        BY <2>2 DEF Proper
      <3>2. /\ t \in Seq(Naming(v)) /\ Len(t) = 4
            /\ \A i \in 1 .. Len(t) : t[i].kind # "cseq"
        BY <1>2, <1>3
      <3>3. Len(t) >= 1
        BY <3>2
      <3> HIDE DEF t
      <3> QED
        BY ONLY <2>2, <3>1, <3>2, <3>3
    <2>3. CASE q.method = "SETUP"
      <3> DEFINE t == <<Line("session", 1), Blank>>
      <3>1. p = <<Status(200), Line("cseq", v)>> \o t
        BY <2>3 DEF Proper
      <3>2. /\ t \in Seq(Naming(v)) /\ Len(t) = 2
            /\ \A i \in 1 .. Len(t) : t[i].kind # "cseq"
        BY <1>2, <1>3
      <3>3. Len(t) >= 1
        BY <3>2
      <3> HIDE DEF t
      <3> QED
        BY ONLY <2>3, <3>1, <3>2, <3>3
    <2>4. CASE q.method = "PLAY"
      <3> DEFINE t == <<Blank>>
      <3>1. p = <<Status(200), Line("cseq", v)>> \o t
        BY <2>4 DEF Proper
      <3>2. /\ t \in Seq(Naming(v)) /\ Len(t) = 1
            /\ \A i \in 1 .. Len(t) : t[i].kind # "cseq"
        BY <1>2, <1>3
      <3>3. Len(t) >= 1
        BY <3>2
      <3> HIDE DEF t
      <3> QED
        BY ONLY <2>4, <3>1, <3>2, <3>3
    <2> QED
      BY <1>1, <2>1, <2>2, <2>3, <2>4 DEF Methods
  <1> DEFINE h == <<Status(200), Line("cseq", v)>>
  <1>5. h \in Seq(Naming(v)) /\ Len(h) = 2 /\ h[1].kind # "cseq"
    BY <1>2, <1>3
  <1>6. p = h \o t
    BY <1>4
  <1> HIDE DEF h, v
  <1>7. PICK n \in Nat : n = Len(t)
    BY <1>4
  <1>8. n >= 1 /\ (q.method = "DESCRIBE" => n = 4) /\ (q.method = "SETUP" => n = 2)
    BY <1>4, <1>7
  <1>9. /\ p \in Seq(Naming(v)) /\ Len(p) = n + 2
        /\ \A i \in 1 .. n + 2 : p[i] = IF i <= 2 THEN h[i] ELSE t[i - 2]
    BY <1>4, <1>5, <1>6, <1>7, ConcatProperties
  <1>10. ASSUME NEW i \in 1 .. n + 2, i # 2 PROVE p[i].kind # "cseq"
    <2>1. CASE i = 1
      BY <1>5, <1>9, <2>1
    <2>2. CASE i > 2
      <3>1. p[i] = t[i - 2] /\ i - 2 \in 1 .. n
        BY <1>9, <2>2
      <3> QED
        BY <1>4, <1>7, <3>1
    <2> QED
      BY <1>10, <2>1, <2>2
  <1>11. PICK N \in Nat : N = Len(p) /\ N = n + 2
    BY <1>9
  <1>12. N >= 3 /\ (q.method = "DESCRIBE" => N = 6) /\ (q.method = "SETUP" => N = 4)
    BY <1>8, <1>11
  <1> QED
    BY ONLY <1>9, <1>10, <1>11, <1>12 DEF v

(* An improper one names that CSeq or, throughout, the next one.           *)
LEMMA ImproperNames ==
  ASSUME NEW q \in Requests, NEW r \in Improper(q)
  PROVE  r \in Seq(Naming(q.cseq)) \/ r \in Seq(Naming(q.cseq + 1))
  <1> DEFINE v == q.cseq
             p == Proper(q, 1)
  <1>1. v \in Int /\ v + 1 \in Int
    BY DEF Requests
  <1>2. p \in Seq(Naming(v)) /\ \A i \in 1 .. Len(p) : i # 2 => p[i].kind # "cseq"
    BY ProperNames
  <1>0. /\ Len(p) >= 3
        /\ q.method = "SETUP" => Len(p) = 4
        /\ q.method = "DESCRIBE" => Len(p) = 6
    BY ProperNames
  <1>3. /\ Status(454) \in Naming(v) /\ Line("junk", 0) \in Naming(v)
        /\ Line("session", 2) \in Naming(v)
        /\ Line("cseq", v + 1) \in Naming(v + 1)
    BY <1>1, LineTypes
  <1>4. Proper(q, 0) \in Seq(Naming(v))
    BY ProperNames
  <1>5. \/ r = [p EXCEPT ![1] = Status(454)]
        \/ r = [p EXCEPT ![2] = Line("cseq", v + 1)]
        \/ r = [p EXCEPT ![2] = Line("junk", 0)]
        \/ r = Proper(q, 0)
        \/ q.method = "DESCRIBE" /\ r = Drop(p, 3)
        \/ \E i \in 2 .. Len(p) - 1 : r = Drop(p, i)
        \/ q.method = "SETUP" /\ r = [p EXCEPT ![3] = Line("session", 2)]
    BY DEF Improper
  <1> HIDE DEF p, v
  <1>6. ASSUME NEW i \in 2 .. Len(p) - 1 PROVE Drop(p, i) \in Seq(Naming(v))
    <2>1. SubSeq(p, 1, i - 1) \in Seq(Naming(v)) /\ SubSeq(p, i + 1, Len(p)) \in Seq(Naming(v))
      BY <1>0, <1>2, SubSeqProperties
    <2> QED
      BY <2>1 DEF Drop
  <1>7. CASE r = [p EXCEPT ![2] = Line("cseq", v + 1)]
    <2>1. Len(r) = Len(p) /\ r[2] = Line("cseq", v + 1)
          /\ \A i \in 1 .. Len(p) : i # 2 => r[i] = p[i]
      BY <1>0, <1>2, <1>7
    <2>2. ASSUME NEW i \in 1 .. Len(p) PROVE r[i] \in Naming(v + 1)
      <3>1. CASE i = 2
        BY <1>3, <2>1, <3>1
      <3>2. CASE i # 2
        <4>1. p[i] \in Naming(v) /\ p[i].kind # "cseq" /\ r[i] = p[i]
          BY <1>2, <2>1, <3>2
        <4> QED
          BY <4>1 DEF Naming
      <3> QED
        BY <3>1, <3>2
    <2>3. r \in Seq(Naming(v) \cup Naming(v + 1))
      <3>1. p \in Seq(Naming(v) \cup Naming(v + 1)) /\ 2 \in 1 .. Len(p)
        BY <1>0, <1>2
      <3> QED
        BY <1>3, <1>7, <3>1
    <2>4. \A i \in 1 .. Len(r) : r[i] \in Naming(v + 1)
      BY <2>1, <2>2
    <2>5. r \in Seq(Naming(v + 1))
      BY <2>3, <2>4
    <2> QED
      BY <2>5 DEF v
  <1>8. CASE r = [p EXCEPT ![1] = Status(454)] \/ r = [p EXCEPT ![2] = Line("junk", 0)]
    <2>1. r \in Seq(Naming(v))
      BY <1>0, <1>2, <1>3, <1>8
    <2> QED
      BY <2>1 DEF v
  <1>9. CASE q.method = "SETUP" /\ r = [p EXCEPT ![3] = Line("session", 2)]
    <2>1. r \in Seq(Naming(v))
      BY <1>0, <1>2, <1>3, <1>9
    <2> QED
      BY <2>1 DEF v
  <1>10. CASE q.method = "DESCRIBE" /\ r = Drop(p, 3)
    <2>1. 3 \in 2 .. Len(p) - 1
      BY <1>0, <1>10
    <2> QED
      BY <1>6, <1>10, <2>1 DEF v
  <1> QED
    BY <1>4, <1>5, <1>6, <1>7, <1>8, <1>9, <1>10 DEF v
-------------------------------------------------------------------------------
(* What is sent is made of lines.                                          *)
LEMMA RespondTypes ==
  ASSUME OnTheWire, NEW v, NEW r \in Seq(Naming(v)), Respond(r)
  PROVE  OnTheWire'
  <1>1. r \in Seq(Lines)
    BY DEF Naming
  <1>2. Pieces(r) \in Seq(PiecesOver(Lines))
    BY <1>1, PiecesCarryLines
  <1> QED
    BY <1>2 DEF Respond, OnTheWire

(* The requests are those of the type, so the server's answers are lines.  *)
LEMMA AnswerTypes ==
  ASSUME IInv, TInv, Answer \/ AnswerTwice
  PROVE  TInv'
  <1>1. /\ UNCHANGED <<method, cseq, tracks, track, ready, sid, sent, reading, pc>>
        /\ UNCHANGED <<pstate, buf, msg, done, res, stale>>
    BY DEF Answer, AnswerTwice, sessionVars, parserVars
  <1>2. sent \in Seq(Requests) /\ answered \in Nat /\ OnTheWire /\ TypeOK
    BY DEF TInv, TypeOK
  <1>3. CASE Answer
    <2> DEFINE q == sent[answered + 1]
    <2>1. q \in Requests
      BY <1>2, <1>3 DEF Answer
    <2>2. \/ \E k \in 1 .. MaxTracks : Respond(Proper(q, k))
          \/ \E r \in Improper(q) : Respond(r)
      BY <1>3 DEF Answer
    <2>3. /\ cause' \subseteq {"closed", "local", "refused", "extra", "split"}
          /\ answered' = answered + 1 /\ UNCHANGED extra /\ answered' <= Len(sent)
      <3>1. cause' \in {cause, cause \cup {"refused"}} /\ answered' = answered + 1
            /\ UNCHANGED extra /\ answered < Len(sent)
        BY <1>3 DEF Answer
      <3>2. cause \subseteq {"closed", "local", "refused", "extra", "split"}
        BY <1>2 DEF TypeOK
      <3>3. Len(sent) \in Nat
        BY <1>2
      <3>4. answered' <= Len(sent)
        BY <1>2, <3>1, <3>3
      <3> QED
        BY <3>1, <3>2, <3>4
    <2> HIDE DEF q
    <2>4. OnTheWire'
      <3>1. ASSUME NEW k \in 1 .. MaxTracks, Respond(Proper(q, k)) PROVE OnTheWire'
        <4>1. k \in Nat
          OBVIOUS
        <4>2. Proper(q, k) \in Seq(Naming(q.cseq))
          BY <2>1, <4>1, ProperNames
        <4> QED
          BY <1>2, <3>1, <4>2, RespondTypes
      <3>2. ASSUME NEW r \in Improper(q), Respond(r) PROVE OnTheWire'
        BY <1>2, <2>1, <3>2, ImproperNames, RespondTypes
      <3> QED
        BY <2>2, <3>1, <3>2
    <2>5. TypeOK'
      BY <1>1, <1>2, <2>3 DEF TypeOK
    <2> QED
      BY <1>1, <2>3, <2>4, <2>5 DEF TInv, Received
  <1>4. CASE AnswerTwice
    <2>1. PICK i \in 1 .. answered : Respond(Proper(sent[i], 1))
      BY <1>4 DEF AnswerTwice
    <2>2. /\ cause' \subseteq {"closed", "local", "refused", "extra", "split"}
          /\ extra' \in 0 .. MaxExtra /\ UNCHANGED answered
      BY <1>2, <1>4 DEF AnswerTwice, TypeOK
    <2>3. TypeOK'
      BY <1>1, <1>2, <2>2 DEF TypeOK
    <2>4. i \in 1 .. Len(sent)
      BY <1>2, <2>1 DEF TInv
    <2>5. sent[i] \in Requests
      BY <1>2, <2>4
    <2>6. Proper(sent[i], 1) \in Seq(Naming(sent[i].cseq))
      BY <2>5, ProperNames
    <2>7. OnTheWire'
      BY <1>2, <2>1, <2>6, RespondTypes
    <2> QED
      BY <1>1, <2>2, <2>3, <2>7 DEF TInv, Received
  <1> QED
    BY <1>3, <1>4

(* The parser takes its lines from what was received, old text aside.      *)
LEMMA ParseTypes ==
  ASSUME TInv, Parse
  PROVE  TInv'
  <1>1. /\ UNCHANGED <<method, cseq, tracks, track, ready, sid, sent, reading>>
        /\ UNCHANGED <<answered, extra, wire, cause>>
    BY DEF Parse, ParseStart, ParseInterrupted, ParseStale, ParseEmptyLine,
           ParseLine, ParseBroken, ParseBody, ParseOver, Unchanged, sessionVars,
           serverVars
  <1>2. /\ pc' \in {"connect", "idle", "parse", "dispatch"}
        /\ pstate' \in {"START", "LINES", "BODY", "END"}
        /\ done' \in BOOLEAN /\ res' \in {"ERROR", "EINTR", "EOK"}
        /\ stale' \in BOOLEAN
    BY DEF Parse, ParseStart, ParseInterrupted, ParseStale, ParseEmptyLine,
           ParseLine, ParseBroken, ParseBody, ParseOver, Unchanged, TInv, TypeOK,
           AfterEmptyLine
  <1>3. msg \subseteq Lines /\ buf \in Seq(PiecesOver(Lines))
    BY DEF TInv, Received
  <1>4. \/ UNCHANGED <<msg, buf>>
        \/ /\ buf # << >>
           /\ buf' \in {<< >>, SubSeq(buf, 3, Len(buf)), SubSeq(buf, 4, Len(buf))}
           /\ msg' \in {msg, msg \cup {buf[1].line},
                        msg \cup {Line(buf[1].line.kind, Bad)}}
    BY DEF Parse, ParseStart, ParseInterrupted, ParseStale, ParseEmptyLine,
           ParseLine, ParseBroken, ParseBody, ParseOver, InState
  <1>5. Received'
    <2>1. CASE UNCHANGED <<msg, buf>>
      BY <1>3, <2>1 DEF Received
    <2>2. CASE buf # << >> /\ ~ UNCHANGED <<msg, buf>>
      <3>1. 1 \in 1 .. Len(buf)
        BY <1>3, <2>2
      <3>2. buf[1] \in PiecesOver(Lines)
        BY <1>3, <3>1
      <3>3. buf[1].line \in Lines
        BY <3>2 DEF PiecesOver
      <3>4. Line(buf[1].line.kind, Bad) \in Lines
        BY <3>3 DEF Line, Lines, Bad
      <3>5. /\ << >> \in Seq(PiecesOver(Lines))
            /\ SubSeq(buf, 3, Len(buf)) \in Seq(PiecesOver(Lines))
            /\ SubSeq(buf, 4, Len(buf)) \in Seq(PiecesOver(Lines))
        BY <1>3, SubSeqProperties
      <3> QED
        BY <1>3, <1>4, <2>2, <3>3, <3>4, <3>5 DEF Received
    <2> QED
      BY <1>4, <2>1, <2>2
  <1>6. TypeOK'
    BY <1>1, <1>2 DEF TInv, TypeOK
  <1> QED
    BY <1>1, <1>5, <1>6 DEF TInv, OnTheWire

(* A read takes its bytes from the wire.                                   *)
LEMMA ReceiveTypes ==
  ASSUME TInv, Receive \/ ReadFails
  PROVE  TInv'
  <1>1. /\ UNCHANGED <<method, cseq, tracks, track, ready, sid, sent, answered, extra, stale>>
    BY DEF Receive, OnEvRead, ReadFails, sessionVars, serverVars, parserVars
  <1>2. /\ reading' = FALSE /\ pc' \in {"idle", "parse"}
        /\ pstate' \in {"START", "LINES", "BODY", "END"}
        /\ done' \in BOOLEAN /\ res' \in {"ERROR", "EINTR", "EOK"}
        /\ cause' \subseteq {"closed", "local", "refused", "extra", "split"}
    BY DEF Receive, OnEvRead, ReadFails, TInv, TypeOK, parserVars
  <1>3. TypeOK'
    BY <1>1, <1>2 DEF TInv, TypeOK
  <1>4. msg \subseteq Lines /\ buf \in Seq(PiecesOver(Lines)) /\ wire \in Seq(PiecesOver(Lines))
    BY DEF TInv, Received, OnTheWire
  <1>5. CASE ReadFails
    <2>1. UNCHANGED <<msg, buf, wire>>
      BY <1>5 DEF ReadFails, parserVars
    <2> QED
      BY <1>1, <1>3, <2>1 DEF TInv, Received, OnTheWire
  <1>6. CASE Receive
    <2>1. PICK n \in 1 .. Len(wire) : OnEvRead(n)
      BY <1>6 DEF Receive
    <2>2. /\ SubSeq(wire, 1, n) \in Seq(PiecesOver(Lines))
          /\ SubSeq(wire, n + 1, Len(wire)) \in Seq(PiecesOver(Lines))
      BY <1>4, SubSeqProperties
    <2>3. /\ wire' = SubSeq(wire, n + 1, Len(wire))
          /\ buf' = (IF done THEN << >> ELSE buf) \o SubSeq(wire, 1, n)
          /\ msg' = IF done THEN {} ELSE msg
      BY <2>1 DEF OnEvRead
    <2>4. (IF done THEN << >> ELSE buf) \in Seq(PiecesOver(Lines))
      BY <1>4
    <2>5. buf' \in Seq(PiecesOver(Lines))
      BY <2>2, <2>3, <2>4, ConcatProperties
    <2>6. msg' \subseteq Lines
      BY <1>4, <2>3
    <2> QED
      BY <1>1, <1>3, <2>2, <2>3, <2>5, <2>6 DEF TInv, Received, OnTheWire
  <1> QED
    BY <1>5, <1>6

(* A handler writes one request or none.                                   *)
LEMMA SendTypes ==
  ASSUME TInv, NEW m \in Methods, NEW n \in Nat,
         Request(m, n) \/ GiveUp("local") \/ GiveUp("closed") \/ GiveUp("refused")
  PROVE  /\ reading' \in BOOLEAN /\ method' \in Methods \cup {"INVALID"}
         /\ cause' \subseteq {"closed", "local", "refused", "extra", "split"}
         /\ sent' \in Seq(Requests) /\ Len(sent') >= Len(sent) /\ cseq' \in Nat
  <1>1. /\ sent \in Seq(Requests) /\ method \in Methods \cup {"INVALID"} /\ cseq \in Nat
        /\ cause \subseteq {"closed", "local", "refused", "extra", "split"}
    BY DEF TInv, TypeOK
  <1>2. CASE Request(m, n)
    <2>1. PICK written \in BOOLEAN, started \in BOOLEAN :
              /\ sent' = IF written THEN Append(sent, [method |-> m, cseq |-> n])
                         ELSE sent
              /\ method' = IF written THEN m ELSE method
              /\ cseq' = n
              /\ reading' = (written /\ started)
              /\ cause' = IF reading' THEN cause ELSE cause \cup {"local"}
      BY <1>2 DEF Request
    <2>2. [method |-> m, cseq |-> n] \in Requests
      BY DEF Requests
    <2>3. /\ Append(sent, [method |-> m, cseq |-> n]) \in Seq(Requests)
          /\ Len(Append(sent, [method |-> m, cseq |-> n])) = Len(sent) + 1
          /\ Len(sent) \in Nat
      BY <1>1, <2>2, AppendProperties
    <2>4. sent' \in Seq(Requests) /\ Len(sent') >= Len(sent)
      BY <1>1, <2>1, <2>3
    <2> QED
      BY <1>1, <2>1, <2>4
  <1>3. CASE GiveUp("local") \/ GiveUp("closed") \/ GiveUp("refused")
    <2>1. UNCHANGED <<sent, method, cseq>> /\ reading' = FALSE
          /\ cause' \in {cause \cup {"local"}, cause \cup {"closed"}, cause \cup {"refused"}}
      BY <1>3 DEF GiveUp
    <2>2. Len(sent') >= Len(sent)
      BY <1>1, <2>1
    <2> QED
      BY <1>1, <2>1, <2>2
  <1> QED
    BY <1>2, <1>3

(* What the handlers have in common.                                       *)
LEMMA HandlerTypes ==
  ASSUME TInv, OnConnect \/ InvokeStateMachine, tracks' \in 0 .. MaxTracks, track' \in Nat,
         ready' \in BOOLEAN, sid' \in {NoId, 1, 2, Bad},
         sent' \in Seq(Requests), Len(sent') >= Len(sent), cseq' \in Nat,
         reading' \in BOOLEAN, method' \in Methods \cup {"INVALID"},
         cause' \subseteq {"closed", "local", "refused", "extra", "split"}
  PROVE  TInv'
  <1>1. pc' = "idle" /\ UNCHANGED <<pstate, buf, msg, done, res, stale, answered, extra, wire>>
    BY DEF OnConnect, InvokeStateMachine, OnOptionsRespond, OnDescribeRespond,
           OnSetupRespond, OnPlayRespond, DispatchUnexpected, Dispatch,
           parserVars, serverVars
  <1>2. TypeOK'
    BY <1>1 DEF TInv, TypeOK
  <1>3. answered' <= Len(sent')
    <2>1. answered <= Len(sent) /\ answered \in Nat /\ Len(sent) \in Nat /\ Len(sent') \in Nat
      BY DEF TInv, TypeOK
    <2> QED
      BY <1>1, <2>1
  <1> QED
    BY <1>1, <1>2, <1>3 DEF TInv, Received, OnTheWire

(* The id of a session line is one of the two, or old text.                *)
LEMMA SessionIdTypes ==
  ASSUME TInv, NEW s \in SessionIds
  PROVE  s \in {1, 2, Bad}
  BY DEF SessionIds, TInv, Received, Lines

(* Every step keeps the types.                                             *)
LEMMA StepTInv ==
  ASSUME IInv, TInv, [Next]_vars
  PROVE  TInv'
  <1>1. /\ cseq \in Nat /\ cseq + 1 \in Nat /\ track \in Nat /\ tracks \in 0 .. MaxTracks
        /\ ready \in BOOLEAN /\ sid \in {NoId, 1, 2, Bad}
        /\ "OPTIONS" \in Methods /\ "DESCRIBE" \in Methods /\ "SETUP" \in Methods
        /\ "PLAY" \in Methods
    BY DEF TInv, TypeOK, Methods
  <1>2. CASE OnConnect
    <2>1. /\ Request("OPTIONS", 0) \/ GiveUp("closed")
          /\ UNCHANGED <<tracks, track, ready, sid>>
      BY <1>2 DEF OnConnect
    <2> QED
      BY <1>1, <1>2, <2>1, SendTypes, HandlerTypes
  <1>3. CASE DispatchUnexpected
    <2>1. GiveUp("refused") /\ UNCHANGED <<tracks, track, ready, sid>>
      BY <1>3 DEF DispatchUnexpected
    <2> QED
      BY <1>1, <1>3, <2>1, SendTypes, HandlerTypes DEF InvokeStateMachine
  <1>4. CASE OnOptionsRespond
    <2>1. /\ Request("DESCRIBE", cseq + 1) \/ GiveUp("local") \/ GiveUp("refused")
          /\ UNCHANGED <<tracks, track, ready, sid>>
      BY <1>4 DEF OnOptionsRespond, Send
    <2> QED
      BY <1>1, <1>4, <2>1, SendTypes, HandlerTypes DEF InvokeStateMachine
  <1>5. CASE OnDescribeRespond
    <2>1. /\ Request("SETUP", cseq + 1) \/ GiveUp("local") \/ GiveUp("refused")
          /\ tracks' \in {tracks} \cup (1 .. MaxTracks) /\ track' \in {track, 1}
          /\ UNCHANGED <<ready, sid>>
      BY <1>5 DEF OnDescribeRespond, SendSETUP, Send
    <2>2. tracks' \in 0 .. MaxTracks /\ track' \in Nat
      BY <1>1, <2>1
    <2> QED
      BY <1>1, <1>5, <2>1, <2>2, SendTypes, HandlerTypes DEF InvokeStateMachine
  <1>6. CASE OnSetupRespond
    <2>1. /\ \/ Request("SETUP", cseq + 1) \/ Request("PLAY", cseq + 1)
             \/ GiveUp("local") \/ GiveUp("refused")
          /\ track' \in {track, track + 1} /\ ready' \in {ready, TRUE}
          /\ sid' \in {sid} \cup SessionIds /\ UNCHANGED tracks
      BY <1>6 DEF OnSetupRespond, SendSETUP, Send
    <2>2. track' \in Nat
      BY <1>1, <2>1
    <2>3. sid' \in {NoId, 1, 2, Bad}
      BY <1>1, <2>1, SessionIdTypes
    <2>4. ready' \in BOOLEAN
      BY <1>1, <2>1
    <2> QED
      BY <1>1, <1>6, <2>1, <2>2, <2>3, <2>4, SendTypes, HandlerTypes DEF InvokeStateMachine
  <1>7. CASE OnPlayRespond
    <2>1. UNCHANGED <<method, cseq, tracks, track, ready, sid, sent, reading, cause>>
      BY <1>7 DEF OnPlayRespond, sessionVars
    <2>2. /\ sent \in Seq(Requests) /\ Len(sent) \in Nat /\ reading \in BOOLEAN
          /\ method \in Methods \cup {"INVALID"}
          /\ cause \subseteq {"closed", "local", "refused", "extra", "split"}
      BY DEF TInv, TypeOK
    <2> QED
      BY <1>1, <1>7, <2>1, <2>2, HandlerTypes DEF InvokeStateMachine
  <1>8. CASE UNCHANGED vars
    BY <1>8 DEF vars, sessionVars, parserVars, serverVars, TInv, TypeOK, Received, OnTheWire
  <1> QED
    BY <1>2, <1>3, <1>4, <1>5, <1>6, <1>7, <1>8, ParseTypes, ReceiveTypes, AnswerTypes
    DEF Next, Executor, InvokeStateMachine

(* Nothing has been sent or received at first.                             *)
LEMMA InitTInv == Init => TInv
  <1>1. SUFFICES ASSUME Init PROVE TInv
    OBVIOUS
  <1>2. /\ sent = << >> /\ buf = << >> /\ wire = << >> /\ msg = {} /\ answered = 0
        /\ cause = {} /\ extra = 0 /\ tracks = 0
    BY <1>1 DEF Init
  <1>3. /\ sent \in Seq(Requests) /\ Len(sent) = 0
        /\ buf \in Seq(PiecesOver(Lines)) /\ wire \in Seq(PiecesOver(Lines))
    BY <1>2
  <1>4. tracks \in 0 .. MaxTracks /\ extra \in 0 .. MaxExtra
    BY <1>2
  <1>5. ready \in BOOLEAN /\ reading \in BOOLEAN /\ done \in BOOLEAN /\ stale \in BOOLEAN
    BY <1>1, Zenon DEF Init
  <1>6. /\ method \in Methods \cup {"INVALID"} /\ sid \in {NoId, 1, 2, Bad}
        /\ pc \in {"connect", "idle", "parse", "dispatch"}
        /\ pstate \in {"START", "LINES", "BODY", "END"}
        /\ res \in {"ERROR", "EINTR", "EOK"}
        /\ cseq \in Nat /\ track \in Nat /\ answered \in Nat
    BY <1>1 DEF Init
  <1>7. TypeOK
    BY <1>2, <1>3, <1>4, <1>5, <1>6 DEF TypeOK
  <1> QED
    BY <1>2, <1>3, <1>7 DEF TInv, Received, OnTheWire

(* TInv is inductive on top of IInv.                                       *)
THEOREM Typing == Spec => []TInv
  <1>1. IInv /\ TInv /\ [Next]_vars => TInv'
    BY StepTInv
  <1> QED
    BY <1>1, InitTInv, Invariance, PTL DEF Spec

(* The session, its parser and the wire are type correct for any number of *)
(* tracks.                                                                 *)
THEOREM TypeCorrect == Spec => []TypeOK
  <1>1. TInv => TypeOK
    BY DEF TInv
  <1> QED
    BY <1>1, Typing, PTL
-------------------------------------------------------------------------------
(* OnlyAnswered.  Bytes s have a CSeq line with value v.                   *)
Names(s, v) == \E i \in 1 .. Len(s) : s[i].line = Line("cseq", v)

(* No line with value v comes behind one with the value before.            *)
Late(s, v) ==
    \A i, j \in 1 .. Len(s) :
        s[i].line = Line("cseq", v - 1) /\ s[j].line = Line("cseq", v) => j < i

AtMost(s, n) ==
    \A i \in 1 .. Len(s) : s[i].line.kind = "cseq" => s[i].line.value <= n

Handling == pc \in {"parse", "dispatch"}

(* Every read begins a new message: the one before was complete, since no  *)
(* read follows an incomplete one.                                         *)
NewMessage ==
    /\ pc = "connect" \/ (pc = "idle" /\ reading) => done \/ (msg = {} /\ buf = << >>)
    /\ pc = "dispatch" => done
    /\ Handling => ~reading
    /\ pc = "connect" => wire = << >>

(* While a request is not answered, no response with its CSeq is about.    *)
NoEarlyAnswer ==
    Live /\ Len(sent) = answered + 1 =>
        /\ ~ Names(wire, answered)
        /\ Handling => ~ Names(buf, answered) /\ Line("cseq", answered) \notin msg

(* When it is, a response with the CSeq of the next request is the wrong   *)
(* answer to it, and comes before any with its own.                        *)
WrongAnswerFirst ==
    Live /\ Len(sent) = answered =>
        /\ Late(wire, answered)
        /\ Handling =>
              /\ Late(buf, answered)
              /\ Names(wire, answered) => ~ Names(buf, answered - 1)
              /\ Names(wire, answered) \/ Names(buf, answered) =>
                     Line("cseq", answered - 1) \notin msg

(* The invariant that makes OnlyAnswered inductive, on top of the others.  *)
AInv ==
    /\ OnlyAnswered
    /\ NewMessage
    /\ AtMost(wire, answered) /\ AtMost(buf, answered)
    /\ NoEarlyAnswer
    /\ WrongAnswerFirst
-------------------------------------------------------------------------------
(* Bytes t are in s, behind its first n.                                   *)
Behind(t, s, n) ==
    Len(t) \in Nat /\ \A i \in 1 .. Len(t) : n + i \in 1 .. Len(s) /\ t[i] = s[n + i]

(* The rest of some bytes, and a first part.                               *)
LEMMA PartsAreBehind ==
  ASSUME NEW S, NEW s \in Seq(S), NEW n \in Nat
  PROVE  /\ Behind(SubSeq(s, n + 1, Len(s)), s, n)
         /\ n <= Len(s) => Behind(SubSeq(s, 1, n), s, 0)
  <1>1. Len(s) \in Nat
    OBVIOUS
  <1>2. Behind(SubSeq(s, n + 1, Len(s)), s, n)
    <2>1. PICK t : t = SubSeq(s, n + 1, Len(s))
      OBVIOUS
    <2>2. /\ Len(t) = IF n + 1 <= Len(s) THEN Len(s) - n ELSE 0
          /\ \A i \in 1 .. Len(t) : t[i] = s[n + i]
      BY <1>1, <2>1, SubSeqProperties
    <2> QED
      BY <1>1, <2>1, <2>2 DEF Behind
  <1>3. ASSUME n <= Len(s) PROVE Behind(SubSeq(s, 1, n), s, 0)
    <2>1. PICK p : p = SubSeq(s, 1, n)
      OBVIOUS
    <2>2. Len(p) = n /\ \A i \in 1 .. n : p[i] = s[i]
      BY <1>1, <1>3, <2>1, SubSeqProperties
    <2> QED
      BY <1>1, <1>3, <2>1, <2>2 DEF Behind
  <1> QED
    BY <1>2, <1>3

(* A part of some bytes names nothing new and in no new order.             *)
LEMMA RestNames ==
  ASSUME NEW s, NEW t, NEW n \in Nat, NEW v, Behind(t, s, n)
  PROVE  /\ Names(t, v) => Names(s, v)
         /\ Late(s, v) => Late(t, v)
         /\ AtMost(s, v) => AtMost(t, v)
  <1>1. Len(t) \in Nat /\ \A i \in 1 .. Len(t) : n + i \in 1 .. Len(s) /\ t[i] = s[n + i]
    BY DEF Behind
  <1>2. ASSUME Names(t, v) PROVE Names(s, v)
    BY <1>1, <1>2 DEF Names
  <1>3. ASSUME Late(s, v) PROVE Late(t, v)
    <2>1. ASSUME NEW i \in 1 .. Len(t), NEW j \in 1 .. Len(t),
                 t[i].line = Line("cseq", v - 1), t[j].line = Line("cseq", v)
          PROVE  j < i
      <3>1. n + j < n + i
        BY <1>1, <1>3, <2>1 DEF Late
      <3> QED
        BY <1>1, <3>1
    <2> QED
      BY <2>1 DEF Late
  <1>4. ASSUME AtMost(s, v) PROVE AtMost(t, v)
    BY <1>1, <1>4 DEF AtMost
  <1> QED
    BY <1>2, <1>3, <1>4

(* If the rest names v, the part before it does not name v - 1.            *)
LEMMA RestBehindFirst ==
  ASSUME NEW s, NEW p, NEW t, NEW n \in Nat, NEW v, Behind(p, s, 0), Behind(t, s, n),
         Len(p) = n, Late(s, v), Names(t, v)
  PROVE  ~ Names(p, v - 1)
  <1>1. SUFFICES ASSUME Names(p, v - 1) PROVE FALSE
    OBVIOUS
  <1>2. PICK j \in 1 .. Len(t) : t[j].line = Line("cseq", v)
    BY DEF Names
  <1>3. PICK i \in 1 .. n : p[i].line = Line("cseq", v - 1)
    BY <1>1 DEF Names
  <1>4. Len(t) \in Nat /\ n + j \in 1 .. Len(s) /\ s[n + j].line = Line("cseq", v)
    BY <1>2 DEF Behind
  <1>5. i \in 1 .. Len(s) /\ s[i].line = Line("cseq", v - 1)
    BY <1>3 DEF Behind
  <1>6. n + j < i
    BY <1>4, <1>5 DEF Late
  <1> QED
    BY <1>2, <1>3, <1>4, <1>6

(* New bytes behind others.                                                *)
LEMMA MoreNames ==
  ASSUME NEW S, NEW s \in Seq(S), NEW r \in Seq(S), NEW v, NEW u, u = s \o r
  PROVE  /\ Names(u, v) => Names(s, v) \/ Names(r, v)
         /\ Late(s, v) /\ ~ Names(r, v) => Late(u, v)
         /\ AtMost(s, v) /\ AtMost(r, v) => AtMost(u, v)
  <1>1. /\ Len(s) \in Nat /\ Len(r) \in Nat /\ Len(u) = Len(s) + Len(r)
        /\ \A i \in 1 .. Len(u) :
               u[i] = IF i <= Len(s) THEN s[i] ELSE r[i - Len(s)]
    BY ConcatProperties
  <1>2. \A i \in 1 .. Len(u) : \/ i \in 1 .. Len(s) /\ u[i] = s[i]
                               \/ i - Len(s) \in 1 .. Len(r) /\ u[i] = r[i - Len(s)]
    BY <1>1
  <1>3. \A i \in 1 .. Len(u) : i <= Len(s) => u[i] = s[i]
    BY <1>1
  <1>4. ASSUME Names(u, v) PROVE Names(s, v) \/ Names(r, v)
    BY <1>2, <1>4 DEF Names
  <1>5. ASSUME AtMost(s, v), AtMost(r, v) PROVE AtMost(u, v)
    BY <1>2, <1>5 DEF AtMost
  <1>6. ASSUME Late(s, v), ~ Names(r, v) PROVE Late(u, v)
    <2>1. ASSUME NEW i \in 1 .. Len(u), NEW j \in 1 .. Len(u),
                 u[i].line = Line("cseq", v - 1), u[j].line = Line("cseq", v)
          PROVE  j < i
      <3>1. j \in 1 .. Len(s) /\ u[j] = s[j]
        BY <1>2, <1>6, <2>1 DEF Names
      <3>2. CASE i \in 1 .. Len(s)
        BY <1>3, <1>6, <2>1, <3>1, <3>2 DEF Late
      <3>3. CASE i > Len(s)
        BY <1>1, <3>1, <3>3
      <3> QED
        BY <1>1, <3>2, <3>3
    <2> QED
      BY <2>1 DEF Late
  <1> QED
    BY <1>4, <1>5, <1>6

(* Without one of the two values there is no wrong order.                  *)
LEMMA LateIfMissing ==
  ASSUME NEW s, NEW v, ~ Names(s, v) \/ ~ Names(s, v - 1)
  PROVE  Late(s, v)
  BY DEF Late, Names

(* If the first line has the value before v, none behind it has v.         *)
LEMMA FirstIsLate ==
  ASSUME NEW S, NEW s \in Seq(S), s # << >>, NEW v, Late(s, v),
         s[1].line = Line("cseq", v - 1)
  PROVE  ~ Names(s, v)
  <1>1. 1 \in 1 .. Len(s)
    OBVIOUS
  <1>2. ASSUME NEW j \in 1 .. Len(s), s[j].line = Line("cseq", v) PROVE FALSE
    <2>1. j < 1
      BY <1>1, <1>2 DEF Late
    <2> QED
      BY <1>2, <2>1
  <1> QED
    BY <1>2 DEF Names

(* A response names one CSeq at most.                                      *)
LEMMA ResponseNames ==
  ASSUME NEW w \in Int, NEW r \in Seq(Naming(w)), NEW s, s = Pieces(r)
  PROVE  /\ s \in Seq(PiecesOver(Lines))
         /\ \A v : Names(s, v) => v = w
         /\ AtMost(s, w)
  <1>1. s \in Seq(PiecesOver(Naming(w)))
    BY PiecesCarryLines
  <1>2. ASSUME NEW i \in 1 .. Len(s)
        PROVE  s[i].line \in Naming(w) /\ s[i] \in PiecesOver(Lines)
    <2>1. s[i] \in PiecesOver(Naming(w))
      BY <1>1
    <2> QED
      BY <2>1 DEF PiecesOver, Naming
  <1>3. s \in Seq(PiecesOver(Lines))
    BY <1>1, <1>2
  <1>4. ASSUME NEW v, Names(s, v) PROVE v = w
    <2>1. PICK i \in 1 .. Len(s) : s[i].line = Line("cseq", v)
      BY <1>4 DEF Names
    <2> QED
      BY <1>2, <2>1 DEF Line, Naming
  <1>5. AtMost(s, w)
    BY <1>2 DEF AtMost, Naming
  <1> QED
    BY <1>3, <1>4, <1>5

(* What is at most n is at most n + 1.                                     *)
LEMMA AtMostMore ==
  ASSUME NEW s \in Seq(PiecesOver(Lines)), NEW m \in Int, NEW n \in Int, m <= n, AtMost(s, m)
  PROVE  AtMost(s, n) /\ \A v : Names(s, v) => v <= m
  <1>1. ASSUME NEW i \in 1 .. Len(s) PROVE s[i].line.value \in Int
    <2>1. s[i] \in PiecesOver(Lines)
      OBVIOUS
    <2> QED
      BY <2>1 DEF PiecesOver, Lines
  <1>2. AtMost(s, n)
    BY <1>1 DEF AtMost
  <1>3. ASSUME NEW v, Names(s, v) PROVE v <= m
    <2>1. PICK i \in 1 .. Len(s) : s[i].line = Line("cseq", v)
      BY <1>3 DEF Names
    <2>2. s[i].line.kind = "cseq" /\ s[i].line.value = v
      BY <2>1 DEF Line
    <2> QED
      BY <2>2 DEF AtMost
  <1> QED
    BY <1>2, <1>3
-------------------------------------------------------------------------------
(* The facts about types that the steps need.                              *)
LEMMA AnswerFacts ==
  ASSUME IInv, TInv, AInv
  PROVE  /\ answered \in Nat /\ Len(sent) \in Nat /\ sent \in Seq(Requests)
         /\ Len(sent) = answered \/ Len(sent) = answered + 1
         /\ wire \in Seq(PiecesOver(Lines)) /\ buf \in Seq(PiecesOver(Lines))
         /\ Live => Len(sent) >= 1 /\ cseq = Len(sent) - 1
  <1>1. /\ answered \in Nat /\ sent \in Seq(Requests) /\ answered <= Len(sent)
        /\ wire \in Seq(PiecesOver(Lines)) /\ buf \in Seq(PiecesOver(Lines))
    BY DEF TInv, TypeOK, Received, OnTheWire
  <1>2. Len(sent) <= answered + 1
    BY DEF AInv, OnlyAnswered
  <1>3. Len(sent) \in Nat
    BY <1>1
  <1>4. Len(sent) = answered \/ Len(sent) = answered + 1
    BY <1>1, <1>2, <1>3
  <1> QED
    BY <1>1, <1>3, <1>4 DEF IInv, LastRequest

(* What the parser does to the bytes and to the message.                   *)
LEMMA ParseMoves ==
  ASSUME Parse
  PROVE  /\ UNCHANGED <<sent, answered, wire, reading>>
         /\ pc = "parse" /\ pc' \in {"parse", "idle", "dispatch"}
         /\ pc' = "dispatch" => done'
         /\ \/ UNCHANGED <<msg, buf>>
            \/ /\ buf # << >>
               /\ buf' \in {<< >>, SubSeq(buf, 3, Len(buf)), SubSeq(buf, 4, Len(buf))}
               /\ msg' \in {msg, msg \cup {buf[1].line},
                            msg \cup {Line(buf[1].line.kind, Bad)}}
  <1>1. UNCHANGED <<sent, answered, wire, reading>>
    BY DEF Parse, ParseStart, ParseInterrupted, ParseStale, ParseEmptyLine,
           ParseLine, ParseBroken, ParseBody, ParseOver, Unchanged, sessionVars,
           serverVars
  <1>2. pc = "parse" /\ pc' \in {"parse", "idle", "dispatch"} /\ (pc' = "dispatch" => done')
    BY DEF Parse, ParseStart, ParseInterrupted, ParseStale, ParseEmptyLine,
           ParseLine, ParseBroken, ParseBody, ParseOver, InState
  <1>3. \/ UNCHANGED <<msg, buf>>
        \/ /\ buf # << >>
           /\ buf' \in {<< >>, SubSeq(buf, 3, Len(buf)), SubSeq(buf, 4, Len(buf))}
           /\ msg' \in {msg, msg \cup {buf[1].line},
                        msg \cup {Line(buf[1].line.kind, Bad)}}
    BY DEF Parse, ParseStart, ParseInterrupted, ParseStale, ParseEmptyLine,
           ParseLine, ParseBroken, ParseBody, ParseOver, InState
  <1> QED
    BY <1>1, <1>2, <1>3

(* What the parser has taken out of the bytes is no longer in them.        *)
LEMMA ParseAInv ==
  ASSUME IInv, TInv, AInv, Parse
  PROVE  AInv'
  <1>1. /\ UNCHANGED <<sent, answered, wire, reading>>
        /\ pc = "parse" /\ pc' \in {"parse", "idle", "dispatch"}
        /\ pc' = "dispatch" => done'
    BY ParseMoves
  <1>2. /\ answered \in Nat /\ Len(sent) \in Nat /\ Len(sent) >= 1
        /\ buf \in Seq(PiecesOver(Lines))
    BY <1>1, AnswerFacts DEF Live
  <1>3. Live /\ Handling /\ ~reading
    BY <1>1 DEF Live, Handling, AInv, NewMessage
  <1>4. ASSUME NEW v
        PROVE  /\ Names(buf', v) => Names(buf, v)
               /\ Late(buf, v) => Late(buf', v)
               /\ AtMost(buf, v) => AtMost(buf', v)
    <2>1. CASE buf' = buf
      BY <2>1
    <2>2. CASE buf' = << >>
      BY <2>2 DEF Names, Late, AtMost
    <2>3. ASSUME NEW n \in {2, 3}, buf' = SubSeq(buf, n + 1, Len(buf))
          PROVE  /\ Names(buf', v) => Names(buf, v)
                 /\ Late(buf, v) => Late(buf', v)
                 /\ AtMost(buf, v) => AtMost(buf', v)
      <3>1. Behind(buf', buf, n)
        BY <1>2, <2>3, PartsAreBehind
      <3> QED
        BY <3>1, RestNames
    <2>4. 2 + 1 = 3 /\ 3 + 1 = 4
      OBVIOUS
    <2> QED
      BY <2>1, <2>2, <2>3, <2>4, ParseMoves
  <1>5. ASSUME NEW v \in Nat, Line("cseq", v) \in msg'
        PROVE  Line("cseq", v) \in msg \/ (buf # << >> /\ buf[1].line = Line("cseq", v))
    <2>1. Line(buf[1].line.kind, Bad) # Line("cseq", v)
      BY DEF Line, Bad
    <2> QED
      BY <1>5, <2>1, ParseMoves
  <1>6. ASSUME NEW v, buf # << >>, buf[1].line = Line("cseq", v) PROVE Names(buf, v)
    BY <1>2, <1>6 DEF Names
  <1>7. NewMessage'
    BY <1>1, <1>3 DEF NewMessage, Handling
  <1>8. NoEarlyAnswer'
    <2>1. SUFFICES ASSUME Len(sent) = answered + 1
                   PROVE  /\ ~ Names(wire, answered) /\ ~ Names(buf', answered)
                          /\ Line("cseq", answered) \notin msg'
      BY <1>1 DEF NoEarlyAnswer
    <2>2. /\ ~ Names(wire, answered) /\ ~ Names(buf, answered)
          /\ Line("cseq", answered) \notin msg
      BY <1>3, <2>1 DEF AInv, NoEarlyAnswer
    <2> QED
      BY <1>2, <1>4, <1>5, <1>6, <2>2
  <1>9. WrongAnswerFirst'
    <2>1. SUFFICES ASSUME Len(sent) = answered
                   PROVE  /\ Late(wire, answered) /\ Late(buf', answered)
                          /\ Names(wire, answered) => ~ Names(buf', answered - 1)
                          /\ Names(wire, answered) \/ Names(buf', answered) =>
                                 Line("cseq", answered - 1) \notin msg'
      BY <1>1 DEF WrongAnswerFirst
    <2>2. /\ Late(wire, answered) /\ Late(buf, answered)
          /\ Names(wire, answered) => ~ Names(buf, answered - 1)
          /\ Names(wire, answered) \/ Names(buf, answered) =>
                 Line("cseq", answered - 1) \notin msg
      BY <1>3, <2>1 DEF AInv, WrongAnswerFirst
    <2>3. answered - 1 \in Nat
      BY <1>2, <2>1
    <2>4. ASSUME buf # << >>, buf[1].line = Line("cseq", answered - 1)
          PROVE  ~ Names(wire, answered) /\ ~ Names(buf, answered)
      BY <1>2, <1>6, <2>2, <2>4, FirstIsLate
    <2>5. ASSUME Names(wire, answered) \/ Names(buf', answered),
                 Line("cseq", answered - 1) \in msg'
          PROVE  FALSE
      <3>1. Names(wire, answered) \/ Names(buf, answered)
        BY <1>4, <2>5
      <3>2. Line("cseq", answered - 1) \notin msg
        BY <2>2, <3>1
      <3>3. buf # << >> /\ buf[1].line = Line("cseq", answered - 1)
        BY <1>5, <2>3, <2>5, <3>2
      <3> QED
        BY <2>4, <3>1, <3>3
    <2> QED
      BY <1>4, <2>2, <2>5
  <1>10. OnlyAnswered' /\ AtMost(wire', answered') /\ AtMost(buf', answered')
    BY <1>1, <1>4 DEF AInv, OnlyAnswered
  <1> QED
    BY <1>7, <1>8, <1>9, <1>10 DEF AInv

(* A read takes the first bytes of the wire and begins a message.          *)
LEMMA ReceiveAInv ==
  ASSUME IInv, TInv, AInv, Receive
  PROVE  AInv'
  <1>1. PICK n \in 1 .. Len(wire) : OnEvRead(n)
    BY DEF Receive
  <1>2. /\ pc = "idle" /\ reading /\ reading' = FALSE /\ pc' = "parse"
        /\ wire' = SubSeq(wire, n + 1, Len(wire))
        /\ buf' = (IF done THEN << >> ELSE buf) \o SubSeq(wire, 1, n)
        /\ msg' = IF done THEN {} ELSE msg
        /\ UNCHANGED <<sent, answered>>
    BY <1>1 DEF OnEvRead, sessionVars, serverVars
  <1>3. /\ answered \in Nat /\ Len(sent) \in Nat /\ wire \in Seq(PiecesOver(Lines))
        /\ n \in Nat
    BY AnswerFacts
  <1>4. done \/ (msg = {} /\ buf = << >>)
    BY <1>2 DEF AInv, NewMessage
  <1>5. msg' = {} /\ buf' = << >> \o SubSeq(wire, 1, n)
    BY <1>2, <1>4
  <1>6. SubSeq(wire, 1, n) \in Seq(PiecesOver(Lines))
    BY <1>3, SubSeqProperties
  <1>7. buf' = SubSeq(wire, 1, n)
    BY <1>5, <1>6, ConcatEmptySeq
  <1>8. ASSUME NEW v
        PROVE  /\ Names(buf', v) => Names(wire, v)
               /\ Late(wire, v) => Late(buf', v)
               /\ AtMost(wire, v) => AtMost(buf', v)
               /\ Late(wire, v) /\ Names(wire', v) => ~ Names(buf', v - 1)
               /\ Names(wire', v) => Names(wire, v)
               /\ Late(wire, v) => Late(wire', v)
               /\ AtMost(wire, v) => AtMost(wire', v)
    <2>1. n <= Len(wire) /\ 0 \in Nat
      BY <1>3
    <2>2. Behind(buf', wire, 0) /\ Behind(wire', wire, n)
      BY <1>2, <1>3, <1>7, <2>1, PartsAreBehind
    <2>3. Len(buf') = n
      BY <1>3, <1>7, <2>1, SubSeqProperties
    <2>4. /\ Names(buf', v) => Names(wire, v)
          /\ Late(wire, v) => Late(buf', v)
          /\ AtMost(wire, v) => AtMost(buf', v)
      BY <2>1, <2>2, RestNames
    <2>5. /\ Names(wire', v) => Names(wire, v)
          /\ Late(wire, v) => Late(wire', v)
          /\ AtMost(wire, v) => AtMost(wire', v)
      BY <1>3, <2>2, RestNames
    <2>6. Late(wire, v) /\ Names(wire', v) => ~ Names(buf', v - 1)
      BY <1>3, <2>2, <2>3, RestBehindFirst
    <2> QED
      BY <2>4, <2>5, <2>6
  <1>9. NewMessage'
    BY <1>2 DEF NewMessage, Handling
  <1>10. NoEarlyAnswer'
    <2>1. SUFFICES ASSUME Len(sent) = answered + 1
                   PROVE  ~ Names(wire', answered) /\ ~ Names(buf', answered)
      BY <1>2, <1>5 DEF NoEarlyAnswer
    <2>2. ~ Names(wire, answered)
      BY <1>2, <2>1 DEF AInv, NoEarlyAnswer, Live
    <2> QED
      BY <1>8, <2>2
  <1>11. WrongAnswerFirst'
    <2>1. SUFFICES ASSUME Len(sent) = answered
                   PROVE  /\ Late(wire', answered) /\ Late(buf', answered)
                          /\ Names(wire', answered) => ~ Names(buf', answered - 1)
      BY <1>2, <1>5 DEF WrongAnswerFirst
    <2>2. Late(wire, answered)
      BY <1>2, <2>1 DEF AInv, WrongAnswerFirst, Live
    <2> QED
      BY <1>8, <2>2
  <1>12. OnlyAnswered' /\ AtMost(wire', answered') /\ AtMost(buf', answered')
    BY <1>2, <1>8 DEF AInv, OnlyAnswered
  <1> QED
    BY <1>9, <1>10, <1>11, <1>12 DEF AInv

(* A response whose CSeq is not that of the unanswered request disturbs    *)
(* nothing.                                                                *)
LEMMA AnswerTwiceAInv ==
  ASSUME IInv, TInv, AInv, AnswerTwice
  PROVE  AInv'
  <1>1. UNCHANGED <<sent, answered, reading, pc, buf, msg, done>>
    BY DEF AnswerTwice, sessionVars, parserVars
  <1>2. /\ answered \in Nat /\ Len(sent) \in Nat /\ sent \in Seq(Requests)
        /\ wire \in Seq(PiecesOver(Lines)) /\ answered <= Len(sent)
    BY AnswerFacts
  <1>3. PICK i \in 1 .. answered : Respond(Proper(sent[i], 1))
    BY DEF AnswerTwice
  <1>4. PICK r, s : r = Proper(sent[i], 1) /\ s = Pieces(r)
    OBVIOUS
  <1>5. i \in 1 .. Len(sent) /\ i - 1 \in Int /\ i - 1 <= answered /\ answered # i - 1
    BY <1>2
  <1>6. sent[i] \in Requests /\ sent[i].cseq = i - 1
    BY <1>2, <1>5 DEF IInv, RequestsInOrder
  <1>7. r \in Seq(Naming(i - 1))
    BY <1>4, <1>6, ProperNames
  <1>8. /\ s \in Seq(PiecesOver(Lines)) /\ AtMost(s, i - 1)
        /\ \A v : Names(s, v) => v = i - 1
    BY <1>4, <1>5, <1>7, ResponseNames
  <1>9. AtMost(s, answered) /\ ~ Names(s, answered)
    BY <1>2, <1>5, <1>8, AtMostMore
  <1>10. wire' = wire \o s
    BY <1>3, <1>4 DEF Respond
  <1>11. /\ Names(wire', answered) => Names(wire, answered)
         /\ Late(wire, answered) => Late(wire', answered)
         /\ AtMost(wire, answered) => AtMost(wire', answered)
    BY <1>2, <1>8, <1>9, <1>10, MoreNames
  <1>12. NewMessage'
    <2>1. pc # "connect"
      BY <1>2, <1>5 DEF IInv, Fresh
    <2> QED
      BY <1>1, <2>1 DEF AInv, NewMessage, Handling
  <1>13. NoEarlyAnswer'
    BY <1>1, <1>11 DEF AInv, NoEarlyAnswer, Live, Handling
  <1>14. WrongAnswerFirst'
    BY <1>1, <1>11 DEF AInv, WrongAnswerFirst, Live, Handling
  <1> QED
    BY <1>1, <1>11, <1>12, <1>13, <1>14 DEF AInv, OnlyAnswered

(* The answer to the last request may have the CSeq of the next one, but   *)
(* then it has not its own.                                                *)
LEMMA AnswerAInv ==
  ASSUME IInv, TInv, AInv, Answer
  PROVE  AInv'
  <1>1. /\ UNCHANGED <<sent, reading, pc, buf, msg, done>>
        /\ answered' = answered + 1 /\ answered < Len(sent)
    BY DEF Answer, sessionVars, parserVars
  <1>2. /\ answered \in Nat /\ Len(sent) \in Nat /\ sent \in Seq(Requests)
        /\ wire \in Seq(PiecesOver(Lines)) /\ buf \in Seq(PiecesOver(Lines))
        /\ Len(sent) = answered + 1
    BY <1>1, AnswerFacts
  <1>3. PICK q : q = sent[answered + 1]
    OBVIOUS
  <1>4. q \in Requests /\ q.cseq = answered
    BY <1>2, <1>3 DEF IInv, RequestsInOrder
  <1>5. PICK r, w : /\ Respond(r) /\ r \in Seq(Naming(w))
                    /\ w = answered \/ w = answered + 1
    <2>1. \/ \E k \in 1 .. MaxTracks : Respond(Proper(q, k))
          \/ \E r \in Improper(q) : Respond(r)
      BY <1>3 DEF Answer
    <2>2. ASSUME NEW k \in 1 .. MaxTracks PROVE Proper(q, k) \in Seq(Naming(answered))
      BY <1>4, ProperNames
    <2>3. ASSUME NEW r \in Improper(q)
          PROVE  r \in Seq(Naming(answered)) \/ r \in Seq(Naming(answered + 1))
      BY <1>4, ImproperNames
    <2> QED
      BY <2>1, <2>2, <2>3
  <1>6. PICK s : s = Pieces(r)
    OBVIOUS
  <1>7. w \in Int
    BY <1>2, <1>5
  <1>8. /\ s \in Seq(PiecesOver(Lines)) /\ AtMost(s, w)
        /\ \A v : Names(s, v) => v = w
    BY <1>5, <1>6, <1>7, ResponseNames
  <1>9. wire' = wire \o s
    BY <1>5, <1>6 DEF Respond
  <1>10. AtMost(s, answered + 1)
    BY <1>2, <1>5, <1>7, <1>8, AtMostMore
  <1>11. /\ AtMost(wire, answered + 1) /\ AtMost(buf, answered + 1)
         /\ ~ Names(wire, answered + 1)
    <2>1. AtMost(wire, answered) /\ AtMost(buf, answered)
      BY DEF AInv
    <2>2. answered \in Int /\ answered + 1 \in Int /\ answered <= answered + 1
          /\ ~(answered + 1 <= answered)
      BY <1>2
    <2> QED
      BY <1>2, <2>1, <2>2, AtMostMore
  <1>12. AtMost(wire', answered + 1)
    BY <1>2, <1>8, <1>9, <1>10, <1>11, MoreNames
  <1>13. \A v : Names(wire', v) => Names(wire, v) \/ Names(s, v)
    BY <1>2, <1>8, <1>9, MoreNames
  <1>14. ASSUME Live
         PROVE  /\ Late(wire', answered + 1)
                /\ Handling => /\ ~ Names(buf, answered) /\ Late(buf, answered + 1)
                               /\ Line("cseq", answered) \notin msg
    <2>1. /\ ~ Names(wire, answered)
          /\ Handling => ~ Names(buf, answered) /\ Line("cseq", answered) \notin msg
      BY <1>2, <1>14 DEF AInv, NoEarlyAnswer
    <2>2. (answered + 1) - 1 = answered /\ answered # answered + 1
      BY <1>2
    <2>3. ~ Names(wire', answered + 1) \/ ~ Names(wire', (answered + 1) - 1)
      BY <1>8, <1>11, <1>13, <2>1, <2>2
    <2>4. Late(wire', answered + 1)
      BY <2>3, LateIfMissing
    <2>5. ASSUME Handling PROVE Late(buf, answered + 1)
      BY <2>1, <2>2, <2>5, LateIfMissing
    <2> QED
      BY <2>1, <2>4, <2>5
  <1>15. WrongAnswerFirst'
    <2>1. SUFFICES ASSUME Live
          PROVE  /\ Late(wire', answered + 1)
                 /\ Handling =>
                      /\ Late(buf, answered + 1)
                      /\ ~ Names(buf, (answered + 1) - 1)
                      /\ Line("cseq", (answered + 1) - 1) \notin msg
      BY <1>1 DEF WrongAnswerFirst, Live, Handling
    <2>2. (answered + 1) - 1 = answered
      BY <1>2
    <2> QED
      BY <1>14, <2>1, <2>2
  <1>16. NoEarlyAnswer'
    <2>1. Len(sent') # answered' + 1
      BY <1>1, <1>2
    <2> QED
      BY <2>1 DEF NoEarlyAnswer
  <1>17. NewMessage'
    <2>1. pc # "connect"
      BY <1>1, <1>2 DEF IInv, Fresh
    <2> QED
      BY <1>1, <2>1 DEF AInv, NewMessage, Handling
  <1>18. OnlyAnswered'
    BY <1>1, <1>2 DEF OnlyAnswered
  <1> QED
    BY <1>1, <1>11, <1>12, <1>15, <1>16, <1>17, <1>18 DEF AInv

(* A handler that ends without a read has no more to answer for.           *)
LEMMA GivenUpAInv ==
  ASSUME IInv, TInv, AInv, pc' = "idle", ~reading', Len(sent') <= answered + 1,
         UNCHANGED <<answered, wire, buf>>
  PROVE  AInv'
  <1>1. ~Live' /\ ~Handling'
    BY DEF Live, Handling
  <1>2. NewMessage'
    BY <1>1 DEF NewMessage
  <1>3. NoEarlyAnswer' /\ WrongAnswerFirst'
    BY <1>1 DEF NoEarlyAnswer, WrongAnswerFirst
  <1> QED
    BY <1>2, <1>3 DEF AInv, OnlyAnswered

(* A request is only sent when the one before it is answered and no        *)
(* response with its own CSeq is about.                                    *)
LEMMA RequestAInv ==
  ASSUME IInv, TInv, AInv, NEW m, NEW n, Request(m, n), pc' = "idle",
         UNCHANGED <<answered, wire, buf, msg, done>>,
         Len(sent) = answered, ~ Names(wire, answered),
         done \/ (msg = {} /\ buf = << >>)
  PROVE  AInv'
  <1>1. PICK written \in BOOLEAN, started \in BOOLEAN :
            /\ sent' = IF written THEN Append(sent, [method |-> m, cseq |-> n])
                       ELSE sent
            /\ reading' = (written /\ started)
    BY DEF Request
  <1>2. answered \in Nat /\ sent \in Seq(Requests) /\ Len(sent) \in Nat
    BY AnswerFacts
  <1>3. Len(Append(sent, [method |-> m, cseq |-> n])) = Len(sent) + 1
    BY <1>2
  <1>4. /\ Len(sent') \in {answered, answered + 1}
        /\ reading' => Len(sent') = answered + 1
    BY <1>1, <1>3
  <1>5. Len(sent') <= answered + 1 /\ (reading' => Len(sent') # answered)
    BY <1>2, <1>4
  <1>6. CASE ~reading'
    BY <1>5, <1>6, GivenUpAInv
  <1>7. CASE reading'
    <2>1. ~Handling'
      BY DEF Handling
    <2>2. NewMessage'
      BY <2>1 DEF NewMessage
    <2>3. NoEarlyAnswer'
      BY <2>1 DEF NoEarlyAnswer
    <2>4. WrongAnswerFirst'
      BY <1>5, <1>7 DEF WrongAnswerFirst
    <2>5. OnlyAnswered'
      BY <1>5 DEF OnlyAnswered
    <2> QED
      BY <2>2, <2>3, <2>4, <2>5 DEF AInv
  <1> QED
    BY <1>6, <1>7

(* Nothing is under way before the connection.                             *)
LEMMA OnConnectAInv ==
  ASSUME IInv, TInv, AInv, OnConnect
  PROVE  AInv'
  <1>1. /\ pc = "connect" /\ pc' = "idle" /\ UNCHANGED <<answered, wire, buf, msg, done>>
        /\ Request("OPTIONS", 0) \/ GiveUp("closed")
    BY DEF OnConnect, parserVars, serverVars
  <1>2. wire = << >> /\ (done \/ (msg = {} /\ buf = << >>)) /\ Len(sent) = 0
    BY <1>1 DEF AInv, NewMessage, IInv, Fresh
  <1>3. answered \in Nat /\ Len(sent) = answered /\ Len(sent) <= answered + 1
    BY <1>2, AnswerFacts
  <1>4. ~ Names(wire, answered)
    BY <1>2 DEF Names
  <1>5. CASE Request("OPTIONS", 0)
    BY <1>1, <1>2, <1>3, <1>4, <1>5, RequestAInv
  <1>6. CASE GiveUp("closed")
    BY <1>1, <1>3, <1>6, GivenUpAInv DEF GiveUp
  <1> QED
    BY <1>1, <1>5, <1>6

(* A response with the expected CSeq answers the last request.             *)
LEMMA ExpectedIsAnswer ==
  ASSUME IInv, TInv, AInv, pc = "dispatch", Expected
  PROVE  Len(sent) = answered /\ ~ Names(wire, answered) /\ done
  <1>1. Live /\ Handling
    BY DEF Live, Handling
  <1>2. /\ answered \in Nat /\ cseq = Len(sent) - 1
        /\ Len(sent) = answered \/ Len(sent) = answered + 1
    BY <1>1, AnswerFacts
  <1>3. Line("cseq", Len(sent) - 1) \in msg
    BY <1>2 DEF Expected
  <1>4. Len(sent) # answered + 1
    <2>1. SUFFICES ASSUME Len(sent) = answered + 1 PROVE FALSE
      OBVIOUS
    <2>2. Len(sent) - 1 = answered
      BY <1>2, <2>1
    <2>3. Line("cseq", answered) \notin msg
      BY <1>1, <2>1 DEF AInv, NoEarlyAnswer
    <2> QED
      BY <1>3, <2>2, <2>3
  <1>5. Len(sent) = answered
    BY <1>2, <1>4
  <1>6. Line("cseq", answered - 1) \in msg
    BY <1>3, <1>5
  <1>7. ~ Names(wire, answered)
    BY <1>1, <1>5, <1>6 DEF AInv, WrongAnswerFirst
  <1> QED
    BY <1>5, <1>7 DEF AInv, NewMessage

(* What a handler writes, it writes in answer to a response.               *)
LEMMA DispatchAInv ==
  ASSUME IInv, TInv, AInv, InvokeStateMachine
  PROVE  AInv'
  <1>1. /\ pc = "dispatch" /\ pc' = "idle" /\ UNCHANGED <<answered, wire, buf, msg, done>>
    BY DEF InvokeStateMachine, OnOptionsRespond, OnDescribeRespond,
           OnSetupRespond, OnPlayRespond, DispatchUnexpected, Dispatch,
           parserVars, serverVars
  <1>2. /\ Len(sent) <= answered + 1 /\ ~reading
    BY <1>1 DEF AInv, OnlyAnswered, NewMessage, Handling
  <1>3. ASSUME NEW why, GiveUp(why) PROVE AInv'
    BY <1>1, <1>2, <1>3, GivenUpAInv DEF GiveUp
  <1>4. ASSUME NEW m, Send(m), Expected PROVE AInv'
    <2>1. CASE Request(m, cseq + 1)
      BY <1>1, <1>4, <2>1, ExpectedIsAnswer, RequestAInv
    <2> QED
      BY <1>3, <1>4, <2>1 DEF Send
  <1>5. CASE OnPlayRespond
    <2>1. UNCHANGED <<reading, sent>>
      BY <1>5 DEF OnPlayRespond, sessionVars
    <2> QED
      BY <1>1, <1>2, <2>1, GivenUpAInv
  <1>6. CASE DispatchUnexpected
    BY <1>3, <1>6 DEF DispatchUnexpected
  <1>7. CASE OnOptionsRespond
    <2>1. Expected /\ (Send("DESCRIBE") \/ GiveUp("refused"))
      BY <1>7 DEF OnOptionsRespond, Dispatch
    <2> QED
      BY <1>3, <1>4, <2>1
  <1>8. CASE OnDescribeRespond
    <2>1. Expected /\ (Send("SETUP") \/ GiveUp("refused") \/ GiveUp("local"))
      BY <1>8 DEF OnDescribeRespond, Dispatch, SendSETUP
    <2> QED
      BY <1>3, <1>4, <2>1
  <1>9. CASE OnSetupRespond
    <2>1. Expected /\ (Send("PLAY") \/ Send("SETUP") \/ GiveUp("refused"))
      BY <1>9 DEF OnSetupRespond, Dispatch, SendSETUP
    <2> QED
      BY <1>3, <1>4, <2>1
  <1> QED
    BY <1>5, <1>6, <1>7, <1>8, <1>9 DEF InvokeStateMachine

(* Every step keeps AInv.                                                  *)
LEMMA StepAInv ==
  ASSUME IInv, TInv, AInv, [Next]_vars
  PROVE  AInv'
  <1>1. CASE ReadFails
    <2>1. pc' = "idle" /\ ~reading' /\ UNCHANGED <<sent, answered, wire, buf>>
      BY <1>1 DEF ReadFails, sessionVars, parserVars, serverVars
    <2>2. Len(sent) <= answered + 1
      BY DEF AInv, OnlyAnswered
    <2> QED
      BY <2>1, <2>2, GivenUpAInv
  <1>2. CASE UNCHANGED vars
    BY <1>2 DEF vars, sessionVars, parserVars, serverVars, AInv, OnlyAnswered, NewMessage,
                NoEarlyAnswer, WrongAnswerFirst, Live, Handling, Names, Late, AtMost
  <1> QED
    BY <1>1, <1>2, ParseAInv, ReceiveAInv, AnswerAInv, AnswerTwiceAInv, OnConnectAInv,
       DispatchAInv
    DEF Next, Executor

(* Nothing has been sent or received at first.                             *)
LEMMA InitAInv == Init => AInv
  BY DEF Init, AInv, OnlyAnswered, NewMessage, NoEarlyAnswer, WrongAnswerFirst, Live,
         Handling, Names, Late, AtMost

(* AInv is inductive on top of IInv and TInv.                              *)
THEOREM Answering == Spec => []AInv
  <1>1. IInv /\ TInv /\ AInv /\ [Next]_vars => AInv'
    BY StepAInv
  <1> QED
    BY <1>1, InitAInv, Invariance, Typing, PTL DEF Spec

(* Whatever the server answers, twice or with another CSeq, and however    *)
(* TCP cuts it, the session writes no request before the server has        *)
(* answered all earlier ones.                                              *)
THEOREM EveryRequestWaits == Spec => []OnlyAnswered
  <1>1. AInv => OnlyAnswered
    BY DEF AInv
  <1> QED
    BY <1>1, Answering, PTL
===============================================================================
