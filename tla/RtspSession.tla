------------------------------ MODULE RtspSession ------------------------------
(***************************************************************************)
(* RtspSession, its RtspProtoParser and the MediaSessions it creates       *)
(* (z3_rtsp_client): OPTIONS, DESCRIBE, one SETUP per track and PLAY, each *)
(* sent when the response to the one before has been parsed.               *)
(*                                                                         *)
(* All of it runs in Connector::OnEvRead on an executor that holds the     *)
(* object's lock, so the steps of one read do not interleave with another  *)
(* read; the server and the network do.  TCP may cut the bytes anywhere,   *)
(* so a response travels in pieces: the text, the '\r' and the '\n' of     *)
(* every line, and two parts of the body.  One iteration of the parser's   *)
(* loop is one step.                                                       *)
(*                                                                         *)
(* The parser does not clear its buffer: behind the bytes received may lie *)
(* those of an earlier message, with the line ends that it did not replace *)
(* by zeros: of its empty line and of its body (stale).                    *)
(***************************************************************************)
EXTENDS Integers, Sequences

CONSTANTS MaxTracks,  \* bound: media streams in a session description
          MaxExtra    \* bound: responses that the server sends twice

ASSUME SessionAssumption == MaxTracks \in Nat \ {0} /\ MaxExtra \in Nat

VARIABLES
    method,    \* m_methodPrevious
    cseq,      \* m_nCSeqPrevious
    tracks,    \* m_nTrackCount of m_pRtspMedia, 0 while there is no media
    track,     \* m_nRequestTrack
    ready,     \* m_nSessionState = RTSP_SESSION_READY
    sid,       \* m_pszSessionId
    reading,   \* a read has been started and not completed
    pc,        \* "connect", "idle", "parse" or "dispatch"
    pstate,    \* m_state
    buf,       \* bytes received and not yet parsed
    msg,       \* m_pRtspMsg: the lines parsed so far, and the body
    done,      \* m_bMsgCompleted
    res,       \* Parse's result
    stale,     \* line ends of an old message lie in m_pBuf
    wire,      \* pieces sent by the server and not yet received
    sent,      \* requests written, in order
    answered,  \* the server has answered this many of them
    extra,     \* responses sent twice
    cause      \* history: what has gone wrong outside this component

sessionVars == <<method, cseq, tracks, track, ready, sid, sent>>
parserVars == <<pstate, buf, msg, done, res, stale>>
serverVars == <<answered, extra>>
vars == <<sessionVars, parserVars, serverVars, reading, pc, wire, cause>>

Describe == 1    \* the value "describe" of a Public header
NoId == 0        \* no session id has been received
Bad == -1        \* a value that old text has been added to

Methods == {"OPTIONS", "DESCRIBE", "SETUP", "PLAY"}

Init ==
    /\ method = "INVALID"
    /\ cseq = 0
    /\ tracks = 0
    /\ track = 0
    /\ ready = FALSE
    /\ sid = NoId
    /\ reading = FALSE
    /\ pc = "connect"
    /\ pstate = "START"
    /\ buf = << >>
    /\ msg = {}
    /\ done = FALSE
    /\ res = "ERROR"
    /\ stale = FALSE
    /\ wire = << >>
    /\ sent = << >>
    /\ answered = 0
    /\ extra = 0
    /\ cause = {}
-------------------------------------------------------------------------------
(* The server.  A response is a sequence of lines, each a kind and a value.*)
Line(kind, value) == [kind |-> kind, value |-> value]

Status(code) == Line("status", code)
Blank == Line("blank", 0)

Proper(q, k) ==
    <<Status(200), Line("cseq", q.cseq)>> \o
    CASE q.method = "OPTIONS" -> <<Line("public", Describe), Blank>>
      [] q.method = "DESCRIBE" ->
            <<Line("base", 0), Line("length", 0), Blank, Line("body", k)>>
      [] q.method = "SETUP" -> <<Line("session", 1), Blank>>
      [] q.method = "PLAY" -> <<Blank>>

Drop(s, i) == SubSeq(s, 1, i - 1) \o SubSeq(s, i + 1, Len(s))

(* Another status, another CSeq, a line without a colon, no media, another *)
(* session, or a missing header.                                           *)
Improper(q) ==
    LET p == Proper(q, 1)
        body == q.method = "DESCRIBE"
    IN  {[p EXCEPT ![1] = Status(454)],
         [p EXCEPT ![2] = Line("cseq", q.cseq + 1)],
         [p EXCEPT ![2] = Line("junk", 0)]}
        \cup (IF body THEN {Proper(q, 0), Drop(p, 3)}
              ELSE {Drop(p, i) : i \in 2 .. Len(p) - 1})
        \cup (IF q.method = "SETUP"
              THEN {[p EXCEPT ![3] = Line("session", 2)]} ELSE {})

Piece(line, part) == [line |-> line, part |-> part]

PiecesOf(line) ==
    CASE line.kind = "blank" -> <<Piece(line, "cr"), Piece(line, "lf")>>
      [] line.kind = "body" -> <<Piece(line, "body"), Piece(line, "rest")>>
      [] OTHER -> <<Piece(line, "text"), Piece(line, "cr"), Piece(line, "lf")>>

(* A response has at most six lines.                                       *)
Pieces(r) ==
    LET p(i) == IF i > Len(r) THEN << >> ELSE PiecesOf(r[i])
    IN  p(1) \o p(2) \o p(3) \o p(4) \o p(5) \o p(6)

Respond(r) == wire' = wire \o Pieces(r)

Answer ==
    /\ answered < Len(sent)
    /\ LET q == sent[answered + 1]
       IN  \/ /\ \E k \in 1 .. MaxTracks : Respond(Proper(q, k))
              /\ UNCHANGED cause
           \/ /\ \E r \in Improper(q) : Respond(r)
              /\ cause' = cause \cup {"refused"}
    /\ answered' = answered + 1
    /\ UNCHANGED <<sessionVars, parserVars, extra, reading, pc>>

AnswerTwice ==
    /\ extra < MaxExtra
    /\ \E i \in 1 .. answered : Respond(Proper(sent[i], 1))
    /\ extra' = extra + 1
    /\ cause' = cause \cup {"extra"}
    /\ UNCHANGED <<sessionVars, parserVars, answered, reading, pc>>
-------------------------------------------------------------------------------
(* Fault: the CSeq is taken back if the request could not be written.      *)
RequestCountsBack(m, n) ==
    \E written, started \in BOOLEAN :
        /\ sent' = IF written THEN Append(sent, [method |-> m, cseq |-> n])
                   ELSE sent
        /\ method' = IF written THEN m ELSE method
        /\ cseq' = IF written THEN n ELSE n - 1
        /\ reading' = (written /\ started)
        /\ cause' = IF reading' THEN cause ELSE cause \cup {"local"}

(* Fault: no read is started after the request.                            *)
RequestNoRead(m, n) ==
    /\ sent' = Append(sent, [method |-> m, cseq |-> n])
    /\ method' = m
    /\ cseq' = n
    /\ reading' = FALSE
    /\ UNCHANGED cause

(* Connector::WriteMsg of the next request and, if it was accepted,        *)
(* StartRead; either may be refused by the kernel.  ++m_nCSeqPrevious comes*)
(* before the write, m_methodPrevious is assigned after it.                *)
Request(m, n) ==
    \E written, started \in BOOLEAN :
        /\ sent' = IF written THEN Append(sent, [method |-> m, cseq |-> n])
                   ELSE sent
        /\ method' = IF written THEN m ELSE method
        /\ cseq' = n
        /\ reading' = (written /\ started)
        /\ cause' = IF reading' THEN cause ELSE cause \cup {"local"}

(* Fault: a read is started although the handler failed.                   *)
GiveUpReads(why) ==
    /\ reading' = TRUE
    /\ cause' = cause \cup {why}
    /\ UNCHANGED <<sent, method, cseq>>

(* A handler that fails: no request, no read, and nobody is told.          *)
GiveUp(why) ==
    /\ reading' = FALSE
    /\ cause' = cause \cup {why}
    /\ UNCHANGED <<sent, method, cseq>>

(* The handlers' requests: there may be no memory for the message.         *)
Send(m) == Request(m, cseq + 1) \/ GiveUp("local")

(* OnConnect: a failed connect is notified; otherwise SendOPTIONS.         *)
OnConnect ==
    /\ pc = "connect"
    /\ pc' = "idle"
    /\ Request("OPTIONS", 0) \/ GiveUp("closed")
    /\ UNCHANGED <<tracks, track, ready, sid, parserVars, serverVars, wire>>

(* The read ends with an error (notified, and the socket is closed) or     *)
(* with zero bytes.                                                        *)
ReadFails ==
    /\ pc = "idle"
    /\ reading
    /\ reading' = FALSE
    /\ cause' = cause \cup {"closed"}
    /\ UNCHANGED <<sessionVars, parserVars, serverVars, pc, wire>>

IsStart(p) == p.line.kind = "status" /\ p.part = "text"

(* The first n pieces on the wire are one response, whole.                 *)
OneResponse(n) ==
    /\ {i \in 1 .. n : IsStart(wire[i])} = {1}
    /\ n < Len(wire) => IsStart(wire[n + 1])

(* OnEvRead and the beginning of Parse: a completed message is cleared,    *)
(* with whatever was received behind it.                                   *)
OnEvRead(n) ==
    /\ pc = "idle"
    /\ reading
    /\ n \in 1 .. Len(wire)
    /\ reading' = FALSE
    /\ wire' = SubSeq(wire, n + 1, Len(wire))
    /\ buf' = (IF done THEN << >> ELSE buf) \o SubSeq(wire, 1, n)
    /\ pstate' = IF done THEN "START" ELSE pstate
    /\ msg' = IF done THEN {} ELSE msg
    /\ done' = FALSE
    /\ res' = "ERROR"
    /\ pc' = "parse"
    /\ cause' = IF OneResponse(n) THEN cause ELSE cause \cup {"split"}
    /\ UNCHANGED <<sessionVars, serverVars, stale>>
-------------------------------------------------------------------------------
(* Parse: the loop.                                                        *)
InState(s) == pc = "parse" /\ pstate = s /\ buf # << >>

Unchanged == UNCHANGED <<sessionVars, serverVars, reading, wire, cause, done>>

(* STATE_START; interleaved data ('$') is never asked for.                 *)
ParseStart ==
    /\ InState("START")
    /\ pstate' = "LINES"
    /\ UNCHANGED <<buf, msg, res, stale, pc>>
    /\ Unchanged

(* Index of the first '\r', a body has some; 0 if there is none.           *)
ReturnAt ==
    LET cr == {i \in DOMAIN buf : buf[i].part \in {"cr", "body"}}
    IN  IF cr = {} THEN 0 ELSE CHOOSE i \in cr : \A j \in cr : i <= j

(* No '\r': the loop is left with Z3_RTSP_EINTR, and OnEvRead returns.     *)
ParseInterrupted ==
    /\ InState("LINES")
    /\ ReturnAt = 0
    /\ res' = "EINTR"
    /\ pc' = "idle"
    /\ UNCHANGED <<pstate, buf, msg, stale>>
    /\ Unchanged

(* Which line is acceptable: the first must be a status line (a request    *)
(* line would do for the parser, but no server sends one), the others need *)
(* a colon.                                                                *)
Acceptable(line) ==
    IF msg = {} THEN line.kind = "status" ELSE line.kind \notin {"status", "junk"}

(* A '\r' with its '\n' at the very beginning, or behind one line of text. *)
LineEndsAt(e) == ReturnAt = e /\ e < Len(buf) /\ buf[e].part = "cr"

EmptyLine == LineEndsAt(1)
GoodLine == LineEndsAt(2) /\ buf[1].part = "text" /\ Acceptable(buf[1].line)

(* The state behind an empty line: a body follows if its length is known.  *)
AfterEmptyLine == IF Line("length", 0) \in msg THEN "BODY" ELSE "END"

(* The line ends in old bytes behind those received.  A line of text is    *)
(* taken as it is, with old text added to its value, or without effect; an *)
(* empty line is completed; either may as well be refused.                 *)
ParseStale ==
    /\ InState("LINES")
    /\ stale
    /\ ReturnAt \in {0, Len(buf)}
    /\ LET line == buf[1].line
       IN  \/ /\ buf[1].part = "text"
              /\ \/ msg' = msg \cup {line} /\ Acceptable(line)
                 \/ msg' = msg \cup {Line(line.kind, Bad)}
                 \/ msg' = msg /\ msg # {}
              /\ res' = "EOK"
              /\ buf' = << >>
              /\ UNCHANGED pstate
           \/ /\ ReturnAt = 1
              /\ buf[1].part = "cr"
              /\ pstate' = AfterEmptyLine
              /\ buf' = << >>
              /\ UNCHANGED <<msg, res>>
           \/ /\ res' = "ERROR"
              /\ pstate' = "END"
              /\ UNCHANGED <<buf, msg>>
    /\ UNCHANGED <<stale, pc>>
    /\ Unchanged

(* The empty line leaves the result of the line before it as it is.        *)
ParseEmptyLine ==
    /\ InState("LINES")
    /\ EmptyLine
    /\ pstate' = AfterEmptyLine
    /\ buf' = SubSeq(buf, 3, Len(buf))
    /\ stale' = TRUE
    /\ UNCHANGED <<msg, res, pc>>
    /\ Unchanged

(* ParseResponseStatus or ParseLine with a result of Z3_EOK.               *)
ParseLine ==
    /\ InState("LINES")
    /\ GoodLine
    /\ msg' = msg \cup {buf[1].line}
    /\ buf' = SubSeq(buf, 4, Len(buf))
    /\ res' = "EOK"
    /\ UNCHANGED <<pstate, stale, pc>>
    /\ Unchanged

(* A '\r' without '\n', or a line that ParseResponseStatus or ParseLine    *)
(* refuses.                                                                *)
ParseBroken ==
    /\ InState("LINES")
    /\ ReturnAt # 0
    /\ ~EmptyLine /\ ~GoodLine
    /\ res' = "ERROR"
    /\ pstate' = "END"
    /\ UNCHANGED <<buf, msg, stale, pc>>
    /\ Unchanged

(* STATE_DATA_BODY: the whole body, or Z3_RTSP_EINTR.                      *)
ParseBody ==
    /\ InState("BODY")
    /\ IF Len(buf) >= 2
       THEN /\ msg' = msg \cup {buf[1].line}
            /\ buf' = SubSeq(buf, 3, Len(buf))
            /\ res' = "EOK"
            /\ pstate' = "END"
            /\ UNCHANGED pc
       ELSE /\ res' = "EINTR"
            /\ pc' = "idle"
            /\ UNCHANGED <<pstate, buf, msg>>
    /\ UNCHANGED stale
    /\ Unchanged

(* The loop ends in STATE_END or when the bytes are used up; the message   *)
(* counts as complete if the last result was Z3_EOK.                       *)
ParseOver ==
    /\ pc = "parse"
    /\ pstate = "END" \/ buf = << >>
    /\ done' = (res = "EOK")
    /\ pc' = IF res = "EOK" THEN "dispatch" ELSE "idle"
    /\ UNCHANGED <<sessionVars, serverVars, reading, wire, cause,
                   pstate, buf, msg, res, stale>>

Parse ==
    ParseStart \/ ParseInterrupted \/ ParseStale \/ ParseEmptyLine \/ ParseLine
        \/ ParseBroken \/ ParseBody \/ ParseOver
-------------------------------------------------------------------------------
(* Fault: the CSeq of a response is not compared.                          *)
ExpectedAny == Status(200) \in msg

(* Dispatch: status 200 and the CSeq of the last request.                  *)
Expected == Status(200) \in msg /\ Line("cseq", cseq) \in msg

Dispatch(m) ==
    /\ pc = "dispatch"
    /\ pc' = "idle"
    /\ Expected
    /\ method = m
    /\ UNCHANGED <<parserVars, serverVars, wire>>

DispatchUnexpected ==
    /\ pc = "dispatch"
    /\ pc' = "idle"
    /\ ~Expected
    /\ GiveUp("refused")
    /\ UNCHANGED <<tracks, track, ready, sid, parserVars, serverVars, wire>>

OnOptionsRespond ==
    /\ Dispatch("OPTIONS")
    /\ IF Line("public", Describe) \in msg
       THEN Send("DESCRIBE")
       ELSE GiveUp("refused")
    /\ UNCHANGED <<tracks, track, ready, sid>>

(* Fault: the track number does not move on.                               *)
SendSETUPAgain(t) ==
    /\ track' = t
    /\ Send("SETUP")

(* SendSETUP for track t: the track number moves on before the             *)
(* MediaSession is created, which takes two ports and starts to read on    *)
(* them; any of its steps may fail.                                        *)
SendSETUP(t) ==
    /\ track' = t + 1
    /\ Send("SETUP")

(* OnDescribeRespond.  RtspMedia::Init may run out of memory.              *)
OnDescribeRespond ==
    /\ Dispatch("DESCRIBE")
    /\ \/ \E k \in 1 .. MaxTracks :
            /\ Line("body", k) \in msg
            /\ Line("base", 0) \in msg
            /\ tracks' = k
            /\ SendSETUP(0)
       \/ /\ \/ ~\E k \in 1 .. MaxTracks : Line("body", k) \in msg
             \/ Line("base", 0) \notin msg
          /\ GiveUp("refused")
          /\ UNCHANGED <<tracks, track>>
       \/ GiveUp("local") /\ UNCHANGED <<tracks, track>>
    /\ UNCHANGED <<ready, sid>>

SessionIds == {l.value : l \in {x \in msg : x.kind = "session"}}

(* Only as much of the header is compared as the first one was long.       *)
SameSession(s) == sid \in {NoId, s} \/ s = Bad

OnSetupRespond ==
    /\ Dispatch("SETUP")
    /\ \/ \E s \in SessionIds :
            /\ SameSession(s)
            /\ sid' = IF sid = NoId THEN s ELSE sid
            /\ IF track >= tracks
               THEN /\ ready' = TRUE
                    /\ Send("PLAY")
                    /\ UNCHANGED track
               ELSE SendSETUP(track) /\ UNCHANGED ready
       \/ /\ ~\E s \in SessionIds : SameSession(s)
          /\ GiveUp("refused")
          /\ UNCHANGED <<track, ready, sid>>
    /\ UNCHANGED tracks

(* The response to PLAY starts nothing, not even a read.                   *)
OnPlayRespond ==
    /\ Dispatch("PLAY")
    /\ UNCHANGED <<sessionVars, reading, cause>>

InvokeStateMachine ==
    OnOptionsRespond \/ OnDescribeRespond \/ OnSetupRespond \/ OnPlayRespond
        \/ DispatchUnexpected
-------------------------------------------------------------------------------
Executor == OnConnect \/ Parse \/ InvokeStateMachine

Receive == \E n \in 1 .. Len(wire) : OnEvRead(n)

Next == Executor \/ Receive \/ ReadFails \/ Answer \/ AnswerTwice

Spec == Init /\ [][Next]_vars

(* The executor runs and the network delivers what was sent; the server    *)
(* need not answer.                                                        *)
FairSpec == Spec /\ WF_vars(Executor) /\ WF_vars(Receive)
-------------------------------------------------------------------------------
Requests == [method : Methods, cseq : Nat]

TypeOK ==
    /\ method \in Methods \cup {"INVALID"}
    /\ cseq \in Nat
    /\ tracks \in 0 .. MaxTracks
    /\ track \in Nat
    /\ ready \in BOOLEAN
    /\ sid \in {NoId, 1, 2, Bad}
    /\ reading \in BOOLEAN
    /\ pc \in {"connect", "idle", "parse", "dispatch"}
    /\ pstate \in {"START", "LINES", "BODY", "END"}
    /\ done \in BOOLEAN
    /\ res \in {"ERROR", "EINTR", "EOK"}
    /\ stale \in BOOLEAN
    /\ sent \in Seq(Requests)
    /\ answered \in Nat
    /\ extra \in 0 .. MaxExtra
    /\ cause \subseteq {"closed", "local", "refused", "extra", "split"}

(* The method of the i-th request in a session of k tracks.                *)
MethodAt(i, k) ==
    CASE i = 1 -> "OPTIONS"
      [] i = 2 -> "DESCRIBE"
      [] i > 2 /\ i <= k + 2 -> "SETUP"
      [] i = k + 3 -> "PLAY"
      [] OTHER -> "none"

(* The requests are OPTIONS, DESCRIBE, a SETUP for each track and PLAY, in *)
(* this order and with consecutive CSeq numbers, whatever is received,     *)
(* refused or sent twice.                                                  *)
RequestsInOrder ==
    \A i \in 1 .. Len(sent) :
        sent[i].cseq = i - 1 /\ sent[i].method = MethodAt(i, tracks)

(* No request is sent before the server has answered all earlier ones: a   *)
(* response is never taken for the answer to a later request.              *)
OnlyAnswered == Len(sent) <= answered + 1

(* The assertions at the head of OnDescribeRespond: there is no media yet  *)
(* and the session is in its first state.                                  *)
DescribeFindsNoMedia ==
    pc = "dispatch" /\ Expected /\ method = "DESCRIBE" => tracks = 0 /\ ~ready

(* With nothing going wrong around it, an answered session sends its next  *)
(* request, up to the answer to PLAY.                                      *)
Answered(n) == Len(sent) = n /\ answered = n /\ method # "PLAY"

AnswerLeadsOn ==
    \A n \in 1 .. MaxTracks + 2 :
        Answered(n) ~> Len(sent) > n \/ cause # {}

(* The strengthening that makes RequestsInOrder and DescribeFindsNoMedia   *)
(* inductive.  While a read is under way or its bytes are being handled,   *)
(* the session's record of its last request is the truth; after a failure  *)
(* it may not be, but then no response is looked at any more.              *)
Live == reading \/ pc \in {"parse", "dispatch"}

LastRequest ==
    Live =>
        /\ Len(sent) >= 1
        /\ cseq = Len(sent) - 1
        /\ method = sent[Len(sent)].method
        /\ method \in {"OPTIONS", "DESCRIBE"} => tracks = 0 /\ ~ready
        /\ method = "SETUP" => track = Len(sent) - 2

Fresh == pc = "connect" => sent = << >> /\ ~reading /\ tracks = 0 /\ ~ready

Counters ==
    /\ cseq \in Nat
    /\ tracks \in Nat
    /\ track \in Nat
    /\ sent \in Seq(Requests)

IInv == Counters /\ Fresh /\ LastRequest /\ RequestsInOrder

(* A message that is incomplete waits for more bytes: after a Parse that   *)
(* returned Z3_RTSP_EINTR a read is under way.                             *)
WaitsForRest ==
    pc = "idle" /\ res = "EINTR" /\ "closed" \notin cause => reading
===============================================================================
