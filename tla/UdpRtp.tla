-------------------------------- MODULE UdpRtp --------------------------------
(***************************************************************************)
(* One RTP session: UDPSession (z3_engine/z3_udp_session.cpp) receives     *)
(* datagrams into one buffer and RTPUDPParser (z3_rtsp_client) puts their  *)
(* payloads together to an H.264 frame.  The kernel and the timer work     *)
(* next to the one executor that holds the object's lock, so a step here   *)
(* ends where they can come in between: after the next read was started    *)
(* and between two looks of the parser at the buffer.  A datagram may be   *)
(* shorter than the headers it announces; sizes are unsigned and wrap.     *)
(***************************************************************************)
EXTENDS Integers

CONSTANTS RtpPackets,          \* [nal, marker, header, size] of datagrams
          H264_MAX_FRAME_SIZE,
          SizeRange,           \* 2^32: uint32_t, and size_t of a Win32 build
          MaxDatagrams         \* bound: datagrams that arrive

NalTypes == {"single", "STAP_A", "STAP_B", "FU_start", "FU_middle", "FU_end"}

ASSUME RtpAssumption ==
    /\ H264_MAX_FRAME_SIZE \in Nat /\ SizeRange \in Nat /\ MaxDatagrams \in Nat
    /\ \A p \in RtpPackets :
           /\ p.nal \in NalTypes /\ p.marker \in BOOLEAN /\ p.header \in Nat
           /\ p.size \in Nat \ {0}
           /\ H264_MAX_FRAME_SIZE + p.size < SizeRange

VARIABLES udpOpen,    \* m_hSocket # INVALID_SOCKET
          udpRead,    \* the read: "none", "posted", or "done"
          udpResult,  \* of the done read: its bytes, or -1 for an error
          udpBuf,     \* what a look into m_pUdpRecvBuf finds: the type of
                      \* the NAL, the marker, the length of the RTP header
          udpPc,      \* OnEvRead: "idle", "payload" or "marker"
          nBytes,     \* its argument
          currPos,    \* m_lCurrPos of the frame
          completed,  \* m_bFrameCompleted
          arrived,    \* datagrams so far
          deaf,       \* history: an empty datagram was received, or the
                      \* Close after an error failed
          udpFault    \* the assertion that failed, "overrun" of the frame
                      \* buffer, or "none"

udpVars == <<udpOpen, udpRead, udpResult, udpBuf, udpPc, nBytes, currPos,
             completed, arrived, deaf, udpFault>>

(* A zeroed buffer announces no CSRC and no extension: sizeof(RTP_HDR).    *)
Zeros == [nal |-> "single", marker |-> FALSE, header |-> 12]

(* MediaSession::Init has called Init and StartRead.                       *)
UdpInit ==
    /\ udpOpen = TRUE
    /\ udpRead = "posted"
    /\ udpResult = 0
    /\ udpBuf = Zeros
    /\ udpPc = "idle"
    /\ nBytes = 0
    /\ currPos = 0
    /\ completed = FALSE
    /\ arrived = 0
    /\ deaf = FALSE
    /\ udpFault = "none"

UdpRuns == udpFault = "none"

(* The kernel fills the buffer of the posted read.                         *)
UdpReceives(p) ==
    /\ UdpRuns /\ udpRead = "posted" /\ arrived < MaxDatagrams
    /\ arrived' = arrived + 1
    /\ udpRead' = "done"
    /\ udpResult' = p.size
    /\ udpBuf' = [nal |-> p.nal, marker |-> p.marker, header |-> p.header]
    /\ UNCHANGED <<udpOpen, udpPc, nBytes, currPos, completed, deaf, udpFault>>

(* An empty datagram, or an error.                                         *)
UdpReceivesNothing(result) ==
    /\ UdpRuns /\ udpRead = "posted" /\ arrived < MaxDatagrams
    /\ arrived' = arrived + 1
    /\ udpRead' = "done"
    /\ udpResult' = result
    /\ UNCHANGED <<udpOpen, udpBuf, udpPc, nBytes, currPos, completed, deaf,
                   udpFault>>

(* No datagram for SOCKET_READ_TIMEOUT: CancelIO asserts a file handle,    *)
(* which SocketObj sets in AsyncConnect only.                              *)
UdpOnTimer ==
    /\ UdpRuns /\ udpRead = "posted"
    /\ udpFault' = "cancel"
    /\ UNCHANGED <<udpOpen, udpRead, udpResult, udpBuf, udpPc, nBytes, currPos,
                   completed, arrived, deaf>>

(* StartRead zeroes the buffer; OnEvRead asserts that it succeeds.         *)
UdpStartRead ==
    /\ udpBuf' = Zeros
    /\ \/ udpRead' = "posted" /\ UNCHANGED udpFault
       \/ udpRead' = "none" /\ udpFault' = "start_read"

(* Fault: the parser is called without a new read.                         *)
OnEvReadOnly ==
    /\ udpPc' = "payload"
    /\ nBytes' = udpResult
    /\ udpRead' = "none"
    /\ UNCHANGED <<udpBuf, udpFault>>

(* The rest of OnEvRead after its two early returns: the next read first,  *)
(* then the parser.                                                        *)
OnEvReadGoesOn ==
    /\ udpPc' = "payload"
    /\ nBytes' = udpResult
    /\ UdpStartRead

UdpOnEvRead ==
    /\ UdpRuns /\ udpRead = "done" /\ udpPc = "idle"
    /\ \/ /\ udpResult = -1
          /\ udpRead' = "none"
          /\ \/ udpOpen' = FALSE /\ UNCHANGED deaf
             \/ deaf' = TRUE /\ UNCHANGED udpOpen
          /\ UNCHANGED <<udpBuf, udpPc, nBytes, udpFault>>
       \/ /\ udpResult = 0
          /\ deaf' = TRUE /\ udpRead' = "none"
          /\ UNCHANGED <<udpOpen, udpBuf, udpPc, nBytes, udpFault>>
       \/ /\ udpResult > 0
          /\ OnEvReadGoesOn
          /\ UNCHANGED <<udpOpen, deaf>>
    /\ UNCHANGED <<udpResult, currPos, completed, arrived>>

(* nExpectedHeaderSize, and bNalBegin, which no STAP case assigns.         *)
HeaderSize(nal) ==
    CASE nal = "STAP_A"                -> 1
      [] nal = "STAP_B"                -> 3
      [] nal = "FU_start"              -> 1
      [] nal \in {"FU_middle", "FU_end"} -> 2
      [] OTHER                         -> 0

NalBegin(nal) ==
    CASE nal \in {"STAP_A", "STAP_B"}    -> BOOLEAN
      [] nal \in {"FU_middle", "FU_end"} -> {FALSE}
      [] OTHER                           -> {TRUE}

(* AddNalStartCode leaves the start code out if it does not fit.           *)
AfterStartCode(pos, begin) ==
    IF begin /\ pos + 4 <= H264_MAX_FRAME_SIZE THEN pos + 4 ELSE pos

(* GetPayloadSize: what the header leaves of the bytes received.           *)
PayloadSize == (nBytes - udpBuf.header) % SizeRange

(* FillData(data) behind pos: it asserts that the sum fits, and copies.    *)
FillData(pos, data) ==
    LET sum == (pos + data) % SizeRange
    IN \/ sum > H264_MAX_FRAME_SIZE /\ udpFault' = "frame" /\ currPos' = pos
       \/ /\ sum <= H264_MAX_FRAME_SIZE /\ pos + data > H264_MAX_FRAME_SIZE
          /\ udpFault' = "overrun" /\ currPos' = pos
       \/ /\ pos + data <= H264_MAX_FRAME_SIZE
          /\ currPos' = pos + data /\ UNCHANGED udpFault

(* Parse up to FillData.  Only the FU cases look whether there is more     *)
(* than the header of the NAL.                                             *)
UdpParsePayload ==
    /\ UdpRuns /\ udpPc = "payload"
    /\ LET start == IF completed THEN 0 ELSE currPos
           header == HeaderSize(udpBuf.nal)
       IN \/ /\ udpBuf.nal \in {"FU_start", "FU_middle", "FU_end"}
             /\ PayloadSize <= header
             /\ udpFault' = "fu_header" /\ currPos' = start
          \/ /\ udpBuf.nal \in {"single", "STAP_A", "STAP_B"} \/ PayloadSize > header
             /\ \E begin \in NalBegin(udpBuf.nal) :
                    FillData(AfterStartCode(start, begin),
                             (PayloadSize - header) % SizeRange)
    /\ completed' = FALSE
    /\ udpPc' = "marker"
    /\ UNCHANGED <<udpOpen, udpRead, udpResult, udpBuf, nBytes, arrived, deaf>>

(* IsMarker, and Dispatch of a completed frame.                            *)
UdpParseMarker ==
    /\ UdpRuns /\ udpPc = "marker"
    /\ completed' = udpBuf.marker
    /\ udpPc' = "idle"
    /\ UNCHANGED <<udpOpen, udpRead, udpResult, udpBuf, nBytes, currPos,
                   arrived, deaf, udpFault>>

UdpNext ==
    \/ \E p \in RtpPackets : UdpReceives(p)
    \/ \E result \in {-1, 0} : UdpReceivesNothing(result)
    \/ UdpOnTimer \/ UdpOnEvRead \/ UdpParsePayload \/ UdpParseMarker

UdpSpec == UdpInit /\ [][UdpNext]_udpVars

(* A session that is open can always still receive: while the parser is at *)
(* work the next read is posted or done already, and none is ever missing  *)
(* unless an empty datagram came or the Close after a failed read failed   *)
(* itself: either leaves the socket open and ends the reading for good.    *)
KeepsReceiving ==
    UdpRuns => /\ udpOpen /\ ~deaf => udpRead # "none"
               /\ deaf => udpOpen /\ udpRead = "none"

(* The assertion of H264Frame::FillData: a payload always fits the frame.  *)
(* To be checked for a server whose frames all fit.                        *)
FrameFits == udpFault # "frame"
===============================================================================
