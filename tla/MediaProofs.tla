------------------------------ MODULE MediaProofs -----------------------------
(***************************************************************************)
(* Proofs about the reception of media: the UDP session of UdpRtp, and the *)
(* MediaSessions of MediaTracks, for any number of datagrams and tracks.   *)
(***************************************************************************)
EXTENDS UdpRtp, MediaTracks, TLAPS

(* The number of bytes of a datagram: it fits SOCKET_RECV_BUFSIZE, which   *)
(* together with a whole frame is far from wrapping.                       *)
DatagramSize(n) == n \in Nat /\ H264_MAX_FRAME_SIZE + n < SizeRange

(* A closed socket has no read; the parser is called with the size of a    *)
(* datagram.                                                               *)
ReadsSized ==
    /\ UdpRuns /\ ~udpOpen => udpRead = "none"
    /\ udpRead = "done" => udpResult \in {-1, 0} \/ DatagramSize(udpResult)
    /\ udpPc # "idle" => DatagramSize(nBytes)

(* The write position of the frame, m_lCurrPos, stays inside its buffer,   *)
(* and FillData copies beyond it in one case only: the datagram ends       *)
(* before the headers that Parse finds in the buffer do, so that the size  *)
(* of its payload wraps.                                                   *)
FrameBounded ==
    /\ currPos \in 0 .. H264_MAX_FRAME_SIZE
    /\ udpFault = "overrun" => nBytes < udpBuf.header + HeaderSize(udpBuf.nal)

BufferLooks == [nal : NalTypes, marker : BOOLEAN, header : Nat]

UdpTypeOK ==
    /\ udpOpen \in BOOLEAN /\ completed \in BOOLEAN /\ deaf \in BOOLEAN
    /\ udpRead \in {"none", "posted", "done"}
    /\ udpResult \in Int
    /\ udpBuf \in BufferLooks
    /\ udpPc \in {"idle", "payload", "marker"}
    /\ nBytes \in Int
    /\ arrived \in 0 .. MaxDatagrams
    /\ udpFault \in {"none", "cancel", "start_read", "fu_header", "frame",
                    "overrun"}

UdpInv == UdpTypeOK /\ FrameBounded /\ ReadsSized /\ KeepsReceiving

(* AddNalStartCode adds the start code only where it fits.                *)
LEMMA StartCodeFits ==
    ASSUME NEW pos \in 0 .. H264_MAX_FRAME_SIZE, NEW begin \in BOOLEAN
    PROVE  AfterStartCode(pos, begin) \in 0 .. H264_MAX_FRAME_SIZE
  BY RtpAssumption DEF AfterStartCode

(* Parse skips at most three bytes, and bNalBegin is a Boolean.            *)
LEMMA HeaderIsShort ==
    ASSUME NEW nal \in NalTypes
    PROVE  HeaderSize(nal) \in 0 .. 3 /\ NalBegin(nal) \subseteq BOOLEAN
  <1>1. HeaderSize(nal) \in {0, 1, 2, 3}
    BY DEF HeaderSize, NalTypes
  <1>2. NalBegin(nal) = BOOLEAN \/ NalBegin(nal) = {FALSE} \/ NalBegin(nal) = {TRUE}
    BY DEF NalBegin, NalTypes
  <1>3. HeaderSize(nal) \in 0 .. 3
    BY <1>1
  <1>4. NalBegin(nal) \subseteq BOOLEAN
    BY <1>2, Zenon
  <1> QED  BY <1>3, <1>4

(* A size that does not wrap.                                              *)
LEMMA NoWrap ==
    ASSUME NEW a \in Nat, NEW R \in Nat, a < R PROVE a % R = a
  <1>1. a \in Int /\ R \in Nat \ {0}
    OBVIOUS
  <1>2. PICK q, r \in Int : q = a \div R /\ r = a % R /\ a = R * q + r /\ 0 <= r /\ r < R
    BY <1>1
  <1>3. ~(q >= 1)
    <2>1. SUFFICES ASSUME q >= 1 PROVE FALSE
      OBVIOUS
    <2>2. R * q >= R
      BY <2>1
    <2> QED  BY <1>2, <2>2
  <1>4. ~(q <= -1)
    <2>1. SUFFICES ASSUME q <= -1 PROVE FALSE
      OBVIOUS
    <2>2. R * q <= -R
      BY <2>1
    <2> QED  BY <1>2, <2>2
  <1>5. q = 0
    BY <1>3, <1>4
  <1> QED  BY <1>2, <1>5

(* A size is not negative, wrapped or not.                                 *)
LEMMA WrapIsNat ==
    ASSUME NEW a \in Int, NEW R \in Nat \ {0} PROVE a % R \in Nat
  OBVIOUS

(* What Parse does with the frame behind start, for a NAL header of that   *)
(* many bytes.                                                             *)
Parsed(start, header) ==
    \/ udpFault' = "fu_header" /\ currPos' = start
    \/ \E begin \in NalBegin(udpBuf.nal) :
           FillData(AfterStartCode(start, begin), (PayloadSize - header) % SizeRange)

(* The faults it ends with, and when it overruns.                          *)
AfterParse(header) ==
    /\ udpFault' \in {udpFault, "fu_header", "frame", "overrun"}
    /\ udpFault' = "overrun" => nBytes < udpBuf.header + header

(* FillData moves the position inside the frame's buffer, and writes       *)
(* beyond it only if its sum wraps.                                        *)
LEMMA FillDataStays ==
    ASSUME NEW pos \in 0 .. H264_MAX_FRAME_SIZE, NEW data \in Nat, FillData(pos, data),
           udpFault = "none"
    PROVE  /\ currPos' \in 0 .. H264_MAX_FRAME_SIZE
           /\ udpFault' \in {"none", "frame", "overrun"}
           /\ udpFault' = "overrun" => ~(pos + data < SizeRange)
  <1> USE RtpAssumption DEF FillData
  <1>1. ASSUME pos + data < SizeRange PROVE (pos + data) % SizeRange = pos + data
    BY <1>1, NoWrap
  <1>2. PICK sum : sum = (pos + data) % SizeRange
    OBVIOUS
  <1>3. \/ udpFault' = "frame" /\ currPos' = pos
        \/ /\ sum <= H264_MAX_FRAME_SIZE /\ pos + data > H264_MAX_FRAME_SIZE
           /\ udpFault' = "overrun" /\ currPos' = pos
        \/ /\ pos + data <= H264_MAX_FRAME_SIZE
           /\ currPos' = pos + data /\ udpFault' = udpFault
    BY <1>2
  <1> HIDE DEF FillData
  <1> QED  BY <1>1, <1>2, <1>3

(* A payload is smaller than its datagram unless its size wraps.           *)
LEMMA PayloadFits ==
    ASSUME NEW header \in 0 .. 3, udpBuf.header \in Nat, DatagramSize(nBytes),
           ~(nBytes < udpBuf.header + header)
    PROVE  (PayloadSize - header) % SizeRange <= nBytes
  <1> USE RtpAssumption DEF DatagramSize
  <1>1. PICK h \in Nat : h = udpBuf.header
    OBVIOUS
  <1>2. nBytes - h \in Nat /\ nBytes - h < SizeRange
    BY <1>1
  <1>3. PayloadSize = nBytes - h
    BY <1>1, <1>2, NoWrap DEF PayloadSize
  <1>4. nBytes - h - header \in Nat /\ nBytes - h - header < SizeRange
    BY <1>1
  <1>5. (PayloadSize - header) % SizeRange = nBytes - h - header
    BY <1>3, <1>4, NoWrap
  <1> QED  BY <1>1, <1>5

LEMMA ParseStays ==
    ASSUME NEW start \in 0 .. H264_MAX_FRAME_SIZE, NEW header \in 0 .. 3,
           udpBuf.nal \in NalTypes, udpBuf.header \in Nat, DatagramSize(nBytes),
           udpFault = "none", Parsed(start, header)
    PROVE  currPos' \in 0 .. H264_MAX_FRAME_SIZE /\ AfterParse(header)
  <1>1. SizeRange \in Nat \ {0} /\ nBytes \in Nat
    BY RtpAssumption DEF DatagramSize
  <1>2. CASE udpFault' = "fu_header" /\ currPos' = start
    BY <1>2 DEF AfterParse
  <1>3. ASSUME NEW begin \in NalBegin(udpBuf.nal),
               FillData(AfterStartCode(start, begin), (PayloadSize - header) % SizeRange)
        PROVE  currPos' \in 0 .. H264_MAX_FRAME_SIZE /\ AfterParse(header)
    <2>1. PICK pos \in 0 .. H264_MAX_FRAME_SIZE : pos = AfterStartCode(start, begin)
      BY StartCodeFits, HeaderIsShort
    <2>2. PayloadSize \in Int
      <3>1. nBytes - udpBuf.header \in Int
        BY <1>1
      <3> QED  BY <1>1, <3>1, WrapIsNat DEF PayloadSize
    <2>3. PICK data \in Nat : data = (PayloadSize - header) % SizeRange
      <3>1. PayloadSize - header \in Int
        BY <2>2
      <3> QED  BY <1>1, <3>1, WrapIsNat
    <2>4. /\ currPos' \in 0 .. H264_MAX_FRAME_SIZE
          /\ udpFault' \in {"none", "frame", "overrun"}
          /\ udpFault' = "overrun" => ~(pos + data < SizeRange)
      BY <1>3, <2>1, <2>3, FillDataStays
    <2>5. ASSUME ~(nBytes < udpBuf.header + header) PROVE pos + data < SizeRange
      <3>1. data <= nBytes
        BY <2>3, <2>5, PayloadFits
      <3> QED  BY <1>1, <2>1, <3>1, RtpAssumption DEF DatagramSize
    <2> QED  BY <2>4, <2>5 DEF AfterParse
  <1> QED  BY <1>2, <1>3 DEF Parsed

(* UdpInv is inductive.                                                    *)
LEMMA UdpStep == ASSUME UdpInv, [UdpNext]_udpVars PROVE UdpInv'
  <1> USE RtpAssumption DEF UdpInv, FrameBounded, ReadsSized, KeepsReceiving, UdpRuns
  <1>1. ASSUME NEW p \in RtpPackets, UdpReceives(p) PROVE UdpInv'
    <2>1. /\ p.nal \in NalTypes /\ p.marker \in BOOLEAN /\ p.header \in Nat
          /\ DatagramSize(p.size)
      BY DEF DatagramSize
    <2>2. udpBuf' \in BufferLooks
      BY <1>1, <2>1 DEF UdpReceives, BufferLooks
    <2> QED  BY <1>1, <2>1, <2>2 DEF UdpReceives, UdpTypeOK
  <1>2. ASSUME NEW result \in {-1, 0}, UdpReceivesNothing(result) PROVE UdpInv'
    BY <1>2 DEF UdpReceivesNothing, UdpTypeOK
  <1>3. CASE UdpOnTimer
    BY <1>3 DEF UdpOnTimer, UdpTypeOK
  <1>4. CASE UdpOnEvRead
    <2>1. Zeros \in BufferLooks
      BY DEF Zeros, NalTypes, BufferLooks
    <2>2. udpBuf' \in BufferLooks
      BY <1>4, <2>1 DEF UdpOnEvRead, OnEvReadGoesOn, UdpStartRead, UdpTypeOK
    <2> USE DEF UdpOnEvRead, OnEvReadGoesOn, UdpStartRead, UdpTypeOK
    <2>3. CASE udpResult = -1
      <3>1. /\ udpRead' = "none" /\ udpResult' = udpResult
            /\ \/ udpOpen' = FALSE /\ deaf' = deaf
               \/ deaf' = TRUE /\ udpOpen' = udpOpen
            /\ UNCHANGED <<udpPc, nBytes, currPos, completed, arrived, udpFault>>
        BY <1>4, <2>3
      <3>2. ~deaf /\ udpOpen = TRUE /\ udpFault = "none"
        BY <1>4
      <3>3. UdpTypeOK'
        BY <2>2, <3>1, <3>2
      <3> QED  BY <3>1, <3>2, <3>3
    <2>4. CASE udpResult = 0
      BY <1>4, <2>2, <2>4
    <2>5. CASE udpResult > 0
      BY <1>4, <2>2, <2>5
    <2> QED  BY <1>4, <2>3, <2>4, <2>5
  <1>5. CASE UdpParsePayload
    <2>1. /\ udpBuf.nal \in NalTypes /\ udpBuf.header \in Nat /\ DatagramSize(nBytes)
          /\ udpFault = "none"
      BY <1>5 DEF UdpParsePayload, UdpTypeOK, BufferLooks
    <2> DEFINE start == IF completed THEN 0 ELSE currPos
               header == HeaderSize(udpBuf.nal)
    <2>2. start \in 0 .. H264_MAX_FRAME_SIZE /\ header \in 0 .. 3
      BY <2>1, HeaderIsShort
    <2>3. Parsed(start, header)
      BY <1>5 DEF UdpParsePayload, Parsed
    <2>4. currPos' \in 0 .. H264_MAX_FRAME_SIZE /\ AfterParse(header)
      <3> HIDE DEF start, header
      <3> QED  BY <2>1, <2>2, <2>3, ParseStays
    <2>5. FrameBounded'
      <3>1. nBytes' = nBytes /\ udpBuf' = udpBuf
        BY <1>5 DEF UdpParsePayload
      <3> QED  BY <2>4, <3>1 DEF AfterParse
    <2>6. udpFault' \in {"none", "fu_header", "frame", "overrun"}
      BY <2>1, <2>4 DEF AfterParse
    <2> QED  BY <1>5, <2>5, <2>6 DEF UdpParsePayload, UdpTypeOK
  <1>6. CASE UdpParseMarker
    <2>1. udpBuf.marker \in BOOLEAN
      BY DEF UdpTypeOK, BufferLooks
    <2> QED  BY <1>6, <2>1 DEF UdpParseMarker, UdpTypeOK
  <1>7. CASE UNCHANGED udpVars
    BY <1>7 DEF udpVars, UdpTypeOK
  <1> QED  BY <1>1, <1>2, <1>3, <1>4, <1>5, <1>6, <1>7 DEF UdpNext

(* UdpInv holds in every reachable state.                                  *)
LEMMA UdpInvariant == UdpSpec => []UdpInv
  <1>1. UdpInit => UdpInv
    <2>1. Zeros \in BufferLooks
      BY DEF Zeros, NalTypes, BufferLooks
    <2> SUFFICES ASSUME UdpInit PROVE UdpInv
      OBVIOUS
    <2>2. UdpTypeOK
      <3>1. 0 \in 0 .. MaxDatagrams
        BY RtpAssumption
      <3>2. udpOpen \in BOOLEAN /\ completed \in BOOLEAN /\ deaf \in BOOLEAN
        BY Zenon DEF UdpInit
      <3> QED  BY <2>1, <3>1, <3>2 DEF UdpInit, UdpTypeOK
    <2>3. FrameBounded
      BY RtpAssumption DEF UdpInit, FrameBounded
    <2>4. ReadsSized
      BY DEF UdpInit, ReadsSized
    <2>5. KeepsReceiving
      BY DEF UdpInit, KeepsReceiving
    <2> QED  BY <2>2, <2>3, <2>4, <2>5 DEF UdpInv
  <1> QED  BY <1>1, UdpStep, PTL DEF UdpSpec

(* An open UDP session that met no empty datagram always has a read posted *)
(* or completed: OnEvRead starts the next one before it parses.            *)
THEOREM SessionKeepsReceiving == UdpSpec => []KeepsReceiving
  <1>1. UdpInv => KeepsReceiving
    BY DEF UdpInv
  <1> QED  BY <1>1, UdpInvariant, PTL

(* For every server and every sequence of datagrams, also ones shorter     *)
(* than their headers: m_lCurrPos stays inside the frame's buffer, and     *)
(* FillData copies beyond its end only when the received bytes end before  *)
(* the RTP and NAL headers that Parse finds in the buffer do.  There the   *)
(* unsigned size wraps and the test of FillData can pass.  A payload of    *)
(* its true size that does not fit ends in the assertion instead.          *)
THEOREM FrameStaysInBuffer == UdpSpec => []FrameBounded
  <1>1. UdpInv => FrameBounded
    BY DEF UdpInv
  <1> QED  BY <1>1, UdpInvariant, PTL
-------------------------------------------------------------------------------
(* MediaTracks.  The UDP sessions of all tracks.                           *)
AllUdp == AllTracks \X Udp

MediaTypeOK ==
    /\ track \in 0 .. MaxMediaTracks
    /\ mediaPc \in {"idle", "init_rtp", "start_rtp", "init_rtcp", "start_rtcp", "add",
                    "failed"}
    /\ portPairs \subseteq AllTracks /\ sessions \subseteq AllTracks
    /\ socket \in [AllUdp -> {"none", "open", "closed"}]
    /\ posted \subseteq AllUdp /\ notified \subseteq AllUdp
    /\ mediaEnd \in {"none", "deleted", "assert_socket", "assert_read", "null_list",
                     "null_name", "use_deleted"}

(* A UDP session that was opened and still has its read, if it needs one.  *)
Receiving(t, k) ==
    /\ socket[<<t, k>>] # "none"
    /\ socket[<<t, k>>] = "open" => <<t, k>> \in posted \cup notified \cup quiet

SessionsComplete ==
    \A t \in sessions, k \in Udp : t \in portPairs /\ Receiving(t, k)

(* A read is posted or queued, never both, on an open socket only.         *)
ReadsOnOpen ==
    /\ posted \cap notified = {}
    /\ \A u \in AllUdp : u \in posted \cup notified => socket[u] = "open"

NoneDangling ==
    mediaEnd # "assert_socket" => (posted \cup notified) \cap released = {}

(* A SETUP that has not begun has no UDP session and was not deleted.      *)
FutureTracks ==
    \A t \in AllTracks, k \in Udp :
        t > track => socket[<<t, k>>] = "none" /\ <<t, k>> \notin released

(* The SETUP in progress: how far MediaSession::Init has come.             *)
CurrentTrack ==
    LET rtp == <<track, "rtp">>
        rtcp == <<track, "rtcp">>
    IN  /\ mediaPc # "idle" =>
               /\ track # 0 /\ track \notin sessions
               /\ rtp \notin released /\ rtcp \notin released
        /\ mediaPc \notin {"idle", "failed"} => track \in portPairs
        /\ mediaPc = "init_rtp" => socket[rtp] = "none"
        /\ mediaPc = "start_rtp" =>
               socket[rtp] = "open" /\ rtp \notin posted \cup notified
        /\ mediaPc \in {"init_rtcp", "start_rtcp", "add"} => Receiving(track, "rtp")
        /\ mediaPc \in {"init_rtp", "start_rtp", "init_rtcp"} => socket[rtcp] = "none"
        /\ mediaPc = "start_rtcp" =>
               socket[rtcp] = "open" /\ rtcp \notin posted \cup notified
        /\ mediaPc = "add" => Receiving(track, "rtcp")

(* The deletion comes between two SETUPs.                                  *)
EndsIdle == mediaEnd \in {"deleted", "null_list"} => mediaPc = "idle"

(* The sessions are those of SETUPs that have begun.                       *)
PastSessions == \A t \in sessions : t <= track

MediaInv ==
    /\ MediaTypeOK /\ SessionsComplete /\ ReadsOnOpen /\ NoneDangling
    /\ FutureTracks /\ CurrentTrack /\ EndsIdle /\ PastSessions

(* A track and a kind name one UDP session.                                *)
LEMMA UdpNames ==
    /\ \A t \in AllTracks, k \in Udp : <<t, k>> \in AllUdp
    /\ \A t, s \in AllTracks, k, j \in Udp : <<t, k>> = <<s, j>> => t = s /\ k = j
    /\ "rtp" \in Udp /\ "rtcp" \in Udp /\ "rtp" # "rtcp"
  BY DEF AllUdp, Udp

(* A SETUP in progress has a track of the description.                     *)
LEMMA TrackNumbers ==
    ASSUME MediaInv, mediaPc # "idle"
    PROVE  track \in AllTracks /\ track \in Nat
  BY TracksAssumption DEF MediaInv, MediaTypeOK, CurrentTrack, AllTracks

(* A SETUP begins with a track nothing is known of yet.                    *)
LEMMA GetPairPortsStep == ASSUME MediaInv, GetPairPorts PROVE MediaInv'
  <1> DEFINE t == track + 1
  <1>1. /\ t \in AllTracks /\ track' = t /\ t > track /\ t \in 0 .. MaxMediaTracks
        /\ track \in Nat /\ mediaPc = "idle" /\ mediaEnd = "none"
    BY TracksAssumption
       DEF GetPairPorts, MediaInv, MediaTypeOK, AllTracks, MediaAt, MediaLives
  <1>2. /\ UNCHANGED <<sessions, socket, posted, notified, quiet, released>>
        /\ mediaEnd' \in {"none", "null_name"}
        /\ \/ portPairs' = portPairs \cup {t} /\ mediaPc' = "init_rtp"
           \/ mediaPc' \in {"idle", "failed"} /\ portPairs' = portPairs
    BY <1>1 DEF GetPairPorts
  <1>3. /\ t \notin sessions
        /\ \A k \in Udp : socket[<<t, k>>] = "none" /\ <<t, k>> \notin released
    BY <1>1 DEF MediaInv, FutureTracks, PastSessions
  <1>4. MediaTypeOK'
    BY <1>1, <1>2 DEF MediaInv, MediaTypeOK
  <1>5. SessionsComplete'
    <2>1. ASSUME NEW q \in sessions, NEW k \in Udp
          PROVE  q \in portPairs' /\ Receiving(q, k)'
      BY <1>2 DEF MediaInv, SessionsComplete, Receiving
    <2> QED  BY <1>2, <2>1 DEF SessionsComplete
  <1>6. ReadsOnOpen' /\ NoneDangling'
    BY <1>1, <1>2 DEF MediaInv, ReadsOnOpen, NoneDangling
  <1>7. FutureTracks' /\ PastSessions'
    BY <1>1, <1>2 DEF MediaInv, MediaTypeOK, FutureTracks, PastSessions, AllTracks
  <1>8. CurrentTrack'
    BY <1>1, <1>2, <1>3, UdpNames DEF CurrentTrack
  <1>9. EndsIdle'
    BY <1>1, <1>2 DEF EndsIdle
  <1> QED  BY <1>4, <1>5, <1>6, <1>7, <1>8, <1>9 DEF MediaInv

(* UDPSession::Init of a session whose socket was not made yet.            *)
LEMMA SocketStep ==
    ASSUME MediaInv, mediaPc \in {"init_rtp", "init_rtcp"}, NEW k \in Udp,
           socket[<<track, k>>] = "none",
           NEW s \in {"none", "open", "closed"},
           socket' = [socket EXCEPT ![<<track, k>>] = s],
           UNCHANGED <<track, portPairs, sessions, posted, notified, quiet, released, mediaEnd>>
    PROVE  /\ socket'[<<track, k>>] = s /\ <<track, k>> \notin posted \cup notified
           /\ \A u \in AllUdp : u # <<track, k>> => socket'[u] = socket[u]
           /\ \A t \in AllTracks, j \in Udp : Receiving(t, j) => Receiving(t, j)'
           /\ socket' \in [AllUdp -> {"none", "open", "closed"}]
           /\ SessionsComplete' /\ ReadsOnOpen' /\ NoneDangling' /\ FutureTracks'
           /\ PastSessions'
  <1>1. track \in AllTracks /\ <<track, k>> \in AllUdp
    BY TrackNumbers, UdpNames
  <1>2. /\ socket'[<<track, k>>] = s
        /\ \A u \in AllUdp : u # <<track, k>> => socket'[u] = socket[u]
        /\ socket' \in [AllUdp -> {"none", "open", "closed"}]
    BY <1>1 DEF MediaInv, MediaTypeOK
  <1>3. <<track, k>> \notin posted \cup notified
    BY <1>1 DEF MediaInv, ReadsOnOpen
  <1>4. \A t \in AllTracks, j \in Udp : Receiving(t, j) => Receiving(t, j)'
    BY <1>2, UdpNames DEF Receiving
  <1>5. SessionsComplete'
    <2>1. ASSUME NEW t \in sessions, NEW j \in Udp
          PROVE  t \in portPairs /\ Receiving(t, j)'
      <3>1. t \in portPairs /\ Receiving(t, j) /\ t \in AllTracks
        BY DEF MediaInv, MediaTypeOK, SessionsComplete
      <3> QED  BY <1>4, <3>1
    <2> QED  BY <2>1 DEF SessionsComplete
  <1>6. ReadsOnOpen' /\ NoneDangling' /\ PastSessions'
    BY <1>2, <1>3 DEF MediaInv, ReadsOnOpen, NoneDangling, PastSessions
  <1>7. FutureTracks'
    <2>1. ASSUME NEW t \in AllTracks, NEW j \in Udp, t > track
          PROVE  socket'[<<t, j>>] = "none" /\ <<t, j>> \notin released
      <3>1. <<t, j>> \in AllUdp /\ <<t, j>> # <<track, k>>
        BY <1>1, <2>1, UdpNames, TrackNumbers DEF AllTracks
      <3> QED  BY <1>2, <2>1, <3>1 DEF MediaInv, FutureTracks
    <2> QED  BY <2>1 DEF FutureTracks
  <1> QED  BY <1>2, <1>3, <1>4, <1>5, <1>6, <1>7

(* The RTP session is opened first, or the SETUP fails.                    *)
LEMMA InitRtpStep == ASSUME MediaInv, InitRtp PROVE MediaInv'
  <1>1. /\ mediaPc = "init_rtp" /\ mediaEnd = "none"
        /\ UNCHANGED <<track, portPairs, sessions, posted, notified, quiet, released, mediaEnd>>
    BY DEF InitRtp, MediaAt, MediaLives
  <1>2. PICK s \in {"none", "open", "closed"} :
            /\ socket' = [socket EXCEPT ![<<track, "rtp">>] = s]
            /\ \/ s = "open" /\ mediaPc' = "start_rtp"
               \/ mediaPc' = "failed"
    BY DEF InitRtp, UdpSessionInit
  <1>3. socket[<<track, "rtp">>] = "none" /\ track \in AllTracks
    BY <1>1, TrackNumbers DEF MediaInv, CurrentTrack
  <1>4. /\ socket'[<<track, "rtp">>] = s /\ <<track, "rtp">> \notin posted \cup notified
        /\ \A u \in AllUdp : u # <<track, "rtp">> => socket'[u] = socket[u]
        /\ socket' \in [AllUdp -> {"none", "open", "closed"}]
        /\ SessionsComplete' /\ ReadsOnOpen' /\ NoneDangling' /\ FutureTracks'
        /\ PastSessions'
    BY <1>1, <1>2, <1>3, UdpNames, SocketStep
  <1>5. socket'[<<track, "rtcp">>] = "none"
    BY <1>1, <1>3, <1>4, UdpNames DEF MediaInv, CurrentTrack
  <1>6. CurrentTrack'
    BY <1>1, <1>2, <1>4, <1>5 DEF MediaInv, CurrentTrack
  <1>7. MediaTypeOK' /\ EndsIdle'
    BY <1>1, <1>2, <1>4 DEF MediaInv, MediaTypeOK, EndsIdle
  <1> QED  BY <1>4, <1>6, <1>7 DEF MediaInv

(* The RTCP session is opened while RTP already receives.                  *)
LEMMA InitRtcpStep == ASSUME MediaInv, InitRtcp PROVE MediaInv'
  <1>1. /\ mediaPc = "init_rtcp" /\ mediaEnd = "none"
        /\ UNCHANGED <<track, portPairs, sessions, posted, notified, quiet, released, mediaEnd>>
    BY DEF InitRtcp, MediaAt, MediaLives
  <1>2. PICK s \in {"none", "open", "closed"} :
            /\ socket' = [socket EXCEPT ![<<track, "rtcp">>] = s]
            /\ \/ s = "open" /\ mediaPc' = "start_rtcp"
               \/ mediaPc' = "failed"
    BY DEF InitRtcp, UdpSessionInit
  <1>3. /\ socket[<<track, "rtcp">>] = "none" /\ track \in AllTracks
        /\ Receiving(track, "rtp") /\ <<track, "rtp">> \in AllUdp
    BY <1>1, TrackNumbers, UdpNames DEF MediaInv, CurrentTrack
  <1>4. /\ socket'[<<track, "rtcp">>] = s /\ <<track, "rtcp">> \notin posted \cup notified
        /\ \A t \in AllTracks, j \in Udp : Receiving(t, j) => Receiving(t, j)'
        /\ socket' \in [AllUdp -> {"none", "open", "closed"}]
        /\ SessionsComplete' /\ ReadsOnOpen' /\ NoneDangling' /\ FutureTracks'
        /\ PastSessions'
    BY <1>1, <1>2, <1>3, UdpNames, SocketStep
  <1>5. Receiving(track, "rtp")'
    BY <1>1, <1>3, <1>4, UdpNames DEF Receiving
  <1>6. CurrentTrack'
    BY <1>1, <1>2, <1>4, <1>5 DEF MediaInv, CurrentTrack
  <1>7. MediaTypeOK' /\ EndsIdle'
    BY <1>1, <1>2, <1>4 DEF MediaInv, MediaTypeOK, EndsIdle
  <1> QED  BY <1>4, <1>6, <1>7 DEF MediaInv

(* StartRead posts the first read of an open session.                      *)
LEMMA PostedStep ==
    ASSUME MediaInv, mediaPc # "idle", mediaEnd = "none", NEW k \in Udp,
           socket[<<track, k>>] = "open", <<track, k>> \notin posted \cup notified,
           posted' = posted \cup {<<track, k>>},
           UNCHANGED <<track, portPairs, sessions, socket, notified, quiet, released, mediaEnd>>
    PROVE  /\ Receiving(track, k)' /\ posted' \subseteq AllUdp
           /\ \A t \in AllTracks, j \in Udp : Receiving(t, j) => Receiving(t, j)'
           /\ SessionsComplete' /\ ReadsOnOpen' /\ NoneDangling' /\ FutureTracks'
           /\ PastSessions'
  <1>1. track \in AllTracks /\ <<track, k>> \in AllUdp /\ <<track, k>> \notin released
    <2>1. <<track, "rtp">> \notin released /\ <<track, "rtcp">> \notin released
      BY DEF MediaInv, CurrentTrack
    <2>2. k = "rtp" \/ k = "rtcp"
      BY DEF Udp
    <2>3. <<track, k>> \notin released
      BY <2>1, <2>2
    <2> QED  BY <2>3, TrackNumbers, UdpNames
  <1>2. Receiving(track, k)' /\ posted' \subseteq AllUdp
    BY <1>1 DEF Receiving, MediaInv, MediaTypeOK
  <1>3. \A t \in AllTracks, j \in Udp : Receiving(t, j) => Receiving(t, j)'
    BY DEF Receiving
  <1>4. SessionsComplete'
    <2>1. ASSUME NEW t \in sessions, NEW j \in Udp
          PROVE  t \in portPairs /\ Receiving(t, j)'
      <3>1. t \in portPairs /\ Receiving(t, j) /\ t \in AllTracks
        BY DEF MediaInv, MediaTypeOK, SessionsComplete
      <3> QED  BY <1>3, <3>1
    <2> QED  BY <2>1 DEF SessionsComplete
  <1>5. ReadsOnOpen' /\ NoneDangling'
    BY <1>1 DEF MediaInv, ReadsOnOpen, NoneDangling
  <1>6. FutureTracks' /\ PastSessions'
    BY DEF MediaInv, FutureTracks, PastSessions
  <1> QED  BY <1>2, <1>3, <1>4, <1>5, <1>6

(* A step of the current SETUP that only fails, or only goes on.           *)
LEMMA OnlyPcStep ==
    ASSUME MediaInv, MediaLives, CurrentTrack',
           mediaPc' \in {"idle", "init_rtp", "start_rtp", "init_rtcp", "start_rtcp", "add",
                         "failed"},
           UNCHANGED <<track, portPairs, sessions, socket, posted, notified, quiet,
                       released, mediaEnd>>
    PROVE  MediaInv'
  <1>1. SessionsComplete'
    <2>1. ASSUME NEW t \in sessions, NEW j \in Udp
          PROVE  t \in portPairs /\ Receiving(t, j)'
      BY DEF MediaInv, SessionsComplete, Receiving
    <2> QED  BY <2>1 DEF SessionsComplete
  <1>2. MediaTypeOK' /\ ReadsOnOpen' /\ NoneDangling'
    BY DEF MediaInv, MediaTypeOK, ReadsOnOpen, NoneDangling
  <1>3. FutureTracks' /\ EndsIdle' /\ PastSessions'
    BY DEF MediaInv, FutureTracks, EndsIdle, PastSessions, MediaLives
  <1> QED  BY <1>1, <1>2, <1>3 DEF MediaInv

(* Both sessions start their first read on an open socket.                 *)
LEMMA StartStep == ASSUME MediaInv, StartRtp \/ StartRtcp PROVE MediaInv'
  <1>1. /\ MediaLives /\ mediaEnd = "none" /\ mediaPc \in {"start_rtp", "start_rtcp"}
        /\ UNCHANGED <<track, portPairs, sessions, socket, notified, quiet, released, mediaEnd>>
    BY DEF StartRtp, StartRtcp, MediaAt, MediaLives
  <1>2. CASE mediaPc' = "failed" /\ UNCHANGED posted
    <2>1. CurrentTrack'
      BY <1>1, <1>2 DEF MediaInv, CurrentTrack
    <2> QED  BY <1>1, <1>2, <2>1, OnlyPcStep
  <1>3. CASE /\ mediaPc = "start_rtp" /\ mediaPc' = "init_rtcp"
             /\ posted' = posted \cup {<<track, "rtp">>}
    <2>1. /\ Receiving(track, "rtp")' /\ posted' \subseteq AllUdp
          /\ SessionsComplete' /\ ReadsOnOpen' /\ NoneDangling' /\ FutureTracks'
          /\ PastSessions'
      BY <1>1, <1>3, PostedStep, UdpNames DEF MediaInv, CurrentTrack
    <2>2. CurrentTrack'
      BY <1>1, <1>3, <2>1 DEF MediaInv, CurrentTrack
    <2>3. MediaTypeOK' /\ EndsIdle'
      BY <1>1, <1>3, <2>1 DEF MediaInv, MediaTypeOK, EndsIdle
    <2> QED  BY <2>1, <2>2, <2>3 DEF MediaInv
  <1>4. CASE /\ mediaPc = "start_rtcp" /\ mediaPc' = "add"
             /\ posted' = posted \cup {<<track, "rtcp">>}
    <2>1. /\ Receiving(track, "rtcp")' /\ posted' \subseteq AllUdp
          /\ \A t \in AllTracks, j \in Udp : Receiving(t, j) => Receiving(t, j)'
          /\ SessionsComplete' /\ ReadsOnOpen' /\ NoneDangling' /\ FutureTracks'
          /\ PastSessions'
      BY <1>1, <1>4, PostedStep, UdpNames DEF MediaInv, CurrentTrack
    <2>2. track \in AllTracks /\ Receiving(track, "rtp")
      BY <1>4, TrackNumbers DEF MediaInv, CurrentTrack
    <2>3. Receiving(track, "rtp")'
      BY <1>1, <2>1, <2>2, UdpNames DEF Receiving
    <2>4. CurrentTrack'
      BY <1>1, <1>4, <2>1, <2>3 DEF MediaInv, CurrentTrack
    <2>5. MediaTypeOK' /\ EndsIdle'
      BY <1>1, <1>4, <2>1 DEF MediaInv, MediaTypeOK, EndsIdle
    <2> QED  BY <2>1, <2>4, <2>5 DEF MediaInv
  <1> QED  BY <1>2, <1>3, <1>4
           DEF StartRtp, StartRtcp, UdpSessionStartRead, MediaAt

(* Only a MediaSession whose two UDP sessions receive is added.            *)
LEMMA AddStep == ASSUME MediaInv, AddMediaSession PROVE MediaInv'
  <1>1. /\ mediaPc = "add" /\ mediaEnd = "none" /\ mediaPc' = "idle"
        /\ sessions' = sessions \cup {track}
        /\ UNCHANGED <<track, portPairs, socket, posted, notified, quiet, released, mediaEnd>>
    BY DEF AddMediaSession, MediaAt, MediaLives
  <1>2. /\ track \in AllTracks /\ track \in Nat /\ track \in portPairs
        /\ Receiving(track, "rtp") /\ Receiving(track, "rtcp")
    BY <1>1, TrackNumbers DEF MediaInv, CurrentTrack
  <1>3. SessionsComplete'
    <2>1. ASSUME NEW t \in sessions', NEW j \in Udp
          PROVE  t \in portPairs /\ Receiving(t, j)
      <3>1. CASE t \in sessions
        BY <3>1 DEF MediaInv, SessionsComplete
      <3>2. CASE t = track
        BY <1>2, <3>2 DEF Udp
      <3> QED  BY <1>1, <3>1, <3>2
    <2>2. ASSUME NEW t, NEW j, Receiving(t, j) PROVE Receiving(t, j)'
      BY <1>1, <2>2 DEF Receiving
    <2> QED  BY <1>1, <2>1, <2>2 DEF SessionsComplete
  <1>4. MediaTypeOK' /\ ReadsOnOpen' /\ NoneDangling'
    BY <1>1, <1>2 DEF MediaInv, MediaTypeOK, ReadsOnOpen, NoneDangling
  <1>5. FutureTracks' /\ CurrentTrack' /\ EndsIdle'
    BY <1>1 DEF MediaInv, FutureTracks, CurrentTrack, EndsIdle
  <1>6. PastSessions'
    BY <1>1, <1>2 DEF MediaInv, PastSessions
  <1> QED  BY <1>3, <1>4, <1>5, <1>6 DEF MediaInv

(* Deleting UDP sessions of past tracks: an open one stops the process, a  *)
(* closed one has no read that could dangle.                               *)
LEMMA ReleaseStep ==
    ASSUME MediaInv, MediaLives, NEW ts \in SUBSET AllTracks, \A t \in ts : t <= track,
           NEW end \in {"none", "deleted"}, ReleaseAll(ts \X Udp, end), mediaPc' = "idle",
           UNCHANGED <<track, portPairs, sessions, socket, posted, notified, quiet>>
    PROVE  MediaInv'
  <1>1. ts \X Udp \subseteq AllUdp
    BY DEF AllUdp
  <1>2. /\ released' = released \cup (ts \X Udp)
        /\ \/ mediaEnd' = "assert_socket"
           \/ mediaEnd' = end /\ \A u \in ts \X Udp : socket[u] # "open"
    BY DEF ReleaseAll
  <1>3. NoneDangling'
    <2>1. CASE mediaEnd' = "assert_socket"
      BY <2>1 DEF NoneDangling
    <2>2. CASE \A u \in ts \X Udp : socket[u] # "open"
      <3>1. (posted \cup notified) \cap (ts \X Udp) = {}
        BY <1>1, <2>2 DEF MediaInv, ReadsOnOpen
      <3>2. (posted \cup notified) \cap released = {}
        BY DEF MediaInv, NoneDangling, MediaLives
      <3> QED  BY <1>2, <3>1, <3>2 DEF NoneDangling
    <2> QED  BY <1>2, <2>1, <2>2
  <1>4. SessionsComplete'
    <2>1. ASSUME NEW t \in sessions, NEW j \in Udp
          PROVE  t \in portPairs /\ Receiving(t, j)'
      BY DEF MediaInv, SessionsComplete, Receiving
    <2> QED  BY <2>1 DEF SessionsComplete
  <1>5. FutureTracks'
    <2>1. ASSUME NEW t \in AllTracks, NEW j \in Udp, t > track
          PROVE  socket[<<t, j>>] = "none" /\ <<t, j>> \notin released'
      <3>1. t \notin ts
        BY <2>1 DEF MediaInv, MediaTypeOK, AllTracks
      <3>2. <<t, j>> \notin ts \X Udp
        BY <3>1
      <3> QED  BY <1>2, <2>1, <3>2 DEF MediaInv, FutureTracks
    <2> QED  BY <2>1 DEF FutureTracks
  <1>6. MediaTypeOK' /\ ReadsOnOpen'
    BY <1>2 DEF MediaInv, MediaTypeOK, ReadsOnOpen
  <1>7. CurrentTrack' /\ EndsIdle' /\ PastSessions'
    BY DEF MediaInv, CurrentTrack, EndsIdle, PastSessions
  <1> QED  BY <1>3, <1>4, <1>5, <1>6, <1>7 DEF MediaInv

(* ~MediaSession of a failed SETUP, and ~RtspMedia.                        *)
LEMMA DeleteStep == ASSUME MediaInv, MediaSessionFailed \/ DeleteRtspMedia PROVE MediaInv'
  <1>1. CASE MediaSessionFailed
    <2>1. mediaPc = "failed" /\ MediaLives
      BY <1>1 DEF MediaSessionFailed, MediaAt
    <2>2. {track} \in SUBSET AllTracks /\ track \in Nat
      BY <2>1, TrackNumbers
    <2>3. \A t \in {track} : t <= track
      BY <2>2
    <2> QED  BY <1>1, <2>1, <2>2, <2>3, ReleaseStep DEF MediaSessionFailed
  <1>2. CASE DeleteRtspMedia /\ sessions # {}
    <2>1. /\ MediaLives /\ mediaPc' = "idle" /\ ReleaseAll(sessions \X Udp, "deleted")
          /\ UNCHANGED <<track, portPairs, sessions, socket, posted, notified, quiet>>
      BY <1>2 DEF DeleteRtspMedia, MediaAt
    <2>2. sessions \in SUBSET AllTracks /\ \A t \in sessions : t <= track
      BY DEF MediaInv, MediaTypeOK, PastSessions
    <2> QED  BY <2>1, <2>2, ReleaseStep
  <1>3. CASE DeleteRtspMedia /\ sessions = {}
    <2>1. /\ mediaPc = "idle" /\ mediaEnd' = "null_list" /\ mediaEnd = "none"
          /\ UNCHANGED <<track, mediaPc, portPairs, sessions, socket, posted, notified,
                         quiet, released>>
      BY <1>3 DEF DeleteRtspMedia, MediaAt, MediaLives
    <2>2. SessionsComplete' /\ PastSessions'
      BY <1>3, <2>1 DEF SessionsComplete, PastSessions
    <2>3. MediaTypeOK' /\ ReadsOnOpen' /\ NoneDangling'
      BY <2>1 DEF MediaInv, MediaTypeOK, ReadsOnOpen, NoneDangling
    <2>4. FutureTracks' /\ CurrentTrack' /\ EndsIdle'
      BY <2>1 DEF MediaInv, FutureTracks, CurrentTrack, EndsIdle
    <2> QED  BY <2>2, <2>3, <2>4 DEF MediaInv
  <1> QED  BY <1>1, <1>2, <1>3

(* The steps of the UDP sessions: a read ends, and the next one replaces   *)
(* it, or none does and the session is quiet or closed.                    *)
ReadEnds(u) ==
    /\ u \in posted \cup notified
    /\ posted' \cap notified' = {} /\ posted' \cup notified' \subseteq posted \cup notified
    /\ \A w \in AllUdp : \/ socket'[w] = socket[w]
                         \/ w = u /\ w \notin posted' \cup notified' /\ socket'[w] = "closed"
    /\ \A w \in AllUdp : w \in posted \cup notified \cup quiet =>
           w \in posted' \cup notified' \cup quiet' \/ socket'[w] = "closed"
    /\ socket' \in [AllUdp -> {"none", "open", "closed"}]
    /\ mediaEnd \in {"none", "deleted"} /\ mediaEnd' \in {mediaEnd, "assert_read"}
    /\ UNCHANGED <<track, mediaPc, portPairs, sessions, released>>

(* The end of a read keeps the invariant, also in the middle of a SETUP.   *)
LEMMA ReadEndsStep == ASSUME MediaInv, NEW u \in AllUdp, ReadEnds(u) PROVE MediaInv'
  <1>1. /\ UNCHANGED <<track, mediaPc, portPairs, sessions, released>>
        /\ mediaEnd' \in {mediaEnd, "assert_read"}
    BY DEF ReadEnds
  <1>2. \A t \in AllTracks, j \in Udp : Receiving(t, j) => Receiving(t, j)'
    BY UdpNames DEF ReadEnds, Receiving
  <1>3. \A w \in AllUdp : socket[w] = "none" => socket'[w] = "none"
    BY DEF ReadEnds, MediaInv, ReadsOnOpen
  <1>4. \A w \in AllUdp : w \notin posted \cup notified =>
            socket'[w] = socket[w] /\ w \notin posted' \cup notified'
    BY DEF ReadEnds
  <1>5. SessionsComplete'
    <2>1. ASSUME NEW t \in sessions, NEW j \in Udp
          PROVE  t \in portPairs /\ Receiving(t, j)'
      <3>1. t \in portPairs /\ Receiving(t, j) /\ t \in AllTracks
        BY DEF MediaInv, MediaTypeOK, SessionsComplete
      <3> QED  BY <1>2, <3>1
    <2> QED  BY <1>1, <2>1 DEF SessionsComplete
  <1>6. ReadsOnOpen' /\ NoneDangling' /\ MediaTypeOK'
    BY DEF ReadEnds, MediaInv, ReadsOnOpen, NoneDangling, MediaTypeOK
  <1>7. FutureTracks'
    BY <1>1, <1>3, UdpNames DEF MediaInv, FutureTracks
  <1>8. CurrentTrack'
    <2>1. CASE mediaPc = "idle"
      BY <1>1, <2>1 DEF CurrentTrack
    <2>2. CASE mediaPc # "idle"
      <3>1. track \in AllTracks /\ <<track, "rtp">> \in AllUdp /\ <<track, "rtcp">> \in AllUdp
        BY <2>2, TrackNumbers, UdpNames
      <3>2. /\ Receiving(track, "rtp") => Receiving(track, "rtp")'
            /\ Receiving(track, "rtcp") => Receiving(track, "rtcp")'
        BY <1>1, <1>2, <3>1, UdpNames DEF Receiving
      <3> QED  BY <1>1, <1>3, <1>4, <3>1, <3>2 DEF MediaInv, CurrentTrack
    <2> QED  BY <2>1, <2>2
  <1>9. EndsIdle' /\ PastSessions'
    BY <1>1 DEF MediaInv, EndsIdle, PastSessions
  <1> QED  BY <1>5, <1>6, <1>7, <1>8, <1>9 DEF MediaInv

(* A completion and its handler are ends of a read.                        *)
LEMMA UdpEvents ==
    ASSUME MediaInv, NEW u \in AllUdp, UdpNotified(u) \/ \E e \in UdpExecutors : UdpHandles(e, u)
    PROVE  ReadEnds(u)
  <1>1. posted \cap notified = {} /\ socket \in [AllUdp -> {"none", "open", "closed"}]
    BY DEF MediaInv, ReadsOnOpen, MediaTypeOK
  <1>2. CASE UdpNotified(u)
    BY <1>1, <1>2 DEF UdpNotified, ReadEnds, EngineRuns
  <1>3. ASSUME NEW e \in UdpExecutors, UdpHandles(e, u) PROVE ReadEnds(u)
    <2>1. /\ u \in notified /\ u \notin posted /\ notified' = notified \ {u}
          /\ mediaEnd \in {"none", "deleted"}
          /\ UNCHANGED <<track, mediaPc, portPairs, sessions, released>>
      BY <1>1, <1>3 DEF UdpHandles, EngineRuns
    <2>2. CASE posted' = posted \cup {u} /\ UNCHANGED <<socket, quiet, mediaEnd>>
      BY <1>1, <2>1, <2>2 DEF ReadEnds
    <2>3. CASE /\ quiet' = quiet \cup {u} /\ mediaEnd' \in {mediaEnd, "assert_read"}
               /\ UNCHANGED <<socket, posted>>
      BY <1>1, <2>1, <2>3 DEF ReadEnds
    <2>4. CASE socket' = [socket EXCEPT ![u] = "closed"] /\ UNCHANGED <<posted, quiet, mediaEnd>>
      BY <1>1, <2>1, <2>4 DEF ReadEnds
    <2> QED  BY <1>3, <2>2, <2>3, <2>4 DEF UdpHandles
  <1> QED  BY <1>2, <1>3

(* Unlock and FreeZ3Ovl touch nothing the invariant is about, except that  *)
(* they end the process on a deleted session.                              *)
LEMMA HandsEmptyStep ==
    ASSUME MediaInv, NEW e \in UdpExecutors, UdpUnlock(e) \/ UdpFreeZ3Ovl(e)
    PROVE  MediaInv'
  <1>1. /\ UNCHANGED <<track, mediaPc, portPairs, sessions, socket, posted, notified, quiet,
                       released>>
        /\ mediaEnd \in {"none", "deleted"} /\ mediaEnd' \in {mediaEnd, "use_deleted"}
    BY DEF UdpUnlock, UdpFreeZ3Ovl, EngineRuns
  <1>2. SessionsComplete'
    <2>1. ASSUME NEW t \in sessions, NEW j \in Udp
          PROVE  t \in portPairs /\ Receiving(t, j)'
      BY <1>1 DEF MediaInv, SessionsComplete, Receiving
    <2> QED  BY <1>1, <2>1 DEF SessionsComplete
  <1>3. CurrentTrack'
    BY <1>1 DEF MediaInv, CurrentTrack, Receiving
  <1>4. MediaTypeOK' /\ ReadsOnOpen' /\ NoneDangling'
    BY <1>1 DEF MediaInv, MediaTypeOK, ReadsOnOpen, NoneDangling
  <1>5. FutureTracks' /\ EndsIdle' /\ PastSessions'
    BY <1>1 DEF MediaInv, FutureTracks, EndsIdle, PastSessions
  <1> QED  BY <1>2, <1>3, <1>4, <1>5 DEF MediaInv

(* MediaInv holds in every reachable state.                                *)
LEMMA MediaInvariant == MediaSpec => []MediaInv
  <1>1. MediaInit => MediaInv
    <2> SUFFICES ASSUME MediaInit PROVE MediaInv
      OBVIOUS
    <2>1. MediaTypeOK
      <3>1. 0 \in 0 .. MaxMediaTracks
        BY TracksAssumption
      <3> QED  BY <3>1 DEF MediaInit, MediaTypeOK, AllUdp
    <2>2. SessionsComplete /\ ReadsOnOpen /\ NoneDangling /\ EndsIdle /\ PastSessions
      BY DEF MediaInit, SessionsComplete, ReadsOnOpen, NoneDangling, EndsIdle, PastSessions
    <2>3. FutureTracks
      BY UdpNames DEF MediaInit, FutureTracks, AllUdp
    <2>4. CurrentTrack
      BY DEF MediaInit, CurrentTrack
    <2> QED  BY <2>1, <2>2, <2>3, <2>4 DEF MediaInv
  <1>2. MediaInv /\ [MediaNext]_mediaVars => MediaInv'
    <2> SUFFICES ASSUME MediaInv, [MediaNext]_mediaVars PROVE MediaInv'
      OBVIOUS
    <2>1. CASE UNCHANGED mediaVars
      <3>1. SessionsComplete'
        <4>1. ASSUME NEW t \in sessions, NEW j \in Udp
              PROVE  t \in portPairs /\ Receiving(t, j)'
          BY <2>1 DEF mediaVars, MediaInv, SessionsComplete, Receiving
        <4> QED  BY <2>1, <4>1 DEF mediaVars, SessionsComplete
      <3>2. CurrentTrack'
        BY <2>1 DEF mediaVars, MediaInv, CurrentTrack, Receiving
      <3> QED  BY <2>1, <3>1, <3>2
               DEF mediaVars, MediaInv, MediaTypeOK, ReadsOnOpen, NoneDangling,
                   FutureTracks, EndsIdle, PastSessions
    <2>2. ASSUME NEW u \in AllUdp,
                 UdpNotified(u) \/ \E e \in UdpExecutors : UdpHandles(e, u)
          PROVE  MediaInv'
      BY <2>2, UdpEvents, ReadEndsStep
    <2>3. ASSUME NEW e \in UdpExecutors, UdpUnlock(e) \/ UdpFreeZ3Ovl(e) PROVE MediaInv'
      BY <2>3, HandsEmptyStep
    <2> QED  BY <2>1, <2>2, <2>3, GetPairPortsStep, InitRtpStep, InitRtcpStep, StartStep,
                AddStep, DeleteStep
             DEF MediaNext, AllUdp
  <1> QED  BY <1>1, <1>2, PTL DEF MediaSpec

(* What an executor has in hand was opened, and what was deleted is not    *)
(* open any more unless ~SocketObj has stopped the process.                *)
HandInv ==
    /\ hand \in [UdpExecutors -> AllUdp \cup {NoUdp}] /\ released \subseteq AllUdp
    /\ \A e \in UdpExecutors : hand[e] # NoUdp => socket[hand[e]] # "none"
    /\ mediaEnd # "assert_socket" => \A u \in released : socket[u] # "open"

(* A UDP session is opened once, and never after it was deleted.           *)
LEMMA SocketsGoOn ==
    ASSUME MediaInv, MediaNext, NEW w \in AllUdp
    PROVE  /\ socket[w] # "none" => socket'[w] # "none"
           /\ w \in released /\ socket[w] # "open" => socket'[w] # "open"
  <1>1. ASSUME NEW k \in Udp, NEW s, socket[<<track, k>>] = "none",
               <<track, k>> \notin released, socket' = [socket EXCEPT ![<<track, k>>] = s]
        PROVE  /\ socket[w] # "none" => socket'[w] # "none"
               /\ w \in released /\ socket[w] # "open" => socket'[w] # "open"
    BY <1>1 DEF MediaInv, MediaTypeOK
  <1>2. CASE InitRtp
    <2>1. socket[<<track, "rtp">>] = "none" /\ <<track, "rtp">> \notin released
      BY <1>2 DEF InitRtp, MediaAt, MediaInv, CurrentTrack
    <2>2. PICK s : socket' = [socket EXCEPT ![<<track, "rtp">>] = s]
      BY <1>2 DEF InitRtp, UdpSessionInit
    <2> QED  BY <1>1, <2>1, <2>2, UdpNames
  <1>3. CASE InitRtcp
    <2>1. socket[<<track, "rtcp">>] = "none" /\ <<track, "rtcp">> \notin released
      BY <1>3 DEF InitRtcp, MediaAt, MediaInv, CurrentTrack
    <2>2. PICK s : socket' = [socket EXCEPT ![<<track, "rtcp">>] = s]
      BY <1>3 DEF InitRtcp, UdpSessionInit
    <2> QED  BY <1>1, <2>1, <2>2, UdpNames
  <1>4. ASSUME NEW e \in UdpExecutors, NEW u \in AllUdp, UdpHandles(e, u)
        PROVE  socket' = socket \/ socket' = [socket EXCEPT ![u] = "closed"]
    BY <1>4 DEF UdpHandles
  <1>5. ASSUME NEW u \in AllUdp, socket' = socket \/ socket' = [socket EXCEPT ![u] = "closed"]
        PROVE  /\ socket[w] # "none" => socket'[w] # "none"
               /\ w \in released /\ socket[w] # "open" => socket'[w] # "open"
    BY <1>5 DEF MediaInv, MediaTypeOK
  <1>6. \/ InitRtp \/ InitRtcp \/ socket' = socket
        \/ \E e \in UdpExecutors, u \in AllUdp : UdpHandles(e, u)
    BY DEF MediaNext, GetPairPorts, StartRtp, StartRtcp, AddMediaSession, MediaSessionFailed,
           DeleteRtspMedia, UdpNotified, UdpUnlock, UdpFreeZ3Ovl, AllUdp
  <1> QED  BY <1>2, <1>3, <1>4, <1>5, <1>6

(* A step takes no session in hand but one whose read was queued.          *)
LEMMA HandsTaken ==
    ASSUME MediaInv, HandInv, MediaNext, NEW e \in UdpExecutors
    PROVE  /\ hand' \in [UdpExecutors -> AllUdp \cup {NoUdp}]
           /\ hand'[e] = hand[e] \/ hand'[e] = NoUdp \/ hand'[e] \in notified
  <1>1. CASE UNCHANGED hand
    BY <1>1 DEF HandInv
  <1>2. ASSUME NEW f \in UdpExecutors, NEW u \in notified \cup {NoUdp},
               hand' = [hand EXCEPT ![f] = u]
        PROVE  /\ hand' \in [UdpExecutors -> AllUdp \cup {NoUdp}]
               /\ hand'[e] = hand[e] \/ hand'[e] = NoUdp \/ hand'[e] \in notified
    BY <1>2 DEF HandInv, MediaInv, MediaTypeOK
  <1>3. \/ UNCHANGED hand
        \/ \E f \in UdpExecutors, u \in notified \cup {NoUdp} : hand' = [hand EXCEPT ![f] = u]
    BY DEF MediaNext, GetPairPorts, InitRtp, InitRtcp, StartRtp, StartRtcp, AddMediaSession,
           MediaSessionFailed, DeleteRtspMedia, UdpNotified, UdpHandles, UdpUnlock,
           UdpFreeZ3Ovl
  <1> QED  BY <1>1, <1>2, <1>3

(* A step deletes no open session without the assertion of ~SocketObj.     *)
LEMMA DeletedShut ==
    ASSUME MediaInv, HandInv, MediaNext
    PROVE  /\ released' \subseteq AllUdp
           /\ mediaEnd' # "assert_socket" => \A u \in released' : socket'[u] # "open"
  <1>1. ASSUME UNCHANGED released, mediaEnd # "assert_socket"
        PROVE  /\ released' \subseteq AllUdp
               /\ mediaEnd' # "assert_socket" => \A u \in released' : socket'[u] # "open"
    BY <1>1, SocketsGoOn DEF HandInv
  <1>2. ASSUME NEW us \in SUBSET AllUdp, NEW end, ReleaseAll(us, end), UNCHANGED socket,
               mediaEnd = "none"
        PROVE  /\ released' \subseteq AllUdp
               /\ mediaEnd' # "assert_socket" => \A u \in released' : socket'[u] # "open"
    BY <1>2 DEF ReleaseAll, HandInv
  <1>3. CASE MediaSessionFailed
    <2>1. mediaPc # "idle" /\ mediaEnd = "none" /\ UNCHANGED socket
      BY <1>3 DEF MediaSessionFailed, MediaAt, MediaLives
    <2>2. {track} \X Udp \in SUBSET AllUdp /\ ReleaseAll({track} \X Udp, "none")
      BY <1>3, <2>1, TrackNumbers DEF MediaSessionFailed, AllUdp
    <2> QED  BY <1>2, <2>1, <2>2
  <1>4. CASE DeleteRtspMedia /\ sessions # {}
    <2>1. mediaEnd = "none" /\ UNCHANGED socket /\ ReleaseAll(sessions \X Udp, "deleted")
      BY <1>4 DEF DeleteRtspMedia, MediaAt, MediaLives
    <2>2. sessions \X Udp \in SUBSET AllUdp
      BY DEF MediaInv, MediaTypeOK, AllUdp
    <2> QED  BY <1>2, <2>1, <2>2
  <1>5. \/ MediaSessionFailed
        \/ DeleteRtspMedia /\ sessions # {}
        \/ UNCHANGED released /\ mediaEnd # "assert_socket"
    BY DEF MediaNext, GetPairPorts, InitRtp, InitRtcp, StartRtp, StartRtcp, AddMediaSession,
           DeleteRtspMedia, UdpNotified, UdpHandles, UdpUnlock, UdpFreeZ3Ovl,
           MediaAt, MediaLives, EngineRuns
  <1> QED  BY <1>1, <1>3, <1>4, <1>5

(* HandInv holds in every reachable state.                                 *)
LEMMA HandInvariant == MediaSpec => []HandInv
  <1>1. MediaInit => HandInv
    BY DEF MediaInit, HandInv
  <1>2. ASSUME MediaInv, HandInv, MediaNext PROVE HandInv'
    <2>1. \A e \in UdpExecutors : hand'[e] # NoUdp => socket'[hand'[e]] # "none"
      <3> SUFFICES ASSUME NEW e \in UdpExecutors, hand'[e] # NoUdp
                   PROVE  socket'[hand'[e]] # "none"
        OBVIOUS
      <3>1. hand'[e] \in AllUdp
        BY <1>2, HandsTaken
      <3>2. socket[hand'[e]] # "none"
        BY <1>2, <3>1, HandsTaken DEF HandInv, MediaInv, ReadsOnOpen
      <3> QED  BY <1>2, <3>1, <3>2, SocketsGoOn
    <2>2. hand' \in [UdpExecutors -> AllUdp \cup {NoUdp}]
      <3>1. CASE UdpExecutors = {}
        BY <1>2, <3>1 DEF HandInv, MediaNext, GetPairPorts, InitRtp, InitRtcp, StartRtp,
           StartRtcp, AddMediaSession, MediaSessionFailed, DeleteRtspMedia, UdpNotified
      <3>2. CASE UdpExecutors # {}
        BY <1>2, <3>2, HandsTaken
      <3> QED  BY <3>1, <3>2
    <2> QED  BY <1>2, <2>1, <2>2, DeletedShut DEF HandInv
  <1>3. ASSUME HandInv, UNCHANGED mediaVars PROVE HandInv'
    BY <1>3 DEF HandInv, mediaVars
  <1> QED  BY <1>1, <1>2, <1>3, MediaInvariant, PTL DEF MediaSpec

(* A MediaSession that a SETUP uses has its ports and two opened UDP       *)
(* sessions, each with its read unless its socket is closed or its reading *)
(* ended (quiet); and unless ~SocketObj stopped the process on an open     *)
(* socket, no read outlives its UDP session, and only a session closed     *)
(* after a failed read can be deleted in the hands of an executor.  For    *)
(* any number of tracks and executors, whichever call fails.  The ports of *)
(* a failed SETUP are not put back, and nothing is said of them.           *)
THEOREM MediaAllOrNothing == MediaSpec => []MediaComplete
  <1>1. MediaInv /\ HandInv => MediaComplete
    <2> SUFFICES ASSUME MediaInv, HandInv PROVE MediaComplete
      OBVIOUS
    <2>1. \A t \in sessions, k \in Udp : t \in portPairs /\ Receiving(t, k)
      BY DEF MediaInv, SessionsComplete
    <2>2. NoneDangling
      BY DEF MediaInv
    <2>3. ASSUME mediaEnd # "assert_socket", NEW e \in UdpExecutors, hand[e] \in released
          PROVE  socket[hand[e]] = "closed"
      <3>1. hand[e] \in AllUdp /\ socket[hand[e]] # "open"
        BY <2>3 DEF HandInv
      <3>2. hand[e] # NoUdp
        BY <3>1, TracksAssumption DEF AllUdp, NoUdp, Udp
      <3>3. socket[hand[e]] # "none"
        BY <3>2 DEF HandInv
      <3> QED  BY <3>1, <3>3 DEF MediaInv, MediaTypeOK
    <2> QED  BY <2>1, <2>2, <2>3 DEF MediaComplete, NoneDangling, Receiving
  <1> QED  BY <1>1, MediaInvariant, HandInvariant, PTL
===============================================================================
