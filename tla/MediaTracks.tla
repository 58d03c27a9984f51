------------------------------ MODULE MediaTracks -----------------------------
(***************************************************************************)
(* RtspMedia and its MediaSessions (z3_rtsp_client/z3_rtsp_media.cpp): for *)
(* every SETUP a MediaSession takes a pair of ports and makes, opens and   *)
(* starts an RTP and an RTCP session, each step of which can fail.  The    *)
(* UDP sessions started before already receive on other executors.  The    *)
(* block of a read holds no reference of its session, so the release by    *)
(* its MediaSession deletes it; ~SocketObj asserts that the socket was     *)
(* closed, which only the handler of a failed read does: its executor has  *)
(* the object in hand until it has unlocked it and freed the block.        *)
(***************************************************************************)
EXTENDS Integers, FiniteSets

CONSTANTS MaxMediaTracks,  \* bound: tracks of the description
          UdpExecutors     \* the executors that handle the reads

ASSUME TracksAssumption == MaxMediaTracks \in Nat \ {0}

Udp == {"rtp", "rtcp"}
AllTracks == 1 .. MaxMediaTracks
NoUdp == <<0, "none">>

VARIABLES track,      \* m_nRequestTrack: SETUPs begun
          mediaPc,    \* step of MediaSession::Init
          portPairs,  \* tracks for which GetPairPorts succeeded
          sessions,   \* m_pMediaSessions
          socket,     \* of each UDP session: "none", "open" or "closed"
          posted,     \* UDP sessions with a read posted
          notified,   \* UDP sessions whose completed read is in the queue
          quiet,      \* UDP sessions left open without a read, by an empty
                      \* datagram, a failed Close or a failed StartRead
          released,   \* UDP sessions their MediaSession has deleted
          hand,       \* the UDP session each executor is busy with
          locks,      \* executors that still have to Unlock it
          mediaEnd    \* "none", "deleted", a failed assertion ("assert_socket",
                      \* "assert_read"), a NULL ("null_list", "null_name"), or
                      \* "use_deleted": an executor used a deleted session

mediaVars == <<track, mediaPc, portPairs, sessions, socket, posted, notified,
               quiet, released, hand, locks, mediaEnd>>

MediaInit ==
    /\ track = 0
    /\ mediaPc = "idle"
    /\ portPairs = {}
    /\ sessions = {}
    /\ socket = [u \in AllTracks \X Udp |-> "none"]
    /\ posted = {}
    /\ notified = {}
    /\ quiet = {}
    /\ released = {}
    /\ hand = [e \in UdpExecutors |-> NoUdp]
    /\ locks = {}
    /\ mediaEnd = "none"

MediaLives == mediaEnd = "none"

MediaAt(step) == MediaLives /\ mediaPc = step

(* The only references of these UDP sessions are released.                 *)
ReleaseAll(us, end) ==
    /\ released' = released \cup us
    /\ mediaEnd' = IF \E u \in us : socket[u] = "open"
                   THEN "assert_socket" ELSE end

(* CreateMediaSession, and Init up to the ports.  Init compares the name   *)
(* of the media, which an m= line without one leaves NULL.                 *)
GetPairPorts ==
    /\ MediaAt("idle") /\ track < MaxMediaTracks
    /\ track' = track + 1
    /\ \/ /\ portPairs' = portPairs \cup {track + 1} /\ mediaPc' = "init_rtp"
          /\ UNCHANGED mediaEnd
       \/ mediaPc' = "failed" /\ UNCHANGED <<portPairs, mediaEnd>>
       \/ mediaEnd' = "null_name" /\ UNCHANGED <<mediaPc, portPairs>>
    /\ UNCHANGED <<sessions, socket, posted, notified, quiet, released, hand,
                   locks>>

(* Fault: the result of UDPSession::Init is not looked at.                 *)
UdpInitUnchecked(kind, next) ==
    \/ socket' = [socket EXCEPT ![<<track, kind>>] = "open"] /\ mediaPc' = next
    \/ mediaPc' = next /\ UNCHANGED socket

(* UDPSession::Init: no socket, one that cannot be bound and stays open,   *)
(* one that the completion port refuses and is closed, or success.         *)
UdpSessionInit(kind, next) ==
    \/ socket' = [socket EXCEPT ![<<track, kind>>] = "open"] /\ mediaPc' = next
    \/ /\ mediaPc' = "failed"
       /\ \E s \in {"none", "open", "closed"} :
              socket' = [socket EXCEPT ![<<track, kind>>] = s]

UdpSessionStartRead(kind, next) ==
    \/ posted' = posted \cup {<<track, kind>>} /\ mediaPc' = next
    \/ mediaPc' = "failed" /\ UNCHANGED posted

InitRtp ==
    /\ MediaAt("init_rtp") /\ UdpSessionInit("rtp", "start_rtp")
    /\ UNCHANGED <<track, portPairs, sessions, posted, notified, quiet,
                   released, hand, locks, mediaEnd>>

StartRtp ==
    /\ MediaAt("start_rtp") /\ UdpSessionStartRead("rtp", "init_rtcp")
    /\ UNCHANGED <<track, portPairs, sessions, socket, notified, quiet,
                   released, hand, locks, mediaEnd>>

InitRtcp ==
    /\ MediaAt("init_rtcp") /\ UdpSessionInit("rtcp", "start_rtcp")
    /\ UNCHANGED <<track, portPairs, sessions, posted, notified, quiet,
                   released, hand, locks, mediaEnd>>

StartRtcp ==
    /\ MediaAt("start_rtcp") /\ UdpSessionStartRead("rtcp", "add")
    /\ UNCHANGED <<track, portPairs, sessions, socket, notified, quiet,
                   released, hand, locks, mediaEnd>>

AddMediaSession ==
    /\ MediaAt("add")
    /\ sessions' = sessions \cup {track}
    /\ mediaPc' = "idle"
    /\ UNCHANGED <<track, portPairs, socket, posted, notified, quiet,
                   released, hand, locks, mediaEnd>>

(* ~MediaSession; the ports are not put back.                              *)
MediaSessionFailed ==
    /\ MediaAt("failed")
    /\ ReleaseAll({track} \X Udp, "none")
    /\ mediaPc' = "idle"
    /\ UNCHANGED <<track, portPairs, sessions, socket, posted, notified, quiet,
                   hand, locks>>

(* ~RtspMedia iterates over a list that the first session makes.           *)
DeleteRtspMedia ==
    /\ MediaAt("idle")
    /\ IF sessions = {} THEN mediaEnd' = "null_list" /\ UNCHANGED released
       ELSE ReleaseAll(sessions \X Udp, "deleted")
    /\ UNCHANGED <<track, mediaPc, portPairs, sessions, socket, posted, notified,
                   quiet, hand, locks>>

EngineRuns == mediaEnd \in {"none", "deleted"}

UdpNotified(u) ==
    /\ EngineRuns /\ u \in posted
    /\ posted' = posted \ {u}
    /\ notified' = notified \cup {u}
    /\ UNCHANGED <<track, mediaPc, portPairs, sessions, socket, quiet, released,
                   hand, locks, mediaEnd>>

(* RunOnce up to Unlock.  OnEvRead starts the next read, which it asserts  *)
(* to succeed; it starts none after an empty datagram, and closes the      *)
(* socket on an error, if that succeeds.                                   *)
UdpHandles(e, u) ==
    /\ EngineRuns /\ u \in notified
    /\ hand[e] = NoUdp /\ \A f \in locks : hand[f] # u
    /\ notified' = notified \ {u}
    /\ hand' = [hand EXCEPT ![e] = u]
    /\ locks' = locks \cup {e}
    /\ \/ posted' = posted \cup {u} /\ UNCHANGED <<socket, quiet, mediaEnd>>
       \/ /\ quiet' = quiet \cup {u} /\ mediaEnd' \in {mediaEnd, "assert_read"}
          /\ UNCHANGED <<socket, posted>>
       \/ /\ socket' = [socket EXCEPT ![u] = "closed"]
          /\ UNCHANGED <<posted, quiet, mediaEnd>>
    /\ UNCHANGED <<track, mediaPc, portPairs, sessions, released>>

UdpUnlock(e) ==
    /\ EngineRuns /\ e \in locks
    /\ \/ /\ hand[e] \in released
          /\ mediaEnd' = "use_deleted" /\ UNCHANGED locks
       \/ /\ hand[e] \notin released
          /\ locks' = locks \ {e} /\ UNCHANGED mediaEnd
    /\ UNCHANGED <<track, mediaPc, portPairs, sessions, socket, posted, notified,
                   quiet, released, hand>>

UdpFreeZ3Ovl(e) ==
    /\ EngineRuns /\ hand[e] # NoUdp /\ e \notin locks
    /\ \/ /\ hand[e] \in released
          /\ mediaEnd' = "use_deleted" /\ UNCHANGED hand
       \/ /\ hand[e] \notin released
          /\ hand' = [hand EXCEPT ![e] = NoUdp] /\ UNCHANGED mediaEnd
    /\ UNCHANGED <<track, mediaPc, portPairs, sessions, socket, posted, notified,
                   quiet, released, locks>>

MediaNext ==
    \/ GetPairPorts \/ InitRtp \/ StartRtp \/ InitRtcp \/ StartRtcp
    \/ AddMediaSession \/ MediaSessionFailed \/ DeleteRtspMedia
    \/ \E u \in AllTracks \X Udp : UdpNotified(u)
    \/ \E e \in UdpExecutors :
           \/ \E u \in AllTracks \X Udp : UdpHandles(e, u)
           \/ UdpUnlock(e) \/ UdpFreeZ3Ovl(e)

MediaSpec == MediaInit /\ [][MediaNext]_mediaVars

(* A MediaSession that is used for a SETUP has its ports and two UDP       *)
(* sessions that were opened, and each of them still has its read unless   *)
(* its socket was closed or its reading ended (quiet).  And as long as     *)
(* ~SocketObj has not stopped the process, no read is posted or queued for *)
(* a UDP session that was deleted, and an executor can find the session in *)
(* its hand deleted, before it unlocks it or frees the block, in one case  *)
(* only: a failed read has closed the socket.                              *)
MediaComplete ==
    /\ \A t \in sessions, k \in Udp :
           /\ t \in portPairs /\ socket[<<t, k>>] # "none"
           /\ socket[<<t, k>>] = "open" =>
                  <<t, k>> \in posted \cup notified \cup quiet
    /\ mediaEnd # "assert_socket" =>
           /\ (posted \cup notified) \cap released = {}
           /\ \A e \in UdpExecutors :
                  hand[e] \in released => socket[hand[e]] = "closed"
===============================================================================
