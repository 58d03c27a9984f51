-------------------------------- MODULE MCParts -------------------------------
(***************************************************************************)
(* The parts of the program that do not share state, each on its own small *)
(* instance: a behaviour is one of a single part, chosen at the beginning. *)
(***************************************************************************)
EXTENDS MCTraceTruck, ListCalls, Alloc, RtspMsg, Sdp, UdpRtp, MediaTracks

CONSTANTS t1, t2, b1, b2, b3, Parts

VARIABLE part

AllParts == {"trace", "list", "alloc", "msg", "sdp", "udp", "media"}
OnlyUdp == {"udp"}

MCThreads == {t1, t2}
MCBlocks == {b1, b2, b3}
MCKeyOf == b1 :> 1 @@ b2 :> 1 @@ b3 :> 2

(* The Session value with a ':' is the long one.                           *)
MCHeaderValues == [CSEQ |-> {"c"}, SESSION |-> {"s:t", "s"}, DATE |-> {"d"},
                   CONTENT_LENGTH |-> {"n"}]
MCUptoColon == [value \in Values |-> IF value = "s:t" THEN "s" ELSE value]

Packets(nals, markers) ==
    {[nal |-> n, marker |-> m, header |-> 12, size |-> 16] :
         n \in nals, m \in markers}

(* Datagrams that are shorter than the RTP header, than the header it      *)
(* announces, and than the header of the NAL.                              *)
ShortPackets ==
    {[nal |-> "single", marker |-> FALSE, header |-> 12, size |-> 8],
     [nal |-> "single", marker |-> FALSE, header |-> 28, size |-> 16],
     [nal |-> "STAP_B", marker |-> FALSE, header |-> 12, size |-> 14],
     [nal |-> "FU_start", marker |-> TRUE, header |-> 12, size |-> 13]}

(* Every kind of packet; and a server of one frame per packet.             *)
MCPackets == Packets(NalTypes, BOOLEAN) \cup ShortPackets
OneFramePackets == Packets({"single"}, {TRUE})

PartsInit ==
    /\ part \in Parts
    /\ Init /\ (part # "trace" => build = "Windows")
    /\ ListInit
    /\ AllocInit /\ (part # "alloc" => allocBuild = "list")
    /\ MsgInit
    /\ SdpInit
    /\ UdpInit
    /\ MediaInit

Only(p) ==
    /\ part = p /\ UNCHANGED part
    /\ p # "trace" => UNCHANGED v
    /\ p # "list" => UNCHANGED listVars
    /\ p # "alloc" => UNCHANGED allocVars
    /\ p # "msg" => UNCHANGED msgVars
    /\ p # "sdp" => UNCHANGED sdpVars
    /\ p # "udp" => UNCHANGED udpVars
    /\ p # "media" => UNCHANGED mediaVars

PartsNext ==
    \/ Only("trace") /\ Next
    \/ Only("list") /\ ListNext
    \/ Only("alloc") /\ AllocNext
    \/ Only("msg") /\ MsgNext
    \/ Only("sdp") /\ SdpNext
    \/ Only("udp") /\ UdpNext
    \/ Only("media") /\ MediaNext

partsVars == <<part, v, listVars, allocVars, msgVars, sdpVars, udpVars,
               mediaVars>>

PartsSpec == PartsInit /\ [][PartsNext]_partsVars
===============================================================================
