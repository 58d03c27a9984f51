---------------------------------- MODULE Sdp ---------------------------------
(***************************************************************************)
(* SDPMessage (z3_rtsp_client/z3_sdp.cpp): ParseString reads a session     *)
(* description line by line into a tree of heap objects, SendSETUP asks    *)
(* each media for its "control" attribute, and the destructors free the    *)
(* tree.  A line is its type, its place (its number) and whether the       *)
(* fields that its type needs are there; what its text says is left out,   *)
(* but for the key of an attribute.  z3_strdup of an empty string is NULL, *)
(* which several setters pass to strlen.                                   *)
(***************************************************************************)
EXTENDS Integers, FiniteSets, SequencesExt

CONSTANT MaxSdpLines   \* bound: lines of a description

ASSUME SdpAssumption == MaxSdpLines \in Nat

VARIABLES sdpPhase,  \* "parsing", "parsed", "deleted" or "crashed"
          ctx,       \* SDPContext.state; the media is the last one added
          sdp,       \* SDPMessage: the number of the line each member is from
          medias,    \* m_pVectorMedias
          sdpHeap,   \* lines whose objects are allocated
          sdpLines,  \* history: the lines so far
          controls   \* history: what GetAttributeValue gave for each media

sdpVars == <<sdpPhase, ctx, sdp, medias, sdpHeap, sdpLines, controls>>

NULLPTR == 0   \* line numbers begin with 1

Strings == {"v", "o", "s", "i", "u"}

SdpInit ==
    /\ sdpPhase = "parsing"
    /\ ctx = "SESSION"
    /\ sdp = [v |-> NULLPTR, o |-> NULLPTR, s |-> NULLPTR, i |-> NULLPTR,
              u |-> NULLPTR, c |-> NULLPTR,
              e |-> << >>, p |-> << >>, b |-> << >>, a |-> << >>]
    /\ medias = << >>
    /\ sdpHeap = {}
    /\ sdpLines = << >>
    /\ controls = << >>

Here == Len(sdpLines) + 1

(* The next line has this type and this text ("full", "empty" if a field   *)
(* is missing, or the key of an attribute).                                *)
NextLine(type, text) ==
    /\ sdpPhase = "parsing" /\ Here <= MaxSdpLines
    /\ sdpLines' = Append(sdpLines, [type |-> type, text |-> text])

(* Fault: the string a repeated line replaces is not freed.                *)
ReplacesKeepsOld(old, text) ==
    /\ sdpHeap' = sdpHeap \cup {Here}
    /\ sdpPhase' = IF text = "empty" THEN "crashed" ELSE sdpPhase

(* SetField, SetVersion, SetSessionName, SetInfo, SetUrl: the old string   *)
(* is freed and the new one copied; strlen of an empty one is fatal.       *)
Replaces(old, text) ==
    /\ sdpHeap' = (sdpHeap \ {old}) \cup {Here}
    /\ sdpPhase' = IF text = "empty" THEN "crashed" ELSE sdpPhase

(* v=, o=, s=, u= at any place, and i= before the first m=.                *)
SetString(type, text) ==
    /\ NextLine(type, text)
    /\ type = "i" => ctx = "SESSION"
    /\ Replaces(sdp[type], text)
    /\ sdp' = [sdp EXCEPT ![type] = Here]
    /\ UNCHANGED <<ctx, medias, controls>>

(* Fault: the information of a media goes to the message.                  *)
SetInfoOfMessage(text) ==
    /\ NextLine("i", text)
    /\ ctx = "MEDIA"
    /\ Replaces(sdp.i, text)
    /\ sdp' = [sdp EXCEPT !.i = Here]
    /\ UNCHANGED <<ctx, medias, controls>>

SetInfo(text) ==
    /\ NextLine("i", text)
    /\ ctx = "MEDIA"
    /\ Replaces(Last(medias).i, text)
    /\ medias' = [medias EXCEPT ![Len(medias)].i = Here]
    /\ UNCHANGED <<ctx, sdp, controls>>

(* AddMail and AddPhone: a std::string, empty or not.                      *)
AddItemIntoVector(type, text) ==
    /\ NextLine(type, text)
    /\ sdp' = [sdp EXCEPT ![type] = Append(@, Here)]
    /\ sdpHeap' = sdpHeap \cup {Here}
    /\ UNCHANGED <<sdpPhase, ctx, medias, controls>>

(* c=: a connection of the message replaces the one before, which is not   *)
(* freed (line 899); a media collects its connections.                     *)
AddConnection(text) ==
    /\ NextLine("c", text)
    /\ sdpHeap' = sdpHeap \cup {Here}
    /\ IF text = "empty"
       THEN sdpPhase' = "crashed" /\ UNCHANGED <<sdp, medias>>
       ELSE /\ UNCHANGED sdpPhase
            /\ IF ctx = "SESSION"
               THEN sdp' = [sdp EXCEPT !.c = Here] /\ UNCHANGED medias
               ELSE /\ medias' = [medias EXCEPT
                                      ![Len(medias)].c = Append(@, Here)]
                    /\ UNCHANGED sdp
    /\ UNCHANGED <<ctx, controls>>

(* b=: the message allocates its bandwidth and does not push it (line 707) *)
AddBandwidth(text) ==
    /\ NextLine("b", text)
    /\ sdpHeap' = sdpHeap \cup {Here}
    /\ medias' = IF ctx = "SESSION" THEN medias
                 ELSE [medias EXCEPT ![Len(medias)].b = Append(@, Here)]
    /\ UNCHANGED <<sdpPhase, ctx, sdp, controls>>

AddAttribute(text) ==
    /\ NextLine("a", text)
    /\ sdpHeap' = sdpHeap \cup {Here}
    /\ IF ctx = "SESSION"
       THEN sdp' = [sdp EXCEPT !.a = Append(@, Here)] /\ UNCHANGED medias
       ELSE /\ medias' = [medias EXCEPT ![Len(medias)].a = Append(@, Here)]
            /\ UNCHANGED sdp
    /\ UNCHANGED <<sdpPhase, ctx, controls>>

(* m=: a missing field leaves a NULL member.                               *)
AddMedia(text) ==
    /\ NextLine("m", text)
    /\ ctx' = "MEDIA"
    /\ medias' = Append(medias, [m |-> Here, i |-> NULLPTR, c |-> << >>,
                                 b |-> << >>, a |-> << >>])
    /\ sdpHeap' = sdpHeap \cup {Here}
    /\ UNCHANGED <<sdpPhase, sdp, controls>>

(* t=, k=, an unknown type and a line without '='.                         *)
SkipLine ==
    /\ NextLine("t", "full")
    /\ UNCHANGED <<sdpPhase, ctx, sdp, medias, sdpHeap, controls>>

ParseLine ==
    \/ \E type \in Strings, text \in {"full", "empty"} : SetString(type, text)
    \/ \E text \in {"full", "empty"} :
           \/ SetInfo(text) \/ AddConnection(text) \/ AddBandwidth(text)
           \/ AddMedia(text)
    \/ \E type \in {"e", "p"} : AddItemIntoVector(type, "full")
    \/ \E text \in {"control", "full", "empty"} : AddAttribute(text)
    \/ SkipLine

(* The '\0' is reached.                                                    *)
ParseStringDone ==
    /\ sdpPhase = "parsing"
    /\ sdpPhase' = "parsed"
    /\ UNCHANGED <<ctx, sdp, medias, sdpHeap, sdpLines, controls>>

Text(n) == sdpLines[n].text

(* The first attribute with this key; comparing a NULL key is fatal.       *)
GetAttributeValue(media, key) ==
    LET i == SelectInSeq(media.a, LAMBDA n : Text(n) \in {key, "empty"})
    IN IF i = 0 THEN NULLPTR ELSE media.a[i]

(* SendSETUP of the next track asserts that there is a control.            *)
AskControl ==
    /\ sdpPhase = "parsed" /\ Len(controls) < Len(medias)
    /\ LET n == GetAttributeValue(medias[Len(controls) + 1], "control")
       IN IF n = NULLPTR \/ Text(n) = "empty"
          THEN sdpPhase' = "crashed" /\ UNCHANGED controls
          ELSE controls' = Append(controls, n) /\ UNCHANGED sdpPhase
    /\ UNCHANGED <<ctx, sdp, medias, sdpHeap, sdpLines>>

(* What ~SDPMedia and ~SDPMessage free.                                    *)
OwnedByMedia(media) ==
    {media.m, media.i} \cup ToSet(media.c) \cup ToSet(media.b) \cup ToSet(media.a)

OwnedByMessage ==
    {sdp.v, sdp.o, sdp.s, sdp.i, sdp.u, sdp.c}
        \cup ToSet(sdp.e) \cup ToSet(sdp.p) \cup ToSet(sdp.b) \cup ToSet(sdp.a)

OwnedBySdp ==
    OwnedByMessage \cup (UNION {OwnedByMedia(medias[k]) : k \in DOMAIN medias})

DeleteSdp ==
    /\ sdpPhase = "parsed"
    /\ sdpPhase' = "deleted"
    /\ sdpHeap' = sdpHeap \ OwnedBySdp
    /\ UNCHANGED <<ctx, sdp, medias, sdpLines, controls>>

SdpNext == ParseLine \/ ParseStringDone \/ AskControl \/ DeleteSdp

SdpSpec == SdpInit /\ [][SdpNext]_sdpVars
-------------------------------------------------------------------------------
(* The section a line stands in: 0 before the first m=, k after the k-th.  *)
Section(n) == Cardinality({i \in 1 .. n : sdpLines[i].type = "m"})

(* The lines of one type in section k.                                     *)
LinesOf(type, k) ==
    {n \in DOMAIN sdpLines : sdpLines[n].type = type /\ Section(n) = k}

(* Sequence s has the lines of set S, each once and in their order.        *)
InOrder(s, S) ==
    /\ ToSet(s) = S
    /\ \A i, j \in DOMAIN s : i < j => s[i] < s[j]

IsLast(n, S) ==
    IF S = {} THEN n = NULLPTR ELSE n \in S /\ \A l \in S : l <= n

(* Every a=, b=, c= and i= line is with the media section it stands in, or *)
(* with the message if it stands before the first m=, in the order of the  *)
(* description; and the control a SETUP is sent to is the first one of the *)
(* media's own section.                                                    *)
LinesBelong ==
    sdpPhase # "crashed" =>
        /\ InOrder(sdp.a, LinesOf("a", 0))
        /\ IsLast(sdp.i, LinesOf("i", 0))
        /\ IsLast(sdp.c, LinesOf("c", 0))
        /\ \A k \in DOMAIN medias :
               /\ LinesOf("m", k) = {medias[k].m}
               /\ InOrder(medias[k].a, LinesOf("a", k))
               /\ InOrder(medias[k].b, LinesOf("b", k))
               /\ InOrder(medias[k].c, LinesOf("c", k))
               /\ IsLast(medias[k].i, LinesOf("i", k))
        /\ \A k \in DOMAIN controls :
               LET own == {n \in LinesOf("a", k) : Text(n) = "control"}
               IN controls[k] \in own /\ \A n \in own : controls[k] <= n

(* Deleting a description frees all that its lines allocated and nothing   *)
(* that is not, except the message's own bandwidths and the connections    *)
(* that a later c= line of the message replaced.                           *)
DeleteFreesAll ==
    /\ sdpPhase = "deleted" =>
           sdpHeap = LinesOf("b", 0) \cup
                     {n \in LinesOf("c", 0) : \E l \in LinesOf("c", 0) : n < l}
    /\ sdpPhase = "parsed" => OwnedBySdp \ {NULLPTR} \subseteq sdpHeap
===============================================================================
