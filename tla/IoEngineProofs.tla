---------------------------- MODULE IoEngineProofs ----------------------------
(***************************************************************************)
(* Proofs about IoEngine, for any number of executors and of blocks.  The  *)
(* invariant is built in layers; each is inductive relative to the ones    *)
(* before it:                                                              *)
(*   Base      types, the object's lock, blocks in hand, the reference     *)
(*             count and the end of the executors;                         *)
(*   Places    OnePlace, and blocks not allocated yet are nowhere;         *)
(*   Timers    CallbackSeesLiveBlock, and a handler's timer is cancelled   *)
(*             or its CancelTimer has failed;                              *)
(*   Token     at most one START, CONNECT or READ is still to be handled;  *)
(*   Session   the references of an RTSP session;                          *)
(*   Story     the life of a Connection, from START to its deletion.       *)
(***************************************************************************)
EXTENDS IoEngine, TLAPS

USE EngineAssumption

(* An executor between LockObj and Unlock owns the lock, and the object    *)
(* cannot be deleted then: Release needs the lock.                         *)
LockHeld ==
    /\ \A x \in Executors : xpc[x] \in {"cancel", "delete", "run", "unlock"} <=> lock = x
    /\ lock # NoOne => alive

BlockInHand ==
    \A x \in Executors : xovl[x] = 0 <=> xpc[x] \in {"wait", "exited"}

AliveIsReferenced == alive <=> ref > 0

(* The engine stops after its executors, OnClientStop comes last, and the  *)
(* client quits only between two notifications.                            *)
StoppedInOrder ==
    /\ cpc \in {"waitclosed", "release", "dropitem"} => phase = "run"
    /\ phase = "stopped" => \A x \in Executors : xpc[x] = "exited"
    /\ cpc = "stopped" => phase = "stopped"

Base ==
    /\ TypeOK
    /\ LockHeld
    /\ BlockInHand
    /\ AliveIsReferenced
    /\ StoppedInOrder

Fresh ==
    \A o \in Ovls : o > nalloc => st[o] = "none" /\ ev[o] = "none" /\ timer[o] = "none"

Places == OnePlace /\ Fresh

Cancelled ==
    \A x \in Executors : xpc[x] \in {"run", "unlock", "free"} =>
        timer[xovl[x]] \notin {"armed", "fired"} \/ xovl[x] \in undeleted

Timers == CallbackSeesLiveBlock /\ Cancelled

(* START leads to CONNECT, CONNECT to a READ and a READ to the next one.   *)
Leading == {"START", "CONNECT", "READ"}

Token ==
    \A o, q \in Ovls :
        ev[o] \in Leading /\ ev[q] \in Leading /\ Unhandled(o) /\ Unhandled(q) => o = q

(* An RTSP session is referenced by its client until it stops, by every    *)
(* queued item and by the one in hand.  No item is a failed connect, so    *)
(* the client neither stops the session nor waits for the closed event.    *)
Session ==
    class = "RtspSession" =>
        /\ \A o \in Ovls : ev[o] # "STOP"
        /\ nq \in Seq({"READ", "WRITE", "NOTIFY"})
        /\ cpc \in {"idle", "dropitem", "stopped"}
        /\ ref = Len(nq) + (IF cpc = "dropitem" THEN 2 ELSE IF cpc = "idle" THEN 1 ELSE 0)

(* A Connection allocates at most three blocks: START, CONNECT and, after  *)
(* the connect has failed, STOP.  A START that could not be posted counts  *)
(* as failed; after a STOP that could not be posted, or could not close    *)
(* the socket, the client waits for ever.                                  *)
NotStarted ==
    /\ nalloc = 0 \/ (nalloc = 1 /\ ev[1] = "START" /\ Unhandled(1))
    /\ sock = "none" /\ ~started /\ ~closedEv
    /\ nq = << >> /\ cpc = "idle" /\ ref = 1

StartFailed ==
    /\ nalloc = 1 /\ ev[1] = "START" /\ ~Unhandled(1)
    /\ nq = << >> /\ cpc = "idle" /\ ref = 1

Connecting ==
    /\ nalloc = 2 /\ ev[1] = "START" /\ ev[2] = "CONNECT" /\ ~Unhandled(1)
    /\ sock = "open" /\ (started \/ st[2] = "refused")
    /\ ~closedEv /\ cpc = "idle"
    /\ \/ nq = << >> /\ ref = 1
       \/ nq = <<"CONNECT">> /\ ref = 2 /\ started /\ ~Unhandled(2)

Stopping ==
    /\ nalloc = 3 /\ ev[1] = "START" /\ ev[2] = "CONNECT" /\ ev[3] = "STOP"
    /\ ~Unhandled(1) /\ ~Unhandled(2)
    /\ nq = << >>
    /\ IF Unhandled(3)
       THEN sock = "open" /\ started /\ ~closedEv /\ cpc = "waitclosed"
       ELSE \/ sock = "closed"
            \/ sock = "open" /\ ~closedEv /\ cpc = "waitclosed"
    /\ \/ cpc \in {"waitclosed", "release"} /\ ref = 2
       \/ cpc = "dropitem" /\ ref = 1
       \/ cpc = "idle" /\ ref = 0

Story ==
    class = "Connection" => NotStarted \/ StartFailed \/ Connecting \/ Stopping
-------------------------------------------------------------------------------
(* What the steps do, as far as the layers need to know.                   *)
Operations == [ev : {"CONNECT", "READ", "WRITE"}, accepted : BOOLEAN]

NewBlocks == nalloc + 1 .. nalloc'

(* AllocZ3Ovl and the kernel's answer for the blocks of one handler, in    *)
(* the numbering of Issue.                                                 *)
Allocates ==
    /\ nalloc' \in nalloc .. MaxOvls
    /\ st' \in [Ovls -> {"none", "pending", "cancelled", "refused", "iocp", "evq",
                         "exec", "freed", "lost"}]
    /\ ev' \in [Ovls -> {"none", "START", "STOP", "CONNECT", "READ", "WRITE"}]
    /\ timer' \in [Ovls -> {"none", "null", "armed", "fired", "over", "deleted"}]
    /\ UNCHANGED <<undeleted, result>>
    /\ \A o \in Ovls :
           IF o \in NewBlocks
           THEN /\ st'[o] \in {"pending", "refused"}
                /\ ev'[o] \in {"CONNECT", "READ", "WRITE"}
                /\ timer'[o] \in {"armed", "null"}
           ELSE st'[o] = st[o] /\ ev'[o] = ev[o] /\ timer'[o] = timer[o]

(* Issue numbers the new blocks after the old ones, arms their timers (or  *)
(* fails to) and leaves the old blocks alone.                              *)
LEMMA IssueFacts ==
    ASSUME TypeOK, NEW ops \in Seq(Operations), Fits(ops), Issue(ops)
    PROVE  /\ Allocates
           /\ failures' \in 0 .. MaxFailures
           /\ nalloc' = nalloc + Len(ops)
           /\ \A o \in NewBlocks : /\ o - nalloc \in 1 .. Len(ops)
                                   /\ ev'[o] = ops[o - nalloc].ev
                                   /\ st'[o] = "pending" <=> ops[o - nalloc].accepted
  <1>1. nalloc \in Nat /\ Len(ops) \in Nat /\ nalloc' = nalloc + Len(ops) /\ MaxOvls \in Nat
    BY DEF Issue, TypeOK
  <1>2. nalloc' \in nalloc .. MaxOvls
    BY <1>1 DEF Fits
  <1>3. \A o \in NewBlocks : o - nalloc \in 1 .. Len(ops) /\ o \in Ovls
    BY <1>1, <1>2 DEF NewBlocks, Ovls
  <1>4. \A i \in 1 .. Len(ops) : ops[i].ev \in {"CONNECT", "READ", "WRITE"}
    <2>1. \A op \in Operations : op.ev \in {"CONNECT", "READ", "WRITE"}
      BY DEF Operations
    <2>2. \A i \in 1 .. Len(ops) : ops[i] \in Operations
      OBVIOUS
    <2> QED  BY <2>1, <2>2
  <1>5. /\ st' = [o \in Ovls |-> IF o \notin NewBlocks THEN st[o]
                                ELSE IF ops[o - nalloc].accepted THEN "pending"
                                ELSE "refused"]
        /\ ev' = [o \in Ovls |-> IF o \in NewBlocks THEN ops[o - nalloc].ev ELSE ev[o]]
        /\ UNCHANGED <<undeleted, result>>
    BY <1>1 DEF Issue, NewBlocks
  <1>6. PICK made \in [NewBlocks -> {"armed", "null"}] :
          /\ timer' = [o \in Ovls |-> IF o \in NewBlocks THEN made[o] ELSE timer[o]]
          /\ IF \E o \in NewBlocks : made[o] = "null" THEN Fail ELSE UNCHANGED failures
    BY <1>1 DEF Issue, NewBlocks
  <1>7. failures' \in 0 .. MaxFailures
    BY <1>6 DEF Fail, TypeOK
  <1>8. \A o \in NewBlocks : /\ ev'[o] = ops[o - nalloc].ev
                             /\ ev'[o] \in {"CONNECT", "READ", "WRITE"}
                             /\ st'[o] = "pending" <=> ops[o - nalloc].accepted
                             /\ st'[o] \in {"pending", "refused"}
                             /\ timer'[o] \in {"armed", "null"}
    BY <1>3, <1>4, <1>5, <1>6
  <1>9. \A o \in Ovls : o \notin NewBlocks =>
            st'[o] = st[o] /\ ev'[o] = ev[o] /\ timer'[o] = timer[o]
    BY <1>5, <1>6
  <1>10. /\ st' \in [Ovls -> {"none", "pending", "cancelled", "refused", "iocp",
                             "evq", "exec", "freed", "lost"}]
        /\ ev' \in [Ovls -> {"none", "START", "STOP", "CONNECT", "READ", "WRITE"}]
        /\ timer' \in [Ovls -> {"none", "null", "armed", "fired", "over", "deleted"}]
    <2>1. st' \in [Ovls -> {"none", "pending", "cancelled", "refused", "iocp",
                             "evq", "exec", "freed", "lost"}]
      BY <1>5 DEF TypeOK
    <2>2. ev' \in [Ovls -> {"none", "START", "STOP", "CONNECT", "READ", "WRITE"}]
      <3>1. ASSUME NEW o \in Ovls
            PROVE  ev'[o] \in {"none", "START", "STOP", "CONNECT", "READ", "WRITE"}
        BY <1>8, <1>9 DEF TypeOK
      <3>2. ev' = [o \in Ovls |-> ev'[o]]
        BY <1>5
      <3> QED  BY <3>1, <3>2
    <2>3. timer' \in [Ovls -> {"none", "null", "armed", "fired", "over", "deleted"}]
      BY <1>8, <1>9, <1>6 DEF TypeOK
    <2> QED  BY <2>1, <2>2, <2>3
  <1> QED  BY <1>1, <1>2, <1>3, <1>5, <1>8, <1>9, <1>10, <1>7 DEF Allocates

(* A handler that allocates nothing.                                       *)
LEMMA NothingIssued ==
    ASSUME TypeOK, Issue(<< >>) \/ UNCHANGED ovlVars
    PROVE  /\ Allocates /\ NewBlocks = {} /\ nalloc' = nalloc
           /\ Issue(<< >>) => failures' \in 0 .. MaxFailures
  <1>1. CASE Issue(<< >>)
    <2>1. << >> \in Seq(Operations) /\ Len(<< >>) = 0
      OBVIOUS
    <2>2. Fits(<< >>)
      BY DEF Fits, TypeOK
    <2>3. Allocates /\ nalloc' = nalloc + 0 /\ failures' \in 0 .. MaxFailures
      BY <1>1, <2>1, <2>2, IssueFacts
    <2> QED  BY <2>3 DEF NewBlocks, TypeOK
  <1>2. CASE UNCHANGED ovlVars /\ ~Issue(<< >>)
    BY <1>2 DEF ovlVars, Allocates, NewBlocks, TypeOK
  <1> QED  BY <1>1, <1>2

(* The operations a handler asks for.                                      *)
LEMMA OperationFacts ==
    ASSUME NEW e \in {"CONNECT", "READ", "WRITE"}
    PROVE  /\ Accepted(e) \in Operations /\ Refused(e) \in Operations
           /\ Accepted(e).ev = e /\ Refused(e).ev = e
  BY DEF Accepted, Refused, Operations

(* A single Async* call: at most one operation, of the event asked for.    *)
LEMMA AttemptFacts ==
    ASSUME NEW ops \in Attempts("WRITE")
    PROVE  /\ ops \in Seq(Operations)
           /\ \A i \in 1 .. Len(ops) : ops[i].ev = "WRITE"
  <1>1. CASE ops = << >>
    BY <1>1
  <1>2. ASSUME NEW op \in Operations, ops = <<op>>, op.ev = "WRITE"
        PROVE  ops \in Seq(Operations) /\ \A i \in 1 .. Len(ops) : ops[i].ev = "WRITE"
    BY <1>2
  <1> QED  BY <1>1, <1>2, OperationFacts DEF Attempts

(* A request and a read: the read comes second, if at all.                 *)
LEMMA RequestFacts ==
    ASSUME NEW ops \in RequestAndRead
    PROVE  /\ ops \in Seq(Operations)
           /\ \A i \in 1 .. Len(ops) : ops[i].ev = "READ" => i = 2
           /\ \A i \in 1 .. Len(ops) : ops[i].ev \in {"READ", "WRITE"}
  <1>1. CASE ops \in Attempts("WRITE")
    BY <1>1, AttemptFacts
  <1>2. ASSUME NEW w \in Operations, NEW r \in Operations, ops = <<w, r>>,
               w.ev = "WRITE", r.ev = "READ"
        PROVE  /\ ops \in Seq(Operations)
               /\ \A i \in 1 .. Len(ops) : ops[i].ev = "READ" => i = 2
               /\ \A i \in 1 .. Len(ops) : ops[i].ev \in {"READ", "WRITE"}
    BY <1>2
  <1> QED  BY <1>1, <1>2, OperationFacts DEF RequestAndRead

(* A handler may begin one leading operation, and only if it handles one.  *)
LeadsOn(x) ==
    /\ Allocates
    /\ \A o \in NewBlocks : ev'[o] \in Leading => ev[xovl[x]] \in Leading
    /\ \A o, q \in NewBlocks : ev'[o] \in Leading /\ ev'[q] \in Leading => o = q

(* A handler run by executor x, whichever event it is for.                 *)
Handles(x) ==
    /\ xpc[x] = "run" /\ xpc' = [xpc EXCEPT ![x] = "unlock"]
    /\ UNCHANGED <<xovl, iocp, evq, lock, cpc, phase, class>>
    /\ sock' \in {"none", "open", "closed"}
    /\ started' \in BOOLEAN /\ closedEv' \in BOOLEAN
    /\ failures' \in 0 .. MaxFailures
    /\ \/ UNCHANGED refVars
       \/ \E e \in {"CONNECT", "READ", "WRITE", "NOTIFY"} : Notify(e)
    /\ LeadsOn(x)

(* Every handler that Run dispatches to is described by Handles.           *)
LEMMA RunHandles ==
    ASSUME TypeOK, NEW x \in Executors, Run(x)
    PROVE  Handles(x)
  <1>1. /\ xpc[x] = "run" /\ xpc' = [xpc EXCEPT ![x] = "unlock"]
        /\ UNCHANGED <<xovl, iocp, evq, lock, cpc, phase, class>>
    BY DEF Run, OnStart, OnStop, OnConnect, OnEvRead, OnEvWrite, Handler
  <1>2. /\ sock' \in {"none", "open", "closed"}
        /\ started' \in BOOLEAN /\ closedEv' \in BOOLEAN
    BY DEF Run, OnStart, OnStop, OnConnect, OnEvRead, OnEvWrite, Close,
           CloseSocket, CloseFails, objVars, TypeOK
  <1>3. \/ UNCHANGED refVars
        \/ \E e \in {"CONNECT", "READ", "WRITE", "NOTIFY"} : Notify(e)
    BY DEF Run, OnStart, OnStop, OnConnect, OnEvRead, OnEvWrite
  <1>4. ASSUME Close \/ CloseSocket \/ CloseFails \/ UNCHANGED failures
         PROVE  failures' \in 0 .. MaxFailures
    BY <1>4 DEF Close, CloseSocket, CloseFails, Fail, TypeOK
  <1>5. ASSUME Issue(<< >>) \/ UNCHANGED ovlVars PROVE LeadsOn(x)
    BY <1>5, NothingIssued DEF LeadsOn
  <1>6. ASSUME NEW ops \in RequestAndRead, Fits(ops), Issue(ops),
               ev[xovl[x]] \in Leading
        PROVE  LeadsOn(x) /\ failures' \in 0 .. MaxFailures
    <2>0. failures' \in 0 .. MaxFailures
      BY <1>6, RequestFacts, IssueFacts
    <2>1. Allocates /\ \A o \in NewBlocks : o - nalloc \in 1 .. Len(ops)
                                         /\ ev'[o] = ops[o - nalloc].ev
      BY <1>6, RequestFacts, IssueFacts
    <2>2. \A o \in NewBlocks : ev'[o] \in Leading => o = nalloc + 2
      <3>1. \A o \in NewBlocks : ev'[o] \in Leading => o - nalloc = 2
        BY <2>1, RequestFacts DEF Leading
      <3>2. \A o \in NewBlocks : o \in Int /\ nalloc \in Int
        BY DEF NewBlocks, TypeOK
      <3> QED  BY <3>1, <3>2
    <2> QED  BY <1>6, <2>0, <2>1, <2>2 DEF LeadsOn
  <1>7. ASSUME OnStart(x) PROVE LeadsOn(x) /\ failures' \in 0 .. MaxFailures
    <2>1. ev[xovl[x]] = "START"
      BY <1>7 DEF OnStart, Handler
    <2>2. ASSUME NEW accepted \in BOOLEAN,
                 Fits(<<[ev |-> "CONNECT", accepted |-> accepted]>>),
                 Issue(<<[ev |-> "CONNECT", accepted |-> accepted]>>)
          PROVE  LeadsOn(x) /\ failures' \in 0 .. MaxFailures
      <3> DEFINE op == [ev |-> "CONNECT", accepted |-> accepted]
      <3>1. op \in Operations
        BY DEF Operations
      <3>2. <<op>> \in Seq(Operations) /\ Len(<<op>>) = 1
        BY <3>1
      <3>3. Allocates /\ nalloc' = nalloc + 1 /\ failures' \in 0 .. MaxFailures
        BY <2>2, <3>2, IssueFacts
      <3> QED  BY <2>1, <3>3 DEF LeadsOn, Leading, NewBlocks, TypeOK
    <2> QED  BY <1>7, <1>5, <2>2, NothingIssued DEF OnStart
  <1>8. ASSUME OnStop(x) PROVE LeadsOn(x) /\ failures' \in 0 .. MaxFailures
    BY <1>8, <1>5, <1>4 DEF OnStop
  <1>9. ASSUME OnConnect(x) PROVE LeadsOn(x) /\ failures' \in 0 .. MaxFailures
    <2>1. ev[xovl[x]] \in Leading
      BY <1>9 DEF OnConnect, Handler, Leading
    <2>2. << >> \in RequestAndRead
      BY DEF RequestAndRead, Attempts
    <2> QED  BY <1>9, <1>5, <1>6, <1>4, <2>1, <2>2 DEF OnConnect
  <1>10. ASSUME OnEvRead(x) PROVE LeadsOn(x) /\ failures' \in 0 .. MaxFailures
    <2>1. ev[xovl[x]] \in Leading
      BY <1>10 DEF OnEvRead, Handler, Leading
    <2> QED  BY <1>10, <1>5, <1>6, <1>4, <2>1 DEF OnEvRead
  <1>11. ASSUME OnEvWrite(x) PROVE LeadsOn(x) /\ failures' \in 0 .. MaxFailures
    <2>1. ASSUME NEW ops \in Attempts("WRITE"), Fits(ops), Issue(ops)
          PROVE  LeadsOn(x) /\ failures' \in 0 .. MaxFailures
      <3>1. /\ Allocates /\ \A o \in NewBlocks : ev'[o] = "WRITE"
            /\ failures' \in 0 .. MaxFailures
        BY <2>1, AttemptFacts, IssueFacts
      <3> QED  BY <3>1 DEF LeadsOn, Leading
    <2> QED  BY <1>11, <1>5, <1>4, <2>1 DEF OnEvWrite
  <1>12. LeadsOn(x) /\ failures' \in 0 .. MaxFailures
    BY <1>7, <1>8, <1>9, <1>10, <1>11 DEF Run
  <1> QED  BY <1>1, <1>2, <1>3, <1>12 DEF Handles
-------------------------------------------------------------------------------
(* The first layer.                                                        *)
LEMMA HeadTail ==
    ASSUME NEW S, NEW s \in Seq(S), s # << >>
    PROVE  /\ Head(s) \in S /\ Tail(s) \in Seq(S)
           /\ Head(s) = s[1] /\ Len(s) \in Nat \ {0} /\ Len(Tail(s)) = Len(s) - 1
           /\ \A i \in 1 .. Len(s) - 1 : Tail(s)[i] = s[i + 1]
  OBVIOUS

(* A block that PostCompletionStatus puts into the port, or fails to.      *)
Posted == st' = [st EXCEPT ![nalloc + 1] = "iocp"] /\ iocp' = Append(iocp, nalloc + 1)

NotPosted == st' = [st EXCEPT ![nalloc + 1] = "freed"] /\ iocp' = iocp

(* IOCPObj::Post keeps the types of the blocks and of the port.            *)
LEMMA PostFacts ==
    ASSUME TypeOK, NEW e \in {"START", "STOP"}, Post(e)
    PROVE  /\ nalloc + 1 \in Ovls /\ nalloc' = nalloc + 1 /\ nalloc' \in 0 .. MaxOvls
           /\ Posted \/ NotPosted
           /\ st' \in [Ovls -> {"none", "pending", "cancelled", "refused", "iocp",
                                "evq", "exec", "freed", "lost"}]
           /\ ev' = [ev EXCEPT ![nalloc + 1] = e]
           /\ ev' \in [Ovls -> {"none", "START", "STOP", "CONNECT", "READ", "WRITE"}]
           /\ result' \in [Ovls -> {"none", "ok", "part", "zero", "err"}]
           /\ iocp' \in Seq(Ovls) /\ failures' \in 0 .. MaxFailures
           /\ UNCHANGED <<timer, undeleted>>
  <1>1. nalloc + 1 \in Ovls /\ nalloc' = nalloc + 1 /\ nalloc' \in 0 .. MaxOvls
    BY DEF Post, Ovls, TypeOK
  <1>2. Posted \/ NotPosted
    BY DEF Post, Posted, NotPosted
  <1>3. failures' \in 0 .. MaxFailures
    BY DEF Post, Fail, TypeOK
  <1>4. iocp' \in Seq(Ovls)
    <2>1. iocp \in Seq(Ovls) /\ Append(iocp, nalloc + 1) \in Seq(Ovls)
      BY <1>1 DEF TypeOK
    <2> QED  BY <2>1 DEF Post
  <1> QED  BY <1>1, <1>2, <1>3, <1>4 DEF Post, TypeOK

(* AsyncObj::Release: the count, and the timers if it was the last one.    *)
LEMMA ReleaseFacts ==
    ASSUME Base, Release
    PROVE  /\ lock = NoOne /\ alive /\ ref \in Nat \ {0} /\ ref' = ref - 1 /\ ref' \in Nat
           /\ alive' \in BOOLEAN /\ (alive' <=> ref' > 0)
  <1>1. lock = NoOne /\ alive /\ ref \in Nat \ {0} /\ ref' = ref - 1 /\ ref' \in Nat
    BY DEF Release, Base, TypeOK, AliveIsReferenced
  <1>2. (ref > 1 <=> ref' > 0) /\ (ref > 1) \in BOOLEAN
    BY <1>1
  <1>3. alive' = (ref > 1)
    BY Zenon DEF Release
  <1> QED  BY <1>1, <1>2, <1>3, Zenon

(* Deleting the object takes its pending timers with it.                   *)
LEMMA ReleaseTimers ==
    ASSUME TypeOK, Release
    PROVE  /\ timer' \in [Ovls -> {"none", "null", "armed", "fired", "over", "deleted"}]
           /\ \A o \in Ovls :
                  \/ timer'[o] = timer[o]
                  \/ timer[o] \in {"armed", "fired"} /\ timer'[o] = "deleted"
  <1>1. \A o \in Ovls :
            \/ timer'[o] = timer[o]
            \/ timer[o] \in {"armed", "fired"} /\ timer'[o] = "deleted"
    BY DEF Release
  <1>2. timer' \in [Ovls -> {"none", "null", "armed", "fired", "over", "deleted"}]
    BY DEF Release, TypeOK
  <1> QED  BY <1>1, <1>2

(* The block in the hands of an executor.                                  *)
LEMMA InHandIsBlock ==
    ASSUME Base, NEW x \in Executors, xpc[x] \notin {"wait", "exited"}
    PROVE  xovl[x] \in Ovls /\ xovl[x] # 0
  <1>1. xovl[x] # 0
    BY DEF Base, BlockInHand
  <1>2. xovl[x] \in 0 .. MaxOvls
    BY DEF Base, TypeOK
  <1> QED  BY <1>1, <1>2 DEF Ovls

(* Base is inductive on its own.                                           *)
LEMMA BaseStep == ASSUME Base, [Next]_vars PROVE Base'
  <1> USE DEF Base, LockHeld, BlockInHand, AliveIsReferenced, StoppedInOrder,
              exeVars, objVars, refVars
  <1>1. CASE Start
    BY <1>1, PostFacts DEF Start, TypeOK
  <1>2. CASE Quit
    BY <1>2 DEF Quit, TypeOK, ovlVars
  <1>3. CASE Dispatch
    BY <1>3, HeadTail DEF Dispatch, TypeOK
  <1>4. ASSUME NEW o \in Ovls, NEW r \in {"ok", "part", "zero", "err"}, Complete(o, r)
        PROVE  Base'
    BY <1>4 DEF Complete, TypeOK
  <1>5. ASSUME NEW x \in Executors, Take(x) PROVE Base'
    <2>1. Head(evq) \in Ovls /\ Head(evq) # 0 /\ Tail(evq) \in Seq(Ovls)
      BY <1>5, HeadTail DEF Take, TypeOK, Ovls
    <2> QED  BY <1>5, <2>1 DEF Take, TypeOK, Ovls
  <1>6. ASSUME NEW x \in Executors, LockObj(x) PROVE Base'
    BY <1>6 DEF LockObj, TypeOK, ovlVars
  <1>7. ASSUME NEW x \in Executors, CancelTimer(x) PROVE Base'
    <2>1. xovl[x] \in Ovls
      BY <1>7, InHandIsBlock DEF CancelTimer
    <2>2. undeleted' \subseteq Ovls /\ failures' \in 0 .. MaxFailures
      BY <1>7, <2>1 DEF CancelTimer, Fail, TypeOK
    <2>3. PICK p \in {"delete", "run"} : xpc' = [xpc EXCEPT ![x] = p]
      BY <1>7 DEF CancelTimer
    <2>4. /\ xpc[x] = "cancel"
          /\ UNCHANGED <<nalloc, st, ev, timer, result, iocp, evq, lock, xovl, sock,
                         started, closedEv, ref, alive, nq, cpc, phase, class>>
      BY <1>7 DEF CancelTimer
    <2>5. TypeOK'
      BY <2>2, <2>3, <2>4 DEF TypeOK
    <2> QED  BY <2>3, <2>4, <2>5 DEF TypeOK
  <1>8. ASSUME NEW x \in Executors, DeleteTimer(x) PROVE Base'
    BY <1>8 DEF DeleteTimer, TypeOK
  <1>9. ASSUME NEW x \in Executors, Run(x) PROVE Base'
    <2>1. Handles(x) /\ Allocates /\ lock = x /\ alive /\ lock # NoOne
      BY <1>9, RunHandles DEF Handles, LeadsOn, TypeOK
    <2>2. /\ nq' \in Seq({"CONNECT", "READ", "WRITE", "NOTIFY"})
          /\ alive' /\ alive' \in BOOLEAN /\ ref' \in Nat /\ ref' > 0
      <3>1. CASE UNCHANGED refVars
        BY <2>1, <3>1 DEF TypeOK
      <3>2. ASSUME NEW e \in {"CONNECT", "READ", "WRITE", "NOTIFY"}, Notify(e)
            PROVE  /\ nq' \in Seq({"CONNECT", "READ", "WRITE", "NOTIFY"})
                   /\ alive' /\ alive' \in BOOLEAN /\ ref' \in Nat /\ ref' > 0
        BY <2>1, <3>2 DEF Notify, TypeOK
      <3> QED  BY <2>1, <3>1, <3>2 DEF Handles
    <2>3. TypeOK'
      BY <2>1, <2>2 DEF Handles, Allocates, TypeOK
    <2> QED  BY <2>1, <2>2, <2>3 DEF Handles, TypeOK
  <1>10. ASSUME NEW x \in Executors, Unlock(x) PROVE Base'
    BY <1>10 DEF Unlock, TypeOK, ovlVars
  <1>11. ASSUME NEW x \in Executors, FreeZ3Ovl(x) PROVE Base'
    <2>1. 0 \in 0 .. MaxOvls
      OBVIOUS
    <2>2. TypeOK'
      BY <1>11, <2>1 DEF FreeZ3Ovl, TypeOK
    <2> QED  BY <1>11, <2>2 DEF FreeZ3Ovl, TypeOK
  <1>12. ASSUME NEW x \in Executors, ExecutorStop(x) PROVE Base'
    BY <1>12 DEF ExecutorStop, TypeOK, ovlVars
  <1>13. ASSUME NEW o \in Ovls, Expire(o) \/ TimerCallBack(o) PROVE Base'
    <2>1. CASE Expire(o)
      BY <2>1 DEF Expire, TypeOK
    <2>2. CASE TimerCallBack(o)
      <3>1. TypeOK'
        BY <2>2 DEF TimerCallBack, TypeOK
      <3> QED  BY <2>2, <3>1 DEF TimerCallBack
    <2> QED  BY <1>13, <2>1, <2>2
  <1>14. CASE OnNotify
    <2>1. Tail(nq) \in Seq({"CONNECT", "READ", "WRITE", "NOTIFY"})
      BY <1>14, HeadTail DEF OnNotify, TypeOK
    <2> QED  BY <1>14, <2>1, PostFacts DEF OnNotify, TypeOK, ovlVars
  <1>15. CASE WaitForClosedEvent
    BY <1>15 DEF WaitForClosedEvent, TypeOK, ovlVars
  <1>16. CASE ClientRelease
    BY <1>16, ReleaseFacts, ReleaseTimers DEF ClientRelease, TypeOK
  <1>17. CASE EngineStop
    BY <1>17 DEF EngineStop, TypeOK
  <1>18. CASE OnClientStop
    BY <1>18, ReleaseFacts, ReleaseTimers DEF OnClientStop, TypeOK
  <1>19. CASE UNCHANGED vars
    BY <1>19 DEF vars, ovlVars, TypeOK
  <1> QED  BY <1>1, <1>2, <1>3, <1>4, <1>5, <1>6, <1>7, <1>9, <1>10, <1>11, <1>12,
              <1>13, <1>14, <1>15, <1>16, <1>17, <1>18, <1>19, <1>8
           DEF Next, Kernel, ExecutorStep, ClientStep
-------------------------------------------------------------------------------
(* The second layer: the two queues and the executors' hands.              *)
LEMMA AppendEntries ==
    ASSUME NEW s \in Seq(Ovls), NEW o \in Ovls
    PROVE  /\ Entries(Append(s, o)) = Entries(s) \cup {o}
           /\ Injective(s) /\ o \notin Entries(s) => Injective(Append(s, o))
  <1>1. /\ Len(Append(s, o)) = Len(s) + 1 /\ Len(s) \in Nat
        /\ \A i \in 1 .. Len(s) : Append(s, o)[i] = s[i]
        /\ Append(s, o)[Len(s) + 1] = o
        /\ DOMAIN s = 1 .. Len(s) /\ DOMAIN Append(s, o) = 1 .. Len(s) + 1
    OBVIOUS
  <1>2. Entries(Append(s, o)) = Entries(s) \cup {o}
    <2>1. ASSUME NEW q \in Entries(Append(s, o)) PROVE q \in Entries(s) \cup {o}
      BY <1>1, <2>1 DEF Entries
    <2>2. ASSUME NEW q \in Entries(s) PROVE q \in Entries(Append(s, o))
      <3>1. PICK i \in 1 .. Len(s) : q = s[i]
        BY <1>1 DEF Entries
      <3>2. i \in 1 .. Len(s) + 1 /\ Append(s, o)[i] = q
        BY <1>1, <3>1
      <3> QED  BY <1>1, <3>2 DEF Entries
    <2>3. o \in Entries(Append(s, o))
      <3>1. Len(s) + 1 \in 1 .. Len(s) + 1
        BY <1>1
      <3> QED  BY <1>1, <3>1 DEF Entries
    <2> QED  BY <2>1, <2>2, <2>3
  <1>3. ASSUME Injective(s), o \notin Entries(s) PROVE Injective(Append(s, o))
    <2>1. \A i \in 1 .. Len(s) : s[i] # o
      BY <1>1, <1>3 DEF Entries
    <2> QED  BY <1>1, <1>3, <2>1 DEF Injective
  <1> QED  BY <1>2, <1>3

(* Taking the front of a queue without repetition removes one entry.       *)
LEMMA TailEntries ==
    ASSUME NEW s \in Seq(Ovls), s # << >>, Injective(s)
    PROVE  /\ Head(s) \in Entries(s)
           /\ Entries(Tail(s)) = Entries(s) \ {Head(s)}
           /\ Injective(Tail(s))
  <1>1. /\ Len(s) \in Nat \ {0} /\ DOMAIN s = 1 .. Len(s)
        /\ DOMAIN Tail(s) = 1 .. Len(s) - 1
        /\ \A i \in 1 .. Len(s) - 1 : Tail(s)[i] = s[i + 1]
        /\ Head(s) = s[1]
    BY HeadTail
  <1>2. Head(s) \in Entries(s)
    BY <1>1 DEF Entries
  <1>3. ASSUME NEW q \in Entries(Tail(s)) PROVE q \in Entries(s) /\ q # Head(s)
    <2>1. PICK i \in 1 .. Len(s) - 1 : q = Tail(s)[i]
      BY <1>1 DEF Entries
    <2>2. q = s[i + 1] /\ i + 1 \in 1 .. Len(s) /\ i + 1 # 1
      BY <1>1, <2>1
    <2> QED  BY <1>1, <2>2 DEF Entries, Injective
  <1>4. ASSUME NEW q \in Entries(s), q # Head(s) PROVE q \in Entries(Tail(s))
    <2>1. PICK i \in 1 .. Len(s) : q = s[i]
      BY <1>1 DEF Entries
    <2>2. i - 1 \in 1 .. Len(s) - 1 /\ Tail(s)[i - 1] = q
      BY <1>1, <1>4, <2>1
    <2> QED  BY <1>1, <2>2 DEF Entries
  <1>5. Injective(Tail(s))
    <2>1. ASSUME NEW i \in 1 .. Len(s) - 1, NEW j \in 1 .. Len(s) - 1, s[i + 1] = s[j + 1]
          PROVE  i = j
      <3>1. i + 1 \in 1 .. Len(s) /\ j + 1 \in 1 .. Len(s)
        BY <1>1
      <3>2. i + 1 = j + 1
        BY <1>1, <2>1, <3>1 DEF Injective
      <3> QED  BY <3>2
    <2> QED  BY <1>1, <2>1 DEF Injective
  <1> QED  BY <1>2, <1>3, <1>4, <1>5

(* A step that moves no block between the queues and the executors.        *)
LEMMA KeepsPlaces ==
    ASSUME OnePlace, UNCHANGED <<iocp, evq, xovl>>,
           \A o \in Ovls : st'[o] = st[o] \/ {st[o], st'[o]} \cap {"iocp", "evq", "exec"} = {}
    PROVE  OnePlace'
  <1>1. \A o \in Ovls : \A p \in {"iocp", "evq", "exec"} : st'[o] = p <=> st[o] = p
    OBVIOUS
  <1> QED  BY <1>1 DEF OnePlace, Injective, Entries

(* A block that enters the completion port.                                *)
LEMMA EntersPort ==
    ASSUME TypeOK, OnePlace, NEW o \in Ovls, st[o] \notin {"iocp", "evq", "exec"},
           iocp' = Append(iocp, o), st' = [st EXCEPT ![o] = "iocp"], UNCHANGED <<evq, xovl>>
    PROVE  OnePlace'
  <1>1. o \notin Entries(iocp) /\ Injective(iocp) /\ iocp \in Seq(Ovls)
    BY DEF OnePlace, TypeOK
  <1>2. Injective(iocp') /\ Entries(iocp') = Entries(iocp) \cup {o}
    BY <1>1, AppendEntries
  <1>3. \A q \in Ovls : st'[q] = IF q = o THEN "iocp" ELSE st[q]
    BY DEF TypeOK
  <1>4. \A x \in Executors : xovl[x] # o
    BY DEF OnePlace
  <1>5. Entries(evq') = Entries(evq) /\ Injective(evq')
    BY DEF OnePlace, Entries, Injective
  <1>6. \A q \in Ovls : /\ st'[q] = "iocp" <=> q \in Entries(iocp')
                        /\ st'[q] = "evq" <=> q \in Entries(evq')
                        /\ st'[q] = "exec" <=> \E x \in Executors : xovl'[x] = q
    BY <1>2, <1>3, <1>4, <1>5 DEF OnePlace
  <1>7. \A x, y \in Executors : xovl'[x] = xovl'[y] /\ xovl'[x] # 0 => x = y
    BY DEF OnePlace
  <1> QED  BY <1>2, <1>5, <1>6, <1>7 DEF OnePlace, Injective, Entries

(* Engine::Dispatch moves the oldest block from the port to the event      *)
(* queue.                                                                  *)
LEMMA DispatchPlaces == ASSUME TypeOK, OnePlace, Dispatch PROVE OnePlace'
  <1> DEFINE o == Head(iocp)
  <1>1. /\ o \in Ovls /\ o \in Entries(iocp)
        /\ Entries(iocp') = Entries(iocp) \ {o} /\ Injective(iocp')
    BY TailEntries, HeadTail DEF Dispatch, OnePlace, TypeOK
  <1>2. st[o] = "iocp"
    BY <1>1 DEF OnePlace
  <1>3. o \notin Entries(evq) /\ \A x \in Executors : xovl[x] # o
    BY <1>1, <1>2 DEF OnePlace
  <1>4. Entries(evq') = Entries(evq) \cup {o} /\ Injective(evq')
    BY <1>1, <1>3, AppendEntries DEF Dispatch, OnePlace, TypeOK
  <1>5. (\A q \in Ovls : st'[q] = IF q = o THEN "evq" ELSE st[q]) /\ xovl' = xovl
    BY <1>1 DEF Dispatch, TypeOK, exeVars
  <1>6. \A q \in Ovls : /\ st'[q] = "iocp" <=> q \in Entries(iocp')
                        /\ st'[q] = "evq" <=> q \in Entries(evq')
                        /\ st'[q] = "exec" <=> \E x \in Executors : xovl'[x] = q
    BY <1>1, <1>3, <1>4, <1>5 DEF OnePlace
  <1>7. \A x, y \in Executors : xovl'[x] = xovl'[y] /\ xovl'[x] # 0 => x = y
    BY <1>5 DEF OnePlace
  <1> QED  BY <1>1, <1>4, <1>6, <1>7 DEF OnePlace, Injective, Entries

(* Executor::RunOnce moves the oldest event into the hands of one          *)
(* executor.                                                               *)
LEMMA TakePlaces ==
    ASSUME Base, OnePlace, NEW x \in Executors, Take(x) PROVE OnePlace'
  <1> DEFINE o == Head(evq)
  <1>1. /\ o \in Ovls /\ o \in Entries(evq)
        /\ Entries(evq') = Entries(evq) \ {o} /\ Injective(evq')
    BY TailEntries, HeadTail DEF Take, OnePlace, Base, TypeOK
  <1>2. st[o] = "evq" /\ xovl[x] = 0 /\ o # 0
    BY <1>1 DEF OnePlace, Base, BlockInHand, Take, Ovls
  <1>3. o \notin Entries(iocp) /\ \A y \in Executors : xovl[y] # o
    BY <1>1, <1>2 DEF OnePlace
  <1>4. /\ \A q \in Ovls : st'[q] = IF q = o THEN "exec" ELSE st[q]
        /\ \A y \in Executors : xovl'[y] = IF y = x THEN o ELSE xovl[y]
        /\ iocp' = iocp
    BY <1>1 DEF Take, Base, TypeOK
  <1>5. Entries(iocp') = Entries(iocp) /\ Injective(iocp')
    BY <1>4 DEF OnePlace, Entries, Injective
  <1>6. \A q \in Ovls : /\ st'[q] = "iocp" <=> q \in Entries(iocp')
                        /\ st'[q] = "evq" <=> q \in Entries(evq')
    BY <1>1, <1>3, <1>4, <1>5 DEF OnePlace
  <1>7. \A q \in Ovls : st'[q] = "exec" <=> \E y \in Executors : xovl'[y] = q
    <2>1. ASSUME NEW q \in Ovls, q # o PROVE st'[q] = "exec" <=> \E y \in Executors : xovl'[y] = q
      BY <1>2, <1>4, <2>1 DEF OnePlace, Ovls
    <2>2. st'[o] = "exec" /\ xovl'[x] = o
      BY <1>1, <1>4
    <2> QED  BY <2>1, <2>2
  <1>8. \A y, z \in Executors : xovl'[y] = xovl'[z] /\ xovl'[y] # 0 => y = z
    BY <1>3, <1>4 DEF OnePlace
  <1> QED  BY <1>1, <1>5, <1>6, <1>7, <1>8 DEF OnePlace, Injective, Entries

(* FreeZ3Ovl takes the block out of the hands of its executor.             *)
LEMMA FreePlaces ==
    ASSUME Base, OnePlace, NEW x \in Executors, FreeZ3Ovl(x) PROVE OnePlace'
  <1> DEFINE o == xovl[x]
  <1>1. o \in Ovls /\ o # 0
    BY InHandIsBlock DEF FreeZ3Ovl
  <1>2. st[o] = "exec"
    BY <1>1 DEF OnePlace
  <1>3. \A y \in Executors : xovl[y] = o => y = x
    BY <1>1 DEF OnePlace
  <1>4. /\ \A q \in Ovls : st'[q] = IF q = o THEN "freed" ELSE st[q]
        /\ \A y \in Executors : xovl'[y] = IF y = x THEN 0 ELSE xovl[y]
        /\ iocp' = iocp /\ evq' = evq
    BY <1>1 DEF FreeZ3Ovl, Base, TypeOK
  <1>5. \A q \in Ovls : /\ st'[q] = "iocp" <=> q \in Entries(iocp)
                        /\ st'[q] = "evq" <=> q \in Entries(evq)
    BY <1>2, <1>4 DEF OnePlace
  <1>6. \A q \in Ovls : st'[q] = "exec" <=> \E y \in Executors : xovl'[y] = q
    <2>1. ASSUME NEW q \in Ovls, q # o PROVE st'[q] = "exec" <=> \E y \in Executors : xovl'[y] = q
      BY <1>4, <2>1 DEF OnePlace, Ovls
    <2>2. st'[o] # "exec" /\ \A y \in Executors : xovl'[y] # o
      BY <1>1, <1>3, <1>4
    <2> QED  BY <2>1, <2>2
  <1>7. \A y, z \in Executors : xovl'[y] = xovl'[z] /\ xovl'[y] # 0 => y = z
    BY <1>4 DEF OnePlace
  <1> QED  BY <1>4, <1>5, <1>6, <1>7 DEF OnePlace, Injective, Entries

(* The shutdown drain empties the port and the event queue.                *)
LEMMA EngineStopPlaces == ASSUME Base, OnePlace, EngineStop PROVE OnePlace'
  <1>1. /\ iocp' = << >> /\ evq' = << >> /\ xovl' = xovl
        /\ \A o \in Ovls : st'[o] = (IF st[o] = "evq" THEN "freed"
                                     ELSE IF st[o] = "iocp" THEN "lost" ELSE st[o])
    BY DEF EngineStop, exeVars
  <1>2. Entries(iocp') = {} /\ Entries(evq') = {} /\ Injective(iocp') /\ Injective(evq')
    BY <1>1 DEF Entries, Injective
  <1>3. \A o \in Ovls : /\ st'[o] # "iocp" /\ st'[o] # "evq"
                        /\ st'[o] = "exec" <=> st[o] = "exec"
    BY <1>1
  <1> QED  BY <1>1, <1>2, <1>3 DEF OnePlace, Injective, Entries

(* Once allocated, a block is never fresh again.                           *)
LEMMA KeepsFresh ==
    ASSUME Base, Fresh, nalloc' \in nalloc .. MaxOvls,
           \A o \in Ovls : o > nalloc' =>
               /\ st'[o] = st[o] \/ st[o] # "none"
               /\ ev'[o] = ev[o]
               /\ timer'[o] = timer[o] \/ timer[o] # "none"
    PROVE  Fresh'
  BY DEF Fresh, Base, TypeOK, Ovls

(* Places is inductive relative to Base.                                   *)
LEMMA PlacesStep == ASSUME Base, Base', Places, [Next]_vars PROVE Places'
  <1> USE DEF exeVars
  <1>1. nalloc \in 0 .. MaxOvls /\ nalloc \in nalloc .. MaxOvls /\ OnePlace /\ Fresh /\ TypeOK
    <2>1. TypeOK /\ OnePlace /\ Fresh
      BY DEF Base, Places
    <2>2. nalloc \in 0 .. MaxOvls
      BY <2>1 DEF TypeOK
    <2>3. nalloc \in nalloc .. MaxOvls
      BY <2>2
    <2> QED  BY <2>1, <2>2, <2>3
  <1>2. ASSUME NEW e \in {"START", "STOP"}, Post(e), UNCHANGED <<evq, xovl>> PROVE Places'
    <2>1. /\ nalloc + 1 \in Ovls /\ nalloc' = nalloc + 1
          /\ Posted \/ NotPosted
          /\ ev' = [ev EXCEPT ![nalloc + 1] = e] /\ UNCHANGED timer
      BY <1>1, <1>2, PostFacts
    <2>2. st[nalloc + 1] = "none"
      BY <1>1, <2>1 DEF Fresh
    <2>3. ASSUME Posted PROVE OnePlace'
      BY <1>1, <1>2, <2>1, <2>2, <2>3, EntersPort DEF Posted
    <2>4. ASSUME NotPosted PROVE OnePlace'
      <3>1. \A o \in Ovls : st'[o] = IF o = nalloc + 1 THEN "freed" ELSE st[o]
        BY <1>1, <2>1, <2>4 DEF NotPosted, TypeOK
      <3>2. \A o \in Ovls : \/ st'[o] = st[o]
                            \/ {st[o], st'[o]} \cap {"iocp", "evq", "exec"} = {}
        BY <2>2, <3>1
      <3> QED  BY <1>1, <1>2, <2>4, <3>2, KeepsPlaces DEF NotPosted
    <2>5. Fresh'
      BY <1>1, <2>1 DEF Posted, NotPosted, Fresh, TypeOK, Ovls
    <2> QED  BY <2>1, <2>3, <2>4, <2>5 DEF Places
  <1>3. CASE Start
    BY <1>2, <1>3 DEF Start
  <1>4. CASE Dispatch
    <2>1. Head(iocp) \in Ovls /\ st[Head(iocp)] # "none"
      BY <1>1, <1>4, TailEntries, HeadTail DEF Dispatch, OnePlace, TypeOK
    <2>2. Fresh'
      BY <1>1, <1>4, <2>1 DEF Dispatch, Fresh, TypeOK
    <2> QED  BY <1>1, <1>4, <2>2, DispatchPlaces DEF Places
  <1>5. ASSUME NEW o \in Ovls, NEW r, Complete(o, r) PROVE Places'
    <2>1. OnePlace'
      BY <1>1, <1>5, EntersPort DEF Complete
    <2>2. Fresh'
      BY <1>1, <1>5 DEF Complete, Fresh, TypeOK
    <2> QED  BY <2>1, <2>2 DEF Places
  <1>6. ASSUME NEW x \in Executors, Take(x) PROVE Places'
    <2>1. Head(evq) \in Ovls /\ st[Head(evq)] # "none"
      BY <1>1, <1>6, TailEntries, HeadTail DEF Take, OnePlace, TypeOK
    <2>2. Fresh'
      BY <1>1, <1>6, <2>1 DEF Take, Fresh, TypeOK
    <2> QED  BY <1>1, <1>6, <2>2, TakePlaces DEF Places
  <1>7. ASSUME NEW x \in Executors, FreeZ3Ovl(x) PROVE Places'
    <2>1. xovl[x] \in Ovls /\ st[xovl[x]] # "none"
      BY <1>1, <1>7, InHandIsBlock DEF FreeZ3Ovl, OnePlace
    <2>2. Fresh'
      BY <1>1, <1>7, <2>1 DEF FreeZ3Ovl, Fresh, TypeOK
    <2> QED  BY <1>1, <1>7, <2>2, FreePlaces DEF Places
  <1>8. ASSUME NEW x \in Executors, Run(x) PROVE Places'
    <2>1. Handles(x) /\ Allocates
      BY <1>1, <1>8, RunHandles DEF Handles, LeadsOn
    <2>2. \A o \in NewBlocks : o > nalloc /\ o <= nalloc'
      BY <1>1, <2>1 DEF NewBlocks, Allocates
    <2>3. \A o \in Ovls : st'[o] = st[o] \/ {st[o], st'[o]} \cap {"iocp", "evq", "exec"} = {}
      BY <1>1, <2>1, <2>2 DEF Allocates, Fresh
    <2>4. OnePlace'
      BY <1>1, <2>1, <2>3, KeepsPlaces DEF Handles
    <2>5. Fresh'
      <3>1. nalloc' \in nalloc .. MaxOvls /\ \A o \in Ovls : o > nalloc' => o \notin NewBlocks
        BY <1>1, <2>1 DEF Allocates, NewBlocks, Ovls
      <3> QED  BY <1>1, <2>1, <3>1, KeepsFresh DEF Allocates
    <2> QED  BY <2>4, <2>5 DEF Places
  <1>9. ASSUME UNCHANGED <<nalloc, ev, iocp, evq, xovl>>,
               \A o \in Ovls : \/ st'[o] = st[o]
                               \/ st[o] = "pending" /\ st'[o] = "cancelled",
               \A o \in Ovls : timer'[o] = timer[o] \/ timer[o] # "none"
        PROVE  Places'
    BY <1>1, <1>9, KeepsPlaces, KeepsFresh DEF Places
  <1>10. ASSUME NEW x \in Executors, LockObj(x) \/ CancelTimer(x) \/ Unlock(x) \/ ExecutorStop(x)
         PROVE  Places'
    BY <1>1, <1>9, <1>10 DEF LockObj, CancelTimer, Unlock, ExecutorStop, ovlVars, TypeOK
  <1>11. ASSUME NEW x \in Executors, DeleteTimer(x) PROVE Places'
    <2>1. xovl[x] \in Ovls /\ st[xovl[x]] = "exec"
      BY <1>1, <1>11, InHandIsBlock DEF DeleteTimer, OnePlace
    <2>2. Fresh'
      BY <1>1, <1>11, <2>1 DEF DeleteTimer, Fresh, TypeOK
    <2> QED  BY <1>1, <1>11, <2>2, KeepsPlaces DEF DeleteTimer, Places
  <1>12. ASSUME NEW o \in Ovls, Expire(o) \/ TimerCallBack(o) PROVE Places'
    BY <1>1, <1>9, <1>12 DEF Expire, TimerCallBack, TypeOK
  <1>13. CASE OnNotify
    BY <1>2, <1>9, <1>13 DEF OnNotify, ovlVars
  <1>14. CASE Quit \/ WaitForClosedEvent \/ UNCHANGED vars
    BY <1>9, <1>14 DEF Quit, WaitForClosedEvent, vars, ovlVars
  <1>15. CASE ClientRelease \/ OnClientStop
    BY <1>1, <1>9, <1>15, ReleaseTimers DEF ClientRelease, OnClientStop
  <1>16. CASE EngineStop
    <2>1. Fresh'
      BY <1>1, <1>16 DEF EngineStop, Fresh
    <2> QED  BY <1>1, <1>16, <2>1, EngineStopPlaces DEF Places
  <1> QED  BY <1>3, <1>4, <1>5, <1>6, <1>7, <1>8, <1>10, <1>12, <1>13, <1>14, <1>15, <1>16,
              <1>11
           DEF Next, Kernel, ExecutorStep, ClientStep
-------------------------------------------------------------------------------
(* The third layer.  A step that arms no timer and frees no block.         *)
LEMMA KeepsTimers ==
    ASSUME Base, Timers, phase' # "stopped" => phase # "stopped",
           undeleted \subseteq undeleted',
           \A o \in Ovls : timer'[o] \in {"armed", "fired"} =>
               /\ timer[o] \in {"armed", "fired"}
               /\ st'[o] = "freed" => phase' = "stopped" \/ st[o] = "freed",
           \A x \in Executors : xpc'[x] \in {"run", "unlock", "free"} =>
               xpc[x] \in {"run", "unlock", "free"} /\ xovl'[x] = xovl[x]
    PROVE  Timers'
  <1>1. CallbackSeesLiveBlock'
    BY DEF Timers, CallbackSeesLiveBlock
  <1>2. ASSUME NEW x \in Executors, xpc'[x] \in {"run", "unlock", "free"}
        PROVE  timer'[xovl'[x]] \notin {"armed", "fired"} \/ xovl'[x] \in undeleted'
    <2>1. xpc[x] \in {"run", "unlock", "free"} /\ xovl'[x] = xovl[x]
      BY <1>2
    <2>2. xovl[x] \in Ovls
      BY <2>1, InHandIsBlock
    <2> QED  BY <2>1, <2>2 DEF Timers, Cancelled
  <1> QED  BY <1>1, <1>2 DEF Timers, Cancelled

(* Timers is inductive relative to Base and Places.                        *)
LEMMA TimersStep == ASSUME Base, Places, Timers, [Next]_vars PROVE Timers'
  <1> USE DEF exeVars
  <1>1. TypeOK /\ OnePlace /\ Fresh /\ CallbackSeesLiveBlock /\ Cancelled
    BY DEF Base, Places, Timers
  <1>2. ASSUME NEW e \in {"START", "STOP"}, Post(e), UNCHANGED <<xpc, xovl, phase>>
        PROVE  Timers'
    <2>1. /\ nalloc + 1 \in Ovls /\ timer[nalloc + 1] = "none"
          /\ (Posted \/ NotPosted) /\ UNCHANGED <<timer, undeleted>>
      BY <1>1, <1>2, PostFacts DEF Fresh, TypeOK, Ovls
    <2>2. \A o \in Ovls : st'[o] = st[o] \/ o = nalloc + 1
      BY <1>1, <2>1 DEF Posted, NotPosted, TypeOK
    <2> QED  BY <1>2, <2>1, <2>2, KeepsTimers
  <1>3. CASE Start
    BY <1>2, <1>3 DEF Start
  <1>4. CASE Dispatch
    BY <1>1, <1>4, HeadTail, KeepsTimers DEF Dispatch, TypeOK
  <1>5. ASSUME NEW o \in Ovls, NEW r, Complete(o, r) PROVE Timers'
    BY <1>1, <1>5, KeepsTimers DEF Complete, TypeOK
  <1>6. ASSUME NEW x \in Executors, Take(x) PROVE Timers'
    BY <1>1, <1>6, HeadTail, KeepsTimers DEF Take, TypeOK
  <1>7. ASSUME NEW x \in Executors, FreeZ3Ovl(x) PROVE Timers'
    <2>1. /\ xovl[x] \in Ovls
          /\ timer[xovl[x]] \notin {"armed", "fired"} \/ xovl[x] \in undeleted
      BY <1>1, <1>7, InHandIsBlock DEF FreeZ3Ovl, Cancelled
    <2>2. /\ \A o \in Ovls : st'[o] = IF o = xovl[x] THEN "freed" ELSE st[o]
          /\ \A y \in Executors : xpc'[y] \in {"run", "unlock", "free"} =>
                 xpc[y] \in {"run", "unlock", "free"} /\ xovl'[y] = xovl[y]
          /\ UNCHANGED <<timer, undeleted, phase>>
      BY <1>1, <1>7, <2>1 DEF FreeZ3Ovl, TypeOK
    <2>3. CallbackSeesLiveBlock'
      BY <1>1, <2>1, <2>2 DEF CallbackSeesLiveBlock
    <2>4. Cancelled'
      BY <1>1, <2>2 DEF Cancelled
    <2> QED  BY <2>3, <2>4 DEF Timers
  <1>8. ASSUME NEW x \in Executors, Run(x) PROVE Timers'
    <2>1. Handles(x) /\ Allocates
      BY <1>1, <1>8, RunHandles DEF Handles, LeadsOn
    <2>2. \A o \in NewBlocks : o > nalloc
      BY <1>1, <2>1 DEF NewBlocks, Allocates, TypeOK
    <2>3. CallbackSeesLiveBlock'
      BY <1>1, <2>1 DEF CallbackSeesLiveBlock, Allocates, Handles
    <2>4. ASSUME NEW y \in Executors, xpc'[y] \in {"run", "unlock", "free"}
          PROVE  timer'[xovl'[y]] \notin {"armed", "fired"} \/ xovl'[y] \in undeleted'
      <3>1. xpc[y] \in {"run", "unlock", "free"} /\ xovl'[y] = xovl[y]
        BY <1>1, <2>1, <2>4 DEF Handles, TypeOK
      <3>2. xovl[y] \in Ovls
        BY <3>1, InHandIsBlock
      <3>3. xovl[y] \notin NewBlocks
        BY <1>1, <2>2, <3>2 DEF OnePlace, Fresh
      <3> QED  BY <1>1, <2>1, <3>1, <3>2, <3>3 DEF Allocates, Cancelled
    <2> QED  BY <2>3, <2>4 DEF Timers, Cancelled
  <1>9. ASSUME NEW x \in Executors, CancelTimer(x) PROVE Timers'
    <2>1. xovl[x] \in Ovls
      BY <1>9, InHandIsBlock DEF CancelTimer
    <2>2. /\ UNCHANGED <<st, timer, xovl, phase>> /\ undeleted \subseteq undeleted'
          /\ xpc'[x] = "delete" \/ timer[xovl[x]] = "none" \/ xovl[x] \in undeleted'
          /\ \A y \in Executors : y # x => xpc'[y] = xpc[y]
      BY <1>1, <1>9 DEF CancelTimer, TypeOK
    <2>3. CallbackSeesLiveBlock'
      BY <1>1, <2>2 DEF CallbackSeesLiveBlock
    <2>4. Cancelled'
      BY <1>1, <2>2 DEF Cancelled
    <2> QED  BY <2>3, <2>4 DEF Timers
  <1>10. ASSUME NEW x \in Executors, DeleteTimer(x) PROVE Timers'
    <2>1. xovl[x] \in Ovls
      BY <1>10, InHandIsBlock DEF DeleteTimer
    <2>2. /\ \A o \in Ovls : \/ o # xovl[x] /\ timer'[o] = timer[o]
                             \/ o = xovl[x] /\ timer'[o] = "deleted"
          /\ UNCHANGED <<st, xovl, phase, undeleted>>
      BY <1>1, <1>10, <2>1 DEF DeleteTimer, TypeOK
    <2>3. CallbackSeesLiveBlock'
      BY <1>1, <2>2 DEF CallbackSeesLiveBlock
    <2>4. ASSUME NEW y \in Executors, xpc'[y] \in {"run", "unlock", "free"}
          PROVE  timer'[xovl'[y]] \notin {"armed", "fired"} \/ xovl'[y] \in undeleted'
      <3>1. y = x \/ xpc[y] \in {"run", "unlock", "free"}
        BY <1>1, <1>10, <2>4 DEF DeleteTimer, TypeOK
      <3>2. xovl[y] \in Ovls
        BY <2>1, <3>1, InHandIsBlock
      <3> QED  BY <1>1, <2>2, <3>1, <3>2 DEF Cancelled
    <2> QED  BY <2>3, <2>4 DEF Timers, Cancelled
  <1>11. ASSUME NEW x \in Executors, LockObj(x) \/ Unlock(x) \/ ExecutorStop(x) PROVE Timers'
    BY <1>1, <1>11, KeepsTimers DEF LockObj, Unlock, ExecutorStop, ovlVars, TypeOK
  <1>12. ASSUME NEW o \in Ovls, Expire(o) \/ TimerCallBack(o) PROVE Timers'
    <2>1. \A q \in Ovls : timer'[q] \in {"armed", "fired"} =>
              timer[q] \in {"armed", "fired"} /\ (st'[q] = "freed" => st[q] = "freed")
      BY <1>1, <1>12 DEF Expire, TimerCallBack, TypeOK
    <2> QED  BY <1>12, <2>1, KeepsTimers DEF Expire, TimerCallBack
  <1>13. CASE OnNotify
    <2>1. CASE Post("STOP")
      BY <1>2, <1>13, <2>1 DEF OnNotify
    <2>2. CASE UNCHANGED ovlVars
      BY <1>13, <2>2, KeepsTimers DEF OnNotify, ovlVars
    <2> QED  BY <1>13, <2>1, <2>2 DEF OnNotify
  <1>14. CASE Quit \/ WaitForClosedEvent \/ UNCHANGED vars
    BY <1>14, KeepsTimers DEF Quit, WaitForClosedEvent, vars, ovlVars
  <1>15. CASE ClientRelease \/ OnClientStop
    <2>1. \A o \in Ovls : timer'[o] \in {"armed", "fired"} => timer[o] \in {"armed", "fired"}
      BY <1>1, <1>15, ReleaseTimers DEF ClientRelease, OnClientStop
    <2> QED  BY <1>15, <2>1, KeepsTimers DEF ClientRelease, OnClientStop
  <1>16. CASE EngineStop
    BY <1>16, KeepsTimers DEF EngineStop
  <1> QED  BY <1>3, <1>4, <1>5, <1>6, <1>7, <1>8, <1>9, <1>11, <1>12, <1>13, <1>14, <1>15, <1>16,
              <1>10
           DEF Next, Kernel, ExecutorStep, ClientStep
-------------------------------------------------------------------------------
(* The fourth layer.  Most steps neither issue an operation nor finish     *)
(* handling one.                                                           *)
Moves(x) ==
    Take(x) \/ LockObj(x) \/ CancelTimer(x) \/ DeleteTimer(x) \/ Unlock(x)
        \/ FreeZ3Ovl(x) \/ ExecutorStop(x)

Quiet ==
    \/ Dispatch \/ Kernel \/ Quit
    \/ \E x \in Executors : Moves(x)
    \/ \E o \in Ovls : Expire(o) \/ TimerCallBack(o)
    \/ WaitForClosedEvent \/ ClientRelease \/ OnClientStop
    \/ UNCHANGED vars

(* The steps of the engine, quiet or not.                                  *)
LEMMA NextCases ==
    [Next]_vars => \/ Quiet \/ Start \/ OnNotify \/ EngineStop
                   \/ \E x \in Executors : Run(x)
  BY DEF Next, Quiet, Moves, ExecutorStep, ClientStep

InSystem == {"pending", "cancelled", "iocp", "evq"}

NotRun == {"lock", "cancel", "delete", "run"}

SameBlocks ==
    /\ nalloc' = nalloc /\ ev' = ev
    /\ \A o \in Ovls : /\ Unhandled(o)' <=> Unhandled(o)
                       /\ st[o] = "refused" => st'[o] = "refused"

(* A quiet step leaves the allocated blocks, and what is still to be       *)
(* handled, as they were.                                                  *)
LEMMA QuietSteps == ASSUME Base, Places, Quiet PROVE SameBlocks
  <1> USE DEF exeVars
  <1>1. TypeOK /\ OnePlace
    BY DEF Base, Places
  <1>2. ASSUME nalloc' = nalloc, ev' = ev,
               \A o \in Ovls : /\ st'[o] \in InSystem <=> st[o] \in InSystem
                               /\ st[o] = "refused" => st'[o] = "refused",
               \A x \in Executors : /\ xpc'[x] \in NotRun <=> xpc[x] \in NotRun
                                    /\ xpc[x] \in NotRun => xovl'[x] = xovl[x]
        PROVE  SameBlocks
    <2>1. \A o \in Ovls : Unhandled(o)' <=> Unhandled(o)
      BY <1>2 DEF Unhandled, InSystem, NotRun
    <2> QED  BY <1>2, <2>1 DEF SameBlocks
  <1>3. CASE Dispatch
    <2>1. Head(iocp) \in Ovls /\ st[Head(iocp)] = "iocp"
      BY <1>1, <1>3, TailEntries, HeadTail DEF Dispatch, OnePlace, TypeOK
    <2> QED  BY <1>1, <1>2, <1>3, <2>1 DEF Dispatch, TypeOK, InSystem
  <1>4. ASSUME NEW o \in Ovls, NEW r, Complete(o, r) PROVE SameBlocks
    BY <1>1, <1>2, <1>4 DEF Complete, TypeOK, InSystem
  <1>5. ASSUME NEW x \in Executors, Take(x) PROVE SameBlocks
    <2>1. Head(evq) \in Ovls /\ st[Head(evq)] = "evq"
      BY <1>1, <1>5, TailEntries, HeadTail DEF Take, OnePlace, TypeOK
    <2>2. \A o \in Ovls : /\ st'[o] \in InSystem <=> st[o] \in InSystem /\ o # Head(evq)
                          /\ st[o] = "refused" => st'[o] = "refused"
      BY <1>1, <1>5, <2>1 DEF Take, TypeOK, InSystem
    <2>3. /\ xpc[x] \notin NotRun /\ xovl'[x] = Head(evq) /\ xpc'[x] \in NotRun
          /\ \A y \in Executors : y # x => xovl'[y] = xovl[y] /\ xpc'[y] = xpc[y]
      BY <1>1, <1>5 DEF Take, TypeOK, NotRun
    <2>4. \A o \in Ovls : (\E y \in Executors : xovl'[y] = o /\ xpc'[y] \in NotRun)
              <=> o = Head(evq) \/ \E y \in Executors : xovl[y] = o /\ xpc[y] \in NotRun
      BY <2>3
    <2>5. \A o \in Ovls : Unhandled(o)' <=> Unhandled(o)
      BY <2>1, <2>2, <2>4 DEF Unhandled, InSystem, NotRun
    <2> QED  BY <1>5, <2>2, <2>5 DEF Take, SameBlocks
  <1>6. ASSUME NEW x \in Executors, FreeZ3Ovl(x) PROVE SameBlocks
    <2>1. xovl[x] \in Ovls /\ st[xovl[x]] = "exec"
      BY <1>1, <1>6, InHandIsBlock DEF FreeZ3Ovl, OnePlace
    <2> QED  BY <1>1, <1>2, <1>6, <2>1 DEF FreeZ3Ovl, TypeOK, InSystem, NotRun
  <1>7. ASSUME NEW x \in Executors,
               \/ LockObj(x) \/ CancelTimer(x) \/ DeleteTimer(x)
               \/ Unlock(x) \/ ExecutorStop(x)
        PROVE  SameBlocks
    BY <1>1, <1>2, <1>7
       DEF LockObj, CancelTimer, DeleteTimer, Unlock, ExecutorStop, ovlVars, TypeOK, NotRun
  <1>8. ASSUME NEW o \in Ovls, Expire(o) \/ TimerCallBack(o) PROVE SameBlocks
    BY <1>1, <1>2, <1>8 DEF Expire, TimerCallBack, TypeOK, InSystem
  <1>9. CASE Quit \/ WaitForClosedEvent \/ ClientRelease \/ OnClientStop \/ UNCHANGED vars
    BY <1>2, <1>9 DEF Quit, WaitForClosedEvent, ClientRelease, OnClientStop, vars, ovlVars
  <1> QED  BY <1>3, <1>4, <1>5, <1>6, <1>7, <1>8, <1>9 DEF Quiet, Moves, Kernel

(* The shutdown drain frees or loses blocks that were still to be handled. *)
LEMMA EngineStopBlocks ==
    ASSUME EngineStop
    PROVE  /\ nalloc' = nalloc /\ ev' = ev
           /\ \A o \in Ovls : /\ Unhandled(o)' => Unhandled(o)
                              /\ st[o] = "refused" => st'[o] = "refused"
  <1>1. \A o \in Ovls : /\ st'[o] \in InSystem => st[o] \in InSystem
                        /\ st[o] = "refused" => st'[o] = "refused"
    BY DEF EngineStop, InSystem
  <1> QED  BY <1>1 DEF EngineStop, Unhandled, InSystem, exeVars

(* PostCompletionStatus adds one block, to be handled if it was posted.    *)
LEMMA PostBlocks ==
    ASSUME Base, NEW e \in {"START", "STOP"}, Post(e), UNCHANGED exeVars
    PROVE  /\ nalloc + 1 \in Ovls /\ nalloc' = nalloc + 1
           /\ \A o \in Ovls : IF o = nalloc + 1 THEN ev'[o] = e
                              ELSE ev'[o] = ev[o] /\ (Unhandled(o)' <=> Unhandled(o))
  <1>1. TypeOK
    BY DEF Base
  <1>2. /\ nalloc + 1 \in Ovls /\ nalloc' = nalloc + 1
        /\ (Posted \/ NotPosted) /\ ev' = [ev EXCEPT ![nalloc + 1] = e]
    BY <1>1, PostFacts
  <1>3. \A o \in Ovls : IF o = nalloc + 1 THEN ev'[o] = e
                        ELSE ev'[o] = ev[o] /\ st'[o] = st[o]
    BY <1>1, <1>2 DEF Posted, NotPosted, TypeOK
  <1> QED  BY <1>2, <1>3 DEF Unhandled, exeVars

(* A handler handles the block in hand and no other.                       *)
LEMMA RunBlocks ==
    ASSUME Base, Places, NEW x \in Executors, Handles(x)
    PROVE  /\ xovl[x] \in Ovls \ NewBlocks /\ Unhandled(xovl[x]) /\ xovl[x] <= nalloc
           /\ st[xovl[x]] = "exec"
           /\ \A o \in Ovls \ NewBlocks : /\ ev'[o] = ev[o] /\ st'[o] = st[o]
                                          /\ Unhandled(o)' <=> Unhandled(o) /\ o # xovl[x]
  <1>1. TypeOK /\ OnePlace /\ Fresh /\ Allocates
    BY DEF Base, Places, Handles, LeadsOn
  <1>2. \A o \in NewBlocks : o > nalloc
    BY <1>1 DEF NewBlocks, Allocates, TypeOK
  <1>3. /\ xpc[x] = "run" /\ xovl[x] \in Ovls /\ xovl[x] # 0
        /\ Unhandled(xovl[x]) /\ st[xovl[x]] = "exec"
    BY <1>1, InHandIsBlock DEF Handles, Unhandled, OnePlace
  <1>4. xovl[x] <= nalloc /\ xovl[x] \notin NewBlocks
    BY <1>1, <1>2, <1>3 DEF Fresh, Ovls, TypeOK
  <1>5. /\ xovl' = xovl /\ xpc'[x] = "unlock"
        /\ \A y \in Executors : y # x => xpc'[y] = xpc[y]
    BY <1>1 DEF Handles, TypeOK
  <1>6. ASSUME NEW o \in Ovls \ NewBlocks
        PROVE  /\ ev'[o] = ev[o] /\ st'[o] = st[o]
               /\ Unhandled(o)' <=> Unhandled(o) /\ o # xovl[x]
    <2>1. ev'[o] = ev[o] /\ st'[o] = st[o]
      BY <1>1 DEF Allocates
    <2>2. CASE o = xovl[x]
      <3>1. \A y \in Executors : xovl[y] = xovl[x] => y = x
        BY <1>1, <1>3 DEF OnePlace
      <3>2. ~(\E y \in Executors : xovl'[y] = o /\ xpc'[y] \in {"lock", "cancel", "delete", "run"})
        BY <1>5, <2>2, <3>1
      <3> QED  BY <1>3, <2>1, <2>2, <3>2 DEF Unhandled
    <2>3. CASE o # xovl[x]
      <3>1. \A y \in Executors : xovl'[y] = o /\ xpc'[y] \in {"lock", "cancel", "delete", "run"}
                             <=> xovl[y] = o /\ xpc[y] \in {"lock", "cancel", "delete", "run"}
        BY <1>5, <2>3
      <3> QED  BY <2>1, <2>3, <3>1 DEF Unhandled
    <2> QED  BY <2>1, <2>2, <2>3
  <1> QED  BY <1>3, <1>4, <1>6

(* Token is inductive: a handler that begins a leading operation has just  *)
(* finished one.                                                           *)
LEMMA TokenStep == ASSUME Base, Places, Token, [Next]_vars PROVE Token'
  <1>1. TypeOK /\ Fresh
    BY DEF Base, Places
  <1>2. CASE Quiet
    BY <1>2, QuietSteps DEF SameBlocks, Token
  <1>3. CASE EngineStop
    BY <1>3, EngineStopBlocks DEF Token
  <1>4. CASE Start
    <2>1. nalloc = 0 /\ \A o \in Ovls : o # 1 => ev'[o] = ev[o]
      BY <1>4, PostBlocks DEF Start
    <2>2. \A o \in Ovls : o # 1 => ev'[o] = "none"
      BY <1>1, <2>1 DEF Fresh, Ovls
    <2> QED  BY <2>2 DEF Token, Leading
  <1>5. CASE OnNotify
    <2>1. CASE Post("STOP")
      <3>1. \A o \in Ovls : ev'[o] \in Leading =>
                ev'[o] = ev[o] /\ (Unhandled(o)' <=> Unhandled(o))
        BY <1>5, <2>1, PostBlocks DEF OnNotify, Leading
      <3> QED  BY <3>1 DEF Token
    <2>2. CASE UNCHANGED ovlVars
      BY <1>5, <2>2 DEF OnNotify, ovlVars, exeVars, Token, Unhandled
    <2> QED  BY <1>5, <2>1, <2>2 DEF OnNotify
  <1>6. ASSUME NEW x \in Executors, Run(x) PROVE Token'
    <2>1. Handles(x) /\ LeadsOn(x)
      BY <1>1, <1>6, RunHandles DEF Handles
    <2>2. /\ xovl[x] \in Ovls /\ Unhandled(xovl[x])
          /\ \A o \in Ovls \ NewBlocks : /\ ev'[o] = ev[o]
                                         /\ Unhandled(o)' => Unhandled(o) /\ o # xovl[x]
      BY <2>1, RunBlocks
    <2>3. ASSUME NEW o \in Ovls \ NewBlocks, NEW q \in NewBlocks,
                 ev'[o] \in Leading, ev'[q] \in Leading, Unhandled(o)'
          PROVE  FALSE
      <3>1. ev[xovl[x]] \in Leading
        BY <2>1, <2>3 DEF LeadsOn
      <3>2. o = xovl[x]
        BY <2>2, <2>3, <3>1 DEF Token
      <3> QED  BY <2>2, <2>3, <3>2
    <2>4. ASSUME NEW o \in Ovls \ NewBlocks, NEW q \in Ovls \ NewBlocks,
                 ev'[o] \in Leading, ev'[q] \in Leading, Unhandled(o)', Unhandled(q)'
          PROVE  o = q
      BY <2>2, <2>4 DEF Token
    <2>5. ASSUME NEW o \in NewBlocks, NEW q \in NewBlocks,
                 ev'[o] \in Leading, ev'[q] \in Leading
          PROVE  o = q
      BY <2>1, <2>5 DEF LeadsOn
    <2> QED  BY <2>3, <2>4, <2>5 DEF Token
  <1> QED  BY <1>2, <1>3, <1>4, <1>5, <1>6, NextCases
-------------------------------------------------------------------------------
(* The fifth layer.  The notifications of an RTSP session.                 *)
LEMMA SessionNotifies ==
    ASSUME NEW x \in Executors, Run(x), class = "RtspSession"
    PROVE  UNCHANGED refVars \/ \E e \in {"READ", "WRITE", "NOTIFY"} : Notify(e)
  BY DEF Run, OnStart, OnStop, OnConnect, OnEvRead, OnEvWrite

(* The class of the object never changes.                                  *)
LEMMA SameClass == [Next]_vars => class' = class
  BY DEF Next, Start, Quit, Dispatch, Kernel, Complete, ExecutorStep, Take, LockObj,
         CancelTimer, DeleteTimer, Run, OnStart, OnStop, OnConnect, OnEvRead, OnEvWrite, Handler,
         Unlock, FreeZ3Ovl, ExecutorStop, Expire, TimerCallBack, ClientStep, OnNotify,
         WaitForClosedEvent, ClientRelease, EngineStop, OnClientStop, vars

(* What the quiet steps other than the client's leave alone.               *)
LEMMA QuietObject ==
    ASSUME Quiet
    PROVE  \/ WaitForClosedEvent \/ ClientRelease \/ OnClientStop
           \/ UNCHANGED <<objVars, refVars, cpc>>
  BY DEF Quiet, Moves, Kernel, Complete, Quit, Dispatch, Take, LockObj, CancelTimer,
         DeleteTimer, Unlock, FreeZ3Ovl, ExecutorStop, Expire, TimerCallBack, vars

(* Session is inductive relative to Base and Places.                       *)
LEMMA SessionStep == ASSUME Base, Places, Session, [Next]_vars PROVE Session'
  <1>1. SUFFICES ASSUME class' = "RtspSession"
                 PROVE  /\ \A o \in Ovls : ev'[o] # "STOP"
                        /\ nq' \in Seq({"READ", "WRITE", "NOTIFY"})
                        /\ cpc' \in {"idle", "dropitem", "stopped"}
                        /\ ref' = Len(nq') + (IF cpc' = "dropitem" THEN 2
                                              ELSE IF cpc' = "idle" THEN 1 ELSE 0)
    BY DEF Session
  <1>2. /\ \A o \in Ovls : ev[o] # "STOP"
        /\ nq \in Seq({"READ", "WRITE", "NOTIFY"}) /\ Len(nq) \in Nat
        /\ cpc \in {"idle", "dropitem", "stopped"}
        /\ ref = Len(nq) + (IF cpc = "dropitem" THEN 2 ELSE IF cpc = "idle" THEN 1 ELSE 0)
        /\ class = "RtspSession" /\ TypeOK
    BY <1>1, SameClass DEF Session, Base
  <1>3. CASE Quiet
    <2>1. ev' = ev
      BY <1>3, QuietSteps DEF SameBlocks
    <2>2. CASE WaitForClosedEvent
      BY <1>2, <2>2 DEF WaitForClosedEvent
    <2>3. CASE ClientRelease
      BY <1>2, <2>1, <2>3, ReleaseFacts DEF ClientRelease
    <2>4. CASE OnClientStop
      BY <1>2, <2>1, <2>4, ReleaseFacts DEF OnClientStop
    <2>5. CASE UNCHANGED <<objVars, refVars, cpc>>
      BY <1>2, <2>1, <2>5 DEF refVars
    <2> QED  BY <1>3, <2>2, <2>3, <2>4, <2>5, QuietObject
  <1>4. CASE EngineStop
    BY <1>2, <1>4, EngineStopBlocks DEF EngineStop, refVars
  <1>5. CASE Start
    <2>1. \A o \in Ovls : ev'[o] # "STOP"
      BY <1>2, <1>5, PostBlocks DEF Start
    <2> QED  BY <1>2, <1>5, <2>1 DEF Start, refVars
  <1>6. CASE OnNotify
    <2>1. /\ Head(nq) \in {"READ", "WRITE", "NOTIFY"}
          /\ Tail(nq) \in Seq({"READ", "WRITE", "NOTIFY"}) /\ Len(Tail(nq)) = Len(nq) - 1
      BY <1>2, <1>6, HeadTail DEF OnNotify
    <2>2. /\ cpc = "idle" /\ nq' = Tail(nq) /\ UNCHANGED ovlVars /\ cpc' = "dropitem"
          /\ ref' = ref
      BY <1>6, <2>1 DEF OnNotify
    <2> QED  BY <1>2, <2>1, <2>2 DEF ovlVars
  <1>7. ASSUME NEW x \in Executors, Run(x)
        PROVE  /\ \A o \in Ovls : ev'[o] # "STOP"
               /\ nq' \in Seq({"READ", "WRITE", "NOTIFY"})
               /\ cpc' \in {"idle", "dropitem", "stopped"}
               /\ ref' = Len(nq') + (IF cpc' = "dropitem" THEN 2
                                     ELSE IF cpc' = "idle" THEN 1 ELSE 0)
    <2>1. Allocates /\ cpc' = cpc
      BY <1>2, <1>7, RunHandles DEF Handles, LeadsOn
    <2>2. \A o \in Ovls : ev'[o] # "STOP"
      BY <1>2, <2>1 DEF Allocates
    <2>3. CASE UNCHANGED refVars
      BY <1>2, <2>1, <2>2, <2>3 DEF refVars
    <2>4. ASSUME NEW e \in {"READ", "WRITE", "NOTIFY"}, Notify(e)
          PROVE  /\ nq' \in Seq({"READ", "WRITE", "NOTIFY"})
                 /\ Len(nq') = Len(nq) + 1 /\ ref' = ref + 1
      BY <1>2, <2>4 DEF Notify
    <2> QED  BY <1>2, <1>7, <2>1, <2>2, <2>3, <2>4, SessionNotifies
  <1> QED  BY <1>3, <1>4, <1>5, <1>6, <1>7, NextCases
-------------------------------------------------------------------------------
(* The sixth layer: the steps of the life of a Connection.                 *)
LEMMA StoryQuiet ==
    ASSUME Base, Places, Story, class = "Connection", Quiet, UNCHANGED <<objVars, refVars, cpc>>
    PROVE  NotStarted' \/ StartFailed' \/ Connecting' \/ Stopping'
  <1>1. SameBlocks /\ nalloc \in 0 .. MaxOvls
    BY QuietSteps DEF Base, TypeOK
  <1>2. CASE NotStarted
    <2>1. NotStarted'
      BY <1>1, <1>2 DEF NotStarted, SameBlocks, Ovls, objVars, refVars
    <2> QED  BY <2>1
  <1>3. CASE StartFailed
    <2>1. StartFailed'
      BY <1>1, <1>3 DEF StartFailed, SameBlocks, Ovls, objVars, refVars
    <2> QED  BY <2>1
  <1>4. CASE Connecting
    <2>1. Connecting'
      BY <1>1, <1>4 DEF Connecting, SameBlocks, Ovls, objVars, refVars
    <2> QED  BY <2>1
  <1>5. CASE Stopping
    <2>1. Stopping'
      BY <1>1, <1>5 DEF Stopping, SameBlocks, Ovls, objVars, refVars
    <2> QED  BY <2>1
  <1> QED  BY <1>2, <1>3, <1>4, <1>5 DEF Story

(* The drain may lose a START or a CONNECT, but not a STOP: the client     *)
(* that waits for it has not quit.                                         *)
LEMMA StoryDrain ==
    ASSUME Base, Story, class = "Connection", EngineStop
    PROVE  NotStarted' \/ StartFailed' \/ Connecting' \/ Stopping'
  <1>1. /\ nalloc' = nalloc /\ ev' = ev /\ nalloc \in 0 .. MaxOvls
        /\ \A o \in Ovls : /\ Unhandled(o)' => Unhandled(o)
                           /\ st[o] = "refused" => st'[o] = "refused"
        /\ UNCHANGED <<sock, started, closedEv, ref, alive, nq, cpc>>
    BY EngineStopBlocks DEF Base, TypeOK, EngineStop, objVars, refVars
  <1>2. CASE NotStarted
    <2>1. CASE nalloc = 0 \/ Unhandled(1)'
      BY <1>1, <1>2, <2>1 DEF NotStarted, Ovls
    <2>2. CASE nalloc # 0 /\ ~Unhandled(1)'
      BY <1>1, <1>2, <2>2 DEF NotStarted, StartFailed, Ovls
    <2> QED  BY <2>1, <2>2
  <1>3. CASE StartFailed
    BY <1>1, <1>3 DEF StartFailed, Ovls
  <1>4. CASE Connecting
    BY <1>1, <1>4 DEF Connecting, Ovls
  <1>5. CASE Stopping
    <2>1. ~Unhandled(3)
      BY <1>5 DEF Stopping, EngineStop, Base, StoppedInOrder
    <2> QED  BY <1>1, <1>5, <2>1 DEF Stopping, Ovls
  <1> QED  BY <1>2, <1>3, <1>4, <1>5 DEF Story

(* The handlers: START opens the socket, a failed CONNECT notifies, STOP   *)
(* closes.                                                                 *)
LEMMA StoryRun ==
    ASSUME Base, Places, Story, class = "Connection", NEW x \in Executors, Run(x)
    PROVE  NotStarted' \/ StartFailed' \/ Connecting' \/ Stopping'
  <1> DEFINE o == xovl[x]
  <1>1. TypeOK /\ Handles(x) /\ Allocates /\ cpc' = cpc /\ nalloc \in 0 .. MaxOvls
    BY RunHandles DEF Handles, LeadsOn, Base, TypeOK
  <1>2. /\ o \in Ovls \ NewBlocks /\ Unhandled(o) /\ o <= nalloc /\ st[o] = "exec" /\ o >= 1
        /\ \A q \in Ovls \ NewBlocks : /\ ev'[q] = ev[q] /\ st'[q] = st[q]
                                       /\ Unhandled(q)' <=> Unhandled(q) /\ q # o
    BY <1>1, RunBlocks DEF Ovls
  <1>3. \A q \in Ovls : q <= nalloc => q \in Ovls \ NewBlocks
    BY <1>1 DEF NewBlocks, Allocates, Ovls
  <1>4. CASE NotStarted
    <2>1. nalloc = 1 /\ o = 1 /\ ev[1] = "START"
      BY <1>1, <1>2, <1>4 DEF NotStarted, Ovls
    <2>2. OnStart(x)
      BY <2>1 DEF Run, OnStop, OnConnect, OnEvRead, OnEvWrite, Handler
    <2>3. ~Unhandled(1)' /\ ev'[1] = "START" /\ UNCHANGED refVars
      <3>1. 1 \in Ovls \ NewBlocks
        BY <1>2, <2>1
      <3>2. ev'[1] = ev[1] /\ (Unhandled(1)' <=> Unhandled(1) /\ 1 # o)
        BY <1>2, <3>1
      <3> QED  BY <2>1, <2>2, <3>2 DEF OnStart
    <2>4. ASSUME Issue(<< >>) PROVE StartFailed'
      BY <1>1, <1>4, <2>1, <2>3, <2>4, NothingIssued DEF NotStarted, StartFailed, refVars
    <2>5. ASSUME NEW accepted \in BOOLEAN,
                 Fits(<<[ev |-> "CONNECT", accepted |-> accepted]>>),
                 Issue(<<[ev |-> "CONNECT", accepted |-> accepted]>>),
                 sock' = "open", started' = accepted, UNCHANGED closedEv
          PROVE  Connecting'
      <3> DEFINE op == [ev |-> "CONNECT", accepted |-> accepted]
      <3>1. op \in Operations /\ op.ev = "CONNECT" /\ op.accepted = accepted
        BY DEF Operations
      <3>2. <<op>> \in Seq(Operations) /\ Len(<<op>>) = 1 /\ <<op>>[1] = op
        BY <3>1
      <3>3. /\ nalloc' = nalloc + 1
            /\ \A q \in NewBlocks : /\ ev'[q] = <<op>>[q - nalloc].ev
                                    /\ st'[q] = "pending" <=> <<op>>[q - nalloc].accepted
        BY <1>1, <2>5, <3>2, IssueFacts
      <3>4. nalloc' = 2 /\ 2 \in NewBlocks /\ 2 - nalloc = 1 /\ 2 \in Ovls
        BY <1>1, <2>1, <3>3 DEF NewBlocks, Ovls, Allocates
      <3>5. ev'[2] = "CONNECT" /\ (st'[2] = "pending" <=> accepted)
        BY <3>1, <3>2, <3>3, <3>4
      <3>6. accepted \/ st'[2] = "refused"
        BY <1>1, <3>4, <3>5 DEF Allocates
      <3> QED  BY <1>1, <1>4, <2>3, <2>5, <3>4, <3>5, <3>6 DEF NotStarted, Connecting, refVars
    <2> QED  BY <2>2, <2>4, <2>5 DEF OnStart
  <1>5. CASE StartFailed
    <2>1. o = 1
      BY <1>1, <1>2, <1>5 DEF StartFailed, Ovls
    <2> QED  BY <1>2, <1>5, <2>1 DEF StartFailed
  <1>6. CASE Connecting
    <2>1. nalloc = 2 /\ o = 2 /\ ev[1] = "START" /\ ev[2] = "CONNECT" /\ 1 \in Ovls
      BY <1>1, <1>2, <1>6 DEF Connecting, Ovls
    <2>2. OnConnect(x)
      BY <2>1 DEF Run, OnStart, OnStop, OnEvRead, OnEvWrite, Handler
    <2>3. nq = << >> /\ ref = 1 /\ started
      BY <1>2, <1>6, <2>1 DEF Connecting
    <2>4. /\ ~Unhandled(1)' /\ ~Unhandled(2)'
          /\ ev'[1] = "START" /\ ev'[2] = "CONNECT"
      BY <1>2, <1>3, <1>6, <2>1 DEF Connecting
    <2>5. \/ Notify("CONNECT") /\ UNCHANGED ovlVars
          \/ Issue(<< >>) /\ UNCHANGED refVars
      BY <2>2 DEF OnConnect
    <2>6. nalloc' = 2 /\ UNCHANGED objVars
      BY <1>1, <2>1, <2>2, <2>5, NothingIssued DEF OnConnect
    <2>7. \/ nq' = << >> /\ ref' = 1
          \/ nq' = <<"CONNECT">> /\ ref' = 2
      BY <2>3, <2>5 DEF Notify, refVars
    <2> QED  BY <1>1, <1>6, <2>3, <2>4, <2>6, <2>7 DEF Connecting, objVars
  <1>7. CASE Stopping
    <2>1. nalloc = 3 /\ o = 3 /\ ev[3] = "STOP" /\ 1 \in Ovls /\ 2 \in Ovls
      BY <1>1, <1>2, <1>7 DEF Stopping, Ovls
    <2>2. OnStop(x)
      BY <2>1 DEF Run, OnStart, OnConnect, OnEvRead, OnEvWrite, Handler
    <2>3. /\ ~Unhandled(1)' /\ ~Unhandled(2)' /\ ~Unhandled(3)'
          /\ ev'[1] = "START" /\ ev'[2] = "CONNECT" /\ ev'[3] = "STOP"
      BY <1>2, <1>3, <1>7, <2>1 DEF Stopping
    <2>4. /\ \/ sock' = "closed"
             \/ sock' = "open" /\ ~closedEv' /\ cpc = "waitclosed"
          /\ UNCHANGED <<ovlVars, refVars>>
      <3>1. Unhandled(3)
        BY <1>2, <2>1
      <3>2. sock = "open" /\ ~closedEv /\ cpc = "waitclosed"
        BY <1>7, <3>1 DEF Stopping
      <3>3. sock' = "closed" \/ (sock' = sock /\ closedEv' = closedEv)
        BY <2>2, <3>2 DEF OnStop, CloseSocket, CloseFails
      <3>4. UNCHANGED <<ovlVars, refVars>>
        BY <2>2 DEF OnStop
      <3>5. sock' = "closed" \/ (sock' = "open" /\ ~closedEv')
        BY <3>2, <3>3
      <3> QED  BY <3>2, <3>4, <3>5
    <2> QED  BY <1>1, <1>7, <2>1, <2>3, <2>4 DEF Stopping, ovlVars, refVars
  <1> QED  BY <1>4, <1>5, <1>6, <1>7 DEF Story

(* Story is inductive relative to Base and Places.                         *)
LEMMA StoryStep ==
    ASSUME Base, Places, Story, [Next]_vars PROVE Story'
  <1>1. SUFFICES ASSUME class' = "Connection"
                 PROVE  NotStarted' \/ StartFailed' \/ Connecting' \/ Stopping'
    BY DEF Story
  <1>2. /\ class = "Connection" /\ TypeOK /\ nalloc \in 0 .. MaxOvls
        /\ NotStarted \/ StartFailed \/ Connecting \/ Stopping
    BY <1>1, SameClass DEF Story, Base, TypeOK
  <1>3. CASE Start
    <2>1. nalloc = 0 /\ NotStarted /\ UNCHANGED <<objVars, refVars, cpc>>
      BY <1>2, <1>3 DEF Start, StartFailed, Connecting, Stopping
    <2>2. 1 \in Ovls /\ nalloc' = 1 /\ ev'[1] = "START"
      BY <1>3, <2>1, PostBlocks DEF Start
    <2>3. CASE Unhandled(1)'
      BY <2>1, <2>2, <2>3 DEF NotStarted, objVars, refVars
    <2>4. CASE ~Unhandled(1)'
      BY <2>1, <2>2, <2>4 DEF NotStarted, StartFailed, objVars, refVars
    <2> QED  BY <2>3, <2>4
  <1>4. CASE OnNotify
    <2>1. Connecting /\ nq = <<"CONNECT">> /\ ref = 2 /\ started /\ ~Unhandled(2)
      BY <1>2, <1>4 DEF OnNotify, NotStarted, StartFailed, Connecting, Stopping
    <2>2. Head(nq) = "CONNECT" /\ Tail(nq) = << >>
      BY <2>1
    <2>3. Post("STOP") /\ cpc' = "waitclosed" /\ nq' = << >>
          /\ UNCHANGED <<exeVars, objVars, ref>>
      BY <1>4, <2>2 DEF OnNotify
    <2>4. /\ 3 \in Ovls /\ nalloc' = 3
          /\ \A o \in Ovls : IF o = 3 THEN ev'[o] = "STOP"
                             ELSE ev'[o] = ev[o] /\ (Unhandled(o)' <=> Unhandled(o))
      BY <2>1, <2>3, PostBlocks DEF Connecting
    <2>5. 1 \in Ovls /\ 2 \in Ovls
      BY <2>4 DEF Ovls
    <2> QED  BY <2>1, <2>3, <2>4, <2>5 DEF Connecting, Stopping, objVars
  <1>5. CASE Quiet
    <2>1. CASE UNCHANGED <<objVars, refVars, cpc>>
      BY <1>2, <1>5, <2>1, StoryQuiet
    <2>2. SameBlocks
      BY <1>5, QuietSteps
    <2>3. CASE WaitForClosedEvent
      <3>1. Stopping /\ ~Unhandled(3)
        BY <1>2, <2>3 DEF WaitForClosedEvent, NotStarted, StartFailed, Connecting, Stopping
      <3> QED  BY <1>2, <2>2, <2>3, <3>1
               DEF WaitForClosedEvent, Stopping, SameBlocks, Ovls, refVars
    <2>4. CASE ClientRelease
      <3>1. Stopping /\ ~Unhandled(3)
        BY <1>2, <2>4 DEF ClientRelease, NotStarted, StartFailed, Connecting, Stopping
      <3>2. ref' = ref - 1
        BY <2>4, ReleaseFacts DEF ClientRelease
      <3> QED  BY <1>2, <2>2, <2>4, <3>1, <3>2
               DEF ClientRelease, Stopping, SameBlocks, Ovls, objVars
    <2>5. CASE OnClientStop
      BY <1>2, <2>5 DEF OnClientStop
    <2> QED  BY <1>5, <2>1, <2>3, <2>4, <2>5, QuietObject
  <1>6. CASE EngineStop
    BY <1>2, <1>6, StoryDrain
  <1>7. ASSUME NEW x \in Executors, Run(x)
        PROVE  NotStarted' \/ StartFailed' \/ Connecting' \/ Stopping'
    BY <1>2, <1>7, StoryRun
  <1> QED  BY <1>3, <1>4, <1>5, <1>6, <1>7, NextCases
-------------------------------------------------------------------------------
(* All layers together.                                                    *)
IInv == Base /\ Places /\ Timers /\ Token /\ Session /\ Story

(* Every layer holds initially.                                            *)
LEMMA InitIInv == Init => IInv
  <1> SUFFICES ASSUME Init PROVE IInv
    OBVIOUS
  <1>1. Base
    <2>1. TypeOK
      <3>1. 0 \in 0 .. MaxOvls /\ 0 \in 0 .. MaxFailures /\ \A S : << >> \in Seq(S)
        OBVIOUS
      <3> QED  BY <3>1 DEF Init, TypeOK
    <2> QED  BY <2>1 DEF Init, Base, LockHeld, BlockInHand, AliveIsReferenced, StoppedInOrder
  <1>2. Places
    <2>1. iocp = << >> /\ evq = << >> /\ DOMAIN << >> = {}
      BY DEF Init
    <2>2. Entries(iocp) = {} /\ Entries(evq) = {} /\ Injective(iocp) /\ Injective(evq)
      BY <2>1 DEF Entries, Injective
    <2>3. \A o \in Ovls : st[o] = "none" /\ \A x \in Executors : xovl[x] # o
      BY DEF Init, Ovls
    <2> QED  BY <2>2, <2>3 DEF Init, Places, OnePlace, Fresh
  <1>3. Timers
    BY DEF Init, Timers, CallbackSeesLiveBlock, Cancelled
  <1>4. Token
    BY DEF Init, Token, Leading
  <1>5. Session
    <2>1. << >> \in Seq({"READ", "WRITE", "NOTIFY"}) /\ Len(<< >>) = 0
      OBVIOUS
    <2> QED  BY <2>1 DEF Init, Session
  <1>6. Story
    BY DEF Init, Story, NotStarted
  <1> QED  BY <1>1, <1>2, <1>3, <1>4, <1>5, <1>6 DEF IInv

(* The layers hold in every reachable state of the engine, for any number  *)
(* of executors and blocks and for both classes of object.                 *)
THEOREM Invariance == Spec => []IInv
  <1>1. IInv /\ [Next]_vars => IInv'
    <2> SUFFICES ASSUME IInv, [Next]_vars PROVE IInv'
      OBVIOUS
    <2>1. Base /\ Places /\ Timers /\ Token /\ Session /\ Story
      BY DEF IInv
    <2>2. Base'
      BY <2>1, BaseStep
    <2>3. Places'
      BY <2>1, <2>2, PlacesStep
    <2>4. Timers' /\ Token'
      BY <2>1, TimersStep, TokenStep
    <2>5. Session' /\ Story'
      BY <2>1, SessionStep, StoryStep
    <2> QED  BY <2>2, <2>3, <2>4, <2>5 DEF IInv
  <1> QED  BY <1>1, InitIInv, PTL DEF Spec

(* Every variable of the engine keeps its type: in particular the lock is  *)
(* held by an executor or nobody, and the reference count of the object    *)
(* is never released below zero.                                           *)
THEOREM TypeCorrect == Spec => []TypeOK
  <1>1. IInv => TypeOK
    BY DEF IInv, Base
  <1> QED  BY <1>1, Invariance, PTL

(* Engine::Dispatch, Executor::RunOnce and FreeZ3Ovl hand each overlapped  *)
(* block on exactly once, also when a completion races its own timeout.    *)
THEOREM BlockInOnePlace == Spec => []OnePlace
  <1>1. IInv => OnePlace
    BY DEF IInv, Places
  <1> QED  BY <1>1, Invariance, PTL

(* TimerCallBack finds a freed block, while the engine runs, only if the   *)
(* CancelTimer of that block failed: after a CancelTimer that did not fail *)
(* no timer of the block is left when FreeZ3Ovl comes.                     *)
THEOREM CallbackSafe == Spec => []CallbackSeesLiveBlock
  <1>1. IInv => CallbackSeesLiveBlock
    BY DEF IInv, Timers
  <1> QED  BY <1>1, Invariance, PTL

(* StartRead never finds the receive buffer in use, however many executors *)
(* handle the events of the connector.                                     *)
THEOREM ReceiverIsAlone == Spec => []OneReceiver
  <1>1. IInv => OneReceiver
    BY DEF IInv, Token, Leading, OneReceiver
  <1> QED  BY <1>1, Invariance, PTL

(* The assertion m_bStarted of IOCPObj::OnStop holds whenever a STOP is    *)
(* handled: only a Connection is stopped, and only after its connect,      *)
(* which a successful START issued, has failed.                            *)
THEOREM StopIsStarted == Spec => []StopFindsStarted
  <1>1. ASSUME IInv, NEW x \in Executors, xpc[x] = "run", ev[xovl[x]] = "STOP"
        PROVE  started
    <2>1. Base /\ OnePlace /\ Fresh /\ Session /\ Story /\ TypeOK
      BY <1>1 DEF IInv, Places, Base
    <2>2. xovl[x] \in Ovls /\ st[xovl[x]] = "exec" /\ Unhandled(xovl[x])
      BY <1>1, <2>1, InHandIsBlock DEF OnePlace, Unhandled
    <2>3. xovl[x] <= nalloc /\ xovl[x] \in 1 .. MaxOvls /\ nalloc \in Nat
      BY <2>1, <2>2 DEF Fresh, Ovls, TypeOK
    <2>4. class = "Connection"
      BY <1>1, <2>1, <2>2 DEF Session, TypeOK
    <2>5. NotStarted \/ StartFailed \/ Connecting => ev[xovl[x]] # "STOP"
      BY <2>3 DEF NotStarted, StartFailed, Connecting
    <2>6. Stopping => xovl[x] = 3
      BY <1>1, <2>2, <2>3 DEF Stopping
    <2> QED  BY <1>1, <2>1, <2>2, <2>4, <2>5, <2>6 DEF Story, Stopping
  <1>2. IInv => StopFindsStarted
    BY <1>1 DEF StopFindsStarted
  <1> QED  BY <1>2, Invariance, PTL

(* The reference that Notify takes for the queued item keeps the object    *)
(* until Client::RunOnce has dropped it, whoever else releases the object. *)
THEOREM NotificationSafe == Spec => []NotificationKeepsObject
  <1>1. ASSUME IInv, nq # << >> \/ cpc \in {"waitclosed", "release", "dropitem"}
        PROVE  alive
    <2>1. TypeOK /\ AliveIsReferenced /\ Session /\ Story
      BY <1>1 DEF IInv, Base
    <2>2. CASE class = "RtspSession"
      <3>1. Len(nq) \in Nat /\ (nq # << >> => Len(nq) > 0)
        BY <2>1 DEF TypeOK
      <3>2. ref > 0
        BY <1>1, <2>1, <2>2, <3>1 DEF Session
      <3> QED  BY <2>1, <3>2 DEF AliveIsReferenced
    <2>3. CASE class = "Connection"
      <3>1. ref > 0
        BY <1>1, <2>1, <2>3 DEF Story, NotStarted, StartFailed, Connecting, Stopping
      <3> QED  BY <2>1, <3>1 DEF AliveIsReferenced
    <2> QED  BY <2>1, <2>2, <2>3 DEF TypeOK
  <1>2. IInv => NotificationKeepsObject
    BY <1>1 DEF NotificationKeepsObject
  <1> QED  BY <1>2, Invariance, PTL

(* RtspClient::OnClientStop drops the last reference of a session, and by  *)
(* then ExecutorPool::Uninit has joined every executor.                    *)
THEOREM SessionSafe == Spec => []SessionOutlivesExecutors
  <1>1. ASSUME IInv, class = "RtspSession", ~alive
        PROVE  \A x \in Executors : xpc[x] \in {"wait", "exited"}
    <2>1. TypeOK /\ AliveIsReferenced /\ StoppedInOrder /\ Session
      BY <1>1 DEF IInv, Base
    <2>2. ref = 0 /\ Len(nq) \in Nat
      BY <1>1, <2>1 DEF AliveIsReferenced, TypeOK
    <2>3. cpc = "stopped"
      BY <1>1, <2>1, <2>2 DEF Session
    <2> QED  BY <2>1, <2>3 DEF StoppedInOrder
  <1>2. IInv => SessionOutlivesExecutors
    BY <1>1 DEF SessionOutlivesExecutors, NoUseAfterFree
  <1> QED  BY <1>2, Invariance, PTL

(* The assertion in ~SocketObj: TestClient::OnNotify deletes a Connection  *)
(* only after WaitForClosedEvent, which STOP's close alone satisfies.      *)
THEOREM SocketClosed == Spec => []SocketClosedBeforeDelete
  <1>1. ASSUME IInv, class = "Connection", ~alive PROVE sock # "open"
    <2>1. TypeOK /\ AliveIsReferenced /\ Story
      BY <1>1 DEF IInv, Base
    <2>2. ref = 0
      BY <1>1, <2>1 DEF AliveIsReferenced, TypeOK
    <2> QED  BY <1>1, <2>1, <2>2
             DEF Story, NotStarted, StartFailed, Connecting, Stopping
  <1>2. IInv => SocketClosedBeforeDelete
    BY <1>1 DEF SocketClosedBeforeDelete
  <1> QED  BY <1>2, Invariance, PTL
===============================================================================
