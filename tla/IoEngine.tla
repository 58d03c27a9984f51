------------------------------- MODULE IoEngine -------------------------------
(***************************************************************************)
(* The asynchronous core of z3_engine: one connector object, the IOCP      *)
(* thread (Engine), the executor pool, the timer-queue callbacks and the   *)
(* client thread, from IOCPObj::Start to Client::OnThreadStop.             *)
(*                                                                         *)
(* The unit of work is the overlapped block Z3_EV_OVL.  A handler          *)
(* allocates one per operation, arms its timer and passes it to the        *)
(* kernel; the kernel posts it to the completion port; the IOCP thread     *)
(* moves it to the event queue; an executor takes it, locks the object,    *)
(* cancels the timer, runs the handler, unlocks the object and frees the   *)
(* block.  The timer callback runs on a thread of the timer queue, locks   *)
(* the same object and asks the kernel to abort the operation.             *)
(*                                                                         *)
(* The object is either a "Connection" (z3_engine_test: a failed connect   *)
(* notifies EV_CONNECT and TestClient::OnNotify deletes the object) or an  *)
(* "RtspSession" (a connect is followed by a request and a read, and the   *)
(* client releases the session when it stops).  The event queue is the one *)
(* of AsyncQueue.tla; Push and Signal are one step here.                   *)
(***************************************************************************)
EXTENDS Integers, Sequences, FiniteSets

CONSTANTS Executors,  \* threads of the executor pool (Client starts one)
          Client,     \* the client thread
          NoOne,      \* the object lock is free
          MaxOvls,    \* bound: overlapped blocks allocated in a behaviour
          MaxFailures, \* bound: steps in which a system call fails
          Classes     \* classes of the object: Connection, RtspSession

ASSUME EngineAssumption ==
    /\ Client \notin Executors
    /\ NoOne \notin Executors \cup {Client}
    /\ MaxOvls \in Nat \ {0}
    /\ MaxFailures \in Nat
    /\ Classes \subseteq {"Connection", "RtspSession"}

Ovls == 1 .. MaxOvls

VARIABLES
    class,     \* the class of the object
    nalloc,    \* blocks allocated so far; they are numbered in order
    st,        \* st[o]: where the block is
    ev,        \* ev[o]: its ev_id
    timer,     \* timer[o]: its timer-queue timer ("null": not created)
    undeleted, \* blocks whose CancelTimer returned Z3_SYS_ERROR
    result,    \* result[o]: completion status the kernel reported
    iocp,      \* completion port, oldest first
    evq,       \* Engine::m_pQueue
    lock,      \* owner of the object's lock
    xpc, xovl, \* executor: next step, block in hand
    sock,      \* m_hSocket
    started,   \* m_bStarted
    closedEv,  \* m_hClosedEvent (auto-reset)
    ref,       \* reference count of the object
    alive,     \* the object has not been deleted
    nq,        \* Client::m_pMsgQueue
    cpc,       \* client thread: next step
    phase,     \* "run", "uninit" (executors quit), "stopped"
    failures   \* steps so far in which a system call failed

ovlVars == <<nalloc, st, ev, timer, undeleted, result>>
objVars == <<sock, started, closedEv>>
refVars == <<ref, alive, nq>>
exeVars == <<xpc, xovl>>
vars == <<ovlVars, iocp, evq, lock, exeVars, objVars, refVars, cpc, phase,
          class, failures>>

Init ==
    /\ class \in Classes
    /\ nalloc = 0
    /\ st = [o \in Ovls |-> "none"]
    /\ ev = [o \in Ovls |-> "none"]
    /\ timer = [o \in Ovls |-> "none"]
    /\ undeleted = {}
    /\ result = [o \in Ovls |-> "none"]
    /\ iocp = << >>
    /\ evq = << >>
    /\ lock = NoOne
    /\ xpc = [x \in Executors |-> "wait"]
    /\ xovl = [x \in Executors |-> 0]
    /\ sock = "none"
    /\ started = FALSE
    /\ closedEv = FALSE
    /\ ref = 1
    /\ alive = TRUE
    /\ nq = << >>
    /\ cpc = "idle"
    /\ phase = "run"
    /\ failures = 0
-------------------------------------------------------------------------------
(* A system call that may fail: CreateTimerQueueTimer, CreateEvent,         *)
(* PostQueuedCompletionStatus or closesocket.                              *)
Fail == failures < MaxFailures /\ failures' = failures + 1

(* AllocZ3Ovl for the operations ops of one handler, in order.  Each is a  *)
(* record of its event and of whether the kernel accepted it.  A refused   *)
(* operation leaves its block behind with an armed timer: the early return *)
(* of AsyncConnect, AsyncTCPRead and AsyncTCPWrite frees neither.  A timer *)
(* that could not be created is NULL, which AddTimer compares with         *)
(* INVALID_HANDLE_VALUE and takes for a success.                           *)
Issue(ops) ==
    LET new == nalloc + 1 .. nalloc + Len(ops)
        op(o) == ops[o - nalloc]
    IN  /\ nalloc' = nalloc + Len(ops)
        /\ st' = [o \in Ovls |-> IF o \notin new THEN st[o]
                                 ELSE IF op(o).accepted THEN "pending"
                                 ELSE "refused"]
        /\ ev' = [o \in Ovls |-> IF o \in new THEN op(o).ev ELSE ev[o]]
        /\ \E made \in [new -> {"armed", "null"}] :
             /\ timer' = [o \in Ovls |-> IF o \in new THEN made[o] ELSE timer[o]]
             /\ IF \E o \in new : made[o] = "null" THEN Fail ELSE UNCHANGED failures
        /\ UNCHANGED <<undeleted, result>>

Accepted(e) == [ev |-> e, accepted |-> TRUE]
Refused(e) == [ev |-> e, accepted |-> FALSE]

(* What an Async* call may do to the kernel: nothing (the socket is        *)
(* invalid or no memory is left), a refusal, or a pending operation.       *)
Attempts(e) ==
    {<< >>} \cup (IF sock = "open" THEN {<<Accepted(e)>>, <<Refused(e)>>} ELSE {})

(* A request followed, if it was accepted, by StartRead.                   *)
RequestAndRead ==
    Attempts("WRITE") \cup
    (IF sock = "open"
     THEN {<<Accepted("WRITE"), Accepted("READ")>>,
           <<Accepted("WRITE"), Refused("READ")>>}
     ELSE {})

Fits(ops) == nalloc + Len(ops) <= MaxOvls

(* PostCompletionStatus of a block that carries no I/O and no timer.  When *)
(* it fails, Start and Stop free the block and return an error that their  *)
(* callers ignore.                                                         *)
Post(e) ==
    /\ nalloc < MaxOvls
    /\ nalloc' = nalloc + 1
    /\ ev' = [ev EXCEPT ![nalloc + 1] = e]
    /\ \/ /\ st' = [st EXCEPT ![nalloc + 1] = "iocp"]
          /\ result' = [result EXCEPT ![nalloc + 1] = "ok"]
          /\ iocp' = Append(iocp, nalloc + 1)
          /\ UNCHANGED failures
       \/ /\ st' = [st EXCEPT ![nalloc + 1] = "freed"]
          /\ Fail
          /\ UNCHANGED <<result, iocp>>
    /\ UNCHANGED <<timer, undeleted>>

(* Fault: Notify without AddRef.                                           *)
NotifyUnreferenced(e) ==
    /\ nq' = Append(nq, e)
    /\ UNCHANGED <<ref, alive>>

(* Fault: Notify leaves item.id unset.                                     *)
NotifyUnknown(e) ==
    /\ nq' = Append(nq, "none")
    /\ ref' = ref + 1
    /\ UNCHANGED alive

(* IOCPObj::Notify: one more reference, held by the queued item.           *)
Notify(e) ==
    /\ nq' = Append(nq, e)
    /\ ref' = ref + 1
    /\ UNCHANGED alive

(* SocketObj::Close.  A second close only warns; a failed closesocket      *)
(* leaves the socket open and sets no event.                               *)
CloseSocket ==
    /\ sock' = IF sock = "open" THEN "closed" ELSE sock
    /\ closedEv' = (sock = "open" \/ closedEv)
    /\ UNCHANGED failures

CloseFails ==
    /\ sock = "open"
    /\ Fail
    /\ UNCHANGED <<sock, closedEv>>

Close == (CloseSocket \/ CloseFails) /\ UNCHANGED started

(* AsyncObj::Release, which takes the object's lock.  Deleting the object  *)
(* releases its TimerEngine, whose destructor removes the timers and waits *)
(* for the callbacks that have started.                                    *)
Release ==
    /\ alive
    /\ lock = NoOne
    /\ ref' = ref - 1
    /\ alive' = (ref > 1)
    /\ timer' = [o \in Ovls |-> IF ref = 1 /\ timer[o] \in {"armed", "fired"}
                                THEN "deleted" ELSE timer[o]]
-------------------------------------------------------------------------------
(* IOCPObj::Start, called once by AddConnection or AddSession.             *)
Start ==
    /\ nalloc = 0
    /\ phase = "run"
    /\ Post("START")
    /\ UNCHANGED <<evq, lock, exeVars, objVars, refVars, cpc, phase, class>>

(* The kernel completes an operation: with any outcome while the socket is *)
(* open, with an error once it has been closed.                            *)
Outcomes(e) ==
    CASE e = "CONNECT" -> {"ok", "err"}
      [] e = "READ" -> {"ok", "zero", "err"}
      [] e = "WRITE" -> {"ok", "part", "err"}

Complete(o, r) ==
    /\ st[o] \in {"pending", "cancelled"}
    /\ phase # "stopped"
    /\ r \in Outcomes(ev[o])
    /\ sock = "closed" => r = "err"
    /\ st' = [st EXCEPT ![o] = "iocp"]
    /\ result' = [result EXCEPT ![o] = r]
    /\ iocp' = Append(iocp, o)
    /\ UNCHANGED <<nalloc, ev, timer, undeleted, evq, lock, exeVars, objVars,
                   refVars,
                   cpc, phase, class, failures>>

(* Engine::RunOnce and Dispatch.                                           *)
Dispatch ==
    /\ phase # "stopped"
    /\ iocp # << >>
    /\ st' = [st EXCEPT ![Head(iocp)] = "evq"]
    /\ evq' = Append(evq, Head(iocp))
    /\ iocp' = Tail(iocp)
    /\ UNCHANGED <<nalloc, ev, timer, undeleted, result, lock, exeVars,
                   objVars, refVars,
                   cpc, phase, class, failures>>
-------------------------------------------------------------------------------
(* Timer-queue threads.  Expire starts the callback, which waits for the   *)
(* object's lock in TimerEngine::TimerCallBack; TimerCallBack then runs    *)
(* OnTimer, that is CancelIO, and unlocks.  A block that has been freed is *)
(* dereferenced all the same: its memory may still have the old contents,  *)
(* or those of a newer block, whose operation is then cancelled (a crash   *)
(* ends the behaviour).                                                    *)
Expire(o) ==
    /\ timer[o] = "armed"
    /\ timer' = [timer EXCEPT ![o] = "fired"]
    /\ UNCHANGED <<nalloc, st, ev, undeleted, result, iocp, evq, lock, exeVars,
                   objVars,
                   refVars, cpc, phase, class, failures>>

TimerCallBack(o) ==
    /\ timer[o] = "fired"
    /\ alive
    /\ lock = NoOne
    /\ timer' = [timer EXCEPT ![o] = "over"]
    /\ \E q \in IF st[o] = "freed" THEN Ovls ELSE {o} :
         st' = [st EXCEPT ![q] = IF @ = "pending" /\ sock = "open"
                                 THEN "cancelled" ELSE @]
    /\ UNCHANGED <<nalloc, ev, undeleted, result, iocp, evq, lock, exeVars,
                   objVars,
                   refVars, cpc, phase, class, failures>>
-------------------------------------------------------------------------------
(* Fault: the front element is read but not removed.                       *)
TakeWithoutPop(x) ==
    /\ xpc[x] = "wait"
    /\ evq # << >>
    /\ xovl' = [xovl EXCEPT ![x] = Head(evq)]
    /\ st' = [st EXCEPT ![Head(evq)] = "exec"]
    /\ xpc' = [xpc EXCEPT ![x] = "lock"]
    /\ UNCHANGED <<nalloc, ev, timer, undeleted, result, iocp, evq, lock,
                   objVars, refVars,
                   cpc, phase, class, failures>>

(* Executor::RunOnce.                                                      *)
Take(x) ==
    /\ xpc[x] = "wait"
    /\ evq # << >>
    /\ xovl' = [xovl EXCEPT ![x] = Head(evq)]
    /\ st' = [st EXCEPT ![Head(evq)] = "exec"]
    /\ evq' = Tail(evq)
    /\ xpc' = [xpc EXCEPT ![x] = "lock"]
    /\ UNCHANGED <<nalloc, ev, timer, undeleted, result, iocp, lock, objVars,
                   refVars,
                   cpc, phase, class, failures>>

LockObj(x) ==
    /\ xpc[x] = "lock"
    /\ alive
    /\ lock = NoOne
    /\ lock' = x
    /\ xpc' = [xpc EXCEPT ![x] = "cancel"]
    /\ UNCHANGED <<ovlVars, iocp, evq, xovl, objVars, refVars,
                   cpc, phase, class, failures>>

(* IOEndpoint::CancelTimer up to DeleteTimer's CreateEvent.  A block       *)
(* without a timer has nothing to cancel; when no event can be created the *)
(* timer stays as it is, and RunOnce does not look at the result.          *)
CancelTimer(x) ==
    /\ xpc[x] = "cancel"
    /\ \/ /\ timer[xovl[x]] = "none"
          /\ xpc' = [xpc EXCEPT ![x] = "run"]
          /\ UNCHANGED <<undeleted, failures>>
       \/ /\ timer[xovl[x]] # "none"
          /\ xpc' = [xpc EXCEPT ![x] = "run"]
          /\ undeleted' = undeleted \cup {xovl[x]}
          /\ Fail
       \/ /\ timer[xovl[x]] # "none"
          /\ xpc' = [xpc EXCEPT ![x] = "delete"]
          /\ UNCHANGED <<undeleted, failures>>
    /\ UNCHANGED <<nalloc, st, ev, timer, result, iocp, evq, lock, xovl,
                   objVars,
                   refVars, cpc, phase, class>>

(* Fault: DeleteTimer does not wait for a callback that has started.       *)
DeleteTimerNoWait(x) ==
    /\ xpc[x] = "delete"
    /\ timer' = [timer EXCEPT ![xovl[x]] = IF @ = "armed" THEN "deleted" ELSE @]
    /\ xpc' = [xpc EXCEPT ![x] = "run"]
    /\ UNCHANGED <<nalloc, st, ev, undeleted, result, iocp, evq, lock, xovl,
                   objVars, refVars, cpc, phase, class, failures>>

(* The rest of DeleteTimer waits, with the object locked, until a callback *)
(* that has already started returns.  For a NULL timer it never ends: the  *)
(* deletion is tried again for ever (the debug build's assertion fails).   *)
DeleteTimer(x) ==
    /\ xpc[x] = "delete"
    /\ timer[xovl[x]] \notin {"fired", "null"}
    /\ timer' = [timer EXCEPT ![xovl[x]] = "deleted"]
    /\ xpc' = [xpc EXCEPT ![x] = "run"]
    /\ UNCHANGED <<nalloc, st, ev, undeleted, result, iocp, evq, lock, xovl,
                   objVars, refVars, cpc, phase, class, failures>>

(* Fault: the object is left locked.                                       *)
UnlockForgotten(x) ==
    /\ xpc[x] = "unlock"
    /\ xpc' = [xpc EXCEPT ![x] = "free"]
    /\ UNCHANGED <<ovlVars, iocp, evq, lock, xovl, objVars, refVars,
                   cpc, phase, class, failures>>

Unlock(x) ==
    /\ xpc[x] = "unlock"
    /\ lock' = NoOne
    /\ xpc' = [xpc EXCEPT ![x] = "free"]
    /\ UNCHANGED <<ovlVars, iocp, evq, xovl, objVars, refVars,
                   cpc, phase, class, failures>>

(* FreeZ3Ovl is a virtual call on the object, after its lock was released. *)
FreeZ3Ovl(x) ==
    /\ xpc[x] = "free"
    /\ alive
    /\ st' = [st EXCEPT ![xovl[x]] = "freed"]
    /\ xpc' = [xpc EXCEPT ![x] = "wait"]
    /\ xovl' = [xovl EXCEPT ![x] = 0]
    /\ UNCHANGED <<nalloc, ev, timer, undeleted, result, iocp, evq, lock,
                   objVars,
                   refVars, cpc, phase, class, failures>>
-------------------------------------------------------------------------------
(* The handlers that Run dispatches to; all of them run under the lock.    *)
Handler(x, e) ==
    /\ xpc[x] = "run"
    /\ ev[xovl[x]] = e
    /\ xpc' = [xpc EXCEPT ![x] = "unlock"]
    /\ UNCHANGED <<xovl, iocp, evq, lock, cpc, phase, class>>

(* Fault: a successful connect does not call SocketObj::OnStart.           *)
OnStartUnmarked(x) ==
    /\ Handler(x, "START")
    /\ LET ops == <<Accepted("CONNECT")>> IN Fits(ops) /\ Issue(ops)
    /\ sock' = "open"
    /\ UNCHANGED <<started, closedEv, refVars>>

(* Connector::OnStart.  A failure is returned and reported to nobody: no   *)
(* address or no socket, a failed bind (which leaves the socket open), a   *)
(* failed association with the completion port (which closes it, or fails  *)
(* to), no memory or a refused ConnectEx.                                  *)
OnStart(x) ==
    /\ Handler(x, "START")
    /\ \/ /\ Issue(<< >>)
          /\ UNCHANGED objVars
       \/ /\ Issue(<< >>)
          /\ sock' = "open"
          /\ UNCHANGED <<started, closedEv>>
       \/ /\ Issue(<< >>)
          /\ sock' = "closed"
          /\ closedEv' = TRUE
          /\ UNCHANGED started
       \/ \E accepted \in BOOLEAN :
            LET ops == <<[ev |-> "CONNECT", accepted |-> accepted]>>
            IN  /\ Fits(ops)
                /\ Issue(ops)
                /\ sock' = "open"
                /\ started' = accepted
                /\ UNCHANGED closedEv
    /\ UNCHANGED refVars

(* Fault: the socket is closed without SetEvent(m_hClosedEvent).           *)
OnStopSilent(x) ==
    /\ Handler(x, "STOP")
    /\ sock' = IF sock = "open" THEN "closed" ELSE sock
    /\ started' = FALSE
    /\ UNCHANGED <<closedEv, ovlVars, refVars, failures>>

(* Connector::OnStop.  The object is still started if Close fails.         *)
OnStop(x) ==
    /\ Handler(x, "STOP")
    /\ \/ CloseSocket /\ started' = FALSE
       \/ CloseFails /\ UNCHANGED started
    /\ UNCHANGED <<ovlVars, refVars>>

(* Connector::OnConnect and RtspSession::OnConnect.                        *)
OnConnect(x) ==
    /\ Handler(x, "CONNECT")
    /\ \/ /\ result[xovl[x]] = "err"
          /\ Notify(IF class = "Connection" THEN "CONNECT" ELSE "NOTIFY")
          /\ UNCHANGED <<ovlVars, failures>>
       \/ /\ result[xovl[x]] = "ok"
          /\ \E ops \in IF class = "Connection" THEN {<< >>} ELSE RequestAndRead :
                Fits(ops) /\ Issue(ops)
          /\ UNCHANGED refVars
    /\ UNCHANGED objVars

(* Connector::OnEvRead: an error notifies and closes, zero bytes (the peer *)
(* closed) do nothing, data is parsed and may lead to the next request.    *)
OnEvRead(x) ==
    /\ Handler(x, "READ")
    /\ \/ /\ result[xovl[x]] = "err"
          /\ Notify("READ")
          /\ Close
          /\ UNCHANGED ovlVars
       \/ /\ result[xovl[x]] = "zero"
          /\ UNCHANGED <<ovlVars, objVars, refVars, failures>>
       \/ /\ result[xovl[x]] = "ok"
          /\ \E ops \in RequestAndRead : Fits(ops) /\ Issue(ops)
          /\ UNCHANGED <<objVars, refVars>>

(* Fault: a completed write starts a read of its own.                      *)
OnEvWriteReads(x) ==
    /\ Handler(x, "WRITE")
    /\ result[xovl[x]] = "ok"
    /\ \E ops \in Attempts("READ") : Fits(ops) /\ Issue(ops)
    /\ UNCHANGED <<objVars, refVars>>

(* Connector::OnEvWrite: an error notifies and closes, a partial write is  *)
(* continued.                                                              *)
OnEvWrite(x) ==
    /\ Handler(x, "WRITE")
    /\ \/ /\ result[xovl[x]] = "err"
          /\ Notify("WRITE")
          /\ Close
          /\ UNCHANGED ovlVars
       \/ /\ result[xovl[x]] = "part"
          /\ \E ops \in Attempts("WRITE") : Fits(ops) /\ Issue(ops)
          /\ UNCHANGED <<objVars, refVars>>
       \/ /\ result[xovl[x]] = "ok"
          /\ UNCHANGED <<ovlVars, objVars, refVars, failures>>

Run(x) ==
    OnStart(x) \/ OnStop(x) \/ OnConnect(x) \/ OnEvRead(x) \/ OnEvWrite(x)
-------------------------------------------------------------------------------
(* Fault: the client releases the object without waiting for the close.    *)
OnNotifyNoWait ==
    /\ cpc = "idle"
    /\ phase = "run"
    /\ nq # << >>
    /\ nq' = Tail(nq)
    /\ IF Head(nq) = "CONNECT"
       THEN Post("STOP") /\ cpc' = "release"
       ELSE UNCHANGED <<ovlVars, iocp, failures>> /\ cpc' = "dropitem"
    /\ UNCHANGED <<evq, lock, exeVars, objVars, ref, alive, phase, class>>

(* Client::RunOnce with TestClient::OnNotify or RtspClient::OnNotify: only *)
(* a failed connect is acted upon, by Stop, WaitForClosedEvent and         *)
(* Release; then the item's own reference is dropped.                      *)
OnNotify ==
    /\ cpc = "idle"
    /\ phase = "run"
    /\ nq # << >>
    /\ nq' = Tail(nq)
    /\ IF Head(nq) = "CONNECT"
       THEN Post("STOP") /\ cpc' = "waitclosed"
       ELSE UNCHANGED <<ovlVars, iocp, failures>> /\ cpc' = "dropitem"
    /\ UNCHANGED <<evq, lock, exeVars, objVars, ref, alive, phase, class>>

WaitForClosedEvent ==
    /\ cpc = "waitclosed"
    /\ closedEv
    /\ closedEv' = FALSE
    /\ cpc' = "release"
    /\ UNCHANGED <<ovlVars, iocp, evq, lock, exeVars, sock, started, refVars,
                   phase, class, failures>>

ClientRelease ==
    /\ \/ cpc = "release" /\ cpc' = "dropitem"
       \/ cpc = "dropitem" /\ cpc' = "idle"
    /\ Release
    /\ UNCHANGED <<nalloc, st, ev, undeleted, result, iocp, evq, lock, exeVars,
                   objVars,
                   nq, phase, class, failures>>
-------------------------------------------------------------------------------
(* Client::OnThreadStop: ExecutorPool::Uninit joins the executors, then    *)
(* Engine::Stop joins the IOCP thread, whose OnThreadStop closes the port  *)
(* and frees what is still queued without cancelling its timers; then      *)
(* RtspClient::OnClientStop releases the session.                          *)
Quit ==
    /\ cpc = "idle"
    /\ phase = "run"
    /\ phase' = "uninit"
    /\ UNCHANGED <<ovlVars, iocp, evq, lock, exeVars, objVars, refVars,
                   cpc, class, failures>>

(* Fault: the executor waits for an event without a timeout and looks at   *)
(* the quit flag only when it has one.                                     *)
ExecutorStopAsleep(x) ==
    /\ phase = "uninit"
    /\ xpc[x] = "wait"
    /\ evq # << >>
    /\ xpc' = [xpc EXCEPT ![x] = "exited"]
    /\ UNCHANGED <<ovlVars, iocp, evq, lock, xovl, objVars, refVars,
                   cpc, phase, class, failures>>

ExecutorStop(x) ==
    /\ phase = "uninit"
    /\ xpc[x] = "wait"
    /\ xpc' = [xpc EXCEPT ![x] = "exited"]
    /\ UNCHANGED <<ovlVars, iocp, evq, lock, xovl, objVars, refVars,
                   cpc, phase, class, failures>>

(* Fault: the engine is stopped before the executors have ended.           *)
EngineStopEarly ==
    /\ phase = "uninit"
    /\ phase' = "stopped"
    /\ st' = [o \in Ovls |-> IF st[o] = "evq" THEN "freed"
                             ELSE IF st[o] = "iocp" THEN "lost" ELSE st[o]]
    /\ iocp' = << >>
    /\ evq' = << >>
    /\ UNCHANGED <<nalloc, ev, timer, undeleted, result, lock, exeVars,
                   objVars, refVars,
                   cpc, class, failures>>

EngineStop ==
    /\ phase = "uninit"
    /\ \A x \in Executors : xpc[x] = "exited"
    /\ phase' = "stopped"
    /\ st' = [o \in Ovls |-> IF st[o] = "evq" THEN "freed"
                             ELSE IF st[o] = "iocp" THEN "lost" ELSE st[o]]
    /\ iocp' = << >>
    /\ evq' = << >>
    /\ UNCHANGED <<nalloc, ev, timer, undeleted, result, lock, exeVars,
                   objVars, refVars,
                   cpc, class, failures>>

OnClientStop ==
    /\ phase = "stopped"
    /\ class = "RtspSession"
    /\ cpc = "idle"
    /\ cpc' = "stopped"
    /\ Release
    /\ UNCHANGED <<nalloc, st, ev, undeleted, result, iocp, evq, lock, exeVars,
                   objVars,
                   nq, phase, class, failures>>
-------------------------------------------------------------------------------
ExecutorStep(x) ==
    Take(x) \/ LockObj(x) \/ CancelTimer(x) \/ DeleteTimer(x) \/ Run(x)
        \/ Unlock(x) \/ FreeZ3Ovl(x) \/ ExecutorStop(x)

ClientStep ==
    OnNotify \/ WaitForClosedEvent \/ ClientRelease \/ EngineStop \/ OnClientStop

Kernel == \E o \in Ovls : \E r \in {"ok", "part", "zero", "err"} : Complete(o, r)

Next ==
    \/ Start
    \/ Quit
    \/ Dispatch
    \/ Kernel
    \/ \E x \in Executors : ExecutorStep(x)
    \/ \E o \in Ovls : Expire(o) \/ TimerCallBack(o)
    \/ ClientStep

Spec == Init /\ [][Next]_vars

(* The scheduler runs every thread that can run; the kernel completes what *)
(* was cancelled or whose socket was closed.  The peer need not answer and *)
(* the application need not start or quit.                                 *)
Ended(o) == st[o] = "cancelled" \/ sock = "closed"

Fairness ==
    /\ WF_vars(Dispatch)
    /\ WF_vars(ClientStep)
    /\ \A x \in Executors : WF_vars(ExecutorStep(x))
    /\ \A o \in Ovls : WF_vars(Expire(o)) /\ WF_vars(TimerCallBack(o))
    /\ \A o \in Ovls : WF_vars(Ended(o) /\ Complete(o, "err"))

FairSpec == Spec /\ Fairness
-------------------------------------------------------------------------------
TypeOK ==
    /\ class \in Classes
    /\ nalloc \in 0 .. MaxOvls
    /\ st \in [Ovls -> {"none", "pending", "cancelled", "refused", "iocp", "evq",
                        "exec", "freed", "lost"}]
    /\ ev \in [Ovls -> {"none", "START", "STOP", "CONNECT", "READ", "WRITE"}]
    /\ timer \in [Ovls -> {"none", "null", "armed", "fired", "over", "deleted"}]
    /\ undeleted \subseteq Ovls
    /\ result \in [Ovls -> {"none", "ok", "part", "zero", "err"}]
    /\ iocp \in Seq(Ovls)
    /\ evq \in Seq(Ovls)
    /\ lock \in Executors \cup {NoOne}
    /\ xpc \in [Executors -> {"wait", "lock", "cancel", "delete", "run",
                              "unlock", "free", "exited"}]
    /\ xovl \in [Executors -> 0 .. MaxOvls]
    /\ sock \in {"none", "open", "closed"}
    /\ started \in BOOLEAN
    /\ closedEv \in BOOLEAN
    /\ ref \in Nat
    /\ alive \in BOOLEAN
    /\ nq \in Seq({"CONNECT", "READ", "WRITE", "NOTIFY"})
    /\ cpc \in {"idle", "waitclosed", "release", "dropitem", "stopped"}
    /\ phase \in {"run", "uninit", "stopped"}
    /\ failures \in 0 .. MaxFailures

Injective(s) == \A i, j \in DOMAIN s : s[i] = s[j] => i = j
Entries(s) == {s[i] : i \in DOMAIN s}

(* A block is in one place at a time: once in the port, once in the event  *)
(* queue or in the hands of one executor.  No completion, a timed-out one  *)
(* included, is handled twice, and no block is freed that is still queued. *)
OnePlace ==
    /\ Injective(iocp)
    /\ Injective(evq)
    /\ \A x, y \in Executors : xovl[x] = xovl[y] /\ xovl[x] # 0 => x = y
    /\ \A o \in Ovls :
        /\ st[o] = "iocp" <=> o \in Entries(iocp)
        /\ st[o] = "evq" <=> o \in Entries(evq)
        /\ st[o] = "exec" <=> \E x \in Executors : xovl[x] = o

(* While the engine runs, a timer that can fire, or has a callback under   *)
(* way, for a block that has been freed (TimerCallBack dereferences it) is *)
(* one whose CancelTimer failed for want of an event: the ignored result   *)
(* of CancelTimer is the only way to it, whoever takes, cancels, runs and  *)
(* frees which block when.                                                 *)
CallbackSeesLiveBlock ==
    phase # "stopped" =>
        \A o \in Ovls :
            timer[o] \in {"armed", "fired"} /\ st[o] = "freed" => o \in undeleted

(* The receive buffer has one user: at most one read is in the kernel or   *)
(* completed but not yet handled, so StartRead never clears a buffer that  *)
(* is being filled or still has to be parsed.                              *)
Unhandled(o) ==
    \/ st[o] \in {"pending", "cancelled", "iocp", "evq"}
    \/ \E x \in Executors : xovl[x] = o /\ xpc[x] \in {"lock", "cancel", "delete", "run"}

OneReceiver ==
    \A o, q \in Ovls :
        ev[o] = "READ" /\ ev[q] = "READ" /\ Unhandled(o) /\ Unhandled(q) => o = q

(* The assertion in IOCPObj::OnStop: a STOP is handled only after a START  *)
(* has succeeded, whatever executor takes which event first.               *)
StopFindsStarted ==
    \A x \in Executors : xpc[x] = "run" /\ ev[xovl[x]] = "STOP" => started

(* A queued or half-handled notification keeps its object alive: this is   *)
(* the reference taken by Notify and dropped by Client::RunOnce.           *)
NotificationKeepsObject ==
    nq # << >> \/ cpc \in {"waitclosed", "release", "dropitem"} => alive

(* No executor still needs the object once it has been deleted: between    *)
(* taking an event and FreeZ3Ovl, RunOnce calls methods of the object.     *)
NoUseAfterFree == ~alive => \A x \in Executors : xpc[x] \in {"wait", "exited"}

(* An RTSP session, which its client releases only after the executors     *)
(* have been joined, is never used after it was deleted.                   *)
SessionOutlivesExecutors == class = "RtspSession" => NoUseAfterFree

(* The assertion in ~SocketObj: the socket of a connection, whose client   *)
(* waits for the closed event, was closed before the deletion.             *)
SocketClosedBeforeDelete == class = "Connection" /\ ~alive => sock # "open"

(* How an executor or the process is lost.  The executor holds the lock of *)
(* the object in DeleteTimer while the callback it waits for waits for     *)
(* that lock;                                                              *)
TimerDeadlock ==
    \E x \in Executors : xpc[x] = "delete" /\ timer[xovl[x]] = "fired"

(* or it deletes the timer NULL for ever;                                  *)
NullTimerDelete ==
    \E x \in Executors : xpc[x] = "delete" /\ timer[xovl[x]] = "null"

(* or the callback of a timer that was not deleted finds its block freed.  *)
StrayCallback == \E o \in Ovls : timer[o] = "fired" /\ st[o] = "freed"

(* Every completion that the kernel posts is handled and its block freed,  *)
(* unless the engine is stopped first: a timer that expires while its      *)
(* operation completes does no harm.  The losses that need a failed system *)
(* call or the deletion of the object are excepted.                        *)
CompletionHandled ==
    \A o \in Ovls :
        st[o] = "iocp" ~> \/ st[o] = "freed"
                          \/ phase = "stopped"
                          \/ NullTimerDelete \/ StrayCallback \/ ~NoUseAfterFree

ExecutorLost ==
    TimerDeadlock \/ NullTimerDelete \/ StrayCallback \/ ~NoUseAfterFree

(* Nothing else keeps a posted completion from being handled, with timers  *)
(* that expire at any moment and operations that fail in every way.        *)
HandledUnlessLost ==
    \A o \in Ovls :
        st[o] = "iocp" ~> st[o] = "freed" \/ phase = "stopped" \/ ExecutorLost

(* Stop could not post its event, or its handler could not close the       *)
(* socket.                                                                 *)
StopFailed ==
    \E o \in Ovls : /\ ev[o] = "STOP"
                    /\ st[o] = "freed"
                    /\ result[o] = "none" \/ sock = "open"

(* WaitForClosedEvent, which waits without a timeout, returns, unless Stop *)
(* itself failed, whose result OnNotify ignores.                           *)
ClientWaitEnds ==
    cpc = "waitclosed" ~> cpc # "waitclosed" \/ StopFailed \/ ExecutorLost

(* Stopping the client terminates: Client::OnThreadStop joins every        *)
(* executor and the IOCP thread without a timeout.  A client that waits    *)
(* for the close does not come to stop.                                    *)
ShutdownEnds == phase = "uninit" ~> phase = "stopped" \/ ExecutorLost
===============================================================================
