---------------------------- MODULE SktLifecycle ----------------------------
(***************************************************************************)
(* The life of the TCP sockets of a socket manager (VxSktBase and          *)
(* VxSktBaseMgr): an rx thread per socket, which ends with the callback    *)
(* that becomes P2PEngine::onConnectionLost; closeSkt, which any thread    *)
(* may call; the two lists of the manager and its lock; deletion.          *)
(*                                                                         *)
(* A thread is named after what it is: the rx thread of socket s is s.     *)
(***************************************************************************)
EXTENDS Naturals

CONSTANTS
    Skts,     \* the sockets, and their rx threads
    Outgoing, \* those this node connects itself; the others it accepts
    Others,   \* the other threads: GUI, timers, listen thread
    Inputs    \* what happens in this instance

Free  == "free"  \* nobody holds the lock
NoSkt == "no socket"

ASSUME ThreadsAssumption == Skts \intersect Others = {} /\ Free \notin Skts \union Others /\ NoSkt \notin Skts
ASSUME OutgoingAssumption == Outgoing \subseteq Skts
ASSUME InputsAssumption == Inputs \subseteq {"remote", "own", "cross", "other", "unlocked", "delete"}

Threads == Skts \union Others

(* Where a thread stands inside closeSkt and the functions it calls. *)
ClosePcs == {"close", "notify", "handle", "abort", "lock", "move", "kill"}

(* Where an rx thread stands in VxSktBaseReceiveVxThreadFunc. *)
RxPcs == {"none", "start", "ready", "loop", "recv", "data", "exit", "closed",
          "lost", "shut", "event", "cleanup", "done", "last", "ended"}

Pcs == {"idle"} \union RxPcs \union ClosePcs

VARIABLES
    pc,        \* the step a thread is at
    target,    \* the socket a thread in closeSkt closes
    ret,       \* where a thread goes on after closeSkt or moveToEraseList
    mgrLocked, \* the parameter sktMgrLocked of that call
    sktHandle, \* m_Socket: "none" yet, "open" or "closed" (INVALID_SOCKET)
    connected, \* m_bIsConnected
    reason,    \* m_eSktCallbackReason; "Closing" stands for errors as well
    aborted,   \* isAborted() of the rx thread
    fromRx,    \* m_bClosingFromRxThread
    inUse,     \* m_InUseByRxThread
    list,      \* "none" yet, "listed" in m_aoSkts, "toDelete" in m_aoSktsToDelete, or "deleted"
    lock,      \* the thread that holds the lock of the manager, or Free
    lost,      \* how often onConnectionLost ran for the socket (two stands for more)
    heard,     \* whether the engine ever got a packet from the socket
    byOther    \* whether another thread than its own began to close the socket

threadVars == <<pc, target, ret, mgrLocked>>
sktVars    == <<sktHandle, connected, reason, aborted, fromRx, inUse>>
history    == <<lost, heard, byOther>>
vars == <<threadVars, sktVars, list, lock, history>>

TypeOK ==
    /\ pc \in [Threads -> Pcs]
    /\ target \in [Threads -> Skts \union {NoSkt}]
    /\ \A t \in Threads : pc[t] \in ClosePcs => target[t] \in Skts
    /\ ret \in [Threads -> Pcs]
    /\ mgrLocked \in [Threads -> BOOLEAN]
    /\ sktHandle \in [Skts -> {"none", "open", "closed"}]
    /\ connected \in [Skts -> BOOLEAN]
    /\ reason \in [Skts -> {"Connecting", "Connected", "Data", "Closing", "Closed"}]
    /\ aborted \in [Skts -> BOOLEAN]
    /\ fromRx \in [Skts -> BOOLEAN]
    /\ inUse \in [Skts -> BOOLEAN]
    /\ list \in [Skts -> {"none", "listed", "toDelete", "deleted"}]
    /\ lock \in Threads \union {Free}
    /\ lost \in [Skts -> 0..2]
    /\ heard \in [Skts -> BOOLEAN]
    /\ byOther \in [Skts -> BOOLEAN]

Init ==
    /\ pc = [t \in Threads |-> IF t \in Skts THEN "none" ELSE "idle"]
    /\ target = [t \in Threads |-> NoSkt]
    /\ ret = [t \in Threads |-> "idle"]
    /\ mgrLocked = [t \in Threads |-> FALSE]
    /\ sktHandle = [s \in Skts |-> "none"]
    /\ connected = [s \in Skts |-> FALSE]
    /\ reason = [s \in Skts |-> "Connecting"]
    /\ aborted = [s \in Skts |-> FALSE]
    /\ fromRx = [s \in Skts |-> FALSE]
    /\ inUse = [s \in Skts |-> FALSE]
    /\ list = [s \in Skts |-> "none"]
    /\ lock = Free
    /\ lost = [s \in Skts |-> 0]
    /\ heard = [s \in Skts |-> FALSE]
    /\ byOther = [s \in Skts |-> FALSE]

-----------------------------------------------------------------------------
(* Helpers *)

(* The definitions whose comment begins with "Slip" are no part of Next:   *)
(* each is the next definition with a mistake its code could have, and     *)
(* shows that a property depends on that code.                             *)

At(t, here) == pc[t] = here

Goto(t, next) == pc' = [pc EXCEPT ![t] = next]

IsInEraseList(s) == list[s] \in {"toDelete", "deleted"}

Running(s) == pc[s] \notin {"none", "ended"}

IsConnected(s) == sktHandle[s] = "open" /\ connected[s]

Min2(n) == IF n < 2 THEN n ELSE 2

(* NetworkMgr::handleTcpSktCallback does what the reason says that is      *)
(* current when it runs, whoever set it: only "Closed" and "Data" matter.  *)
Callback(s) ==
    lost' = [lost EXCEPT ![s] = IF reason[s] = "Closed" THEN Min2(@ + 1) ELSE @]

(* Thread t calls closeSkt or moveToEraseList for socket s, to go on at    *)
(* next.                                                                   *)
Call(t, here, s, next, locked) ==
    /\ Goto(t, here)
    /\ target' = [target EXCEPT ![t] = s]
    /\ ret' = [ret EXCEPT ![t] = next]
    /\ mgrLocked' = [mgrLocked EXCEPT ![t] = locked]

Return(t) == Call(t, ret[t], NoSkt, "idle", FALSE)

Step(t, next) == Goto(t, next) /\ UNCHANGED <<target, ret, mgrLocked>>

-----------------------------------------------------------------------------
(* closeSkt, run by thread t for the socket target[t] *)

(* Slip: it is not noted that the rx thread closes its own socket. *)
CloseUnmarked(t) ==
    LET s == target[t]
    IN  /\ At(t, "close")
        /\ IF sktHandle[s] # "open" \/ IsInEraseList(s)
           THEN Return(t) /\ UNCHANGED <<reason, byOther>>
           ELSE /\ reason' = [reason EXCEPT ![s] = "Closing"]
                /\ byOther' = [byOther EXCEPT ![s] = @ \/ t # s]
                /\ Step(t, "notify")
        /\ UNCHANGED <<fromRx, sktHandle, connected, aborted, inUse, list, lock, lost, heard>>

(* Nothing happens to a socket whose handle is closed already, or which is *)
(* in the erase list; else the callback reason is set ...                  *)
CloseSkt(t) ==
    LET s == target[t]
    IN  /\ At(t, "close")
        /\ IF sktHandle[s] # "open" \/ IsInEraseList(s)
           THEN Return(t) /\ UNCHANGED <<fromRx, reason, byOther>>
           ELSE /\ fromRx' = [fromRx EXCEPT ![s] = @ \/ t = s]
                /\ reason' = [reason EXCEPT ![s] = "Closing"]
                /\ byOther' = [byOther EXCEPT ![s] = @ \/ t # s]
                /\ Step(t, "notify")
        /\ UNCHANGED <<sktHandle, connected, aborted, inUse, list, lock, lost, heard>>

(* ... and the receive callback called, on this thread.                    *)
CloseCallback(t) ==
    /\ At(t, "notify")
    /\ Callback(target[t])
    /\ Step(t, "handle")
    /\ UNCHANGED <<sktVars, list, lock, heard, byOther>>

(* Slip: the handle is only closed by the rx thread itself. *)
CloseOwnHandle(t) ==
    LET s == target[t]
    IN  /\ At(t, "handle")
        /\ sktHandle' = [sktHandle EXCEPT ![s] = IF fromRx[s] THEN "closed" ELSE @]
        /\ connected' = [connected EXCEPT ![s] = @ /\ ~fromRx[s]]
        /\ aborted' = [aborted EXCEPT ![s] = @ \/ fromRx[s]]
        /\ Step(t, "abort")
        /\ UNCHANGED <<reason, fromRx, inUse, list, lock, history>>

CloseHandle(t) ==
    LET s == target[t]
    IN  /\ At(t, "handle")
        /\ sktHandle' = [sktHandle EXCEPT ![s] = "closed"]
        /\ connected' = [connected EXCEPT ![s] = @ /\ ~fromRx[s]]
        /\ aborted' = [aborted EXCEPT ![s] = @ \/ fromRx[s]]
        /\ Step(t, "abort")
        /\ UNCHANGED <<reason, fromRx, inUse, list, lock, history>>

(* Slip: the manager is not told. *)
CloseUntold(t) ==
    /\ At(t, "abort")
    /\ aborted' = [aborted EXCEPT ![target[t]] = TRUE]
    /\ Return(t)
    /\ UNCHANGED <<sktHandle, connected, reason, fromRx, inUse, list, lock, history>>

(* The rx thread is told to stop, and the manager that the socket was      *)
(* closed (sktWasClosed).                                                  *)
CloseAbort(t) ==
    LET s == target[t]
    IN  /\ At(t, "abort")
        /\ aborted' = [aborted EXCEPT ![s] = TRUE]
        /\ IF IsInEraseList(s) THEN Return(t)
           ELSE Step(t, IF mgrLocked[t] THEN "move" ELSE "lock")
        /\ UNCHANGED <<sktHandle, connected, reason, fromRx, inUse, list, lock, history>>

LockMgr(t) ==
    /\ At(t, "lock") /\ lock = Free
    /\ lock' = t
    /\ Step(t, "move")
    /\ UNCHANGED <<sktVars, list, history>>

UnlockMgr(t) == lock' = IF mgrLocked[t] THEN lock ELSE Free

(* Slip: only who moves the socket unlocks the manager. *)
MoveLeavesLocked(t) ==
    LET s == target[t]
    IN  /\ At(t, "move")
        /\ IF list[s] # "listed"
           THEN Return(t) /\ UNCHANGED <<list, connected, aborted, lock>>
           ELSE /\ list' = [list EXCEPT ![s] = "toDelete"]
                /\ connected' = [connected EXCEPT ![s] = FALSE]
                /\ aborted' = [aborted EXCEPT ![s] = TRUE]
                /\ IF fromRx[s] \/ ~Running(s)
                   THEN Return(t) /\ UnlockMgr(t)
                   ELSE Step(t, "kill") /\ UNCHANGED lock
        /\ UNCHANGED <<sktHandle, reason, fromRx, inUse, history>>

(* moveToEraseList, with the list of all sockets and the list of those to  *)
(* delete in hand, and the part of shutdownSkt before it stops the thread: *)
(* the closeSkt it calls returns at once.                                  *)
MoveToEraseList(t) ==
    LET s == target[t]
    IN  /\ At(t, "move")
        /\ IF list[s] # "listed"
           THEN Return(t) /\ UnlockMgr(t) /\ UNCHANGED <<list, connected, aborted>>
           ELSE /\ list' = [list EXCEPT ![s] = "toDelete"]
                /\ connected' = [connected EXCEPT ![s] = FALSE]
                /\ aborted' = [aborted EXCEPT ![s] = TRUE]
                /\ IF fromRx[s] \/ ~Running(s)
                   THEN Return(t) /\ UnlockMgr(t)
                   ELSE Step(t, "kill") /\ UNCHANGED lock
        /\ UNCHANGED <<sktHandle, reason, fromRx, inUse, history>>

(* Slip: it waits until the thread has ended. *)
KillForever(t) ==
    /\ At(t, "kill") /\ ~Running(target[t])
    /\ Return(t) /\ UnlockMgr(t)
    /\ UNCHANGED <<sktVars, list, history>>

(* VxThread::killThread waits, with the lock of the manager, until the     *)
(* thread has ended or six seconds have passed.                            *)
KillThread(t) ==
    /\ At(t, "kill")
    /\ Return(t) /\ UnlockMgr(t)
    /\ UNCHANGED <<sktVars, list, history>>

CloseStep(t) ==
    \/ CloseSkt(t) \/ CloseCallback(t) \/ CloseHandle(t) \/ CloseAbort(t)
    \/ LockMgr(t) \/ MoveToEraseList(t) \/ KillThread(t)

-----------------------------------------------------------------------------
(* How a socket begins *)

Open(s) ==
    /\ At(s, "none")
    /\ sktHandle' = [sktHandle EXCEPT ![s] = "open"]
    /\ inUse' = [inUse EXCEPT ![s] = TRUE]
    /\ Step(s, "start")
    /\ UNCHANGED <<reason, aborted, fromRx, lock, history>>

(* An accepted socket is listed before its thread is started ...           *)
Accept(s) ==
    /\ s \notin Outgoing /\ lock = Free
    /\ Open(s)
    /\ list' = [list EXCEPT ![s] = "listed"]
    /\ UNCHANGED connected

(* ... and an outgoing one after: connectTo, then addSkt.                  *)
Connect(s) ==
    /\ s \in Outgoing
    /\ Open(s)
    /\ connected' = [connected EXCEPT ![s] = TRUE]
    /\ UNCHANGED list

AddSkt(s) ==
    /\ pc[s] # "none" /\ list[s] = "none" /\ lock = Free
    /\ list' = [list EXCEPT ![s] = "listed"]
    /\ UNCHANGED <<threadVars, sktVars, lock, history>>

-----------------------------------------------------------------------------
(* The rx thread of socket s *)

(* A thread that finds itself told to stop, or its socket closed, ends at  *)
(* once: threadAboutToExit does not return, so that the socket stays in    *)
(* use.                                                                    *)
RxEarlyEnd(s) ==
    /\ At(s, "start") /\ (aborted[s] \/ sktHandle[s] # "open")
    /\ aborted' = [aborted EXCEPT ![s] = FALSE]
    /\ Step(s, "ended")
    /\ UNCHANGED <<sktHandle, connected, reason, fromRx, inUse, list, lock, history>>

(* The callback of this reason does nothing that this module knows.        *)
RxStart(s) ==
    /\ At(s, "start") /\ ~aborted[s] /\ sktHandle[s] = "open"
    /\ connected' = [connected EXCEPT ![s] = TRUE]
    /\ reason' = [reason EXCEPT ![s] = "Connected"]
    /\ Step(s, "ready")
    /\ UNCHANGED <<sktHandle, aborted, fromRx, inUse, list, lock, history>>

RxReady(s) ==
    /\ At(s, "ready")
    /\ reason' = [reason EXCEPT ![s] = "Data"]
    /\ Step(s, "loop")
    /\ UNCHANGED <<sktHandle, connected, aborted, fromRx, inUse, list, lock, history>>

RxLoop(s) ==
    /\ At(s, "loop")
    /\ Step(s, IF ~aborted[s] /\ reason[s] = "Data" /\ IsConnected(s) THEN "recv" ELSE "exit")
    /\ UNCHANGED <<sktVars, list, lock, history>>

(* recv fails because another thread closed the socket.                    *)
RecvClosed(s) ==
    /\ At(s, "recv") /\ sktHandle[s] = "closed"
    /\ reason' = [reason EXCEPT ![s] = "Closing"]
    /\ Step(s, "exit")
    /\ UNCHANGED <<sktHandle, connected, aborted, fromRx, inUse, list, lock, history>>

(* recv fails because the other end closed it or the network failed.       *)
RecvFails(s) ==
    /\ At(s, "recv") /\ sktHandle[s] = "open" /\ "remote" \in Inputs
    /\ Step(s, "exit")
    /\ UNCHANGED <<sktVars, list, lock, history>>

RecvData(s) ==
    /\ At(s, "recv") /\ sktHandle[s] = "open"
    /\ Step(s, IF aborted[s] \/ reason[s] # "Data" THEN "exit" ELSE "data")
    /\ UNCHANGED <<sktVars, list, lock, history>>

(* The value of sktMgrLocked that a caller which holds no lock passes:     *)
(* some pass TRUE (closeConnection; PluginMgr for network hosts).          *)
LockParams == IF "unlocked" \in Inputs THEN BOOLEAN ELSE {FALSE}

(* A handler of the packet may close a socket, its own or another.         *)
Victims(s) ==
    {x \in Skts : \/ x = s /\ "own" \in Inputs
                  \/ x # s /\ "cross" \in Inputs /\ list[x] \notin {"none", "deleted"}}

RxData(s) ==
    /\ At(s, "data")
    /\ heard' = [heard EXCEPT ![s] = @ \/ reason[s] = "Data"]
    /\ \/ Step(s, "loop")
       \/ /\ reason[s] = "Data"
          /\ \E x \in Victims(s), p \in LockParams : Call(s, "close", x, "loop", p)
    /\ UNCHANGED <<sktVars, list, lock, lost, byOther>>

(* Slip: the socket stays connected. *)
RxExitConnected(s) ==
    /\ At(s, "exit")
    /\ fromRx' = [fromRx EXCEPT ![s] = @ \/ ~aborted[s]]
    /\ reason' = [reason EXCEPT ![s] = "Closing"]
    /\ Step(s, "closed")
    /\ UNCHANGED <<sktHandle, connected, aborted, inUse, list, lock, history>>

(* The thread leaves its loop: the callbacks of Closing and Closed, ...    *)
RxExit(s) ==
    /\ At(s, "exit")
    /\ connected' = [connected EXCEPT ![s] = FALSE]
    /\ fromRx' = [fromRx EXCEPT ![s] = @ \/ ~aborted[s]]
    /\ reason' = [reason EXCEPT ![s] = "Closing"]
    /\ Step(s, "closed")
    /\ UNCHANGED <<sktHandle, aborted, inUse, list, lock, history>>

(* Slip: the reason stays Closing. *)
RxSetClosing(s) ==
    /\ At(s, "closed")
    /\ Step(s, "lost")
    /\ UNCHANGED <<sktVars, list, lock, history>>

RxSetClosed(s) ==
    /\ At(s, "closed")
    /\ reason' = [reason EXCEPT ![s] = "Closed"]
    /\ Step(s, "lost")
    /\ UNCHANGED <<sktHandle, connected, aborted, fromRx, inUse, list, lock, history>>

RxLost(s) ==
    /\ At(s, "lost")
    /\ Callback(s)
    /\ Step(s, "shut")
    /\ UNCHANGED <<sktVars, list, lock, heard, byOther>>

(* ... closeSkt if nobody closed the socket yet, ...                       *)
RxShut(s) ==
    /\ At(s, "shut")
    /\ LET open == sktHandle[s] = "open"
       IN  /\ aborted' = [aborted EXCEPT ![s] = @ \/ open]
           /\ fromRx' = [fromRx EXCEPT ![s] = @ \/ open]
           /\ IF open THEN Call(s, "close", s, "event", FALSE) ELSE Step(s, "event")
    /\ UNCHANGED <<sktHandle, connected, reason, inUse, list, lock, history>>

(* Slip: the socket has reset its pointer to itself. *)
RxEventNull(s) ==
    /\ At(s, "event")
    /\ IF IsInEraseList(s) THEN Step(s, "cleanup") ELSE Call(s, "lock", NoSkt, "cleanup", FALSE)
    /\ UNCHANGED <<sktVars, list, lock, history>>

(* ... handleSktCloseEvent, ...                                            *)
RxEvent(s) ==
    /\ At(s, "event")
    /\ IF IsInEraseList(s) THEN Step(s, "cleanup") ELSE Call(s, "lock", s, "cleanup", FALSE)
    /\ UNCHANGED <<sktVars, list, lock, history>>

(* Slip: sockets in use are deleted as well. *)
DeleteAny ==
    /\ lock = Free
    /\ \E expired \in SUBSET {s \in Skts : list[s] = "toDelete"} :
          list' = [s \in Skts |-> IF s \in expired THEN "deleted" ELSE list[s]]
    /\ UNCHANGED <<sktVars, lock, history>>

(* doSktDeleteCleanup, for the sockets that were closed long enough ago    *)
(* and come before one that is in use, with which it ends. The handle of   *)
(* that one is closed already.                                             *)
DoSktDeleteCleanup ==
    /\ lock = Free
    /\ \E expired \in SUBSET {s \in Skts : list[s] = "toDelete" /\ ~inUse[s]} :
          list' = [s \in Skts |-> IF s \in expired THEN "deleted" ELSE list[s]]
    /\ UNCHANGED <<sktVars, lock, history>>

RxCleanup(s) ==
    /\ At(s, "cleanup")
    /\ DoSktDeleteCleanup
    /\ Step(s, "done")

(* ... and a last closeSkt to be sure.                                     *)
RxDone(s) ==
    /\ At(s, "done")
    /\ aborted' = [aborted EXCEPT ![s] = TRUE]
    /\ inUse' = [inUse EXCEPT ![s] = FALSE]
    /\ Call(s, "close", s, "last", FALSE)
    /\ UNCHANGED <<sktHandle, connected, reason, fromRx, list, lock, history>>

RxEnd(s) ==
    /\ At(s, "last")
    /\ aborted' = [aborted EXCEPT ![s] = FALSE]
    /\ Step(s, "ended")
    /\ UNCHANGED <<sktHandle, connected, reason, fromRx, inUse, list, lock, history>>

RxStep(s) ==
    \/ RxEarlyEnd(s) \/ RxStart(s) \/ RxReady(s) \/ RxLoop(s)
    \/ RecvClosed(s) \/ RxData(s) \/ RxExit(s) \/ RxSetClosed(s) \/ RxLost(s)
    \/ RxShut(s) \/ RxEvent(s) \/ RxCleanup(s) \/ RxDone(s) \/ RxEnd(s)

-----------------------------------------------------------------------------
(* Other threads *)

(* A thread closes a socket, perhaps one it has just marked unconnected    *)
(* because a send failed.                                                  *)
OtherClose(t, s) ==
    /\ "other" \in Inputs
    /\ At(t, "idle") /\ list[s] \notin {"none", "deleted"}
    /\ connected' \in {connected, [connected EXCEPT ![s] = FALSE]}
    /\ \E p \in LockParams : Call(t, "close", s, "idle", p)
    /\ UNCHANGED <<sktHandle, reason, aborted, fromRx, inUse, list, lock, history>>

(* The listen thread cleans up after each socket it accepts or refuses.    *)
OtherCleanup(t) ==
    /\ "delete" \in Inputs
    /\ At(t, "idle")
    /\ DoSktDeleteCleanup
    /\ UNCHANGED threadVars

Next ==
    \/ \E s \in Skts : \/ Accept(s) \/ Connect(s) \/ AddSkt(s)
                       \/ RxStep(s) \/ RecvData(s) \/ RecvFails(s)
    \/ \E t \in Others : OtherCleanup(t) \/ \E s \in Skts : OtherClose(t, s)
    \/ \E t \in Threads : CloseStep(t)

Spec == Init /\ [][Next]_vars

(* Every thread runs. Nothing is assumed of the other ends, nor of who     *)
(* calls closeSkt.                                                         *)
FairSpec ==
    /\ Spec
    /\ \A s \in Skts : WF_vars(RxStep(s) \/ CloseStep(s)) /\ WF_vars(AddSkt(s))
    /\ \A t \in Others : WF_vars(CloseStep(t))

-----------------------------------------------------------------------------
(* Properties *)

(* A connection that only its own rx thread closes, or the other end, is   *)
(* reported as lost once, by the time the thread has ended.                *)
LostOnce ==
    \A s \in Skts : ~byOther[s] => lost[s] = 1 \/ (lost[s] = 0 /\ pc[s] # "ended")

(* When the thread has ended and nobody is closing its socket, the handle  *)
(* is closed (it is never leaked), and an accepted socket no longer counts *)
(* toward the connections of the manager, whoever closed it.               *)
EndedIsClosed ==
    \A s \in Skts :
        pc[s] = "ended" /\ (\A t \in Threads : target[t] # s) =>
            /\ sktHandle[s] = "closed"
            /\ ~connected[s]
            /\ s \notin Outgoing => IsInEraseList(s)

(* Where the rx thread of s stands, or goes on after the close it is in.   *)
RxAt(s) == IF pc[s] \in ClosePcs THEN ret[s] ELSE pc[s]

(* A socket is not deleted before its rx thread has passed its last use of *)
(* the lists and callbacks, nor with its handle open.                      *)
DeletedIsUnused ==
    \A s \in Skts : list[s] = "deleted" =>
        sktHandle[s] = "closed" /\ RxAt(s) \in {"last", "ended"}

(* What a host sees of socket s. It was never up when its thread ended     *)
(* early, which leaves it in use.                                          *)
NeverUp(s) == RxAt(s) \in {"none", "start"} \/ (pc[s] = "ended" /\ inUse[s])

LinkOf(s) ==
    IF NeverUp(s) \/ lost[s] > 0 THEN "down"
    ELSE IF IsConnected(s) THEN "up" ELSE "lost"

(* The rx thread is in the handler of a packet, or in a closeSkt it calls. *)
Handling(s) == pc[s] = "data" \/ (pc[s] \in ClosePcs /\ ret[s] = "loop")

Links ==
    INSTANCE Link WITH link <- [s \in Skts |-> LinkOf(s)], handling <- {s \in Skts : Handling(s)}

(* Whoever closes a socket, and from whichever thread the callback comes:  *)
(* onConnectionLost never runs for a socket that is connected, nor while   *)
(* one of its packets is being handled; once it has run, no packet is      *)
(* handled; and what was disconnected is never connected again before it.  *)
LinksAreKept == Links!Spec

(* Whoever calls closeSkt comes back, whatever the other threads close at  *)
(* the same time: the wait for a thread that waits for the lock is cut off.*)
ClosesEnd == \A t \in Threads : pc[t] \in ClosePcs ~> pc[t] \notin ClosePcs

(* An rx thread that is told to stop ends, even if it waits for data.      *)
SktEnds == \A s \in Skts : aborted[s] ~> pc[s] = "ended"

(* "thread cannot exit while attempting to kill itself"                    *)
NeverWaitsForItself == \A t \in Threads : pc[t] = "kill" => target[t] # t

(* No thread whose socket only itself and the other end close comes to     *)
(* wait for itself in shutdownSkt, and so to hold the lock of the manager  *)
(* for six seconds: its closeSkt says that it is called from there.        *)
WaitsForItselfIfRaced == \A s \in Skts : pc[s] = "kill" /\ target[s] = s => byOther[s]

(* The lock of the manager is held by whoever takes a socket off the list  *)
(* and, unless a caller says that it holds the lock, by him alone: no      *)
(* return of moveToEraseList leaves it locked, and nobody who holds it     *)
(* waits for it.                                                           *)
LockedToErase ==
    \A t \in Threads : lock = t <=> pc[t] \in {"move", "kill"} /\ ~mgrLocked[t]

(* "everything happens in onConnectionLost": it runs for every connection  *)
(* over which a packet was handled.                                        *)
LostIsTold == \A s \in Skts : pc[s] = "ended" /\ heard[s] => lost[s] >= 1

(* "put this skt in delete list to be deleted later": no socket stays in   *)
(* the list of the manager when its thread has ended.                      *)
EndedIsUnlisted ==
    \A s \in Skts : pc[s] = "ended" /\ (\A t \in Threads : target[t] # s) => list[s] # "listed"

(* "to be deleted sockets delete after 10 seconds", unless in use.         *)
EndedIsUnused == \A s \in Skts : pc[s] = "ended" => ~inUse[s]

=============================================================================
