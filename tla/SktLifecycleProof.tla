-------------------------- MODULE SktLifecycleProof --------------------------
(***************************************************************************)
(* Proofs about SktLifecycle.                                              *)
(***************************************************************************)
EXTENDS SktLifecycle, TLAPS

(* Before and after the callback that runs onConnectionLost. *)
BeforeLost == {"none", "start", "ready", "loop", "recv", "data", "exit", "closed", "lost"}
AfterLost  == {"shut", "event", "cleanup", "done", "last", "ended"}

(* Where a thread goes on after closeSkt: an rx thread that calls it for   *)
(* the socket of another is in a handler.                                  *)
ReturnInv ==
    /\ \A s \in Skts : pc[s] \in ClosePcs => ret[s] \in {"loop", "event", "cleanup", "last"}
    /\ \A s \in Skts : pc[s] \in ClosePcs /\ target[s] # s => ret[s] = "loop"
    /\ \A s \in Skts : pc[s] # "idle"
    /\ \A t \in Others : pc[t] \in {"idle"} \union ClosePcs /\ ret[t] = "idle"

(* Who is past the first test of closeSkt for the socket of another.       *)
OtherInv ==
    \A t \in Threads, s \in Skts :
        pc[t] \in ClosePcs \ {"close"} /\ target[t] = s /\ t # s => byOther[s]

(* What holds of a socket no other thread closed.                          *)
OwnInv ==
    \A s \in Skts : ~byOther[s] =>
        /\ RxAt(s) \in BeforeLost => lost[s] = 0
        /\ RxAt(s) \in AfterLost => lost[s] = 1
        /\ pc[s] = "start" => ~aborted[s] /\ sktHandle[s] = "open"
        /\ pc[s] = "lost" => reason[s] = "Closed"
        /\ pc[s] = "notify" /\ target[s] = s => reason[s] = "Closing"

(* A close under way that has yet to take the socket off the list.         *)
Pending(s) == \E t \in Threads : target[t] = s /\ pc[t] \in {"abort", "lock", "move"}

(* A socket that is listed, or being closed, has begun. *)
ListedInv ==
    /\ \A s \in Skts : list[s] # "none" => pc[s] # "none"
    /\ \A s \in Skts \ Outgoing : pc[s] # "none" => list[s] # "none"
    /\ \A t \in Threads : pc[t] \in ClosePcs /\ target[t] # t => list[target[t]] # "none"

(* Who is past CloseHandle closed the handle. *)
CloserInv ==
    \A t \in Threads : pc[t] \in {"abort", "lock", "move", "kill"} => sktHandle[target[t]] = "closed"

(* An rx thread that has seen to its own end has a closed handle. *)
LeavingInv ==
    /\ \A s \in Skts : pc[s] \in {"event", "cleanup", "done", "last", "ended"} => sktHandle[s] = "closed"
    /\ \A s \in Skts : pc[s] \in ClosePcs /\ ret[s] \in {"cleanup", "last"} => sktHandle[s] = "closed"

EraseInv == \A s \in Skts : IsInEraseList(s) => sktHandle[s] = "closed" /\ ~connected[s]

BeginInv ==
    /\ \A s \in Skts : sktHandle[s] = "none" <=> pc[s] = "none"
    /\ \A s \in Skts : pc[s] \in {"none", "start"} /\ aborted[s] => sktHandle[s] = "closed"

HandleInv == CloserInv /\ LeavingInv /\ EraseInv /\ BeginInv

(* A closed socket is off the list or about to be taken off it. *)
GoneInv ==
    \A s \in Skts : sktHandle[s] = "closed" /\ (s \notin Outgoing \/ pc[s] = "start") =>
        list[s] # "none" /\ (IsInEraseList(s) \/ Pending(s))

(* What is not in use has an rx thread near its end. *)
UseInv ==
    /\ \A s \in Skts : ~inUse[s] /\ pc[s] # "none" => RxAt(s) \in {"last", "ended"}
    /\ \A s \in Skts : list[s] = "deleted" => RxAt(s) \in {"last", "ended"}

ConnectedInv ==
    \A s \in Skts : connected[s] =>
        /\ RxAt(s) \notin {"closed", "lost", "shut", "event", "cleanup", "done", "last"}
        /\ pc[s] = "ended" => list[s] # "none" /\ Pending(s)

(* The two halves of TypeOK. *)
ThreadTyped ==
    /\ pc \in [Threads -> Pcs]
    /\ target \in [Threads -> Skts \union {NoSkt}]
    /\ \A t \in Threads : pc[t] \in ClosePcs => target[t] \in Skts
    /\ ret \in [Threads -> Pcs]
    /\ mgrLocked \in [Threads -> BOOLEAN]
    /\ lock \in Threads \union {Free}

SktTyped ==
    /\ sktHandle \in [Skts -> {"none", "open", "closed"}]
    /\ connected \in [Skts -> BOOLEAN]
    /\ reason \in [Skts -> {"Connecting", "Connected", "Data", "Closing", "Closed"}]
    /\ aborted \in [Skts -> BOOLEAN]
    /\ fromRx \in [Skts -> BOOLEAN]
    /\ inUse \in [Skts -> BOOLEAN]
    /\ list \in [Skts -> {"none", "listed", "toDelete", "deleted"}]
    /\ lost \in [Skts -> 0..2]
    /\ heard \in [Skts -> BOOLEAN]
    /\ byOther \in [Skts -> BOOLEAN]

-----------------------------------------------------------------------------
(* How a thread moves *)

(* A call of closeSkt or moveToEraseList. *)
LEMMA CallKeeps ==
    ASSUME ThreadTyped, ReturnInv,
           NEW t \in Threads, NEW here \in ClosePcs, NEW s \in Skts, NEW next \in Pcs,
           NEW locked \in BOOLEAN, Call(t, here, s, next, locked), lock' \in Threads \union {Free},
           t \in Skts => next \in {"loop", "event", "cleanup", "last"} /\ (s # t => next = "loop"),
           t \in Others => next = "idle"
    PROVE  ThreadTyped' /\ ReturnInv'
<1> USE ThreadsAssumption DEF Threads, ClosePcs, Pcs, RxPcs
<1>1. /\ pc' = [pc EXCEPT ![t] = here] /\ target' = [target EXCEPT ![t] = s]
      /\ ret' = [ret EXCEPT ![t] = next] /\ mgrLocked' = [mgrLocked EXCEPT ![t] = locked]
  BY DEF Call, Goto
<1>2. ThreadTyped'
  BY <1>1 DEF ThreadTyped
<1>3. ReturnInv'
  BY <1>1 DEF ReturnInv, ThreadTyped
<1> QED BY <1>2, <1>3

(* The return from it. *)
LEMMA ReturnKeeps ==
    ASSUME ThreadTyped, ReturnInv,
           NEW t \in Threads, pc[t] \in ClosePcs, Return(t), lock' \in Threads \union {Free}
    PROVE  ThreadTyped' /\ ReturnInv'
<1> USE ThreadsAssumption DEF Threads, ClosePcs, Pcs, RxPcs
<1>1. /\ pc' = [pc EXCEPT ![t] = ret[t]] /\ target' = [target EXCEPT ![t] = NoSkt]
      /\ ret' = [ret EXCEPT ![t] = "idle"] /\ mgrLocked' = [mgrLocked EXCEPT ![t] = FALSE]
  BY DEF Return, Call, Goto
<1>2. ret[t] \in Pcs \ ClosePcs /\ (t \in Skts => ret[t] # "idle") /\ (t \in Others => ret[t] = "idle")
  BY DEF ReturnInv, ThreadTyped
<1>3. ThreadTyped'
  BY <1>1, <1>2 DEF ThreadTyped
<1>4. ReturnInv'
  BY <1>1, <1>2 DEF ReturnInv, ThreadTyped
<1> QED BY <1>3, <1>4

(* A step without either. *)
LEMMA StepKeeps ==
    ASSUME ThreadTyped, ReturnInv,
           NEW t \in Threads, NEW next \in Pcs, Step(t, next), lock' \in Threads \union {Free},
           t \in Skts => next # "idle" /\ (next \in ClosePcs => pc[t] \in ClosePcs),
           t \in Others => next \in ClosePcs,
           next \in ClosePcs => target[t] \in Skts
    PROVE  ThreadTyped' /\ ReturnInv'
<1> USE ThreadsAssumption DEF Threads, ClosePcs, Pcs, RxPcs
<1>1. pc' = [pc EXCEPT ![t] = next] /\ UNCHANGED <<target, ret, mgrLocked>>
  BY DEF Step, Goto
<1>2. ThreadTyped'
  BY <1>1 DEF ThreadTyped
<1>3. ReturnInv'
  BY <1>1 DEF ReturnInv, ThreadTyped
<1> QED BY <1>2, <1>3

-----------------------------------------------------------------------------
(* What closeSkt and moveToEraseList change *)

(* Where closeSkt goes ahead. *)
LEMMA CloseBegins ==
    ASSUME TypeOK, NEW t \in Threads, CloseSkt(t),
           ~(sktHandle[target[t]] # "open" \/ IsInEraseList(target[t]))
    PROVE  /\ target[t] \in Skts /\ pc[t] = "close"
           /\ pc' = [pc EXCEPT ![t] = "notify"]
           /\ reason' = [reason EXCEPT ![target[t]] = "Closing"]
           /\ fromRx' \in [Skts -> BOOLEAN]
           /\ byOther' \in [Skts -> BOOLEAN]
           /\ \A x \in Skts : byOther[x] => byOther'[x]
           /\ t # target[t] => byOther'[target[t]]
           /\ UNCHANGED <<target, ret, mgrLocked, sktHandle, connected, aborted, inUse, list, lock, lost, heard>>
<1> DEFINE s == target[t]
<1>1. pc[t] = "close" /\ s \in Skts
  BY DEF CloseSkt, At, TypeOK, ClosePcs
<1>2. /\ fromRx' = [fromRx EXCEPT ![s] = @ \/ t = s]
      /\ reason' = [reason EXCEPT ![s] = "Closing"]
      /\ byOther' = [byOther EXCEPT ![s] = @ \/ t # s]
      /\ Step(t, "notify")
      /\ UNCHANGED <<sktHandle, connected, aborted, inUse, list, lock, lost, heard>>
  BY DEF CloseSkt
<1>3. fromRx' \in [Skts -> BOOLEAN]
  BY <1>1, <1>2, Zenon DEF TypeOK
<1>4. byOther' \in [Skts -> BOOLEAN]
  BY <1>1, <1>2, Zenon DEF TypeOK
<1>5. byOther'[s] = (byOther[s] \/ t # s) /\ \A x \in Skts : x # s => byOther'[x] = byOther[x]
  BY <1>1, <1>2, Zenon DEF TypeOK
<1> QED BY <1>1, <1>2, <1>3, <1>4, <1>5 DEF Step, Goto

(* Where moveToEraseList finds the socket listed. *)
LEMMA MoveEffect ==
    ASSUME TypeOK, NEW t \in Threads, MoveToEraseList(t), list[target[t]] = "listed"
    PROVE  /\ target[t] \in Skts /\ pc[t] = "move"
           /\ list' = [list EXCEPT ![target[t]] = "toDelete"]
           /\ connected' = [connected EXCEPT ![target[t]] = FALSE]
           /\ aborted' = [aborted EXCEPT ![target[t]] = TRUE]
           /\ \/ /\ pc' = [pc EXCEPT ![t] = ret[t]]
                 /\ target' = [target EXCEPT ![t] = NoSkt]
                 /\ ret' = [ret EXCEPT ![t] = "idle"]
              \/ pc' = [pc EXCEPT ![t] = "kill"] /\ UNCHANGED <<target, ret>>
           /\ UNCHANGED <<sktHandle, reason, fromRx, inUse, lost, heard, byOther>>
<1>1. pc[t] = "move" /\ target[t] \in Skts
  BY DEF MoveToEraseList, At, TypeOK, ClosePcs
<1>2. Return(t) \/ Step(t, "kill")
  BY DEF MoveToEraseList
<1> QED BY <1>1, <1>2 DEF MoveToEraseList, history, Return, Call, Step, Goto

(* A thread inside closeSkt, or about to return, keeps where its rx thread *)
(* goes on.                                                                *)
LEMMA RxAtKept ==
    ASSUME TypeOK, ReturnInv, NEW t \in Threads, pc[t] \in ClosePcs,
           Return(t) \/ (\E next \in ClosePcs : Step(t, next))
    PROVE  \A x \in Skts : RxAt(x)' = RxAt(x) /\ (pc[x] = "none" <=> pc'[x] = "none")
<1> USE ThreadsAssumption DEF Threads, ClosePcs, Goto
<1>1. CASE Return(t)
  BY <1>1 DEF Return, Call, RxAt, TypeOK, ReturnInv
<1>2. ASSUME NEW next \in ClosePcs, Step(t, next)
      PROVE  \A x \in Skts : RxAt(x)' = RxAt(x) /\ (pc[x] = "none" <=> pc'[x] = "none")
  BY <1>2 DEF Step, RxAt, TypeOK, ReturnInv
<1> QED BY <1>1, <1>2

(* Where closeSkt returns at once. *)
LEMMA CloseReturns ==
    ASSUME TypeOK, NEW t \in Threads, CloseSkt(t),
           sktHandle[target[t]] # "open" \/ IsInEraseList(target[t])
    PROVE  /\ target[t] \in Skts /\ pc[t] = "close"
           /\ pc' = [pc EXCEPT ![t] = ret[t]]
           /\ target' = [target EXCEPT ![t] = NoSkt]
           /\ ret' = [ret EXCEPT ![t] = "idle"]
           /\ UNCHANGED <<sktVars, list, lock, history>>
<1>1. pc[t] = "close" /\ target[t] \in Skts
  BY DEF CloseSkt, At, TypeOK, ClosePcs
<1> QED BY <1>1 DEF CloseSkt, Return, Call, Goto, sktVars, history

(* Every step keeps where the threads stand and go on. *)
LEMMA ThreadStep ==
    ASSUME TypeOK, ReturnInv, [Next]_vars
    PROVE  ThreadTyped' /\ ReturnInv'
<1> USE ThreadsAssumption, OutgoingAssumption DEF Threads, ClosePcs, At, threadVars, sktVars, history
<1>1. ASSUME NEW s \in Skts, Accept(s) PROVE ThreadTyped' /\ ReturnInv'
  BY <1>1, CallKeeps, ReturnKeeps, StepKeeps DEF Accept, Open, TypeOK, ReturnInv, ThreadTyped, RxPcs, Pcs
<1>2. ASSUME NEW s \in Skts, Connect(s) PROVE ThreadTyped' /\ ReturnInv'
  BY <1>2, CallKeeps, ReturnKeeps, StepKeeps DEF Connect, Open, TypeOK, ReturnInv, ThreadTyped, RxPcs, Pcs
<1>3. ASSUME NEW s \in Skts, AddSkt(s) PROVE ThreadTyped' /\ ReturnInv'
  BY <1>3, CallKeeps, ReturnKeeps, StepKeeps DEF AddSkt, TypeOK, ReturnInv, ThreadTyped, RxPcs, Pcs
<1>4. ASSUME NEW s \in Skts, RxEarlyEnd(s) PROVE ThreadTyped' /\ ReturnInv'
  BY <1>4, CallKeeps, ReturnKeeps, StepKeeps DEF RxEarlyEnd, TypeOK, ReturnInv, ThreadTyped, RxPcs, Pcs
<1>5. ASSUME NEW s \in Skts, RxStart(s) PROVE ThreadTyped' /\ ReturnInv'
  BY <1>5, CallKeeps, ReturnKeeps, StepKeeps DEF RxStart, TypeOK, ReturnInv, ThreadTyped, RxPcs, Pcs
<1>6. ASSUME NEW s \in Skts, RxReady(s) PROVE ThreadTyped' /\ ReturnInv'
  BY <1>6, CallKeeps, ReturnKeeps, StepKeeps DEF RxReady, TypeOK, ReturnInv, ThreadTyped, RxPcs, Pcs
<1>7. ASSUME NEW s \in Skts, RxLoop(s) PROVE ThreadTyped' /\ ReturnInv'
  BY <1>7, CallKeeps, ReturnKeeps, StepKeeps DEF RxLoop, IsConnected, TypeOK, ReturnInv, ThreadTyped, RxPcs, Pcs
<1>8. ASSUME NEW s \in Skts, RecvClosed(s) PROVE ThreadTyped' /\ ReturnInv'
  BY <1>8, CallKeeps, ReturnKeeps, StepKeeps DEF RecvClosed, TypeOK, ReturnInv, ThreadTyped, RxPcs, Pcs
<1>9. ASSUME NEW s \in Skts, RecvData(s) PROVE ThreadTyped' /\ ReturnInv'
  BY <1>9, CallKeeps, ReturnKeeps, StepKeeps DEF RecvData, TypeOK, ReturnInv, ThreadTyped, RxPcs, Pcs
<1>10. ASSUME NEW s \in Skts, RecvFails(s) PROVE ThreadTyped' /\ ReturnInv'
  BY <1>10, CallKeeps, ReturnKeeps, StepKeeps DEF RecvFails, TypeOK, ReturnInv, ThreadTyped, RxPcs, Pcs
<1>11. ASSUME NEW s \in Skts, RxData(s) PROVE ThreadTyped' /\ ReturnInv'
  <2>1. CASE Step(s, "loop")
    BY <1>11, <2>1, StepKeeps DEF RxData, TypeOK, ThreadTyped, RxPcs, Pcs
  <2>2. ASSUME NEW x \in Victims(s), NEW p \in LockParams, Call(s, "close", x, "loop", p) PROVE ThreadTyped' /\ ReturnInv'
    <3>1. x \in Skts BY <2>2 DEF Victims
    <3>3. p \in BOOLEAN BY <2>2 DEF LockParams
    <3>4. ThreadTyped /\ pc[s] = "data" /\ lock \in Threads \union {Free} BY <1>11 DEF RxData, TypeOK, ThreadTyped
    <3>5. lock' = lock BY <1>11 DEF RxData
    <3>6. s \in Threads /\ s \notin Others /\ "close" \in ClosePcs /\ "loop" \in Pcs
      BY DEF RxPcs, Pcs
    <3> QED BY <2>2, <3>1, <3>3, <3>4, <3>5, <3>6, CallKeeps
  <2> QED BY <1>11, <2>1, <2>2 DEF RxData
<1>12. ASSUME NEW s \in Skts, RxExit(s) PROVE ThreadTyped' /\ ReturnInv'
  BY <1>12, CallKeeps, ReturnKeeps, StepKeeps DEF RxExit, TypeOK, ReturnInv, ThreadTyped, RxPcs, Pcs
<1>13. ASSUME NEW s \in Skts, RxSetClosed(s) PROVE ThreadTyped' /\ ReturnInv'
  BY <1>13, CallKeeps, ReturnKeeps, StepKeeps DEF RxSetClosed, TypeOK, ReturnInv, ThreadTyped, RxPcs, Pcs
<1>14. ASSUME NEW s \in Skts, RxLost(s) PROVE ThreadTyped' /\ ReturnInv'
  BY <1>14, CallKeeps, ReturnKeeps, StepKeeps DEF RxLost, Callback, Min2, TypeOK, ReturnInv, ThreadTyped, RxPcs, Pcs
<1>15. ASSUME NEW s \in Skts, RxShut(s) PROVE ThreadTyped' /\ ReturnInv'
  <2>1. CASE sktHandle[s] = "open"
    BY <1>15, <2>1, CallKeeps, ReturnKeeps, StepKeeps DEF RxShut, TypeOK, ReturnInv, ThreadTyped, RxPcs, Pcs
  <2>2. CASE sktHandle[s] # "open"
    BY <1>15, <2>2, CallKeeps, ReturnKeeps, StepKeeps DEF RxShut, TypeOK, ReturnInv, ThreadTyped, RxPcs, Pcs
  <2> QED BY <1>15, <2>1, <2>2 DEF RxShut
<1>16. ASSUME NEW s \in Skts, RxEvent(s) PROVE ThreadTyped' /\ ReturnInv'
  <2>1. CASE IsInEraseList(s)
    BY <1>16, <2>1, CallKeeps, ReturnKeeps, StepKeeps DEF RxEvent, IsInEraseList, TypeOK, ReturnInv, ThreadTyped, RxPcs, Pcs
  <2>2. CASE ~IsInEraseList(s)
    BY <1>16, <2>2, CallKeeps, ReturnKeeps, StepKeeps DEF RxEvent, IsInEraseList, TypeOK, ReturnInv, ThreadTyped, RxPcs, Pcs
  <2> QED BY <1>16, <2>1, <2>2 DEF RxEvent, IsInEraseList
<1>17. ASSUME NEW s \in Skts, RxCleanup(s) PROVE ThreadTyped' /\ ReturnInv'
  BY <1>17, CallKeeps, ReturnKeeps, StepKeeps DEF RxCleanup, DoSktDeleteCleanup, TypeOK, ReturnInv, ThreadTyped, RxPcs, Pcs
<1>18. ASSUME NEW s \in Skts, RxDone(s) PROVE ThreadTyped' /\ ReturnInv'
  BY <1>18, CallKeeps, ReturnKeeps, StepKeeps DEF RxDone, TypeOK, ReturnInv, ThreadTyped, RxPcs, Pcs
<1>19. ASSUME NEW s \in Skts, RxEnd(s) PROVE ThreadTyped' /\ ReturnInv'
  BY <1>19, CallKeeps, ReturnKeeps, StepKeeps DEF RxEnd, TypeOK, ReturnInv, ThreadTyped, RxPcs, Pcs
<1>20. ASSUME NEW t \in Others, NEW s \in Skts, OtherClose(t, s) PROVE ThreadTyped' /\ ReturnInv'
  <2>1. PICK p \in LockParams : Call(t, "close", s, "idle", p) BY <1>20 DEF OtherClose
  <2>2. p \in BOOLEAN BY DEF LockParams
  <2>4. lock' = lock BY <1>20 DEF OtherClose
  <2>5. lock \in Threads \union {Free} BY Zenon DEF TypeOK
  <2>3. lock' \in Threads \union {Free} BY <2>4, <2>5, Zenon
  <2>6. ThreadTyped BY DEF TypeOK, ThreadTyped
  <2>7. t \in Threads /\ t \notin Skts /\ "close" \in ClosePcs /\ "idle" \in Pcs
    BY DEF Pcs
  <2> QED BY <2>1, <2>2, <2>3, <2>6, <2>7, CallKeeps
<1>21. ASSUME NEW t \in Others, OtherCleanup(t) PROVE ThreadTyped' /\ ReturnInv'
  BY <1>21, CallKeeps, ReturnKeeps, StepKeeps DEF OtherCleanup, DoSktDeleteCleanup, TypeOK, ReturnInv, ThreadTyped, RxPcs, Pcs
<1>22. ASSUME NEW t \in Threads, CloseSkt(t) PROVE ThreadTyped' /\ ReturnInv'
  <2>1. target[t] \in Skts
    BY <1>22 DEF CloseSkt, TypeOK
  <2>2. CASE sktHandle[target[t]] # "open" \/ IsInEraseList(target[t])
    BY <1>22, <2>1, <2>2, CallKeeps, ReturnKeeps, StepKeeps DEF CloseSkt, IsInEraseList, TypeOK, ReturnInv, ThreadTyped, RxPcs, Pcs
  <2>3. CASE ~(sktHandle[target[t]] # "open" \/ IsInEraseList(target[t]))
    BY <1>22, <2>1, <2>3, CallKeeps, ReturnKeeps, StepKeeps DEF CloseSkt, IsInEraseList, TypeOK, ReturnInv, ThreadTyped, RxPcs, Pcs
  <2> QED BY <1>22, <2>2, <2>3 DEF CloseSkt, IsInEraseList
<1>23. ASSUME NEW t \in Threads, CloseCallback(t) PROVE ThreadTyped' /\ ReturnInv'
  <2>1. target[t] \in Skts
    BY <1>23 DEF CloseCallback, TypeOK
  <2> QED BY <1>23, <2>1, CallKeeps, ReturnKeeps, StepKeeps DEF CloseCallback, Callback, Min2, TypeOK, ReturnInv, ThreadTyped, RxPcs, Pcs
<1>24. ASSUME NEW t \in Threads, CloseHandle(t) PROVE ThreadTyped' /\ ReturnInv'
  <2>1. target[t] \in Skts
    BY <1>24 DEF CloseHandle, TypeOK
  <2> QED BY <1>24, <2>1, CallKeeps, ReturnKeeps, StepKeeps DEF CloseHandle, TypeOK, ReturnInv, ThreadTyped, RxPcs, Pcs
<1>25. ASSUME NEW t \in Threads, CloseAbort(t) PROVE ThreadTyped' /\ ReturnInv'
  <2>1. target[t] \in Skts
    BY <1>25 DEF CloseAbort, TypeOK
  <2>2. CASE IsInEraseList(target[t])
    BY <1>25, <2>1, <2>2, CallKeeps, ReturnKeeps, StepKeeps DEF CloseAbort, IsInEraseList, TypeOK, ReturnInv, ThreadTyped, RxPcs, Pcs
  <2>3. CASE ~IsInEraseList(target[t])
    BY <1>25, <2>1, <2>3, CallKeeps, ReturnKeeps, StepKeeps DEF CloseAbort, IsInEraseList, TypeOK, ReturnInv, ThreadTyped, RxPcs, Pcs
  <2> QED BY <1>25, <2>2, <2>3 DEF CloseAbort, IsInEraseList
<1>26. ASSUME NEW t \in Threads, LockMgr(t) PROVE ThreadTyped' /\ ReturnInv'
  <2>1. target[t] \in Skts
    BY <1>26 DEF LockMgr, TypeOK
  <2> QED BY <1>26, <2>1, CallKeeps, ReturnKeeps, StepKeeps DEF LockMgr, TypeOK, ReturnInv, ThreadTyped, RxPcs, Pcs
<1>27. ASSUME NEW t \in Threads, MoveToEraseList(t) PROVE ThreadTyped' /\ ReturnInv'
  <2>1. ThreadTyped /\ At(t, "move") /\ target[t] \in Skts /\ pc[t] \in ClosePcs
    BY <1>27 DEF MoveToEraseList, TypeOK, ThreadTyped
  <2>2. lock' \in Threads \union {Free}
    BY <1>27 DEF MoveToEraseList, UnlockMgr, TypeOK
  <2>3. Return(t) \/ Step(t, "kill")
    BY <1>27 DEF MoveToEraseList
  <2>4. CASE Return(t)
    BY <2>1, <2>2, <2>4, ReturnKeeps
  <2>5. CASE Step(t, "kill")
    BY <2>1, <2>2, <2>5, StepKeeps DEF Pcs
  <2> QED BY <2>3, <2>4, <2>5
<1>28. ASSUME NEW t \in Threads, KillThread(t) PROVE ThreadTyped' /\ ReturnInv'
  <2>1. target[t] \in Skts
    BY <1>28 DEF KillThread, TypeOK
  <2> QED BY <1>28, <2>1, CallKeeps, ReturnKeeps, StepKeeps DEF KillThread, UnlockMgr, TypeOK, ReturnInv, ThreadTyped, RxPcs, Pcs
<1>29. CASE UNCHANGED vars
  BY <1>29 DEF vars, TypeOK, ReturnInv, ThreadTyped, RxPcs, Pcs
<1> QED BY <1>1, <1>2, <1>3, <1>4, <1>5, <1>6, <1>7, <1>8, <1>9, <1>10, <1>11, <1>12, <1>13, <1>14, <1>15, <1>16, <1>17, <1>18, <1>19, <1>20, <1>21, <1>22, <1>23, <1>24, <1>25, <1>26, <1>27, <1>28, <1>29 DEF Next, RxStep, CloseStep

(* Every step keeps the fields of the sockets in their types. *)
LEMMA SktStep ==
    ASSUME TypeOK, [Next]_vars
    PROVE  SktTyped'
<1> USE ThreadsAssumption, OutgoingAssumption DEF Threads, ClosePcs, At, Goto, Step, Call, Return, threadVars, sktVars, history
<1>1. ASSUME NEW s \in Skts, Accept(s) PROVE SktTyped'
  BY <1>1 DEF Accept, Open, SktTyped, TypeOK
<1>2. ASSUME NEW s \in Skts, Connect(s) PROVE SktTyped'
  BY <1>2 DEF Connect, Open, SktTyped, TypeOK
<1>3. ASSUME NEW s \in Skts, AddSkt(s) PROVE SktTyped'
  BY <1>3 DEF AddSkt, SktTyped, TypeOK
<1>4. ASSUME NEW s \in Skts, RxEarlyEnd(s) PROVE SktTyped'
  BY <1>4 DEF RxEarlyEnd, SktTyped, TypeOK
<1>5. ASSUME NEW s \in Skts, RxStart(s) PROVE SktTyped'
  BY <1>5 DEF RxStart, SktTyped, TypeOK
<1>6. ASSUME NEW s \in Skts, RxReady(s) PROVE SktTyped'
  BY <1>6 DEF RxReady, SktTyped, TypeOK
<1>7. ASSUME NEW s \in Skts, RxLoop(s) PROVE SktTyped'
  BY <1>7 DEF RxLoop, IsConnected, SktTyped, TypeOK
<1>8. ASSUME NEW s \in Skts, RecvClosed(s) PROVE SktTyped'
  BY <1>8 DEF RecvClosed, SktTyped, TypeOK
<1>9. ASSUME NEW s \in Skts, RecvData(s) PROVE SktTyped'
  BY <1>9 DEF RecvData, SktTyped, TypeOK
<1>10. ASSUME NEW s \in Skts, RecvFails(s) PROVE SktTyped'
  BY <1>10 DEF RecvFails, SktTyped, TypeOK
<1>11. ASSUME NEW s \in Skts, RxData(s) PROVE SktTyped'
  <2>1. CASE Step(s, "loop")
    BY <1>11, <2>1 DEF RxData, Victims, SktTyped, TypeOK
  <2>2. ASSUME NEW x \in Victims(s), NEW p \in LockParams, Call(s, "close", x, "loop", p) PROVE SktTyped'
    BY <1>11, <2>2 DEF RxData, Victims, SktTyped, TypeOK
  <2> QED BY <1>11, <2>1, <2>2 DEF RxData, Victims
<1>12. ASSUME NEW s \in Skts, RxExit(s) PROVE SktTyped'
  BY <1>12 DEF RxExit, SktTyped, TypeOK
<1>13. ASSUME NEW s \in Skts, RxSetClosed(s) PROVE SktTyped'
  BY <1>13 DEF RxSetClosed, SktTyped, TypeOK
<1>14. ASSUME NEW s \in Skts, RxLost(s) PROVE SktTyped'
  BY <1>14 DEF RxLost, Callback, Min2, SktTyped, TypeOK
<1>15. ASSUME NEW s \in Skts, RxShut(s) PROVE SktTyped'
  <2>1. CASE sktHandle[s] = "open"
    BY <1>15, <2>1 DEF RxShut, SktTyped, TypeOK
  <2>2. CASE sktHandle[s] # "open"
    BY <1>15, <2>2 DEF RxShut, SktTyped, TypeOK
  <2> QED BY <1>15, <2>1, <2>2 DEF RxShut
<1>16. ASSUME NEW s \in Skts, RxEvent(s) PROVE SktTyped'
  <2>1. CASE IsInEraseList(s)
    BY <1>16, <2>1 DEF RxEvent, IsInEraseList, SktTyped, TypeOK
  <2>2. CASE ~IsInEraseList(s)
    BY <1>16, <2>2 DEF RxEvent, IsInEraseList, SktTyped, TypeOK
  <2> QED BY <1>16, <2>1, <2>2 DEF RxEvent, IsInEraseList
<1>17. ASSUME NEW s \in Skts, RxCleanup(s) PROVE SktTyped'
  BY <1>17 DEF RxCleanup, DoSktDeleteCleanup, SktTyped, TypeOK
<1>18. ASSUME NEW s \in Skts, RxDone(s) PROVE SktTyped'
  BY <1>18 DEF RxDone, SktTyped, TypeOK
<1>19. ASSUME NEW s \in Skts, RxEnd(s) PROVE SktTyped'
  BY <1>19 DEF RxEnd, SktTyped, TypeOK
<1>20. ASSUME NEW t \in Others, NEW s \in Skts, OtherClose(t, s) PROVE SktTyped'
  BY <1>20 DEF OtherClose, LockParams, SktTyped, TypeOK
<1>21. ASSUME NEW t \in Others, OtherCleanup(t) PROVE SktTyped'
  BY <1>21 DEF OtherCleanup, DoSktDeleteCleanup, SktTyped, TypeOK
<1>22. ASSUME NEW t \in Threads, CloseSkt(t) PROVE SktTyped'
  <2>1. CASE sktHandle[target[t]] # "open" \/ IsInEraseList(target[t])
    <3>1. /\ target[t] \in Skts /\ pc[t] = "close"
          /\ pc' = [pc EXCEPT ![t] = ret[t]]
          /\ target' = [target EXCEPT ![t] = NoSkt]
          /\ ret' = [ret EXCEPT ![t] = "idle"]
          /\ UNCHANGED <<sktVars, list, lock, history>>
      BY <1>22, <2>1, CloseReturns
    <3> QED BY <3>1 DEF SktTyped, TypeOK
  <2>2. CASE ~(sktHandle[target[t]] # "open" \/ IsInEraseList(target[t]))
    <3>1. /\ target[t] \in Skts /\ pc[t] = "close"
          /\ pc' = [pc EXCEPT ![t] = "notify"]
          /\ reason' = [reason EXCEPT ![target[t]] = "Closing"]
          /\ fromRx' \in [Skts -> BOOLEAN]
          /\ byOther' \in [Skts -> BOOLEAN]
          /\ \A x \in Skts : byOther[x] => byOther'[x]
          /\ t # target[t] => byOther'[target[t]]
          /\ UNCHANGED <<target, ret, mgrLocked, sktHandle, connected, aborted, inUse, list, lock, lost, heard>>
      BY <1>22, <2>2, CloseBegins
    <3> QED BY <3>1 DEF SktTyped, TypeOK
  <2> QED BY <2>1, <2>2
<1>23. ASSUME NEW t \in Threads, CloseCallback(t) PROVE SktTyped'
  <2>1. target[t] \in Skts
    BY <1>23 DEF CloseCallback, TypeOK
  <2> QED BY <1>23, <2>1 DEF CloseCallback, Callback, Min2, SktTyped, TypeOK
<1>24. ASSUME NEW t \in Threads, CloseHandle(t) PROVE SktTyped'
  <2>1. target[t] \in Skts
    BY <1>24 DEF CloseHandle, TypeOK
  <2> QED BY <1>24, <2>1 DEF CloseHandle, SktTyped, TypeOK
<1>25. ASSUME NEW t \in Threads, CloseAbort(t) PROVE SktTyped'
  <2>1. target[t] \in Skts
    BY <1>25 DEF CloseAbort, TypeOK
  <2>2. CASE IsInEraseList(target[t])
    BY <1>25, <2>1, <2>2 DEF CloseAbort, IsInEraseList, SktTyped, TypeOK
  <2>3. CASE ~IsInEraseList(target[t])
    BY <1>25, <2>1, <2>3 DEF CloseAbort, IsInEraseList, SktTyped, TypeOK
  <2> QED BY <1>25, <2>2, <2>3 DEF CloseAbort, IsInEraseList
<1>26. ASSUME NEW t \in Threads, LockMgr(t) PROVE SktTyped'
  <2>1. target[t] \in Skts
    BY <1>26 DEF LockMgr, TypeOK
  <2> QED BY <1>26, <2>1 DEF LockMgr, SktTyped, TypeOK
<1>27. ASSUME NEW t \in Threads, MoveToEraseList(t) PROVE SktTyped'
  <2>1. CASE list[target[t]] # "listed"
    BY <1>27, <2>1 DEF MoveToEraseList, SktTyped, TypeOK
  <2>2. CASE list[target[t]] = "listed"
    <3>1. /\ target[t] \in Skts /\ pc[t] = "move"
          /\ list' = [list EXCEPT ![target[t]] = "toDelete"]
          /\ connected' = [connected EXCEPT ![target[t]] = FALSE]
          /\ aborted' = [aborted EXCEPT ![target[t]] = TRUE]
          /\ \/ /\ pc' = [pc EXCEPT ![t] = ret[t]]
                /\ target' = [target EXCEPT ![t] = NoSkt]
                /\ ret' = [ret EXCEPT ![t] = "idle"]
             \/ pc' = [pc EXCEPT ![t] = "kill"] /\ UNCHANGED <<target, ret>>
          /\ UNCHANGED <<sktHandle, reason, fromRx, inUse, lost, heard, byOther>>
      BY <1>27, <2>2, MoveEffect, SMTT(30)
    <3> QED BY <2>2, <3>1 DEF SktTyped, TypeOK
  <2> QED BY <2>1, <2>2
<1>28. ASSUME NEW t \in Threads, KillThread(t) PROVE SktTyped'
  <2>1. target[t] \in Skts
    BY <1>28 DEF KillThread, TypeOK
  <2> QED BY <1>28, <2>1 DEF KillThread, UnlockMgr, SktTyped, TypeOK
<1>29. CASE UNCHANGED vars
  BY <1>29 DEF vars, SktTyped, TypeOK
<1> QED BY <1>1, <1>2, <1>3, <1>4, <1>5, <1>6, <1>7, <1>8, <1>9, <1>10, <1>11, <1>12, <1>13, <1>14, <1>15, <1>16, <1>17, <1>18, <1>19, <1>20, <1>21, <1>22, <1>23, <1>24, <1>25, <1>26, <1>27, <1>28, <1>29 DEF Next, RxStep, CloseStep

(* Who gets past the first test of closeSkt for another's socket is noted. *)
LEMMA OtherStep ==
    ASSUME TypeOK, ReturnInv, OtherInv, [Next]_vars
    PROVE  OtherInv'
<1> USE ThreadsAssumption, OutgoingAssumption DEF Threads, ClosePcs, At, Goto, Step, Call, Return, threadVars, sktVars, history
<1>1. ASSUME NEW s \in Skts, Accept(s) PROVE OtherInv'
  BY <1>1 DEF Accept, Open, TypeOK, ReturnInv, OtherInv, RxPcs, Pcs
<1>2. ASSUME NEW s \in Skts, Connect(s) PROVE OtherInv'
  BY <1>2 DEF Connect, Open, TypeOK, ReturnInv, OtherInv, RxPcs, Pcs
<1>3. ASSUME NEW s \in Skts, AddSkt(s) PROVE OtherInv'
  BY <1>3 DEF AddSkt, TypeOK, ReturnInv, OtherInv, RxPcs, Pcs
<1>4. ASSUME NEW s \in Skts, RxEarlyEnd(s) PROVE OtherInv'
  BY <1>4 DEF RxEarlyEnd, TypeOK, ReturnInv, OtherInv, RxPcs, Pcs
<1>5. ASSUME NEW s \in Skts, RxStart(s) PROVE OtherInv'
  BY <1>5 DEF RxStart, TypeOK, ReturnInv, OtherInv, RxPcs, Pcs
<1>6. ASSUME NEW s \in Skts, RxReady(s) PROVE OtherInv'
  BY <1>6 DEF RxReady, TypeOK, ReturnInv, OtherInv, RxPcs, Pcs
<1>7. ASSUME NEW s \in Skts, RxLoop(s) PROVE OtherInv'
  BY <1>7 DEF RxLoop, IsConnected, TypeOK, ReturnInv, OtherInv, RxPcs, Pcs
<1>8. ASSUME NEW s \in Skts, RecvClosed(s) PROVE OtherInv'
  BY <1>8 DEF RecvClosed, TypeOK, ReturnInv, OtherInv, RxPcs, Pcs
<1>9. ASSUME NEW s \in Skts, RecvData(s) PROVE OtherInv'
  BY <1>9 DEF RecvData, TypeOK, ReturnInv, OtherInv, RxPcs, Pcs
<1>10. ASSUME NEW s \in Skts, RecvFails(s) PROVE OtherInv'
  BY <1>10 DEF RecvFails, TypeOK, ReturnInv, OtherInv, RxPcs, Pcs
<1>11. ASSUME NEW s \in Skts, RxData(s) PROVE OtherInv'
  <2>1. CASE Step(s, "loop")
    BY <1>11, <2>1 DEF RxData, Victims, TypeOK, ReturnInv, OtherInv, RxPcs, Pcs
  <2>2. ASSUME NEW x \in Victims(s), NEW p \in LockParams, Call(s, "close", x, "loop", p) PROVE OtherInv'
    BY <1>11, <2>2 DEF RxData, Victims, TypeOK, ReturnInv, OtherInv, RxPcs, Pcs
  <2> QED BY <1>11, <2>1, <2>2 DEF RxData, Victims
<1>12. ASSUME NEW s \in Skts, RxExit(s) PROVE OtherInv'
  BY <1>12 DEF RxExit, TypeOK, ReturnInv, OtherInv, RxPcs, Pcs
<1>13. ASSUME NEW s \in Skts, RxSetClosed(s) PROVE OtherInv'
  BY <1>13 DEF RxSetClosed, TypeOK, ReturnInv, OtherInv, RxPcs, Pcs
<1>14. ASSUME NEW s \in Skts, RxLost(s) PROVE OtherInv'
  BY <1>14 DEF RxLost, Callback, Min2, TypeOK, ReturnInv, OtherInv, RxPcs, Pcs
<1>15. ASSUME NEW s \in Skts, RxShut(s) PROVE OtherInv'
  <2>1. CASE sktHandle[s] = "open"
    BY <1>15, <2>1, SMTT(20) DEF RxShut, TypeOK, ReturnInv, OtherInv, RxPcs, Pcs
  <2>2. CASE sktHandle[s] # "open"
    BY <1>15, <2>2 DEF RxShut, TypeOK, ReturnInv, OtherInv, RxPcs, Pcs
  <2> QED BY <1>15, <2>1, <2>2 DEF RxShut
<1>16. ASSUME NEW s \in Skts, RxEvent(s) PROVE OtherInv'
  <2>1. CASE IsInEraseList(s)
    BY <1>16, <2>1 DEF RxEvent, IsInEraseList, TypeOK, ReturnInv, OtherInv, RxPcs, Pcs
  <2>2. CASE ~IsInEraseList(s)
    BY <1>16, <2>2 DEF RxEvent, IsInEraseList, TypeOK, ReturnInv, OtherInv, RxPcs, Pcs
  <2> QED BY <1>16, <2>1, <2>2 DEF RxEvent, IsInEraseList
<1>17. ASSUME NEW s \in Skts, RxCleanup(s) PROVE OtherInv'
  BY <1>17 DEF RxCleanup, DoSktDeleteCleanup, TypeOK, ReturnInv, OtherInv, RxPcs, Pcs
<1>18. ASSUME NEW s \in Skts, RxDone(s) PROVE OtherInv'
  BY <1>18 DEF RxDone, TypeOK, ReturnInv, OtherInv, RxPcs, Pcs
<1>19. ASSUME NEW s \in Skts, RxEnd(s) PROVE OtherInv'
  BY <1>19 DEF RxEnd, TypeOK, ReturnInv, OtherInv, RxPcs, Pcs
<1>20. ASSUME NEW t \in Others, NEW s \in Skts, OtherClose(t, s) PROVE OtherInv'
  BY <1>20 DEF OtherClose, LockParams, TypeOK, ReturnInv, OtherInv, RxPcs, Pcs
<1>21. ASSUME NEW t \in Others, OtherCleanup(t) PROVE OtherInv'
  BY <1>21 DEF OtherCleanup, DoSktDeleteCleanup, TypeOK, ReturnInv, OtherInv, RxPcs, Pcs
<1>22. ASSUME NEW t \in Threads, CloseSkt(t) PROVE OtherInv'
  <2>1. CASE sktHandle[target[t]] # "open" \/ IsInEraseList(target[t])
    <3>1. /\ target[t] \in Skts /\ pc[t] = "close"
          /\ pc' = [pc EXCEPT ![t] = ret[t]]
          /\ target' = [target EXCEPT ![t] = NoSkt]
          /\ ret' = [ret EXCEPT ![t] = "idle"]
          /\ UNCHANGED <<sktVars, list, lock, history>>
      BY <1>22, <2>1, CloseReturns
    <3> QED BY <3>1 DEF TypeOK, ReturnInv, OtherInv, RxPcs, Pcs
  <2>2. CASE ~(sktHandle[target[t]] # "open" \/ IsInEraseList(target[t]))
    <3>1. /\ target[t] \in Skts /\ pc[t] = "close"
          /\ pc' = [pc EXCEPT ![t] = "notify"]
          /\ reason' = [reason EXCEPT ![target[t]] = "Closing"]
          /\ fromRx' \in [Skts -> BOOLEAN]
          /\ byOther' \in [Skts -> BOOLEAN]
          /\ \A x \in Skts : byOther[x] => byOther'[x]
          /\ t # target[t] => byOther'[target[t]]
          /\ UNCHANGED <<target, ret, mgrLocked, sktHandle, connected, aborted, inUse, list, lock, lost, heard>>
      BY <1>22, <2>2, CloseBegins
    <3> QED BY <3>1 DEF TypeOK, ReturnInv, OtherInv, RxPcs, Pcs
  <2> QED BY <2>1, <2>2
<1>23. ASSUME NEW t \in Threads, CloseCallback(t) PROVE OtherInv'
  <2>1. target[t] \in Skts
    BY <1>23 DEF CloseCallback, TypeOK
  <2> QED BY <1>23, <2>1 DEF CloseCallback, Callback, Min2, TypeOK, ReturnInv, OtherInv, RxPcs, Pcs
<1>24. ASSUME NEW t \in Threads, CloseHandle(t) PROVE OtherInv'
  <2>1. target[t] \in Skts
    BY <1>24 DEF CloseHandle, TypeOK
  <2> QED BY <1>24, <2>1 DEF CloseHandle, TypeOK, ReturnInv, OtherInv, RxPcs, Pcs
<1>25. ASSUME NEW t \in Threads, CloseAbort(t) PROVE OtherInv'
  <2>1. target[t] \in Skts
    BY <1>25 DEF CloseAbort, TypeOK
  <2>2. CASE IsInEraseList(target[t])
    BY <1>25, <2>1, <2>2, SMTT(20) DEF CloseAbort, IsInEraseList, TypeOK, ReturnInv, OtherInv, RxPcs, Pcs
  <2>3. CASE ~IsInEraseList(target[t])
    BY <1>25, <2>1, <2>3 DEF CloseAbort, IsInEraseList, TypeOK, ReturnInv, OtherInv, RxPcs, Pcs
  <2> QED BY <1>25, <2>2, <2>3 DEF CloseAbort, IsInEraseList
<1>26. ASSUME NEW t \in Threads, LockMgr(t) PROVE OtherInv'
  <2>1. target[t] \in Skts
    BY <1>26 DEF LockMgr, TypeOK
  <2> QED BY <1>26, <2>1 DEF LockMgr, TypeOK, ReturnInv, OtherInv, RxPcs, Pcs
<1>27. ASSUME NEW t \in Threads, MoveToEraseList(t) PROVE OtherInv'
  <2>1. target[t] \in Skts
    BY <1>27 DEF MoveToEraseList, TypeOK
  <2>2. CASE list[target[t]] # "listed"
    BY <1>27, <2>1, <2>2, SMTT(20) DEF MoveToEraseList, UnlockMgr, Running, TypeOK, ReturnInv, OtherInv, RxPcs, Pcs
  <2>3. CASE list[target[t]] = "listed" /\ (fromRx[target[t]] \/ ~Running(target[t]))
    BY <1>27, <2>1, <2>3 DEF MoveToEraseList, UnlockMgr, Running, TypeOK, ReturnInv, OtherInv, RxPcs, Pcs
  <2>4. CASE list[target[t]] = "listed" /\ ~(fromRx[target[t]] \/ ~Running(target[t]))
    BY <1>27, <2>1, <2>4 DEF MoveToEraseList, UnlockMgr, Running, TypeOK, ReturnInv, OtherInv, RxPcs, Pcs
  <2> QED BY <1>27, <2>2, <2>3, <2>4 DEF MoveToEraseList, UnlockMgr, Running
<1>28. ASSUME NEW t \in Threads, KillThread(t) PROVE OtherInv'
  <2>1. target[t] \in Skts
    BY <1>28 DEF KillThread, TypeOK
  <2> QED BY <1>28, <2>1 DEF KillThread, UnlockMgr, TypeOK, ReturnInv, OtherInv, RxPcs, Pcs
<1>29. CASE UNCHANGED vars
  BY <1>29 DEF vars, TypeOK, ReturnInv, OtherInv, RxPcs, Pcs
<1> QED BY <1>1, <1>2, <1>3, <1>4, <1>5, <1>6, <1>7, <1>8, <1>9, <1>10, <1>11, <1>12, <1>13, <1>14, <1>15, <1>16, <1>17, <1>18, <1>19, <1>20, <1>21, <1>22, <1>23, <1>24, <1>25, <1>26, <1>27, <1>28, <1>29 DEF Next, RxStep, CloseStep

(* What is listed, or being closed, stays begun. *)
LEMMA ListedStep ==
    ASSUME TypeOK, ReturnInv, ListedInv, HandleInv, [Next]_vars
    PROVE  ListedInv'
<1> USE ThreadsAssumption, OutgoingAssumption DEF Threads, ClosePcs, At, Goto, Step, Call, Return, threadVars, sktVars, history
<1>1. ASSUME NEW s \in Skts, Accept(s) PROVE ListedInv'
  BY <1>1 DEF Accept, Open, TypeOK, ReturnInv, ListedInv, RxPcs, Pcs
<1>2. ASSUME NEW s \in Skts, Connect(s) PROVE ListedInv'
  BY <1>2 DEF Connect, Open, TypeOK, ReturnInv, ListedInv, RxPcs, Pcs
<1>3. ASSUME NEW s \in Skts, AddSkt(s) PROVE ListedInv'
  BY <1>3 DEF AddSkt, TypeOK, ReturnInv, ListedInv, RxPcs, Pcs
<1>4. ASSUME NEW s \in Skts, RxEarlyEnd(s) PROVE ListedInv'
  BY <1>4 DEF RxEarlyEnd, TypeOK, ReturnInv, ListedInv, RxPcs, Pcs
<1>5. ASSUME NEW s \in Skts, RxStart(s) PROVE ListedInv'
  BY <1>5 DEF RxStart, TypeOK, ReturnInv, ListedInv, RxPcs, Pcs
<1>6. ASSUME NEW s \in Skts, RxReady(s) PROVE ListedInv'
  BY <1>6 DEF RxReady, TypeOK, ReturnInv, ListedInv, RxPcs, Pcs
<1>7. ASSUME NEW s \in Skts, RxLoop(s) PROVE ListedInv'
  BY <1>7 DEF RxLoop, IsConnected, TypeOK, ReturnInv, ListedInv, RxPcs, Pcs
<1>8. ASSUME NEW s \in Skts, RecvClosed(s) PROVE ListedInv'
  BY <1>8 DEF RecvClosed, TypeOK, ReturnInv, ListedInv, RxPcs, Pcs
<1>9. ASSUME NEW s \in Skts, RecvData(s) PROVE ListedInv'
  BY <1>9 DEF RecvData, TypeOK, ReturnInv, ListedInv, RxPcs, Pcs
<1>10. ASSUME NEW s \in Skts, RecvFails(s) PROVE ListedInv'
  BY <1>10 DEF RecvFails, TypeOK, ReturnInv, ListedInv, RxPcs, Pcs
<1>11. ASSUME NEW s \in Skts, RxData(s) PROVE ListedInv'
  <2>1. CASE Step(s, "loop")
    BY <1>11, <2>1 DEF RxData, Victims, TypeOK, ReturnInv, ListedInv, RxPcs, Pcs
  <2>2. ASSUME NEW x \in Victims(s), NEW p \in LockParams, Call(s, "close", x, "loop", p) PROVE ListedInv'
    BY <1>11, <2>2 DEF RxData, Victims, TypeOK, ReturnInv, ListedInv, RxPcs, Pcs
  <2> QED BY <1>11, <2>1, <2>2 DEF RxData, Victims
<1>12. ASSUME NEW s \in Skts, RxExit(s) PROVE ListedInv'
  BY <1>12 DEF RxExit, TypeOK, ReturnInv, ListedInv, RxPcs, Pcs
<1>13. ASSUME NEW s \in Skts, RxSetClosed(s) PROVE ListedInv'
  BY <1>13 DEF RxSetClosed, TypeOK, ReturnInv, ListedInv, RxPcs, Pcs
<1>14. ASSUME NEW s \in Skts, RxLost(s) PROVE ListedInv'
  BY <1>14 DEF RxLost, Callback, Min2, TypeOK, ReturnInv, ListedInv, RxPcs, Pcs
<1>15. ASSUME NEW s \in Skts, RxShut(s) PROVE ListedInv'
  <2>1. CASE sktHandle[s] = "open"
    BY <1>15, <2>1 DEF RxShut, TypeOK, ReturnInv, ListedInv, RxPcs, Pcs
  <2>2. CASE sktHandle[s] # "open"
    BY <1>15, <2>2 DEF RxShut, TypeOK, ReturnInv, ListedInv, RxPcs, Pcs
  <2> QED BY <1>15, <2>1, <2>2 DEF RxShut
<1>16. ASSUME NEW s \in Skts, RxEvent(s) PROVE ListedInv'
  <2>1. CASE IsInEraseList(s)
    BY <1>16, <2>1 DEF RxEvent, IsInEraseList, TypeOK, ReturnInv, ListedInv, RxPcs, Pcs
  <2>2. CASE ~IsInEraseList(s)
    BY <1>16, <2>2 DEF RxEvent, IsInEraseList, TypeOK, ReturnInv, ListedInv, RxPcs, Pcs
  <2> QED BY <1>16, <2>1, <2>2 DEF RxEvent, IsInEraseList
<1>17. ASSUME NEW s \in Skts, RxCleanup(s) PROVE ListedInv'
  BY <1>17 DEF RxCleanup, DoSktDeleteCleanup, TypeOK, ReturnInv, ListedInv, RxPcs, Pcs
<1>18. ASSUME NEW s \in Skts, RxDone(s) PROVE ListedInv'
  BY <1>18 DEF RxDone, TypeOK, ReturnInv, ListedInv, RxPcs, Pcs
<1>19. ASSUME NEW s \in Skts, RxEnd(s) PROVE ListedInv'
  BY <1>19 DEF RxEnd, TypeOK, ReturnInv, ListedInv, RxPcs, Pcs
<1>20. ASSUME NEW t \in Others, NEW s \in Skts, OtherClose(t, s) PROVE ListedInv'
  BY <1>20 DEF OtherClose, LockParams, TypeOK, ReturnInv, ListedInv, RxPcs, Pcs
<1>21. ASSUME NEW t \in Others, OtherCleanup(t) PROVE ListedInv'
  BY <1>21 DEF OtherCleanup, DoSktDeleteCleanup, TypeOK, ReturnInv, ListedInv, RxPcs, Pcs
<1>22. ASSUME NEW t \in Threads, CloseSkt(t) PROVE ListedInv'
  <2>1. target[t] \in Skts
    BY <1>22 DEF CloseSkt, TypeOK
  <2>2. CASE sktHandle[target[t]] # "open" \/ IsInEraseList(target[t])
    BY <1>22, <2>1, <2>2 DEF CloseSkt, IsInEraseList, TypeOK, ReturnInv, ListedInv, RxPcs, Pcs
  <2>3. CASE ~(sktHandle[target[t]] # "open" \/ IsInEraseList(target[t]))
    BY <1>22, <2>1, <2>3 DEF CloseSkt, IsInEraseList, TypeOK, ReturnInv, ListedInv, RxPcs, Pcs
  <2> QED BY <1>22, <2>2, <2>3 DEF CloseSkt, IsInEraseList
<1>23. ASSUME NEW t \in Threads, CloseCallback(t) PROVE ListedInv'
  <2>1. target[t] \in Skts
    BY <1>23 DEF CloseCallback, TypeOK
  <2> QED BY <1>23, <2>1 DEF CloseCallback, Callback, Min2, TypeOK, ReturnInv, ListedInv, RxPcs, Pcs
<1>24. ASSUME NEW t \in Threads, CloseHandle(t) PROVE ListedInv'
  <2>1. target[t] \in Skts
    BY <1>24 DEF CloseHandle, TypeOK
  <2> QED BY <1>24, <2>1 DEF CloseHandle, TypeOK, ReturnInv, ListedInv, RxPcs, Pcs
<1>25. ASSUME NEW t \in Threads, CloseAbort(t) PROVE ListedInv'
  <2>1. target[t] \in Skts
    BY <1>25 DEF CloseAbort, TypeOK
  <2>2. CASE IsInEraseList(target[t])
    BY <1>25, <2>1, <2>2 DEF CloseAbort, IsInEraseList, TypeOK, ReturnInv, ListedInv, RxPcs, Pcs
  <2>3. CASE ~IsInEraseList(target[t])
    BY <1>25, <2>1, <2>3 DEF CloseAbort, IsInEraseList, TypeOK, ReturnInv, ListedInv, RxPcs, Pcs
  <2> QED BY <1>25, <2>2, <2>3 DEF CloseAbort, IsInEraseList
<1>26. ASSUME NEW t \in Threads, LockMgr(t) PROVE ListedInv'
  <2>1. target[t] \in Skts
    BY <1>26 DEF LockMgr, TypeOK
  <2> QED BY <1>26, <2>1 DEF LockMgr, TypeOK, ReturnInv, ListedInv, RxPcs, Pcs
<1>27. ASSUME NEW t \in Threads, MoveToEraseList(t) PROVE ListedInv'
  <2>1. CASE list[target[t]] # "listed"
    BY <1>27, <2>1 DEF MoveToEraseList, TypeOK, ReturnInv, ListedInv, RxPcs, Pcs
  <2>2. CASE list[target[t]] = "listed"
    <3>1. /\ target[t] \in Skts /\ pc[t] = "move"
          /\ list' = [list EXCEPT ![target[t]] = "toDelete"]
          /\ connected' = [connected EXCEPT ![target[t]] = FALSE]
          /\ aborted' = [aborted EXCEPT ![target[t]] = TRUE]
          /\ \/ /\ pc' = [pc EXCEPT ![t] = ret[t]]
                /\ target' = [target EXCEPT ![t] = NoSkt]
                /\ ret' = [ret EXCEPT ![t] = "idle"]
             \/ pc' = [pc EXCEPT ![t] = "kill"] /\ UNCHANGED <<target, ret>>
          /\ UNCHANGED <<sktHandle, reason, fromRx, inUse, lost, heard, byOther>>
      BY <1>27, <2>2, MoveEffect, SMTT(30)
    <3> QED BY <2>2, <3>1 DEF TypeOK, ReturnInv, ListedInv, RxPcs, Pcs
  <2> QED BY <2>1, <2>2
<1>28. ASSUME NEW t \in Threads, KillThread(t) PROVE ListedInv'
  <2>1. target[t] \in Skts
    BY <1>28 DEF KillThread, TypeOK
  <2> QED BY <1>28, <2>1 DEF KillThread, UnlockMgr, TypeOK, ReturnInv, ListedInv, RxPcs, Pcs
<1>29. CASE UNCHANGED vars
  BY <1>29 DEF vars, TypeOK, ReturnInv, ListedInv, RxPcs, Pcs
<1> QED BY <1>1, <1>2, <1>3, <1>4, <1>5, <1>6, <1>7, <1>8, <1>9, <1>10, <1>11, <1>12, <1>13, <1>14, <1>15, <1>16, <1>17, <1>18, <1>19, <1>20, <1>21, <1>22, <1>23, <1>24, <1>25, <1>26, <1>27, <1>28, <1>29 DEF Next, RxStep, CloseStep

(* Past CloseHandle the handle stays closed. *)
LEMMA CloserStep ==
    ASSUME TypeOK, ReturnInv, ListedInv, HandleInv, [Next]_vars
    PROVE  CloserInv'
<1> USE ThreadsAssumption, OutgoingAssumption DEF Threads, ClosePcs, At, Goto, Step, Call, Return, threadVars, sktVars, history
<1>1. ASSUME NEW s \in Skts, Accept(s) PROVE CloserInv'
  BY <1>1 DEF Accept, Open, TypeOK, ReturnInv, ListedInv, HandleInv, CloserInv, LeavingInv, EraseInv, BeginInv, IsInEraseList, RxPcs, Pcs
<1>2. ASSUME NEW s \in Skts, Connect(s) PROVE CloserInv'
  BY <1>2 DEF Connect, Open, TypeOK, ReturnInv, ListedInv, HandleInv, CloserInv, LeavingInv, EraseInv, BeginInv, IsInEraseList, RxPcs, Pcs
<1>3. ASSUME NEW s \in Skts, AddSkt(s) PROVE CloserInv'
  BY <1>3 DEF AddSkt, TypeOK, ReturnInv, ListedInv, HandleInv, CloserInv, LeavingInv, EraseInv, BeginInv, IsInEraseList, RxPcs, Pcs
<1>4. ASSUME NEW s \in Skts, RxEarlyEnd(s) PROVE CloserInv'
  BY <1>4 DEF RxEarlyEnd, TypeOK, ReturnInv, ListedInv, HandleInv, CloserInv, LeavingInv, EraseInv, BeginInv, IsInEraseList, RxPcs, Pcs
<1>5. ASSUME NEW s \in Skts, RxStart(s) PROVE CloserInv'
  BY <1>5 DEF RxStart, TypeOK, ReturnInv, ListedInv, HandleInv, CloserInv, LeavingInv, EraseInv, BeginInv, IsInEraseList, RxPcs, Pcs
<1>6. ASSUME NEW s \in Skts, RxReady(s) PROVE CloserInv'
  BY <1>6 DEF RxReady, TypeOK, ReturnInv, ListedInv, HandleInv, CloserInv, LeavingInv, EraseInv, BeginInv, IsInEraseList, RxPcs, Pcs
<1>7. ASSUME NEW s \in Skts, RxLoop(s) PROVE CloserInv'
  BY <1>7 DEF RxLoop, IsConnected, TypeOK, ReturnInv, ListedInv, HandleInv, CloserInv, LeavingInv, EraseInv, BeginInv, IsInEraseList, RxPcs, Pcs
<1>8. ASSUME NEW s \in Skts, RecvClosed(s) PROVE CloserInv'
  BY <1>8 DEF RecvClosed, TypeOK, ReturnInv, ListedInv, HandleInv, CloserInv, LeavingInv, EraseInv, BeginInv, IsInEraseList, RxPcs, Pcs
<1>9. ASSUME NEW s \in Skts, RecvData(s) PROVE CloserInv'
  BY <1>9 DEF RecvData, TypeOK, ReturnInv, ListedInv, HandleInv, CloserInv, LeavingInv, EraseInv, BeginInv, IsInEraseList, RxPcs, Pcs
<1>10. ASSUME NEW s \in Skts, RecvFails(s) PROVE CloserInv'
  BY <1>10 DEF RecvFails, TypeOK, ReturnInv, ListedInv, HandleInv, CloserInv, LeavingInv, EraseInv, BeginInv, IsInEraseList, RxPcs, Pcs
<1>11. ASSUME NEW s \in Skts, RxData(s) PROVE CloserInv'
  <2>1. CASE Step(s, "loop")
    BY <1>11, <2>1 DEF RxData, Victims, TypeOK, ReturnInv, ListedInv, HandleInv, CloserInv, LeavingInv, EraseInv, BeginInv, IsInEraseList, RxPcs, Pcs
  <2>2. ASSUME NEW x \in Victims(s), NEW p \in LockParams, Call(s, "close", x, "loop", p) PROVE CloserInv'
    BY <1>11, <2>2 DEF RxData, Victims, TypeOK, ReturnInv, ListedInv, HandleInv, CloserInv, LeavingInv, EraseInv, BeginInv, IsInEraseList, RxPcs, Pcs
  <2> QED BY <1>11, <2>1, <2>2 DEF RxData, Victims
<1>12. ASSUME NEW s \in Skts, RxExit(s) PROVE CloserInv'
  BY <1>12 DEF RxExit, TypeOK, ReturnInv, ListedInv, HandleInv, CloserInv, LeavingInv, EraseInv, BeginInv, IsInEraseList, RxPcs, Pcs
<1>13. ASSUME NEW s \in Skts, RxSetClosed(s) PROVE CloserInv'
  BY <1>13 DEF RxSetClosed, TypeOK, ReturnInv, ListedInv, HandleInv, CloserInv, LeavingInv, EraseInv, BeginInv, IsInEraseList, RxPcs, Pcs
<1>14. ASSUME NEW s \in Skts, RxLost(s) PROVE CloserInv'
  BY <1>14 DEF RxLost, Callback, Min2, TypeOK, ReturnInv, ListedInv, HandleInv, CloserInv, LeavingInv, EraseInv, BeginInv, IsInEraseList, RxPcs, Pcs
<1>15. ASSUME NEW s \in Skts, RxShut(s) PROVE CloserInv'
  <2>1. CASE sktHandle[s] = "open"
    BY <1>15, <2>1 DEF RxShut, TypeOK, ReturnInv, ListedInv, HandleInv, CloserInv, LeavingInv, EraseInv, BeginInv, IsInEraseList, RxPcs, Pcs
  <2>2. CASE sktHandle[s] # "open"
    BY <1>15, <2>2 DEF RxShut, TypeOK, ReturnInv, ListedInv, HandleInv, CloserInv, LeavingInv, EraseInv, BeginInv, IsInEraseList, RxPcs, Pcs
  <2> QED BY <1>15, <2>1, <2>2 DEF RxShut
<1>16. ASSUME NEW s \in Skts, RxEvent(s) PROVE CloserInv'
  <2>1. CASE IsInEraseList(s)
    BY <1>16, <2>1 DEF RxEvent, IsInEraseList, TypeOK, ReturnInv, ListedInv, HandleInv, CloserInv, LeavingInv, EraseInv, BeginInv, IsInEraseList, RxPcs, Pcs
  <2>2. CASE ~IsInEraseList(s)
    BY <1>16, <2>2 DEF RxEvent, IsInEraseList, TypeOK, ReturnInv, ListedInv, HandleInv, CloserInv, LeavingInv, EraseInv, BeginInv, IsInEraseList, RxPcs, Pcs
  <2> QED BY <1>16, <2>1, <2>2 DEF RxEvent, IsInEraseList
<1>17. ASSUME NEW s \in Skts, RxCleanup(s) PROVE CloserInv'
  BY <1>17 DEF RxCleanup, DoSktDeleteCleanup, TypeOK, ReturnInv, ListedInv, HandleInv, CloserInv, LeavingInv, EraseInv, BeginInv, IsInEraseList, RxPcs, Pcs
<1>18. ASSUME NEW s \in Skts, RxDone(s) PROVE CloserInv'
  BY <1>18 DEF RxDone, TypeOK, ReturnInv, ListedInv, HandleInv, CloserInv, LeavingInv, EraseInv, BeginInv, IsInEraseList, RxPcs, Pcs
<1>19. ASSUME NEW s \in Skts, RxEnd(s) PROVE CloserInv'
  BY <1>19 DEF RxEnd, TypeOK, ReturnInv, ListedInv, HandleInv, CloserInv, LeavingInv, EraseInv, BeginInv, IsInEraseList, RxPcs, Pcs
<1>20. ASSUME NEW t \in Others, NEW s \in Skts, OtherClose(t, s) PROVE CloserInv'
  BY <1>20 DEF OtherClose, LockParams, TypeOK, ReturnInv, ListedInv, HandleInv, CloserInv, LeavingInv, EraseInv, BeginInv, IsInEraseList, RxPcs, Pcs
<1>21. ASSUME NEW t \in Others, OtherCleanup(t) PROVE CloserInv'
  BY <1>21 DEF OtherCleanup, DoSktDeleteCleanup, TypeOK, ReturnInv, ListedInv, HandleInv, CloserInv, LeavingInv, EraseInv, BeginInv, IsInEraseList, RxPcs, Pcs
<1>22. ASSUME NEW t \in Threads, CloseSkt(t) PROVE CloserInv'
  <2>1. target[t] \in Skts
    BY <1>22 DEF CloseSkt, TypeOK
  <2>2. CASE sktHandle[target[t]] # "open" \/ IsInEraseList(target[t])
    BY <1>22, <2>1, <2>2 DEF CloseSkt, IsInEraseList, TypeOK, ReturnInv, ListedInv, HandleInv, CloserInv, LeavingInv, EraseInv, BeginInv, IsInEraseList, RxPcs, Pcs
  <2>3. CASE ~(sktHandle[target[t]] # "open" \/ IsInEraseList(target[t]))
    BY <1>22, <2>1, <2>3 DEF CloseSkt, IsInEraseList, TypeOK, ReturnInv, ListedInv, HandleInv, CloserInv, LeavingInv, EraseInv, BeginInv, IsInEraseList, RxPcs, Pcs
  <2> QED BY <1>22, <2>2, <2>3 DEF CloseSkt, IsInEraseList
<1>23. ASSUME NEW t \in Threads, CloseCallback(t) PROVE CloserInv'
  <2>1. target[t] \in Skts
    BY <1>23 DEF CloseCallback, TypeOK
  <2> QED BY <1>23, <2>1 DEF CloseCallback, Callback, Min2, TypeOK, ReturnInv, ListedInv, HandleInv, CloserInv, LeavingInv, EraseInv, BeginInv, IsInEraseList, RxPcs, Pcs
<1>24. ASSUME NEW t \in Threads, CloseHandle(t) PROVE CloserInv'
  <2>1. target[t] \in Skts
    BY <1>24 DEF CloseHandle, TypeOK
  <2> QED BY <1>24, <2>1 DEF CloseHandle, TypeOK, ReturnInv, ListedInv, HandleInv, CloserInv, LeavingInv, EraseInv, BeginInv, IsInEraseList, RxPcs, Pcs
<1>25. ASSUME NEW t \in Threads, CloseAbort(t) PROVE CloserInv'
  <2>1. target[t] \in Skts
    BY <1>25 DEF CloseAbort, TypeOK
  <2>2. CASE IsInEraseList(target[t])
    BY <1>25, <2>1, <2>2 DEF CloseAbort, IsInEraseList, TypeOK, ReturnInv, ListedInv, HandleInv, CloserInv, LeavingInv, EraseInv, BeginInv, IsInEraseList, RxPcs, Pcs
  <2>3. CASE ~IsInEraseList(target[t])
    BY <1>25, <2>1, <2>3 DEF CloseAbort, IsInEraseList, TypeOK, ReturnInv, ListedInv, HandleInv, CloserInv, LeavingInv, EraseInv, BeginInv, IsInEraseList, RxPcs, Pcs
  <2> QED BY <1>25, <2>2, <2>3 DEF CloseAbort, IsInEraseList
<1>26. ASSUME NEW t \in Threads, LockMgr(t) PROVE CloserInv'
  <2>1. target[t] \in Skts
    BY <1>26 DEF LockMgr, TypeOK
  <2> QED BY <1>26, <2>1 DEF LockMgr, TypeOK, ReturnInv, ListedInv, HandleInv, CloserInv, LeavingInv, EraseInv, BeginInv, IsInEraseList, RxPcs, Pcs
<1>27. ASSUME NEW t \in Threads, MoveToEraseList(t) PROVE CloserInv'
  <2>1. target[t] \in Skts
    BY <1>27 DEF MoveToEraseList, TypeOK
  <2>2. CASE list[target[t]] # "listed"
    BY <1>27, <2>1, <2>2 DEF MoveToEraseList, UnlockMgr, Running, TypeOK, ReturnInv, ListedInv, HandleInv, CloserInv, LeavingInv, EraseInv, BeginInv, IsInEraseList, RxPcs, Pcs
  <2>3. CASE list[target[t]] = "listed" /\ (fromRx[target[t]] \/ ~Running(target[t]))
    BY <1>27, <2>1, <2>3 DEF MoveToEraseList, UnlockMgr, Running, TypeOK, ReturnInv, ListedInv, HandleInv, CloserInv, LeavingInv, EraseInv, BeginInv, IsInEraseList, RxPcs, Pcs
  <2>4. CASE list[target[t]] = "listed" /\ ~(fromRx[target[t]] \/ ~Running(target[t]))
    BY <1>27, <2>1, <2>4 DEF MoveToEraseList, UnlockMgr, Running, TypeOK, ReturnInv, ListedInv, HandleInv, CloserInv, LeavingInv, EraseInv, BeginInv, IsInEraseList, RxPcs, Pcs
  <2> QED BY <1>27, <2>2, <2>3, <2>4 DEF MoveToEraseList, UnlockMgr, Running
<1>28. ASSUME NEW t \in Threads, KillThread(t) PROVE CloserInv'
  <2>1. target[t] \in Skts
    BY <1>28 DEF KillThread, TypeOK
  <2> QED BY <1>28, <2>1 DEF KillThread, UnlockMgr, TypeOK, ReturnInv, ListedInv, HandleInv, CloserInv, LeavingInv, EraseInv, BeginInv, IsInEraseList, RxPcs, Pcs
<1>29. CASE UNCHANGED vars
  BY <1>29 DEF vars, TypeOK, ReturnInv, ListedInv, HandleInv, CloserInv, LeavingInv, EraseInv, BeginInv, IsInEraseList, RxPcs, Pcs
<1> QED BY <1>1, <1>2, <1>3, <1>4, <1>5, <1>6, <1>7, <1>8, <1>9, <1>10, <1>11, <1>12, <1>13, <1>14, <1>15, <1>16, <1>17, <1>18, <1>19, <1>20, <1>21, <1>22, <1>23, <1>24, <1>25, <1>26, <1>27, <1>28, <1>29 DEF Next, RxStep, CloseStep

(* An rx thread that has seen to its own end keeps its handle closed. *)
LEMMA LeavingStep ==
    ASSUME TypeOK, ReturnInv, ListedInv, HandleInv, [Next]_vars
    PROVE  LeavingInv'
<1> USE ThreadsAssumption, OutgoingAssumption DEF Threads, ClosePcs, At, Goto, Step, Call, Return, threadVars, sktVars, history
<1>1. ASSUME NEW s \in Skts, Accept(s) PROVE LeavingInv'
  BY <1>1 DEF Accept, Open, TypeOK, ReturnInv, ListedInv, HandleInv, CloserInv, LeavingInv, EraseInv, BeginInv, IsInEraseList, RxPcs, Pcs
<1>2. ASSUME NEW s \in Skts, Connect(s) PROVE LeavingInv'
  BY <1>2 DEF Connect, Open, TypeOK, ReturnInv, ListedInv, HandleInv, CloserInv, LeavingInv, EraseInv, BeginInv, IsInEraseList, RxPcs, Pcs
<1>3. ASSUME NEW s \in Skts, AddSkt(s) PROVE LeavingInv'
  BY <1>3 DEF AddSkt, TypeOK, ReturnInv, ListedInv, HandleInv, CloserInv, LeavingInv, EraseInv, BeginInv, IsInEraseList, RxPcs, Pcs
<1>4. ASSUME NEW s \in Skts, RxEarlyEnd(s) PROVE LeavingInv'
  BY <1>4 DEF RxEarlyEnd, TypeOK, ReturnInv, ListedInv, HandleInv, CloserInv, LeavingInv, EraseInv, BeginInv, IsInEraseList, RxPcs, Pcs
<1>5. ASSUME NEW s \in Skts, RxStart(s) PROVE LeavingInv'
  BY <1>5 DEF RxStart, TypeOK, ReturnInv, ListedInv, HandleInv, CloserInv, LeavingInv, EraseInv, BeginInv, IsInEraseList, RxPcs, Pcs
<1>6. ASSUME NEW s \in Skts, RxReady(s) PROVE LeavingInv'
  BY <1>6 DEF RxReady, TypeOK, ReturnInv, ListedInv, HandleInv, CloserInv, LeavingInv, EraseInv, BeginInv, IsInEraseList, RxPcs, Pcs
<1>7. ASSUME NEW s \in Skts, RxLoop(s) PROVE LeavingInv'
  BY <1>7 DEF RxLoop, IsConnected, TypeOK, ReturnInv, ListedInv, HandleInv, CloserInv, LeavingInv, EraseInv, BeginInv, IsInEraseList, RxPcs, Pcs
<1>8. ASSUME NEW s \in Skts, RecvClosed(s) PROVE LeavingInv'
  BY <1>8 DEF RecvClosed, TypeOK, ReturnInv, ListedInv, HandleInv, CloserInv, LeavingInv, EraseInv, BeginInv, IsInEraseList, RxPcs, Pcs
<1>9. ASSUME NEW s \in Skts, RecvData(s) PROVE LeavingInv'
  BY <1>9 DEF RecvData, TypeOK, ReturnInv, ListedInv, HandleInv, CloserInv, LeavingInv, EraseInv, BeginInv, IsInEraseList, RxPcs, Pcs
<1>10. ASSUME NEW s \in Skts, RecvFails(s) PROVE LeavingInv'
  BY <1>10 DEF RecvFails, TypeOK, ReturnInv, ListedInv, HandleInv, CloserInv, LeavingInv, EraseInv, BeginInv, IsInEraseList, RxPcs, Pcs
<1>11. ASSUME NEW s \in Skts, RxData(s) PROVE LeavingInv'
  <2>1. CASE Step(s, "loop")
    BY <1>11, <2>1 DEF RxData, Victims, TypeOK, ReturnInv, ListedInv, HandleInv, CloserInv, LeavingInv, EraseInv, BeginInv, IsInEraseList, RxPcs, Pcs
  <2>2. ASSUME NEW x \in Victims(s), NEW p \in LockParams, Call(s, "close", x, "loop", p) PROVE LeavingInv'
    BY <1>11, <2>2 DEF RxData, Victims, TypeOK, ReturnInv, ListedInv, HandleInv, CloserInv, LeavingInv, EraseInv, BeginInv, IsInEraseList, RxPcs, Pcs
  <2> QED BY <1>11, <2>1, <2>2 DEF RxData, Victims
<1>12. ASSUME NEW s \in Skts, RxExit(s) PROVE LeavingInv'
  BY <1>12 DEF RxExit, TypeOK, ReturnInv, ListedInv, HandleInv, CloserInv, LeavingInv, EraseInv, BeginInv, IsInEraseList, RxPcs, Pcs
<1>13. ASSUME NEW s \in Skts, RxSetClosed(s) PROVE LeavingInv'
  BY <1>13 DEF RxSetClosed, TypeOK, ReturnInv, ListedInv, HandleInv, CloserInv, LeavingInv, EraseInv, BeginInv, IsInEraseList, RxPcs, Pcs
<1>14. ASSUME NEW s \in Skts, RxLost(s) PROVE LeavingInv'
  BY <1>14 DEF RxLost, Callback, Min2, TypeOK, ReturnInv, ListedInv, HandleInv, CloserInv, LeavingInv, EraseInv, BeginInv, IsInEraseList, RxPcs, Pcs
<1>15. ASSUME NEW s \in Skts, RxShut(s) PROVE LeavingInv'
  <2>1. CASE sktHandle[s] = "open"
    BY <1>15, <2>1 DEF RxShut, TypeOK, ReturnInv, ListedInv, HandleInv, CloserInv, LeavingInv, EraseInv, BeginInv, IsInEraseList, RxPcs, Pcs
  <2>2. CASE sktHandle[s] # "open"
    BY <1>15, <2>2 DEF RxShut, TypeOK, ReturnInv, ListedInv, HandleInv, CloserInv, LeavingInv, EraseInv, BeginInv, IsInEraseList, RxPcs, Pcs
  <2> QED BY <1>15, <2>1, <2>2 DEF RxShut
<1>16. ASSUME NEW s \in Skts, RxEvent(s) PROVE LeavingInv'
  <2>1. CASE IsInEraseList(s)
    BY <1>16, <2>1 DEF RxEvent, IsInEraseList, TypeOK, ReturnInv, ListedInv, HandleInv, CloserInv, LeavingInv, EraseInv, BeginInv, IsInEraseList, RxPcs, Pcs
  <2>2. CASE ~IsInEraseList(s)
    BY <1>16, <2>2 DEF RxEvent, IsInEraseList, TypeOK, ReturnInv, ListedInv, HandleInv, CloserInv, LeavingInv, EraseInv, BeginInv, IsInEraseList, RxPcs, Pcs
  <2> QED BY <1>16, <2>1, <2>2 DEF RxEvent, IsInEraseList
<1>17. ASSUME NEW s \in Skts, RxCleanup(s) PROVE LeavingInv'
  BY <1>17 DEF RxCleanup, DoSktDeleteCleanup, TypeOK, ReturnInv, ListedInv, HandleInv, CloserInv, LeavingInv, EraseInv, BeginInv, IsInEraseList, RxPcs, Pcs
<1>18. ASSUME NEW s \in Skts, RxDone(s) PROVE LeavingInv'
  BY <1>18 DEF RxDone, TypeOK, ReturnInv, ListedInv, HandleInv, CloserInv, LeavingInv, EraseInv, BeginInv, IsInEraseList, RxPcs, Pcs
<1>19. ASSUME NEW s \in Skts, RxEnd(s) PROVE LeavingInv'
  BY <1>19 DEF RxEnd, TypeOK, ReturnInv, ListedInv, HandleInv, CloserInv, LeavingInv, EraseInv, BeginInv, IsInEraseList, RxPcs, Pcs
<1>20. ASSUME NEW t \in Others, NEW s \in Skts, OtherClose(t, s) PROVE LeavingInv'
  BY <1>20 DEF OtherClose, LockParams, TypeOK, ReturnInv, ListedInv, HandleInv, CloserInv, LeavingInv, EraseInv, BeginInv, IsInEraseList, RxPcs, Pcs
<1>21. ASSUME NEW t \in Others, OtherCleanup(t) PROVE LeavingInv'
  BY <1>21 DEF OtherCleanup, DoSktDeleteCleanup, TypeOK, ReturnInv, ListedInv, HandleInv, CloserInv, LeavingInv, EraseInv, BeginInv, IsInEraseList, RxPcs, Pcs
<1>22. ASSUME NEW t \in Threads, CloseSkt(t) PROVE LeavingInv'
  <2>1. target[t] \in Skts
    BY <1>22 DEF CloseSkt, TypeOK
  <2>2. CASE sktHandle[target[t]] # "open" \/ IsInEraseList(target[t])
    BY <1>22, <2>1, <2>2 DEF CloseSkt, IsInEraseList, TypeOK, ReturnInv, ListedInv, HandleInv, CloserInv, LeavingInv, EraseInv, BeginInv, IsInEraseList, RxPcs, Pcs
  <2>3. CASE ~(sktHandle[target[t]] # "open" \/ IsInEraseList(target[t]))
    BY <1>22, <2>1, <2>3 DEF CloseSkt, IsInEraseList, TypeOK, ReturnInv, ListedInv, HandleInv, CloserInv, LeavingInv, EraseInv, BeginInv, IsInEraseList, RxPcs, Pcs
  <2> QED BY <1>22, <2>2, <2>3 DEF CloseSkt, IsInEraseList
<1>23. ASSUME NEW t \in Threads, CloseCallback(t) PROVE LeavingInv'
  <2>1. target[t] \in Skts
    BY <1>23 DEF CloseCallback, TypeOK
  <2> QED BY <1>23, <2>1 DEF CloseCallback, Callback, Min2, TypeOK, ReturnInv, ListedInv, HandleInv, CloserInv, LeavingInv, EraseInv, BeginInv, IsInEraseList, RxPcs, Pcs
<1>24. ASSUME NEW t \in Threads, CloseHandle(t) PROVE LeavingInv'
  <2>1. target[t] \in Skts
    BY <1>24 DEF CloseHandle, TypeOK
  <2> QED BY <1>24, <2>1 DEF CloseHandle, TypeOK, ReturnInv, ListedInv, HandleInv, CloserInv, LeavingInv, EraseInv, BeginInv, IsInEraseList, RxPcs, Pcs
<1>25. ASSUME NEW t \in Threads, CloseAbort(t) PROVE LeavingInv'
  <2>1. target[t] \in Skts
    BY <1>25 DEF CloseAbort, TypeOK
  <2>2. CASE IsInEraseList(target[t])
    BY <1>25, <2>1, <2>2 DEF CloseAbort, IsInEraseList, TypeOK, ReturnInv, ListedInv, HandleInv, CloserInv, LeavingInv, EraseInv, BeginInv, IsInEraseList, RxPcs, Pcs
  <2>3. CASE ~IsInEraseList(target[t])
    BY <1>25, <2>1, <2>3 DEF CloseAbort, IsInEraseList, TypeOK, ReturnInv, ListedInv, HandleInv, CloserInv, LeavingInv, EraseInv, BeginInv, IsInEraseList, RxPcs, Pcs
  <2> QED BY <1>25, <2>2, <2>3 DEF CloseAbort, IsInEraseList
<1>26. ASSUME NEW t \in Threads, LockMgr(t) PROVE LeavingInv'
  <2>1. target[t] \in Skts
    BY <1>26 DEF LockMgr, TypeOK
  <2> QED BY <1>26, <2>1 DEF LockMgr, TypeOK, ReturnInv, ListedInv, HandleInv, CloserInv, LeavingInv, EraseInv, BeginInv, IsInEraseList, RxPcs, Pcs
<1>27. ASSUME NEW t \in Threads, MoveToEraseList(t) PROVE LeavingInv'
  <2>1. target[t] \in Skts
    BY <1>27 DEF MoveToEraseList, TypeOK
  <2>2. CASE list[target[t]] # "listed"
    BY <1>27, <2>1, <2>2 DEF MoveToEraseList, UnlockMgr, Running, TypeOK, ReturnInv, ListedInv, HandleInv, CloserInv, LeavingInv, EraseInv, BeginInv, IsInEraseList, RxPcs, Pcs
  <2>3. CASE list[target[t]] = "listed" /\ (fromRx[target[t]] \/ ~Running(target[t]))
    BY <1>27, <2>1, <2>3 DEF MoveToEraseList, UnlockMgr, Running, TypeOK, ReturnInv, ListedInv, HandleInv, CloserInv, LeavingInv, EraseInv, BeginInv, IsInEraseList, RxPcs, Pcs
  <2>4. CASE list[target[t]] = "listed" /\ ~(fromRx[target[t]] \/ ~Running(target[t]))
    BY <1>27, <2>1, <2>4 DEF MoveToEraseList, UnlockMgr, Running, TypeOK, ReturnInv, ListedInv, HandleInv, CloserInv, LeavingInv, EraseInv, BeginInv, IsInEraseList, RxPcs, Pcs
  <2> QED BY <1>27, <2>2, <2>3, <2>4 DEF MoveToEraseList, UnlockMgr, Running
<1>28. ASSUME NEW t \in Threads, KillThread(t) PROVE LeavingInv'
  <2>1. target[t] \in Skts
    BY <1>28 DEF KillThread, TypeOK
  <2> QED BY <1>28, <2>1 DEF KillThread, UnlockMgr, TypeOK, ReturnInv, ListedInv, HandleInv, CloserInv, LeavingInv, EraseInv, BeginInv, IsInEraseList, RxPcs, Pcs
<1>29. CASE UNCHANGED vars
  BY <1>29 DEF vars, TypeOK, ReturnInv, ListedInv, HandleInv, CloserInv, LeavingInv, EraseInv, BeginInv, IsInEraseList, RxPcs, Pcs
<1> QED BY <1>1, <1>2, <1>3, <1>4, <1>5, <1>6, <1>7, <1>8, <1>9, <1>10, <1>11, <1>12, <1>13, <1>14, <1>15, <1>16, <1>17, <1>18, <1>19, <1>20, <1>21, <1>22, <1>23, <1>24, <1>25, <1>26, <1>27, <1>28, <1>29 DEF Next, RxStep, CloseStep

(* Nothing reopens or reconnects a socket of the erase list. *)
LEMMA EraseStep ==
    ASSUME TypeOK, ReturnInv, ListedInv, HandleInv, [Next]_vars
    PROVE  EraseInv'
<1> USE ThreadsAssumption, OutgoingAssumption DEF Threads, ClosePcs, At, Goto, Step, Call, Return, threadVars, sktVars, history
<1>1. ASSUME NEW s \in Skts, Accept(s) PROVE EraseInv'
  BY <1>1 DEF Accept, Open, TypeOK, ReturnInv, ListedInv, HandleInv, CloserInv, LeavingInv, EraseInv, BeginInv, IsInEraseList, RxPcs, Pcs
<1>2. ASSUME NEW s \in Skts, Connect(s) PROVE EraseInv'
  BY <1>2 DEF Connect, Open, TypeOK, ReturnInv, ListedInv, HandleInv, CloserInv, LeavingInv, EraseInv, BeginInv, IsInEraseList, RxPcs, Pcs
<1>3. ASSUME NEW s \in Skts, AddSkt(s) PROVE EraseInv'
  BY <1>3 DEF AddSkt, TypeOK, ReturnInv, ListedInv, HandleInv, CloserInv, LeavingInv, EraseInv, BeginInv, IsInEraseList, RxPcs, Pcs
<1>4. ASSUME NEW s \in Skts, RxEarlyEnd(s) PROVE EraseInv'
  BY <1>4 DEF RxEarlyEnd, TypeOK, ReturnInv, ListedInv, HandleInv, CloserInv, LeavingInv, EraseInv, BeginInv, IsInEraseList, RxPcs, Pcs
<1>5. ASSUME NEW s \in Skts, RxStart(s) PROVE EraseInv'
  BY <1>5 DEF RxStart, TypeOK, ReturnInv, ListedInv, HandleInv, CloserInv, LeavingInv, EraseInv, BeginInv, IsInEraseList, RxPcs, Pcs
<1>6. ASSUME NEW s \in Skts, RxReady(s) PROVE EraseInv'
  BY <1>6 DEF RxReady, TypeOK, ReturnInv, ListedInv, HandleInv, CloserInv, LeavingInv, EraseInv, BeginInv, IsInEraseList, RxPcs, Pcs
<1>7. ASSUME NEW s \in Skts, RxLoop(s) PROVE EraseInv'
  BY <1>7 DEF RxLoop, IsConnected, TypeOK, ReturnInv, ListedInv, HandleInv, CloserInv, LeavingInv, EraseInv, BeginInv, IsInEraseList, RxPcs, Pcs
<1>8. ASSUME NEW s \in Skts, RecvClosed(s) PROVE EraseInv'
  BY <1>8 DEF RecvClosed, TypeOK, ReturnInv, ListedInv, HandleInv, CloserInv, LeavingInv, EraseInv, BeginInv, IsInEraseList, RxPcs, Pcs
<1>9. ASSUME NEW s \in Skts, RecvData(s) PROVE EraseInv'
  BY <1>9 DEF RecvData, TypeOK, ReturnInv, ListedInv, HandleInv, CloserInv, LeavingInv, EraseInv, BeginInv, IsInEraseList, RxPcs, Pcs
<1>10. ASSUME NEW s \in Skts, RecvFails(s) PROVE EraseInv'
  BY <1>10 DEF RecvFails, TypeOK, ReturnInv, ListedInv, HandleInv, CloserInv, LeavingInv, EraseInv, BeginInv, IsInEraseList, RxPcs, Pcs
<1>11. ASSUME NEW s \in Skts, RxData(s) PROVE EraseInv'
  <2>1. CASE Step(s, "loop")
    BY <1>11, <2>1 DEF RxData, Victims, TypeOK, ReturnInv, ListedInv, HandleInv, CloserInv, LeavingInv, EraseInv, BeginInv, IsInEraseList, RxPcs, Pcs
  <2>2. ASSUME NEW x \in Victims(s), NEW p \in LockParams, Call(s, "close", x, "loop", p) PROVE EraseInv'
    BY <1>11, <2>2 DEF RxData, Victims, TypeOK, ReturnInv, ListedInv, HandleInv, CloserInv, LeavingInv, EraseInv, BeginInv, IsInEraseList, RxPcs, Pcs
  <2> QED BY <1>11, <2>1, <2>2 DEF RxData, Victims
<1>12. ASSUME NEW s \in Skts, RxExit(s) PROVE EraseInv'
  BY <1>12 DEF RxExit, TypeOK, ReturnInv, ListedInv, HandleInv, CloserInv, LeavingInv, EraseInv, BeginInv, IsInEraseList, RxPcs, Pcs
<1>13. ASSUME NEW s \in Skts, RxSetClosed(s) PROVE EraseInv'
  BY <1>13 DEF RxSetClosed, TypeOK, ReturnInv, ListedInv, HandleInv, CloserInv, LeavingInv, EraseInv, BeginInv, IsInEraseList, RxPcs, Pcs
<1>14. ASSUME NEW s \in Skts, RxLost(s) PROVE EraseInv'
  BY <1>14 DEF RxLost, Callback, Min2, TypeOK, ReturnInv, ListedInv, HandleInv, CloserInv, LeavingInv, EraseInv, BeginInv, IsInEraseList, RxPcs, Pcs
<1>15. ASSUME NEW s \in Skts, RxShut(s) PROVE EraseInv'
  <2>1. CASE sktHandle[s] = "open"
    BY <1>15, <2>1 DEF RxShut, TypeOK, ReturnInv, ListedInv, HandleInv, CloserInv, LeavingInv, EraseInv, BeginInv, IsInEraseList, RxPcs, Pcs
  <2>2. CASE sktHandle[s] # "open"
    BY <1>15, <2>2 DEF RxShut, TypeOK, ReturnInv, ListedInv, HandleInv, CloserInv, LeavingInv, EraseInv, BeginInv, IsInEraseList, RxPcs, Pcs
  <2> QED BY <1>15, <2>1, <2>2 DEF RxShut
<1>16. ASSUME NEW s \in Skts, RxEvent(s) PROVE EraseInv'
  <2>1. CASE IsInEraseList(s)
    BY <1>16, <2>1 DEF RxEvent, IsInEraseList, TypeOK, ReturnInv, ListedInv, HandleInv, CloserInv, LeavingInv, EraseInv, BeginInv, IsInEraseList, RxPcs, Pcs
  <2>2. CASE ~IsInEraseList(s)
    BY <1>16, <2>2 DEF RxEvent, IsInEraseList, TypeOK, ReturnInv, ListedInv, HandleInv, CloserInv, LeavingInv, EraseInv, BeginInv, IsInEraseList, RxPcs, Pcs
  <2> QED BY <1>16, <2>1, <2>2 DEF RxEvent, IsInEraseList
<1>17. ASSUME NEW s \in Skts, RxCleanup(s) PROVE EraseInv'
  BY <1>17 DEF RxCleanup, DoSktDeleteCleanup, TypeOK, ReturnInv, ListedInv, HandleInv, CloserInv, LeavingInv, EraseInv, BeginInv, IsInEraseList, RxPcs, Pcs
<1>18. ASSUME NEW s \in Skts, RxDone(s) PROVE EraseInv'
  BY <1>18 DEF RxDone, TypeOK, ReturnInv, ListedInv, HandleInv, CloserInv, LeavingInv, EraseInv, BeginInv, IsInEraseList, RxPcs, Pcs
<1>19. ASSUME NEW s \in Skts, RxEnd(s) PROVE EraseInv'
  BY <1>19 DEF RxEnd, TypeOK, ReturnInv, ListedInv, HandleInv, CloserInv, LeavingInv, EraseInv, BeginInv, IsInEraseList, RxPcs, Pcs
<1>20. ASSUME NEW t \in Others, NEW s \in Skts, OtherClose(t, s) PROVE EraseInv'
  <2>1. \A x \in Skts : connected'[x] => connected[x]
    BY <1>20 DEF OtherClose, TypeOK
  <2>2. HandleInv /\ UNCHANGED <<list, sktHandle>> /\ At(t, "idle")
    BY <1>20 DEF OtherClose
  <2>3. pc' = [pc EXCEPT ![t] = "close"] /\ (\E p \in LockParams : Call(t, "close", s, "idle", p))
    BY <1>20 DEF OtherClose
  <2>4. target' = [target EXCEPT ![t] = s] /\ ret' = [ret EXCEPT ![t] = "idle"]
    BY <2>3
  <2> QED BY <2>1, <2>2, <2>3, <2>4 DEF HandleInv, EraseInv, IsInEraseList
<1>21. ASSUME NEW t \in Others, OtherCleanup(t) PROVE EraseInv'
  BY <1>21 DEF OtherCleanup, DoSktDeleteCleanup, TypeOK, ReturnInv, ListedInv, HandleInv, CloserInv, LeavingInv, EraseInv, BeginInv, IsInEraseList, RxPcs, Pcs
<1>22. ASSUME NEW t \in Threads, CloseSkt(t) PROVE EraseInv'
  <2>1. target[t] \in Skts
    BY <1>22 DEF CloseSkt, TypeOK
  <2>2. CASE sktHandle[target[t]] # "open" \/ IsInEraseList(target[t])
    BY <1>22, <2>1, <2>2 DEF CloseSkt, IsInEraseList, TypeOK, ReturnInv, ListedInv, HandleInv, CloserInv, LeavingInv, EraseInv, BeginInv, IsInEraseList, RxPcs, Pcs
  <2>3. CASE ~(sktHandle[target[t]] # "open" \/ IsInEraseList(target[t]))
    BY <1>22, <2>1, <2>3 DEF CloseSkt, IsInEraseList, TypeOK, ReturnInv, ListedInv, HandleInv, CloserInv, LeavingInv, EraseInv, BeginInv, IsInEraseList, RxPcs, Pcs
  <2> QED BY <1>22, <2>2, <2>3 DEF CloseSkt, IsInEraseList
<1>23. ASSUME NEW t \in Threads, CloseCallback(t) PROVE EraseInv'
  <2>1. target[t] \in Skts
    BY <1>23 DEF CloseCallback, TypeOK
  <2> QED BY <1>23, <2>1 DEF CloseCallback, Callback, Min2, TypeOK, ReturnInv, ListedInv, HandleInv, CloserInv, LeavingInv, EraseInv, BeginInv, IsInEraseList, RxPcs, Pcs
<1>24. ASSUME NEW t \in Threads, CloseHandle(t) PROVE EraseInv'
  <2>1. target[t] \in Skts
    BY <1>24 DEF CloseHandle, TypeOK
  <2> QED BY <1>24, <2>1 DEF CloseHandle, TypeOK, ReturnInv, ListedInv, HandleInv, CloserInv, LeavingInv, EraseInv, BeginInv, IsInEraseList, RxPcs, Pcs
<1>25. ASSUME NEW t \in Threads, CloseAbort(t) PROVE EraseInv'
  <2>1. target[t] \in Skts
    BY <1>25 DEF CloseAbort, TypeOK
  <2>2. CASE IsInEraseList(target[t])
    BY <1>25, <2>1, <2>2 DEF CloseAbort, IsInEraseList, TypeOK, ReturnInv, ListedInv, HandleInv, CloserInv, LeavingInv, EraseInv, BeginInv, IsInEraseList, RxPcs, Pcs
  <2>3. CASE ~IsInEraseList(target[t])
    BY <1>25, <2>1, <2>3 DEF CloseAbort, IsInEraseList, TypeOK, ReturnInv, ListedInv, HandleInv, CloserInv, LeavingInv, EraseInv, BeginInv, IsInEraseList, RxPcs, Pcs
  <2> QED BY <1>25, <2>2, <2>3 DEF CloseAbort, IsInEraseList
<1>26. ASSUME NEW t \in Threads, LockMgr(t) PROVE EraseInv'
  <2>1. target[t] \in Skts
    BY <1>26 DEF LockMgr, TypeOK
  <2> QED BY <1>26, <2>1 DEF LockMgr, TypeOK, ReturnInv, ListedInv, HandleInv, CloserInv, LeavingInv, EraseInv, BeginInv, IsInEraseList, RxPcs, Pcs
<1>27. ASSUME NEW t \in Threads, MoveToEraseList(t) PROVE EraseInv'
  <2>1. target[t] \in Skts
    BY <1>27 DEF MoveToEraseList, TypeOK
  <2>2. CASE list[target[t]] # "listed"
    BY <1>27, <2>1, <2>2 DEF MoveToEraseList, UnlockMgr, Running, TypeOK, ReturnInv, ListedInv, HandleInv, CloserInv, LeavingInv, EraseInv, BeginInv, IsInEraseList, RxPcs, Pcs
  <2>3. CASE list[target[t]] = "listed" /\ (fromRx[target[t]] \/ ~Running(target[t]))
    BY <1>27, <2>1, <2>3 DEF MoveToEraseList, UnlockMgr, Running, TypeOK, ReturnInv, ListedInv, HandleInv, CloserInv, LeavingInv, EraseInv, BeginInv, IsInEraseList, RxPcs, Pcs
  <2>4. CASE list[target[t]] = "listed" /\ ~(fromRx[target[t]] \/ ~Running(target[t]))
    BY <1>27, <2>1, <2>4 DEF MoveToEraseList, UnlockMgr, Running, TypeOK, ReturnInv, ListedInv, HandleInv, CloserInv, LeavingInv, EraseInv, BeginInv, IsInEraseList, RxPcs, Pcs
  <2> QED BY <1>27, <2>2, <2>3, <2>4 DEF MoveToEraseList, UnlockMgr, Running
<1>28. ASSUME NEW t \in Threads, KillThread(t) PROVE EraseInv'
  <2>1. target[t] \in Skts
    BY <1>28 DEF KillThread, TypeOK
  <2> QED BY <1>28, <2>1 DEF KillThread, UnlockMgr, TypeOK, ReturnInv, ListedInv, HandleInv, CloserInv, LeavingInv, EraseInv, BeginInv, IsInEraseList, RxPcs, Pcs
<1>29. CASE UNCHANGED vars
  BY <1>29 DEF vars, TypeOK, ReturnInv, ListedInv, HandleInv, CloserInv, LeavingInv, EraseInv, BeginInv, IsInEraseList, RxPcs, Pcs
<1> QED BY <1>1, <1>2, <1>3, <1>4, <1>5, <1>6, <1>7, <1>8, <1>9, <1>10, <1>11, <1>12, <1>13, <1>14, <1>15, <1>16, <1>17, <1>18, <1>19, <1>20, <1>21, <1>22, <1>23, <1>24, <1>25, <1>26, <1>27, <1>28, <1>29 DEF Next, RxStep, CloseStep

(* A socket has a handle from its first step on. *)
LEMMA BeginStep ==
    ASSUME TypeOK, ReturnInv, ListedInv, HandleInv, [Next]_vars
    PROVE  BeginInv'
<1> USE ThreadsAssumption, OutgoingAssumption DEF Threads, ClosePcs, At, Goto, Step, Call, Return, threadVars, sktVars, history
<1>1. ASSUME NEW s \in Skts, Accept(s) PROVE BeginInv'
  BY <1>1 DEF Accept, Open, TypeOK, ReturnInv, ListedInv, HandleInv, CloserInv, LeavingInv, EraseInv, BeginInv, IsInEraseList, RxPcs, Pcs
<1>2. ASSUME NEW s \in Skts, Connect(s) PROVE BeginInv'
  BY <1>2 DEF Connect, Open, TypeOK, ReturnInv, ListedInv, HandleInv, CloserInv, LeavingInv, EraseInv, BeginInv, IsInEraseList, RxPcs, Pcs
<1>3. ASSUME NEW s \in Skts, AddSkt(s) PROVE BeginInv'
  BY <1>3 DEF AddSkt, TypeOK, ReturnInv, ListedInv, HandleInv, CloserInv, LeavingInv, EraseInv, BeginInv, IsInEraseList, RxPcs, Pcs
<1>4. ASSUME NEW s \in Skts, RxEarlyEnd(s) PROVE BeginInv'
  BY <1>4 DEF RxEarlyEnd, TypeOK, ReturnInv, ListedInv, HandleInv, CloserInv, LeavingInv, EraseInv, BeginInv, IsInEraseList, RxPcs, Pcs
<1>5. ASSUME NEW s \in Skts, RxStart(s) PROVE BeginInv'
  BY <1>5 DEF RxStart, TypeOK, ReturnInv, ListedInv, HandleInv, CloserInv, LeavingInv, EraseInv, BeginInv, IsInEraseList, RxPcs, Pcs
<1>6. ASSUME NEW s \in Skts, RxReady(s) PROVE BeginInv'
  BY <1>6 DEF RxReady, TypeOK, ReturnInv, ListedInv, HandleInv, CloserInv, LeavingInv, EraseInv, BeginInv, IsInEraseList, RxPcs, Pcs
<1>7. ASSUME NEW s \in Skts, RxLoop(s) PROVE BeginInv'
  BY <1>7 DEF RxLoop, IsConnected, TypeOK, ReturnInv, ListedInv, HandleInv, CloserInv, LeavingInv, EraseInv, BeginInv, IsInEraseList, RxPcs, Pcs
<1>8. ASSUME NEW s \in Skts, RecvClosed(s) PROVE BeginInv'
  BY <1>8 DEF RecvClosed, TypeOK, ReturnInv, ListedInv, HandleInv, CloserInv, LeavingInv, EraseInv, BeginInv, IsInEraseList, RxPcs, Pcs
<1>9. ASSUME NEW s \in Skts, RecvData(s) PROVE BeginInv'
  BY <1>9 DEF RecvData, TypeOK, ReturnInv, ListedInv, HandleInv, CloserInv, LeavingInv, EraseInv, BeginInv, IsInEraseList, RxPcs, Pcs
<1>10. ASSUME NEW s \in Skts, RecvFails(s) PROVE BeginInv'
  BY <1>10 DEF RecvFails, TypeOK, ReturnInv, ListedInv, HandleInv, CloserInv, LeavingInv, EraseInv, BeginInv, IsInEraseList, RxPcs, Pcs
<1>11. ASSUME NEW s \in Skts, RxData(s) PROVE BeginInv'
  <2>1. CASE Step(s, "loop")
    BY <1>11, <2>1 DEF RxData, Victims, TypeOK, ReturnInv, ListedInv, HandleInv, CloserInv, LeavingInv, EraseInv, BeginInv, IsInEraseList, RxPcs, Pcs
  <2>2. ASSUME NEW x \in Victims(s), NEW p \in LockParams, Call(s, "close", x, "loop", p) PROVE BeginInv'
    BY <1>11, <2>2 DEF RxData, Victims, TypeOK, ReturnInv, ListedInv, HandleInv, CloserInv, LeavingInv, EraseInv, BeginInv, IsInEraseList, RxPcs, Pcs
  <2> QED BY <1>11, <2>1, <2>2 DEF RxData, Victims
<1>12. ASSUME NEW s \in Skts, RxExit(s) PROVE BeginInv'
  BY <1>12 DEF RxExit, TypeOK, ReturnInv, ListedInv, HandleInv, CloserInv, LeavingInv, EraseInv, BeginInv, IsInEraseList, RxPcs, Pcs
<1>13. ASSUME NEW s \in Skts, RxSetClosed(s) PROVE BeginInv'
  BY <1>13 DEF RxSetClosed, TypeOK, ReturnInv, ListedInv, HandleInv, CloserInv, LeavingInv, EraseInv, BeginInv, IsInEraseList, RxPcs, Pcs
<1>14. ASSUME NEW s \in Skts, RxLost(s) PROVE BeginInv'
  BY <1>14 DEF RxLost, Callback, Min2, TypeOK, ReturnInv, ListedInv, HandleInv, CloserInv, LeavingInv, EraseInv, BeginInv, IsInEraseList, RxPcs, Pcs
<1>15. ASSUME NEW s \in Skts, RxShut(s) PROVE BeginInv'
  <2>1. CASE sktHandle[s] = "open"
    BY <1>15, <2>1 DEF RxShut, TypeOK, ReturnInv, ListedInv, HandleInv, CloserInv, LeavingInv, EraseInv, BeginInv, IsInEraseList, RxPcs, Pcs
  <2>2. CASE sktHandle[s] # "open"
    BY <1>15, <2>2 DEF RxShut, TypeOK, ReturnInv, ListedInv, HandleInv, CloserInv, LeavingInv, EraseInv, BeginInv, IsInEraseList, RxPcs, Pcs
  <2> QED BY <1>15, <2>1, <2>2 DEF RxShut
<1>16. ASSUME NEW s \in Skts, RxEvent(s) PROVE BeginInv'
  <2>1. CASE IsInEraseList(s)
    BY <1>16, <2>1 DEF RxEvent, IsInEraseList, TypeOK, ReturnInv, ListedInv, HandleInv, CloserInv, LeavingInv, EraseInv, BeginInv, IsInEraseList, RxPcs, Pcs
  <2>2. CASE ~IsInEraseList(s)
    BY <1>16, <2>2 DEF RxEvent, IsInEraseList, TypeOK, ReturnInv, ListedInv, HandleInv, CloserInv, LeavingInv, EraseInv, BeginInv, IsInEraseList, RxPcs, Pcs
  <2> QED BY <1>16, <2>1, <2>2 DEF RxEvent, IsInEraseList
<1>17. ASSUME NEW s \in Skts, RxCleanup(s) PROVE BeginInv'
  BY <1>17 DEF RxCleanup, DoSktDeleteCleanup, TypeOK, ReturnInv, ListedInv, HandleInv, CloserInv, LeavingInv, EraseInv, BeginInv, IsInEraseList, RxPcs, Pcs
<1>18. ASSUME NEW s \in Skts, RxDone(s) PROVE BeginInv'
  BY <1>18 DEF RxDone, TypeOK, ReturnInv, ListedInv, HandleInv, CloserInv, LeavingInv, EraseInv, BeginInv, IsInEraseList, RxPcs, Pcs
<1>19. ASSUME NEW s \in Skts, RxEnd(s) PROVE BeginInv'
  BY <1>19 DEF RxEnd, TypeOK, ReturnInv, ListedInv, HandleInv, CloserInv, LeavingInv, EraseInv, BeginInv, IsInEraseList, RxPcs, Pcs
<1>20. ASSUME NEW t \in Others, NEW s \in Skts, OtherClose(t, s) PROVE BeginInv'
  BY <1>20 DEF OtherClose, LockParams, TypeOK, ReturnInv, ListedInv, HandleInv, CloserInv, LeavingInv, EraseInv, BeginInv, IsInEraseList, RxPcs, Pcs
<1>21. ASSUME NEW t \in Others, OtherCleanup(t) PROVE BeginInv'
  BY <1>21 DEF OtherCleanup, DoSktDeleteCleanup, TypeOK, ReturnInv, ListedInv, HandleInv, CloserInv, LeavingInv, EraseInv, BeginInv, IsInEraseList, RxPcs, Pcs
<1>22. ASSUME NEW t \in Threads, CloseSkt(t) PROVE BeginInv'
  <2>1. target[t] \in Skts
    BY <1>22 DEF CloseSkt, TypeOK
  <2>2. CASE sktHandle[target[t]] # "open" \/ IsInEraseList(target[t])
    BY <1>22, <2>1, <2>2 DEF CloseSkt, IsInEraseList, TypeOK, ReturnInv, ListedInv, HandleInv, CloserInv, LeavingInv, EraseInv, BeginInv, IsInEraseList, RxPcs, Pcs
  <2>3. CASE ~(sktHandle[target[t]] # "open" \/ IsInEraseList(target[t]))
    BY <1>22, <2>1, <2>3 DEF CloseSkt, IsInEraseList, TypeOK, ReturnInv, ListedInv, HandleInv, CloserInv, LeavingInv, EraseInv, BeginInv, IsInEraseList, RxPcs, Pcs
  <2> QED BY <1>22, <2>2, <2>3 DEF CloseSkt, IsInEraseList
<1>23. ASSUME NEW t \in Threads, CloseCallback(t) PROVE BeginInv'
  <2>1. target[t] \in Skts
    BY <1>23 DEF CloseCallback, TypeOK
  <2> QED BY <1>23, <2>1 DEF CloseCallback, Callback, Min2, TypeOK, ReturnInv, ListedInv, HandleInv, CloserInv, LeavingInv, EraseInv, BeginInv, IsInEraseList, RxPcs, Pcs
<1>24. ASSUME NEW t \in Threads, CloseHandle(t) PROVE BeginInv'
  <2>1. target[t] \in Skts
    BY <1>24 DEF CloseHandle, TypeOK
  <2> QED BY <1>24, <2>1 DEF CloseHandle, TypeOK, ReturnInv, ListedInv, HandleInv, CloserInv, LeavingInv, EraseInv, BeginInv, IsInEraseList, RxPcs, Pcs
<1>25. ASSUME NEW t \in Threads, CloseAbort(t) PROVE BeginInv'
  <2>1. target[t] \in Skts
    BY <1>25 DEF CloseAbort, TypeOK
  <2>2. CASE IsInEraseList(target[t])
    BY <1>25, <2>1, <2>2 DEF CloseAbort, IsInEraseList, TypeOK, ReturnInv, ListedInv, HandleInv, CloserInv, LeavingInv, EraseInv, BeginInv, IsInEraseList, RxPcs, Pcs
  <2>3. CASE ~IsInEraseList(target[t])
    BY <1>25, <2>1, <2>3 DEF CloseAbort, IsInEraseList, TypeOK, ReturnInv, ListedInv, HandleInv, CloserInv, LeavingInv, EraseInv, BeginInv, IsInEraseList, RxPcs, Pcs
  <2> QED BY <1>25, <2>2, <2>3 DEF CloseAbort, IsInEraseList
<1>26. ASSUME NEW t \in Threads, LockMgr(t) PROVE BeginInv'
  <2>1. target[t] \in Skts
    BY <1>26 DEF LockMgr, TypeOK
  <2> QED BY <1>26, <2>1 DEF LockMgr, TypeOK, ReturnInv, ListedInv, HandleInv, CloserInv, LeavingInv, EraseInv, BeginInv, IsInEraseList, RxPcs, Pcs
<1>27. ASSUME NEW t \in Threads, MoveToEraseList(t) PROVE BeginInv'
  <2>1. target[t] \in Skts
    BY <1>27 DEF MoveToEraseList, TypeOK
  <2>2. CASE list[target[t]] # "listed"
    BY <1>27, <2>1, <2>2 DEF MoveToEraseList, UnlockMgr, Running, TypeOK, ReturnInv, ListedInv, HandleInv, CloserInv, LeavingInv, EraseInv, BeginInv, IsInEraseList, RxPcs, Pcs
  <2>3. CASE list[target[t]] = "listed" /\ (fromRx[target[t]] \/ ~Running(target[t]))
    BY <1>27, <2>1, <2>3, SMTT(20) DEF MoveToEraseList, UnlockMgr, Running, TypeOK, ReturnInv, ListedInv, HandleInv, CloserInv, LeavingInv, EraseInv, BeginInv, IsInEraseList, RxPcs, Pcs
  <2>4. CASE list[target[t]] = "listed" /\ ~(fromRx[target[t]] \/ ~Running(target[t]))
    BY <1>27, <2>1, <2>4 DEF MoveToEraseList, UnlockMgr, Running, TypeOK, ReturnInv, ListedInv, HandleInv, CloserInv, LeavingInv, EraseInv, BeginInv, IsInEraseList, RxPcs, Pcs
  <2> QED BY <1>27, <2>2, <2>3, <2>4 DEF MoveToEraseList, UnlockMgr, Running
<1>28. ASSUME NEW t \in Threads, KillThread(t) PROVE BeginInv'
  <2>1. target[t] \in Skts
    BY <1>28 DEF KillThread, TypeOK
  <2> QED BY <1>28, <2>1 DEF KillThread, UnlockMgr, TypeOK, ReturnInv, ListedInv, HandleInv, CloserInv, LeavingInv, EraseInv, BeginInv, IsInEraseList, RxPcs, Pcs
<1>29. CASE UNCHANGED vars
  BY <1>29 DEF vars, TypeOK, ReturnInv, ListedInv, HandleInv, CloserInv, LeavingInv, EraseInv, BeginInv, IsInEraseList, RxPcs, Pcs
<1> QED BY <1>1, <1>2, <1>3, <1>4, <1>5, <1>6, <1>7, <1>8, <1>9, <1>10, <1>11, <1>12, <1>13, <1>14, <1>15, <1>16, <1>17, <1>18, <1>19, <1>20, <1>21, <1>22, <1>23, <1>24, <1>25, <1>26, <1>27, <1>28, <1>29 DEF Next, RxStep, CloseStep

(* A closed socket is taken off the list, or someone is about to. *)
LEMMA GoneStep ==
    ASSUME TypeOK, ReturnInv, ListedInv, HandleInv, GoneInv, UseInv, [Next]_vars
    PROVE  GoneInv'
<1> USE ThreadsAssumption, OutgoingAssumption DEF Threads, ClosePcs, At, Goto, Step, Call, Return, threadVars, sktVars, history
<1>1. ASSUME NEW s \in Skts, Accept(s) PROVE GoneInv'
  BY <1>1 DEF Accept, Open, TypeOK, ReturnInv, ListedInv, GoneInv, UseInv, Pending, RxAt, HandleInv, CloserInv, LeavingInv, EraseInv, BeginInv, IsInEraseList, RxPcs, Pcs
<1>2. ASSUME NEW s \in Skts, Connect(s) PROVE GoneInv'
  BY <1>2 DEF Connect, Open, TypeOK, ReturnInv, ListedInv, GoneInv, UseInv, Pending, RxAt, HandleInv, CloserInv, LeavingInv, EraseInv, BeginInv, IsInEraseList, RxPcs, Pcs
<1>3. ASSUME NEW s \in Skts, AddSkt(s) PROVE GoneInv'
  BY <1>3 DEF AddSkt, TypeOK, ReturnInv, ListedInv, GoneInv, UseInv, Pending, RxAt, HandleInv, CloserInv, LeavingInv, EraseInv, BeginInv, IsInEraseList, RxPcs, Pcs
<1>4. ASSUME NEW s \in Skts, RxEarlyEnd(s) PROVE GoneInv'
  BY <1>4 DEF RxEarlyEnd, TypeOK, ReturnInv, ListedInv, GoneInv, UseInv, Pending, RxAt, HandleInv, CloserInv, LeavingInv, EraseInv, BeginInv, IsInEraseList, RxPcs, Pcs
<1>5. ASSUME NEW s \in Skts, RxStart(s) PROVE GoneInv'
  BY <1>5 DEF RxStart, TypeOK, ReturnInv, ListedInv, GoneInv, UseInv, Pending, RxAt, HandleInv, CloserInv, LeavingInv, EraseInv, BeginInv, IsInEraseList, RxPcs, Pcs
<1>6. ASSUME NEW s \in Skts, RxReady(s) PROVE GoneInv'
  BY <1>6 DEF RxReady, TypeOK, ReturnInv, ListedInv, GoneInv, UseInv, Pending, RxAt, HandleInv, CloserInv, LeavingInv, EraseInv, BeginInv, IsInEraseList, RxPcs, Pcs
<1>7. ASSUME NEW s \in Skts, RxLoop(s) PROVE GoneInv'
  BY <1>7 DEF RxLoop, IsConnected, TypeOK, ReturnInv, ListedInv, GoneInv, UseInv, Pending, RxAt, HandleInv, CloserInv, LeavingInv, EraseInv, BeginInv, IsInEraseList, RxPcs, Pcs
<1>8. ASSUME NEW s \in Skts, RecvClosed(s) PROVE GoneInv'
  BY <1>8 DEF RecvClosed, TypeOK, ReturnInv, ListedInv, GoneInv, UseInv, Pending, RxAt, HandleInv, CloserInv, LeavingInv, EraseInv, BeginInv, IsInEraseList, RxPcs, Pcs
<1>9. ASSUME NEW s \in Skts, RecvData(s) PROVE GoneInv'
  BY <1>9 DEF RecvData, TypeOK, ReturnInv, ListedInv, GoneInv, UseInv, Pending, RxAt, HandleInv, CloserInv, LeavingInv, EraseInv, BeginInv, IsInEraseList, RxPcs, Pcs
<1>10. ASSUME NEW s \in Skts, RecvFails(s) PROVE GoneInv'
  BY <1>10 DEF RecvFails, TypeOK, ReturnInv, ListedInv, GoneInv, UseInv, Pending, RxAt, HandleInv, CloserInv, LeavingInv, EraseInv, BeginInv, IsInEraseList, RxPcs, Pcs
<1>11. ASSUME NEW s \in Skts, RxData(s) PROVE GoneInv'
  <2>1. CASE Step(s, "loop")
    BY <1>11, <2>1 DEF RxData, Victims, TypeOK, ReturnInv, ListedInv, GoneInv, UseInv, Pending, RxAt, HandleInv, CloserInv, LeavingInv, EraseInv, BeginInv, IsInEraseList, RxPcs, Pcs
  <2>2. ASSUME NEW x \in Victims(s), NEW p \in LockParams, Call(s, "close", x, "loop", p) PROVE GoneInv'
    BY <1>11, <2>2 DEF RxData, Victims, TypeOK, ReturnInv, ListedInv, GoneInv, UseInv, Pending, RxAt, HandleInv, CloserInv, LeavingInv, EraseInv, BeginInv, IsInEraseList, RxPcs, Pcs
  <2> QED BY <1>11, <2>1, <2>2 DEF RxData, Victims
<1>12. ASSUME NEW s \in Skts, RxExit(s) PROVE GoneInv'
  BY <1>12 DEF RxExit, TypeOK, ReturnInv, ListedInv, GoneInv, UseInv, Pending, RxAt, HandleInv, CloserInv, LeavingInv, EraseInv, BeginInv, IsInEraseList, RxPcs, Pcs
<1>13. ASSUME NEW s \in Skts, RxSetClosed(s) PROVE GoneInv'
  BY <1>13 DEF RxSetClosed, TypeOK, ReturnInv, ListedInv, GoneInv, UseInv, Pending, RxAt, HandleInv, CloserInv, LeavingInv, EraseInv, BeginInv, IsInEraseList, RxPcs, Pcs
<1>14. ASSUME NEW s \in Skts, RxLost(s) PROVE GoneInv'
  BY <1>14 DEF RxLost, Callback, Min2, TypeOK, ReturnInv, ListedInv, GoneInv, UseInv, Pending, RxAt, HandleInv, CloserInv, LeavingInv, EraseInv, BeginInv, IsInEraseList, RxPcs, Pcs
<1>15. ASSUME NEW s \in Skts, RxShut(s) PROVE GoneInv'
  <2>1. CASE sktHandle[s] = "open"
    BY <1>15, <2>1 DEF RxShut, TypeOK, ReturnInv, ListedInv, GoneInv, UseInv, Pending, RxAt, HandleInv, CloserInv, LeavingInv, EraseInv, BeginInv, IsInEraseList, RxPcs, Pcs
  <2>2. CASE sktHandle[s] # "open"
    BY <1>15, <2>2 DEF RxShut, TypeOK, ReturnInv, ListedInv, GoneInv, UseInv, Pending, RxAt, HandleInv, CloserInv, LeavingInv, EraseInv, BeginInv, IsInEraseList, RxPcs, Pcs
  <2> QED BY <1>15, <2>1, <2>2 DEF RxShut
<1>16. ASSUME NEW s \in Skts, RxEvent(s) PROVE GoneInv'
  <2>1. CASE IsInEraseList(s)
    BY <1>16, <2>1 DEF RxEvent, IsInEraseList, TypeOK, ReturnInv, ListedInv, GoneInv, UseInv, Pending, RxAt, HandleInv, CloserInv, LeavingInv, EraseInv, BeginInv, IsInEraseList, RxPcs, Pcs
  <2>2. CASE ~IsInEraseList(s)
    BY <1>16, <2>2 DEF RxEvent, IsInEraseList, TypeOK, ReturnInv, ListedInv, GoneInv, UseInv, Pending, RxAt, HandleInv, CloserInv, LeavingInv, EraseInv, BeginInv, IsInEraseList, RxPcs, Pcs
  <2> QED BY <1>16, <2>1, <2>2 DEF RxEvent, IsInEraseList
<1>17. ASSUME NEW s \in Skts, RxCleanup(s) PROVE GoneInv'
  BY <1>17 DEF RxCleanup, DoSktDeleteCleanup, TypeOK, ReturnInv, ListedInv, GoneInv, UseInv, Pending, RxAt, HandleInv, CloserInv, LeavingInv, EraseInv, BeginInv, IsInEraseList, RxPcs, Pcs
<1>18. ASSUME NEW s \in Skts, RxDone(s) PROVE GoneInv'
  BY <1>18 DEF RxDone, TypeOK, ReturnInv, ListedInv, GoneInv, UseInv, Pending, RxAt, HandleInv, CloserInv, LeavingInv, EraseInv, BeginInv, IsInEraseList, RxPcs, Pcs
<1>19. ASSUME NEW s \in Skts, RxEnd(s) PROVE GoneInv'
  BY <1>19 DEF RxEnd, TypeOK, ReturnInv, ListedInv, GoneInv, UseInv, Pending, RxAt, HandleInv, CloserInv, LeavingInv, EraseInv, BeginInv, IsInEraseList, RxPcs, Pcs
<1>20. ASSUME NEW t \in Others, NEW s \in Skts, OtherClose(t, s) PROVE GoneInv'
  BY <1>20 DEF OtherClose, LockParams, TypeOK, ReturnInv, ListedInv, GoneInv, UseInv, Pending, RxAt, HandleInv, CloserInv, LeavingInv, EraseInv, BeginInv, IsInEraseList, RxPcs, Pcs
<1>21. ASSUME NEW t \in Others, OtherCleanup(t) PROVE GoneInv'
  BY <1>21 DEF OtherCleanup, DoSktDeleteCleanup, TypeOK, ReturnInv, ListedInv, GoneInv, UseInv, Pending, RxAt, HandleInv, CloserInv, LeavingInv, EraseInv, BeginInv, IsInEraseList, RxPcs, Pcs
<1>22. ASSUME NEW t \in Threads, CloseSkt(t) PROVE GoneInv'
  <2>1. CASE sktHandle[target[t]] # "open" \/ IsInEraseList(target[t])
    <3>1. /\ target[t] \in Skts /\ pc[t] = "close"
          /\ pc' = [pc EXCEPT ![t] = ret[t]]
          /\ target' = [target EXCEPT ![t] = NoSkt]
          /\ ret' = [ret EXCEPT ![t] = "idle"]
          /\ UNCHANGED <<sktVars, list, lock, history>>
      BY <1>22, <2>1, CloseReturns
    <3> QED BY <3>1 DEF TypeOK, ReturnInv, GoneInv, Pending, IsInEraseList
  <2>2. CASE ~(sktHandle[target[t]] # "open" \/ IsInEraseList(target[t]))
    <3>1. /\ target[t] \in Skts /\ pc[t] = "close"
          /\ pc' = [pc EXCEPT ![t] = "notify"]
          /\ reason' = [reason EXCEPT ![target[t]] = "Closing"]
          /\ fromRx' \in [Skts -> BOOLEAN]
          /\ byOther' \in [Skts -> BOOLEAN]
          /\ \A x \in Skts : byOther[x] => byOther'[x]
          /\ t # target[t] => byOther'[target[t]]
          /\ UNCHANGED <<target, ret, mgrLocked, sktHandle, connected, aborted, inUse, list, lock, lost, heard>>
      BY <1>22, <2>2, CloseBegins
    <3> QED BY <3>1 DEF TypeOK, ReturnInv, GoneInv, Pending, IsInEraseList
  <2> QED BY <2>1, <2>2
<1>23. ASSUME NEW t \in Threads, CloseCallback(t) PROVE GoneInv'
  <2>1. target[t] \in Skts
    BY <1>23 DEF CloseCallback, TypeOK
  <2> QED BY <1>23, <2>1 DEF CloseCallback, Callback, Min2, TypeOK, ReturnInv, ListedInv, GoneInv, UseInv, Pending, RxAt, HandleInv, CloserInv, LeavingInv, EraseInv, BeginInv, IsInEraseList, RxPcs, Pcs
<1>24. ASSUME NEW t \in Threads, CloseHandle(t) PROVE GoneInv'
  <2>1. target[t] \in Skts
    BY <1>24 DEF CloseHandle, TypeOK
  <2> QED BY <1>24, <2>1 DEF CloseHandle, TypeOK, ReturnInv, ListedInv, GoneInv, UseInv, Pending, RxAt, HandleInv, CloserInv, LeavingInv, EraseInv, BeginInv, IsInEraseList, RxPcs, Pcs
<1>25. ASSUME NEW t \in Threads, CloseAbort(t) PROVE GoneInv'
  <2>1. target[t] \in Skts
    BY <1>25 DEF CloseAbort, TypeOK
  <2>2. CASE IsInEraseList(target[t])
    BY <1>25, <2>1, <2>2 DEF CloseAbort, IsInEraseList, TypeOK, ReturnInv, ListedInv, GoneInv, UseInv, Pending, RxAt, HandleInv, CloserInv, LeavingInv, EraseInv, BeginInv, IsInEraseList, RxPcs, Pcs
  <2>3. CASE ~IsInEraseList(target[t])
    BY <1>25, <2>1, <2>3 DEF CloseAbort, IsInEraseList, TypeOK, ReturnInv, ListedInv, GoneInv, UseInv, Pending, RxAt, HandleInv, CloserInv, LeavingInv, EraseInv, BeginInv, IsInEraseList, RxPcs, Pcs
  <2> QED BY <1>25, <2>2, <2>3 DEF CloseAbort, IsInEraseList
<1>26. ASSUME NEW t \in Threads, LockMgr(t) PROVE GoneInv'
  <2>1. target[t] \in Skts
    BY <1>26 DEF LockMgr, TypeOK
  <2> QED BY <1>26, <2>1 DEF LockMgr, TypeOK, ReturnInv, ListedInv, GoneInv, UseInv, Pending, RxAt, HandleInv, CloserInv, LeavingInv, EraseInv, BeginInv, IsInEraseList, RxPcs, Pcs
<1>27. ASSUME NEW t \in Threads, MoveToEraseList(t) PROVE GoneInv'
  <2>1. target[t] \in Skts
    BY <1>27 DEF MoveToEraseList, TypeOK
  <2>2. CASE list[target[t]] # "listed"
    BY <1>27, <2>1, <2>2 DEF MoveToEraseList, UnlockMgr, Running, TypeOK, ReturnInv, ListedInv, GoneInv, UseInv, Pending, RxAt, HandleInv, CloserInv, LeavingInv, EraseInv, BeginInv, IsInEraseList, RxPcs, Pcs
  <2>3. CASE list[target[t]] = "listed" /\ (fromRx[target[t]] \/ ~Running(target[t]))
    BY <1>27, <2>1, <2>3, SMTT(20) DEF MoveToEraseList, UnlockMgr, Running, TypeOK, ReturnInv, ListedInv, GoneInv, UseInv, Pending, RxAt, HandleInv, CloserInv, LeavingInv, EraseInv, BeginInv, IsInEraseList, RxPcs, Pcs
  <2>4. CASE list[target[t]] = "listed" /\ ~(fromRx[target[t]] \/ ~Running(target[t]))
    BY <1>27, <2>1, <2>4 DEF MoveToEraseList, UnlockMgr, Running, TypeOK, ReturnInv, ListedInv, GoneInv, UseInv, Pending, RxAt, HandleInv, CloserInv, LeavingInv, EraseInv, BeginInv, IsInEraseList, RxPcs, Pcs
  <2> QED BY <1>27, <2>2, <2>3, <2>4 DEF MoveToEraseList, UnlockMgr, Running
<1>28. ASSUME NEW t \in Threads, KillThread(t) PROVE GoneInv'
  <2>1. target[t] \in Skts
    BY <1>28 DEF KillThread, TypeOK
  <2> QED BY <1>28, <2>1 DEF KillThread, UnlockMgr, TypeOK, ReturnInv, ListedInv, GoneInv, UseInv, Pending, RxAt, HandleInv, CloserInv, LeavingInv, EraseInv, BeginInv, IsInEraseList, RxPcs, Pcs
<1>29. CASE UNCHANGED vars
  BY <1>29 DEF vars, TypeOK, ReturnInv, ListedInv, GoneInv, UseInv, Pending, RxAt, HandleInv, CloserInv, LeavingInv, EraseInv, BeginInv, IsInEraseList, RxPcs, Pcs
<1> QED BY <1>1, <1>2, <1>3, <1>4, <1>5, <1>6, <1>7, <1>8, <1>9, <1>10, <1>11, <1>12, <1>13, <1>14, <1>15, <1>16, <1>17, <1>18, <1>19, <1>20, <1>21, <1>22, <1>23, <1>24, <1>25, <1>26, <1>27, <1>28, <1>29 DEF Next, RxStep, CloseStep

(* Only the rx thread ends the use, and deletion respects it. *)
LEMMA UseStep ==
    ASSUME TypeOK, ReturnInv, ListedInv, HandleInv, GoneInv, UseInv, [Next]_vars
    PROVE  UseInv'
<1> USE ThreadsAssumption, OutgoingAssumption DEF Threads, ClosePcs, At, Goto, Step, Call, Return, threadVars, sktVars, history
<1>1. ASSUME NEW s \in Skts, Accept(s) PROVE UseInv'
  BY <1>1 DEF Accept, Open, TypeOK, ReturnInv, ListedInv, GoneInv, UseInv, Pending, RxAt, HandleInv, CloserInv, LeavingInv, EraseInv, BeginInv, IsInEraseList, RxPcs, Pcs
<1>2. ASSUME NEW s \in Skts, Connect(s) PROVE UseInv'
  BY <1>2 DEF Connect, Open, TypeOK, ReturnInv, ListedInv, GoneInv, UseInv, Pending, RxAt, HandleInv, CloserInv, LeavingInv, EraseInv, BeginInv, IsInEraseList, RxPcs, Pcs
<1>3. ASSUME NEW s \in Skts, AddSkt(s) PROVE UseInv'
  BY <1>3 DEF AddSkt, TypeOK, ReturnInv, ListedInv, GoneInv, UseInv, Pending, RxAt, HandleInv, CloserInv, LeavingInv, EraseInv, BeginInv, IsInEraseList, RxPcs, Pcs
<1>4. ASSUME NEW s \in Skts, RxEarlyEnd(s) PROVE UseInv'
  BY <1>4 DEF RxEarlyEnd, TypeOK, ReturnInv, ListedInv, GoneInv, UseInv, Pending, RxAt, HandleInv, CloserInv, LeavingInv, EraseInv, BeginInv, IsInEraseList, RxPcs, Pcs
<1>5. ASSUME NEW s \in Skts, RxStart(s) PROVE UseInv'
  BY <1>5 DEF RxStart, TypeOK, ReturnInv, ListedInv, GoneInv, UseInv, Pending, RxAt, HandleInv, CloserInv, LeavingInv, EraseInv, BeginInv, IsInEraseList, RxPcs, Pcs
<1>6. ASSUME NEW s \in Skts, RxReady(s) PROVE UseInv'
  BY <1>6 DEF RxReady, TypeOK, ReturnInv, ListedInv, GoneInv, UseInv, Pending, RxAt, HandleInv, CloserInv, LeavingInv, EraseInv, BeginInv, IsInEraseList, RxPcs, Pcs
<1>7. ASSUME NEW s \in Skts, RxLoop(s) PROVE UseInv'
  BY <1>7 DEF RxLoop, IsConnected, TypeOK, ReturnInv, ListedInv, GoneInv, UseInv, Pending, RxAt, HandleInv, CloserInv, LeavingInv, EraseInv, BeginInv, IsInEraseList, RxPcs, Pcs
<1>8. ASSUME NEW s \in Skts, RecvClosed(s) PROVE UseInv'
  BY <1>8 DEF RecvClosed, TypeOK, ReturnInv, ListedInv, GoneInv, UseInv, Pending, RxAt, HandleInv, CloserInv, LeavingInv, EraseInv, BeginInv, IsInEraseList, RxPcs, Pcs
<1>9. ASSUME NEW s \in Skts, RecvData(s) PROVE UseInv'
  BY <1>9 DEF RecvData, TypeOK, ReturnInv, ListedInv, GoneInv, UseInv, Pending, RxAt, HandleInv, CloserInv, LeavingInv, EraseInv, BeginInv, IsInEraseList, RxPcs, Pcs
<1>10. ASSUME NEW s \in Skts, RecvFails(s) PROVE UseInv'
  BY <1>10 DEF RecvFails, TypeOK, ReturnInv, ListedInv, GoneInv, UseInv, Pending, RxAt, HandleInv, CloserInv, LeavingInv, EraseInv, BeginInv, IsInEraseList, RxPcs, Pcs
<1>11. ASSUME NEW s \in Skts, RxData(s) PROVE UseInv'
  <2>1. CASE Step(s, "loop")
    BY <1>11, <2>1 DEF RxData, Victims, TypeOK, ReturnInv, ListedInv, GoneInv, UseInv, Pending, RxAt, HandleInv, CloserInv, LeavingInv, EraseInv, BeginInv, IsInEraseList, RxPcs, Pcs
  <2>2. ASSUME NEW x \in Victims(s), NEW p \in LockParams, Call(s, "close", x, "loop", p) PROVE UseInv'
    BY <1>11, <2>2 DEF RxData, Victims, TypeOK, ReturnInv, ListedInv, GoneInv, UseInv, Pending, RxAt, HandleInv, CloserInv, LeavingInv, EraseInv, BeginInv, IsInEraseList, RxPcs, Pcs
  <2> QED BY <1>11, <2>1, <2>2 DEF RxData, Victims
<1>12. ASSUME NEW s \in Skts, RxExit(s) PROVE UseInv'
  BY <1>12 DEF RxExit, TypeOK, ReturnInv, ListedInv, GoneInv, UseInv, Pending, RxAt, HandleInv, CloserInv, LeavingInv, EraseInv, BeginInv, IsInEraseList, RxPcs, Pcs
<1>13. ASSUME NEW s \in Skts, RxSetClosed(s) PROVE UseInv'
  BY <1>13 DEF RxSetClosed, TypeOK, ReturnInv, ListedInv, GoneInv, UseInv, Pending, RxAt, HandleInv, CloserInv, LeavingInv, EraseInv, BeginInv, IsInEraseList, RxPcs, Pcs
<1>14. ASSUME NEW s \in Skts, RxLost(s) PROVE UseInv'
  BY <1>14 DEF RxLost, Callback, Min2, TypeOK, ReturnInv, ListedInv, GoneInv, UseInv, Pending, RxAt, HandleInv, CloserInv, LeavingInv, EraseInv, BeginInv, IsInEraseList, RxPcs, Pcs
<1>15. ASSUME NEW s \in Skts, RxShut(s) PROVE UseInv'
  <2>1. CASE sktHandle[s] = "open"
    BY <1>15, <2>1 DEF RxShut, TypeOK, ReturnInv, ListedInv, GoneInv, UseInv, Pending, RxAt, HandleInv, CloserInv, LeavingInv, EraseInv, BeginInv, IsInEraseList, RxPcs, Pcs
  <2>2. CASE sktHandle[s] # "open"
    BY <1>15, <2>2 DEF RxShut, TypeOK, ReturnInv, ListedInv, GoneInv, UseInv, Pending, RxAt, HandleInv, CloserInv, LeavingInv, EraseInv, BeginInv, IsInEraseList, RxPcs, Pcs
  <2> QED BY <1>15, <2>1, <2>2 DEF RxShut
<1>16. ASSUME NEW s \in Skts, RxEvent(s) PROVE UseInv'
  <2>1. CASE IsInEraseList(s)
    BY <1>16, <2>1 DEF RxEvent, IsInEraseList, TypeOK, ReturnInv, ListedInv, GoneInv, UseInv, Pending, RxAt, HandleInv, CloserInv, LeavingInv, EraseInv, BeginInv, IsInEraseList, RxPcs, Pcs
  <2>2. CASE ~IsInEraseList(s)
    BY <1>16, <2>2 DEF RxEvent, IsInEraseList, TypeOK, ReturnInv, ListedInv, GoneInv, UseInv, Pending, RxAt, HandleInv, CloserInv, LeavingInv, EraseInv, BeginInv, IsInEraseList, RxPcs, Pcs
  <2> QED BY <1>16, <2>1, <2>2 DEF RxEvent, IsInEraseList
<1>17. ASSUME NEW s \in Skts, RxCleanup(s) PROVE UseInv'
  BY <1>17 DEF RxCleanup, DoSktDeleteCleanup, TypeOK, ReturnInv, ListedInv, GoneInv, UseInv, Pending, RxAt, HandleInv, CloserInv, LeavingInv, EraseInv, BeginInv, IsInEraseList, RxPcs, Pcs
<1>18. ASSUME NEW s \in Skts, RxDone(s) PROVE UseInv'
  BY <1>18 DEF RxDone, TypeOK, ReturnInv, ListedInv, GoneInv, UseInv, Pending, RxAt, HandleInv, CloserInv, LeavingInv, EraseInv, BeginInv, IsInEraseList, RxPcs, Pcs
<1>19. ASSUME NEW s \in Skts, RxEnd(s) PROVE UseInv'
  BY <1>19 DEF RxEnd, TypeOK, ReturnInv, ListedInv, GoneInv, UseInv, Pending, RxAt, HandleInv, CloserInv, LeavingInv, EraseInv, BeginInv, IsInEraseList, RxPcs, Pcs
<1>20. ASSUME NEW t \in Others, NEW s \in Skts, OtherClose(t, s) PROVE UseInv'
  BY <1>20 DEF OtherClose, LockParams, TypeOK, ReturnInv, ListedInv, GoneInv, UseInv, Pending, RxAt, HandleInv, CloserInv, LeavingInv, EraseInv, BeginInv, IsInEraseList, RxPcs, Pcs
<1>21. ASSUME NEW t \in Others, OtherCleanup(t) PROVE UseInv'
  BY <1>21 DEF OtherCleanup, DoSktDeleteCleanup, TypeOK, ReturnInv, ListedInv, GoneInv, UseInv, Pending, RxAt, HandleInv, CloserInv, LeavingInv, EraseInv, BeginInv, IsInEraseList, RxPcs, Pcs
<1>22. ASSUME NEW t \in Threads, CloseSkt(t) PROVE UseInv'
  <2>1. target[t] \in Skts
    BY <1>22 DEF CloseSkt, TypeOK
  <2>2. CASE sktHandle[target[t]] # "open" \/ IsInEraseList(target[t])
    BY <1>22, <2>1, <2>2 DEF CloseSkt, IsInEraseList, TypeOK, ReturnInv, ListedInv, GoneInv, UseInv, Pending, RxAt, HandleInv, CloserInv, LeavingInv, EraseInv, BeginInv, IsInEraseList, RxPcs, Pcs
  <2>3. CASE ~(sktHandle[target[t]] # "open" \/ IsInEraseList(target[t]))
    BY <1>22, <2>1, <2>3 DEF CloseSkt, IsInEraseList, TypeOK, ReturnInv, ListedInv, GoneInv, UseInv, Pending, RxAt, HandleInv, CloserInv, LeavingInv, EraseInv, BeginInv, IsInEraseList, RxPcs, Pcs
  <2> QED BY <1>22, <2>2, <2>3 DEF CloseSkt, IsInEraseList
<1>23. ASSUME NEW t \in Threads, CloseCallback(t) PROVE UseInv'
  <2>1. target[t] \in Skts
    BY <1>23 DEF CloseCallback, TypeOK
  <2> QED BY <1>23, <2>1 DEF CloseCallback, Callback, Min2, TypeOK, ReturnInv, ListedInv, GoneInv, UseInv, Pending, RxAt, HandleInv, CloserInv, LeavingInv, EraseInv, BeginInv, IsInEraseList, RxPcs, Pcs
<1>24. ASSUME NEW t \in Threads, CloseHandle(t) PROVE UseInv'
  <2>1. target[t] \in Skts
    BY <1>24 DEF CloseHandle, TypeOK
  <2> QED BY <1>24, <2>1 DEF CloseHandle, TypeOK, ReturnInv, ListedInv, GoneInv, UseInv, Pending, RxAt, HandleInv, CloserInv, LeavingInv, EraseInv, BeginInv, IsInEraseList, RxPcs, Pcs
<1>25. ASSUME NEW t \in Threads, CloseAbort(t) PROVE UseInv'
  <2>1. pc[t] \in ClosePcs /\ (Return(t) \/ (\E next \in ClosePcs : Step(t, next)))
    BY <1>25 DEF CloseAbort
  <2>2. UNCHANGED <<inUse, list>>
    BY <1>25 DEF CloseAbort
  <2>3. \A x \in Skts : RxAt(x)' = RxAt(x) /\ (pc[x] = "none" <=> pc'[x] = "none")
    BY <2>1, RxAtKept
  <2> QED BY <2>2, <2>3 DEF UseInv
<1>26. ASSUME NEW t \in Threads, LockMgr(t) PROVE UseInv'
  <2>1. target[t] \in Skts
    BY <1>26 DEF LockMgr, TypeOK
  <2> QED BY <1>26, <2>1 DEF LockMgr, TypeOK, ReturnInv, ListedInv, GoneInv, UseInv, Pending, RxAt, HandleInv, CloserInv, LeavingInv, EraseInv, BeginInv, IsInEraseList, RxPcs, Pcs
<1>27. ASSUME NEW t \in Threads, MoveToEraseList(t) PROVE UseInv'
  <2>1. target[t] \in Skts
    BY <1>27 DEF MoveToEraseList, TypeOK
  <2>2. CASE list[target[t]] # "listed"
    BY <1>27, <2>1, <2>2, SMTT(20) DEF MoveToEraseList, UnlockMgr, Running, TypeOK, ReturnInv, ListedInv, GoneInv, UseInv, Pending, RxAt, HandleInv, CloserInv, LeavingInv, EraseInv, BeginInv, IsInEraseList, RxPcs, Pcs
  <2>3. CASE list[target[t]] = "listed" /\ (fromRx[target[t]] \/ ~Running(target[t]))
    BY <1>27, <2>1, <2>3, SMTT(20) DEF MoveToEraseList, UnlockMgr, Running, TypeOK, ReturnInv, ListedInv, GoneInv, UseInv, Pending, RxAt, HandleInv, CloserInv, LeavingInv, EraseInv, BeginInv, IsInEraseList, RxPcs, Pcs
  <2>4. CASE list[target[t]] = "listed" /\ ~(fromRx[target[t]] \/ ~Running(target[t]))
    BY <1>27, <2>1, <2>4, SMTT(20) DEF MoveToEraseList, UnlockMgr, Running, TypeOK, ReturnInv, ListedInv, GoneInv, UseInv, Pending, RxAt, HandleInv, CloserInv, LeavingInv, EraseInv, BeginInv, IsInEraseList, RxPcs, Pcs
  <2> QED BY <1>27, <2>2, <2>3, <2>4 DEF MoveToEraseList, UnlockMgr, Running
<1>28. ASSUME NEW t \in Threads, KillThread(t) PROVE UseInv'
  <2>1. target[t] \in Skts
    BY <1>28 DEF KillThread, TypeOK
  <2> QED BY <1>28, <2>1 DEF KillThread, UnlockMgr, TypeOK, ReturnInv, ListedInv, GoneInv, UseInv, Pending, RxAt, HandleInv, CloserInv, LeavingInv, EraseInv, BeginInv, IsInEraseList, RxPcs, Pcs
<1>29. CASE UNCHANGED vars
  BY <1>29 DEF vars, TypeOK, ReturnInv, ListedInv, GoneInv, UseInv, Pending, RxAt, HandleInv, CloserInv, LeavingInv, EraseInv, BeginInv, IsInEraseList, RxPcs, Pcs
<1> QED BY <1>1, <1>2, <1>3, <1>4, <1>5, <1>6, <1>7, <1>8, <1>9, <1>10, <1>11, <1>12, <1>13, <1>14, <1>15, <1>16, <1>17, <1>18, <1>19, <1>20, <1>21, <1>22, <1>23, <1>24, <1>25, <1>26, <1>27, <1>28, <1>29 DEF Next, RxStep, CloseStep

(* A socket no other thread closes is reported lost when its thread leaves the loop. *)
LEMMA OwnStep ==
    ASSUME TypeOK, ReturnInv, ListedInv, HandleInv, OtherInv, OwnInv, [Next]_vars
    PROVE  OwnInv'
<1> USE ThreadsAssumption, OutgoingAssumption DEF Threads, ClosePcs, At, Goto, Step, Call, Return, threadVars, sktVars, history
<1>1. ASSUME NEW s \in Skts, Accept(s) PROVE OwnInv'
  BY <1>1 DEF Accept, Open, TypeOK, ReturnInv, OtherInv, OwnInv, BeginInv, HandleInv, RxAt, BeforeLost, AfterLost, RxPcs, Pcs
<1>2. ASSUME NEW s \in Skts, Connect(s) PROVE OwnInv'
  BY <1>2 DEF Connect, Open, TypeOK, ReturnInv, OtherInv, OwnInv, BeginInv, HandleInv, RxAt, BeforeLost, AfterLost, RxPcs, Pcs
<1>3. ASSUME NEW s \in Skts, AddSkt(s) PROVE OwnInv'
  BY <1>3 DEF AddSkt, TypeOK, ReturnInv, OtherInv, OwnInv, BeginInv, HandleInv, RxAt, BeforeLost, AfterLost, RxPcs, Pcs
<1>4. ASSUME NEW s \in Skts, RxEarlyEnd(s) PROVE OwnInv'
  BY <1>4 DEF RxEarlyEnd, TypeOK, ReturnInv, OtherInv, OwnInv, BeginInv, HandleInv, RxAt, BeforeLost, AfterLost, RxPcs, Pcs
<1>5. ASSUME NEW s \in Skts, RxStart(s) PROVE OwnInv'
  BY <1>5 DEF RxStart, TypeOK, ReturnInv, OtherInv, OwnInv, BeginInv, HandleInv, RxAt, BeforeLost, AfterLost, RxPcs, Pcs
<1>6. ASSUME NEW s \in Skts, RxReady(s) PROVE OwnInv'
  BY <1>6 DEF RxReady, TypeOK, ReturnInv, OtherInv, OwnInv, BeginInv, HandleInv, RxAt, BeforeLost, AfterLost, RxPcs, Pcs
<1>7. ASSUME NEW s \in Skts, RxLoop(s) PROVE OwnInv'
  BY <1>7 DEF RxLoop, IsConnected, TypeOK, ReturnInv, OtherInv, OwnInv, BeginInv, HandleInv, RxAt, BeforeLost, AfterLost, RxPcs, Pcs
<1>8. ASSUME NEW s \in Skts, RecvClosed(s) PROVE OwnInv'
  BY <1>8 DEF RecvClosed, TypeOK, ReturnInv, OtherInv, OwnInv, BeginInv, HandleInv, RxAt, BeforeLost, AfterLost, RxPcs, Pcs
<1>9. ASSUME NEW s \in Skts, RecvData(s) PROVE OwnInv'
  BY <1>9 DEF RecvData, TypeOK, ReturnInv, OtherInv, OwnInv, BeginInv, HandleInv, RxAt, BeforeLost, AfterLost, RxPcs, Pcs
<1>10. ASSUME NEW s \in Skts, RecvFails(s) PROVE OwnInv'
  BY <1>10 DEF RecvFails, TypeOK, ReturnInv, OtherInv, OwnInv, BeginInv, HandleInv, RxAt, BeforeLost, AfterLost, RxPcs, Pcs
<1>11. ASSUME NEW s \in Skts, RxData(s) PROVE OwnInv'
  <2>1. CASE Step(s, "loop")
    BY <1>11, <2>1 DEF RxData, Victims, TypeOK, ReturnInv, OtherInv, OwnInv, BeginInv, HandleInv, RxAt, BeforeLost, AfterLost, RxPcs, Pcs
  <2>2. ASSUME NEW x \in Victims(s), NEW p \in LockParams, Call(s, "close", x, "loop", p) PROVE OwnInv'
    BY <1>11, <2>2 DEF RxData, Victims, TypeOK, ReturnInv, OtherInv, OwnInv, BeginInv, HandleInv, RxAt, BeforeLost, AfterLost, RxPcs, Pcs
  <2> QED BY <1>11, <2>1, <2>2 DEF RxData, Victims
<1>12. ASSUME NEW s \in Skts, RxExit(s) PROVE OwnInv'
  BY <1>12 DEF RxExit, TypeOK, ReturnInv, OtherInv, OwnInv, BeginInv, HandleInv, RxAt, BeforeLost, AfterLost, RxPcs, Pcs
<1>13. ASSUME NEW s \in Skts, RxSetClosed(s) PROVE OwnInv'
  BY <1>13 DEF RxSetClosed, TypeOK, ReturnInv, OtherInv, OwnInv, BeginInv, HandleInv, RxAt, BeforeLost, AfterLost, RxPcs, Pcs
<1>14. ASSUME NEW s \in Skts, RxLost(s) PROVE OwnInv'
  BY <1>14 DEF RxLost, Callback, Min2, TypeOK, ReturnInv, OtherInv, OwnInv, BeginInv, HandleInv, RxAt, BeforeLost, AfterLost, RxPcs, Pcs
<1>15. ASSUME NEW s \in Skts, RxShut(s) PROVE OwnInv'
  <2>1. CASE sktHandle[s] = "open"
    BY <1>15, <2>1 DEF RxShut, TypeOK, ReturnInv, OtherInv, OwnInv, BeginInv, HandleInv, RxAt, BeforeLost, AfterLost, RxPcs, Pcs
  <2>2. CASE sktHandle[s] # "open"
    BY <1>15, <2>2 DEF RxShut, TypeOK, ReturnInv, OtherInv, OwnInv, BeginInv, HandleInv, RxAt, BeforeLost, AfterLost, RxPcs, Pcs
  <2> QED BY <1>15, <2>1, <2>2 DEF RxShut
<1>16. ASSUME NEW s \in Skts, RxEvent(s) PROVE OwnInv'
  <2>1. CASE IsInEraseList(s)
    BY <1>16, <2>1 DEF RxEvent, IsInEraseList, TypeOK, ReturnInv, OtherInv, OwnInv, BeginInv, HandleInv, RxAt, BeforeLost, AfterLost, RxPcs, Pcs
  <2>2. CASE ~IsInEraseList(s)
    BY <1>16, <2>2 DEF RxEvent, IsInEraseList, TypeOK, ReturnInv, OtherInv, OwnInv, BeginInv, HandleInv, RxAt, BeforeLost, AfterLost, RxPcs, Pcs
  <2> QED BY <1>16, <2>1, <2>2 DEF RxEvent, IsInEraseList
<1>17. ASSUME NEW s \in Skts, RxCleanup(s) PROVE OwnInv'
  BY <1>17 DEF RxCleanup, DoSktDeleteCleanup, TypeOK, ReturnInv, OtherInv, OwnInv, BeginInv, HandleInv, RxAt, BeforeLost, AfterLost, RxPcs, Pcs
<1>18. ASSUME NEW s \in Skts, RxDone(s) PROVE OwnInv'
  BY <1>18 DEF RxDone, TypeOK, ReturnInv, OtherInv, OwnInv, BeginInv, HandleInv, RxAt, BeforeLost, AfterLost, RxPcs, Pcs
<1>19. ASSUME NEW s \in Skts, RxEnd(s) PROVE OwnInv'
  BY <1>19 DEF RxEnd, TypeOK, ReturnInv, OtherInv, OwnInv, BeginInv, HandleInv, RxAt, BeforeLost, AfterLost, RxPcs, Pcs
<1>20. ASSUME NEW t \in Others, NEW s \in Skts, OtherClose(t, s) PROVE OwnInv'
  BY <1>20 DEF OtherClose, LockParams, TypeOK, ReturnInv, OtherInv, OwnInv, BeginInv, HandleInv, RxAt, BeforeLost, AfterLost, RxPcs, Pcs
<1>21. ASSUME NEW t \in Others, OtherCleanup(t) PROVE OwnInv'
  BY <1>21 DEF OtherCleanup, DoSktDeleteCleanup, TypeOK, ReturnInv, OtherInv, OwnInv, BeginInv, HandleInv, RxAt, BeforeLost, AfterLost, RxPcs, Pcs
<1>22. ASSUME NEW t \in Threads, CloseSkt(t) PROVE OwnInv'
  <2>1. CASE sktHandle[target[t]] # "open" \/ IsInEraseList(target[t])
    <3>1. /\ target[t] \in Skts /\ pc[t] = "close"
          /\ pc' = [pc EXCEPT ![t] = ret[t]]
          /\ target' = [target EXCEPT ![t] = NoSkt]
          /\ ret' = [ret EXCEPT ![t] = "idle"]
          /\ UNCHANGED <<sktVars, list, lock, history>>
      BY <1>22, <2>1, CloseReturns
    <3> QED BY <3>1 DEF TypeOK, ReturnInv, OtherInv, OwnInv, BeginInv, HandleInv, RxAt, BeforeLost, AfterLost, RxPcs, Pcs
  <2>2. CASE ~(sktHandle[target[t]] # "open" \/ IsInEraseList(target[t]))
    <3>1. /\ target[t] \in Skts /\ pc[t] = "close"
          /\ pc' = [pc EXCEPT ![t] = "notify"]
          /\ reason' = [reason EXCEPT ![target[t]] = "Closing"]
          /\ fromRx' \in [Skts -> BOOLEAN]
          /\ byOther' \in [Skts -> BOOLEAN]
          /\ \A x \in Skts : byOther[x] => byOther'[x]
          /\ t # target[t] => byOther'[target[t]]
          /\ UNCHANGED <<target, ret, mgrLocked, sktHandle, connected, aborted, inUse, list, lock, lost, heard>>
      BY <1>22, <2>2, CloseBegins
    <3> QED BY <3>1 DEF TypeOK, ReturnInv, OtherInv, OwnInv, BeginInv, HandleInv, RxAt, BeforeLost, AfterLost, RxPcs, Pcs
  <2> QED BY <2>1, <2>2
<1>23. ASSUME NEW t \in Threads, CloseCallback(t) PROVE OwnInv'
  <2>1. target[t] \in Skts
    BY <1>23 DEF CloseCallback, TypeOK
  <2> QED BY <1>23, <2>1 DEF CloseCallback, Callback, Min2, TypeOK, ReturnInv, OtherInv, OwnInv, BeginInv, HandleInv, RxAt, BeforeLost, AfterLost, RxPcs, Pcs
<1>24. ASSUME NEW t \in Threads, CloseHandle(t) PROVE OwnInv'
  <2>1. target[t] \in Skts
    BY <1>24 DEF CloseHandle, TypeOK
  <2> QED BY <1>24, <2>1 DEF CloseHandle, TypeOK, ReturnInv, OtherInv, OwnInv, BeginInv, HandleInv, RxAt, BeforeLost, AfterLost, RxPcs, Pcs
<1>25. ASSUME NEW t \in Threads, CloseAbort(t) PROVE OwnInv'
  <2>1. target[t] \in Skts
    BY <1>25 DEF CloseAbort, TypeOK
  <2>2. CASE IsInEraseList(target[t])
    BY <1>25, <2>1, <2>2 DEF CloseAbort, IsInEraseList, TypeOK, ReturnInv, OtherInv, OwnInv, BeginInv, HandleInv, RxAt, BeforeLost, AfterLost, RxPcs, Pcs
  <2>3. CASE ~IsInEraseList(target[t])
    BY <1>25, <2>1, <2>3 DEF CloseAbort, IsInEraseList, TypeOK, ReturnInv, OtherInv, OwnInv, BeginInv, HandleInv, RxAt, BeforeLost, AfterLost, RxPcs, Pcs
  <2> QED BY <1>25, <2>2, <2>3 DEF CloseAbort, IsInEraseList
<1>26. ASSUME NEW t \in Threads, LockMgr(t) PROVE OwnInv'
  <2>1. target[t] \in Skts
    BY <1>26 DEF LockMgr, TypeOK
  <2> QED BY <1>26, <2>1 DEF LockMgr, TypeOK, ReturnInv, OtherInv, OwnInv, BeginInv, HandleInv, RxAt, BeforeLost, AfterLost, RxPcs, Pcs
<1>27. ASSUME NEW t \in Threads, MoveToEraseList(t) PROVE OwnInv'
  <2>1. target[t] \in Skts
    BY <1>27 DEF MoveToEraseList, TypeOK
  <2>2. CASE list[target[t]] # "listed"
    BY <1>27, <2>1, <2>2 DEF MoveToEraseList, UnlockMgr, Running, TypeOK, ReturnInv, OtherInv, OwnInv, BeginInv, HandleInv, RxAt, BeforeLost, AfterLost, RxPcs, Pcs
  <2>3. CASE list[target[t]] = "listed" /\ (fromRx[target[t]] \/ ~Running(target[t]))
    BY <1>27, <2>1, <2>3, SMTT(20) DEF MoveToEraseList, UnlockMgr, Running, TypeOK, ReturnInv, OtherInv, OwnInv, BeginInv, HandleInv, RxAt, BeforeLost, AfterLost, RxPcs, Pcs
  <2>4. CASE list[target[t]] = "listed" /\ ~(fromRx[target[t]] \/ ~Running(target[t]))
    BY <1>27, <2>1, <2>4 DEF MoveToEraseList, UnlockMgr, Running, TypeOK, ReturnInv, OtherInv, OwnInv, BeginInv, HandleInv, RxAt, BeforeLost, AfterLost, RxPcs, Pcs
  <2> QED BY <1>27, <2>2, <2>3, <2>4 DEF MoveToEraseList, UnlockMgr, Running
<1>28. ASSUME NEW t \in Threads, KillThread(t) PROVE OwnInv'
  <2>1. target[t] \in Skts
    BY <1>28 DEF KillThread, TypeOK
  <2> QED BY <1>28, <2>1 DEF KillThread, UnlockMgr, TypeOK, ReturnInv, OtherInv, OwnInv, BeginInv, HandleInv, RxAt, BeforeLost, AfterLost, RxPcs, Pcs
<1>29. CASE UNCHANGED vars
  BY <1>29 DEF vars, TypeOK, ReturnInv, OtherInv, OwnInv, BeginInv, HandleInv, RxAt, BeforeLost, AfterLost, RxPcs, Pcs
<1> QED BY <1>1, <1>2, <1>3, <1>4, <1>5, <1>6, <1>7, <1>8, <1>9, <1>10, <1>11, <1>12, <1>13, <1>14, <1>15, <1>16, <1>17, <1>18, <1>19, <1>20, <1>21, <1>22, <1>23, <1>24, <1>25, <1>26, <1>27, <1>28, <1>29 DEF Next, RxStep, CloseStep

(* A thread that has ended leaves connected only what is being closed. *)
LEMMA ConnectedStep ==
    ASSUME TypeOK, ReturnInv, ListedInv, HandleInv, GoneInv, ConnectedInv, [Next]_vars
    PROVE  ConnectedInv'
<1> USE ThreadsAssumption, OutgoingAssumption DEF Threads, ClosePcs, At, Goto, Step, Call, Return, threadVars, sktVars, history
<1>1. ASSUME NEW s \in Skts, Accept(s) PROVE ConnectedInv'
  BY <1>1 DEF Accept, Open, TypeOK, ReturnInv, ListedInv, GoneInv, ConnectedInv, Pending, RxAt, HandleInv, CloserInv, LeavingInv, EraseInv, BeginInv, IsInEraseList, RxPcs, Pcs
<1>2. ASSUME NEW s \in Skts, Connect(s) PROVE ConnectedInv'
  BY <1>2 DEF Connect, Open, TypeOK, ReturnInv, ListedInv, GoneInv, ConnectedInv, Pending, RxAt, HandleInv, CloserInv, LeavingInv, EraseInv, BeginInv, IsInEraseList, RxPcs, Pcs
<1>3. ASSUME NEW s \in Skts, AddSkt(s) PROVE ConnectedInv'
  BY <1>3 DEF AddSkt, TypeOK, ReturnInv, ListedInv, GoneInv, ConnectedInv, Pending, RxAt, HandleInv, CloserInv, LeavingInv, EraseInv, BeginInv, IsInEraseList, RxPcs, Pcs
<1>4. ASSUME NEW s \in Skts, RxEarlyEnd(s) PROVE ConnectedInv'
  BY <1>4 DEF RxEarlyEnd, TypeOK, ReturnInv, ListedInv, GoneInv, ConnectedInv, Pending, RxAt, HandleInv, CloserInv, LeavingInv, EraseInv, BeginInv, IsInEraseList, RxPcs, Pcs
<1>5. ASSUME NEW s \in Skts, RxStart(s) PROVE ConnectedInv'
  BY <1>5 DEF RxStart, TypeOK, ReturnInv, ListedInv, GoneInv, ConnectedInv, Pending, RxAt, HandleInv, CloserInv, LeavingInv, EraseInv, BeginInv, IsInEraseList, RxPcs, Pcs
<1>6. ASSUME NEW s \in Skts, RxReady(s) PROVE ConnectedInv'
  BY <1>6 DEF RxReady, TypeOK, ReturnInv, ListedInv, GoneInv, ConnectedInv, Pending, RxAt, HandleInv, CloserInv, LeavingInv, EraseInv, BeginInv, IsInEraseList, RxPcs, Pcs
<1>7. ASSUME NEW s \in Skts, RxLoop(s) PROVE ConnectedInv'
  BY <1>7 DEF RxLoop, IsConnected, TypeOK, ReturnInv, ListedInv, GoneInv, ConnectedInv, Pending, RxAt, HandleInv, CloserInv, LeavingInv, EraseInv, BeginInv, IsInEraseList, RxPcs, Pcs
<1>8. ASSUME NEW s \in Skts, RecvClosed(s) PROVE ConnectedInv'
  BY <1>8 DEF RecvClosed, TypeOK, ReturnInv, ListedInv, GoneInv, ConnectedInv, Pending, RxAt, HandleInv, CloserInv, LeavingInv, EraseInv, BeginInv, IsInEraseList, RxPcs, Pcs
<1>9. ASSUME NEW s \in Skts, RecvData(s) PROVE ConnectedInv'
  BY <1>9 DEF RecvData, TypeOK, ReturnInv, ListedInv, GoneInv, ConnectedInv, Pending, RxAt, HandleInv, CloserInv, LeavingInv, EraseInv, BeginInv, IsInEraseList, RxPcs, Pcs
<1>10. ASSUME NEW s \in Skts, RecvFails(s) PROVE ConnectedInv'
  BY <1>10 DEF RecvFails, TypeOK, ReturnInv, ListedInv, GoneInv, ConnectedInv, Pending, RxAt, HandleInv, CloserInv, LeavingInv, EraseInv, BeginInv, IsInEraseList, RxPcs, Pcs
<1>11. ASSUME NEW s \in Skts, RxData(s) PROVE ConnectedInv'
  <2>1. CASE Step(s, "loop")
    BY <1>11, <2>1 DEF RxData, Victims, TypeOK, ReturnInv, ListedInv, GoneInv, ConnectedInv, Pending, RxAt, HandleInv, CloserInv, LeavingInv, EraseInv, BeginInv, IsInEraseList, RxPcs, Pcs
  <2>2. ASSUME NEW x \in Victims(s), NEW p \in LockParams, Call(s, "close", x, "loop", p) PROVE ConnectedInv'
    BY <1>11, <2>2 DEF RxData, Victims, TypeOK, ReturnInv, ListedInv, GoneInv, ConnectedInv, Pending, RxAt, HandleInv, CloserInv, LeavingInv, EraseInv, BeginInv, IsInEraseList, RxPcs, Pcs
  <2> QED BY <1>11, <2>1, <2>2 DEF RxData, Victims
<1>12. ASSUME NEW s \in Skts, RxExit(s) PROVE ConnectedInv'
  BY <1>12 DEF RxExit, TypeOK, ReturnInv, ListedInv, GoneInv, ConnectedInv, Pending, RxAt, HandleInv, CloserInv, LeavingInv, EraseInv, BeginInv, IsInEraseList, RxPcs, Pcs
<1>13. ASSUME NEW s \in Skts, RxSetClosed(s) PROVE ConnectedInv'
  BY <1>13 DEF RxSetClosed, TypeOK, ReturnInv, ListedInv, GoneInv, ConnectedInv, Pending, RxAt, HandleInv, CloserInv, LeavingInv, EraseInv, BeginInv, IsInEraseList, RxPcs, Pcs
<1>14. ASSUME NEW s \in Skts, RxLost(s) PROVE ConnectedInv'
  BY <1>14 DEF RxLost, Callback, Min2, TypeOK, ReturnInv, ListedInv, GoneInv, ConnectedInv, Pending, RxAt, HandleInv, CloserInv, LeavingInv, EraseInv, BeginInv, IsInEraseList, RxPcs, Pcs
<1>15. ASSUME NEW s \in Skts, RxShut(s) PROVE ConnectedInv'
  <2>1. CASE sktHandle[s] = "open"
    BY <1>15, <2>1, SMTT(20) DEF RxShut, TypeOK, ReturnInv, ListedInv, GoneInv, ConnectedInv, Pending, RxAt, HandleInv, CloserInv, LeavingInv, EraseInv, BeginInv, IsInEraseList, RxPcs, Pcs
  <2>2. CASE sktHandle[s] # "open"
    BY <1>15, <2>2 DEF RxShut, TypeOK, ReturnInv, ListedInv, GoneInv, ConnectedInv, Pending, RxAt, HandleInv, CloserInv, LeavingInv, EraseInv, BeginInv, IsInEraseList, RxPcs, Pcs
  <2> QED BY <1>15, <2>1, <2>2 DEF RxShut
<1>16. ASSUME NEW s \in Skts, RxEvent(s) PROVE ConnectedInv'
  <2>1. CASE IsInEraseList(s)
    BY <1>16, <2>1 DEF RxEvent, IsInEraseList, TypeOK, ReturnInv, ListedInv, GoneInv, ConnectedInv, Pending, RxAt, HandleInv, CloserInv, LeavingInv, EraseInv, BeginInv, IsInEraseList, RxPcs, Pcs
  <2>2. CASE ~IsInEraseList(s)
    BY <1>16, <2>2 DEF RxEvent, IsInEraseList, TypeOK, ReturnInv, ListedInv, GoneInv, ConnectedInv, Pending, RxAt, HandleInv, CloserInv, LeavingInv, EraseInv, BeginInv, IsInEraseList, RxPcs, Pcs
  <2> QED BY <1>16, <2>1, <2>2 DEF RxEvent, IsInEraseList
<1>17. ASSUME NEW s \in Skts, RxCleanup(s) PROVE ConnectedInv'
  BY <1>17 DEF RxCleanup, DoSktDeleteCleanup, TypeOK, ReturnInv, ListedInv, GoneInv, ConnectedInv, Pending, RxAt, HandleInv, CloserInv, LeavingInv, EraseInv, BeginInv, IsInEraseList, RxPcs, Pcs
<1>18. ASSUME NEW s \in Skts, RxDone(s) PROVE ConnectedInv'
  BY <1>18 DEF RxDone, TypeOK, ReturnInv, ListedInv, GoneInv, ConnectedInv, Pending, RxAt, HandleInv, CloserInv, LeavingInv, EraseInv, BeginInv, IsInEraseList, RxPcs, Pcs
<1>19. ASSUME NEW s \in Skts, RxEnd(s) PROVE ConnectedInv'
  BY <1>19 DEF RxEnd, TypeOK, ReturnInv, ListedInv, GoneInv, ConnectedInv, Pending, RxAt, HandleInv, CloserInv, LeavingInv, EraseInv, BeginInv, IsInEraseList, RxPcs, Pcs
<1>20. ASSUME NEW t \in Others, NEW s \in Skts, OtherClose(t, s) PROVE ConnectedInv'
  <2>1. \A x \in Skts : connected'[x] => connected[x]
    BY <1>20 DEF OtherClose, TypeOK
  <2>2. HandleInv /\ UNCHANGED <<list, sktHandle>> /\ At(t, "idle")
    BY <1>20 DEF OtherClose
  <2>3. pc' = [pc EXCEPT ![t] = "close"] /\ (\E p \in LockParams : Call(t, "close", s, "idle", p))
    BY <1>20 DEF OtherClose
  <2>4. target' = [target EXCEPT ![t] = s] /\ ret' = [ret EXCEPT ![t] = "idle"]
    BY <2>3
  <2> QED BY <2>1, <2>2, <2>3, <2>4 DEF HandleInv, ConnectedInv, Pending, RxAt, TypeOK, ReturnInv
<1>21. ASSUME NEW t \in Others, OtherCleanup(t) PROVE ConnectedInv'
  BY <1>21 DEF OtherCleanup, DoSktDeleteCleanup, TypeOK, ReturnInv, ListedInv, GoneInv, ConnectedInv, Pending, RxAt, HandleInv, CloserInv, LeavingInv, EraseInv, BeginInv, IsInEraseList, RxPcs, Pcs
<1>22. ASSUME NEW t \in Threads, CloseSkt(t) PROVE ConnectedInv'
  <2>1. target[t] \in Skts
    BY <1>22 DEF CloseSkt, TypeOK
  <2>2. CASE sktHandle[target[t]] # "open" \/ IsInEraseList(target[t])
    BY <1>22, <2>1, <2>2 DEF CloseSkt, IsInEraseList, TypeOK, ReturnInv, ListedInv, GoneInv, ConnectedInv, Pending, RxAt, HandleInv, CloserInv, LeavingInv, EraseInv, BeginInv, IsInEraseList, RxPcs, Pcs
  <2>3. CASE ~(sktHandle[target[t]] # "open" \/ IsInEraseList(target[t]))
    BY <1>22, <2>1, <2>3 DEF CloseSkt, IsInEraseList, TypeOK, ReturnInv, ListedInv, GoneInv, ConnectedInv, Pending, RxAt, HandleInv, CloserInv, LeavingInv, EraseInv, BeginInv, IsInEraseList, RxPcs, Pcs
  <2> QED BY <1>22, <2>2, <2>3 DEF CloseSkt, IsInEraseList
<1>23. ASSUME NEW t \in Threads, CloseCallback(t) PROVE ConnectedInv'
  <2>1. target[t] \in Skts
    BY <1>23 DEF CloseCallback, TypeOK
  <2> QED BY <1>23, <2>1 DEF CloseCallback, Callback, Min2, TypeOK, ReturnInv, ListedInv, GoneInv, ConnectedInv, Pending, RxAt, HandleInv, CloserInv, LeavingInv, EraseInv, BeginInv, IsInEraseList, RxPcs, Pcs
<1>24. ASSUME NEW t \in Threads, CloseHandle(t) PROVE ConnectedInv'
  <2>1. target[t] \in Skts
    BY <1>24 DEF CloseHandle, TypeOK
  <2> QED BY <1>24, <2>1 DEF CloseHandle, TypeOK, ReturnInv, ListedInv, GoneInv, ConnectedInv, Pending, RxAt, HandleInv, CloserInv, LeavingInv, EraseInv, BeginInv, IsInEraseList, RxPcs, Pcs
<1>25. ASSUME NEW t \in Threads, CloseAbort(t) PROVE ConnectedInv'
  <2>1. target[t] \in Skts
    BY <1>25 DEF CloseAbort, TypeOK
  <2>2. CASE IsInEraseList(target[t])
    BY <1>25, <2>1, <2>2 DEF CloseAbort, IsInEraseList, TypeOK, ReturnInv, ListedInv, GoneInv, ConnectedInv, Pending, RxAt, HandleInv, CloserInv, LeavingInv, EraseInv, BeginInv, IsInEraseList, RxPcs, Pcs
  <2>3. CASE ~IsInEraseList(target[t])
    BY <1>25, <2>1, <2>3 DEF CloseAbort, IsInEraseList, TypeOK, ReturnInv, ListedInv, GoneInv, ConnectedInv, Pending, RxAt, HandleInv, CloserInv, LeavingInv, EraseInv, BeginInv, IsInEraseList, RxPcs, Pcs
  <2> QED BY <1>25, <2>2, <2>3 DEF CloseAbort, IsInEraseList
<1>26. ASSUME NEW t \in Threads, LockMgr(t) PROVE ConnectedInv'
  <2>1. target[t] \in Skts
    BY <1>26 DEF LockMgr, TypeOK
  <2> QED BY <1>26, <2>1 DEF LockMgr, TypeOK, ReturnInv, ListedInv, GoneInv, ConnectedInv, Pending, RxAt, HandleInv, CloserInv, LeavingInv, EraseInv, BeginInv, IsInEraseList, RxPcs, Pcs
<1>27. ASSUME NEW t \in Threads, MoveToEraseList(t) PROVE ConnectedInv'
  <2>1. CASE list[target[t]] # "listed"
    BY <1>27, <2>1, SMTT(20) DEF MoveToEraseList, TypeOK, ReturnInv, ListedInv, GoneInv, ConnectedInv, Pending, RxAt, IsInEraseList, HandleInv, EraseInv, LeavingInv, CloserInv, RxPcs, Pcs
  <2>2. CASE list[target[t]] = "listed"
    <3>1. /\ target[t] \in Skts /\ pc[t] = "move"
          /\ list' = [list EXCEPT ![target[t]] = "toDelete"]
          /\ connected' = [connected EXCEPT ![target[t]] = FALSE]
          /\ aborted' = [aborted EXCEPT ![target[t]] = TRUE]
          /\ \/ /\ pc' = [pc EXCEPT ![t] = ret[t]]
                /\ target' = [target EXCEPT ![t] = NoSkt]
                /\ ret' = [ret EXCEPT ![t] = "idle"]
             \/ pc' = [pc EXCEPT ![t] = "kill"] /\ UNCHANGED <<target, ret>>
          /\ UNCHANGED <<sktHandle, reason, fromRx, inUse, lost, heard, byOther>>
      BY <1>27, <2>2, MoveEffect, SMTT(30)
    <3>2. pc[t] \in ClosePcs /\ (Return(t) \/ (\E next \in ClosePcs : Step(t, next)))
      BY <1>27, <2>2 DEF MoveToEraseList
    <3>3. \A x \in Skts : RxAt(x)' = RxAt(x)
      BY <3>2, RxAtKept
    <3>7. \A r \in Threads \ {t} : pc'[r] = pc[r] /\ target'[r] = target[r]
      BY <3>1 DEF TypeOK
    <3>4. \A x \in Skts : Pending(x) /\ x # target[t] => Pending(x)'
      BY <3>7 DEF Pending
    <3>5. \A x \in Skts : pc'[x] = "ended" => pc[x] = "ended"
      BY <3>1 DEF TypeOK, ReturnInv
    <3>6. \A x \in Skts : connected'[x] => connected[x] /\ x # target[t]
      BY <3>1, Zenon DEF TypeOK
    <3>8. \A x \in Skts : list[x] # "none" => list'[x] # "none"
      BY <3>1 DEF TypeOK
    <3> QED BY <3>3, <3>4, <3>5, <3>6, <3>8 DEF ConnectedInv
  <2> QED BY <2>1, <2>2
<1>28. ASSUME NEW t \in Threads, KillThread(t) PROVE ConnectedInv'
  <2>1. target[t] \in Skts
    BY <1>28 DEF KillThread, TypeOK
  <2> QED BY <1>28, <2>1 DEF KillThread, UnlockMgr, TypeOK, ReturnInv, ListedInv, GoneInv, ConnectedInv, Pending, RxAt, HandleInv, CloserInv, LeavingInv, EraseInv, BeginInv, IsInEraseList, RxPcs, Pcs
<1>29. CASE UNCHANGED vars
  BY <1>29 DEF vars, TypeOK, ReturnInv, ListedInv, GoneInv, ConnectedInv, Pending, RxAt, HandleInv, CloserInv, LeavingInv, EraseInv, BeginInv, IsInEraseList, RxPcs, Pcs
<1> QED BY <1>1, <1>2, <1>3, <1>4, <1>5, <1>6, <1>7, <1>8, <1>9, <1>10, <1>11, <1>12, <1>13, <1>14, <1>15, <1>16, <1>17, <1>18, <1>19, <1>20, <1>21, <1>22, <1>23, <1>24, <1>25, <1>26, <1>27, <1>28, <1>29 DEF Next, RxStep, CloseStep

-----------------------------------------------------------------------------
(* The inductive invariant and the theorems *)

CloseInv ==
    /\ TypeOK /\ ReturnInv /\ OtherInv /\ OwnInv
    /\ ListedInv /\ HandleInv /\ GoneInv /\ UseInv /\ ConnectedInv

(* The two halves make the whole. *)
LEMMA TypeHalves == TypeOK <=> ThreadTyped /\ SktTyped
  BY DEF TypeOK, ThreadTyped, SktTyped

(* Before anything has begun. *)
LEMMA CloseInit == Init => CloseInv
<1> SUFFICES ASSUME Init PROVE CloseInv
  OBVIOUS
<1> USE ThreadsAssumption DEF Init, Threads, ClosePcs, RxPcs, Pcs
<1>1. ThreadTyped
  BY DEF ThreadTyped
<1>2. SktTyped
  BY DEF SktTyped
<1>3. TypeOK
  BY <1>1, <1>2, TypeHalves
<1>4. ReturnInv /\ OtherInv /\ ListedInv
  BY DEF ReturnInv, OtherInv, ListedInv
<1>5. HandleInv
  BY DEF HandleInv, CloserInv, LeavingInv, EraseInv, BeginInv, IsInEraseList
<1>6. OwnInv /\ GoneInv /\ UseInv /\ ConnectedInv
  BY DEF OwnInv, GoneInv, UseInv, ConnectedInv, RxAt, BeforeLost, AfterLost
<1> QED BY <1>3, <1>4, <1>5, <1>6 DEF CloseInv

(* Every step keeps all of it. *)
LEMMA CloseNext == CloseInv /\ [Next]_vars => CloseInv'
<1> SUFFICES ASSUME CloseInv, [Next]_vars PROVE CloseInv'
  OBVIOUS
<1>1. /\ TypeOK /\ ReturnInv /\ OtherInv /\ OwnInv
      /\ ListedInv /\ HandleInv /\ GoneInv /\ UseInv /\ ConnectedInv
  BY DEF CloseInv
<1>2. ThreadTyped' /\ ReturnInv'
  BY <1>1, ThreadStep
<1>3. TypeOK'
  <2>1. SktTyped'
    BY <1>1, SktStep
  <2> QED BY <1>2, <2>1 DEF TypeOK, ThreadTyped, SktTyped
<1>4. OtherInv'
  BY <1>1, OtherStep
<1>5. ListedInv'
  BY <1>1, ListedStep
<1>6. HandleInv'
  <2>1. CloserInv'
    BY <1>1, CloserStep
  <2>2. LeavingInv'
    BY <1>1, LeavingStep
  <2>3. EraseInv'
    BY <1>1, EraseStep
  <2>4. BeginInv'
    BY <1>1, BeginStep
  <2> QED BY <2>1, <2>2, <2>3, <2>4 DEF HandleInv
<1>7. GoneInv'
  BY <1>1, GoneStep
<1>8. UseInv'
  BY <1>1, UseStep
<1>9. OwnInv'
  BY <1>1, OwnStep
<1>10. ConnectedInv'
  BY <1>1, ConnectedStep
<1> QED BY <1>2, <1>3, <1>4, <1>5, <1>6, <1>7, <1>8, <1>9, <1>10 DEF CloseInv

(* The invariant holds in every reachable state, for any sockets, threads  *)
(* and inputs.                                                             *)
THEOREM CloseInvHolds == Spec => []CloseInv
<1> QED BY CloseInit, CloseNext, PTL DEF Spec

(* Every variable keeps its type; above all, whoever is in closeSkt has a  *)
(* socket there.                                                           *)
THEOREM SktTypeCorrect == Spec => []TypeOK
<1>1. CloseInv => TypeOK
  BY DEF CloseInv
<1> QED BY CloseInvHolds, <1>1, PTL

(* onConnectionLost runs once for a connection that no other thread        *)
(* closes, whatever its own handlers and the other end do.                 *)
THEOREM ToldOnce == Spec => []LostOnce
<1>1. CloseInv => LostOnce
  <2> SUFFICES ASSUME CloseInv, NEW s \in Skts, ~byOther[s]
               PROVE  lost[s] = 1 \/ (lost[s] = 0 /\ pc[s] # "ended")
    BY DEF LostOnce
  <2>1. RxAt(s) \in BeforeLost \union AfterLost
    BY DEF CloseInv, TypeOK, ReturnInv, RxAt, BeforeLost, AfterLost, Threads, Pcs, RxPcs, ClosePcs
  <2>2. pc[s] = "ended" => RxAt(s) \in AfterLost
    BY DEF RxAt, AfterLost, ClosePcs
  <2>3. /\ RxAt(s) \in BeforeLost => lost[s] = 0
        /\ RxAt(s) \in AfterLost => lost[s] = 1
    BY DEF CloseInv, OwnInv
  <2> QED BY <2>1, <2>2, <2>3
<1> QED BY CloseInvHolds, <1>1, PTL

(* No handle is leaked, and no accepted socket left among the connections, *)
(* whichever threads close it and in whatever order their steps come.      *)
THEOREM NothingLeaks == Spec => []EndedIsClosed
<1>1. CloseInv => EndedIsClosed
  <2> SUFFICES ASSUME CloseInv, NEW s \in Skts, pc[s] = "ended", \A t \in Threads : target[t] # s
               PROVE  sktHandle[s] = "closed" /\ ~connected[s] /\ (s \notin Outgoing => IsInEraseList(s))
    BY DEF EndedIsClosed
  <2>1. ~Pending(s)
    BY DEF Pending
  <2>2. sktHandle[s] = "closed"
    BY DEF CloseInv, HandleInv, LeavingInv
  <2>3. ~connected[s]
    BY <2>1 DEF CloseInv, ConnectedInv
  <2>4. s \notin Outgoing => IsInEraseList(s)
    BY <2>1, <2>2 DEF CloseInv, GoneInv
  <2> QED BY <2>2, <2>3, <2>4
<1> QED BY CloseInvHolds, <1>1, PTL

(* A socket is deleted only when its rx thread is past using it.           *)
THEOREM DeletedLast == Spec => []DeletedIsUnused
<1>1. CloseInv => DeletedIsUnused
  BY DEF CloseInv, HandleInv, EraseInv, UseInv, IsInEraseList, DeletedIsUnused
<1> QED BY CloseInvHolds, <1>1, PTL

-----------------------------------------------------------------------------
(* The lock of the manager, and threads that wait for themselves *)

(* Whoever is about to take the lock has said that he does not hold it. *)
LockInv == LockedToErase /\ \A t \in Threads : pc[t] = "lock" => ~mgrLocked[t]

(* A socket that no other thread closes is marked as closed by its rx      *)
(* thread before this one can find it listed.                              *)
MarkInv ==
    \A s \in Skts : ~byOther[s] =>
        /\ pc[s] \in ClosePcs \ {"close"} /\ target[s] = s => fromRx[s]
        /\ aborted[s] => fromRx[s]
        /\ RxAt(s) \in {"closed", "lost", "shut", "event", "cleanup", "done", "last"} => fromRx[s]
        /\ ~(pc[s] = "kill" /\ target[s] = s)

(* What closeSkt leaves of the parameter, where it returns at once, and of *)
(* the mark.                                                               *)
LEMMA CloseUnlocks ==
    ASSUME TypeOK, NEW t \in Threads, CloseSkt(t),
           sktHandle[target[t]] # "open" \/ IsInEraseList(target[t])
    PROVE  mgrLocked' = [mgrLocked EXCEPT ![t] = FALSE]
BY DEF CloseSkt, Return, Call

LEMMA CloseMarks ==
    ASSUME TypeOK, NEW t \in Threads, CloseSkt(t),
           ~(sktHandle[target[t]] # "open" \/ IsInEraseList(target[t]))
    PROVE  /\ \A x \in Skts : fromRx[x] => fromRx'[x]
           /\ t = target[t] => fromRx'[t]
<1> DEFINE s == target[t]
<1>1. s \in Skts
  BY DEF CloseSkt, At, TypeOK, ClosePcs
<1>2. fromRx' = [fromRx EXCEPT ![s] = @ \/ t = s]
  BY DEF CloseSkt
<1>3. fromRx'[s] = (fromRx[s] \/ t = s) /\ \A x \in Skts : x # s => fromRx'[x] = fromRx[x]
  BY <1>1, <1>2, Zenon DEF TypeOK
<1> QED BY <1>1, <1>3

(* Every step keeps it. *)
LEMMA LockStep ==
    ASSUME TypeOK, ReturnInv, LockInv, [Next]_vars
    PROVE  LockInv'
<1> USE ThreadsAssumption, OutgoingAssumption
        DEF Threads, ClosePcs, At, Goto, Step, Call, Return, threadVars, sktVars, history,
            LockInv, LockedToErase, TypeOK, ReturnInv, RxPcs, Pcs
<1>1. ASSUME NEW s \in Skts, Accept(s) PROVE LockInv'
  BY <1>1 DEF Accept, Open
<1>2. ASSUME NEW s \in Skts, Connect(s) PROVE LockInv'
  BY <1>2 DEF Connect, Open
<1>3. ASSUME NEW s \in Skts, AddSkt(s) PROVE LockInv'
  BY <1>3 DEF AddSkt
<1>4. ASSUME NEW s \in Skts, RxEarlyEnd(s) PROVE LockInv'
  BY <1>4 DEF RxEarlyEnd
<1>5. ASSUME NEW s \in Skts, RxStart(s) PROVE LockInv'
  BY <1>5 DEF RxStart
<1>6. ASSUME NEW s \in Skts, RxReady(s) PROVE LockInv'
  BY <1>6 DEF RxReady
<1>7. ASSUME NEW s \in Skts, RxLoop(s) PROVE LockInv'
  BY <1>7 DEF RxLoop, IsConnected
<1>8. ASSUME NEW s \in Skts, RecvClosed(s) PROVE LockInv'
  BY <1>8 DEF RecvClosed
<1>9. ASSUME NEW s \in Skts, RecvData(s) PROVE LockInv'
  BY <1>9 DEF RecvData
<1>10. ASSUME NEW s \in Skts, RecvFails(s) PROVE LockInv'
  BY <1>10 DEF RecvFails
<1>11. ASSUME NEW s \in Skts, RxData(s) PROVE LockInv'
  <2>1. CASE Step(s, "loop")
    BY <1>11, <2>1 DEF RxData, Victims
  <2>2. ASSUME NEW x \in Victims(s), NEW p \in LockParams, Call(s, "close", x, "loop", p) PROVE LockInv'
    BY <1>11, <2>2 DEF RxData, Victims
  <2> QED BY <1>11, <2>1, <2>2 DEF RxData, Victims
<1>12. ASSUME NEW s \in Skts, RxExit(s) PROVE LockInv'
  BY <1>12 DEF RxExit
<1>13. ASSUME NEW s \in Skts, RxSetClosed(s) PROVE LockInv'
  BY <1>13 DEF RxSetClosed
<1>14. ASSUME NEW s \in Skts, RxLost(s) PROVE LockInv'
  BY <1>14 DEF RxLost, Callback, Min2
<1>15. ASSUME NEW s \in Skts, RxShut(s) PROVE LockInv'
  <2>1. CASE sktHandle[s] = "open"
    BY <1>15, <2>1, SMTT(20) DEF RxShut
  <2>2. CASE sktHandle[s] # "open"
    BY <1>15, <2>2 DEF RxShut
  <2> QED BY <2>1, <2>2
<1>16. ASSUME NEW s \in Skts, RxEvent(s) PROVE LockInv'
  <2>1. CASE IsInEraseList(s)
    BY <1>16, <2>1 DEF RxEvent, IsInEraseList
  <2>2. CASE ~IsInEraseList(s)
    <3>1. pc[s] = "event" /\ Goto(s, "lock") /\ mgrLocked' = [mgrLocked EXCEPT ![s] = FALSE] /\ UNCHANGED lock
      BY <1>16, <2>2, Zenon DEF RxEvent
    <3>2. mgrLocked'[s] = FALSE /\ \A t \in Threads : t # s => mgrLocked'[t] = mgrLocked[t]
      BY <3>1, Zenon
    <3>3. pc'[s] = "lock" /\ \A t \in Threads : t # s => pc'[t] = pc[t]
      BY <3>1, Zenon
    <3> QED BY <3>1, <3>2, <3>3, Zenon
  <2> QED BY <2>1, <2>2 DEF IsInEraseList
<1>17. ASSUME NEW s \in Skts, RxCleanup(s) PROVE LockInv'
  BY <1>17 DEF RxCleanup, DoSktDeleteCleanup
<1>18. ASSUME NEW s \in Skts, RxDone(s) PROVE LockInv'
  BY <1>18 DEF RxDone
<1>19. ASSUME NEW s \in Skts, RxEnd(s) PROVE LockInv'
  BY <1>19 DEF RxEnd
<1>20. ASSUME NEW t \in Others, NEW s \in Skts, OtherClose(t, s) PROVE LockInv'
  BY <1>20 DEF OtherClose, LockParams
<1>21. ASSUME NEW t \in Others, OtherCleanup(t) PROVE LockInv'
  BY <1>21 DEF OtherCleanup, DoSktDeleteCleanup
<1>22. ASSUME NEW t \in Threads, CloseSkt(t) PROVE LockInv'
  <2>1. CASE sktHandle[target[t]] # "open" \/ IsInEraseList(target[t])
    <3>1. pc[t] = "close" /\ pc' = [pc EXCEPT ![t] = ret[t]] /\ mgrLocked' = [mgrLocked EXCEPT ![t] = FALSE]
          /\ UNCHANGED lock
      BY <1>22, <2>1, CloseReturns, CloseUnlocks
    <3>2. pc'[t] = ret[t] /\ \A x \in Threads : x # t => pc'[x] = pc[x]
      BY <3>1, Zenon
    <3>3. \A x \in Threads : x # t => mgrLocked'[x] = mgrLocked[x]
      BY <3>1, Zenon
    <3>4. pc'[t] \notin {"lock", "move", "kill"} /\ pc[t] \notin {"lock", "move", "kill"}
      BY <3>1, <3>2
    <3> QED BY <3>1, <3>2, <3>3, <3>4, Zenon
  <2>2. CASE ~(sktHandle[target[t]] # "open" \/ IsInEraseList(target[t]))
    BY <1>22, <2>2, CloseBegins
  <2> QED BY <2>1, <2>2
<1>23. ASSUME NEW t \in Threads, CloseCallback(t) PROVE LockInv'
  BY <1>23 DEF CloseCallback, Callback
<1>24. ASSUME NEW t \in Threads, CloseHandle(t) PROVE LockInv'
  BY <1>24 DEF CloseHandle
<1>25. ASSUME NEW t \in Threads, CloseAbort(t) PROVE LockInv'
  <2>1. CASE IsInEraseList(target[t])
    BY <1>25, <2>1 DEF CloseAbort
  <2>2. CASE ~IsInEraseList(target[t])
    BY <1>25, <2>2 DEF CloseAbort
  <2> QED BY <2>1, <2>2
<1>26. ASSUME NEW t \in Threads, LockMgr(t) PROVE LockInv'
  BY <1>26 DEF LockMgr
<1>27. ASSUME NEW t \in Threads, MoveToEraseList(t) PROVE LockInv'
  <2>1. CASE list[target[t]] # "listed"
    BY <1>27, <2>1 DEF MoveToEraseList, UnlockMgr
  <2>2. CASE list[target[t]] = "listed"
    BY <1>27, <2>2, MoveEffect DEF MoveToEraseList, UnlockMgr
  <2> QED BY <2>1, <2>2
<1>28. ASSUME NEW t \in Threads, KillThread(t) PROVE LockInv'
  BY <1>28 DEF KillThread, UnlockMgr
<1>29. CASE UNCHANGED vars
  BY <1>29 DEF vars
<1> QED BY <1>1, <1>2, <1>3, <1>4, <1>5, <1>6, <1>7, <1>8, <1>9, <1>10, <1>11, <1>12, <1>13, <1>14, <1>15, <1>16, <1>17, <1>18, <1>19, <1>20, <1>21, <1>22, <1>23, <1>24, <1>25, <1>26, <1>27, <1>28, <1>29 DEF Next, RxStep, CloseStep

(* Every step keeps it. *)
LEMMA MarkStep ==
    ASSUME TypeOK, ReturnInv, OtherInv, MarkInv, [Next]_vars
    PROVE  MarkInv'
<1> USE ThreadsAssumption, OutgoingAssumption
        DEF Threads, ClosePcs, At, Goto, Step, Call, Return, threadVars, sktVars, history,
            MarkInv, RxAt, TypeOK, ReturnInv, OtherInv, RxPcs, Pcs
<1>1. ASSUME NEW s \in Skts, Accept(s) PROVE MarkInv'
  BY <1>1 DEF Accept, Open
<1>2. ASSUME NEW s \in Skts, Connect(s) PROVE MarkInv'
  BY <1>2 DEF Connect, Open
<1>3. ASSUME NEW s \in Skts, AddSkt(s) PROVE MarkInv'
  BY <1>3 DEF AddSkt
<1>4. ASSUME NEW s \in Skts, RxEarlyEnd(s) PROVE MarkInv'
  BY <1>4 DEF RxEarlyEnd
<1>5. ASSUME NEW s \in Skts, RxStart(s) PROVE MarkInv'
  BY <1>5 DEF RxStart
<1>6. ASSUME NEW s \in Skts, RxReady(s) PROVE MarkInv'
  BY <1>6 DEF RxReady
<1>7. ASSUME NEW s \in Skts, RxLoop(s) PROVE MarkInv'
  BY <1>7 DEF RxLoop, IsConnected
<1>8. ASSUME NEW s \in Skts, RecvClosed(s) PROVE MarkInv'
  BY <1>8 DEF RecvClosed
<1>9. ASSUME NEW s \in Skts, RecvData(s) PROVE MarkInv'
  BY <1>9 DEF RecvData
<1>10. ASSUME NEW s \in Skts, RecvFails(s) PROVE MarkInv'
  BY <1>10 DEF RecvFails
<1>11. ASSUME NEW s \in Skts, RxData(s) PROVE MarkInv'
  <2>1. CASE Step(s, "loop")
    BY <1>11, <2>1 DEF RxData, Victims
  <2>2. ASSUME NEW x \in Victims(s), NEW p \in LockParams, Call(s, "close", x, "loop", p) PROVE MarkInv'
    BY <1>11, <2>2 DEF RxData, Victims
  <2> QED BY <1>11, <2>1, <2>2 DEF RxData, Victims
<1>12. ASSUME NEW s \in Skts, RxExit(s) PROVE MarkInv'
  <2>1. pc[s] = "exit" /\ pc' = [pc EXCEPT ![s] = "closed"] /\ UNCHANGED <<target, ret, aborted, byOther>>
    BY <1>12 DEF RxExit
  <2>2. fromRx' = [fromRx EXCEPT ![s] = @ \/ ~aborted[s]]
    BY <1>12 DEF RxExit
  <2>3. fromRx'[s] = (fromRx[s] \/ ~aborted[s]) /\ \A x \in Skts : x # s => fromRx'[x] = fromRx[x]
    <3>1. fromRx \in [Skts -> BOOLEAN] /\ s \in Skts
      OBVIOUS
    <3> QED BY ONLY <2>2, <3>1, Zenon
  <2>4. ~byOther[s] => fromRx'[s]
    BY <2>3
  <2> QED BY <2>1, <2>3, <2>4
<1>13. ASSUME NEW s \in Skts, RxSetClosed(s) PROVE MarkInv'
  BY <1>13 DEF RxSetClosed
<1>14. ASSUME NEW s \in Skts, RxLost(s) PROVE MarkInv'
  BY <1>14 DEF RxLost, Callback, Min2
<1>15. ASSUME NEW s \in Skts, RxShut(s) PROVE MarkInv'
  <2>1. CASE sktHandle[s] = "open"
    BY <1>15, <2>1 DEF RxShut
  <2>2. CASE sktHandle[s] # "open"
    BY <1>15, <2>2 DEF RxShut
  <2> QED BY <2>1, <2>2
<1>16. ASSUME NEW s \in Skts, RxEvent(s) PROVE MarkInv'
  <2>1. CASE IsInEraseList(s)
    BY <1>16, <2>1 DEF RxEvent, IsInEraseList
  <2>2. CASE ~IsInEraseList(s)
    BY <1>16, <2>2 DEF RxEvent, IsInEraseList
  <2> QED BY <2>1, <2>2 DEF IsInEraseList
<1>17. ASSUME NEW s \in Skts, RxCleanup(s) PROVE MarkInv'
  BY <1>17 DEF RxCleanup, DoSktDeleteCleanup
<1>18. ASSUME NEW s \in Skts, RxDone(s) PROVE MarkInv'
  BY <1>18 DEF RxDone
<1>19. ASSUME NEW s \in Skts, RxEnd(s) PROVE MarkInv'
  BY <1>19 DEF RxEnd
<1>20. ASSUME NEW t \in Others, NEW s \in Skts, OtherClose(t, s) PROVE MarkInv'
  BY <1>20 DEF OtherClose, LockParams
<1>21. ASSUME NEW t \in Others, OtherCleanup(t) PROVE MarkInv'
  BY <1>21 DEF OtherCleanup, DoSktDeleteCleanup
<1>22. ASSUME NEW t \in Threads, CloseSkt(t) PROVE MarkInv'
  <2>1. CASE sktHandle[target[t]] # "open" \/ IsInEraseList(target[t])
    BY <1>22, <2>1, CloseReturns
  <2>2. CASE ~(sktHandle[target[t]] # "open" \/ IsInEraseList(target[t]))
    <3>1. PICK x \in Skts : x = target[t]
      BY <1>22, <2>2, CloseBegins
    <3>2. /\ pc[t] = "close" /\ pc' = [pc EXCEPT ![t] = "notify"]
          /\ \A y \in Skts : fromRx[y] => fromRx'[y]
          /\ \A y \in Skts : byOther[y] => byOther'[y]
          /\ t = x => fromRx'[x]
          /\ UNCHANGED <<target, ret, aborted>>
      BY <1>22, <2>2, <3>1, CloseBegins, CloseMarks
    <3>3. \A y \in Skts : pc'[y] \in ClosePcs \ {"close"} /\ target'[y] = y => fromRx'[y] \/ byOther'[y]
      BY <3>1, <3>2
    <3>4. \A y \in Skts : pc'[y] \in ClosePcs <=> pc[y] \in ClosePcs
      BY <3>2
    <3>5. \A y \in Skts : pc'[y] = pc[y] \/ pc'[y] = "notify"
      BY <3>2
    <3> QED BY <3>2, <3>3, <3>4, <3>5
  <2> QED BY <2>1, <2>2
<1>23. ASSUME NEW t \in Threads, CloseCallback(t) PROVE MarkInv'
  BY <1>23 DEF CloseCallback, Callback
<1>24. ASSUME NEW t \in Threads, CloseHandle(t) PROVE MarkInv'
  BY <1>24 DEF CloseHandle
<1>25. ASSUME NEW t \in Threads, CloseAbort(t) PROVE MarkInv'
  <2>1. CASE IsInEraseList(target[t])
    BY <1>25, <2>1 DEF CloseAbort
  <2>2. CASE ~IsInEraseList(target[t])
    BY <1>25, <2>2 DEF CloseAbort
  <2> QED BY <2>1, <2>2
<1>26. ASSUME NEW t \in Threads, LockMgr(t) PROVE MarkInv'
  BY <1>26 DEF LockMgr
<1>27. ASSUME NEW t \in Threads, MoveToEraseList(t) PROVE MarkInv'
  <2>1. CASE list[target[t]] # "listed"
    BY <1>27, <2>1 DEF MoveToEraseList, UnlockMgr
  <2>2. CASE list[target[t]] = "listed"
    BY <1>27, <2>2, MoveEffect DEF MoveToEraseList, UnlockMgr
  <2> QED BY <2>1, <2>2
<1>28. ASSUME NEW t \in Threads, KillThread(t) PROVE MarkInv'
  BY <1>28 DEF KillThread, UnlockMgr
<1>29. CASE UNCHANGED vars
  BY <1>29 DEF vars
<1> QED BY <1>1, <1>2, <1>3, <1>4, <1>5, <1>6, <1>7, <1>8, <1>9, <1>10, <1>11, <1>12, <1>13, <1>14, <1>15, <1>16, <1>17, <1>18, <1>19, <1>20, <1>21, <1>22, <1>23, <1>24, <1>25, <1>26, <1>27, <1>28, <1>29 DEF Next, RxStep, CloseStep

(* The lock of the manager is released on every way out of                 *)
(* moveToEraseList, and nobody who holds it waits for it.                  *)
THEOREM LockedOnlyToErase == Spec => []LockedToErase
<1>1. Init => LockInv
  <2> SUFFICES ASSUME Init PROVE LockInv
    OBVIOUS
  <2>1. lock \notin Threads
    BY ThreadsAssumption DEF Init, Threads
  <2>2. \A t \in Threads : pc[t] \in {"none", "idle"}
    BY DEF Init
  <2>3. \A t \in Threads : pc[t] \notin {"lock", "move", "kill"}
    BY <2>2
  <2> QED BY ONLY <2>1, <2>3 DEF LockInv, LockedToErase
<1>2. CloseInv /\ LockInv /\ [Next]_vars => LockInv'
  BY LockStep DEF CloseInv
<1>3. LockInv => LockedToErase
  BY DEF LockInv
<1> QED BY <1>1, <1>2, <1>3, CloseInvHolds, PTL DEF Spec

(* Only a thread whose socket another thread closes as well can come to    *)
(* wait for its own end.                                                   *)
THEOREM SelfWaitIsARace == Spec => []WaitsForItselfIfRaced
<1>1. Init => MarkInv
  BY ThreadsAssumption DEF Init, MarkInv, RxAt, ClosePcs, Threads
<1>2. CloseInv /\ MarkInv /\ [Next]_vars => MarkInv'
  BY MarkStep DEF CloseInv
<1>3. MarkInv => WaitsForItselfIfRaced
  BY DEF MarkInv, WaitsForItselfIfRaced
<1> QED BY <1>1, <1>2, <1>3, CloseInvHolds, PTL DEF Spec

=============================================================================
