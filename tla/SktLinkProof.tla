---------------------------- MODULE SktLinkProof ----------------------------
(***************************************************************************)
(* Proofs that SktLifecycle implements Link.                               *)
(***************************************************************************)
EXTENDS SktLifecycleProof

(* Where an rx thread stands when the reason may be Closed. *)
Late == {"lost", "shut", "event", "cleanup", "done", "last", "ended"}

(* The reason is Closed, and onConnectionLost has run, only when the       *)
(* thread has left its loop, and nothing connects the socket after that.   *)
ToldInv ==
    \A s \in Skts : reason[s] = "Closed" \/ lost[s] > 0 => RxAt(s) \in Late /\ ~connected[s]

(* A thread that ends as it should has the socket out of use. *)
LastInv == \A s \in Skts : RxAt(s) = "last" => ~inUse[s]

LinkInv == CloseInv /\ ToldInv /\ LastInv

-----------------------------------------------------------------------------
(* Steps of closeSkt *)

(* Inside closeSkt and on return from it no thread gets further, and only  *)
(* the return from the closeSkt a handler called ends the handler.         *)
LEMMA InClose ==
    ASSUME TypeOK, ReturnInv, NEW t \in Threads, pc[t] \in ClosePcs,
           Return(t) \/ (\E next \in ClosePcs : Step(t, next))
    PROVE  \A x \in Skts :
               /\ RxAt(x)' = RxAt(x)
               /\ pc'[x] = "ended" <=> pc[x] = "ended"
               /\ Handling(x)' => Handling(x)
               /\ x # t => (Handling(x)' <=> Handling(x))
<1> USE ThreadsAssumption DEF Threads, ClosePcs, Goto
<1>1. CASE Return(t)
  BY <1>1 DEF Return, Call, RxAt, Handling, TypeOK, ReturnInv
<1>2. ASSUME NEW next \in ClosePcs, Step(t, next)
      PROVE  \A x \in Skts :
                 /\ RxAt(x)' = RxAt(x)
                 /\ pc'[x] = "ended" <=> pc[x] = "ended"
                 /\ Handling(x)' <=> Handling(x)
  BY <1>2 DEF Step, RxAt, Handling, TypeOK, ReturnInv
<1> QED BY <1>1, <1>2

(* What a step of closeSkt does to the sockets: it may close or disconnect *)
(* its target, call its callback, and set its reason.                      *)
LEMMA CloseEffect ==
    ASSUME TypeOK, ReturnInv, CloserInv, NEW t \in Threads, CloseStep(t)
    PROVE  /\ pc[t] \in ClosePcs /\ target[t] \in Skts
           /\ Return(t) \/ (\E next \in ClosePcs : Step(t, next))
           /\ UNCHANGED inUse
           /\ \A x \in Skts : connected'[x] => connected[x]
           /\ \A x \in Skts : reason'[x] = "Closed" => reason[x] = "Closed"
           /\ \A x \in Skts :
                  lost'[x] = lost[x] \/ (x = target[t] /\ reason[x] = "Closed" /\ At(t, "notify") /\ lost'[x] > 0)
           /\ \A x \in Skts : x # target[t] => IsConnected(x)' = IsConnected(x)
           /\ \A x \in Skts : IsConnected(x)' => IsConnected(x)
           /\ Return(t) => UNCHANGED lost /\ \A x \in Skts : IsConnected(x)' = IsConnected(x)
<1> USE ThreadsAssumption DEF ClosePcs
<1>1. target[t] \in Skts /\ pc[t] \in ClosePcs
  BY DEF CloseStep, CloseSkt, CloseCallback, CloseHandle, CloseAbort, LockMgr, MoveToEraseList, KillThread, At, TypeOK
<1>2. CASE CloseSkt(t)
  <2>1. CASE sktHandle[target[t]] # "open" \/ IsInEraseList(target[t])
    <3>1. Return(t) /\ UNCHANGED <<inUse, connected, reason, lost, sktHandle>>
      BY <1>2, <2>1 DEF CloseSkt, IsInEraseList
    <3> QED BY <1>1, <3>1 DEF IsConnected
  <2>2. CASE ~(sktHandle[target[t]] # "open" \/ IsInEraseList(target[t]))
    <3>1. /\ reason' = [reason EXCEPT ![target[t]] = "Closing"]
          /\ UNCHANGED <<inUse, connected, lost, sktHandle>>
      BY <1>2, <2>2, CloseBegins
    <3>2. Step(t, "notify")
      BY <1>2, <2>2 DEF CloseSkt, IsInEraseList
    <3> QED BY <1>1, <3>1, <3>2 DEF IsConnected, TypeOK
  <2> QED BY <2>1, <2>2
<1>3. CASE CloseCallback(t)
  BY <1>1, <1>3 DEF CloseCallback, Callback, Min2, sktVars, IsConnected, TypeOK, Return, Call, Step, Goto
<1>4. CASE CloseHandle(t)
  BY <1>1, <1>4 DEF CloseHandle, history, IsConnected, TypeOK, Return, Call, Step, Goto, At
<1>5. CASE CloseAbort(t)
  <2>1. UNCHANGED <<inUse, connected, reason, lost, sktHandle>>
    BY <1>5 DEF CloseAbort, history
  <2>2. Return(t) \/ Step(t, "move") \/ Step(t, "lock")
    BY <1>5 DEF CloseAbort
  <2> QED BY <1>1, <2>1, <2>2 DEF IsConnected
<1>6. CASE LockMgr(t)
  BY <1>1, <1>6 DEF LockMgr, sktVars, history, IsConnected
<1>7. CASE MoveToEraseList(t)
  <2>1. sktHandle[target[t]] = "closed" /\ UNCHANGED <<sktHandle, inUse, reason, lost>>
    BY <1>7 DEF MoveToEraseList, CloserInv, At, history
  <2>2. Return(t) \/ Step(t, "kill")
    BY <1>7 DEF MoveToEraseList
  <2>3. UNCHANGED connected \/ connected' = [connected EXCEPT ![target[t]] = FALSE]
    BY <1>7 DEF MoveToEraseList
  <2>4. \A x \in Skts : (connected'[x] => connected[x]) /\ (x # target[t] => connected'[x] = connected[x])
    BY <1>1, <2>3, Zenon DEF TypeOK
  <2>5. \A x \in Skts : IsConnected(x)' = IsConnected(x)
    <3> SUFFICES ASSUME NEW x \in Skts PROVE IsConnected(x)' = IsConnected(x)
      OBVIOUS
    <3>1. CASE x = target[t]
      BY <2>1, <3>1 DEF IsConnected
    <3>2. CASE x # target[t]
      BY <2>1, <2>4, <3>2 DEF IsConnected
    <3> QED BY <3>1, <3>2
  <2> QED BY <1>1, <2>1, <2>2, <2>4, <2>5
<1>8. CASE KillThread(t)
  BY <1>1, <1>8 DEF KillThread, sktVars, history, IsConnected
<1> QED BY <1>2, <1>3, <1>4, <1>5, <1>6, <1>7, <1>8 DEF CloseStep

-----------------------------------------------------------------------------
(* Steps of the rx threads and of others *)

(* Every step keeps what LinkInv adds. *)
LEMMA LinkInvStep ==
    ASSUME TypeOK, ReturnInv, CloserInv, BeginInv, ConnectedInv, ToldInv, LastInv, [Next]_vars
    PROVE  ToldInv' /\ LastInv'
<1> USE ThreadsAssumption, OutgoingAssumption
        DEF Threads, ClosePcs, At, Goto, Step, Call, Return, threadVars, sktVars, history,
            ToldInv, LastInv, RxAt, Late, TypeOK, ReturnInv, BeginInv, RxPcs, Pcs
<1>1. ASSUME NEW s \in Skts, Accept(s) PROVE ToldInv' /\ LastInv'
  BY <1>1 DEF Accept, Open
<1>2. ASSUME NEW s \in Skts, Connect(s) PROVE ToldInv' /\ LastInv'
  BY <1>2 DEF Connect, Open
<1>3. ASSUME NEW s \in Skts, AddSkt(s) PROVE ToldInv' /\ LastInv'
  BY <1>3 DEF AddSkt
<1>4. ASSUME NEW s \in Skts, RxEarlyEnd(s) PROVE ToldInv' /\ LastInv'
  BY <1>4 DEF RxEarlyEnd
<1>5. ASSUME NEW s \in Skts, RxStart(s) PROVE ToldInv' /\ LastInv'
  BY <1>5 DEF RxStart
<1>6. ASSUME NEW s \in Skts, RxReady(s) PROVE ToldInv' /\ LastInv'
  BY <1>6 DEF RxReady
<1>7. ASSUME NEW s \in Skts, RxLoop(s) PROVE ToldInv' /\ LastInv'
  BY <1>7 DEF RxLoop, IsConnected
<1>8. ASSUME NEW s \in Skts, RecvClosed(s) PROVE ToldInv' /\ LastInv'
  BY <1>8 DEF RecvClosed
<1>9. ASSUME NEW s \in Skts, RecvData(s) PROVE ToldInv' /\ LastInv'
  BY <1>9 DEF RecvData
<1>10. ASSUME NEW s \in Skts, RecvFails(s) PROVE ToldInv' /\ LastInv'
  BY <1>10 DEF RecvFails
<1>11. ASSUME NEW s \in Skts, RxData(s) PROVE ToldInv' /\ LastInv'
  <2>1. CASE Step(s, "loop")
    BY <1>11, <2>1 DEF RxData, Victims
  <2>2. ASSUME NEW x \in Victims(s), NEW p \in LockParams, Call(s, "close", x, "loop", p) PROVE ToldInv' /\ LastInv'
    BY <1>11, <2>2 DEF RxData, Victims
  <2>3. Step(s, "loop") \/ \E x \in Victims(s), p \in LockParams : Call(s, "close", x, "loop", p)
    BY ONLY <1>11 DEF RxData
  <2> QED BY ONLY <2>1, <2>2, <2>3
<1>12. ASSUME NEW s \in Skts, RxExit(s) PROVE ToldInv' /\ LastInv'
  BY <1>12 DEF RxExit
<1>13. ASSUME NEW s \in Skts, RxSetClosed(s) PROVE ToldInv' /\ LastInv'
  <2>1. ~connected[s]
    BY <1>13 DEF RxSetClosed, ConnectedInv
  <2> QED BY <1>13, <2>1 DEF RxSetClosed
<1>14. ASSUME NEW s \in Skts, RxLost(s) PROVE ToldInv' /\ LastInv'
  BY <1>14 DEF RxLost, Callback, Min2
<1>15. ASSUME NEW s \in Skts, RxShut(s) PROVE ToldInv' /\ LastInv'
  <2>1. CASE sktHandle[s] = "open"
    BY <1>15, <2>1 DEF RxShut
  <2>2. CASE sktHandle[s] # "open"
    BY <1>15, <2>2 DEF RxShut
  <2> QED BY <2>1, <2>2
<1>16. ASSUME NEW s \in Skts, RxEvent(s) PROVE ToldInv' /\ LastInv'
  <2>1. CASE IsInEraseList(s)
    BY <1>16, <2>1 DEF RxEvent, IsInEraseList
  <2>2. CASE ~IsInEraseList(s)
    BY <1>16, <2>2 DEF RxEvent, IsInEraseList
  <2> QED BY <2>1, <2>2 DEF IsInEraseList
<1>17. ASSUME NEW s \in Skts, RxCleanup(s) PROVE ToldInv' /\ LastInv'
  BY <1>17 DEF RxCleanup, DoSktDeleteCleanup
<1>18. ASSUME NEW s \in Skts, RxDone(s) PROVE ToldInv' /\ LastInv'
  BY <1>18 DEF RxDone
<1>19. ASSUME NEW s \in Skts, RxEnd(s) PROVE ToldInv' /\ LastInv'
  BY <1>19 DEF RxEnd
<1>20. ASSUME NEW t \in Others, NEW s \in Skts, OtherClose(t, s) PROVE ToldInv' /\ LastInv'
  <2>1. connected \in [Skts -> BOOLEAN] /\ connected' \in {connected, [connected EXCEPT ![s] = FALSE]}
    BY <1>20, Zenon DEF OtherClose
  <2>2. \A x \in Skts : connected'[x] => connected[x]
    BY ONLY <2>1
  <2>3. UNCHANGED <<reason, lost, inUse>> /\ At(t, "idle") /\ \E p \in LockParams : Call(t, "close", s, "idle", p)
    BY <1>20 DEF OtherClose
  <2>4. \A x \in Skts : RxAt(x)' = RxAt(x)
    BY <2>3
  <2> QED BY <2>2, <2>3, <2>4
<1>21. ASSUME NEW t \in Others, OtherCleanup(t) PROVE ToldInv' /\ LastInv'
  BY <1>21 DEF OtherCleanup, DoSktDeleteCleanup
<1>22. ASSUME NEW t \in Threads, CloseStep(t) PROVE ToldInv' /\ LastInv'
  <2>1. \A x \in Skts : RxAt(x)' = RxAt(x)
    BY <1>22, CloseEffect, InClose
  <2>2. /\ UNCHANGED inUse
        /\ \A x \in Skts : connected'[x] => connected[x]
        /\ \A x \in Skts : reason'[x] = "Closed" => reason[x] = "Closed"
        /\ \A x \in Skts : lost'[x] = lost[x] \/ reason[x] = "Closed"
    BY <1>22, CloseEffect
  <2> QED BY <2>1, <2>2
<1>23. CASE UNCHANGED vars
  BY <1>23 DEF vars
<1> QED BY <1>1, <1>2, <1>3, <1>4, <1>5, <1>6, <1>7, <1>8, <1>9, <1>10, <1>11, <1>12, <1>13, <1>14, <1>15, <1>16, <1>17, <1>18, <1>19, <1>20, <1>21, <1>22, <1>23 DEF Next, RxStep

-----------------------------------------------------------------------------
(* Every step of SktLifecycle is one of Link, or none *)

Same(x) == LinkOf(x)' = LinkOf(x) /\ (Handling(x)' <=> Handling(x))

(* Only socket s changes, and in a way that Link lets it. *)
Turns(s) ==
    /\ \A x \in Skts \ {s} : Same(x)
    /\ \/ Same(s)
       \/ LinkOf(s) = "down" /\ LinkOf(s)' = "up" /\ ~Handling(s) /\ ~Handling(s)'
       \/ LinkOf(s) = "up" /\ LinkOf(s)' = "lost" /\ (Handling(s)' <=> Handling(s))
       \/ LinkOf(s) = "lost" /\ LinkOf(s)' = "down" /\ ~Handling(s) /\ ~Handling(s)'
       \/ LinkOf(s)' = LinkOf(s) /\ LinkOf(s) # "down" /\ ~Handling(s) /\ Handling(s)'
       \/ LinkOf(s)' = LinkOf(s) /\ Handling(s) /\ ~Handling(s)'

LEMMA TurnsAreSteps ==
    ASSUME NEW s \in Skts, Turns(s)
    PROVE  [Links!Next]_(Links!vars)
<1> DEFINE link == [x \in Skts |-> LinkOf(x)]
           handling == {x \in Skts : Handling(x)}
<1>1. \A x \in Skts \ {s} : LinkOf(x)' = LinkOf(x) /\ (Handling(x)' <=> Handling(x))
  BY DEF Turns, Same
<1>2. link' = [link EXCEPT ![s] = LinkOf(s)']
  BY <1>1
<1>3. LinkOf(s)' = LinkOf(s) => link' = link
  BY <1>2
<1>4. (Handling(s)' <=> Handling(s)) => handling' = handling
  BY <1>1
<1>5. Handling(s)' => handling' = handling \union {s}
  BY <1>1
<1>6. ~Handling(s)' => handling' = handling \ {s}
  BY <1>1
<1>7. link[s] = LinkOf(s) /\ (s \in handling <=> Handling(s))
  OBVIOUS
<1>8. \/ Same(s)
      \/ LinkOf(s) = "down" /\ LinkOf(s)' = "up" /\ ~Handling(s) /\ ~Handling(s)'
      \/ LinkOf(s) = "up" /\ LinkOf(s)' = "lost" /\ (Handling(s)' <=> Handling(s))
      \/ LinkOf(s) = "lost" /\ LinkOf(s)' = "down" /\ ~Handling(s) /\ ~Handling(s)'
      \/ LinkOf(s)' = LinkOf(s) /\ LinkOf(s) # "down" /\ ~Handling(s) /\ Handling(s)'
      \/ LinkOf(s)' = LinkOf(s) /\ Handling(s) /\ ~Handling(s)'
  BY DEF Turns
<1>9. CASE Same(s)
  BY <1>3, <1>4, <1>9 DEF Same, Links!vars
<1>10. CASE LinkOf(s) = "down" /\ LinkOf(s)' = "up" /\ ~Handling(s) /\ ~Handling(s)'
  <2>1. Links!Connect(s)
    BY <1>2, <1>4, <1>7, <1>10 DEF Links!Connect, Links!Become
  <2> QED BY <2>1 DEF Links!Next
<1>11. CASE LinkOf(s) = "up" /\ LinkOf(s)' = "lost" /\ (Handling(s)' <=> Handling(s))
  <2>1. Links!Drop(s)
    BY <1>2, <1>4, <1>7, <1>11 DEF Links!Drop, Links!Become
  <2> QED BY <2>1 DEF Links!Next
<1>12. CASE LinkOf(s) = "lost" /\ LinkOf(s)' = "down" /\ ~Handling(s) /\ ~Handling(s)'
  <2>1. Links!Lost(s)
    BY <1>2, <1>4, <1>7, <1>12 DEF Links!Lost, Links!Become
  <2> QED BY <2>1 DEF Links!Next
<1>13. CASE LinkOf(s)' = LinkOf(s) /\ LinkOf(s) # "down" /\ ~Handling(s) /\ Handling(s)'
  <2>1. Links!Handle(s)
    BY <1>3, <1>5, <1>7, <1>13 DEF Links!Handle
  <2> QED BY <2>1 DEF Links!Next
<1>14. CASE LinkOf(s)' = LinkOf(s) /\ Handling(s) /\ ~Handling(s)'
  <2>1. Links!Finish(s)
    BY <1>3, <1>6, <1>7, <1>14 DEF Links!Finish
  <2> QED BY <2>1 DEF Links!Next
<1> QED BY <1>8, <1>9, <1>10, <1>11, <1>12, <1>13, <1>14

(* What a thread does outside closeSkt: it moves on, calls closeSkt, or    *)
(* changes its own socket.                                                 *)
LEMMA RxTurns ==
    ASSUME TypeOK, ReturnInv, UseInv, ToldInv, LastInv, NEW s \in Skts,
           Accept(s) \/ Connect(s) \/ AddSkt(s) \/ RxStep(s) \/ RecvData(s) \/ RecvFails(s)
    PROVE  Turns(s)
<1> USE ThreadsAssumption, OutgoingAssumption
        DEF Threads, ClosePcs, At, Goto, Step, Call, Return, threadVars, sktVars, history,
            Turns, Same, LinkOf, NeverUp, IsConnected, Handling, ToldInv, LastInv, UseInv,
            RxAt, Late, TypeOK, ReturnInv, RxPcs, Pcs
<1>1. CASE Accept(s)
  BY <1>1 DEF Accept, Open
<1>2. CASE Connect(s)
  BY <1>2 DEF Connect, Open
<1>3. CASE AddSkt(s)
  BY <1>3 DEF AddSkt
<1>4. CASE RxEarlyEnd(s)
  BY <1>4 DEF RxEarlyEnd
<1>5. CASE RxStart(s)
  BY <1>5 DEF RxStart
<1>6. CASE RxReady(s)
  BY <1>6 DEF RxReady
<1>7. CASE RxLoop(s)
  BY <1>7 DEF RxLoop
<1>8. CASE RecvClosed(s)
  BY <1>8 DEF RecvClosed
<1>9. CASE RecvData(s)
  BY <1>9 DEF RecvData
<1>10. CASE RecvFails(s)
  BY <1>10 DEF RecvFails
<1>11. CASE RxData(s)
  <2>1. CASE Step(s, "loop")
    BY <1>11, <2>1 DEF RxData, Victims
  <2>2. ASSUME NEW x \in Victims(s), NEW p \in LockParams, Call(s, "close", x, "loop", p) PROVE Turns(s)
    BY <1>11, <2>2 DEF RxData, Victims
  <2>3. Step(s, "loop") \/ \E x \in Victims(s), p \in LockParams : Call(s, "close", x, "loop", p)
    BY ONLY <1>11 DEF RxData
  <2> QED BY ONLY <2>1, <2>2, <2>3
<1>12. CASE RxExit(s)
  BY <1>12 DEF RxExit
<1>13. CASE RxSetClosed(s)
  BY <1>13 DEF RxSetClosed
<1>14. CASE RxLost(s)
  BY <1>14 DEF RxLost, Callback, Min2
<1>15. CASE RxShut(s)
  <2>1. CASE sktHandle[s] = "open"
    BY <1>15, <2>1 DEF RxShut
  <2>2. CASE sktHandle[s] # "open"
    BY <1>15, <2>2 DEF RxShut
  <2> QED BY <2>1, <2>2
<1>16. CASE RxEvent(s)
  <2>1. CASE IsInEraseList(s)
    BY <1>16, <2>1 DEF RxEvent, IsInEraseList
  <2>2. CASE ~IsInEraseList(s)
    BY <1>16, <2>2 DEF RxEvent, IsInEraseList
  <2> QED BY <2>1, <2>2 DEF IsInEraseList
<1>17. CASE RxCleanup(s)
  BY <1>17 DEF RxCleanup, DoSktDeleteCleanup
<1>18. CASE RxDone(s)
  BY <1>18 DEF RxDone
<1>19. CASE RxEnd(s)
  BY <1>19 DEF RxEnd
<1> QED BY <1>1, <1>2, <1>3, <1>4, <1>5, <1>6, <1>7, <1>8, <1>9, <1>10, <1>11, <1>12, <1>13, <1>14, <1>15, <1>16, <1>17, <1>18, <1>19 DEF RxStep

(* What a step of closeSkt does: the callback comes to nothing before the  *)
(* thread has left its loop, and whoever takes a socket off the list       *)
(* closed it first.                                                        *)
LEMMA CloseTurns ==
    ASSUME CloseInv, ToldInv, NEW t \in Threads, CloseStep(t)
    PROVE  \E s \in Skts : Turns(s)
<1>1. TypeOK /\ ReturnInv /\ CloserInv
  BY DEF CloseInv, HandleInv
<1>2. PICK s \in Skts : s = target[t]
  BY <1>1, CloseEffect
<1>3. pc[t] \in ClosePcs /\ (Return(t) \/ \E next \in ClosePcs : Step(t, next))
  BY <1>1, CloseEffect
<1>4. \A x \in Skts : NeverUp(x)' <=> NeverUp(x)
  BY <1>1, <1>3, CloseEffect, InClose DEF NeverUp
<1>5. CASE Return(t)
  <2>1. \A x \in Skts : LinkOf(x)' = LinkOf(x)
    BY <1>1, <1>4, <1>5, CloseEffect DEF LinkOf
  <2>2. \A x \in Skts : x # t => (Handling(x)' <=> Handling(x))
    BY <1>1, <1>3, InClose
  <2>3. CASE t \in Skts
    <3>1. Handling(t)' => Handling(t)
      BY <1>1, <1>3, <2>3, InClose
    <3> QED BY <2>1, <2>2, <2>3, <3>1 DEF Turns, Same
  <2>4. CASE t \notin Skts
    BY <1>3, <2>1, <2>2, <2>4 DEF Turns, Same
  <2> QED BY <2>3, <2>4
<1>6. CASE \E next \in ClosePcs : Step(t, next)
  <2>1. \A x \in Skts : Handling(x)' <=> Handling(x)
    BY <1>1, <1>3, <1>6, ThreadsAssumption DEF Step, Goto, Handling, TypeOK, ReturnInv, Threads, ClosePcs
  <2>2. \A x \in Skts \ {s} : Same(x)
    BY <1>1, <1>2, <1>4, <2>1, CloseEffect DEF Same, LinkOf
  <2>3. IsConnected(s)' => IsConnected(s)
    BY <1>1, <1>3, CloseEffect
  <2>4. CASE lost'[s] = lost[s]
    BY <1>3, <1>4, <2>1, <2>2, <2>3, <2>4 DEF Turns, Same, LinkOf
  <2>5. CASE reason[s] = "Closed" /\ lost'[s] > 0
    <3>1. RxAt(s) \in Late /\ ~connected[s]
      BY <1>3, <2>5 DEF ToldInv
    <3>2. ~Handling(s) /\ ~IsConnected(s)
      BY <3>1 DEF Handling, RxAt, Late, ClosePcs, IsConnected
    <3>3. LinkOf(s) \in {"lost", "down"} /\ LinkOf(s)' = "down"
      BY <2>5, <3>2 DEF LinkOf
    <3> QED BY <1>3, <2>1, <2>2, <3>2, <3>3 DEF Turns, Same
  <2> QED BY <1>1, <1>2, <2>4, <2>5, CloseEffect
<1> QED BY <1>3, <1>5, <1>6

(* What the other threads do. *)
LEMMA OtherTurns ==
    ASSUME TypeOK, NEW t \in Others, NEW s \in Skts, OtherCleanup(t) \/ OtherClose(t, s)
    PROVE  Turns(s)
<1>1. t \notin Skts /\ t \in Threads
  BY ThreadsAssumption DEF Threads
<1>2. CASE OtherCleanup(t)
  BY <1>2 DEF OtherCleanup, DoSktDeleteCleanup, threadVars, sktVars, history,
              Turns, Same, LinkOf, NeverUp, Handling, RxAt, IsConnected
<1>3. CASE OtherClose(t, s)
  <2>1. /\ \A x \in Skts : connected'[x] => connected[x]
        /\ \A x \in Skts \ {s} : connected'[x] = connected[x]
    BY <1>3 DEF OtherClose, TypeOK
  <2>2. UNCHANGED <<sktHandle, inUse, lost>> /\ \E p \in LockParams : Call(t, "close", s, "idle", p)
    BY <1>3 DEF OtherClose, history
  <2>3. \A x \in Skts : pc'[x] = pc[x] /\ ret'[x] = ret[x]
    BY <1>1, <2>2 DEF Call, Goto, TypeOK
  <2>4. \A x \in Skts : (NeverUp(x)' <=> NeverUp(x)) /\ (Handling(x)' <=> Handling(x))
    BY <2>2, <2>3 DEF NeverUp, RxAt, Handling
  <2> QED BY <2>1, <2>2, <2>4 DEF Turns, Same, LinkOf, IsConnected
<1> QED BY <1>2, <1>3

-----------------------------------------------------------------------------
(* The refinement *)

LEMMA LinkInit == Init => LinkInv /\ Links!Init
<1> SUFFICES ASSUME Init PROVE LinkInv /\ Links!Init
  OBVIOUS
<1> USE ThreadsAssumption DEF Init, Threads, ClosePcs
<1>1. CloseInv
  BY CloseInit
<1>2. ToldInv /\ LastInv
  BY DEF ToldInv, LastInv, RxAt
<1>3. \A s \in Skts : LinkOf(s) = "down" /\ ~Handling(s)
  BY DEF LinkOf, NeverUp, RxAt, Handling
<1> QED BY <1>1, <1>2, <1>3 DEF LinkInv, Links!Init, Links!AllDown

LEMMA LinkStep == LinkInv /\ [Next]_vars => LinkInv' /\ [Links!Next]_(Links!vars)
<1> SUFFICES ASSUME LinkInv, [Next]_vars PROVE LinkInv' /\ [Links!Next]_(Links!vars)
  OBVIOUS
<1>1. TypeOK /\ ReturnInv /\ CloserInv /\ BeginInv /\ ConnectedInv /\ UseInv /\ ToldInv /\ LastInv /\ CloseInv
  BY DEF LinkInv, CloseInv, HandleInv
<1>2. LinkInv'
  BY <1>1, CloseNext, LinkInvStep DEF LinkInv
<1>3. ASSUME NEW s \in Skts,
             Accept(s) \/ Connect(s) \/ AddSkt(s) \/ RxStep(s) \/ RecvData(s) \/ RecvFails(s)
      PROVE  [Links!Next]_(Links!vars)
  BY <1>1, <1>3, RxTurns, TurnsAreSteps
<1>4. ASSUME NEW t \in Others, OtherCleanup(t) PROVE [Links!Next]_(Links!vars)
  BY <1>4 DEF OtherCleanup, DoSktDeleteCleanup, threadVars, sktVars, history,
              Links!vars, LinkOf, NeverUp, Handling, RxAt, IsConnected
<1>5. ASSUME NEW t \in Others, NEW s \in Skts, OtherClose(t, s) PROVE [Links!Next]_(Links!vars)
  BY <1>1, <1>5, OtherTurns, TurnsAreSteps
<1>6. ASSUME NEW t \in Threads, CloseStep(t) PROVE [Links!Next]_(Links!vars)
  BY <1>1, <1>6, CloseTurns, TurnsAreSteps
<1>7. ASSUME UNCHANGED vars PROVE [Links!Next]_(Links!vars)
  BY <1>7 DEF vars, threadVars, sktVars, history, Links!vars, LinkOf, NeverUp, Handling, RxAt, IsConnected
<1> QED BY <1>2, <1>3, <1>4, <1>5, <1>6, <1>7 DEF Next

(* Whoever closes a socket and in whatever order their steps come,         *)
(* onConnectionLost runs for no socket that is connected or is handling a  *)
(* packet, and the socket is at rest afterwards.                           *)
THEOREM LinkImplemented == Spec => LinksAreKept
<1>1. Init => LinkInv /\ Links!Init
  BY LinkInit
<1>2. LinkInv /\ [Next]_vars => LinkInv' /\ [Links!Next]_(Links!vars)
  BY LinkStep
<1> QED BY <1>1, <1>2, PTL DEF Spec, LinksAreKept, Links!Spec

=============================================================================
