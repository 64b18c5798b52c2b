-------------------------- MODULE HostServiceProof --------------------------
(***************************************************************************)
(* Proofs about HostService for every set of users, sockets, levels and    *)
(* inputs: its types, and that clients with a join reply see each other.   *)
(***************************************************************************)
EXTENDS HostService, TLAPS

-----------------------------------------------------------------------------
(* Types *)

LEMMA InitType == Init => TypeOK
BY OwnerAssumption, LevelsAssumption
   DEF Init, TypeOK, Levels, JoinStates, Granted, Pcs

LEMMA NextType == TypeOK /\ [Next]_vars => TypeOK'
<1> SUFFICES ASSUME TypeOK, [Next]_vars PROVE TypeOK'
    OBVIOUS
<1> USE OwnerAssumption, LevelsAssumption
    DEF TypeOK, Pcs, JoinPcs, InsertPcs, LeavePcs, UnJoinPcs, JoinStates, Granted, At, Goto,
        DeleteRow, InsertRow, Decided, ToDb,
        threadVars, listVars, recordVars, adminVars, clientVars
<1>1. ASSUME NEW s \in Skts, LostErase(s) PROVE TypeOK'
    BY <1>1 DEF LostErase
<1>2. ASSUME NEW s \in Skts, LostAnnounce(s) PROVE TypeOK'
    BY <1>2 DEF LostAnnounce
<1>3. ASSUME NEW s \in Skts, QueryJoinState(s) PROVE TypeOK'
    BY <1>3 DEF QueryJoinState
<1>4. ASSUME NEW s \in Skts, MarkActive(s) PROVE TypeOK'
    BY <1>4 DEF MarkActive
<1>5. ASSUME NEW s \in Skts, RecordDecision(s) PROVE TypeOK'
    BY <1>5, SMTT(30) DEF RecordDecision, UpdateJoinState, Changes
<1>6. ASSUME NEW s \in Skts, AddConnection(s) PROVE TypeOK'
    BY <1>6 DEF AddConnection, JoinedFriendship, Levels, Guest
<1>7. ASSUME NEW s \in Skts, JoinedByUser(s) PROVE TypeOK'
    BY <1>7 DEF JoinedByUser
<1>8. ASSUME NEW s \in Skts, SaveJoined(s) PROVE TypeOK'
    BY <1>8 DEF SaveJoined
<1>9. ASSUME NEW s \in Skts, MarkJoinedActive(s) PROVE TypeOK'
    BY <1>9 DEF MarkJoinedActive
<1>10. ASSUME NEW s \in Skts, AddClient(s) PROVE TypeOK'
    BY <1>10 DEF AddClient
<1>11. ASSUME NEW s \in Skts, BroadcastSnapshot(s) PROVE TypeOK'
    BY <1>11 DEF BroadcastSnapshot, ClientsExcept
<1>12. ASSUME NEW s \in Skts, BroadcastSend(s) PROVE TypeOK'
    BY <1>12 DEF BroadcastSend, Tell
<1>13. ASSUME NEW s \in Skts, MemberListSnapshot(s) PROVE TypeOK'
    BY <1>13 DEF MemberListSnapshot
<1>14. ASSUME NEW s \in Skts, SendMember(s) PROVE TypeOK'
    BY <1>14 DEF SendMember, Tell
<1>15. ASSUME NEW s \in Skts, MembersSent(s) PROVE TypeOK'
    BY <1>15 DEF MembersSent
<1>16. ASSUME NEW s \in Skts, SendJoinReply(s) PROVE TypeOK'
    BY <1>16 DEF SendJoinReply
<1>17. ASSUME NEW s \in Skts, JoinDone(s) PROVE TypeOK'
    BY <1>17 DEF JoinDone
<1>18. ASSUME NEW s \in Skts, RecordRequest(s) PROVE TypeOK'
    BY <1>18 DEF RecordRequest
<1>19. ASSUME NEW s \in Skts, SendLockedReply(s) PROVE TypeOK'
    BY <1>19 DEF SendLockedReply
<1>20. ASSUME NEW s \in Skts, LeaveTold(s) PROVE TypeOK'
    BY <1>20 DEF LeaveTold
<1>21. ASSUME NEW s \in Skts, RemoveClient(s) PROVE TypeOK'
    BY <1>21 DEF RemoveClient
<1>22. ASSUME NEW s \in Skts, LeftByUser(s) PROVE TypeOK'
    BY <1>22 DEF LeftByUser
<1>23. ASSUME NEW s \in Skts, RemoveConnection(s) PROVE TypeOK'
    BY <1>23 DEF RemoveConnection
<1>24. ASSUME NEW s \in Skts, AnnounceRemoved(s) PROVE TypeOK'
    BY <1>24 DEF AnnounceRemoved
<1>25. ASSUME NEW s \in Skts, Connect(s) PROVE TypeOK'
    BY <1>25 DEF Connect
<1>26. ASSUME NEW s \in Skts, Drop(s) PROVE TypeOK'
    BY <1>26 DEF Drop
<1>27. ASSUME NEW s \in Skts, JoinReq(s) PROVE TypeOK'
    BY <1>27 DEF JoinReq, PluginAccessState
<1>28. ASSUME NEW s \in Skts, LeaveReq(s) PROVE TypeOK'
    BY <1>28 DEF LeaveReq, PluginAccessState
<1>29. ASSUME NEW s \in Skts, UnJoinReq(s) PROVE TypeOK'
    BY <1>29 DEF UnJoinReq
<1>30. ASSUME NEW u \in Users, AcceptJoin(u) PROVE TypeOK'
    BY <1>30 DEF AcceptJoin, UpdateJoinState
<1>31. ASSUME NEW u \in Users, RejectJoin(u) PROVE TypeOK'
    BY <1>31 DEF RejectJoin, UpdateJoinState
<1>32. ASSUME NEW u \in Users, SetFriendship(u) PROVE TypeOK'
    BY <1>32 DEF SetFriendship, Levels
<1>33. ASSUME SetPluginPermission PROVE TypeOK'
    BY <1>33 DEF SetPluginPermission, Levels
<1>34. ASSUME Restart PROVE TypeOK'
    BY <1>34 DEF Restart
<1>35. ASSUME UNCHANGED vars PROVE TypeOK'
    BY <1>35 DEF vars
<1>36. ASSUME NEW s \in Skts, InsertDecision(s) PROVE TypeOK'
    BY <1>36 DEF InsertDecision
<1>37. ASSUME NEW s \in Skts, InsertJoined(s) PROVE TypeOK'
    BY <1>37 DEF InsertJoined
<1>38. ASSUME NEW s \in Skts, InsertRequest(s) PROVE TypeOK'
    BY <1>38 DEF InsertRequest
<1>39. ASSUME NEW u \in Users, InsertDecided(u) PROVE TypeOK'
    BY <1>39 DEF InsertDecided
<1> QED
    BY <1>1, <1>2, <1>3, <1>4, <1>5, <1>6, <1>7, <1>8, <1>9, <1>10, <1>11, <1>12, <1>13, <1>14,
       <1>15, <1>16, <1>17, <1>18, <1>19, <1>20, <1>21, <1>22, <1>23, <1>24, <1>25, <1>26, <1>27,
       <1>28, <1>29, <1>30, <1>31, <1>32, <1>33, <1>34, <1>35, <1>36, <1>37, <1>38, <1>39
    DEF Next, RxStep, LockStep, ClientStep, AdminStep

(* Every variable of the host keeps its type. *)
THEOREM TypeCorrect == Spec => []TypeOK
BY InitType, NextType, PTL DEF Spec

-----------------------------------------------------------------------------
(* Connections: what holds with any number of sockets per user *)

(* The steps of a join between addConnection and the end of the handler,   *)
(* those of them after the client list, and those after the member list.   *)
KnowingPcs   == {"members", "reply", "snap2", "send2"}
ListedPcs    == {"snap1", "send1"} \union KnowingPcs
ConnectedPcs == {"info", "save", "saveIns", "active2", "list"} \union ListedPcs

(* Only a connected client has a join reply, and it is not leaving; a      *)
(* socket that is down has no handler and no connect id.                   *)
LinkInv ==
    \A s \in Skts :
        /\ told[s] = "ok" => link[s] = "up" /\ pc[s] \notin LeavePcs \union UnJoinPcs
        /\ link[s] = "down" => pc[s] = "idle" /\ s \notin connectIds
        /\ pc[s] = "lostAnn" => link[s] = "lost" /\ s \notin connectIds

(* A client that is joined or being joined is among the connect ids as     *)
(* long as it is connected.                                                *)
ConnectedInv ==
    \A s \in Skts :
        (told[s] = "ok" \/ pc[s] \in ConnectedPcs) /\ link[s] = "up" => s \in connectIds

ConnectionInv == TypeOK /\ LinkInv /\ ConnectedInv

LEMMA InitConnection == Init => ConnectionInv
BY InitType DEF Init, ConnectionInv, LinkInv, ConnectedInv, ConnectedPcs, ListedPcs, KnowingPcs

LEMMA NextConnection == ConnectionInv /\ [Next]_vars => ConnectionInv'
<1> SUFFICES ASSUME ConnectionInv, [Next]_vars PROVE LinkInv' /\ ConnectedInv'
    BY NextType DEF ConnectionInv
<1> USE DEF ConnectionInv, TypeOK, LinkInv, ConnectedInv, At, Goto, Decided,
        ConnectedPcs, ListedPcs, KnowingPcs, LeavePcs, UnJoinPcs,
        threadVars, listVars, recordVars, adminVars, clientVars
<1>1. ASSUME NEW s \in Skts, LostErase(s) PROVE LinkInv' /\ ConnectedInv'
    BY <1>1 DEF LostErase
<1>2. ASSUME NEW s \in Skts, LostAnnounce(s) PROVE LinkInv' /\ ConnectedInv'
    BY <1>2 DEF LostAnnounce
<1>3. ASSUME NEW s \in Skts, QueryJoinState(s) PROVE LinkInv' /\ ConnectedInv'
    BY <1>3 DEF QueryJoinState
<1>4. ASSUME NEW s \in Skts, MarkActive(s) PROVE LinkInv' /\ ConnectedInv'
    BY <1>4 DEF MarkActive
<1>5. ASSUME NEW s \in Skts, RecordDecision(s) PROVE LinkInv' /\ ConnectedInv'
    BY <1>5 DEF RecordDecision
<1>6. ASSUME NEW s \in Skts, AddConnection(s) PROVE LinkInv' /\ ConnectedInv'
    BY <1>6 DEF AddConnection
<1>7. ASSUME NEW s \in Skts, JoinedByUser(s) PROVE LinkInv' /\ ConnectedInv'
    BY <1>7 DEF JoinedByUser
<1>8. ASSUME NEW s \in Skts, SaveJoined(s) PROVE LinkInv' /\ ConnectedInv'
    BY <1>8 DEF SaveJoined
<1>9. ASSUME NEW s \in Skts, MarkJoinedActive(s) PROVE LinkInv' /\ ConnectedInv'
    BY <1>9 DEF MarkJoinedActive
<1>10. ASSUME NEW s \in Skts, AddClient(s) PROVE LinkInv' /\ ConnectedInv'
    BY <1>10 DEF AddClient
<1>11. ASSUME NEW s \in Skts, BroadcastSnapshot(s) PROVE LinkInv' /\ ConnectedInv'
    BY <1>11 DEF BroadcastSnapshot
<1>12. ASSUME NEW s \in Skts, BroadcastSend(s) PROVE LinkInv' /\ ConnectedInv'
    BY <1>12 DEF BroadcastSend
<1>13. ASSUME NEW s \in Skts, MemberListSnapshot(s) PROVE LinkInv' /\ ConnectedInv'
    BY <1>13 DEF MemberListSnapshot
<1>14. ASSUME NEW s \in Skts, SendMember(s) PROVE LinkInv' /\ ConnectedInv'
    BY <1>14 DEF SendMember
<1>15. ASSUME NEW s \in Skts, MembersSent(s) PROVE LinkInv' /\ ConnectedInv'
    BY <1>15 DEF MembersSent
<1>16. ASSUME NEW s \in Skts, SendJoinReply(s) PROVE LinkInv' /\ ConnectedInv'
    BY <1>16 DEF SendJoinReply
<1>17. ASSUME NEW s \in Skts, JoinDone(s) PROVE LinkInv' /\ ConnectedInv'
    BY <1>17 DEF JoinDone
<1>18. ASSUME NEW s \in Skts, RecordRequest(s) PROVE LinkInv' /\ ConnectedInv'
    BY <1>18 DEF RecordRequest
<1>19. ASSUME NEW s \in Skts, SendLockedReply(s) PROVE LinkInv' /\ ConnectedInv'
    BY <1>19 DEF SendLockedReply
<1>20. ASSUME NEW s \in Skts, LeaveTold(s) PROVE LinkInv' /\ ConnectedInv'
    BY <1>20 DEF LeaveTold
<1>21. ASSUME NEW s \in Skts, RemoveClient(s) PROVE LinkInv' /\ ConnectedInv'
    BY <1>21 DEF RemoveClient
<1>22. ASSUME NEW s \in Skts, LeftByUser(s) PROVE LinkInv' /\ ConnectedInv'
    BY <1>22 DEF LeftByUser
<1>23. ASSUME NEW s \in Skts, RemoveConnection(s) PROVE LinkInv' /\ ConnectedInv'
    BY <1>23 DEF RemoveConnection
<1>24. ASSUME NEW s \in Skts, AnnounceRemoved(s) PROVE LinkInv' /\ ConnectedInv'
    BY <1>24 DEF AnnounceRemoved
<1>25. ASSUME NEW s \in Skts, Connect(s) PROVE LinkInv' /\ ConnectedInv'
    BY <1>25 DEF Connect
<1>26. ASSUME NEW s \in Skts, Drop(s) PROVE LinkInv' /\ ConnectedInv'
    BY <1>26 DEF Drop
<1>27. ASSUME NEW s \in Skts, JoinReq(s) PROVE LinkInv' /\ ConnectedInv'
    BY <1>27 DEF JoinReq
<1>28. ASSUME NEW s \in Skts, LeaveReq(s) PROVE LinkInv' /\ ConnectedInv'
    BY <1>28 DEF LeaveReq
<1>29. ASSUME NEW s \in Skts, UnJoinReq(s) PROVE LinkInv' /\ ConnectedInv'
    BY <1>29 DEF UnJoinReq
<1>30. ASSUME NEW u \in Users, AcceptJoin(u) PROVE LinkInv' /\ ConnectedInv'
    BY <1>30 DEF AcceptJoin
<1>31. ASSUME NEW u \in Users, RejectJoin(u) PROVE LinkInv' /\ ConnectedInv'
    BY <1>31 DEF RejectJoin
<1>32. ASSUME NEW u \in Users, SetFriendship(u) PROVE LinkInv' /\ ConnectedInv'
    BY <1>32 DEF SetFriendship
<1>33. ASSUME SetPluginPermission PROVE LinkInv' /\ ConnectedInv'
    BY <1>33 DEF SetPluginPermission
<1>34. ASSUME Restart PROVE LinkInv' /\ ConnectedInv'
    BY <1>34 DEF Restart
<1>35. ASSUME UNCHANGED vars PROVE LinkInv' /\ ConnectedInv'
    BY <1>35 DEF vars
<1>36. ASSUME NEW s \in Skts, InsertDecision(s) PROVE LinkInv' /\ ConnectedInv'
    BY <1>36 DEF InsertDecision
<1>37. ASSUME NEW s \in Skts, InsertJoined(s) PROVE LinkInv' /\ ConnectedInv'
    BY <1>37 DEF InsertJoined
<1>38. ASSUME NEW s \in Skts, InsertRequest(s) PROVE LinkInv' /\ ConnectedInv'
    BY <1>38 DEF InsertRequest
<1>39. ASSUME NEW u \in Users, InsertDecided(u) PROVE LinkInv' /\ ConnectedInv'
    BY <1>39 DEF InsertDecided
<1> QED
    BY <1>1, <1>2, <1>3, <1>4, <1>5, <1>6, <1>7, <1>8, <1>9, <1>10, <1>11,
       <1>12, <1>13, <1>14, <1>15, <1>16, <1>17, <1>18, <1>19, <1>20, <1>21,
       <1>22, <1>23, <1>24, <1>25, <1>26, <1>27, <1>28, <1>29, <1>30, <1>31,
       <1>32, <1>33, <1>34, <1>35, <1>36, <1>37, <1>38, <1>39
    DEF Next, RxStep, LockStep, ClientStep, AdminStep

(* The connection invariant is one of the specification. *)
THEOREM ConnectionCorrect == Spec => []ConnectionInv
BY InitConnection, NextConnection, PTL DEF Spec

(* No connection leaves a connect id behind, however many sockets a user   *)
(* has and wherever its handler stood when it was lost.                    *)
THEOREM NoConnectIdLeft == Spec => []NoStaleConnectId
<1>1. ConnectionInv => NoStaleConnectId
    BY DEF ConnectionInv, LinkInv, NoStaleConnectId
<1> QED
    BY <1>1, ConnectionCorrect, PTL

-----------------------------------------------------------------------------
(* The sockets as Link has them *)

Handlers == Pcs \ {"idle", "lostAnn"}

(* A step of a handler leaves the connections alone and does not run       *)
(* onConnectionLost.                                                       *)
LEMMA HandlerStep ==
    ASSUME TypeOK, NEW s \in Skts,
           \/ QueryJoinState(s) \/ MarkActive(s) \/ RecordDecision(s) \/ AddConnection(s)
           \/ JoinedByUser(s) \/ SaveJoined(s) \/ MarkJoinedActive(s) \/ AddClient(s)
           \/ BroadcastSnapshot(s) \/ BroadcastSend(s) \/ MemberListSnapshot(s) \/ SendMember(s)
           \/ MembersSent(s) \/ SendJoinReply(s) \/ JoinDone(s) \/ RecordRequest(s)
           \/ SendLockedReply(s) \/ LeaveTold(s) \/ RemoveClient(s) \/ LeftByUser(s)
           \/ RemoveConnection(s) \/ AnnounceRemoved(s)
           \/ InsertDecision(s) \/ InsertJoined(s) \/ InsertRequest(s)
    PROVE  /\ pc[s] \in Handlers
           /\ \E next \in Handlers \union {"idle"} : pc' = [pc EXCEPT ![s] = next]
           /\ UNCHANGED link
<1> USE DEF Handlers, Pcs, JoinPcs, InsertPcs, LeavePcs, UnJoinPcs, At, Goto, Decided, TypeOK
<1>1. CASE QueryJoinState(s)
    BY <1>1 DEF QueryJoinState
<1>2. CASE MarkActive(s)
    BY <1>2 DEF MarkActive
<1>3. CASE RecordDecision(s)
    BY <1>3 DEF RecordDecision
<1>4. CASE AddConnection(s)
    BY <1>4 DEF AddConnection
<1>5. CASE JoinedByUser(s)
    BY <1>5 DEF JoinedByUser
<1>6. CASE SaveJoined(s)
    BY <1>6 DEF SaveJoined
<1>7. CASE MarkJoinedActive(s)
    BY <1>7 DEF MarkJoinedActive
<1>8. CASE AddClient(s)
    BY <1>8 DEF AddClient
<1>9. CASE BroadcastSnapshot(s)
    BY <1>9 DEF BroadcastSnapshot
<1>10. CASE BroadcastSend(s)
    BY <1>10 DEF BroadcastSend
<1>11. CASE MemberListSnapshot(s)
    BY <1>11 DEF MemberListSnapshot
<1>12. CASE SendMember(s)
    BY <1>12 DEF SendMember
<1>13. CASE MembersSent(s)
    BY <1>13 DEF MembersSent
<1>14. CASE SendJoinReply(s)
    BY <1>14 DEF SendJoinReply
<1>15. CASE JoinDone(s)
    BY <1>15 DEF JoinDone
<1>16. CASE RecordRequest(s)
    BY <1>16 DEF RecordRequest
<1>17. CASE SendLockedReply(s)
    BY <1>17 DEF SendLockedReply
<1>18. CASE LeaveTold(s)
    BY <1>18 DEF LeaveTold
<1>19. CASE RemoveClient(s)
    BY <1>19 DEF RemoveClient
<1>20. CASE LeftByUser(s)
    BY <1>20 DEF LeftByUser
<1>21. CASE RemoveConnection(s)
    BY <1>21 DEF RemoveConnection
<1>22. CASE AnnounceRemoved(s)
    BY <1>22 DEF AnnounceRemoved
<1>23. CASE InsertDecision(s)
    BY <1>23 DEF InsertDecision
<1>24. CASE InsertJoined(s)
    BY <1>24 DEF InsertJoined
<1>25. CASE InsertRequest(s)
    BY <1>25 DEF InsertRequest
<1> QED
    BY <1>1, <1>2, <1>3, <1>4, <1>5, <1>6, <1>7, <1>8, <1>9, <1>10, <1>11, <1>12, <1>13, <1>14,
       <1>15, <1>16, <1>17, <1>18, <1>19, <1>20, <1>21, <1>22,
       <1>23, <1>24, <1>25

(* The host handles packets and lost connections as Link lets it. *)
LEMMA StepOfLinks == ConnectionInv /\ [Next]_vars => [AbstractLinks!Next]_(AbstractLinks!vars)
<1> SUFFICES ASSUME ConnectionInv, [Next]_vars PROVE [AbstractLinks!Next]_(AbstractLinks!vars)
    OBVIOUS
<1> DEFINE handling == {s \in Skts : pc[s] \notin {"idle", "lostAnn"}}
<1>1. TypeOK /\ LinkInv
    BY DEF ConnectionInv
<1>2. ASSUME NEW s \in Skts, NEW next \in Pcs, pc' = [pc EXCEPT ![s] = next]
      PROVE  /\ next \in {"idle", "lostAnn"} => handling' = handling \ {s}
             /\ next \notin {"idle", "lostAnn"} => handling' = handling \union {s}
    BY <1>1, <1>2 DEF TypeOK
<1>3. ASSUME NEW s \in Skts, LostErase(s) PROVE AbstractLinks!Lost(s) \/ UNCHANGED AbstractLinks!vars
    <2>1. CASE s \in connectIds
        <3>1. pc[s] = "idle" /\ pc' = [pc EXCEPT ![s] = "lostAnn"] /\ UNCHANGED link
            BY <1>3, <2>1 DEF LostErase, At, Goto
        <3>2. handling' = handling
            BY <1>1, <1>2, <3>1 DEF Pcs
        <3> QED BY <3>1, <3>2 DEF AbstractLinks!vars
    <2>2. CASE s \notin connectIds
        BY <1>3, <2>2 DEF LostErase, At, AbstractLinks!Lost, AbstractLinks!Become
    <2> QED BY <2>1, <2>2
<1>4. ASSUME NEW s \in Skts, LostAnnounce(s) PROVE AbstractLinks!Lost(s)
    <2>1. /\ pc[s] = "lostAnn" /\ pc' = [pc EXCEPT ![s] = "idle"]
          /\ link[s] = "lost" /\ link' = [link EXCEPT ![s] = "down"]
        BY <1>1, <1>4 DEF LostAnnounce, LinkInv, At, Goto
    <2>2. handling' = handling
        BY <1>2, <2>1 DEF Pcs
    <2> QED BY <2>1, <2>2 DEF AbstractLinks!Lost, AbstractLinks!Become
<1>5. ASSUME NEW s \in Skts, pc[s] \in Handlers, UNCHANGED link,
             NEW next \in Handlers \union {"idle"}, pc' = [pc EXCEPT ![s] = next]
      PROVE  AbstractLinks!Finish(s) \/ UNCHANGED AbstractLinks!vars
    <2>1. s \in handling /\ next \in Pcs
        BY <1>5 DEF Handlers, Pcs
    <2>2. next = "idle" => handling' = handling \ {s}
        BY <1>2, <1>5, <2>1
    <2>3. next # "idle" => handling' = handling
        BY <1>2, <1>5, <2>1 DEF Handlers
    <2> QED BY <1>5, <2>1, <2>2, <2>3 DEF AbstractLinks!Finish, AbstractLinks!vars
<1>6. ASSUME NEW s \in Skts, RxStep(s) PROVE [AbstractLinks!Next]_(AbstractLinks!vars)
    <2>1. CASE LostErase(s) \/ LostAnnounce(s)
        BY <1>3, <1>4, <2>1 DEF AbstractLinks!Next
    <2>2. CASE ~(LostErase(s) \/ LostAnnounce(s))
        <3>1. /\ pc[s] \in Handlers
              /\ \E next \in Handlers \union {"idle"} : pc' = [pc EXCEPT ![s] = next]
              /\ UNCHANGED link
            BY <1>1, <1>6, <2>2, HandlerStep DEF RxStep, LockStep
        <3> QED BY <1>5, <3>1 DEF AbstractLinks!Next
    <2> QED BY <2>1, <2>2
<1>7. ASSUME NEW s \in Skts, Connect(s) PROVE AbstractLinks!Connect(s)
    <2>1. pc[s] = "idle" /\ UNCHANGED pc
        BY <1>1, <1>7 DEF Connect, LinkInv, threadVars
    <2> QED BY <1>7, <2>1 DEF Connect, AbstractLinks!Connect, AbstractLinks!Become
<1>8. ASSUME NEW s \in Skts, Drop(s) PROVE AbstractLinks!Drop(s)
    BY <1>8 DEF Drop, AbstractLinks!Drop, AbstractLinks!Become
<1>9. ASSUME NEW s \in Skts, JoinReq(s) \/ LeaveReq(s) \/ UnJoinReq(s) PROVE AbstractLinks!Handle(s)
    <2>1. /\ link[s] = "up" /\ pc[s] = "idle" /\ UNCHANGED link
          /\ \E next \in Handlers : pc' = [pc EXCEPT ![s] = next]
        <3>1. CASE JoinReq(s)
            BY <3>1 DEF JoinReq, At, Goto, Handlers, Pcs, JoinPcs
        <3>2. CASE LeaveReq(s)
            BY <3>2 DEF LeaveReq, At, Goto, Handlers, Pcs, LeavePcs
        <3>3. CASE UnJoinReq(s)
            BY <3>3 DEF UnJoinReq, At, Goto, Handlers, Pcs, UnJoinPcs
        <3> QED BY <1>9, <3>1, <3>2, <3>3
    <2>2. handling' = handling \union {s} /\ s \notin handling
        BY <1>2, <2>1 DEF Handlers
    <2> QED BY <2>1, <2>2 DEF AbstractLinks!Handle
<1>10. ASSUME AdminStep PROVE UNCHANGED AbstractLinks!vars
    BY <1>10 DEF AdminStep, SetPluginPermission, AcceptJoin, RejectJoin, InsertDecided,
                 SetFriendship, threadVars, AbstractLinks!vars
<1>11. ASSUME Restart PROVE AbstractLinks!Stop
    BY <1>11 DEF Restart, AbstractLinks!Stop, AbstractLinks!AllDown
<1>12. ASSUME UNCHANGED vars PROVE UNCHANGED AbstractLinks!vars
    BY <1>12 DEF vars, threadVars, AbstractLinks!vars
<1> QED
    BY <1>6, <1>7, <1>8, <1>9, <1>10, <1>11, <1>12 DEF Next, ClientStep, AbstractLinks!Next

(* However handlers, losses and restarts interleave, the host treats its   *)
(* sockets as their life cycle promises them: nothing is handled on a      *)
(* socket after onConnectionLost, and that waits for the handler.          *)
THEOREM LinksUsed == Spec => LinksAreUsed
<1>1. Init => AbstractLinks!Init
    BY DEF Init, AbstractLinks!Init, AbstractLinks!AllDown
<1>2. ConnectionInv /\ [Next]_vars => [AbstractLinks!Next]_(AbstractLinks!vars)
    BY StepOfLinks
<1> QED
    BY <1>1, <1>2, ConnectionCorrect, PTL DEF Spec, LinksAreUsed, AbstractLinks!Spec

-----------------------------------------------------------------------------
(* Membership: what holds when nobody who has two sockets leaves *)

(* A leave on one socket takes the user from the client list, whatever he  *)
(* does on another.                                                        *)
OneSocketOfLeavers == OneSocketPerUser \/ "leave" \notin Inputs

LeaversInv == \A s \in Skts : pc[s] \in LeavePcs => "leave" \in Inputs

ListedInv ==
    \A s \in Skts : told[s] = "ok" \/ pc[s] \in ListedPcs => Owner[s] \in clientList

(* s has copied its member list, and t its first broadcast's recipients. *)
Knowing(s)   == link[s] = "up" /\ (told[s] = "ok" \/ pc[s] \in KnowingPcs)
Announced(t) == told[t] = "ok" \/ pc[t] \in KnowingPcs \union {"send1"}

(* Then s sees the user of t, or is about to be told of him: by the first  *)
(* broadcast of t or by its own member list.                               *)
Sees(s, t) ==
    \/ Owner[t] \in view[s]
    \/ pc[t] = "send1" /\ told[t] # "ok" /\ s \in todo[t]
    \/ pc[s] = "members" /\ told[s] # "ok" /\ Owner[t] \in members[s]

SeesInv == \A s, t \in Skts :
    Owner[s] # Owner[t] /\ Knowing(s) /\ Announced(t) => Sees(s, t)

MembershipInv == ConnectionInv /\ LeaversInv /\ ListedInv /\ SeesInv

LEMMA InitMembership == Init => MembershipInv
BY InitConnection
   DEF Init, MembershipInv, LeaversInv, ListedInv, SeesInv, Knowing, Announced, ListedPcs, KnowingPcs,
       LeavePcs

(* A leave begins with a request. *)
LEMMA NextLeavers == TypeOK /\ LeaversInv /\ [Next]_vars => LeaversInv'
<1> SUFFICES ASSUME TypeOK, LeaversInv, [Next]_vars PROVE LeaversInv'
    OBVIOUS
<1> USE DEF TypeOK, LeaversInv, LeavePcs, At, Goto, Decided, threadVars
<1>1. CASE pc' = pc
    BY <1>1
<1>2. CASE Restart
    BY <1>2 DEF Restart
<1>3. ASSUME NEW s \in Skts,
             \/ LostErase(s) \/ LostAnnounce(s) \/ QueryJoinState(s) \/ MarkActive(s)
             \/ RecordDecision(s) \/ AddConnection(s) \/ JoinedByUser(s) \/ SaveJoined(s)
             \/ MarkJoinedActive(s) \/ AddClient(s) \/ JoinReq(s)
             \/ InsertDecision(s) \/ InsertJoined(s) \/ InsertRequest(s)
      PROVE  LeaversInv'
    BY <1>3 DEF LostErase, LostAnnounce, QueryJoinState, MarkActive, RecordDecision,
                AddConnection, JoinedByUser, SaveJoined, MarkJoinedActive, AddClient, JoinReq,
                InsertDecision, InsertJoined, InsertRequest
<1>4. ASSUME NEW s \in Skts,
             \/ BroadcastSnapshot(s) \/ MemberListSnapshot(s) \/ SendMember(s) \/ MembersSent(s)
             \/ SendJoinReply(s) \/ JoinDone(s) \/ RecordRequest(s) \/ SendLockedReply(s)
      PROVE  LeaversInv'
  <2>1. CASE BroadcastSnapshot(s)
    BY <2>1 DEF BroadcastSnapshot
  <2>2. CASE MemberListSnapshot(s) \/ MembersSent(s)
    BY <2>2 DEF MemberListSnapshot, MembersSent
  <2>3. CASE SendMember(s)
    BY <2>3 DEF SendMember
  <2>4. CASE SendJoinReply(s) \/ JoinDone(s) \/ RecordRequest(s) \/ SendLockedReply(s)
    BY <2>4 DEF SendJoinReply, JoinDone, RecordRequest, SendLockedReply
  <2> QED BY <1>4, <2>1, <2>2, <2>3, <2>4
<1>5. ASSUME NEW s \in Skts,
             \/ LeaveTold(s) \/ RemoveClient(s) \/ LeftByUser(s) \/ RemoveConnection(s)
             \/ AnnounceRemoved(s) \/ LeaveReq(s) \/ UnJoinReq(s)
      PROVE  LeaversInv'
    BY <1>5 DEF LeaveTold, RemoveClient, LeftByUser, RemoveConnection, AnnounceRemoved, LeaveReq,
                UnJoinReq
<1>6. \/ pc' = pc \/ Restart
      \/ \E s \in Skts :
            \/ LostErase(s) \/ LostAnnounce(s) \/ QueryJoinState(s) \/ MarkActive(s)
            \/ RecordDecision(s) \/ AddConnection(s) \/ JoinedByUser(s) \/ SaveJoined(s)
            \/ MarkJoinedActive(s) \/ AddClient(s) \/ JoinReq(s)
            \/ InsertDecision(s) \/ InsertJoined(s) \/ InsertRequest(s)
            \/ BroadcastSnapshot(s) \/ MemberListSnapshot(s) \/ SendMember(s) \/ MembersSent(s)
            \/ SendJoinReply(s) \/ JoinDone(s) \/ RecordRequest(s) \/ SendLockedReply(s)
            \/ LeaveTold(s) \/ RemoveClient(s) \/ LeftByUser(s) \/ RemoveConnection(s)
            \/ AnnounceRemoved(s) \/ LeaveReq(s) \/ UnJoinReq(s)
    BY DEF Next, RxStep, LockStep, ClientStep, AdminStep, vars, Connect, Drop, BroadcastSend, AcceptJoin,
           RejectJoin, InsertDecided, SetPluginPermission, SetFriendship
<1> QED
    BY <1>1, <1>2, <1>3, <1>4, <1>5, <1>6

(* With one socket per user, only the thread of that socket changes what   *)
(* the client list says of the user; and without leaves nothing is taken   *)
(* from this list.                                                         *)
LEMMA NextMembership == OneSocketOfLeavers /\ MembershipInv /\ [Next]_vars => MembershipInv'
<1> SUFFICES ASSUME OneSocketOfLeavers, MembershipInv, [Next]_vars PROVE ListedInv' /\ SeesInv'
    BY NextConnection, NextLeavers DEF MembershipInv, ConnectionInv
<1> USE OwnerAssumption
    DEF MembershipInv, ConnectionInv, TypeOK, LinkInv, ConnectedInv, ListedInv, SeesInv, Sees,
        Knowing, Announced, LeaversInv, OneSocketOfLeavers, OneSocketPerUser, At, Goto, Decided,
        ConnectedPcs, ListedPcs, KnowingPcs, LeavePcs, UnJoinPcs,
        threadVars, listVars, recordVars, adminVars, clientVars
<1>1. ASSUME NEW s \in Skts, LostErase(s) PROVE ListedInv' /\ SeesInv'
    BY <1>1 DEF LostErase
<1>2. ASSUME NEW s \in Skts, LostAnnounce(s) PROVE ListedInv' /\ SeesInv'
    BY <1>2 DEF LostAnnounce
<1>3. ASSUME NEW s \in Skts, QueryJoinState(s) PROVE ListedInv' /\ SeesInv'
    BY <1>3 DEF QueryJoinState
<1>4. ASSUME NEW s \in Skts, MarkActive(s) PROVE ListedInv' /\ SeesInv'
    BY <1>4 DEF MarkActive
<1>5. ASSUME NEW s \in Skts, RecordDecision(s) PROVE ListedInv' /\ SeesInv'
    BY <1>5 DEF RecordDecision
<1>6. ASSUME NEW s \in Skts, AddConnection(s) PROVE ListedInv' /\ SeesInv'
    BY <1>6 DEF AddConnection
<1>7. ASSUME NEW s \in Skts, JoinedByUser(s) PROVE ListedInv' /\ SeesInv'
    BY <1>7 DEF JoinedByUser
<1>8. ASSUME NEW s \in Skts, SaveJoined(s) PROVE ListedInv' /\ SeesInv'
    BY <1>8 DEF SaveJoined
<1>9. ASSUME NEW s \in Skts, MarkJoinedActive(s) PROVE ListedInv' /\ SeesInv'
    BY <1>9 DEF MarkJoinedActive
<1>10. ASSUME NEW s \in Skts, AddClient(s) PROVE ListedInv' /\ SeesInv'
  <2>1. ListedInv'
    BY <1>10 DEF AddClient
  <2>2. SeesInv'
    BY <1>10 DEF AddClient
  <2> QED BY <2>1, <2>2
<1>11. ASSUME NEW s \in Skts, BroadcastSnapshot(s) PROVE ListedInv' /\ SeesInv'
  <2>1. ListedInv'
    BY <1>11 DEF BroadcastSnapshot, ClientsExcept
  <2>2. SeesInv'
    BY <1>11 DEF BroadcastSnapshot, ClientsExcept
  <2> QED BY <2>1, <2>2
<1>12. ASSUME NEW s \in Skts, BroadcastSend(s) PROVE ListedInv' /\ SeesInv'
  <2>1. ListedInv'
    BY <1>12 DEF BroadcastSend, Tell
  <2>2. SeesInv'
    BY <1>12 DEF BroadcastSend, Tell
  <2> QED BY <2>1, <2>2
<1>13. ASSUME NEW s \in Skts, MemberListSnapshot(s) PROVE ListedInv' /\ SeesInv'
  <2>1. ListedInv'
    BY <1>13 DEF MemberListSnapshot
  <2>2. SeesInv'
    BY <1>13 DEF MemberListSnapshot
  <2> QED BY <2>1, <2>2
<1>14. ASSUME NEW s \in Skts, SendMember(s) PROVE ListedInv' /\ SeesInv'
  <2>1. ListedInv'
    BY <1>14 DEF SendMember, Tell
  <2>2. ASSUME NEW x \in Skts, NEW y \in Skts, Owner[x] # Owner[y], Knowing(x)', Announced(y)'
        PROVE  Sees(x, y)'
    <3>1. Knowing(x) /\ Announced(y)
      BY <1>14, <2>2 DEF SendMember
    <3>2. Sees(x, y)
      BY <2>2, <3>1
    <3>3. CASE x # s
      BY <1>14, <3>2, <3>3 DEF SendMember, Tell
    <3>4. CASE x = s
      <4>1. link[s] = "up"
        BY <3>1, <3>4
      <4>2. PICK v \in members[s] :
                view' = [view EXCEPT ![s] = @ \union {v}] /\ members' = [members EXCEPT ![s] = @ \ {v}]
        BY <1>14, <4>1 DEF SendMember, Tell
      <4>3. UNCHANGED <<pc, told, todo>>
        BY <1>14, <4>1 DEF SendMember
      <4> QED BY <3>2, <3>4, <4>2, <4>3
    <3> QED BY <3>3, <3>4
  <2> QED BY <2>1, <2>2 DEF SeesInv
<1>15. ASSUME NEW s \in Skts, MembersSent(s) PROVE ListedInv' /\ SeesInv'
  <2>1. ListedInv'
    BY <1>15 DEF MembersSent
  <2>2. SeesInv'
    BY <1>15 DEF MembersSent
  <2> QED BY <2>1, <2>2
<1>16. ASSUME NEW s \in Skts, SendJoinReply(s) PROVE ListedInv' /\ SeesInv'
  <2>1. ListedInv'
    BY <1>16 DEF SendJoinReply
  <2>2. SeesInv'
    BY <1>16 DEF SendJoinReply
  <2> QED BY <2>1, <2>2
<1>17. ASSUME NEW s \in Skts, JoinDone(s) PROVE ListedInv' /\ SeesInv'
    BY <1>17 DEF JoinDone
<1>18. ASSUME NEW s \in Skts, RecordRequest(s) PROVE ListedInv' /\ SeesInv'
    BY <1>18 DEF RecordRequest
<1>19. ASSUME NEW s \in Skts, SendLockedReply(s) PROVE ListedInv' /\ SeesInv'
    BY <1>19 DEF SendLockedReply
<1>20. ASSUME NEW s \in Skts, LeaveTold(s) PROVE ListedInv' /\ SeesInv'
    BY <1>20 DEF LeaveTold
<1>21. ASSUME NEW s \in Skts, RemoveClient(s) PROVE ListedInv' /\ SeesInv'
  <2>1. ListedInv'
    BY <1>21 DEF RemoveClient
  <2>2. SeesInv'
    BY <1>21 DEF RemoveClient
  <2> QED BY <2>1, <2>2
<1>22. ASSUME NEW s \in Skts, LeftByUser(s) PROVE ListedInv' /\ SeesInv'
    BY <1>22 DEF LeftByUser
<1>23. ASSUME NEW s \in Skts, RemoveConnection(s) PROVE ListedInv' /\ SeesInv'
    BY <1>23 DEF RemoveConnection
<1>24. ASSUME NEW s \in Skts, AnnounceRemoved(s) PROVE ListedInv' /\ SeesInv'
    BY <1>24 DEF AnnounceRemoved
<1>25. ASSUME NEW s \in Skts, Connect(s) PROVE ListedInv' /\ SeesInv'
    BY <1>25 DEF Connect
<1>26. ASSUME NEW s \in Skts, Drop(s) PROVE ListedInv' /\ SeesInv'
  <2>1. ListedInv'
    BY <1>26 DEF Drop
  <2>2. SeesInv'
    BY <1>26 DEF Drop
  <2> QED BY <2>1, <2>2
<1>27. ASSUME NEW s \in Skts, JoinReq(s) PROVE ListedInv' /\ SeesInv'
    BY <1>27 DEF JoinReq
<1>28. ASSUME NEW s \in Skts, LeaveReq(s) PROVE ListedInv' /\ SeesInv'
  <2>1. ListedInv'
    BY <1>28 DEF LeaveReq
  <2>2. SeesInv'
    BY <1>28 DEF LeaveReq
  <2> QED BY <2>1, <2>2
<1>29. ASSUME NEW s \in Skts, UnJoinReq(s) PROVE ListedInv' /\ SeesInv'
  <2>1. ListedInv'
    BY <1>29 DEF UnJoinReq
  <2>2. SeesInv'
    BY <1>29 DEF UnJoinReq
  <2> QED BY <2>1, <2>2
<1>30. ASSUME NEW u \in Users, AcceptJoin(u) PROVE ListedInv' /\ SeesInv'
    BY <1>30 DEF AcceptJoin
<1>31. ASSUME NEW u \in Users, RejectJoin(u) PROVE ListedInv' /\ SeesInv'
    BY <1>31 DEF RejectJoin
<1>32. ASSUME NEW u \in Users, SetFriendship(u) PROVE ListedInv' /\ SeesInv'
    BY <1>32 DEF SetFriendship
<1>33. ASSUME SetPluginPermission PROVE ListedInv' /\ SeesInv'
    BY <1>33 DEF SetPluginPermission
<1>34. ASSUME Restart PROVE ListedInv' /\ SeesInv'
  <2>1. ListedInv'
    BY <1>34 DEF Restart
  <2>2. SeesInv'
    BY <1>34 DEF Restart
  <2> QED BY <2>1, <2>2
<1>35. ASSUME UNCHANGED vars PROVE ListedInv' /\ SeesInv'
    BY <1>35 DEF vars
<1>36. ASSUME NEW s \in Skts, InsertDecision(s) PROVE ListedInv' /\ SeesInv'
    BY <1>36 DEF InsertDecision
<1>37. ASSUME NEW s \in Skts, InsertJoined(s) PROVE ListedInv' /\ SeesInv'
    BY <1>37 DEF InsertJoined
<1>38. ASSUME NEW s \in Skts, InsertRequest(s) PROVE ListedInv' /\ SeesInv'
    BY <1>38 DEF InsertRequest
<1>39. ASSUME NEW u \in Users, InsertDecided(u) PROVE ListedInv' /\ SeesInv'
    BY <1>39 DEF InsertDecided
<1> QED
    BY <1>1, <1>2, <1>3, <1>4, <1>5, <1>6, <1>7, <1>8, <1>9, <1>10, <1>11,
       <1>12, <1>13, <1>14, <1>15, <1>16, <1>17, <1>18, <1>19, <1>20, <1>21,
       <1>22, <1>23, <1>24, <1>25, <1>26, <1>27, <1>28, <1>29, <1>30, <1>31,
       <1>32, <1>33, <1>34, <1>35, <1>36, <1>37, <1>38, <1>39
    DEF Next, RxStep, LockStep, ClientStep, AdminStep

(* The membership invariant is one of the specification. *)
THEOREM MembershipCorrect == ASSUME OneSocketOfLeavers PROVE Spec => []MembershipInv
BY InitMembership, NextMembership, PTL DEF Spec

(* Whatever the interleaving of joins, leaves, lost connections, admin     *)
(* actions and restarts, clients with a join reply see each other.         *)
THEOREM JoinedSeeEachOther == ASSUME OneSocketOfLeavers PROVE Spec => []MutualVisibility
<1>1. MembershipInv => MutualVisibility
    BY DEF MembershipInv, ConnectionInv, LinkInv, SeesInv, Sees, Knowing, Announced, KnowingPcs,
           MutualVisibility, Joined
<1> QED
    BY <1>1, MembershipCorrect, PTL

(* A client with a join reply is found by broadcasts and member lists. *)
THEOREM JoinedAreMembers == ASSUME OneSocketOfLeavers PROVE Spec => []JoinedIsMember
<1>1. MembershipInv => JoinedIsMember
    BY DEF MembershipInv, ConnectionInv, ConnectedInv, ListedInv, JoinedIsMember, Joined
<1> QED
    BY <1>1, MembershipCorrect, PTL

-----------------------------------------------------------------------------
(* The abstract roster *)

(* When joined clients see each other, what they see follows from who they *)
(* are.                                                                    *)
LEMMA SeenIsRoster ==
    MutualVisibility => [u \in Users |-> SeenBy(u)] = AbstractRoster!AllSee(JoinedUsers)
<1> SUFFICES ASSUME MutualVisibility, NEW u \in Users
             PROVE  SeenBy(u) = IF u \in JoinedUsers THEN JoinedUsers \ {u} ELSE {}
    BY DEF AbstractRoster!AllSee
<1>1. CASE u \in JoinedUsers
    <2>1. PICK s \in Skts : Joined(s) /\ Owner[s] = u
        BY <1>1 DEF JoinedUsers, JoinedSkts
    <2>2. JoinedUsers \ {u} \subseteq view[s]
        BY <2>1 DEF MutualVisibility, JoinedUsers, JoinedSkts
    <2> QED
        BY <1>1, <2>1, <2>2 DEF SeenBy, JoinedSkts
<1>2. CASE u \notin JoinedUsers
    BY <1>2 DEF SeenBy, JoinedUsers, JoinedSkts
<1> QED
    BY <1>1, <1>2

(* Only a restart changes for more than one socket whether it is joined.   *)
LEMMA OneJoinsOrGoes ==
    ASSUME ConnectionInv, [Next]_vars, ~Restart
    PROVE  JoinedSkts' = JoinedSkts \/ \E s \in Skts : JoinedSkts' \in {JoinedSkts \union {s}, JoinedSkts \ {s}}
<1> USE DEF ConnectionInv, TypeOK, LinkInv, JoinedSkts, Joined, clientVars
<1>1. CASE UNCHANGED <<link, told>>
    BY <1>1
<1>2. ASSUME NEW s \in Skts,
             LostErase(s) \/ LostAnnounce(s) \/ Connect(s) \/ SendLockedReply(s)
             \/ SendJoinReply(s) \/ Drop(s) \/ LeaveReq(s) \/ UnJoinReq(s)
      PROVE  JoinedSkts' \in {JoinedSkts, JoinedSkts \union {s}, JoinedSkts \ {s}}
    BY <1>2 DEF LostErase, LostAnnounce, Connect, SendLockedReply, SendJoinReply, Drop,
                LeaveReq, UnJoinReq, At, Goto
<1>3. UNCHANGED <<link, told>> \/ \E s \in Skts :
             LostErase(s) \/ LostAnnounce(s) \/ Connect(s) \/ SendLockedReply(s)
             \/ SendJoinReply(s) \/ Drop(s) \/ LeaveReq(s) \/ UnJoinReq(s)
    BY DEF Next, RxStep, LockStep, ClientStep, AdminStep, vars, QueryJoinState, MarkActive, RecordDecision,
           AddConnection, JoinedByUser, SaveJoined, MarkJoinedActive, AddClient,
           BroadcastSnapshot, BroadcastSend, MemberListSnapshot, SendMember, MembersSent,
           JoinDone, RecordRequest, LeaveTold, RemoveClient, LeftByUser, RemoveConnection,
           AnnounceRemoved, JoinReq, AcceptJoin, RejectJoin, SetPluginPermission, SetFriendship,
           InsertDecision, InsertJoined, InsertRequest, InsertDecided
<1> QED
    BY <1>1, <1>2, <1>3

LEMMA StepOfRoster ==
    ASSUME ConnectionInv, MutualVisibility, MutualVisibility', [Next]_vars
    PROVE  [AbstractRoster!Next]_AbstractRoster!vars
<1> DEFINE seen == [u \in Users |-> SeenBy(u)]
<1>1. /\ seen = AbstractRoster!AllSee(JoinedUsers)
      /\ seen' = AbstractRoster!AllSee(JoinedUsers')
    <2>1. MutualVisibility => seen = AbstractRoster!AllSee(JoinedUsers)
        BY SeenIsRoster
    <2>2. (MutualVisibility => seen = AbstractRoster!AllSee(JoinedUsers))'
        BY SeenIsRoster, PTL
    <2> QED
        BY <2>1, <2>2 DEF AbstractRoster!AllSee
<1> HIDE DEF seen
<1> USE OwnerAssumption DEF AbstractRoster!Next, AbstractRoster!Join, AbstractRoster!Go,
        AbstractRoster!Stop, AbstractRoster!Become, AbstractRoster!vars
<1>2. CASE Restart
    <2>1. JoinedUsers' = {}
        BY <1>2 DEF Restart, JoinedUsers, JoinedSkts, Joined
    <2> QED
        BY <1>1, <2>1 DEF seen
<1>3. CASE JoinedUsers' = JoinedUsers
    BY <1>1, <1>3 DEF seen
<1>4. ASSUME NEW s \in Skts, JoinedSkts' \in {JoinedSkts \union {s}, JoinedSkts \ {s}},
             JoinedUsers' # JoinedUsers
      PROVE  \E u \in Users : AbstractRoster!Join(u) \/ AbstractRoster!Go(u)
    <2>1. \/ Owner[s] \notin JoinedUsers /\ JoinedUsers' = JoinedUsers \union {Owner[s]}
          \/ Owner[s] \in JoinedUsers /\ JoinedUsers' = JoinedUsers \ {Owner[s]}
        BY <1>4 DEF JoinedUsers
    <2> QED
        BY <1>1, <2>1 DEF seen
<1> QED
    BY <1>2, <1>3, <1>4, OneJoinsOrGoes DEF JoinedUsers

(* Unless a user with two sockets leaves, the host implements the abstract *)
(* roster: a join, spread over the locked sections of onPktHostJoinReq, is *)
(* to the clients a single step after which all see each other.            *)
THEOREM RosterImplemented == ASSUME OneSocketOfLeavers PROVE Spec => JoinsAreAtomic
<1>1. Init => AbstractRoster!Init
    BY DEF Init, AbstractRoster!Init, AbstractRoster!AllSee, SeenBy, JoinedUsers, JoinedSkts, Joined
<1>2. ConnectionInv /\ MutualVisibility /\ MutualVisibility' /\ [Next]_vars
          => [AbstractRoster!Next]_AbstractRoster!vars
    BY StepOfRoster
<1> QED
    BY <1>1, <1>2, ConnectionCorrect, JoinedSeeEachOther, PTL
    DEF Spec, JoinsAreAtomic, AbstractRoster!Spec

-----------------------------------------------------------------------------
(* Join records: what holds when no user has two sockets *)

(* The steps after the record of a joined user was saved. *)
SavedPcs == ListedPcs \union {"active2", "list"}

(* The list is locked by one save at a time, from its DELETE to its INSERT, *)
(* and these saves write a record that is listed.                          *)
LockInv ==
    /\ \A s, t \in Skts : pc[s] \in InsertPcs /\ pc[t] \in InsertPcs => s = t
    /\ \A u \in deciding : \A s \in Skts : pc[s] \notin InsertPcs
    /\ \A u, v \in deciding : u = v
    /\ \A u \in deciding : joinInfo[u] # "Absent"
    /\ \A s \in Skts : pc[s] \in {"stateIns", "reqIns"} => joinInfo[Owner[s]] # "Absent"

(* A new record is one that the list does not hold, up to its save. *)
FreshInv ==
    \A s \in Skts : fresh[s] <=> pc[s] \in {"save", "saveIns"} /\ joinInfo[Owner[s]] = "Absent"

(* What is saved, except while the row is being written anew. *)
SavedInv ==
    \A s \in Skts :
        LET u == Owner[s]
            rewriting == u \in deciding \/ pc[s] \in InsertPcs
        IN  /\ rewriting \/ pc[s] = "save" \/ joinInfo[u] \in {"Absent", "LeaveHost"}
                   \/ joinDb[u] = ToDb(joinInfo[u])
            /\ (told[s] = "ok" \/ pc[s] \in SavedPcs) /\ joinInfo[u] = "Absent"
                   => rewriting \/ joinDb[u] = "WasGranted"
            /\ told[s] = "locked" \/ pc[s] = "reqReply"
                   => joinInfo[u] # "Absent" /\ (rewriting \/ joinDb[u] # "Absent")

(* A listed record has its row, except while it is being written anew. *)
BackedInv ==
    \A u \in Users :
        joinInfo[u] # "Absent" /\ joinDb[u] = "Absent"
            => u \in deciding \/ \E s \in Skts : Owner[s] = u /\ pc[s] \in InsertPcs

SavesInv == LockInv /\ FreshInv /\ SavedInv /\ BackedInv

RecordInv == TypeOK /\ SavesInv

LEMMA InitRecord == Init => RecordInv
BY InitType, OwnerAssumption DEF Init, RecordInv, SavesInv, LockInv, FreshInv, SavedInv, BackedInv,
        InsertPcs, SavedPcs, ListedPcs, KnowingPcs, TypeOK

LEMMA NextRecord == OneSocketPerUser /\ RecordInv /\ [Next]_vars => RecordInv'
<1> SUFFICES ASSUME OneSocketPerUser, RecordInv, [Next]_vars PROVE SavesInv'
    BY NextType DEF RecordInv
<1> USE OwnerAssumption
    DEF RecordInv, SavesInv, TypeOK, LockInv, FreshInv, SavedInv, BackedInv, OneSocketPerUser,
        At, Goto, ToDb, JoinStates, Granted, SavedPcs, ListedPcs, KnowingPcs, InsertPcs, ListLocked,
        DeleteRow, InsertRow, Decided,
        threadVars, listVars, recordVars, adminVars, clientVars
<1>1. ASSUME NEW s \in Skts, LostErase(s) PROVE SavesInv'
    BY <1>1 DEF LostErase
<1>2. ASSUME NEW s \in Skts, LostAnnounce(s) PROVE SavesInv'
    BY <1>2 DEF LostAnnounce
<1>3. ASSUME NEW s \in Skts, QueryJoinState(s) PROVE SavesInv'
    BY <1>3 DEF QueryJoinState
<1>4. ASSUME NEW s \in Skts, MarkActive(s) PROVE SavesInv'
    BY <1>4 DEF MarkActive
<1>5. ASSUME NEW s \in Skts, RecordDecision(s) PROVE SavesInv'
  <2>1. FreshInv'
    BY <1>5 DEF RecordDecision, UpdateJoinState
  <2>2. SavedInv'
    BY <1>5 DEF RecordDecision, UpdateJoinState
  <2>3. LockInv'
    BY <1>5 DEF RecordDecision, UpdateJoinState
  <2>4. BackedInv'
    BY <1>5 DEF RecordDecision, UpdateJoinState
  <2> QED BY <2>1, <2>2, <2>3, <2>4
<1>6. ASSUME NEW s \in Skts, AddConnection(s) PROVE SavesInv'
    BY <1>6 DEF AddConnection
<1>7. ASSUME NEW s \in Skts, JoinedByUser(s) PROVE SavesInv'
  <2>1. FreshInv'
    <3> SUFFICES ASSUME NEW t \in Skts
                 PROVE (fresh[t] <=> pc[t] \in {"save", "saveIns"} /\ joinInfo[Owner[t]] = "Absent")'
        OBVIOUS
    <3> DEFINE new == joinInfo[Owner[s]] = "Absent"
    <3>1. fresh' = [fresh EXCEPT ![s] = new]
        BY <1>7 DEF JoinedByUser
    <3>2. CASE t = s
      <4>1. fresh'[t] = new
          BY <3>1, <3>2
      <4>2. pc'[t] = "save" /\ (joinInfo'[Owner[t]] = "Absent" <=> new)
          BY <1>7, <3>2 DEF JoinedByUser
      <4> QED
          BY <4>1, <4>2, Zenon
    <3>3. CASE t # s
      <4>1. fresh'[t] = fresh[t]
          BY <3>1, <3>3
      <4>2. pc'[t] = pc[t] /\ joinInfo'[Owner[t]] = joinInfo[Owner[t]]
          BY <1>7, <3>3 DEF JoinedByUser
      <4> QED
          BY <4>1, <4>2
    <3> QED
        BY <3>2, <3>3
  <2>2. SavedInv'
    BY <1>7 DEF JoinedByUser
  <2>3. LockInv'
    BY <1>7 DEF JoinedByUser
  <2>4. BackedInv'
    BY <1>7 DEF JoinedByUser
  <2> QED BY <2>1, <2>2, <2>3, <2>4
<1>8. ASSUME NEW s \in Skts, SaveJoined(s) PROVE SavesInv'
  <2>1. FreshInv'
    BY <1>8 DEF SaveJoined
  <2>2. SavedInv'
    BY <1>8 DEF SaveJoined
  <2>3. LockInv'
    BY <1>8 DEF SaveJoined
  <2>4. BackedInv'
    BY <1>8 DEF SaveJoined
  <2> QED BY <2>1, <2>2, <2>3, <2>4
<1>9. ASSUME NEW s \in Skts, MarkJoinedActive(s) PROVE SavesInv'
    BY <1>9 DEF MarkJoinedActive
<1>10. ASSUME NEW s \in Skts, AddClient(s) PROVE SavesInv'
    BY <1>10 DEF AddClient
<1>11. ASSUME NEW s \in Skts, BroadcastSnapshot(s) PROVE SavesInv'
    BY <1>11, SMTT(30) DEF BroadcastSnapshot
<1>12. ASSUME NEW s \in Skts, BroadcastSend(s) PROVE SavesInv'
    BY <1>12 DEF BroadcastSend
<1>13. ASSUME NEW s \in Skts, MemberListSnapshot(s) PROVE SavesInv'
    BY <1>13, SMTT(30) DEF MemberListSnapshot
<1>14. ASSUME NEW s \in Skts, SendMember(s) PROVE SavesInv'
    BY <1>14, SMTT(30) DEF SendMember
<1>15. ASSUME NEW s \in Skts, MembersSent(s) PROVE SavesInv'
    BY <1>15 DEF MembersSent
<1>16. ASSUME NEW s \in Skts, SendJoinReply(s) PROVE SavesInv'
  <2>1. FreshInv'
    BY <1>16 DEF SendJoinReply
  <2>2. SavedInv'
    BY <1>16, SMTT(30) DEF SendJoinReply
  <2>3. LockInv'
    BY <1>16 DEF SendJoinReply
  <2>4. BackedInv'
    BY <1>16 DEF SendJoinReply
  <2> QED BY <2>1, <2>2, <2>3, <2>4
<1>17. ASSUME NEW s \in Skts, JoinDone(s) PROVE SavesInv'
    BY <1>17 DEF JoinDone
<1>18. ASSUME NEW s \in Skts, RecordRequest(s) PROVE SavesInv'
  <2>1. FreshInv'
    BY <1>18 DEF RecordRequest
  <2>2. SavedInv'
    BY <1>18 DEF RecordRequest
  <2>3. LockInv'
    BY <1>18 DEF RecordRequest
  <2>4. BackedInv'
    BY <1>18 DEF RecordRequest
  <2> QED BY <2>1, <2>2, <2>3, <2>4
<1>19. ASSUME NEW s \in Skts, SendLockedReply(s) PROVE SavesInv'
    BY <1>19 DEF SendLockedReply
<1>20. ASSUME NEW s \in Skts, LeaveTold(s) PROVE SavesInv'
    BY <1>20 DEF LeaveTold
<1>21. ASSUME NEW s \in Skts, RemoveClient(s) PROVE SavesInv'
    BY <1>21 DEF RemoveClient
<1>22. ASSUME NEW s \in Skts, LeftByUser(s) PROVE SavesInv'
  <2>1. FreshInv'
    BY <1>22 DEF LeftByUser
  <2>2. SavedInv'
    BY <1>22 DEF LeftByUser
  <2>3. LockInv'
    BY <1>22 DEF LeftByUser
  <2>4. BackedInv'
    BY <1>22 DEF LeftByUser
  <2> QED BY <2>1, <2>2, <2>3, <2>4
<1>23. ASSUME NEW s \in Skts, RemoveConnection(s) PROVE SavesInv'
    BY <1>23 DEF RemoveConnection
<1>24. ASSUME NEW s \in Skts, AnnounceRemoved(s) PROVE SavesInv'
    BY <1>24 DEF AnnounceRemoved
<1>25. ASSUME NEW s \in Skts, Connect(s) PROVE SavesInv'
    BY <1>25 DEF Connect
<1>26. ASSUME NEW s \in Skts, Drop(s) PROVE SavesInv'
    BY <1>26 DEF Drop
<1>27. ASSUME NEW s \in Skts, JoinReq(s) PROVE SavesInv'
    BY <1>27 DEF JoinReq
<1>28. ASSUME NEW s \in Skts, LeaveReq(s) PROVE SavesInv'
    BY <1>28 DEF LeaveReq
<1>29. ASSUME NEW s \in Skts, UnJoinReq(s) PROVE SavesInv'
    BY <1>29 DEF UnJoinReq
<1>30. ASSUME NEW u \in Users, AcceptJoin(u) PROVE SavesInv'
  <2>1. FreshInv'
    BY <1>30 DEF AcceptJoin, UpdateJoinState
  <2>2. SavedInv'
    BY <1>30 DEF AcceptJoin, UpdateJoinState
  <2>3. LockInv'
    BY <1>30 DEF AcceptJoin, UpdateJoinState
  <2>4. BackedInv'
    BY <1>30, SMTT(30) DEF AcceptJoin, UpdateJoinState
  <2> QED BY <2>1, <2>2, <2>3, <2>4
<1>31. ASSUME NEW u \in Users, RejectJoin(u) PROVE SavesInv'
  <2>1. FreshInv'
    BY <1>31 DEF RejectJoin, UpdateJoinState
  <2>2. SavedInv'
    BY <1>31 DEF RejectJoin, UpdateJoinState
  <2>3. LockInv'
    BY <1>31 DEF RejectJoin, UpdateJoinState
  <2>4. BackedInv'
    BY <1>31, SMTT(30) DEF RejectJoin, UpdateJoinState
  <2> QED BY <2>1, <2>2, <2>3, <2>4
<1>32. ASSUME NEW u \in Users, SetFriendship(u) PROVE SavesInv'
    BY <1>32 DEF SetFriendship
<1>33. ASSUME SetPluginPermission PROVE SavesInv'
    BY <1>33 DEF SetPluginPermission
<1>34. ASSUME Restart PROVE SavesInv'
  <2>1. FreshInv'
    BY <1>34 DEF Restart
  <2>2. SavedInv'
    BY <1>34 DEF Restart
  <2>3. LockInv'
    BY <1>34 DEF Restart
  <2>4. BackedInv'
    BY <1>34 DEF Restart
  <2> QED BY <2>1, <2>2, <2>3, <2>4
<1>35. ASSUME UNCHANGED vars PROVE SavesInv'
    BY <1>35 DEF vars
<1>36. ASSUME NEW s \in Skts, InsertDecision(s) PROVE SavesInv'
    BY <1>36 DEF InsertDecision
<1>37. ASSUME NEW s \in Skts, InsertJoined(s) PROVE SavesInv'
    BY <1>37 DEF InsertJoined
<1>38. ASSUME NEW s \in Skts, InsertRequest(s) PROVE SavesInv'
    BY <1>38 DEF InsertRequest
<1>39. ASSUME NEW u \in Users, InsertDecided(u) PROVE SavesInv'
    BY <1>39 DEF InsertDecided
<1> QED
    BY <1>1, <1>2, <1>3, <1>4, <1>5, <1>6, <1>7, <1>8, <1>9, <1>10, <1>11,
       <1>12, <1>13, <1>14, <1>15, <1>16, <1>17, <1>18, <1>19, <1>20, <1>21,
       <1>22, <1>23, <1>24, <1>25, <1>26, <1>27, <1>28, <1>29, <1>30, <1>31,
       <1>32, <1>33, <1>34, <1>35, <1>36, <1>37, <1>38, <1>39
    DEF Next, RxStep, LockStep, ClientStep, AdminStep

(* The database lags behind the list by the saves under way only, and of   *)
(* these by the one that has the list locked, so a restart finds every     *)
(* grant and every pending request, but for the one row that is just being *)
(* deleted and inserted anew.                                              *)
THEOREM RecordsAreDurable == ASSUME OneSocketPerUser PROVE Spec => []RecordDurable
<1>1. ASSUME RecordInv PROVE RecordDurable
  <2> USE <1>1, OwnerAssumption DEF RecordInv, SavesInv
  <2> DEFINE rewriting(u) == u \in deciding \/ \E s \in Skts : Owner[s] = u /\ pc[s] \in InsertPcs
  <2>1. ASSUME NEW s \in Skts, ~Saving(Owner[s])
        PROVE  LET u == Owner[s]
               IN  /\ joinInfo[u] \in {"Absent", "LeaveHost"} \/ joinDb[u] = ToDb(joinInfo[u])
                   /\ told[s] = "ok" /\ joinInfo[u] = "Absent" => joinDb[u] = "WasGranted"
                   /\ told[s] = "locked" => joinInfo[u] # "Absent" /\ joinDb[u] # "Absent"
      BY <2>1 DEF SavedInv, Saving
  <2>2. ASSUME NEW u \in Users, Unbacked(u) PROVE rewriting(u)
      BY <2>2 DEF SavedInv, BackedInv, Unbacked
  <2>3. ASSUME NEW u \in Users, NEW v \in Users, rewriting(u), rewriting(v) PROVE u = v
      BY <2>3 DEF LockInv
  <2> QED
      BY <2>1, <2>2, <2>3 DEF RecordDurable
<1>2. OneSocketPerUser => (Spec => []RecordInv)
    BY InitRecord, NextRecord, PTL DEF Spec
<1> QED
    BY <1>1, <1>2, PTL

-----------------------------------------------------------------------------
(* Requests: where they wait for the admin *)

(* Neither the permission nor a friendship changes, and to be connected    *)
(* does not give an anonymous user what he lacks.                          *)
Steady(p, f) ==
    /\ p \in Levels /\ PermLevels = {p}
    /\ f \in Levels /\ FriendLevels = {f}
    /\ ~(p = Guest /\ f = Anonymous)

(* Whether a user is locked never changes, so that only a handler which    *)
(* found its user granted is to grant, and only a locked user requests.    *)
AskInv(p, f) ==
    /\ perm = p /\ \A u \in Users : friend[u] = f \/ (f = Anonymous /\ friend[u] = Guest)
    /\ \A s \in Skts :
          /\ (pc[s] \in {"active", "state", "stateIns", "conn"} /\ acc[s] = "ok") \/ pc[s] = "info" =>
                joinInfo[Owner[s]] # "Requested"
          /\ pc[s] \in {"query", "reqInfo"} \/ acc[s] = "locked" => f < p
          /\ pc[s] = "query" => acc[s] = "locked"
          /\ pc[s] = "inactive" => acc[s] # "ok"
          /\ pc[s] = "conn" => acc[s] \in {"ok", "locked"}
    /\ ~(f < p) => \A u \in Users : joinInfo[u] # "Requested" /\ joinDb[u] # "Requested"

LEMMA AccessIsSteady ==
    ASSUME NEW p, NEW f, Steady(p, f), TypeOK, AskInv(p, f), NEW u \in Users, friend[u] # Ignore
    PROVE  /\ PluginAccessState(u) = "ok" => ~(f < p)
           /\ PluginAccessState(u) = "locked" => f < p
           /\ PluginAccessState(u) # "ignored"
           /\ PluginAccessState(u) \in {"ok", "locked", "disabled"}
<1> USE DEF Levels, Ignore, Anonymous, Guest, Friend, Admin
<1>1. p \in 0..4 /\ f \in 0..4 /\ ~(p = 2 /\ f = 1) /\ perm = p
    BY DEF Steady, AskInv
<1>2. friend[u] = f \/ (f = 1 /\ friend[u] = 2)
    BY DEF AskInv
<1> QED
    BY <1>1, <1>2 DEF PluginAccessState

LEMMA NextAsk ==
    ASSUME OneSocketPerUser, NEW p, NEW f, Steady(p, f), TypeOK, AskInv(p, f), [Next]_vars
    PROVE  AskInv(p, f)'
<1> USE OwnerAssumption
    DEF TypeOK, AskInv, OneSocketPerUser, At, Goto, ToDb, Granted, JoinStates,
        DeleteRow, InsertRow, Decided,
        threadVars, listVars, recordVars, adminVars, clientVars
<1>1. ASSUME NEW s \in Skts, LostErase(s) PROVE AskInv(p, f)'
    BY <1>1 DEF LostErase
<1>2. ASSUME NEW s \in Skts, LostAnnounce(s) PROVE AskInv(p, f)'
    BY <1>2 DEF LostAnnounce
<1>3. ASSUME NEW s \in Skts, QueryJoinState(s) PROVE AskInv(p, f)'
    BY <1>3 DEF QueryJoinState
<1>4. ASSUME NEW s \in Skts, MarkActive(s) PROVE AskInv(p, f)'
    BY <1>4 DEF MarkActive
<1>5. ASSUME NEW s \in Skts, RecordDecision(s) PROVE AskInv(p, f)'
    BY <1>5 DEF RecordDecision, UpdateJoinState
<1>6. ASSUME NEW s \in Skts, AddConnection(s) PROVE AskInv(p, f)'
    BY <1>6 DEF AddConnection, JoinedFriendship
<1>7. ASSUME NEW s \in Skts, JoinedByUser(s) PROVE AskInv(p, f)'
    BY <1>7 DEF JoinedByUser
<1>8. ASSUME NEW s \in Skts, SaveJoined(s) PROVE AskInv(p, f)'
    BY <1>8 DEF SaveJoined
<1>9. ASSUME NEW s \in Skts, MarkJoinedActive(s) PROVE AskInv(p, f)'
    BY <1>9 DEF MarkJoinedActive
<1>10. ASSUME NEW s \in Skts, AddClient(s) PROVE AskInv(p, f)'
    BY <1>10 DEF AddClient
<1>11. ASSUME NEW s \in Skts, BroadcastSnapshot(s) PROVE AskInv(p, f)'
    BY <1>11 DEF BroadcastSnapshot
<1>12. ASSUME NEW s \in Skts, BroadcastSend(s) PROVE AskInv(p, f)'
    BY <1>12 DEF BroadcastSend
<1>13. ASSUME NEW s \in Skts, MemberListSnapshot(s) PROVE AskInv(p, f)'
    BY <1>13 DEF MemberListSnapshot
<1>14. ASSUME NEW s \in Skts, SendMember(s) PROVE AskInv(p, f)'
    BY <1>14 DEF SendMember
<1>15. ASSUME NEW s \in Skts, MembersSent(s) PROVE AskInv(p, f)'
    BY <1>15 DEF MembersSent
<1>16. ASSUME NEW s \in Skts, SendJoinReply(s) PROVE AskInv(p, f)'
    BY <1>16 DEF SendJoinReply
<1>17. ASSUME NEW s \in Skts, JoinDone(s) PROVE AskInv(p, f)'
    BY <1>17 DEF JoinDone
<1>18. ASSUME NEW s \in Skts, RecordRequest(s) PROVE AskInv(p, f)'
    BY <1>18 DEF RecordRequest
<1>19. ASSUME NEW s \in Skts, SendLockedReply(s) PROVE AskInv(p, f)'
    BY <1>19 DEF SendLockedReply
<1>20. ASSUME NEW s \in Skts, LeaveTold(s) PROVE AskInv(p, f)'
    BY <1>20 DEF LeaveTold
<1>21. ASSUME NEW s \in Skts, RemoveClient(s) PROVE AskInv(p, f)'
    BY <1>21 DEF RemoveClient
<1>22. ASSUME NEW s \in Skts, LeftByUser(s) PROVE AskInv(p, f)'
    BY <1>22 DEF LeftByUser
<1>23. ASSUME NEW s \in Skts, RemoveConnection(s) PROVE AskInv(p, f)'
    BY <1>23 DEF RemoveConnection
<1>24. ASSUME NEW s \in Skts, AnnounceRemoved(s) PROVE AskInv(p, f)'
    BY <1>24 DEF AnnounceRemoved
<1>25. ASSUME NEW s \in Skts, Connect(s) PROVE AskInv(p, f)'
    BY <1>25 DEF Connect
<1>26. ASSUME NEW s \in Skts, Drop(s) PROVE AskInv(p, f)'
    BY <1>26 DEF Drop
<1>27. ASSUME NEW s \in Skts, JoinReq(s) PROVE AskInv(p, f)'
    <2>1. /\ PluginAccessState(Owner[s]) = "ok" => ~(f < p)
          /\ PluginAccessState(Owner[s]) = "locked" => f < p
          /\ PluginAccessState(Owner[s]) \in {"ok", "locked", "disabled"}
        BY <1>27, AccessIsSteady DEF JoinReq
    <2> QED BY <1>27, <2>1 DEF JoinReq
<1>28. ASSUME NEW s \in Skts, LeaveReq(s) PROVE AskInv(p, f)'
    BY <1>28 DEF LeaveReq
<1>29. ASSUME NEW s \in Skts, UnJoinReq(s) PROVE AskInv(p, f)'
    BY <1>29 DEF UnJoinReq
<1>30. ASSUME NEW u \in Users, AcceptJoin(u) PROVE AskInv(p, f)'
    BY <1>30 DEF AcceptJoin, UpdateJoinState
<1>31. ASSUME NEW u \in Users, RejectJoin(u) PROVE AskInv(p, f)'
    BY <1>31 DEF RejectJoin, UpdateJoinState
<1>32. ASSUME NEW u \in Users, SetFriendship(u) PROVE AskInv(p, f)'
    BY <1>32 DEF SetFriendship, Steady
<1>33. ASSUME SetPluginPermission PROVE AskInv(p, f)'
    BY <1>33 DEF SetPluginPermission, Steady
<1>34. ASSUME Restart PROVE AskInv(p, f)'
    BY <1>34 DEF Restart
<1>35. ASSUME UNCHANGED vars PROVE AskInv(p, f)'
    BY <1>35 DEF vars
<1>36. ASSUME NEW s \in Skts, InsertDecision(s) PROVE AskInv(p, f)'
    BY <1>36 DEF InsertDecision
<1>37. ASSUME NEW s \in Skts, InsertJoined(s) PROVE AskInv(p, f)'
    BY <1>37 DEF InsertJoined
<1>38. ASSUME NEW s \in Skts, InsertRequest(s) PROVE AskInv(p, f)'
    BY <1>38 DEF InsertRequest
<1>39. ASSUME NEW u \in Users, InsertDecided(u) PROVE AskInv(p, f)'
    BY <1>39 DEF InsertDecided
<1> QED
    BY <1>1, <1>2, <1>3, <1>4, <1>5, <1>6, <1>7, <1>8, <1>9, <1>10, <1>11,
       <1>12, <1>13, <1>14, <1>15, <1>16, <1>17, <1>18, <1>19, <1>20, <1>21,
       <1>22, <1>23, <1>24, <1>25, <1>26, <1>27, <1>28, <1>29, <1>30, <1>31,
       <1>32, <1>33, <1>34, <1>35, <1>36, <1>37, <1>38, <1>39
    DEF Next, RxStep, LockStep, ClientStep, AdminStep

(* Only a step of the admin turns a request into a grant.                  *)
LEMMA OnlyAccepted ==
    ASSUME NEW p, NEW f, TypeOK, AskInv(p, f), [Next]_vars,
           NEW u \in Users, joinInfo[u] = "Requested", joinInfo'[u] = "IsGranted"
    PROVE  AcceptJoin(u)
<1> USE OwnerAssumption
    DEF TypeOK, AskInv, At, Granted, JoinStates, recordVars
<1>1. ASSUME NEW s \in Skts, RecordDecision(s) PROVE FALSE
    BY <1>1 DEF RecordDecision, UpdateJoinState
<1>2. ASSUME NEW s \in Skts, JoinedByUser(s) PROVE FALSE
    BY <1>2 DEF JoinedByUser
<1>3. ASSUME NEW s \in Skts, RecordRequest(s) PROVE FALSE
    BY <1>3 DEF RecordRequest
<1>4. ASSUME NEW s \in Skts, LeftByUser(s) PROVE FALSE
    BY <1>4 DEF LeftByUser
<1>5. ASSUME NEW v \in Users, AcceptJoin(v) PROVE AcceptJoin(u)
    BY <1>5 DEF AcceptJoin, UpdateJoinState
<1>6. ASSUME NEW v \in Users, RejectJoin(v) PROVE FALSE
    BY <1>6 DEF RejectJoin, UpdateJoinState
<1>7. CASE Restart
    BY <1>7 DEF Restart
<1>8. joinInfo' # joinInfo
    OBVIOUS
<1> QED
    BY <1>1, <1>2, <1>3, <1>4, <1>5, <1>6, <1>7, <1>8
    DEF Next, RxStep, LockStep, ClientStep, AdminStep, vars,
        InsertDecision, InsertJoined, InsertRequest, InsertDecided, LostErase, LostAnnounce,
        QueryJoinState, MarkActive, AddConnection, SaveJoined,
        MarkJoinedActive, AddClient, BroadcastSnapshot, BroadcastSend, MemberListSnapshot,
        SendMember, MembersSent, SendJoinReply, JoinDone, SendLockedReply, LeaveTold,
        RemoveClient, RemoveConnection, AnnounceRemoved, Connect, Drop, JoinReq, LeaveReq,
        UnJoinReq, SetPluginPermission, SetFriendship

(* The request of a locked user waits for the admin (fromGuiJoinAccepted), *)
(* whatever is lost, left, rejected or restarted, for every permission and *)
(* friendship but one pair: an anonymous user at a host open to guests is  *)
(* lifted to a guest by his own request's connect id.                      *)
THEOREM RequestsAwaitAdmin ==
    ASSUME OneSocketPerUser, NEW p, NEW f, Steady(p, f)
    PROVE  Spec => RequestAwaitsAdmin
<1>1. Init => TypeOK /\ AskInv(p, f)
    BY InitType, OwnerAssumption DEF Init, AskInv, Steady
<1>2. TypeOK /\ AskInv(p, f) /\ [Next]_vars => TypeOK' /\ AskInv(p, f)'
    BY NextType, NextAsk
<1>3. TypeOK /\ AskInv(p, f) /\ [Next]_vars
      => [\A u \in Users : joinInfo[u] = "Requested" /\ joinInfo'[u] = "IsGranted" => AcceptJoin(u)]_vars
    BY OnlyAccepted
<1> QED
    BY <1>1, <1>2, <1>3, PTL DEF Spec, RequestAwaitsAdmin

-----------------------------------------------------------------------------
(* Who has joined is active *)

(* Only the thread of a user's one socket makes him inactive, and it has   *)
(* nothing else to handle while he is joined but what ends that.           *)
ActiveInv ==
    \A s \in Skts :
        /\ told[s] = "ok" => pc[s] \in {"idle", "snap2", "send2"} /\ Owner[s] \in memberActive
        /\ pc[s] \in {"list", "snap1", "send1", "members", "reply"} => Owner[s] \in memberActive

LEMMA NextActive ==
    ASSUME OneSocketPerUser, "rejoin" \notin Inputs, TypeOK, LinkInv, ActiveInv, [Next]_vars
    PROVE  ActiveInv'
<1> USE OwnerAssumption
    DEF TypeOK, LinkInv, ActiveInv, OneSocketPerUser, At, Goto, Decided,
        threadVars, listVars, recordVars, adminVars, clientVars
<1>1. ASSUME NEW s \in Skts, LostErase(s) PROVE ActiveInv'
    BY <1>1 DEF LostErase
<1>2. ASSUME NEW s \in Skts, LostAnnounce(s) PROVE ActiveInv'
    BY <1>2 DEF LostAnnounce
<1>3. ASSUME NEW s \in Skts, QueryJoinState(s) PROVE ActiveInv'
    BY <1>3 DEF QueryJoinState
<1>4. ASSUME NEW s \in Skts, MarkActive(s) PROVE ActiveInv'
    BY <1>4 DEF MarkActive
<1>5. ASSUME NEW s \in Skts, RecordDecision(s) PROVE ActiveInv'
    BY <1>5 DEF RecordDecision
<1>6. ASSUME NEW s \in Skts, AddConnection(s) PROVE ActiveInv'
    BY <1>6 DEF AddConnection
<1>7. ASSUME NEW s \in Skts, JoinedByUser(s) PROVE ActiveInv'
    BY <1>7 DEF JoinedByUser
<1>8. ASSUME NEW s \in Skts, SaveJoined(s) PROVE ActiveInv'
    BY <1>8 DEF SaveJoined
<1>9. ASSUME NEW s \in Skts, MarkJoinedActive(s) PROVE ActiveInv'
    BY <1>9 DEF MarkJoinedActive
<1>10. ASSUME NEW s \in Skts, AddClient(s) PROVE ActiveInv'
    BY <1>10 DEF AddClient
<1>11. ASSUME NEW s \in Skts, BroadcastSnapshot(s) PROVE ActiveInv'
    BY <1>11 DEF BroadcastSnapshot
<1>12. ASSUME NEW s \in Skts, BroadcastSend(s) PROVE ActiveInv'
    BY <1>12 DEF BroadcastSend
<1>13. ASSUME NEW s \in Skts, MemberListSnapshot(s) PROVE ActiveInv'
    BY <1>13 DEF MemberListSnapshot
<1>14. ASSUME NEW s \in Skts, SendMember(s) PROVE ActiveInv'
    BY <1>14 DEF SendMember
<1>15. ASSUME NEW s \in Skts, MembersSent(s) PROVE ActiveInv'
    BY <1>15 DEF MembersSent
<1>16. ASSUME NEW s \in Skts, SendJoinReply(s) PROVE ActiveInv'
    BY <1>16 DEF SendJoinReply
<1>17. ASSUME NEW s \in Skts, JoinDone(s) PROVE ActiveInv'
    BY <1>17 DEF JoinDone
<1>18. ASSUME NEW s \in Skts, RecordRequest(s) PROVE ActiveInv'
    BY <1>18 DEF RecordRequest
<1>19. ASSUME NEW s \in Skts, SendLockedReply(s) PROVE ActiveInv'
    BY <1>19 DEF SendLockedReply
<1>20. ASSUME NEW s \in Skts, LeaveTold(s) PROVE ActiveInv'
    BY <1>20 DEF LeaveTold
<1>21. ASSUME NEW s \in Skts, RemoveClient(s) PROVE ActiveInv'
    BY <1>21 DEF RemoveClient
<1>22. ASSUME NEW s \in Skts, LeftByUser(s) PROVE ActiveInv'
    BY <1>22 DEF LeftByUser
<1>23. ASSUME NEW s \in Skts, RemoveConnection(s) PROVE ActiveInv'
    BY <1>23 DEF RemoveConnection
<1>24. ASSUME NEW s \in Skts, AnnounceRemoved(s) PROVE ActiveInv'
    BY <1>24 DEF AnnounceRemoved
<1>25. ASSUME NEW s \in Skts, Connect(s) PROVE ActiveInv'
    BY <1>25 DEF Connect
<1>26. ASSUME NEW s \in Skts, Drop(s) PROVE ActiveInv'
    BY <1>26 DEF Drop
<1>27. ASSUME NEW s \in Skts, JoinReq(s) PROVE ActiveInv'
    BY <1>27 DEF JoinReq
<1>28. ASSUME NEW s \in Skts, LeaveReq(s) PROVE ActiveInv'
    BY <1>28 DEF LeaveReq
<1>29. ASSUME NEW s \in Skts, UnJoinReq(s) PROVE ActiveInv'
    BY <1>29 DEF UnJoinReq
<1>30. ASSUME NEW u \in Users, AcceptJoin(u) PROVE ActiveInv'
    BY <1>30 DEF AcceptJoin
<1>31. ASSUME NEW u \in Users, RejectJoin(u) PROVE ActiveInv'
    BY <1>31 DEF RejectJoin
<1>32. ASSUME NEW u \in Users, SetFriendship(u) PROVE ActiveInv'
    BY <1>32 DEF SetFriendship
<1>33. ASSUME SetPluginPermission PROVE ActiveInv'
    BY <1>33 DEF SetPluginPermission
<1>34. ASSUME Restart PROVE ActiveInv'
    BY <1>34 DEF Restart
<1>35. ASSUME UNCHANGED vars PROVE ActiveInv'
    BY <1>35 DEF vars
<1>36. ASSUME NEW s \in Skts, InsertDecision(s) PROVE ActiveInv'
    BY <1>36 DEF InsertDecision
<1>37. ASSUME NEW s \in Skts, InsertJoined(s) PROVE ActiveInv'
    BY <1>37 DEF InsertJoined
<1>38. ASSUME NEW s \in Skts, InsertRequest(s) PROVE ActiveInv'
    BY <1>38 DEF InsertRequest
<1>39. ASSUME NEW u \in Users, InsertDecided(u) PROVE ActiveInv'
    BY <1>39 DEF InsertDecided
<1> QED
    BY <1>1, <1>2, <1>3, <1>4, <1>5, <1>6, <1>7, <1>8, <1>9, <1>10, <1>11,
       <1>12, <1>13, <1>14, <1>15, <1>16, <1>17, <1>18, <1>19, <1>20, <1>21,
       <1>22, <1>23, <1>24, <1>25, <1>26, <1>27, <1>28, <1>29, <1>30, <1>31,
       <1>32, <1>33, <1>34, <1>35, <1>36, <1>37, <1>38, <1>39
    DEF Next, RxStep, LockStep, ClientStep, AdminStep

(* A client that was told it joined is active with the host, whatever      *)
(* others join, leave and lose, when every user has one socket and does    *)
(* not ask again (a second request may find the permission taken away).    *)
THEOREM JoinedAreActive ==
    ASSUME OneSocketPerUser, "rejoin" \notin Inputs
    PROVE  Spec => []JoinedIsActive
<1>1. Init => ActiveInv
    BY DEF Init, ActiveInv
<1>2. ConnectionInv /\ ActiveInv /\ [Next]_vars => ActiveInv'
    BY NextActive DEF ConnectionInv
<1>3. ActiveInv => JoinedIsActive
    BY DEF ActiveInv, JoinedIsActive, Joined
<1> QED
    BY <1>1, <1>2, <1>3, ConnectionCorrect, PTL DEF Spec
=============================================================================
