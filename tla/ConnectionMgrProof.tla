-------------------------- MODULE ConnectionMgrProof --------------------------
(***************************************************************************)
(* Theorems about ConnectionMgr, for any requests, users and faults.       *)
(***************************************************************************)
EXTENDS ConnectionMgr, TLAPS

-----------------------------------------------------------------------------
(* The inductive invariant *)

(* Before its request, nothing is known of a session's socket.             *)
IdleInv ==
    \A s \in Sessions :
        caller[s] = "idle" => s \notin heard /\ rx[s] = "reading" /\ infos[s] = {} /\ s \notin annList

(* A packet that is still in the list was not sent.                        *)
SentInv ==
    \A s \in Announces :
        /\ caller[s] = "idle" \/ s \in annList => sent[s] = 0
        /\ sent[s] <= 1

(* An answer follows a search, whose requester was told; who is being done *)
(* with a connection said so.                                              *)
DoneInv ==
    /\ \A s \in Sessions : owed[s] > 0 => s \in told
    /\ \A s \in Sessions : doing[s] # NoSession => doing[s] \in finished

(* HandshakesAreKept, already while the caller is about to return.         *)
KeptInv ==
    \A s \in up :
        caller[s] \in {"added", "handshaking"} /\ s \notin told \union old => s \in shakes \union work[s]

ConnInv == TypeOK /\ IdleInv /\ SentInv /\ DoneInv /\ KeptInv /\ AnnouncesLetGo /\ NeverCutOff

-----------------------------------------------------------------------------
(* Every step keeps each part *)


LEMMA TypeKept ==
    ASSUME TypeOK, [Next]_vars
    PROVE  TypeOK'
<1>1. ASSUME NEW s \in Sessions, Connect(s) PROVE TypeOK'
  BY <1>1 DEF Connect, Remember, history, threads, TypeOK, Connecting
<1>2. ASSUME NEW s \in Sessions, ConnectFail(s) PROVE TypeOK'
  BY <1>2 DEF ConnectFail, threads, lists, history, TypeOK, Connecting
<1>3. ASSUME NEW s \in Sessions, SendMyPktAnnounce(s) PROVE TypeOK'
  BY <1>3 DEF SendMyPktAnnounce, threads, lists, history, TypeOK, Connecting
<1>4. ASSUME NEW s \in Sessions, AddHandshake(s) PROVE TypeOK'
  BY <1>4 DEF AddHandshake, history, threads, TypeOK, Connecting
<1>5. ASSUME NEW s \in Sessions, ReturnHandshaking(s) PROVE TypeOK'
  BY <1>5 DEF ReturnHandshaking, threads, lists, history, TypeOK, Connecting
<1>6. ASSUME NEW s \in Sessions, ReturnFailed(s) PROVE TypeOK'
  BY <1>6 DEF ReturnFailed, history, threads, TypeOK, Connecting
<1>7. ASSUME NEW s \in Sessions, OnFirstPktAnnounce(s) PROVE TypeOK'
  BY <1>7 DEF OnFirstPktAnnounce, history, TypeOK, Connecting
<1>8. ASSUME NEW s \in Sessions, AddConnectReasons(s) PROVE TypeOK'
  BY <1>8 DEF AddConnectReasons, history, TypeOK, Connecting
<1>9. ASSUME NEW s \in Sessions, StillConnected(s) PROVE TypeOK'
  BY <1>9 DEF StillConnected, history, lists, TypeOK, Connecting
<1>10. ASSUME NEW s \in Sessions, LostAlready(s) PROVE TypeOK'
  BY <1>10 DEF LostAlready, history, lists, TypeOK, Connecting
<1>11. ASSUME NEW s \in Sessions, NEW t \in Sessions, TellSearch(s, t) PROVE TypeOK'
  BY <1>11 DEF TellSearch, Transmit, Continue, lists, TypeOK, Connecting
<1>12. ASSUME NEW s \in Sessions, NEW t \in Sessions, TellOnce(s, t) PROVE TypeOK'
  BY <1>12, NoSessionAssumption DEF TellOnce, Transmit, BeginDone, TypeOK, Connecting
<1>13. ASSUME NEW s \in Sessions, SearchCompleted(s) PROVE TypeOK'
  BY <1>13, NoSessionAssumption DEF SearchCompleted, BeginDone, TypeOK, Connecting
<1>14. ASSUME NEW s \in Sessions, RemoveConnectedReason(s) PROVE TypeOK'
  BY <1>14 DEF RemoveConnectedReason, Continue, Unused, Registered, TypeOK, Connecting
<1>15. ASSUME NEW s \in Sessions, Drop(s) PROVE TypeOK'
  BY <1>15 DEF Drop, threads, lists, history, TypeOK, Connecting
<1>16. ASSUME NEW s \in Sessions, Expire(s) PROVE TypeOK'
  BY <1>16 DEF Expire, threads, lists, history, TypeOK, Connecting
<1>17. CASE UNCHANGED vars
  BY <1>17 DEF vars, threads, lists, history, TypeOK, Connecting
<1> QED BY <1>1, <1>2, <1>3, <1>4, <1>5, <1>6, <1>7, <1>8, <1>9, <1>10, <1>11, <1>12, <1>13, <1>14, <1>15, <1>16, <1>17 DEF Next, CallerStep, RxStep

LEMMA IdleKept ==
    ASSUME TypeOK, IdleInv, [Next]_vars
    PROVE  IdleInv'
<1>1. ASSUME NEW s \in Sessions, Connect(s) PROVE IdleInv'
  BY <1>1 DEF Connect, Remember, history, threads, TypeOK, IdleInv, Connecting
<1>2. ASSUME NEW s \in Sessions, ConnectFail(s) PROVE IdleInv'
  BY <1>2 DEF ConnectFail, threads, lists, history, TypeOK, IdleInv, Connecting
<1>3. ASSUME NEW s \in Sessions, SendMyPktAnnounce(s) PROVE IdleInv'
  BY <1>3 DEF SendMyPktAnnounce, threads, lists, history, TypeOK, IdleInv, Connecting
<1>4. ASSUME NEW s \in Sessions, AddHandshake(s) PROVE IdleInv'
  BY <1>4 DEF AddHandshake, history, threads, TypeOK, IdleInv, Connecting
<1>5. ASSUME NEW s \in Sessions, ReturnHandshaking(s) PROVE IdleInv'
  BY <1>5 DEF ReturnHandshaking, threads, lists, history, TypeOK, IdleInv, Connecting
<1>6. ASSUME NEW s \in Sessions, ReturnFailed(s) PROVE IdleInv'
  BY <1>6 DEF ReturnFailed, history, threads, TypeOK, IdleInv, Connecting
<1>7. ASSUME NEW s \in Sessions, OnFirstPktAnnounce(s) PROVE IdleInv'
  BY <1>7 DEF OnFirstPktAnnounce, history, TypeOK, IdleInv, Connecting
<1>8. ASSUME NEW s \in Sessions, AddConnectReasons(s) PROVE IdleInv'
  BY <1>8 DEF AddConnectReasons, history, TypeOK, IdleInv, Connecting
<1>9. ASSUME NEW s \in Sessions, StillConnected(s) PROVE IdleInv'
  BY <1>9 DEF StillConnected, history, lists, TypeOK, IdleInv, Connecting
<1>10. ASSUME NEW s \in Sessions, LostAlready(s) PROVE IdleInv'
  BY <1>10 DEF LostAlready, history, lists, TypeOK, IdleInv, Connecting
<1>11. ASSUME NEW s \in Sessions, NEW t \in Sessions, TellSearch(s, t) PROVE IdleInv'
  BY <1>11 DEF TellSearch, Transmit, Continue, lists, TypeOK, IdleInv, Connecting
<1>12. ASSUME NEW s \in Sessions, NEW t \in Sessions, TellOnce(s, t) PROVE IdleInv'
  BY <1>12 DEF TellOnce, Transmit, BeginDone, TypeOK, IdleInv, Connecting
<1>13. ASSUME NEW s \in Sessions, SearchCompleted(s) PROVE IdleInv'
  BY <1>13 DEF SearchCompleted, BeginDone, TypeOK, IdleInv, Connecting
<1>14. ASSUME NEW s \in Sessions, RemoveConnectedReason(s) PROVE IdleInv'
  BY <1>14 DEF RemoveConnectedReason, Continue, Unused, Registered, TypeOK, IdleInv, Connecting
<1>15. ASSUME NEW s \in Sessions, Drop(s) PROVE IdleInv'
  BY <1>15 DEF Drop, threads, lists, history, TypeOK, IdleInv, Connecting
<1>16. ASSUME NEW s \in Sessions, Expire(s) PROVE IdleInv'
  BY <1>16 DEF Expire, threads, lists, history, TypeOK, IdleInv, Connecting
<1>17. CASE UNCHANGED vars
  BY <1>17 DEF vars, threads, lists, history, TypeOK, IdleInv, Connecting
<1> QED BY <1>1, <1>2, <1>3, <1>4, <1>5, <1>6, <1>7, <1>8, <1>9, <1>10, <1>11, <1>12, <1>13, <1>14, <1>15, <1>16, <1>17 DEF Next, CallerStep, RxStep

LEMMA SentKept ==
    ASSUME TypeOK, IdleInv, SentInv, [Next]_vars
    PROVE  SentInv'
<1>1. ASSUME NEW s \in Sessions, Connect(s) PROVE SentInv'
  BY <1>1 DEF Connect, Remember, history, threads, TypeOK, IdleInv, SentInv, Connecting
<1>2. ASSUME NEW s \in Sessions, ConnectFail(s) PROVE SentInv'
  BY <1>2 DEF ConnectFail, threads, lists, history, TypeOK, IdleInv, SentInv, Connecting
<1>3. ASSUME NEW s \in Sessions, SendMyPktAnnounce(s) PROVE SentInv'
  BY <1>3 DEF SendMyPktAnnounce, threads, lists, history, TypeOK, IdleInv, SentInv, Connecting
<1>4. ASSUME NEW s \in Sessions, AddHandshake(s) PROVE SentInv'
  BY <1>4 DEF AddHandshake, history, threads, TypeOK, IdleInv, SentInv, Connecting
<1>5. ASSUME NEW s \in Sessions, ReturnHandshaking(s) PROVE SentInv'
  BY <1>5 DEF ReturnHandshaking, threads, lists, history, TypeOK, IdleInv, SentInv, Connecting
<1>6. ASSUME NEW s \in Sessions, ReturnFailed(s) PROVE SentInv'
  BY <1>6 DEF ReturnFailed, history, threads, TypeOK, IdleInv, SentInv, Connecting
<1>7. ASSUME NEW s \in Sessions, OnFirstPktAnnounce(s) PROVE SentInv'
  BY <1>7 DEF OnFirstPktAnnounce, history, TypeOK, IdleInv, SentInv, Connecting
<1>8. ASSUME NEW s \in Sessions, AddConnectReasons(s) PROVE SentInv'
  BY <1>8 DEF AddConnectReasons, history, TypeOK, IdleInv, SentInv, Connecting
<1>9. ASSUME NEW s \in Sessions, StillConnected(s) PROVE SentInv'
  BY <1>9 DEF StillConnected, history, lists, TypeOK, IdleInv, SentInv, Connecting
<1>10. ASSUME NEW s \in Sessions, LostAlready(s) PROVE SentInv'
  BY <1>10 DEF LostAlready, history, lists, TypeOK, IdleInv, SentInv, Connecting
<1>11. ASSUME NEW s \in Sessions, NEW t \in Sessions, TellSearch(s, t) PROVE SentInv'
  BY <1>11, KindsAssumption DEF TellSearch, Transmit, Continue, lists, TypeOK, IdleInv, SentInv, Connecting
<1>12. ASSUME NEW s \in Sessions, NEW t \in Sessions, TellOnce(s, t) PROVE SentInv'
  BY <1>12, KindsAssumption DEF TellOnce, Transmit, BeginDone, TypeOK, IdleInv, SentInv, Connecting
<1>13. ASSUME NEW s \in Sessions, SearchCompleted(s) PROVE SentInv'
  BY <1>13 DEF SearchCompleted, BeginDone, TypeOK, IdleInv, SentInv, Connecting
<1>14. ASSUME NEW s \in Sessions, RemoveConnectedReason(s) PROVE SentInv'
  BY <1>14 DEF RemoveConnectedReason, Continue, Unused, Registered, TypeOK, IdleInv, SentInv, Connecting
<1>15. ASSUME NEW s \in Sessions, Drop(s) PROVE SentInv'
  BY <1>15 DEF Drop, threads, lists, history, TypeOK, IdleInv, SentInv, Connecting
<1>16. ASSUME NEW s \in Sessions, Expire(s) PROVE SentInv'
  BY <1>16 DEF Expire, threads, lists, history, TypeOK, IdleInv, SentInv, Connecting
<1>17. CASE UNCHANGED vars
  BY <1>17 DEF vars, threads, lists, history, TypeOK, IdleInv, SentInv, Connecting
<1> QED BY <1>1, <1>2, <1>3, <1>4, <1>5, <1>6, <1>7, <1>8, <1>9, <1>10, <1>11, <1>12, <1>13, <1>14, <1>15, <1>16, <1>17 DEF Next, CallerStep, RxStep

LEMMA DoneKept ==
    ASSUME TypeOK, DoneInv, [Next]_vars
    PROVE  DoneInv'
<1>1. ASSUME NEW s \in Sessions, Connect(s) PROVE DoneInv'
  BY <1>1 DEF Connect, Remember, history, threads, TypeOK, DoneInv
<1>2. ASSUME NEW s \in Sessions, ConnectFail(s) PROVE DoneInv'
  BY <1>2 DEF ConnectFail, threads, lists, history, TypeOK, DoneInv
<1>3. ASSUME NEW s \in Sessions, SendMyPktAnnounce(s) PROVE DoneInv'
  BY <1>3 DEF SendMyPktAnnounce, threads, lists, history, TypeOK, DoneInv
<1>4. ASSUME NEW s \in Sessions, AddHandshake(s) PROVE DoneInv'
  BY <1>4 DEF AddHandshake, history, threads, TypeOK, DoneInv
<1>5. ASSUME NEW s \in Sessions, ReturnHandshaking(s) PROVE DoneInv'
  BY <1>5 DEF ReturnHandshaking, threads, lists, history, TypeOK, DoneInv
<1>6. ASSUME NEW s \in Sessions, ReturnFailed(s) PROVE DoneInv'
  BY <1>6 DEF ReturnFailed, history, threads, TypeOK, DoneInv
<1>7. ASSUME NEW s \in Sessions, OnFirstPktAnnounce(s) PROVE DoneInv'
  BY <1>7 DEF OnFirstPktAnnounce, history, TypeOK, DoneInv
<1>8. ASSUME NEW s \in Sessions, AddConnectReasons(s) PROVE DoneInv'
  BY <1>8 DEF AddConnectReasons, history, TypeOK, DoneInv
<1>9. ASSUME NEW s \in Sessions, StillConnected(s) PROVE DoneInv'
  BY <1>9 DEF StillConnected, history, lists, TypeOK, DoneInv
<1>10. ASSUME NEW s \in Sessions, LostAlready(s) PROVE DoneInv'
  BY <1>10 DEF LostAlready, history, lists, TypeOK, DoneInv
<1>11. ASSUME NEW s \in Sessions, NEW t \in Sessions, TellSearch(s, t) PROVE DoneInv'
  BY <1>11 DEF TellSearch, Transmit, Continue, lists, TypeOK, DoneInv
<1>12. ASSUME NEW s \in Sessions, NEW t \in Sessions, TellOnce(s, t) PROVE DoneInv'
  BY <1>12 DEF TellOnce, Transmit, BeginDone, TypeOK, DoneInv
<1>13. ASSUME NEW s \in Sessions, SearchCompleted(s) PROVE DoneInv'
  BY <1>13 DEF SearchCompleted, BeginDone, TypeOK, DoneInv
<1>14. ASSUME NEW s \in Sessions, RemoveConnectedReason(s) PROVE DoneInv'
  BY <1>14 DEF RemoveConnectedReason, Continue, Unused, Registered, TypeOK, DoneInv
<1>15. ASSUME NEW s \in Sessions, Drop(s) PROVE DoneInv'
  BY <1>15 DEF Drop, threads, lists, history, TypeOK, DoneInv
<1>16. ASSUME NEW s \in Sessions, Expire(s) PROVE DoneInv'
  BY <1>16 DEF Expire, threads, lists, history, TypeOK, DoneInv
<1>17. CASE UNCHANGED vars
  BY <1>17 DEF vars, threads, lists, history, TypeOK, DoneInv
<1> QED BY <1>1, <1>2, <1>3, <1>4, <1>5, <1>6, <1>7, <1>8, <1>9, <1>10, <1>11, <1>12, <1>13, <1>14, <1>15, <1>16, <1>17 DEF Next, CallerStep, RxStep

LEMMA KeptKept ==
    ASSUME TypeOK, DoneInv, KeptInv, [Next]_vars
    PROVE  KeptInv'
<1>1. ASSUME NEW s \in Sessions, Connect(s) PROVE KeptInv'
  BY <1>1 DEF Connect, Remember, history, threads, TypeOK, DoneInv, KeptInv
<1>2. ASSUME NEW s \in Sessions, ConnectFail(s) PROVE KeptInv'
  BY <1>2 DEF ConnectFail, threads, lists, history, TypeOK, DoneInv, KeptInv
<1>3. ASSUME NEW s \in Sessions, SendMyPktAnnounce(s) PROVE KeptInv'
  BY <1>3 DEF SendMyPktAnnounce, threads, lists, history, TypeOK, DoneInv, KeptInv
<1>4. ASSUME NEW s \in Sessions, AddHandshake(s) PROVE KeptInv'
  BY <1>4 DEF AddHandshake, history, threads, TypeOK, DoneInv, KeptInv
<1>5. ASSUME NEW s \in Sessions, ReturnHandshaking(s) PROVE KeptInv'
  BY <1>5 DEF ReturnHandshaking, threads, lists, history, TypeOK, DoneInv, KeptInv
<1>6. ASSUME NEW s \in Sessions, ReturnFailed(s) PROVE KeptInv'
  BY <1>6 DEF ReturnFailed, history, threads, TypeOK, DoneInv, KeptInv
<1>7. ASSUME NEW s \in Sessions, OnFirstPktAnnounce(s) PROVE KeptInv'
  BY <1>7 DEF OnFirstPktAnnounce, history, TypeOK, DoneInv, KeptInv
<1>8. ASSUME NEW s \in Sessions, AddConnectReasons(s) PROVE KeptInv'
  BY <1>8 DEF AddConnectReasons, history, TypeOK, DoneInv, KeptInv
<1>9. ASSUME NEW s \in Sessions, StillConnected(s) PROVE KeptInv'
  BY <1>9 DEF StillConnected, history, lists, TypeOK, DoneInv, KeptInv
<1>10. ASSUME NEW s \in Sessions, LostAlready(s) PROVE KeptInv'
  BY <1>10 DEF LostAlready, history, lists, TypeOK, DoneInv, KeptInv
<1>11. ASSUME NEW s \in Sessions, NEW t \in Sessions, TellSearch(s, t) PROVE KeptInv'
  BY <1>11 DEF TellSearch, Transmit, Continue, lists, TypeOK, DoneInv, KeptInv
<1>12. ASSUME NEW s \in Sessions, NEW t \in Sessions, TellOnce(s, t) PROVE KeptInv'
  BY <1>12 DEF TellOnce, Transmit, BeginDone, TypeOK, DoneInv, KeptInv
<1>13. ASSUME NEW s \in Sessions, SearchCompleted(s) PROVE KeptInv'
  BY <1>13 DEF SearchCompleted, BeginDone, TypeOK, DoneInv, KeptInv
<1>14. ASSUME NEW s \in Sessions, RemoveConnectedReason(s) PROVE KeptInv'
  BY <1>14 DEF RemoveConnectedReason, Continue, Unused, Registered, TypeOK, DoneInv, KeptInv
<1>15. ASSUME NEW s \in Sessions, Drop(s) PROVE KeptInv'
  BY <1>15 DEF Drop, threads, lists, history, TypeOK, DoneInv, KeptInv
<1>16. ASSUME NEW s \in Sessions, Expire(s) PROVE KeptInv'
  BY <1>16 DEF Expire, threads, lists, history, TypeOK, DoneInv, KeptInv
<1>17. CASE UNCHANGED vars
  BY <1>17 DEF vars, threads, lists, history, TypeOK, DoneInv, KeptInv
<1> QED BY <1>1, <1>2, <1>3, <1>4, <1>5, <1>6, <1>7, <1>8, <1>9, <1>10, <1>11, <1>12, <1>13, <1>14, <1>15, <1>16, <1>17 DEF Next, CallerStep, RxStep

LEMMA LetGoKept ==
    ASSUME TypeOK, IdleInv, AnnouncesLetGo, [Next]_vars
    PROVE  AnnouncesLetGo'
<1>1. ASSUME NEW s \in Sessions, Connect(s) PROVE AnnouncesLetGo'
  BY <1>1 DEF Connect, Remember, history, threads, TypeOK, IdleInv, AnnouncesLetGo
<1>2. ASSUME NEW s \in Sessions, ConnectFail(s) PROVE AnnouncesLetGo'
  BY <1>2 DEF ConnectFail, threads, lists, history, TypeOK, IdleInv, AnnouncesLetGo
<1>3. ASSUME NEW s \in Sessions, SendMyPktAnnounce(s) PROVE AnnouncesLetGo'
  BY <1>3 DEF SendMyPktAnnounce, threads, lists, history, TypeOK, IdleInv, AnnouncesLetGo
<1>4. ASSUME NEW s \in Sessions, AddHandshake(s) PROVE AnnouncesLetGo'
  BY <1>4 DEF AddHandshake, history, threads, TypeOK, IdleInv, AnnouncesLetGo
<1>5. ASSUME NEW s \in Sessions, ReturnHandshaking(s) PROVE AnnouncesLetGo'
  BY <1>5 DEF ReturnHandshaking, threads, lists, history, TypeOK, IdleInv, AnnouncesLetGo
<1>6. ASSUME NEW s \in Sessions, ReturnFailed(s) PROVE AnnouncesLetGo'
  BY <1>6 DEF ReturnFailed, history, threads, TypeOK, IdleInv, AnnouncesLetGo
<1>7. ASSUME NEW s \in Sessions, OnFirstPktAnnounce(s) PROVE AnnouncesLetGo'
  BY <1>7 DEF OnFirstPktAnnounce, history, TypeOK, IdleInv, AnnouncesLetGo
<1>8. ASSUME NEW s \in Sessions, AddConnectReasons(s) PROVE AnnouncesLetGo'
  BY <1>8 DEF AddConnectReasons, history, TypeOK, IdleInv, AnnouncesLetGo
<1>9. ASSUME NEW s \in Sessions, StillConnected(s) PROVE AnnouncesLetGo'
  BY <1>9 DEF StillConnected, history, lists, TypeOK, IdleInv, AnnouncesLetGo
<1>10. ASSUME NEW s \in Sessions, LostAlready(s) PROVE AnnouncesLetGo'
  BY <1>10 DEF LostAlready, history, lists, TypeOK, IdleInv, AnnouncesLetGo
<1>11. ASSUME NEW s \in Sessions, NEW t \in Sessions, TellSearch(s, t) PROVE AnnouncesLetGo'
  BY <1>11 DEF TellSearch, Transmit, Continue, lists, TypeOK, IdleInv, AnnouncesLetGo
<1>12. ASSUME NEW s \in Sessions, NEW t \in Sessions, TellOnce(s, t) PROVE AnnouncesLetGo'
  BY <1>12, NoSessionAssumption DEF TellOnce, Transmit, BeginDone, TypeOK, IdleInv, AnnouncesLetGo
<1>13. ASSUME NEW s \in Sessions, SearchCompleted(s) PROVE AnnouncesLetGo'
  BY <1>13, NoSessionAssumption DEF SearchCompleted, BeginDone, TypeOK, IdleInv, AnnouncesLetGo
<1>14. ASSUME NEW s \in Sessions, RemoveConnectedReason(s) PROVE AnnouncesLetGo'
  BY <1>14 DEF RemoveConnectedReason, Continue, Unused, Registered, TypeOK, IdleInv, AnnouncesLetGo
<1>15. ASSUME NEW s \in Sessions, Drop(s) PROVE AnnouncesLetGo'
  BY <1>15 DEF Drop, threads, lists, history, TypeOK, IdleInv, AnnouncesLetGo
<1>16. ASSUME NEW s \in Sessions, Expire(s) PROVE AnnouncesLetGo'
  BY <1>16 DEF Expire, threads, lists, history, TypeOK, IdleInv, AnnouncesLetGo
<1>17. CASE UNCHANGED vars
  BY <1>17 DEF vars, threads, lists, history, TypeOK, IdleInv, AnnouncesLetGo
<1> QED BY <1>1, <1>2, <1>3, <1>4, <1>5, <1>6, <1>7, <1>8, <1>9, <1>10, <1>11, <1>12, <1>13, <1>14, <1>15, <1>16, <1>17 DEF Next, CallerStep, RxStep

LEMMA CutOffKept ==
    ASSUME TypeOK, DoneInv, NeverCutOff, [Next]_vars
    PROVE  NeverCutOff'
<1>1. ASSUME NEW s \in Sessions, Connect(s) PROVE NeverCutOff'
  BY <1>1 DEF Connect, Remember, history, threads, TypeOK, DoneInv, NeverCutOff
<1>2. ASSUME NEW s \in Sessions, ConnectFail(s) PROVE NeverCutOff'
  BY <1>2 DEF ConnectFail, threads, lists, history, TypeOK, DoneInv, NeverCutOff
<1>3. ASSUME NEW s \in Sessions, SendMyPktAnnounce(s) PROVE NeverCutOff'
  BY <1>3 DEF SendMyPktAnnounce, threads, lists, history, TypeOK, DoneInv, NeverCutOff
<1>4. ASSUME NEW s \in Sessions, AddHandshake(s) PROVE NeverCutOff'
  BY <1>4 DEF AddHandshake, history, threads, TypeOK, DoneInv, NeverCutOff
<1>5. ASSUME NEW s \in Sessions, ReturnHandshaking(s) PROVE NeverCutOff'
  BY <1>5 DEF ReturnHandshaking, threads, lists, history, TypeOK, DoneInv, NeverCutOff
<1>6. ASSUME NEW s \in Sessions, ReturnFailed(s) PROVE NeverCutOff'
  BY <1>6 DEF ReturnFailed, history, threads, TypeOK, DoneInv, NeverCutOff
<1>7. ASSUME NEW s \in Sessions, OnFirstPktAnnounce(s) PROVE NeverCutOff'
  BY <1>7 DEF OnFirstPktAnnounce, history, TypeOK, DoneInv, NeverCutOff
<1>8. ASSUME NEW s \in Sessions, AddConnectReasons(s) PROVE NeverCutOff'
  BY <1>8 DEF AddConnectReasons, history, TypeOK, DoneInv, NeverCutOff
<1>9. ASSUME NEW s \in Sessions, StillConnected(s) PROVE NeverCutOff'
  BY <1>9 DEF StillConnected, history, lists, TypeOK, DoneInv, NeverCutOff
<1>10. ASSUME NEW s \in Sessions, LostAlready(s) PROVE NeverCutOff'
  BY <1>10 DEF LostAlready, history, lists, TypeOK, DoneInv, NeverCutOff
<1>11. ASSUME NEW s \in Sessions, NEW t \in Sessions, TellSearch(s, t) PROVE NeverCutOff'
  BY <1>11 DEF TellSearch, Transmit, Continue, lists, TypeOK, DoneInv, NeverCutOff
<1>12. ASSUME NEW s \in Sessions, NEW t \in Sessions, TellOnce(s, t) PROVE NeverCutOff'
  BY <1>12 DEF TellOnce, Transmit, BeginDone, TypeOK, DoneInv, NeverCutOff
<1>13. ASSUME NEW s \in Sessions, SearchCompleted(s) PROVE NeverCutOff'
  BY <1>13 DEF SearchCompleted, BeginDone, TypeOK, DoneInv, NeverCutOff
<1>14. ASSUME NEW s \in Sessions, RemoveConnectedReason(s) PROVE NeverCutOff'
  BY <1>14 DEF RemoveConnectedReason, Continue, Unused, Registered, TypeOK, DoneInv, NeverCutOff
<1>15. ASSUME NEW s \in Sessions, Drop(s) PROVE NeverCutOff'
  BY <1>15 DEF Drop, threads, lists, history, TypeOK, DoneInv, NeverCutOff
<1>16. ASSUME NEW s \in Sessions, Expire(s) PROVE NeverCutOff'
  BY <1>16 DEF Expire, threads, lists, history, TypeOK, DoneInv, NeverCutOff
<1>17. CASE UNCHANGED vars
  BY <1>17 DEF vars, threads, lists, history, TypeOK, DoneInv, NeverCutOff
<1> QED BY <1>1, <1>2, <1>3, <1>4, <1>5, <1>6, <1>7, <1>8, <1>9, <1>10, <1>11, <1>12, <1>13, <1>14, <1>15, <1>16, <1>17 DEF Next, CallerStep, RxStep

LEMMA InitConn == Init => ConnInv
<1> SUFFICES ASSUME Init PROVE ConnInv
  OBVIOUS
<1>1. TypeOK
  BY DEF Init, TypeOK, Connecting
<1>2. IdleInv /\ DoneInv
  BY DEF Init, IdleInv, DoneInv
<1>3. SentInv
  <2>1. \A s \in Announces : sent[s] = 0
    BY KindsAssumption DEF Init
  <2> QED BY <2>1 DEF SentInv
<1>4. KeptInv /\ AnnouncesLetGo /\ NeverCutOff
  BY DEF Init, KeptInv, AnnouncesLetGo, NeverCutOff
<1> QED BY <1>1, <1>2, <1>3, <1>4 DEF ConnInv

LEMMA NextConn == ConnInv /\ [Next]_vars => ConnInv'
BY TypeKept, IdleKept, SentKept, DoneKept, KeptKept, LetGoKept, CutOffKept DEF ConnInv

LEMMA ConnAlways == Spec => []ConnInv
BY InitConn, NextConn, PTL DEF Spec

-----------------------------------------------------------------------------
(* Theorems *)

(* The variables have their types; an rx thread calls doneWithConnection   *)
(* for one session at a time and reads when it has none left to tell.      *)
THEOREM ConnTypeCorrect == Spec => []TypeOK
<1>1. ConnInv => TypeOK
  BY DEF ConnInv
<1> QED BY <1>1, ConnAlways, PTL

(* However many rx threads tell its requester, an announcement goes out at *)
(* most once.                                                              *)
THEOREM AnnouncedOnce == Spec => []SentOnce
<1>1. ConnInv => SentOnce
  BY DEF ConnInv, SentInv, SentOnce
<1> QED BY <1>1, ConnAlways, PTL

(* No waiting request is lost with the socket whose thread has taken it.   *)
THEOREM NoRequestForgotten == Spec => []HandshakesAreKept
<1>1. ConnInv => HandshakesAreKept
  BY DEF ConnInv, KeptInv, HandshakesAreKept
<1> QED BY <1>1, ConnAlways, PTL

(* doneWithConnection finds the entry wherever a thread put it.            *)
THEOREM ReasonsAreRemoved == Spec => []AnnouncesLetGo
<1>1. ConnInv => AnnouncesLetGo
  BY DEF ConnInv
<1> QED BY <1>1, ConnAlways, PTL

(* Only a request that is done has its socket closed under it.             *)
THEOREM OnlyDoneIsClosed == Spec => []NeverCutOff
<1>1. ConnInv => NeverCutOff
  BY DEF ConnInv
<1> QED BY <1>1, ConnAlways, PTL

=============================================================================
