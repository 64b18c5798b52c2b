--------------------------- MODULE SendQueueProof ---------------------------
(***************************************************************************)
(* Proofs about SendQueue: what the table and the list of the send queue   *)
(* have to do with each other, whatever threads, network and restarts do.  *)
(***************************************************************************)
EXTENDS SendQueue, TLAPS

(* The part of TypeOK that the operators on the queue change. *)
QueueTyped ==
    /\ sendList \in [Pairs -> QueStates]
    /\ ahead \subseteq Pairs \X Pairs
    /\ sendDb \in [Pairs -> QueStates]

(* Entries wait to be purged only between a scan and the end of its call:  *)
(* the next scan does not overwrite them.                                  *)
PurgeIsPending == \A u \in Users : dead[u] # {} => pc[u] \in {"send", "purge"}

QueueInv == TypeOK /\ PurgeIsPending /\ RowsAreListed

-----------------------------------------------------------------------------
(* The operators on list and table *)

(* Setting the state of an entry sets that of its row, or drops the row. *)
LEMMA UpdateKeepsRows ==
    ASSUME QueueTyped, RowsAreListed,
           NEW p \in Pairs, NEW state \in QueStates, state # "none",
           updateSendQueue(p, state), UNCHANGED <<loggedOn, dead>>
    PROVE  QueueTyped' /\ RowsAreListed'
<1>1. QueueTyped'
  BY DEF QueueTyped, updateSendQueue, updateSendQueueInfo, Listed, QueStates
<1>2. sendList' = [sendList EXCEPT ![p] = state]
  BY DEF updateSendQueue
<1>3. sendDb' = sendDb \/ sendDb' = [sendDb EXCEPT ![p] = "none"]
                       \/ sendDb' = [sendDb EXCEPT ![p] = state]
  BY DEF updateSendQueue, updateSendQueueInfo
<1>4. sendList[p] # state => sendDb' # sendDb \/ sendDb[p] \in {"none", state}
  BY DEF updateSendQueue, updateSendQueueInfo, QueueTyped
<1>5. RowsAreListed'
  BY <1>2, <1>3, <1>4 DEF RowsAreListed, Rows, QueueTyped
<1> QED BY <1>1, <1>5

(* Erasing entries with their rows. *)
LEMMA EraseKeepsRows ==
    ASSUME QueueTyped, RowsAreListed, NEW gone \in SUBSET Pairs,
           Erase(gone), removeSendQueueInfo(gone \intersect Listed),
           UNCHANGED <<loggedOn, dead>>
    PROVE  QueueTyped' /\ RowsAreListed'
<1>1. QueueTyped'
  BY DEF QueueTyped, Erase, removeSendQueueInfo, QueStates
<1>2. ASSUME loggedOn, NEW p \in Rows'
      PROVE  sendList'[p] = sendDb'[p] \/ \E u \in Users : p \in dead'[u]
  <2>1. p \in Pairs /\ p \in Rows /\ sendDb'[p] = sendDb[p] /\ p \notin gone \intersect Listed
    BY <1>2 DEF Rows, removeSendQueueInfo
  <2>2. sendList[p] = sendDb[p] \/ \E u \in Users : p \in dead[u]
    BY <1>2, <2>1 DEF RowsAreListed
  <2>3. CASE sendList[p] = sendDb[p]
    BY <2>1, <2>3 DEF Rows, Listed, Erase
  <2>4. CASE \E u \in Users : p \in dead[u]
    BY <2>4
  <2> QED BY <2>2, <2>3, <2>4
<1> QED BY <1>1, <1>2 DEF RowsAreListed

LEMMA FailKeepsRows ==
    ASSUME QueueTyped, RowsAreListed, NEW p \in Pairs, TxFail(p), UNCHANGED <<loggedOn, dead>>
    PROVE  QueueTyped' /\ RowsAreListed' /\ owed' = owed
BY UpdateKeepsRows DEF TxFail, QueStates

LEMMA SuccessKeepsRows ==
    ASSUME QueueTyped, RowsAreListed, NEW p \in Pairs, TxSuccess(p), UNCHANGED <<loggedOn, dead>>
    PROVE  QueueTyped' /\ RowsAreListed' /\ owed' \subseteq owed
BY EraseKeepsRows DEF TxSuccess, removeSentAsset

LEMMA UnchangedKeepsRows ==
    ASSUME QueueTyped, RowsAreListed, UNCHANGED <<queueVars, loggedOn, dead>>
    PROVE  QueueTyped' /\ RowsAreListed'
BY DEF QueueTyped, RowsAreListed, Rows, queueVars

(* A send, whichever way it ends. *)
LEMMA SendKeepsRows ==
    ASSUME TypeOK, RowsAreListed, NEW p \in Pairs, UNCHANGED <<loggedOn, dead>>,
           SendOk(p) \/ SendFails(p)
    PROVE  /\ QueueTyped' /\ RowsAreListed'
           /\ owed' = owed
           /\ unanswered' \subseteq Pairs
           /\ assetSendQue' \subseteq Pairs
<1>1. QueueTyped
  BY DEF TypeOK, QueueTyped
<1>2. CASE SendOk(p)
  BY <1>1, <1>2, UnchangedKeepsRows DEF SendOk, TransmitOk, TypeOK
<1>3. CASE TransmitFails(p) /\ UNCHANGED assetSendQue
  BY <1>1, <1>3, FailKeepsRows DEF TransmitFails, TypeOK
<1>4. CASE TxFail(p) /\ queAsset(p) /\ UNCHANGED unanswered
  BY <1>1, <1>4, FailKeepsRows DEF queAsset, TypeOK
<1> QED BY <1>2, <1>3, <1>4 DEF SendFails

-----------------------------------------------------------------------------
(* The invariant *)

LEMMA InitQueueInv == Init => QueueInv
<1> SUFFICES ASSUME Init PROVE QueueInv
  OBVIOUS
<1>1. TypeOK
  <2>1. sendList \in [Pairs -> QueStates] /\ sendDb \in [Pairs -> QueStates]
    BY DEF Init, NoEntries, QueStates
  <2>2. gui \in [op : {"idle", "add", "remove"}, pairs : SUBSET Pairs]
    BY DEF Init, GuiIdle
  <2>3. /\ pc \in [Users -> {"idle", "sent", "ready", "send", "purge"}]
        /\ found \in [Users -> SUBSET Assets]
        /\ dead \in [Users -> SUBSET Pairs]
    BY DEF Init
  <2> QED BY <2>1, <2>2, <2>3 DEF Init, TypeOK
<1>2. PurgeIsPending /\ RowsAreListed
  BY DEF Init, PurgeIsPending, RowsAreListed
<1> QED BY <1>1, <1>2 DEF QueueInv

(* A scan starts when nothing is left to purge from the one before; the    *)
(* rows of the entries it erases are the ones it will purge.               *)
LEMMA ScanKeeps ==
    ASSUME QueueInv, NEW u \in Users, pc[u] \in {"idle", "ready"}, Scan(u)
    PROVE  QueueInv'
<1>1. First(u) \subseteq Pairs /\ Skipped(u) \subseteq Listed
  BY DEF First, Skipped, Eligible, Listed
<1>2. TypeOK'
  BY <1>1 DEF QueueInv, TypeOK, Scan, Erase, First, Pairs, Listed, QueStates,
              assetVars, netVars, userVars
<1>3. PurgeIsPending'
  <2>1. dead' = [dead EXCEPT ![u] = Skipped(u)]
    BY DEF Scan
  <2>2. Skipped(u) # {} => pc'[u] \in {"send", "purge"}
    BY DEF QueueInv, TypeOK, Scan
  <2>3. \A v \in Users \ {u} : pc'[v] = pc[v]
    BY DEF QueueInv, TypeOK, Scan
  <2> QED BY <2>1, <2>2, <2>3 DEF QueueInv, TypeOK, PurgeIsPending
<1>4. RowsAreListed'
  <2>1. SUFFICES ASSUME loggedOn, NEW p \in Rows'
                 PROVE  sendList'[p] = sendDb'[p] \/ \E v \in Users : p \in dead'[v]
    BY DEF RowsAreListed, Scan
  <2>2. p \in Pairs /\ p \in Rows /\ sendDb'[p] = sendDb[p]
    BY <2>1 DEF Rows, Scan
  <2>3. dead[u] = {} /\ dead' = [dead EXCEPT ![u] = Skipped(u)]
    BY DEF QueueInv, PurgeIsPending, Scan
  <2>4. CASE p \in Skipped(u)
    BY <2>3, <2>4 DEF QueueInv, TypeOK
  <2>5. CASE p \notin Skipped(u)
    <3>1. sendList'[p] = sendList[p]
      BY <2>2, <2>5 DEF Scan, Erase
    <3>2. sendList[p] = sendDb[p] \/ \E v \in Users \ {u} : p \in dead[v]
      BY <2>1, <2>2, <2>3 DEF QueueInv, RowsAreListed
    <3> QED BY <2>2, <2>3, <3>1, <3>2 DEF QueueInv, TypeOK
  <2> QED BY <2>4, <2>5
<1> QED BY <1>2, <1>3, <1>4 DEF QueueInv

LEMMA PurgeKeeps ==
    ASSUME QueueInv, NEW u \in Users, Purge(u)
    PROVE  QueueInv'
<1>1. TypeOK'
  BY DEF QueueInv, TypeOK, Purge, removeSendQueueInfo, QueStates, assetVars, netVars,
         userVars
<1>2. PurgeIsPending'
  BY DEF QueueInv, TypeOK, PurgeIsPending, Purge
<1>3. RowsAreListed'
  <2>1. SUFFICES ASSUME loggedOn, NEW p \in Rows'
                 PROVE  sendList'[p] = sendDb'[p] \/ \E v \in Users : p \in dead'[v]
    BY DEF RowsAreListed, Purge
  <2>2. p \in Pairs /\ p \in Rows /\ sendDb'[p] = sendDb[p] /\ p \notin dead[u]
    BY <2>1 DEF Rows, Purge, removeSendQueueInfo
  <2>3. sendList[p] = sendDb[p] \/ \E v \in Users \ {u} : p \in dead[v]
    BY <2>1, <2>2 DEF QueueInv, RowsAreListed
  <2> QED BY <2>2, <2>3 DEF QueueInv, TypeOK, Purge
<1> QED BY <1>1, <1>2, <1>3 DEF QueueInv

LEMMA RemoveQueuedKeeps ==
    ASSUME QueueInv, NEW a \in Assets, RemoveQueued(a)
    PROVE  QueueInv'
<1> DEFINE gone == {p \in Listed : p[2] = a}
<1>1. gone \in SUBSET Pairs /\ gone \intersect Listed = gone
  BY DEF Listed
<1>2. QueueTyped /\ RowsAreListed /\ Erase(gone) /\ removeSendQueueInfo(gone)
      /\ UNCHANGED <<loggedOn, dead>>
  BY DEF QueueInv, TypeOK, QueueTyped, RemoveQueued, rxVars
<1>3. QueueTyped' /\ RowsAreListed'
  <2> HIDE DEF gone
  <2> QED BY <1>1, <1>2, EraseKeepsRows
<1>4. TypeOK'
  BY <1>3 DEF QueueInv, TypeOK, QueueTyped, RemoveQueued, assetVars, rxVars, netVars
<1>5. PurgeIsPending'
  BY DEF QueueInv, PurgeIsPending, RemoveQueued, rxVars
<1> QED BY <1>3, <1>4, <1>5 DEF QueueInv

LEMMA GuiKeeps ==
    ASSUME QueueInv, NEW u \in Users, NEW a \in Assets,
           QueueAsset(u, a) \/ SendAsset(u, a)
    PROVE  QueueInv'
<1>1. <<u, a>> \in Pairs /\ QueueTyped
  BY DEF Pairs, QueueInv, TypeOK, QueueTyped
<1>2. CASE QueueAsset(u, a)
  <2>1. QueueTyped' /\ RowsAreListed'
    BY <1>1, <1>2, UpdateKeepsRows DEF QueueAsset, QueStates, QueueInv, rxVars
  <2>2. TypeOK'
    BY <1>1, <1>2, <2>1 DEF QueueAsset, QueueInv, TypeOK, QueueTyped, assetVars, rxVars,
                            netVars
  <2>3. PurgeIsPending'
    BY <1>2 DEF QueueAsset, QueueInv, PurgeIsPending, rxVars
  <2> QED BY <2>1, <2>2, <2>3 DEF QueueInv
<1>3. CASE SendAsset(u, a)
  <2>1. /\ QueueTyped' /\ RowsAreListed' /\ owed' = owed
        /\ unanswered' \subseteq Pairs /\ assetSendQue' \subseteq Pairs
    BY <1>1, <1>3, SendKeepsRows DEF SendAsset, QueueInv, rxVars
  <2>2. TypeOK'
    BY <1>1, <1>3, <2>1 DEF SendAsset, QueueInv, TypeOK, QueueTyped, rxVars
  <2>3. PurgeIsPending'
    BY <1>3 DEF SendAsset, QueueInv, PurgeIsPending, rxVars
  <2> QED BY <2>1, <2>2, <2>3 DEF QueueInv
<1> QED BY <1>2, <1>3

LEMMA GuiStepKeeps ==
    ASSUME QueueInv, GuiStep
    PROVE  QueueInv'
<1>1. \A p \in Pairs : p[2] \in Assets
  BY DEF Pairs
<1>2. gui.pairs \subseteq Pairs
  BY DEF QueueInv, TypeOK
<1>3. QueueTyped' /\ RowsAreListed'
  BY UnchangedKeepsRows
     DEF QueueInv, TypeOK, QueueTyped, GuiStep, AddQueuedAsset, RemoveAsset, rxVars
<1>4. TypeOK'
  BY <1>1, <1>2, <1>3 DEF QueueInv, TypeOK, QueueTyped, GuiStep, AddQueuedAsset,
                          RemoveAsset, GuiIdle, rxVars, netVars, userVars
<1>5. PurgeIsPending'
  BY DEF QueueInv, PurgeIsPending, GuiStep, AddQueuedAsset, RemoveAsset, rxVars
<1> QED BY <1>3, <1>4, <1>5 DEF QueueInv

(* The steps of an rx thread between two scans. *)
LEMMA RxStepKeeps ==
    ASSUME QueueInv, NEW u \in Users, RxStep(u)
    PROVE  QueueInv'
<1>1. CASE ReadyToSend(u)
  BY <1>1, ScanKeeps DEF ReadyToSend
<1>2. CASE SendFoundOk(u) \/ SendFoundFails(u)
  <2>1. PICK a \in found[u] : SendOk(<<u, a>>) \/ SendFails(<<u, a>>)
    BY <1>2 DEF SendFoundOk, SendFoundFails
  <2>2. Sending(u) /\ <<u, a>> \in Pairs
    BY <1>2 DEF SendFoundOk, SendFoundFails, Pairs, QueueInv, TypeOK
  <2>3. /\ QueueTyped' /\ RowsAreListed' /\ owed' = owed
        /\ unanswered' \subseteq Pairs /\ assetSendQue' \subseteq Pairs
    BY <2>1, <2>2, SendKeepsRows DEF Sending, QueueInv
  <2>4. TypeOK'
    BY <2>2, <2>3 DEF Sending, QueueInv, TypeOK, QueueTyped, assetVars
  <2>5. PurgeIsPending'
    BY <2>2 DEF Sending, QueueInv, TypeOK, PurgeIsPending
  <2> QED BY <2>3, <2>4, <2>5 DEF QueueInv
<1>3. CASE Purge(u)
  BY <1>3, PurgeKeeps
<1>4. CASE SendQuedOk(u)
  <2>1. PICK p \in assetSendQue : TransmitOk(p) /\ assetSendQue' = assetSendQue \ {p}
    BY <1>4 DEF SendQuedOk
  <2>2. p \in Pairs
    BY DEF QueueInv, TypeOK
  <2>3. QueueTyped' /\ RowsAreListed'
    BY <1>4, <2>1, UnchangedKeepsRows
       DEF SendQuedOk, TransmitOk, QueueInv, TypeOK, QueueTyped
  <2>4. TypeOK'
    BY <1>4, <2>1, <2>2, <2>3
       DEF SendQuedOk, TransmitOk, QueueInv, TypeOK, QueueTyped, assetVars
  <2>5. PurgeIsPending'
    BY <1>4 DEF SendQuedOk, QueueInv, TypeOK, PurgeIsPending
  <2> QED BY <2>3, <2>4, <2>5 DEF QueueInv
<1>5. CASE SendQuedFails(u)
  <2>1. PICK p \in assetSendQue : TransmitFails(p) \/ FirstChunkFails(p)
    BY <1>5 DEF SendQuedFails
  <2>2. p \in Pairs /\ QueueTyped
    BY DEF QueueInv, TypeOK, QueueTyped
  <2>3. QueueTyped' /\ RowsAreListed' /\ owed' = owed
    <3>1. CASE TransmitFails(p)
      BY <1>5, <2>2, <3>1, FailKeepsRows DEF SendQuedFails, TransmitFails, QueueInv
    <3>2. CASE FirstChunkFails(p)
      BY <1>5, <2>2, <3>2, UnchangedKeepsRows DEF SendQuedFails, FirstChunkFails, QueueInv
    <3> QED BY <2>1, <3>1, <3>2
  <2>4. TypeOK'
    BY <1>5, <2>1, <2>3
       DEF SendQuedFails, TransmitFails, FirstChunkFails, QueueInv, TypeOK, QueueTyped,
           assetVars
  <2>5. PurgeIsPending'
    BY <1>5 DEF SendQuedFails, QueueInv, TypeOK, PurgeIsPending
  <2> QED BY <2>3, <2>4, <2>5 DEF QueueInv
<1>6. CASE NoneQued(u)
  <2>1. QueueTyped' /\ RowsAreListed'
    BY <1>6, UnchangedKeepsRows DEF NoneQued, QueueInv, TypeOK, QueueTyped
  <2>2. TypeOK'
    BY <1>6, <2>1 DEF NoneQued, QueueInv, TypeOK, QueueTyped, assetVars, netVars, userVars
  <2>3. PurgeIsPending'
    BY <1>6 DEF NoneQued, QueueInv, TypeOK, PurgeIsPending
  <2> QED BY <2>1, <2>2, <2>3 DEF QueueInv
<1> QED BY <1>1, <1>2, <1>3, <1>4, <1>5, <1>6 DEF RxStep

(* The answers to what was sent: none comes while a purge is pending. *)
LEMMA ReplyKeeps ==
    ASSUME QueueInv, NEW u \in Users, NEW a \in Assets, Reply(u, a)
    PROVE  QueueInv'
<1>1. <<u, a>> \in Pairs /\ QueueTyped
  BY DEF Pairs, QueueInv, TypeOK, QueueTyped
<1>2. \/ TxFail(<<u, a>>)
      \/ TxSuccess(<<u, a>>)
      \/ UNCHANGED <<queueVars, owed>>
  BY DEF Reply, TextReplyOk, ReplyError, FileSent, FileCanceled, FileBroken, CompleteReply,
         userVars
<1>3. UNCHANGED <<loggedOn, dead>>
  BY DEF Reply, TextReplyOk, ReplyError, FileSent, FileCanceled, FileBroken, CompleteReply,
         rxVars
<1>4. QueueTyped' /\ RowsAreListed' /\ owed' \subseteq Pairs
  <2>1. CASE TxFail(<<u, a>>)
    BY <1>1, <1>3, <2>1, FailKeepsRows DEF QueueInv, TypeOK
  <2>2. CASE TxSuccess(<<u, a>>)
    BY <1>1, <1>3, <2>2, SuccessKeepsRows DEF QueueInv, TypeOK
  <2>3. CASE UNCHANGED <<queueVars, owed>>
    BY <1>1, <1>3, <2>3, UnchangedKeepsRows DEF QueueInv, TypeOK
  <2> QED BY <1>2, <2>1, <2>2, <2>3
<1>5. /\ pc[u] = "idle"
      /\ UNCHANGED <<assetsLoaded, assetVars, gui, found, connected, assetSendQue, addressed>>
  BY DEF Reply, TextReplyOk, ReplyError, FileSent, FileCanceled, FileBroken, CompleteReply,
         Answered, rxVars, userVars
<1>6. pc' = pc \/ pc' = [pc EXCEPT ![u] = "sent"]
  BY DEF Reply, TextReplyOk, ReplyError, FileSent, FileCanceled, FileBroken, CompleteReply,
         rxVars
<1>7. unanswered' \subseteq Pairs /\ completing' \subseteq Pairs
  BY <1>1 DEF Reply, TextReplyOk, ReplyError, FileSent, FileCanceled, FileBroken,
              CompleteReply, QueueInv, TypeOK
<1>8. TypeOK'
  BY <1>3, <1>4, <1>5, <1>6, <1>7 DEF QueueInv, TypeOK, QueueTyped, assetVars
<1>9. PurgeIsPending'
  BY <1>3, <1>5, <1>6 DEF QueueInv, TypeOK, PurgeIsPending
<1> QED BY <1>4, <1>8, <1>9 DEF QueueInv

(* Network and restart leave queue and table alone, or end the session in  *)
(* which they are compared; a start reads the list from the table.         *)
LEMMA NetworkKeeps ==
    ASSUME QueueInv, NEW u \in Users, Connect(u) \/ ConnectionLost(u)
    PROVE  QueueInv'
<1>1. QueueTyped' /\ RowsAreListed'
  BY UnchangedKeepsRows
     DEF Connect, ConnectionLost, QueueInv, TypeOK, QueueTyped, rxVars
<1>2. TypeOK'
  BY <1>1 DEF Connect, ConnectionLost, QueueInv, TypeOK, QueueTyped, assetVars, rxVars,
              netVars, userVars
<1>3. PurgeIsPending'
  BY DEF Connect, ConnectionLost, QueueInv, PurgeIsPending, rxVars
<1> QED BY <1>1, <1>2, <1>3 DEF QueueInv

LEMMA StartupKeeps ==
    ASSUME QueueInv, UserLoggedOn \/ AssetMgrStartup
    PROVE  QueueInv'
<1>1. CASE UserLoggedOn
  <2>1. ahead' \subseteq Pairs \X Pairs
    BY <1>1 DEF UserLoggedOn, Orders, Rows
  <2>2. TypeOK'
    BY <1>1, <2>1 DEF UserLoggedOn, QueueInv, TypeOK, assetVars, rxVars, netVars, userVars
  <2>3. RowsAreListed'
    BY <1>1 DEF UserLoggedOn, RowsAreListed, Rows
  <2>4. PurgeIsPending'
    BY <1>1 DEF UserLoggedOn, QueueInv, PurgeIsPending, rxVars
  <2> QED BY <2>2, <2>3, <2>4 DEF QueueInv
<1>2. CASE AssetMgrStartup
  <2>1. QueueTyped' /\ RowsAreListed'
    BY <1>2, UnchangedKeepsRows DEF AssetMgrStartup, QueueInv, TypeOK, QueueTyped, rxVars
  <2>2. TypeOK'
    BY <1>2, <2>1
       DEF AssetMgrStartup, QueueInv, TypeOK, QueueTyped, rxVars, netVars, userVars
  <2>3. PurgeIsPending'
    BY <1>2 DEF AssetMgrStartup, QueueInv, PurgeIsPending, rxVars
  <2> QED BY <2>1, <2>2, <2>3 DEF QueueInv
<1> QED BY <1>1, <1>2

LEMMA RestartKeeps ==
    ASSUME QueueInv, Restart
    PROVE  QueueInv'
<1>1. TypeOK'
  <2>1. sendList' \in [Pairs -> QueStates] /\ sendDb' \in [Pairs -> QueStates]
    BY DEF Restart, NoEntries, QueStates, QueueInv, TypeOK
  <2>2. gui' \in [op : {"idle", "add", "remove"}, pairs : SUBSET Pairs]
    BY DEF Restart, GuiIdle
  <2>3. /\ pc' \in [Users -> {"idle", "sent", "ready", "send", "purge"}]
        /\ found' \in [Users -> SUBSET Assets]
        /\ dead' \in [Users -> SUBSET Pairs]
    BY DEF Restart
  <2> QED BY <2>1, <2>2, <2>3 DEF Restart, QueueInv, TypeOK, userVars
<1>2. PurgeIsPending' /\ RowsAreListed'
  BY DEF Restart, PurgeIsPending, RowsAreListed
<1> QED BY <1>1, <1>2 DEF QueueInv

LEMMA NextQueueInv == QueueInv /\ [Next]_vars => QueueInv'
<1> SUFFICES ASSUME QueueInv, [Next]_vars PROVE QueueInv'
  OBVIOUS
<1>1. CASE UserLoggedOn \/ AssetMgrStartup
  BY <1>1, StartupKeeps
<1>2. CASE Restart
  BY <1>2, RestartKeeps
<1>3. CASE GuiStep
  BY <1>3, GuiStepKeeps
<1>4. CASE \E a \in Assets : RemoveQueued(a)
  BY <1>4, RemoveQueuedKeeps
<1>5. ASSUME NEW u \in Users, Connect(u) \/ ConnectionLost(u)
      PROVE  QueueInv'
  BY <1>5, NetworkKeeps
<1>6. ASSUME NEW u \in Users, PktAnnReceived(u)
      PROVE  QueueInv'
  BY <1>6, ScanKeeps DEF PktAnnReceived
<1>7. ASSUME NEW u \in Users, RxStep(u)
      PROVE  QueueInv'
  BY <1>7, RxStepKeeps
<1>8. ASSUME NEW u \in Users, NEW a \in Assets, QueueAsset(u, a) \/ SendAsset(u, a)
      PROVE  QueueInv'
  BY <1>8, GuiKeeps
<1>9. ASSUME NEW u \in Users, NEW a \in Assets, Reply(u, a)
      PROVE  QueueInv'
  BY <1>9, ReplyKeeps
<1>10. CASE UNCHANGED vars
  <2>1. QueueTyped' /\ RowsAreListed'
    BY <1>10, UnchangedKeepsRows DEF vars, QueueInv, TypeOK, QueueTyped, rxVars
  <2>2. TypeOK'
    BY <1>10, <2>1 DEF vars, QueueInv, TypeOK, QueueTyped, assetVars, rxVars, netVars,
                       userVars
  <2>3. PurgeIsPending'
    BY <1>10 DEF vars, QueueInv, PurgeIsPending, rxVars
  <2> QED BY <2>1, <2>2, <2>3 DEF QueueInv
<1> QED BY <1>1, <1>2, <1>3, <1>4, <1>5, <1>6, <1>7, <1>8, <1>9, <1>10 DEF Next

-----------------------------------------------------------------------------
(* The theorems *)

(* List, table, queue in memory and rx threads hold values of their types  *)
(* at every step of GUI, network, startup and restart.                     *)
THEOREM QueueTypeCorrect == Spec => []TypeOK
<1>1. QueueInv => TypeOK
  BY DEF QueueInv
<1> QED BY <1>1, InitQueueInv, NextQueueInv, PTL DEF Spec

(* Of every message that was sent or removed the row goes with the entry:  *)
(* while the program is used, no row of the send queue's table would come  *)
(* back at the next start as an entry that the list does not hold in the   *)
(* same state, but for those an rx thread has erased and is about to       *)
(* purge.                                                                  *)
THEOREM RowsAlwaysListed == Spec => []RowsAreListed
<1>1. QueueInv => RowsAreListed
  BY DEF QueueInv
<1> QED BY <1>1, InitQueueInv, NextQueueInv, PTL DEF Spec
=============================================================================
