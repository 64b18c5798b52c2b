----------------------------- MODULE SendQueue -----------------------------
(***************************************************************************)
(* The send queue of the messenger: the messages (assets) to be sent to    *)
(* users once they are reachable, what SendQueueMgr keeps of them in its   *)
(* list and its database, and what AssetBaseXferMgr does with the one that *)
(* SendQueueMgr picks when a user announces himself.                       *)
(*                                                                         *)
(* Every user has one rx thread here, which runs the handlers of his       *)
(* packets one after the other; pc[u] is where it stands between two       *)
(* sections that hold a lock.  The GUI thread, the thread that loads the   *)
(* assets at startup and the network interleave with the rx threads.       *)
(***************************************************************************)

CONSTANTS
    Users,      \* the online ids messages are sent to
    Assets,     \* the messages
    Files,      \* the messages that are files and sent in chunks; the others fit in one packet
    Reachable,  \* the users who come online again and again: fairness and liveness only
    Inputs      \* what GUI and network do in this instance

ASSUME FilesAssumption == Files \subseteq Assets
ASSUME ReachableAssumption == Reachable \subseteq Users
ASSUME QueueInputsAssumption ==
    Inputs \subseteq {"queue", "send", "remove", "online", "offline", "fail", "restart"}

(* The key of a SendQueInfo: who to send to, and the asset id. *)
Pairs == Users \X Assets

(* enum ESendQueState, the values that are ever set; "none": no entry. *)
QueStates == {"none", "waiting", "failed"}

VARIABLES
    loggedOn,     \* m_SendQueueInitialized: the database was read into the list
    assetsLoaded, \* AssetBaseMgr::m_AssetBaseListInitialized
    sendList,     \* SendQueueMgr::m_SendList: the state of each entry
    ahead,        \* the order of m_SendList: the pairs of entries of which the first is ahead
    sendDb,       \* table send_queue: the state of each row
    assetList,    \* AssetBaseMgr::m_AssetBaseInfoList
    assetDb,      \* its database
    assetSendQue, \* AssetBaseXferMgr::m_AssetBaseSendQue
    gui,          \* what the GUI thread has yet to do: add or remove an asset
    pc,           \* the step of its handler the rx thread of a user is at
    found,        \* the asset sendNextAsset has found to send, if any
    dead,         \* toRemoveList of sendNextAsset
    connected,    \* the users findBestUserOnlineConnection finds a connection to
    unanswered,   \* the send requests and file transfers under way
    completing,   \* the files of which the complete request has no reply yet
    addressed,    \* the messages the user has written, with their addressees
    owed          \* the messages the user was told are queued, not yet sent nor removed

queueVars == <<sendList, ahead, sendDb>>
assetVars == <<assetList, assetDb>>
rxVars    == <<pc, found, dead>>
netVars   == <<assetSendQue, unanswered, completing>>
userVars  == <<addressed, owed>>
vars == <<loggedOn, assetsLoaded, queueVars, assetVars, gui, rxVars, connected,
          netVars, userVars>>

TypeOK ==
    /\ loggedOn \in BOOLEAN
    /\ assetsLoaded \in BOOLEAN
    /\ sendList \in [Pairs -> QueStates]
    /\ ahead \subseteq Pairs \X Pairs
    /\ sendDb \in [Pairs -> QueStates]
    /\ assetList \subseteq Assets
    /\ assetDb \subseteq Assets
    /\ assetSendQue \subseteq Pairs
    /\ gui \in [op : {"idle", "add", "remove"}, pairs : SUBSET Pairs]
    /\ pc \in [Users -> {"idle", "sent", "ready", "send", "purge"}]
    /\ found \in [Users -> SUBSET Assets]
    /\ dead \in [Users -> SUBSET Pairs]
    /\ connected \subseteq Users
    /\ unanswered \subseteq Pairs
    /\ completing \subseteq Pairs
    /\ addressed \subseteq Pairs
    /\ owed \subseteq Pairs

NoEntries == [p \in Pairs |-> "none"]
GuiIdle   == [op |-> "idle", pairs |-> {}]

(* A program started for the first time. *)
Init ==
    /\ loggedOn = FALSE
    /\ assetsLoaded = FALSE
    /\ sendList = NoEntries
    /\ ahead = {}
    /\ sendDb = NoEntries
    /\ assetList = {}
    /\ assetDb = {}
    /\ assetSendQue = {}
    /\ gui = GuiIdle
    /\ pc = [u \in Users |-> "idle"]
    /\ found = [u \in Users |-> {}]
    /\ dead = [u \in Users |-> {}]
    /\ connected = {}
    /\ unanswered = {}
    /\ completing = {}
    /\ addressed = {}
    /\ owed = {}

-----------------------------------------------------------------------------
(* The list and the table *)

(* The definitions whose comment begins with "Slip" are no part of Next:   *)
(* each is the next definition with a mistake its code could have, and     *)
(* shows that a property depends on that code.                             *)

Listed == {p \in Pairs : sendList[p] # "none"}
Rows   == {p \in Pairs : sendDb[p] # "none"}

(* Entries that leave the list and its order. *)
Erase(gone) ==
    /\ sendList' = [p \in Pairs |-> IF p \in gone THEN "none" ELSE sendList[p]]
    /\ ahead' = {pq \in ahead : pq[1] \notin gone /\ pq[2] \notin gone}

(* SendQueueDb::removeSendQueueInfo *)
removeSendQueueInfo(gone) ==
    sendDb' = [p \in Pairs |-> IF p \in gone THEN "none" ELSE sendDb[p]]

(* SendQueueDb::updateSendQueueInfo deletes the row of the pair, then      *)
(* inserts it.  The primary key of the table is the user alone: the insert *)
(* fails, and is not reported, while the user has another row.             *)
updateSendQueueInfo(p, state) ==
    sendDb' = [sendDb EXCEPT ![p] =
                 IF \E q \in Rows : q # p /\ q[1] = p[1] THEN "none" ELSE state]

(* SendQueueMgr::updateSendQueue for a state other than "remove". *)
updateSendQueue(p, state) ==
    /\ sendList' = [sendList EXCEPT ![p] = state]
    /\ ahead' = IF p \in Listed THEN ahead ELSE ahead \union (Listed \X {p})
    /\ IF sendList[p] = state THEN UNCHANGED sendDb ELSE updateSendQueueInfo(p, state)

(* Slip: the sent entry is not removed from the table. *)
RemoveSentListOnly(p) ==
    /\ Erase({p})
    /\ UNCHANGED sendDb

(* Slip: the sent entry is not removed from the list. *)
RemoveSentRowOnly(p) ==
    /\ removeSendQueueInfo({p})
    /\ UNCHANGED <<sendList, ahead>>

(* SendQueueMgr::removeSentAsset *)
removeSentAsset(p) ==
    /\ Erase({p})
    /\ removeSendQueueInfo({p} \intersect Listed)

(* Slip: a failed entry gets the state that sendNextAsset does not select. *)
TxFailSending(p) == updateSendQueue(p, "sending") /\ UNCHANGED owed

(* updateAssetMgrSendState with TxSuccess or TxFail, which announces it to *)
(* SendQueueMgr::callbackXferState.                                        *)
TxFail(p) == updateSendQueue(p, "failed") /\ UNCHANGED owed

TxSuccess(p) == removeSentAsset(p) /\ owed' = owed \ {p}

-----------------------------------------------------------------------------
(* Sending: fromGuiSendAsset *)

(* AssetBaseXferMgr::queAsset: one entry for each asset. *)
queAsset(p) ==
    assetSendQue' = IF \E q \in assetSendQue : q[2] = p[2] THEN assetSendQue
                                                            ELSE assetSendQue \union {p}

(* createAssetTxSessionAndSend gets the request, and a file's first chunk, out. *)
TransmitOk(p) ==
    /\ p[1] \in connected
    /\ unanswered' = unanswered \union {p}
    /\ UNCHANGED <<queueVars, owed>>

(* It cannot open the file, or the socket does not take the packet. *)
TransmitFails(p) ==
    /\ "fail" \in Inputs
    /\ p[1] \in connected
    /\ TxFail(p)
    /\ UNCHANGED unanswered

(* The request gets out, and the first chunk of the file does not: whoever *)
(* called it has to report the failure.                                    *)
FirstChunkFails(p) ==
    /\ "fail" \in Inputs
    /\ p[1] \in connected
    /\ p[2] \in Files
    /\ UNCHANGED <<queueVars, owed, unanswered>>

(* AssetBaseXferMgr::fromGuiSendAssetBase; without a connection the asset  *)
(* is queued in memory, and its failure puts it into the send queue too.   *)
SendOk(p) == TransmitOk(p) /\ UNCHANGED assetSendQue

SendFails(p) ==
    \/ TransmitFails(p) /\ UNCHANGED assetSendQue
    \/ /\ p[1] \notin connected
       /\ TxFail(p)
       /\ queAsset(p)
       /\ UNCHANGED unanswered

-----------------------------------------------------------------------------
(* GUI *)

(* A message of the user's: a new one, or one he sends again to the same. *)
MayWrite(u, a) ==
    /\ loggedOn
    /\ gui = GuiIdle
    /\ \A v \in Users : <<v, a>> \in addressed => v = u /\ a \in assetList

(* P2PEngine::fromGuiQueueAssetAction queues the message first ...         *)
QueueAsset(u, a) ==
    /\ "queue" \in Inputs
    /\ MayWrite(u, a)
    /\ updateSendQueue(<<u, a>>, "waiting")
    /\ addressed' = addressed \union {<<u, a>>}
    /\ gui' = [op |-> "add", pairs |-> {<<u, a>>}]
    /\ UNCHANGED <<loggedOn, assetsLoaded, assetVars, rxVars, connected, netVars, owed>>

(* ... and then adds it to the assets. *)
AddQueuedAsset ==
    /\ gui.op = "add"
    /\ assetList' = assetList \union {p[2] : p \in gui.pairs}
    /\ assetDb' = assetDb \union {p[2] : p \in gui.pairs}
    /\ owed' = owed \union gui.pairs
    /\ gui' = GuiIdle
    /\ UNCHANGED <<loggedOn, assetsLoaded, queueVars, rxVars, connected, netVars, addressed>>

(* P2PEngine::fromGuiAssetAction, AddAssetAndSend and AssetResend. *)
SendAsset(u, a) ==
    /\ "send" \in Inputs
    /\ MayWrite(u, a)
    /\ assetList' = assetList \union {a}
    /\ assetDb' = assetDb \union {a}
    /\ addressed' = addressed \union {<<u, a>>}
    /\ SendOk(<<u, a>>) \/ SendFails(<<u, a>>)
    /\ UNCHANGED <<loggedOn, assetsLoaded, gui, rxVars, connected, completing>>

(* AssetBaseMgr::removeAsset takes it from the send queue first ... *)
RemoveQueued(a) ==
    LET gone == {p \in Listed : p[2] = a}
    IN  /\ "remove" \in Inputs
        /\ loggedOn
        /\ gui = GuiIdle
        /\ a \in assetList
        /\ Erase(gone)
        /\ removeSendQueueInfo(gone)
        /\ owed' = {p \in owed : p[2] # a}
        /\ gui' = [op |-> "remove", pairs |-> {p \in addressed : p[2] = a}]
        /\ UNCHANGED <<loggedOn, assetsLoaded, assetVars, rxVars, connected, netVars,
                       addressed>>

(* ... and then from the assets. *)
RemoveAsset ==
    /\ gui.op = "remove"
    /\ assetList' = assetList \ {p[2] : p \in gui.pairs}
    /\ assetDb' = assetDb \ {p[2] : p \in gui.pairs}
    /\ gui' = GuiIdle
    /\ UNCHANGED <<loggedOn, assetsLoaded, queueVars, rxVars, connected, netVars, userVars>>

-----------------------------------------------------------------------------
(* sendNextAsset *)

(* The entries the condition of its loop selects: the code's               *)
(* user && waiting || failed  binds as  (user && waiting) || failed.       *)
Eligible(u) ==
    {p \in Listed : (p[1] = u /\ sendList[p] = "waiting") \/ sendList[p] = "failed"}

(* Of these the loop stops at the first one whose asset exists. *)
First(u) ==
    {p \in Eligible(u) :
        /\ p[2] \in assetList
        /\ \A q \in Eligible(u) : <<q, p>> \in ahead => q[2] \notin assetList}

(* Those it met before have no asset, and are erased. *)
Skipped(u) ==
    {q \in Eligible(u) : \A p \in First(u) : <<q, p>> \in ahead}

(* Whoever is picked, the asset goes to u; the rows of the erased entries  *)
(* stay in the table until the asset was sent.                             *)
Scan(u) ==
    /\ Erase(Skipped(u))
    /\ found' = [found EXCEPT ![u] = {p[2] : p \in First(u)}]
    /\ dead' = [dead EXCEPT ![u] = Skipped(u)]
    /\ pc' = [pc EXCEPT ![u] = IF First(u) # {} THEN "send"
                               ELSE IF Skipped(u) # {} THEN "purge" ELSE "idle"]
    /\ UNCHANGED <<loggedOn, assetsLoaded, sendDb, assetVars, gui, connected, netVars,
                   userVars>>

(* P2PEngine::onPktAnnounceCommonHandler of the user, or of his host. *)
PktAnnReceived(u) ==
    /\ u \in connected
    /\ pc[u] = "idle"
    /\ Scan(u)

(* callbackAssetXferReadyToSend *)
ReadyToSend(u) ==
    /\ pc[u] = "ready"
    /\ Scan(u)

Sending(u) ==
    /\ pc[u] = "send"
    /\ found' = [found EXCEPT ![u] = {}]
    /\ pc' = [pc EXCEPT ![u] = IF dead[u] = {} THEN "idle" ELSE "purge"]
    /\ UNCHANGED <<loggedOn, assetsLoaded, assetVars, gui, dead, connected, completing,
                   addressed>>

SendFoundOk(u) == Sending(u) /\ \E a \in found[u] : SendOk(<<u, a>>)

SendFoundFails(u) == Sending(u) /\ \E a \in found[u] : SendFails(<<u, a>>)

Purge(u) ==
    /\ pc[u] = "purge"
    /\ removeSendQueueInfo(dead[u])
    /\ dead' = [dead EXCEPT ![u] = {}]
    /\ pc' = [pc EXCEPT ![u] = "idle"]
    /\ UNCHANGED <<loggedOn, assetsLoaded, sendList, ahead, assetVars, gui, found,
                   connected, netVars, userVars>>

-----------------------------------------------------------------------------
(* Answers *)

Answered(u, a) ==
    /\ pc[u] = "idle"
    /\ <<u, a>> \in unanswered

(* onPktAssetBaseSendReply for a message: its session ended when it was    *)
(* sent, so the reply settles its state and nothing else is sent.          *)
TextReplyOk(u, a) ==
    /\ a \notin Files
    /\ Answered(u, a)
    /\ unanswered' = unanswered \ {<<u, a>>}
    /\ IF a \in assetList THEN TxSuccess(<<u, a>>) ELSE TxFail(<<u, a>>)
    /\ UNCHANGED <<loggedOn, assetsLoaded, assetVars, gui, rxVars, connected, assetSendQue,
                   completing, addressed>>

(* The same with an error, of a message or of a file. *)
ReplyError(u, a) ==
    /\ "fail" \in Inputs
    /\ Answered(u, a)
    /\ unanswered' = IF a \in Files /\ a \notin assetList THEN unanswered
                                                          ELSE unanswered \ {<<u, a>>}
    /\ TxFail(<<u, a>>)
    /\ UNCHANGED <<loggedOn, assetsLoaded, assetVars, gui, rxVars, connected, assetSendQue,
                   completing, addressed>>

(* onPktAssetBaseChunkReply of the last chunk: txNextAssetBaseChunk takes  *)
(* the file for sent, and only then asks the receiver to complete it.      *)
FileSent(u, a) ==
    /\ a \in Files
    /\ Answered(u, a)
    /\ unanswered' = unanswered \ {<<u, a>>}
    /\ completing' = completing \union {<<u, a>>}
    /\ TxSuccess(<<u, a>>)
    /\ pc' = [pc EXCEPT ![u] = "sent"]
    /\ UNCHANGED <<loggedOn, assetsLoaded, assetVars, gui, found, dead, connected,
                   assetSendQue, addressed>>

(* The receiver cancels a download with an error in the reply to a chunk. *)
FileCanceled(u, a) ==
    /\ "fail" \in Inputs
    /\ a \in Files
    /\ Answered(u, a)
    /\ unanswered' = unanswered \ {<<u, a>>}
    /\ TxFail(<<u, a>>)
    /\ pc' = [pc EXCEPT ![u] = "sent"]
    /\ UNCHANGED <<loggedOn, assetsLoaded, assetVars, gui, found, dead, connected,
                   assetSendQue, completing, addressed>>

(* A chunk cannot be read or sent: the session ends, and nobody is told. *)
FileBroken(u, a) ==
    /\ "fail" \in Inputs
    /\ a \in Files
    /\ Answered(u, a)
    /\ unanswered' = unanswered \ {<<u, a>>}
    /\ UNCHANGED <<loggedOn, assetsLoaded, queueVars, assetVars, gui, rxVars, connected,
                   assetSendQue, completing, userVars>>

(* onAssetBaseSent goes on with the queue in memory                        *)
(* (checkQueForMoreAssetsToSend), and with the send queue if that has      *)
(* nothing for the user or its asset could not be sent.                    *)
SendQuedOk(u) ==
    /\ pc[u] = "sent"
    /\ \E p \in assetSendQue :
        /\ p[1] = u
        /\ TransmitOk(p)
        /\ assetSendQue' = assetSendQue \ {p}
    /\ pc' = [pc EXCEPT ![u] = "idle"]
    /\ UNCHANGED <<loggedOn, assetsLoaded, assetVars, gui, found, dead, connected,
                   completing, addressed>>

SendQuedFails(u) ==
    /\ pc[u] = "sent"
    /\ \E p \in assetSendQue : p[1] = u /\ (TransmitFails(p) \/ FirstChunkFails(p))
    /\ pc' = [pc EXCEPT ![u] = "ready"]
    /\ UNCHANGED <<loggedOn, assetsLoaded, assetVars, gui, found, dead, connected,
                   assetSendQue, completing, addressed>>

NoneQued(u) ==
    /\ pc[u] = "sent"
    /\ u \in connected => \A p \in assetSendQue : p[1] # u
    /\ pc' = [pc EXCEPT ![u] = IF u \in connected THEN "ready" ELSE "idle"]
    /\ UNCHANGED <<loggedOn, assetsLoaded, queueVars, assetVars, gui, found, dead, connected,
                   netVars, userVars>>

(* onPktAssetBaseSendCompleteReply: the session has ended by now, and      *)
(* whatever the reply says is a success.                                   *)
CompleteReply(u, a) ==
    /\ pc[u] = "idle"
    /\ <<u, a>> \in completing
    /\ completing' = completing \ {<<u, a>>}
    /\ TxSuccess(<<u, a>>)
    /\ UNCHANGED <<loggedOn, assetsLoaded, assetVars, gui, rxVars, connected, assetSendQue,
                   unanswered, addressed>>

-----------------------------------------------------------------------------
(* Network, startup and restart *)

Connect(u) ==
    /\ "online" \in Inputs
    /\ u \notin connected
    /\ connected' = connected \union {u}
    /\ UNCHANGED <<loggedOn, assetsLoaded, queueVars, assetVars, gui, rxVars, netVars,
                   userVars>>

(* AssetBaseXferMgr::onConnectionLost erases the sessions without a word;  *)
(* the replies to what was sent never come.                                *)
ConnectionLost(u) ==
    /\ "offline" \in Inputs
    /\ u \in connected
    /\ connected' = connected \ {u}
    /\ unanswered' = {p \in unanswered : p[1] # u}
    /\ completing' = {p \in completing : p[1] # u}
    /\ UNCHANGED <<loggedOn, assetsLoaded, queueVars, assetVars, gui, rxVars, assetSendQue,
                   userVars>>

(* The orders in which a query without ORDER BY may return rows. *)
Orders(rows) ==
    {o \in SUBSET (rows \X rows) :
        /\ \A p \in rows : <<p, p>> \notin o
        /\ \A p, q \in rows : p # q => (<<p, q>> \in o <=> <<q, p>> \notin o)
        /\ \A p, q, r \in rows : <<p, q>> \in o /\ <<q, r>> \in o => <<p, r>> \in o}

(* SendQueueMgr::fromGuiUserLoggedOn *)
UserLoggedOn ==
    /\ ~loggedOn
    /\ loggedOn' = TRUE
    /\ sendList' = sendDb
    /\ ahead' \in Orders(Rows)
    /\ UNCHANGED <<assetsLoaded, sendDb, assetVars, gui, rxVars, connected, netVars,
                   userVars>>

(* AssetBaseMgr::assetInfoMgrStartup, in a thread of its own. *)
AssetMgrStartup ==
    /\ ~assetsLoaded
    /\ assetsLoaded' = TRUE
    /\ assetList' = assetDb
    /\ UNCHANGED <<loggedOn, queueVars, assetDb, gui, rxVars, connected, netVars, userVars>>

(* The program ends at any step, and starts with what its databases hold. *)
Restart ==
    /\ "restart" \in Inputs
    /\ loggedOn' = FALSE
    /\ assetsLoaded' = FALSE
    /\ sendList' = NoEntries
    /\ ahead' = {}
    /\ assetList' = {}
    /\ assetSendQue' = {}
    /\ gui' = GuiIdle
    /\ pc' = [u \in Users |-> "idle"]
    /\ found' = [u \in Users |-> {}]
    /\ dead' = [u \in Users |-> {}]
    /\ connected' = {}
    /\ unanswered' = {}
    /\ completing' = {}
    /\ UNCHANGED <<sendDb, assetDb, userVars>>

-----------------------------------------------------------------------------
(* The specification *)

GuiStep == AddQueuedAsset \/ RemoveAsset

RxStep(u) ==
    \/ ReadyToSend(u)
    \/ SendFoundOk(u)
    \/ SendFoundFails(u)
    \/ Purge(u)
    \/ SendQuedOk(u)
    \/ SendQuedFails(u)
    \/ NoneQued(u)

Reply(u, a) ==
    \/ TextReplyOk(u, a)
    \/ ReplyError(u, a)
    \/ FileSent(u, a)
    \/ FileCanceled(u, a)
    \/ FileBroken(u, a)
    \/ CompleteReply(u, a)

Next ==
    \/ UserLoggedOn
    \/ AssetMgrStartup
    \/ Restart
    \/ GuiStep
    \/ \E a \in Assets : RemoveQueued(a)
    \/ \E u \in Users :
        \/ Connect(u)
        \/ ConnectionLost(u)
        \/ PktAnnReceived(u)
        \/ RxStep(u)
        \/ \E a \in Assets : QueueAsset(u, a) \/ SendAsset(u, a) \/ Reply(u, a)

Spec == Init /\ [][Next]_vars

(* Threads run; a reachable user announces himself again and again, and    *)
(* does not refuse for ever what he is sent.                               *)
Fairness ==
    /\ WF_vars(UserLoggedOn)
    /\ WF_vars(AssetMgrStartup)
    /\ WF_vars(GuiStep)
    /\ \A u \in Users : WF_vars(RxStep(u))
    /\ \A u \in Reachable :
        /\ WF_vars(Connect(u))
        /\ SF_vars(PktAnnReceived(u))
        /\ SF_vars(SendFoundOk(u))
        /\ \A a \in Assets : SF_vars(TextReplyOk(u, a) \/ FileSent(u, a))

FairSpec == Spec /\ Fairness

-----------------------------------------------------------------------------
(* Properties *)

(* A row of the table is the entry of the list it would become again at    *)
(* the next start, in the same state; only the row of an entry that an rx  *)
(* thread is about to purge has no entry.  So nothing sent or removed      *)
(* comes back.                                                             *)
RowsAreListed ==
    loggedOn => \A p \in Rows : sendList[p] = sendDb[p] \/ \E u \in Users : p \in dead[u]

(* A reachable user gets what is queued for him, unless it is removed:     *)
(* every entry leaves the queue.                                           *)
QueueDrains ==
    \A u \in Reachable, a \in Assets :
        sendList[<<u, a>>] # "none" ~> sendList[<<u, a>>] = "none"

(* SendQueueMgr.h: getUserOnlineId of an entry is who it is sent to.  A    *)
(* message is only sent to the user it was written to.                     *)
AddresseeOnly == unanswered \subseteq addressed

(* AppletMultiMessenger tells the user that his message will be queued     *)
(* until both are reachable: it is in the queue until sent or removed,     *)
(* across restarts too.                                                    *)
QueuedIsKept == loggedOn => owed \subseteq Listed
=============================================================================
