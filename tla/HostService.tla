---------------------------- MODULE HostService ----------------------------
(***************************************************************************)
(* The host side of a user host (group, chat room, random connect): what   *)
(* PluginBaseHostService, HostServerMgr, HostServerJoinMgr,                *)
(* ConnectIdListMgr and MemberActiveMgr do when clients join, leave,       *)
(* unjoin and lose their connection, and what the clients learn of each    *)
(* other from the packets the host sends them.                             *)
(*                                                                         *)
(* Every connected socket has one rx thread, which runs the handlers of    *)
(* the packets of that socket one after the other.  A handler of the code  *)
(* takes and releases several locks; each section between two of them is   *)
(* one step here, and pc[s] is where the rx thread of socket s stands.     *)
(* The GUI thread of the host's admin interleaves with all of them.        *)
(***************************************************************************)
EXTENDS Naturals, FiniteSets

CONSTANTS
    Users,        \* the online ids of the clients (the host itself is not one)
    Skts,         \* the sockets clients may connect with
    Owner,        \* the user at the other end of each socket
    PermLevels,   \* the permission levels the admin may give the host plugin
    FriendLevels, \* the friendships the admin may give a user
    Inputs        \* what else clients, network and admin do in this instance

(* enum EFriendState: also the levels of a plugin permission. *)
Ignore    == 0
Anonymous == 1
Guest     == 2
Friend    == 3
Admin     == 4
Levels    == {Ignore, Anonymous, Guest, Friend, Admin}

ASSUME OwnerAssumption == Owner \in [Skts -> Users]
ASSUME LevelsAssumption == PermLevels \subseteq Levels /\ FriendLevels \subseteq Levels
ASSUME InputsAssumption == Inputs \subseteq {"rejoin", "leave", "unJoin", "drop", "decide", "restart"}

(* enum EJoinState, as far as a host sets it; "Absent": there is no record. *)
Granted    == {"IsGranted", "WasGranted"}
JoinStates == Granted \union {"Absent", "Requested", "Denied", "LeaveHost"}

(* Where a save has deleted the row of a record and has yet to insert the  *)
(* new one: after updateJoinState, saveToDatabase, onHostJoinRequestedByUser. *)
InsertPcs == {"stateIns", "saveIns", "reqIns"}
JoinPcs  == {"query", "active", "inactive", "state", "conn", "info", "save",
             "active2", "list", "snap1", "send1", "members", "reply", "snap2",
             "send2", "reqInfo", "reqReply"} \union InsertPcs
LeavePcs == {"lvSnap", "lvSend", "lvList", "lvInfo", "lvConn", "lvAnn"}
UnJoinPcs == {"unInfo", "unConn", "unAnn"}
Pcs == {"idle", "lostAnn"} \union JoinPcs \union LeavePcs \union UnJoinPcs

VARIABLES
    link,         \* "down": no socket; "up": isConnected(); "lost": its rx thread has yet to run onConnectionLost
    pc,           \* the step of its handler the rx thread of a socket is at
    acc,          \* joinReply.getAccessState(); back to "ok" when no longer read
    fresh,        \* whether onHostJoinedByUser made a new HostJoinInfo; reset when saved
    todo,         \* the connected sockets a broadcast of this rx thread has yet to send to
    members,      \* the members sendMemberListToClient has yet to send
    connectIds,   \* ConnectIdListMgr::m_ConnectIdList, the entries of this host
    memberActive, \* MemberActiveMgr::m_MemberList, the users active with this host
    clientList,   \* HostServerMgr::m_ClientList
    joinInfo,     \* HostServerJoinMgr::m_HostJoinInfoList
    joinDb,       \* HostJoinInfoDb
    deciding,     \* the user whose row the admin's thread has deleted and has yet to insert
    friend,       \* VxNetIdent::getMyFriendshipToHim
    perm,         \* getPluginPermission of the host plugin
    view,         \* the users the host told a connected client of since it last left
    told          \* the last join reply of a connected client that has not left since

threadVars == <<pc, acc, fresh, todo, members>>
listVars   == <<connectIds, memberActive, clientList>>
recordVars == <<joinInfo, joinDb>>
adminVars  == <<deciding, friend, perm>>
clientVars == <<view, told>>
vars == <<link, threadVars, listVars, recordVars, adminVars, clientVars>>

TypeOK ==
    /\ link \in [Skts -> {"down", "up", "lost"}]
    /\ pc \in [Skts -> Pcs]
    /\ acc \in [Skts -> {"ok", "locked", "disabled", "ignored"}]
    /\ fresh \in [Skts -> BOOLEAN]
    /\ todo \in [Skts -> SUBSET Skts]
    /\ members \in [Skts -> SUBSET Users]
    /\ connectIds \subseteq Skts
    /\ memberActive \subseteq Users
    /\ clientList \subseteq Users
    /\ joinInfo \in [Users -> JoinStates]
    /\ joinDb \in [Users -> JoinStates \ {"IsGranted"}]
    /\ deciding \subseteq Users
    /\ friend \in [Users -> Levels]
    /\ perm \in Levels
    /\ view \in [Skts -> SUBSET Users]
    /\ told \in [Skts -> {"none", "ok", "locked"}]

(* A host that has just started: nobody is connected, nobody has a record. *)
Init ==
    /\ link = [s \in Skts |-> "down"]
    /\ pc = [s \in Skts |-> "idle"]
    /\ acc = [s \in Skts |-> "ok"]
    /\ fresh = [s \in Skts |-> FALSE]
    /\ todo = [s \in Skts |-> {}]
    /\ members = [s \in Skts |-> {}]
    /\ connectIds = {}
    /\ memberActive = {}
    /\ clientList = {}
    /\ joinInfo = [u \in Users |-> "Absent"]
    /\ joinDb = [u \in Users |-> "Absent"]
    /\ deciding = {}
    /\ friend \in [Users -> FriendLevels]
    /\ perm \in PermLevels
    /\ view = [s \in Skts |-> {}]
    /\ told = [s \in Skts |-> "none"]

-----------------------------------------------------------------------------
(* Helpers *)

(* The definitions whose comment begins with "Slip" are no part of Next:   *)
(* each is the next definition with a mistake its code could have, and     *)
(* shows that a property depends on that code.                             *)

(* Slip: the state is stored as it is. *)
ToDbAsIs(state) == state

(* HostJoinInfoDb::addHostJoin never stores "is granted". *)
ToDb(state) == IF state = "IsGranted" THEN "WasGranted" ELSE state

Hosted(u) == \E s \in connectIds : Owner[s] = u

(* HostBaseMgr::getPluginAccessState *)
PluginAccessState(u) ==
    LET f == IF Hosted(u) /\ friend[u] = Anonymous THEN Guest ELSE friend[u]
    IN  CASE perm = Ignore                     -> "disabled"
          [] perm # Ignore /\ friend[u] = Ignore -> "ignored"
          [] perm # Ignore /\ friend[u] # Ignore ->
                IF f < perm THEN "locked" ELSE "ok"

(* Slip: only sockets of active members count. *)
ActiveClientsExcept(u) ==
    {t \in connectIds : Owner[t] # u /\ link[t] = "up" /\ Owner[t] \in memberActive}

(* Whom a broadcast for user u reaches: the sockets of getConnections,     *)
(* without his own and those that findSktBase or isConnected skip.         *)
ClientsExcept(u) == {t \in connectIds : Owner[t] # u /\ link[t] = "up"}

Goto(s, next) == pc' = [pc EXCEPT ![s] = next]

At(s, here) == pc[s] = here

(* Slip: the list is unlocked before the record is saved. *)
UnlockedToSave == FALSE

(* m_HostJoinInfoList is locked from the DELETE to the INSERT of a save:   *)
(* nobody else reads or changes the list in between, but the host may stop *)
(* or crash there.                                                         *)
ListLocked == deciding # {} \/ \E s \in Skts : pc[s] \in InsertPcs

(* HostJoinInfoDb::removeHostJoin, with which addHostJoin begins *)
DeleteRow(u) == joinDb' = [joinDb EXCEPT ![u] = "Absent"]

(* HostJoinInfoDb::addHostJoin goes on with the INSERT, no transaction     *)
(* around the two.                                                         *)
InsertRow(u, state) == joinDb' = [joinDb EXCEPT ![u] = ToDb(state)]

(* updateJoinState does nothing without a record, or when it says so already. *)
Changes(u, state) == joinInfo[u] \notin {"Absent", state}

(* HostServerJoinMgr::updateJoinState, up to the DELETE of its save *)
UpdateJoinState(u, state) ==
    /\ ~ListLocked
    /\ IF Changes(u, state)
       THEN joinInfo' = [joinInfo EXCEPT ![u] = state] /\ DeleteRow(u)
       ELSE UNCHANGED recordVars

(* txPacket of an announce or a reply about the members to a client *)
Tell(t, users) == view' = [view EXCEPT ![t] = users]

-----------------------------------------------------------------------------
(* Connections *)

(* A client connects: a new socket, of which the host knows nothing yet. *)
Connect(s) ==
    /\ link[s] = "down"
    /\ link' = [link EXCEPT ![s] = "up"]
    /\ UNCHANGED <<threadVars, listVars, recordVars, adminVars, clientVars>>

(* The connection ends, at the client, in the network or by closeSkt from  *)
(* another thread: isConnected() is false from here on, also for a handler *)
(* of this very socket that is under way, and no broadcast reaches it.     *)
Drop(s) ==
    /\ "drop" \in Inputs
    /\ link[s] = "up"
    /\ link' = [link EXCEPT ![s] = "lost"]
    /\ todo' = [t \in Skts |-> todo[t] \ {s}]
    /\ view' = [view EXCEPT ![s] = {}]
    /\ told' = [told EXCEPT ![s] = "none"]
    /\ UNCHANGED <<pc, acc, fresh, members, listVars, recordVars, adminVars>>

(* Slip: all connections of the user are erased. *)
LostEraseUser(s) ==
    /\ link[s] = "lost" /\ At(s, "idle")
    /\ connectIds' = {t \in connectIds : Owner[t] # Owner[s]}
    /\ Goto(s, "lostAnn")
    /\ UNCHANGED <<link, acc, fresh, todo, members, memberActive, clientList,
                   recordVars, adminVars, clientVars>>

(* Slip: nothing is erased while the user has another connection. *)
LostEraseLast(s) ==
    /\ link[s] = "lost" /\ At(s, "idle")
    /\ connectIds' = IF \E t \in connectIds \ {s} : Owner[t] = Owner[s]
                     THEN connectIds ELSE connectIds \ {s}
    /\ Goto(s, "lostAnn")
    /\ UNCHANGED <<link, acc, fresh, todo, members, memberActive, clientList,
                   recordVars, adminVars, clientVars>>

(* P2PEngine::onConnectionLost, run by the rx thread when it exits: the     *)
(* connect ids of the socket are erased under the list's lock ...          *)
LostErase(s) ==
    /\ link[s] = "lost" /\ At(s, "idle")
    /\ connectIds' = connectIds \ {s}
    /\ IF s \in connectIds
       THEN Goto(s, "lostAnn") /\ UNCHANGED link
       ELSE link' = [link EXCEPT ![s] = "down"] /\ UNCHANGED pc
    /\ UNCHANGED <<acc, fresh, todo, members, memberActive, clientList,
                   recordVars, adminVars, clientVars>>

(* ... and announced, which makes MemberActiveMgr erase the user.          *)
(* PluginBaseHostService::onContactOnlineStatusChange returns at once: it  *)
(* only goes on when the user is the host itself.                          *)
LostAnnounce(s) ==
    /\ At(s, "lostAnn")
    /\ memberActive' = memberActive \ {Owner[s]}
    /\ Goto(s, "idle")
    /\ link' = [link EXCEPT ![s] = "down"]
    /\ UNCHANGED <<acc, fresh, todo, members, connectIds, clientList,
                   recordVars, adminVars, clientVars>>

-----------------------------------------------------------------------------
(* PluginBaseHostService::onPktHostJoinReq *)

(* The packet arrives; an ignored user's is dropped, and the access state  *)
(* decides how it goes on.                                                 *)
JoinReq(s) ==
    /\ link[s] = "up" /\ At(s, "idle")
    /\ told[s] = "ok" => "rejoin" \in Inputs
    /\ friend[Owner[s]] # Ignore
    /\ LET access == PluginAccessState(Owner[s])
       IN  /\ acc' = [acc EXCEPT ![s] = access]
           /\ Goto(s, CASE access = "ok"     -> "active"
                        [] access = "locked" -> "query"
                        [] OTHER             -> "inactive")
    /\ UNCHANGED <<link, fresh, todo, members, listVars, recordVars, adminVars, clientVars>>

(* A locked user the admin has accepted is as good as a permitted one. *)
QueryJoinState(s) ==
    /\ At(s, "query") /\ ~ListLocked
    /\ IF joinInfo[Owner[s]] \in Granted
       THEN acc' = [acc EXCEPT ![s] = "ok"] /\ Goto(s, "active")
       ELSE Goto(s, "inactive") /\ UNCHANGED acc
    /\ UNCHANGED <<link, fresh, todo, members, listVars, recordVars, adminVars, clientVars>>

(* MemberActiveMgr::updateMemberActive, as the access state says. *)
MarkActive(s) ==
    /\ \/ At(s, "active") /\ memberActive' = memberActive \union {Owner[s]}
       \/ At(s, "inactive") /\ memberActive' = memberActive \ {Owner[s]}
    /\ Goto(s, "state")
    /\ UNCHANGED <<link, acc, fresh, todo, members, connectIds, clientList,
                   recordVars, adminVars, clientVars>>

(* Whoever has no access learns nothing; the others are connected. *)
Decided(s) ==
    IF acc[s] \in {"ok", "locked"}
    THEN Goto(s, "conn") /\ UNCHANGED acc
    ELSE Goto(s, "idle") /\ acc' = [acc EXCEPT ![s] = "ok"]

(* updateJoinState for the sender, as its access says *)
RecordDecision(s) ==
    LET u == Owner[s]
        state == IF acc[s] = "ok" THEN "IsGranted" ELSE "Denied"
    IN  /\ At(s, "state")
        /\ UpdateJoinState(u, state)
        /\ IF Changes(u, state) THEN Goto(s, "stateIns") /\ UNCHANGED acc ELSE Decided(s)
        /\ UNCHANGED <<link, fresh, todo, members, listVars, adminVars, clientVars>>

InsertDecision(s) ==
    /\ At(s, "stateIns")
    /\ InsertRow(Owner[s], joinInfo[Owner[s]])
    /\ Decided(s)
    /\ UNCHANGED <<link, fresh, todo, members, listVars, joinInfo, adminVars, clientVars>>

(* ConnectIdListMgr::updateUserJoinedFriendships makes an anonymous user a *)
(* guest and refuses an ignored one.                                       *)
JoinedFriendship(f) == IF f = Anonymous THEN Guest ELSE f

(* addConnection adds nothing when the socket is not connected any more,   *)
(* which its caller does not look at.                                      *)
AddConnection(s) ==
    LET u == Owner[s]
    IN  /\ At(s, "conn")
        /\ IF acc[s] = "ok" /\ friend[u] = Ignore
           THEN Goto(s, "idle") /\ UNCHANGED <<connectIds, friend>>
           ELSE /\ connectIds' = IF link[s] = "up" THEN connectIds \union {s} ELSE connectIds
                /\ friend' = IF acc[s] = "ok" THEN [friend EXCEPT ![u] = JoinedFriendship(@)]
                             ELSE friend
                /\ Goto(s, IF acc[s] = "ok" THEN "info" ELSE "reqInfo")
        /\ acc' = [acc EXCEPT ![s] = "ok"]
        /\ UNCHANGED <<link, fresh, todo, members, memberActive, clientList,
                       recordVars, deciding, perm, clientVars>>

(* HostServerJoinMgr::onHostJoinedByUser: a record that is in the list is  *)
(* granted; a new one is filled but never put into the list.               *)
JoinedByUser(s) ==
    LET u == Owner[s]
    IN  /\ At(s, "info") /\ ~ListLocked
        /\ fresh' = [fresh EXCEPT ![s] = joinInfo[u] = "Absent"]
        /\ joinInfo' = IF joinInfo[u] = "Absent" THEN joinInfo
                       ELSE [joinInfo EXCEPT ![u] = "IsGranted"]
        /\ Goto(s, "save")
        /\ UNCHANGED <<link, acc, todo, members, listVars, joinDb, adminVars, clientVars>>

(* The list is unlocked before saveToDatabase locks it again, so the state *)
(* a listed record has by then is saved: the old row is deleted ...        *)
SaveJoined(s) ==
    /\ At(s, "save") /\ ~ListLocked
    /\ DeleteRow(Owner[s])
    /\ Goto(s, "saveIns")
    /\ UNCHANGED <<link, acc, fresh, todo, members, listVars, joinInfo, adminVars, clientVars>>

(* ... and the new one inserted. *)
InsertJoined(s) ==
    LET u == Owner[s]
    IN  /\ At(s, "saveIns")
        /\ InsertRow(u, IF fresh[s] THEN "IsGranted" ELSE joinInfo[u])
        /\ fresh' = [fresh EXCEPT ![s] = FALSE]
        /\ Goto(s, "active2")
        /\ UNCHANGED <<link, acc, todo, members, listVars, joinInfo, adminVars, clientVars>>

(* Slip: a user who is active already is not added to the client list. *)
MarkNewActive(s) ==
    /\ At(s, "active2")
    /\ memberActive' = memberActive \union {Owner[s]}
    /\ Goto(s, IF Owner[s] \in memberActive THEN "snap1" ELSE "list")
    /\ UNCHANGED <<link, acc, fresh, todo, members, connectIds, clientList,
                   recordVars, adminVars, clientVars>>

(* HostServerMgr::onUserJoinedHost marks the user active once more ... *)
MarkJoinedActive(s) ==
    /\ At(s, "active2")
    /\ memberActive' = memberActive \union {Owner[s]}
    /\ Goto(s, "list")
    /\ UNCHANGED <<link, acc, fresh, todo, members, connectIds, clientList,
                   recordVars, adminVars, clientVars>>

(* ... and adds it to the client list, before it tells anybody. *)
AddClient(s) ==
    /\ At(s, "list")
    /\ clientList' = clientList \union {Owner[s]}
    /\ Goto(s, "snap1")
    /\ UNCHANGED <<link, acc, fresh, todo, members, connectIds, memberActive,
                   recordVars, adminVars, clientVars>>

(* PluginBaseMultimedia::broadcastToClients copies the connect ids under   *)
(* their lock: of the new member's announce (snap1), of the reply (snap2)  *)
(* and of a leave reply (lvSnap) ...                                       *)
BroadcastSnapshot(s) ==
    /\ \/ At(s, "snap1")  /\ Goto(s, "send1")
       \/ At(s, "snap2")  /\ Goto(s, "send2")
       \/ At(s, "lvSnap") /\ Goto(s, "lvSend")
    /\ todo' = [todo EXCEPT ![s] = ClientsExcept(Owner[s])]
    /\ UNCHANGED <<link, acc, fresh, members, listVars, recordVars, adminVars, clientVars>>

(* Slip: the broadcast starts again after each send. *)
BroadcastRepeat(s) ==
    /\ \E t \in todo[s] :
        \/ pc[s] \in {"send1", "send2"} /\ Tell(t, view[t] \union {Owner[s]})
        \/ At(s, "lvSend")              /\ Tell(t, view[t] \ {Owner[s]})
    /\ UNCHANGED <<link, threadVars, listVars, recordVars, adminVars, told>>

(* ... and sends to one after the other without it.  A client that gets    *)
(* the announce or the join reply of a user adds him to the members it     *)
(* sees, one that gets his leave reply removes him.                        *)
BroadcastSend(s) ==
    /\ \E t \in todo[s] :
        /\ todo' = [todo EXCEPT ![s] = @ \ {t}]
        /\ \/ pc[s] \in {"send1", "send2"} /\ Tell(t, view[t] \union {Owner[s]})
           \/ At(s, "lvSend")              /\ Tell(t, view[t] \ {Owner[s]})
    /\ UNCHANGED <<link, pc, acc, fresh, members, listVars, recordVars, adminVars, told>>

(* The announce is out.  onUserJoined returns whether the socket is still  *)
(* connected, and sendMemberListToClient copies the client list.           *)
MemberListSnapshot(s) ==
    /\ At(s, "send1") /\ todo[s] = {}
    /\ IF link[s] = "up"
       THEN Goto(s, "members") /\ members' = [members EXCEPT ![s] = clientList \ {Owner[s]}]
       ELSE Goto(s, "idle") /\ UNCHANGED members
    /\ UNCHANGED <<link, acc, fresh, todo, listVars, recordVars, adminVars, clientVars>>

(* Slip: the loop ends when the socket is connected, after the first send. *)
SendFirstMember(s) ==
    /\ At(s, "members")
    /\ \E v \in members[s] :
        /\ view' = IF link[s] = "up" THEN [view EXCEPT ![s] = @ \union {v}] ELSE view
        /\ members' = [members EXCEPT ![s] = IF link[s] = "up" THEN {} ELSE @ \ {v}]
    /\ UNCHANGED <<link, pc, acc, fresh, todo, listVars, recordVars, adminVars, told>>

(* Slip: a member that could not be sent is tried again. *)
RetryMember(s) ==
    /\ At(s, "members")
    /\ \E v \in members[s] : link[s] = "up" /\ Tell(s, view[s] \union {v})
    /\ members' = [members EXCEPT ![s] = @ \ view'[s]]
    /\ UNCHANGED <<link, pc, acc, fresh, todo, listVars, recordVars, adminVars, told>>

(* sendMemberListToClient: one member, until a send fails. *)
SendMember(s) ==
    /\ At(s, "members")
    /\ \E v \in members[s] :
        IF link[s] = "up"
        THEN /\ Tell(s, view[s] \union {v})
             /\ members' = [members EXCEPT ![s] = @ \ {v}]
             /\ UNCHANGED pc
        ELSE /\ members' = [members EXCEPT ![s] = {}]
             /\ Goto(s, "idle")
             /\ UNCHANGED view
    /\ UNCHANGED <<link, acc, fresh, todo, listVars, recordVars, adminVars, told>>

MembersSent(s) ==
    /\ At(s, "members") /\ members[s] = {}
    /\ Goto(s, IF link[s] = "up" THEN "reply" ELSE "idle")
    /\ UNCHANGED <<link, acc, fresh, todo, members, listVars, recordVars, adminVars, clientVars>>

(* The join reply; only when it could be sent do the others get it too. *)
SendJoinReply(s) ==
    /\ At(s, "reply")
    /\ IF link[s] = "up"
       THEN told' = [told EXCEPT ![s] = "ok"] /\ Goto(s, "snap2")
       ELSE Goto(s, "idle") /\ UNCHANGED told
    /\ UNCHANGED <<link, acc, fresh, todo, members, listVars, recordVars, adminVars, view>>

JoinDone(s) ==
    /\ At(s, "send2") /\ todo[s] = {}
    /\ Goto(s, "idle")
    /\ UNCHANGED <<link, acc, fresh, todo, members, listVars, recordVars, adminVars, clientVars>>

(* A locked user: HostServerJoinMgr::onHostJoinRequestedByUser records the *)
(* request and saves it under one lock, row deleted ...                    *)
RecordRequest(s) ==
    LET u == Owner[s]
    IN  /\ At(s, "reqInfo") /\ ~ListLocked
        /\ joinInfo' = [joinInfo EXCEPT ![u] = "Requested"]
        /\ DeleteRow(u)
        /\ Goto(s, "reqIns")
        /\ UNCHANGED <<link, acc, fresh, todo, members, listVars, adminVars, clientVars>>

(* ... and inserted ... *)
InsertRequest(s) ==
    /\ At(s, "reqIns")
    /\ InsertRow(Owner[s], joinInfo[Owner[s]])
    /\ Goto(s, "reqReply")
    /\ UNCHANGED <<link, acc, fresh, todo, members, listVars, joinInfo, adminVars, clientVars>>

(* ... and only this client gets the reply. *)
SendLockedReply(s) ==
    /\ At(s, "reqReply")
    /\ told' = IF link[s] = "up" THEN [told EXCEPT ![s] = "locked"] ELSE told
    /\ Goto(s, "idle")
    /\ UNCHANGED <<link, acc, fresh, todo, members, listVars, recordVars, adminVars, view>>

-----------------------------------------------------------------------------
(* PluginBaseHostService::onPktHostLeaveReq and onPktHostUnJoinReq *)

(* The others are told of the leave when the user has access; of locked    *)
(* users only those whose record says "was granted" count here.            *)
LeaveReq(s) ==
    LET u == Owner[s]
        access == PluginAccessState(u)
    IN  /\ "leave" \in Inputs
        /\ link[s] = "up" /\ At(s, "idle")
        /\ access = "locked" => ~ListLocked
        /\ told' = [told EXCEPT ![s] = "none"]
        /\ view' = [view EXCEPT ![s] = {}]
        /\ Goto(s, IF \/ access = "ok"
                      \/ access = "locked" /\ joinInfo[u] = "WasGranted"
                   THEN "lvSnap" ELSE "lvList")
        /\ UNCHANGED <<link, acc, fresh, todo, members, listVars, recordVars, adminVars>>

LeaveTold(s) ==
    /\ At(s, "lvSend") /\ todo[s] = {}
    /\ Goto(s, "lvList")
    /\ UNCHANGED <<link, acc, fresh, todo, members, listVars, recordVars, adminVars, clientVars>>

(* HostServerMgr::onUserLeftHost *)
RemoveClient(s) ==
    /\ At(s, "lvList")
    /\ clientList' = clientList \ {Owner[s]}
    /\ Goto(s, "lvInfo")
    /\ UNCHANGED <<link, acc, fresh, todo, members, connectIds, memberActive,
                   recordVars, adminVars, clientVars>>

(* An unjoin broadcasts a reply to which no client plugin reacts, and goes *)
(* on with HostServerMgr::onUserUnJoinedHost, which leaves the client list *)
(* alone.                                                                  *)
UnJoinReq(s) ==
    /\ "unJoin" \in Inputs
    /\ link[s] = "up" /\ At(s, "idle")
    /\ told' = [told EXCEPT ![s] = "none"]
    /\ view' = [view EXCEPT ![s] = {}]
    /\ Goto(s, "unInfo")
    /\ UNCHANGED <<link, acc, fresh, todo, members, listVars, recordVars, adminVars>>

(* Both end in HostServerJoinMgr::onHostLeftByUser, which saves nothing. *)
LeftByUser(s) ==
    LET u == Owner[s]
    IN  /\ \/ At(s, "lvInfo") /\ Goto(s, "lvConn")
           \/ At(s, "unInfo") /\ Goto(s, "unConn")
        /\ ~ListLocked
        /\ joinInfo' = IF joinInfo[u] = "Absent" THEN joinInfo
                       ELSE [joinInfo EXCEPT ![u] = "LeaveHost"]
        /\ UNCHANGED <<link, acc, fresh, todo, members, listVars, joinDb, adminVars, clientVars>>

(* ConnectIdListMgr::removeConnection: erased under the lock ... *)
RemoveConnection(s) ==
    /\ connectIds' = connectIds \ {s}
    /\ \/ At(s, "lvConn") /\ Goto(s, IF s \in connectIds THEN "lvAnn" ELSE "idle")
       \/ At(s, "unConn") /\ Goto(s, IF s \in connectIds THEN "unAnn" ELSE "idle")
    /\ UNCHANGED <<link, acc, fresh, todo, members, memberActive, clientList,
                   recordVars, adminVars, clientVars>>

(* ... then announced to MemberActiveMgr. *)
AnnounceRemoved(s) ==
    /\ pc[s] \in {"lvAnn", "unAnn"}
    /\ memberActive' = memberActive \ {Owner[s]}
    /\ Goto(s, "idle")
    /\ UNCHANGED <<link, acc, fresh, todo, members, connectIds, clientList,
                   recordVars, adminVars, clientVars>>

-----------------------------------------------------------------------------
(* The admin, and a restart of the host *)

(* GuiHostedByMeJoinMgr::joinAccepted and joinRejected, up to the DELETE *)
AcceptJoin(u) ==
    /\ "decide" \in Inputs
    /\ joinInfo[u] \in {"Requested", "Denied"}
    /\ UpdateJoinState(u, "IsGranted")
    /\ deciding' = {u}
    /\ UNCHANGED <<link, threadVars, listVars, friend, perm, clientVars>>

RejectJoin(u) ==
    /\ "decide" \in Inputs
    /\ joinInfo[u] \in Granted \union {"Requested"}
    /\ UpdateJoinState(u, "Denied")
    /\ deciding' = {u}
    /\ UNCHANGED <<link, threadVars, listVars, friend, perm, clientVars>>

(* The row of the decision is inserted; then the admin's thread is free. *)
InsertDecided(u) ==
    /\ u \in deciding
    /\ InsertRow(u, joinInfo[u])
    /\ deciding' = {}
    /\ UNCHANGED <<link, threadVars, listVars, joinInfo, friend, perm, clientVars>>

SetPluginPermission ==
    /\ deciding = {}
    /\ perm' \in PermLevels \ {perm}
    /\ UNCHANGED <<link, threadVars, listVars, recordVars, deciding, friend, clientVars>>

SetFriendship(u) ==
    /\ deciding = {}
    /\ \E f \in FriendLevels \ {friend[u]} : friend' = [friend EXCEPT ![u] = f]
    /\ UNCHANGED <<link, threadVars, listVars, recordVars, deciding, perm, clientVars>>

(* The host stops or crashes at any step and starts again: only the        *)
(* database, the friendships and the permission are left, and              *)
(* HostServerJoinMgr::fromGuiUserLoggedOn loads the records.               *)
Restart ==
    /\ "restart" \in Inputs
    /\ link' = [s \in Skts |-> "down"]
    /\ pc' = [s \in Skts |-> "idle"]
    /\ acc' = [s \in Skts |-> "ok"]
    /\ fresh' = [s \in Skts |-> FALSE]
    /\ todo' = [s \in Skts |-> {}]
    /\ members' = [s \in Skts |-> {}]
    /\ connectIds' = {}
    /\ memberActive' = {}
    /\ clientList' = {}
    /\ joinInfo' = joinDb
    /\ deciding' = {}
    /\ view' = [s \in Skts |-> {}]
    /\ told' = [s \in Skts |-> "none"]
    /\ UNCHANGED <<joinDb, friend, perm>>

-----------------------------------------------------------------------------
(* The rx thread of a socket: what it does on its own account,             *)
(* taking the list's lock where it may have to wait for it ...              *)
LockStep(s) ==
    \/ QueryJoinState(s) \/ RecordDecision(s) \/ JoinedByUser(s) \/ SaveJoined(s)
    \/ RecordRequest(s) \/ LeftByUser(s)

RxStep(s) ==
    \/ LostErase(s) \/ LostAnnounce(s)
    \/ LockStep(s) \/ MarkActive(s) \/ InsertDecision(s) \/ AddConnection(s)
    \/ InsertJoined(s) \/ MarkJoinedActive(s) \/ AddClient(s)
    \/ BroadcastSnapshot(s) \/ BroadcastSend(s)
    \/ MemberListSnapshot(s) \/ SendMember(s) \/ MembersSent(s)
    \/ SendJoinReply(s) \/ JoinDone(s)
    \/ InsertRequest(s) \/ SendLockedReply(s)
    \/ LeaveTold(s) \/ RemoveClient(s)
    \/ RemoveConnection(s) \/ AnnounceRemoved(s)

(* ... and what the client and the network do to it. *)
ClientStep(s) == Connect(s) \/ Drop(s) \/ JoinReq(s) \/ LeaveReq(s) \/ UnJoinReq(s)

AdminStep ==
    \/ SetPluginPermission
    \/ \E u \in Users : AcceptJoin(u) \/ RejectJoin(u) \/ InsertDecided(u) \/ SetFriendship(u)

Next ==
    \/ \E s \in Skts : RxStep(s) \/ ClientStep(s)
    \/ AdminStep
    \/ Restart

Spec == Init /\ [][Next]_vars

(* The operating system runs every thread, and who waits for the list's    *)
(* lock is not passed over for ever when it is released again and again.   *)
FairSpec ==
    /\ Spec
    /\ \A s \in Skts : WF_vars(RxStep(s)) /\ SF_vars(LockStep(s))
    /\ \A u \in Users : WF_vars(InsertDecided(u))

-----------------------------------------------------------------------------
(* Properties *)

OneSocketPerUser == \A s, t \in Skts : Owner[s] = Owner[t] => s = t

(* A client that was told it joined, and has not left since. *)
Joined(s) == link[s] = "up" /\ told[s] = "ok"

(* Whatever the order and the interleaving of their joins, two clients     *)
(* that both have their join reply see each other: the one joined, or was  *)
(* listed, before the other's member list was copied, or it gets the       *)
(* other's announce (onUserJoinedHost, sendMemberListToClient).            *)
MutualVisibility ==
    \A s, t \in Skts :
        Joined(s) /\ Joined(t) /\ Owner[s] # Owner[t] => Owner[t] \in view[s]

(* The members as the abstract Roster has them: the users with a join      *)
(* reply, and of those the ones each was told of.                          *)
JoinedSkts  == {s \in Skts : Joined(s)}
JoinedUsers == {Owner[s] : s \in JoinedSkts}
SeenBy(u) ==
    (JoinedUsers \ {u}) \intersect UNION {view[s] : s \in {t \in JoinedSkts : Owner[t] = u}}

AbstractRoster ==
    INSTANCE Roster WITH roster <- JoinedUsers, sees <- [u \in Users |-> SeenBy(u)]

(* However the ten locked sections of a join interleave with those of      *)
(* other joins, with leaves, lost connections and restarts, to the clients *)
(* a join is one step: in it the new member and all others get to see each *)
(* other (onPktHostJoinReq and what it calls, up to the reply).            *)
JoinsAreAtomic == AbstractRoster!Spec

(* The sockets as their life cycle promises them: onConnectionLost runs    *)
(* after the handlers of the packets of a socket, and ends what the host   *)
(* does with it (VxSktBaseReceiveVxThreadFunc, P2PEngine::onConnectionLost). *)
AbstractLinks ==
    INSTANCE Link WITH handling <- {s \in Skts : pc[s] \notin {"idle", "lostAnn"}}

LinksAreUsed == AbstractLinks!Spec

(* A client with a join reply is where every broadcast and every later     *)
(* member list finds it: its connection among the connect ids and its user *)
(* in the client list (onPktHostJoinReq replies last).                     *)
JoinedIsMember ==
    \A s \in Skts : Joined(s) => s \in connectIds /\ Owner[s] \in clientList

(* Even when a connection ends while its join is under way, no connect id  *)
(* of it is left when onConnectionLost is done (ConnectIdListMgr adds only *)
(* connected sockets, on the thread that later erases them).               *)
NoStaleConnectId == \A s \in Skts : link[s] = "down" => s \notin connectIds

(* A save of the user's record is under way: onHostJoinedByUser has the    *)
(* list updated and not yet saved, or the row is deleted and not inserted. *)
Saving(u) ==
    \/ u \in deciding
    \/ \E s \in Skts : Owner[s] = u /\ pc[s] \in {"save"} \union InsertPcs

(* The host knows of the user, and a restart would know nothing of him. *)
Unbacked(u) ==
    /\ joinDb[u] = "Absent"
    /\ joinInfo[u] # "Absent" \/ \E s \in Skts : Owner[s] = u /\ told[s] = "ok"

(* Unless a save of his record is under way, a restart finds of each user  *)
(* what the list says: except for one who left, whose record is kept.  A   *)
(* joined user without a listed record is granted in the database, and a   *)
(* locked user's request is there for the admin.  And a crash in the midst *)
(* of saves loses the record of one user at most, since they hold the      *)
(* list's lock from DELETE to INSERT (HostServerJoinMgr::saveToDatabase).  *)
RecordDurable ==
    /\ \A s \in Skts :
        LET u == Owner[s]
        IN  ~Saving(u) =>
               /\ joinInfo[u] \in {"Absent", "LeaveHost"} \/ joinDb[u] = ToDb(joinInfo[u])
               /\ told[s] = "ok" /\ joinInfo[u] = "Absent" => joinDb[u] = "WasGranted"
               /\ told[s] = "locked" => joinInfo[u] # "Absent" /\ joinDb[u] # "Absent"
    /\ \A u, v \in Users : Unbacked(u) /\ Unbacked(v) => u = v

(* A client that has the reply to its join or its request is known after a *)
(* restart.  It is not when the host stops between the DELETE and the      *)
(* INSERT of a later save (HostJoinInfoDb::addHostJoin).                   *)
RepliedIsKnown ==
    [][Restart => \A s \in Skts : told[s] # "none" => joinInfo'[Owner[s]] # "Absent"]_vars

(* A user is only shown as a member to clients while he is in the host's   *)
(* client list.                                                            *)
ShownAreClients ==
    \A s \in Skts : Joined(s) => view[s] \subseteq clientList

(* No rx thread works for a user. *)
AtRest(u) == \A s \in Skts : Owner[s] = u => pc[s] = "idle" /\ link[s] # "lost"

(* A client that was told it joined is active with the host when no rx     *)
(* thread works for its user (MemberActiveMgr::callbackConnectionStatusChange). *)
JoinedIsActive == \A s \in Skts : Joined(s) /\ AtRest(Owner[s]) => Owner[s] \in memberActive

(* The request of a locked user waits until the admin accepts it, as long  *)
(* as neither the permission nor the friendship changes.                   *)
RequestAwaitsAdmin ==
    [][\A u \in Users : joinInfo[u] = "Requested" /\ joinInfo'[u] = "IsGranted"
                            => AcceptJoin(u)]_vars

(* Only the admin takes back what the admin granted: no join request of a  *)
(* locked user overwrites the grant.                                       *)
GrantIsKept ==
    [][\A u \in Users : joinInfo[u] = "IsGranted" /\ joinInfo'[u] \in {"Requested", "Denied"}
                            => RejectJoin(u)]_vars

(* A permitted user's join request is answered, unless its connection is   *)
(* lost: no broadcast or member list of the join goes on for ever.         *)
JoinAnswered == \A s \in Skts : At(s, "active") ~> (told[s] = "ok" \/ link[s] # "up")

(* A leave request that has to tell the others first still ends with the   *)
(* connection erased, or with the connection itself lost.                  *)
LeaveDone == \A s \in Skts : At(s, "lvSnap") ~> (At(s, "idle") /\ s \notin connectIds)

(* Wherever its handler stands when a connection is lost, the handler ends *)
(* and onConnectionLost is done: no socket hangs half closed.              *)
LostForgotten == \A s \in Skts : link[s] = "lost" ~> link[s] = "down"
=============================================================================
