# Verification of NoLimitConnect: hosts, connections, offers and transfers

NoLimitConnect is a peer-to-peer program: every node runs an engine
(`src/libs/libptopengine`) over sockets (`src/libs/NetLib`), packets
(`src/libs/PktLib`) and threads (`src/libs/CoreLib`), with a Qt GUI on top
(`src/nolimitgui`). A node can *host* a group, a chat room or a random connect
service, which other nodes join as clients. This directory holds TLA+ models of
that core, the TLC runs that check them, and TLAPS proofs about them. Paths
below are relative to `src/libs/libptopengine` unless they start with `src/`.

## 1. The system

### Threads

* Each connected socket has an **rx thread** (`VxSktBase`). It reads packets and
  runs the handler of each to its end before the next; when the connection ends
  it runs `P2PEngine::onConnectionLost` and exits.
* The **GUI thread** calls the `fromGui...` functions and the GUI managers.
* A **timer thread** calls `onOncePerSecond` and the like.

All state is shared. It lives in lists, each behind a mutex of its own. A
handler locks and unlocks many of them in turn, so that handlers of different
sockets interleave between any two locked sections. Callbacks (announces to
`...CallbackInterface` clients) run on the thread that made the change, mostly
after its lock is released.

### Components, their state and what makes them correct

| component | state | operations | hard parts | correct when |
|---|---|---|---|---|
| Host service (`Plugins/PluginBaseHostService.cpp`) | none of its own; drives the next five | join, leave, unjoin requests | a handler spans ten locked sections, its socket may die at each | every request is answered or its connection is lost; joined clients see each other |
| Host server manager (`Plugins/HostServerMgr.cpp`) | client list | add, remove, member list, paged user list, announcement to the network host | list copied before it is sent | it holds who has joined and not left |
| Join records (`HostServerJoinMgr/`) | list of records, database | request, join, leave, accept, reject, load | list and database under two locks | a restart finds what was decided, or loses no more than the one record that is just being written |
| Connect ids (`ConnectIdListMgr/`) | who is connected to whom with which socket | add, remove, connection lost, snapshot | loss of one socket while another of the user joins | a connect id has a live socket |
| Active members (`Membership/MemberActiveMgr.cpp`) | active (user, host) pairs | mark, erase on loss | keyed by user, announced by socket | active means connected |
| Broadcast (`Plugins/PluginBaseMultimedia.cpp`) | none | send to all clients | recipients change while it sends | it ends and reaches all it must |
| Permission and friendship (`Plugins/HostBaseMgr.cpp`, GUI calls) | permission, friendships | access state, admin's changes | read and used several locks later | nobody joins without permission or acceptance |
| Host client (`Plugins/HostClientMgr.cpp`) | client's own view | replies, announces | order of announces | it shows who is there |
| Socket life cycle (`src/libs/NetLib`) | sockets, callback reason, threads, list of sockets to delete | accept, connect, close, rx exit, deletion | close by two threads, a thread waiting for the end of another with a lock held | `onConnectionLost` runs once for each connection, handles are closed, nothing in use is deleted |
| Member confirmation (`Membership/MemberConfirmMgr.cpp`) | queue of sockets to confirm | add, tick, remove | size read without the lock | each entry is sent or dropped once |
| Connections and handshakes (`Connections/`) | connected list, handshakes | connect, answer, done | answer before the handshake is listed, one answer taken for all sockets | a request is told of its connection, and the connection is let go when nobody needs it |
| Relay (`Relay/`, `P2PEngineRelay.cpp`) | none | forward packets of joined members | uses active members and records | only members are relayed |
| User joins (`UserJoinMgr/`) | client's own records | request, reply, leave | reply after leave | record agrees with the host's last reply |
| Hosted lists, groupie lists (`HostListMgr/`, `GroupieListMgr/`) | caches of announces | update, search pages | pages over a changing list | a search returns each match |
| Send queue (`SendQueue/`) | assets to send, database | queue, user online, sent, failed | list and database, two online users | an asset goes to its addressee until sent |
| Random connect (`RandConnect/`) | selections, offers | offer, accept, reject, cancel, lost | late or early terminal actions | each offer ends for both sides, and an acceptance that nothing crosses reaches it at both |
| Asset, file and offer transfer (`AssetBase/`, `Plugins/File*`, `OfferBase/`) | sessions, queues | chunks, retry, cancel | lost replies, two directions | complete or failed at both ends, and what is complete is the whole file |
| Plugin sessions (`Plugins/PluginSessionMgr.cpp`, `PluginBase.cpp`) | sessions | offer, start, end | both ends start | one session |
| Network services (`NetServices/`, `NetworkMonitor/`, `Network/`) | actions, status | port test, host queries | timeouts and late answers | status settles |
| User identities (`BigListLib/`, `IdentListMgrs/`, `User/`) | identities, friendships | update, save | stale copies | friendship survives a restart |

Packet layouts, media, the firewall library, thread primitives and the GUI's
presentation are not modelled: they are data formats, I/O, or calls of the
operating system. Everything else under `src/libs` (ffmpeg, the player, webrtc
and so on) is third-party code.

The places where this can go wrong are listed with their lines under `hazards`
in `PROJECT.json`, each with the properties that watch it.

## 2. Modules

| module | models | instances, proofs |
|---|---|---|
| `HostService` | the host side of a user host and what its clients see | `MCHostService`, `HostServiceProof` |
| `Roster` | the promise of a host to its members, without handlers, locks and lists | refined by `HostService` (`JoinsAreAtomic`) |
| `SktLifecycle` | the sockets of a socket manager, from accept or connect to deletion | `MCSktLifecycle`, `SktLifecycleProof`, `SktLinkProof` |
| `Link` | what sockets promise to whoever handles their packets, without threads, lists and locks | refined by `SktLifecycle` (`LinksAreKept`) and by `HostService` (`LinksAreUsed`) |
| `ConnectionMgr` | connections made for one request: handshake, telling, letting go | `MCConnectionMgr`, `ConnectionMgrProof` |
| `SendQueue` | the messenger's queue of messages to users who are not reachable | `MCSendQueue`, `SendQueueProof` |
| `AssetXfer` | the transfer of one file between two engines | `MCAssetXfer`, `AssetXferProof` |
| `RandConnect` | the offers of a random connect host's members to each other | `MCRandConnect`, `RandConnectProof` |

`SktLifecycle` lies below the others. Its promise, that a connection which is not
closed from two sides at once is reported as lost once, is what `Drop` and
`LostErase` of `HostService`, `Drop` of `ConnectionMgr` and `SLost`, `RLost` of
`AssetXfer` take for granted. The rest of what it promises is `Link`: a socket handles one
packet at a time, is reported as lost only when it is no longer connected and its last
handler has ended, and handles nothing after that. `SktLifecycle` implements it with
`link` and `handling` read off its threads and flags, and `HostService` with its own
`link` and the sockets whose handler is under way, so that both sides of the interface
are shown to agree on it. A host begins a handler only while a socket is connected;
`Link` also allows one after a drop, because data may still be there to be read.
`HostService` and `Roster` are composed by a refinement
mapping: `roster` are the users with a joined client, `sees` what these
clients show, and every step of the host is a step of the roster or none.
`SendQueue` treats a transfer as one exchange; `AssetXfer` opens it up. Otherwise
the models share no state: a host does not use the messenger's queue, an offer does
not look at join records, and a one-time connection does not enter a host.

Definitions whose comment begins with "Slip" are no part of the behaviour. Each
is a mistaken version of the definition after it, used to show that a property
fails when the code has that mistake.

### `HostService`

One variable per piece of shared state, named after it (the comment at each
gives the code's name), plus, for each socket `s`, what its rx thread holds in
local variables: `pc[s]` is the step its handler stands at, `acc[s]` the access
state in the reply, `fresh[s]` the new `HostJoinInfo`, `todo[s]` the copied
connections of a broadcast, `members[s]` the copied client list. `view[s]` and
`told[s]` are the client's side: the members it was told of, its last join reply.

Every section of a handler between two locks is an action. A join of a permitted
user is

    JoinReq, MarkActive, RecordDecision, InsertDecision,    (onPktHostJoinReq)
    AddConnection,
    JoinedByUser, SaveJoined, InsertJoined,                 (onHostJoinedByUser)
    MarkJoinedActive, AddClient,                            (onUserJoinedHost)
    BroadcastSnapshot, BroadcastSend*,                      (the announce)
    MemberListSnapshot, SendMember*, MembersSent,           (sendMemberListToClient)
    SendJoinReply, BroadcastSnapshot, BroadcastSend*, JoinDone

and a locked one goes through `QueryJoinState` first and, unless the admin has
accepted it, ends with `AddConnection, RecordRequest, InsertRequest, SendLockedReply`
(`InsertDecision` only when the decision changes a record). A leave is
`LeaveReq`, its broadcast, `LeaveTold, RemoveClient, LeftByUser,
RemoveConnection, AnnounceRemoved`; an unjoin is `UnJoinReq, LeftByUser,
RemoveConnection, AnnounceRemoved`. The loss of a connection is `Drop` (from then
on `isConnected()` is false), then, when the handler has ended, `LostErase` and
`LostAnnounce`. The admin's `AcceptJoin` and `RejectJoin`, each with `InsertDecided`,
`SetPluginPermission` and `SetFriendship` are steps of the GUI thread. A `Restart` may
happen at any step.

A save is two steps, as in `HostJoinInfoDb::addHostJoin`: the DELETE of the old row
(`DeleteRow`; line 109) and the INSERT of the new one (`InsertRow`; line 132), each under
the database's lock, with no transaction around them. A restart between the two finds no
row. `HostServerJoinMgr` keeps its list locked meanwhile: `ListLocked` holds while
`deciding` names a user (the GUI thread saves a decision) or the thread of a socket is at
one of `InsertPcs`, and whatever reads or changes the list waits (`LockStep`).

`Inputs` says which of the optional inputs an instance has: `rejoin` (a joined
client asks again), `leave`, `unJoin`, `drop`, `decide` (the admin accepts or
rejects), `restart`. It keeps instances small; the theorems hold for all of them.

Abstractions, each of which a reader should know:

* One host type, hence one plugin; the host itself, always a member, is left out.
* The reads behind one access decision (permission, friendship, `isHosted`) are
  one step.
* `GroupieListMgr`'s copy of the records and last-session times are left out.
* A DELETE or INSERT that is executed succeeds, and is there after a restart.
* Connect ids of relayed connections are left out; with `isUserOnline`, which
  never shrinks, a listed member always counts as online.
* A client has not ignored the host, and the identity of a user who joins is in
  the big list (the announce that precedes every join put it there).
* A packet handed to a connected socket reaches the client, unless the connection
  is lost; then `view` and `told` are those of a client that is gone.
* Local variables of a thread return to their initial value when no longer read,
  and `todo` holds connected sockets only (a send to another one does nothing).

### `SktLifecycle`

`pc[t]` is where a thread stands: an rx thread (named after its socket) in
`VxSktBaseReceiveVxThreadFunc`, any thread in `closeSkt` and what it calls, of
`target[t]`. One variable per field that two threads share: `sktHandle`, `connected`,
`reason` (the callback reason), `aborted`, `fromRx`, `inUse`, the list the socket is
in and the manager's `lock`. `Accept`, `Connect`, `AddSkt` make a socket; the `Rx...`
actions are the steps of its thread; `Close...`, `LockMgr`, `MoveToEraseList`,
`KillForever`, `KillThread` those of `closeSkt`; `DoSktDeleteCleanup` deletes. `Inputs`:
the other end closes (`remote`), the own rx thread closes its socket (`own`) or another
one (`cross`), a thread without socket closes (`other`), a caller passes
`sktMgrLocked` wrongly (`unlocked`), deletion (`delete`).

Not modelled: UDP, errors apart from other reasons to close, closing all sockets at
shutdown, a failed accept before the thread starts, the iteration of a list while
another thread changes it without the lock, that flags of a thread are not atomic. The
Linux build is assumed, in which `threadAboutToExit` ends the thread.

### `ConnectionMgr`

A socket is named by the session it was opened for. `caller[s]` is the thread that
made the request, in `directConnectTo` (`Connect`, `SendMyPktAnnounce`,
`AddHandshake`, and three ways to return); `rx[s]` is the rx thread that reads the
answer: it takes all handshakes (`OnFirstPktAnnounce`), enters them in its own info
(`AddConnectReasons`), and for each tells the requester, if its socket is still
connected (`TellOnce` for an announcement, `TellSearch` for a search) or lost
(`LostAlready`), who is done with it (`RemoveConnectedReason`) at once or with
the last reply (`SearchCompleted`). A connection may not come about, may be lost, and
its handshake may be too old (`Unreachable`, `Lossy`, `Slow`).

Abstractions: temporary reasons only (the reasons of port tests and network host
queries have the same shape); one socket per request; a peer answers an announcement
on the socket it came by; the checks of `connectTo` and of sending are one early
return each; the locked sections of `m_AnnList` and of the handshake list are
merged with the step before or after them; the info of a lost socket stays until a
lookup purges it, which is left out; the peer of an info is the one the socket was
opened to; the pages of a search reply count as its last.

### `RandConnect`

`offers[m]` is the engine's list (`RandConnectMgr`), `pending[m]` the GUI's
(`GuiRandConnectMgr`), `menu[m]` the menu that is open. A user offers (`Offer`),
answers through the menu (`OpenMenu`, `Respond`) or the list (`RespondInList`); the
GUI's timer ends an offer (`OfferTimeout`). The packet travels up (`uplink`), is
broadcast by the member's rx thread at the host (`BroadcastStart`, `BroadcastSend`, with
`todo` the copied connections) and down (`downlink`) to every member, who updates both
lists (`OnPktRandConnectReply`). `Inputs`: `cancel`, `list` (answers from the list),
`refuse` (launches are refused), `drop`, `rejoin`.

Who accepts in the list starts the session at once (`LaunchInList`), while the offer is
still pending in `GuiRandConnectMgr`; when the acceptance comes back to a party that has
the offer pending, the offer is erased (`acted`) and the session launched
(`LaunchAccepted`), there for the second time. With `refuse` either launch may fail: a
session applet is open with another peer, the peer is not a known user, or the session
does not begin. `launched` are the sessions that were started; one that runs already
goes on (`AppletPeerBase::isOfferMatch`).

Abstractions: the sends of a broadcast may come in any order; engine and GUI of a
member update in one step; of several offers between the same two any may be taken
for the first; a member joins again when the threads of its old connection are done;
each member's timer follows its own clock; selections are left out, and so is the
ordinary offer reply with which the list answers an offer that is no longer pending or
cannot be sent (who accepts such an offer may start a session or not); when a launch
is refused is left open, since it depends on what else the user does; the members'
permission is given; a packet carries its sender. `MaxAnswers` bounds how often users answer. A
bystander whose request comes after its terminal action keeps the offer for good.

### `SendQueue`

`sendList` and its order `ahead` are `m_SendList`, `sendDb` is the table
`send_queue`, `assetList` and `assetDb` are the assets an entry refers to,
`assetSendQue` is `AssetBaseXferMgr`'s second queue, in memory only. An entry is
a pair of user and message, "waiting" (queued by the user) or "failed" (a send
failed). The rx thread of a user `u` runs

    PktAnnReceived   the loop of sendNextAsset, under the list's lock (Scan)
    SendFoundOk/Fails  fromGuiSendAsset of what it found, without the lock
    Purge              the rows of the entries it erased, under the lock again

with `found[u]`, `dead[u]` its local variables (`toRemoveList`). Replies run on the
same thread: a message settles with its reply (`TextReplyOk`, `ReplyError`); a file
with its last chunk (`FileSent`), a refusal of the receiver (`FileCanceled`) or an
error of its own (`FileBroken`), and a file that ended goes on with the queue in
memory (`SendQued...`, `NoneQued`) and with `sendNextAsset` (`ReadyToSend`). The GUI
thread queues in two steps (`QueueAsset`, `AddQueuedAsset`), removes in two
(`RemoveQueued`, `RemoveAsset`), and sends. At startup the queue and the assets are
loaded by two threads (`UserLoggedOn`, `AssetMgrStartup`). `Restart` may fall between
any two steps. `Inputs` selects what GUI and network do in an instance.

`addressed` and `owed` are history: to whom the user wrote what, and what he was
told is queued.

Abstractions:

* Only the messenger uses the queue. Each user has one rx thread and each message
  one addressee (the GUI makes one asset for each).
* Requests under way for the same pair count once, however often it was sent.
* The chunks of a file between the first and the last are left out (`AssetXfer` has
  them); so are downloads, and the send state shown by the GUI.
* A file whose request gets out but whose first chunk does not is like one that
  could not be opened, but for the session that stays and gets no answer.
* A query without `ORDER BY` may return the rows in any order (`Orders`).
* Writes to the databases succeed, but for the insert its primary key refuses
  (`updateSendQueueInfo`); an asset that is written before the assets are loaded
  is there when they are.

### `AssetXfer`

One file, sent up to `MaxSends` times over connections each made once. `down[k]` and
`up[k]` are the packets on their way; `tx`, `offs`, `told` are the sender's sessions, the
position in its file and the send state it shows; `rx`, `got`, `inode` the receiver's
sessions and handles; `partial` is the file that has the name of the incomplete
download, `final` the one registered as received, and `file` what is in each. Sessions
of the same asset share this name: that is where they meet. `Send` is
`fromGuiSendAssetBase` with the request and the first chunk; each reply to a chunk
leads to `NextChunk`, `AllSent` (the complete request), `Canceled`, `ReadFails` or
`ChunkIgnored`; the receiver handles a request with `Receive`, `Refuse` or
`CannotReceive`, a chunk with `ChunkWritten`, `WriteFails` or `ChunkUnknown`, the
complete request with `OnComplete`, `Move`, `EndReceived`. `SLost` and `RLost` are
`onConnectionLost` at either end.

`Inputs`: `lost` (connections), `error` (files cannot be opened, read, made or
written), `deny` (no permission), `unmoved` (the last move fails), `late` (a
connection is made before the loss of the one before is handled), `again` (a second
connection and a second send beside the first), `queued` (the sender's memory queue
has a copy of the file).

Abstractions: names contain the asset id, so that only sends of the same asset can
meet; what was not handled when the loss is handled is lost; a packet given to a
connection that is down is lost, whether or not the sender notices; the move and the
change of name are one step; the recovery of a reply whose session is not found by
its id never finds one here; transfers always start at offset zero. Cancels by the
user, `replaceConnection`, downloads (`GetReq`), streams, the broadcast of what a
room's host receives, and restarts are left out.

## 3. Runs

`NAME_X.cfg` is checked with module `MCNAME`. Deadlock is not checked: once all
clients have joined, all messages are sent and no input is left, the program
rightly waits.

| run | instance | checks | shows |
|---|---|---|---|
| `records` (`HostService_records`) | 2 users, permission off or guest, anonymous users; rejoin, leave, decide, restart; 1.8 million states | `TypeOK`, `RecordDurable` | unless a save of his record is under way, list and database agree on a user wherever a restart falls, and one in the midst of saves loses the record of one user at most. Two users: one whose save has the list locked, one who would save meanwhile |
| `reconnect` (`HostService_reconnect`) | 2 users, the first with two sockets, friendship ignored or guest; drop; 1.4 million | `JoinedIsMember`, `NoStaleConnectId`, `JoinsAreAtomic` | losing an old socket while the new one joins breaks no membership, leaves no connect id behind its socket, and the host still implements `Roster` |
| `progress` (`HostService_progress`) | 2 users; leave, unjoin, drop; fairness; 45 thousand | `MutualVisibility`, `JoinedIsMember`, `JoinAnswered`, `LeaveDone`, `LostForgotten` | joined clients see each other; requests are answered and lost connections cleaned up |
| `queue_answers` (`SendQueue_answers`) | 1 user, a message and a file, all inputs; fairness; 149 thousand | `TypeOK`, `RowsAreListed`, `QueueDrains` | list and table agree under every failure, cancellation, lost connection and restart; what is queued for a user who keeps coming online leaves the queue. That several users' threads scan and purge at once breaks no row is proved |
| `skt_close` (`SktLifecycle_close`) | 2 sockets, one accepted, one outgoing, and another thread; 1.8 million | `TypeOK`, `LostOnce`, `EndedIsClosed`, `DeletedIsUnused`, `LockedToErase`, `WaitsForItselfIfRaced` | whoever closes what, the loss is told once, no handle leaks, nothing in use is deleted, the manager's lock is given back on every way, and no thread waits for itself whose socket no other thread closes. Two sockets: one that closes and one that is closed. With `cross` too (2.9 million) all hold as well |
| `skt_ends` (`SktLifecycle_ends`) | 2 sockets that may close each other; fairness; 55 thousand | `LostOnce`, `EndedIsClosed`, `ClosesEnd`, `SktEnds`, `LinksAreKept` | `closeSkt` returns and a thread told to stop ends: no two threads wait for each other for ever; the sockets implement `Link` (as they do in the instance of `skt_close`) |
| `conn_once` (`ConnectionMgr_once`) | an announcement and a search to one user, a request to another that may be unreachable, lost or slow; fairness; 425 thousand | `TypeOK`, `SentOnce`, `HandshakesAreKept`, `AnnouncesLetGo`, `NeverCutOff`, `ThreadsFinish` | every handshake may be taken by the thread of every socket: still none is told twice or forgotten, no connection in use is closed, no deadlock. Two requests to one user share the peer's info, one to another does not. All faults on all three (3 million) hold as well |
| `xfer_whole` (`AssetXfer_whole`) | a file of 3 chunks, up to 3 sends over 2 connections; losses, errors, refusals; fairness; 339 thousand | `TypeOK`, `ReceivedWhole`, `PartialsEnd`, `SuccessIsHeld`, `SendsEnd` | what is registered is whole, no incomplete file stays without a session, success is told for what the receiver has, and every send ends. A third send meets what two have left; three chunks have a first, a last and one between |
| `rand_offers` (`RandConnect_offers`) | 2 members, an offer, an answer; answers from the list, refused launches, losses, rejoins; fairness; 215 thousand | `TypeOK`, `AcceptedIsOver`, `AcceptedReachesBoth`, `OffersEnd`, `PartiesForget` | an offer ends at both parties; it is over for whoever acted on its acceptance, and only its addressee may be in session before that; when only accepted it is acted on by both |

`HostService_join` (3 users, leave; 269 thousand states) holds `MutualVisibility` and
`JoinedIsMember` too; for any number of users they are proved.

Three runs end in a violation, each of what a document or comment of the repository
states:

| run | property | what happens |
|---|---|---|
| `queue_addressee` (`SendQueue_addressee`) | `AddresseeOnly` | a message to A failed; B announces himself and is sent it: `&&` binds tighter than `\|\|` in `sendNextAsset` |
| `skt_lost` (`SktLifecycle_lost`) | `LostIsTold` | two threads close one socket; the callback reason they share is overwritten, and `onConnectionLost` never runs |
| `rand_outcome` (`RandConnect_outcome`) | `ConsistentOutcome` | acceptance and timeout of one offer reach its parties in different orders: one starts the session, the other has given it up |

### Fairness

* `HostService`: each rx thread runs, and so does the GUI thread that has begun to save a
  decision (`RxStep(s)`, `InsertDecided(u)`, weak). The one lock held for longer than a
  step is that of the join records: who waits for it gets it when it is free again and
  again (`LockStep(s)`, strong). That is all that is assumed of the mutex; it is held for
  two statements of the database, and a thread comes back to it only with another packet
  of its client. Nothing is assumed of clients, network or what the admin does.
* `SendQueue`: the threads run (`RxStep(u)`, `GuiStep` and the two starts, weak). That a
  message arrives also needs its receiver: a user of `Reachable` connects again and
  again, his announces are handled infinitely often if they can be, and not every
  attempt fails for ever (strong fairness of `PktAnnReceived`, `SendFoundOk` and, for
  each message, of its good reply). This is an assumption on the environment, without
  which nothing could be said of delivery.
* `SktLifecycle`: every thread runs (weak). Nothing is assumed of other ends, nor of who
  closes what; a thread blocked in `recv` is woken by the closing of its handle only.
* `ConnectionMgr`: callers and rx threads go on (weak). Nothing is assumed of peers,
  connections and requesters. `ThreadsFinish` is "from some time on all threads
  rest", because the requests of an instance are finite.
* `RandConnect`: rx threads at host and member, and the GUI's timer, run (weak). Nothing
  is assumed of users.
* `AssetXfer`: the rx threads of both engines run (weak). Nothing is assumed of
  connections and users.

### Further instances

Configurations no listed run uses, kept because each shows, by a counterexample, that
the code does not do what its name or a text of the repository suggests:

| configuration | property | what happens |
|---|---|---|
| `HostService_leaverace` | `ShownAreClients` | A's leave is broadcast, B joins and copies the list, A is removed: B shows A for good (`README-USER-HOSTS.md:164`) |
| `HostService_grant` | `GrantIsKept` | the admin accepts while a join handler is under way, which then writes Denied (`PluginBaseHostService.cpp:310`) |
| `HostService_twosockets` | `JoinedIsActive` | the end of an old socket makes a user inactive who has joined with a new one (`README-USER-HOSTS.md:135`) |
| `HostService_approval` | `RequestAwaitsAdmin` | a locked request adds a connect id, which lifts an anonymous user to guest: the second request is granted without the admin (`README-USER-HOSTS.md:136`) |
| `HostService_crash` | `RepliedIsKnown` | a locked user who had his reply asks again; the host crashes between the DELETE and the INSERT of his record, and the request the admin was to decide is gone. The same takes the grant of a member who joins again (`HostJoinInfoDb.cpp:109`) |
| `RandConnect_twice` | `LaunchedOnce` | the addressee accepts in the list, which starts the session; when the acceptance comes back it is launched again (`src/nolimitgui/src/GuiOfferMgrBase.cpp:957`, `GuiRandConnectMgr.cpp:460`). The running session takes that for the same offer and goes on |
| `RandConnect_busy` | `NobodyAlone` | one party has the applet open with another peer: its launch is refused when the offer is already erased, and the other party is in session alone (`src/nolimitgui/src/GuiRandConnectMgr.cpp:552`; `README-RANDOM-CONNECT-OFFER.md:144`: "Accepted offers launch the matching peer applet and start the corresponding plugin session") |
| `SendQueue_race` | `QueuedIsKept` | the user's announce falls between queueing a message and adding it to the assets: it is erased as invalid (`AppletMultiMessenger.cpp:428`: "Message will be queued until the next time you are both reachable") |
| `SktLifecycle_suicide` | `NeverWaitsForItself` | two rx threads close each other's sockets, and one comes to wait for its own end (`VxSktBase.cpp:516`: "thread cannot exit while attempting to kill itself") |
| `SktLifecycle_zombie` | `EndedIsUnlisted` | the rx thread ends before `addSkt` lists its socket, for good (`VxPeerMgr.cpp:150`, `VxSktBaseMgr.cpp:365`) |
| `SktLifecycle_unused` | `EndedIsUnused` | a thread told to stop before it starts leaves its socket marked in use, so that it is never deleted (`VxSktBase.cpp:1095`, `VxSktBaseMgr.cpp:395`) |
| `ConnectionMgr_leak` | `UnneededIsClosed` | a handshake taken by another socket's thread leaves its own socket without a reason, and open (`IConnectRequest.h:32`: "Connect Manager will disconnect if nobody else needs the connection") |
| `ConnectionMgr_wait` | `ReplyEndsWait` | the answer comes before the handshake is listed, and the request waits (`ConnectionMgr.cpp:572`: "connected but waiting for PktAnnounce reply") |
| `ConnectionMgr_again` | `AskedOnce` | a search is told of its connection by two threads and asks twice (`IConnectRequest.h:32`: "one time use") |
| `AssetXfer_late` | `ReceivedWhole` | the file is sent again over a new connection before the receiver has handled the loss of the old one, which then deletes or mixes the incomplete file |
| `AssetXfer_again` | `ReceivedWhole` | two sends of one file at once write to one incomplete file |
| `AssetXfer_queued` | `ReceivedWhole` | the copy in the memory queue is sent before the complete request of the first: its request truncates the file, which is then registered |
| `AssetXfer_unmoved` | `SuccessIsHeld` | the receiver cannot move the file, and the sender is not told |
| `AssetXfer_answered` | `SuccessIsAnswered` | the sender takes the file for sent with the answer to its last chunk, before it asks for completion (`README-CHATROOM.md:201`: upon the reply to the complete request it "marks transfer complete") |

(Documents are in `src/docs/technical`.) `TypeOK`, `PartialsEnd` and `SendsEnd` of
`AssetXfer` hold with all of its inputs (2 sends, 2 chunks: 231 thousand states).

Others are short to tell and have no configuration:

* `QueueDrains` holds with one user. With two, a failed message to B, who never comes
  online, is picked (and sent to A) at each announce of A before the one queued for A,
  which is then never sent.
* `QueuedIsKept` also fails with `Inputs = {"queue", "restart"}`: `onlineId` is the
  primary key of `send_queue`, so the insert of a second message for the same user
  fails silently, and the restart forgets it.
* An unjoin keeps the database row that `README-USER-HOSTS.md:146` says it removes:
  `onUserUnJoinedHost` ends in the function a leave ends in.
* A client that is lost without a leave stays in `m_ClientList`, so that later clients
  are shown it; the same document (lines 223-226) says `removeClient` is called.
* A socket that dies between `updateMemberActive` and `addConnection` leaves an active
  member without a connection.
* `onHostJoinedByUser` saves a new record without listing it: until a restart,
  `isUserJoinedToRelayHost` does not know a first-time member.
* A leave sets a granted record to LeaveHost in the list but not in the database, so
  that a member who left is one again after a restart; `RecordDurable` therefore leaves
  out users who left.
* With two sockets per user a leave over one takes the user from the client list while
  the other is joined: `JoinedIsMember` and `JoinsAreAtomic` then fail.
* A member whose connection is lost keeps its offers, and nobody is told:
  `RandConnectMgr::callbackConnectionStatusChange` (`RandConnect/RandConnectMgr.cpp:259`),
  which would end them, is never registered, where `README-RANDOM-CONNECT-OFFER.md:146`
  expects that "Disconnect cleanup emits cancellation-like offer callback and removes
  stale entries". `PartiesForget` therefore leaves out runs in which a connection is lost.
* Two members offer each other a session (`s1`, `s2`, `MaxAnswers = 3`): a menu opened for
  the incoming offer, used when that has ended, accepts the member's own outgoing one
  (`src/nolimitgui/src/GuiRandConnectMgr.cpp:151`).

## 4. Proofs

Each theorem holds for every value of the constants that satisfies the named
assumptions of its module: no bound on users, sockets, sessions or requests. Each proof
of a step has one case per action.

### `HostServiceProof` (`OwnerAssumption`, `LevelsAssumption`, `InputsAssumption`)

* `TypeCorrect`: `Spec => []TypeOK`.
* `ConnectionCorrect`: `ConnectionInv` is invariant, with any number of sockets per
  user. It says that a client with a join reply is connected and in no leave
  handler, that a socket that is down has no handler and no connect id, and that a
  joined or joining socket that is connected is a connect id. From it follows
  `NoConnectIdLeft`: `Spec => []NoStaleConnectId`.
* `LinksUsed` (`LinksAreUsed`), with any number of sockets per user: every step of the
  host maps to a step of `Link` or a stutter. It follows from `ConnectionInv` and from
  what each step of a handler does to `pc` and `link` (`HandlerStep`).
* When every user has one socket, or nobody leaves (`OneSocketOfLeavers`):
  `MembershipCorrect`, and from it `JoinedSeeEachOther` (`MutualVisibility`) and
  `JoinedAreMembers` (`JoinedIsMember`); `RosterImplemented` (`JoinsAreAtomic`): initial
  states map to initial states of `Roster`, and every step to one of its steps or a
  stutter.
* With one socket per user (`OneSocketPerUser`): `RecordsAreDurable` (`RecordDurable`).
* `RequestsAwaitAdmin` (`RequestAwaitsAdmin`): with one socket per user, and a permission
  and friendships that do not change, only the admin turns a request into a grant, for
  every permission `p` and friendship `f` but the pair for which `HostService_approval`
  shows the contrary (`Steady`).
* `JoinedAreActive` (`JoinedIsActive`): with one socket per user who does not ask again
  while joined, whoever was told that he joined is active, at every step (`ActiveInv`).
  `HostService_twosockets` shows why one socket; a second request may find the permission
  taken away, which makes him inactive and is not answered.

*Why visibility holds.* `MutualVisibility` is not inductive: it says nothing of
joins under way. `MembershipInv` adds that whoever is past `AddClient` is in the
client list, and the key fact `SeesInv`: if `s` has copied its member list and `t`
has taken the recipients of its announce, then `s` sees the user of `t`, or `s` is
among the recipients still to be sent to, or the user of `t` is among the members
still to be sent to `s`. It holds when the later of the two snapshots is taken,
since each thread adds its user to the connect ids and to the client list before its
own snapshots. It is kept while sending, because a recipient or a member leaves the
set only when it was sent or when the connection is lost.

*Why the roster is implemented.* A join takes effect in the step that sends the join
reply. By `MutualVisibility` before and after it all joined clients see each other, so
that it maps to `Join`; every other step that changes who is joined maps to `Go` or
`Stop` in the same way, and the rest changes neither.

*Why `OneSocketOfLeavers`.* With two sockets a leave over one takes the user from the
client list while the other is joined (section 3). Without leaves nothing is taken from
that list, and one socket may be lost while the next joins: the instance of `reconnect`,
for any number of users and sockets. The records are a user's, whichever socket changes
them, so that `RecordsAreDurable` keeps `OneSocketPerUser`: TLC finds that a request
recorded over one socket, while a new record of the other is about to be saved, leaves
"requested" in the list and "was granted" in the database.

*Why records are durable.* `RecordDurable` says nothing of a user whose record is being
saved, but for the bound on what a crash can lose. `RecordInv` adds that a handler between
`JoinedByUser` and `InsertJoined` is the only one to disturb the record of its user, and
what a new, unlisted record will be saved as (`FreshInv`, `SavedInv`); that the list is
locked by one save at a time, and that a save which begins with a listed record ends with
one (`LockInv`); and that a listed record without a row has this save under way
(`BackedInv`). So at most one row is missing. That this one is lost in a crash is shown by
`HostService_crash`: without a transaction no more can be proved.

*Why requests wait.* `AskInv`: whether a user is locked never changes, although his
friendship may be lifted to guest and his connect id comes and goes. So a handler that is
to grant him found him permitted, in which case nobody ever requested, or granted, and
nobody but this handler could make that a request. The admin may reject, and the host
restart, at any step.

### `SktLifecycleProof` (`ThreadsAssumption`, `OutgoingAssumption`, `InputsAssumption`)

`CloseInvHolds`: `CloseInv` is invariant; from it `SktTypeCorrect`, `ToldOnce`
(`LostOnce`), `NothingLeaks` (`EndedIsClosed`), `DeletedLast` (`DeletedIsUnused`). None of
these is inductive: they speak of threads that have ended, and what a thread leaves
behind depends on closes that others have begun. `CloseInv` adds where a thread
returns to (`ReturnInv`), that whoever is past the first test of `closeSkt` for
another's socket is on record (`OtherInv`), how often a socket closed by nobody else
has been reported as lost at each step of its thread (`OwnInv`), who will close an
open handle (`HandleInv`), that a closed socket is off the list or has a close under way
that will take it off (`GoneInv`), and which threads may still use it (`UseInv`,
`ConnectedInv`).

`LockedOnlyToErase` (`LockedToErase`): the lock of the manager is held by the thread that
is taking a socket off the list, if it did not say that it holds it already, and by
nobody else. It needs `LockInv`: whoever is about to take the lock has not said so.

`SelfWaitIsARace` (`WaitsForItselfIfRaced`): `SktLifecycle_suicide` (section 3) shows that a
thread can come to wait for its own end; this theorem says when. `MarkInv`: if no other
thread has begun to close a socket, the mark that its own thread does so is set before
that thread gets beyond the first test of `closeSkt`, is told to stop, or reports its
loss, and with this mark `moveToEraseList` does not wait.

### `SktLinkProof` (as above)

`LinkImplemented` (`LinksAreKept`): initial states map to initial states of `Link`, every
step to one of its steps or a stutter, whoever closes which socket, from whichever thread
the callback comes. On top of `CloseInv` it needs `ToldInv` (the reason is Closed, or the
loss was reported, only when the thread has left its loop, and the socket is not connected
then) and `LastInv` (a thread that ends after its loop leaves the socket out of use, which
is how one that was never up is told from it). The steps are taken in three groups:
those of rx threads, of `closeSkt` (`CloseEffect`: a close may disconnect its target, call
its callback and set its reason, and nothing else; `InClose`: nobody gets further inside
it, and only the return from a close that a handler called ends the handler), and the
rest.

### `ConnectionMgrProof` (`KindsAssumption`, `NoSessionAssumption`)

`ConnTypeCorrect`, `AnnouncedOnce` (`SentOnce`), `NoRequestForgotten`
(`HandshakesAreKept`), `ReasonsAreRemoved` (`AnnouncesLetGo`), `OnlyDoneIsClosed`
(`NeverCutOff`), from `ConnInv`. It adds that nothing is known of a session before its
request (`IdleInv`), that a packet still in the list was not sent (`SentInv`: the list
is what makes telling twice harmless), that a requester that is done was told
(`DoneInv`), and `HandshakesAreKept` already for a caller that is about to return
(`KeptInv`).

### `RandConnectProof` (`PartiesAssumption`, `RandInputsAssumption`, `MaxAnswersAssumption`, `NoPktAssumption`)

`RandTypeCorrect`, `AcceptedEndsOffer` (`AcceptedIsOver`), `AcceptanceReachesBoth`
(`AcceptedReachesBoth`), from `OfferInv` and `LaunchInv`. That an offer is acted on once
rests on its request being in one place on the way to a member: in the uplink (`UpInv`),
being relayed with the member to come (`RelayInv`), or in the downlink (`DownInv`), and in
none of them once the member has had it. `ReachInv` says that it then stays pending until
the acceptance has come back, if nobody says anything but that he accepts and no
connection is lost. `LaunchInv` adds what is launched: whoever acted on an acceptance, if
nothing refused it, and of what is still pending only what the addressee started in the
list. That a session is launched once, or at both sides whatever is refused, is not true
of the code and not proved (`RandConnect_twice`, `RandConnect_busy`).

### `SendQueueProof` (`FilesAssumption`, `ReachableAssumption`, `QueueInputsAssumption`)

* `QueueTypeCorrect`: `Spec => []TypeOK`.
* `RowsAlwaysListed`: `Spec => []RowsAreListed`. The inductive invariant `QueueInv`
  adds `PurgeIsPending`: a thread that has entries to purge is sending or about to
  purge. Without it a second scan of the same thread could overwrite `dead[u]` and so
  lose rows. The lemmas `UpdateKeepsRows` and `EraseKeepsRows` show that the operators
  of list and table keep them together; `FailKeepsRows`, `SuccessKeepsRows` and
  `SendKeepsRows` carry this to whoever reports how a transfer ended.

### `AssetXferProof` (`MaxSendsAssumption`, `ChunksAssumption`, `XferInputsAssumption`)

`XferTypeCorrect`, `OneChunkAtATime` (`StopAndWait`), `IncompleteFilesEnd`
(`PartialsEnd`) hold with any inputs; `ReceivedIsWhole` (`ReceivedWhole`) needs
`OneAtATime`.

*Why the types need `StopAndWait`.* Nothing in the code stops the receiver's position
at the last chunk but that each chunk waits for the answer to the one before. `StopAndWait` says so. `Owned`: each send has one connection, its
packets go over this one, and a send that has not begun left no trace. `Exchange`, of
each send on its connection: which packets may be on their way together (the request
and the first chunk, and otherwise one packet or one answer), and what each says of
how far both ends are. It is inductive by itself, together with `TypeOK`, since what
ends a session only weakens it (`Weaken`).

*Why incomplete files end.* `PartialsEnd` is inductive, because every end of a session
takes away the incomplete file of that name, whichever session wrote it. The same fact
is why `ReceivedWhole` fails when two sessions of one file are there at once
(`AssetXfer_late`, `_again`, `_queued`).

*Why what is received is whole.* `OneAtATime` leaves out these three inputs, and no
other: connections are lost at any step, files cannot be read, written or moved,
requests are refused. `InTurn` then says that the sends take their turns everywhere:
at most one connection is in use (`Links`), at the sender no send begins before the
one before it has ended (`Sequential`), their packets arrive in that order
(`Ordered`), the receiver has not begun a send with packets of an earlier one still to
come (`Ahead`), nor while it finishes an earlier one (`BusyLatest`). So at most one
session may still write (`OnlyOne`); one of an earlier send may still be open when the
sender could not go on, but nothing comes for it, and it ends with the connection that
both have. `Content` says what this one has written so far, and that it is everything
when the file is moved, which follows from `Exchange` for the complete request.
`Finals` adds to `ReceivedWhole` that the file received is not the one being written,
and that a new session does not take its place.

*Why a success is kept.* `SuccessIsKept` (`SuccessIsHeld`) assumes `OneAtATime` and that
the last move does not fail (`unmoved`; `AssetXfer_unmoved` shows why), and speaks of runs
in which no connection is lost. The sender takes a file for sent with the answer to its
last chunk, so that nobody has told it yet that the receiver completes the file. `Held`
fills the gap: what is on its way and says that all is well (a complete request, an ok
answer to a chunk, an answer to a complete request) finds, or has left, a session of the
receiver that is still open, moving its file, or done.

### Only model-checked

Liveness (it needs fairness, which the prover does not handle), the violations,
two sockets of a user who leaves, and that the further instances of section 3 hold or
fail.

## 5. Done, and not modelled

The plan of this development put the host first, because the most depends on it, then
what its steps take for granted (`SktLifecycle`, `Link`), its abstract specification (`Roster`),
what members do through a host (`RandConnect`), what brings a host to the notice of
others (`ConnectionMgr`), and the messenger (`SendQueue`, `AssetXfer`). All of this is
done. The models cover about a fifth of the lines of the files of the components in
`PROJECT.json` that are not `not_modelled`; most of what these files hold beyond it is
logging, GUI notification, fields that no property tells apart, and the operations
named below. The share of the whole repository is far smaller, because it contains
the source of its third-party libraries.

Not modelled, and why:

* **The paged user list** (`HostServerMgr::onPktHostUserListReq`): a client gets the first page
  only. It ignores `getMoreHostUsersExist`, and no code sends the request for more.
* **Relayed connections** (`ConnectIdListMgr`, `Relay/`, `MemberConfirmMgr`): no state but
  copies of what the host announced; a model would be one of an unordered stream of
  announces, whose order at the host `HostService` has.
* **The client's own join records** (`UserJoinMgr`): written by the threads of its hosts'
  sockets and by the GUI's. What a client may do with several hosts at once
  needs connections that stay and the GUI's pages of hosts.
* **Connections that stay**, for several reasons at once, and the port test:
  `ConnectionMgr` has the one-time ones, whose end is decided in the engine.
* **Downloads, cancels and the broadcast of received files** in `AssetXferMgr`, **file
  transfer** and **offers**: `AssetXfer` has the direction messages use; file transfer
  is the same protocol in classes of its own.
* **Sending to several members** (`src/nolimitgui/src/AssetSendMgr.cpp`): a queue in the
  GUI that is advanced by actions of the engine which name the asset, not the member.
  It would be the next module, on top of `AssetXfer`.
* **Network services, plugin sessions, user identities**: next after that.
* **Packet layouts, media, the firewall library, the GUI's presentation**: formats, data
  flow, calls of the operating system.
