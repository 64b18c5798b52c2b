---------------------------- MODULE ConnectionMgr ----------------------------
(***************************************************************************)
(* One-time connections: a host announces itself to the network host, a    *)
(* search or a request for an identity asks another user, each over a      *)
(* temporary socket of its own (ConnectionMgr). The caller connects and    *)
(* sends its own announcement, then leaves a handshake in a list for the   *)
(* rx thread that reads the answer. That thread takes the handshakes of    *)
(* ALL sockets, enters them in the info of its own socket and peer, and    *)
(* tells each requester, who sends its packet and, then or when the answer *)
(* is complete, is done with the connection.                               *)
(*                                                                         *)
(* A socket is named by the session it was opened for.                     *)
(***************************************************************************)
EXTENDS Naturals

CONSTANTS
    Sessions,  \* the requests; each has a session id of its own
    Announces, \* those that send one packet and are done (HostServerMgr)
    Searches,  \* those done when their answer is complete (HostedListMgr)
    To,        \* the user each request wants to reach
    Unreachable, Lossy, Slow, \* what may go wrong: no connection, one that is lost,
                              \* a handshake that waits for too long
    NoSession

ASSUME KindsAssumption == Announces \union Searches \subseteq Sessions /\ Announces \intersect Searches = {}
ASSUME NoSessionAssumption == NoSession \notin Sessions

VARIABLES
    caller,   \* where the thread that made the request is
    locked,   \* m_ConnectionMutex is held across steps (by a caller)
    up,       \* the sockets that are connected
    heard,    \* the sockets whose peer's announcement was read
    rx,       \* where the rx thread of a socket is
    work,     \* shakeList: the handshakes it has yet to tell
    doing,    \* the session it calls doneWithConnection for
    shakes,   \* m_HandshakeList, by session
    old,      \* handshakes older than HANDSHAKE_TIMEOUT_MS
    infos,    \* ConnectedInfo::m_CallbackList, by socket
    annList,  \* HostServerMgr::m_AnnList, by session
    sent,     \* how often the packet of a session was sent
    owed,     \* the searches a peer has yet to answer
    told,     \* sessions whose requester was told of a connection
    finished, \* sessions whose requester was done with it
    closed    \* sockets closed because they were no longer needed

threads == <<rx, work, doing>>
lists   == <<shakes, infos, annList>>
history == <<sent, owed, told, finished, closed>>
vars    == <<caller, locked, up, heard, threads, lists, old, history>>

(* A caller inside directConnectTo, which holds the mutex all the time.    *)
Connecting == {"connected", "announced", "added"}

TypeOK ==
    /\ caller \in [Sessions -> Connecting \union {"idle", "handshaking", "failed"}]
    /\ locked \in BOOLEAN
    /\ up \subseteq Sessions
    /\ heard \subseteq Sessions
    /\ rx \in [Sessions -> {"reading", "taken", "registered", "telling", "done"}]
    /\ work \in [Sessions -> SUBSET Sessions]
    /\ doing \in [Sessions -> Sessions \union {NoSession}]
    /\ \A s \in Sessions :
           /\ rx[s] = "reading" => work[s] = {}
           /\ rx[s] = "done" <=> doing[s] # NoSession
    /\ shakes \subseteq Sessions
    /\ old \subseteq Sessions
    /\ infos \in [Sessions -> SUBSET Sessions]
    /\ annList \subseteq Announces
    /\ sent \in [Sessions -> Nat]
    /\ owed \in [Sessions -> Nat]
    /\ told \subseteq Sessions
    /\ finished \subseteq Sessions
    /\ closed \subseteq Sessions

Init ==
    /\ caller = [s \in Sessions |-> "idle"]
    /\ locked = FALSE
    /\ up = {} /\ heard = {}
    /\ rx = [s \in Sessions |-> "reading"]
    /\ work = [s \in Sessions |-> {}]
    /\ doing = [s \in Sessions |-> NoSession]
    /\ shakes = {} /\ old = {} /\ annList = {}
    /\ infos = [s \in Sessions |-> {}]
    /\ sent = [s \in Sessions |-> 0]
    /\ owed = [s \in Sessions |-> 0]
    /\ told = {} /\ finished = {} /\ closed = {}

(* The definitions whose comment begins with "Slip" are no part of Next:   *)
(* each is the next definition with a mistake its code could have, and     *)
(* shows that a property depends on that code.                             *)

-----------------------------------------------------------------------------
(* The caller: requestConnection with a temporary reason *)

(* sendHostAnnounceToNetworkHost first keeps the packet to send.           *)
Remember(s) == annList' = annList \union ({s} \intersect Announces)

(* connectTo succeeds and starts the rx thread of the new socket.          *)
Connect(s) ==
    /\ caller[s] = "idle" /\ ~locked
    /\ locked' = TRUE
    /\ caller' = [caller EXCEPT ![s] = "connected"]
    /\ up' = up \union {s}
    /\ Remember(s)
    /\ UNCHANGED <<heard, threads, shakes, infos, old, history>>

(* The peer cannot be reached; onConnectToHostFail forgets the packet.     *)
ConnectFail(s) ==
    /\ s \in Unreachable
    /\ caller[s] = "idle" /\ ~locked
    /\ caller' = [caller EXCEPT ![s] = "failed"]
    /\ UNCHANGED <<locked, up, heard, threads, lists, old, history>>

SendMyPktAnnounce(s) ==
    /\ caller[s] = "connected" /\ s \in up
    /\ caller' = [caller EXCEPT ![s] = "announced"]
    /\ UNCHANGED <<locked, up, heard, threads, lists, old, history>>

AddHandshake(s) ==
    /\ caller[s] = "announced" /\ s \in up
    /\ shakes' = shakes \union {s}
    /\ caller' = [caller EXCEPT ![s] = "added"]
    /\ UNCHANGED <<locked, up, heard, threads, infos, annList, old, history>>

(* The request waits for the answer to the announcement.                   *)
ReturnHandshaking(s) ==
    /\ caller[s] = "added" /\ s \in up
    /\ locked' = FALSE
    /\ caller' = [caller EXCEPT ![s] = "handshaking"]
    /\ UNCHANGED <<up, heard, threads, lists, old, history>>

(* Slip: an early return of directConnectTo leaves the mutex locked.       *)
ReturnLocked(s) ==
    /\ caller[s] \in Connecting /\ s \notin up
    /\ shakes' = shakes \ {s}
    /\ annList' = annList \ {s}
    /\ caller' = [caller EXCEPT ![s] = "failed"]
    /\ UNCHANGED <<locked, up, heard, threads, infos, old, history>>

(* The early returns: the rx thread has closed the socket in the meantime. *)
(* The handshake, if it was added, is removed, then the packet forgotten.  *)
ReturnFailed(s) ==
    /\ caller[s] \in Connecting /\ s \notin up
    /\ shakes' = shakes \ {s}
    /\ annList' = annList \ {s}
    /\ locked' = FALSE
    /\ caller' = [caller EXCEPT ![s] = "failed"]
    /\ UNCHANGED <<up, heard, threads, infos, old, history>>

CallerStep(s) ==
    \/ SendMyPktAnnounce(s) \/ AddHandshake(s)
    \/ ReturnHandshaking(s) \/ ReturnFailed(s)

-----------------------------------------------------------------------------
(* The rx thread of a socket *)

(* Slip: what was taken is removed from the list for good.                 *)
TakeForGood(s) ==
    /\ rx[s] = "reading" /\ s \in up \ heard
    /\ caller[s] \in {"announced", "added", "handshaking"}
    /\ heard' = heard \union {s}
    /\ work' = [work EXCEPT ![s] = shakes \ old]
    /\ shakes' = {}
    /\ rx' = [rx EXCEPT ![s] = IF shakes \subseteq old THEN "reading" ELSE "taken"]
    /\ UNCHANGED <<caller, locked, up, doing, infos, annList, old, history>>

(* onFirstPktAnnounce: the handshakes of every socket are taken, but only  *)
(* the key of this socket is removed, so that those of other sockets stay  *)
(* in the list as well. Of old ones only the GUI hears, of a timeout.      *)
OnFirstPktAnnounce(s) ==
    /\ rx[s] = "reading" /\ s \in up \ heard
    /\ caller[s] \in {"announced", "added", "handshaking"}
    /\ heard' = heard \union {s}
    /\ work' = [work EXCEPT ![s] = shakes \ old]
    /\ shakes' = shakes \ {s}
    /\ rx' = [rx EXCEPT ![s] = IF shakes \subseteq old THEN "reading" ELSE "taken"]
    /\ UNCHANGED <<caller, locked, up, doing, infos, annList, old, history>>

(* Under the mutex, all of them become reasons to keep THIS connection.    *)
AddConnectReasons(s) ==
    /\ rx[s] = "taken" /\ ~locked
    /\ infos' = [infos EXCEPT ![s] = @ \union work[s]]
    /\ rx' = [rx EXCEPT ![s] = "registered"]
    /\ UNCHANGED <<caller, locked, up, heard, work, doing, shakes, annList, old, history>>

StillConnected(s) ==
    /\ rx[s] = "registered" /\ s \in up
    /\ rx' = [rx EXCEPT ![s] = "telling"]
    /\ UNCHANGED <<caller, locked, up, heard, work, doing, lists, old, history>>

(* Slip: the list is not given up when the socket was lost.                *)
LostButKept(s) ==
    /\ rx[s] = "registered" /\ s \notin up
    /\ rx' = [rx EXCEPT ![s] = "reading"]
    /\ UNCHANGED <<caller, locked, up, heard, work, doing, lists, old, history>>

(* "lost connection already": nobody is told.                              *)
LostAlready(s) ==
    /\ rx[s] = "registered" /\ s \notin up
    /\ work' = [work EXCEPT ![s] = {}]
    /\ rx' = [rx EXCEPT ![s] = "reading"]
    /\ UNCHANGED <<caller, locked, up, heard, doing, lists, old, history>>

(* What an rx thread does next when the calls it has to make are made.     *)
Continue(rest) == IF rest = {} THEN "reading" ELSE "telling"

(* The packet of a session goes out on the session's own socket.           *)
Transmit(t) == sent' = [sent EXCEPT ![t] = IF t \in up THEN @ + 1 ELSE @]

(* HostedListMgr::onContactConnected: the search is sent, each time.       *)
TellSearch(s, t) ==
    /\ rx[s] = "telling" /\ t \in work[s] \intersect Searches
    /\ Transmit(t)
    /\ owed' = [owed EXCEPT ![t] = IF t \in up THEN @ + 1 ELSE @]
    /\ told' = told \union {t}
    /\ work' = [work EXCEPT ![s] = @ \ {t}]
    /\ rx' = [rx EXCEPT ![s] = Continue(work[s] \ {t})]
    /\ UNCHANGED <<caller, locked, up, heard, doing, lists, old, finished, closed>>

(* doneWithConnection begins: no handshake of the session stays.           *)
BeginDone(s, t) ==
    /\ finished' = finished \union {t}
    /\ shakes' = shakes \ {t}
    /\ doing' = [doing EXCEPT ![s] = t]
    /\ rx' = [rx EXCEPT ![s] = "done"]

(* Slip: the packet is not erased from the list when it was sent.          *)
TellAgain(s, t) ==
    /\ rx[s] = "telling" /\ t \in work[s] \ Searches
    /\ IF t \in annList THEN Transmit(t) ELSE UNCHANGED sent
    /\ told' = told \union {t}
    /\ work' = [work EXCEPT ![s] = @ \ {t}]
    /\ BeginDone(s, t)
    /\ UNCHANGED <<caller, locked, up, heard, infos, annList, old, owed, closed>>

(* Slip: a requester whose packet was sent already is not done once more.  *)
TellFirst(s, t) ==
    /\ rx[s] = "telling" /\ t \in work[s] \ Searches
    /\ work' = [work EXCEPT ![s] = @ \ {t}]
    /\ told' = told \union {t}
    /\ annList' = annList \ {t}
    /\ IF t \in annList THEN Transmit(t) ELSE UNCHANGED sent
    /\ IF t \in annList \union (Sessions \ Announces)
       THEN BeginDone(s, t)
       ELSE /\ rx' = [rx EXCEPT ![s] = Continue(work[s] \ {t})]
            /\ UNCHANGED <<doing, shakes, finished>>
    /\ UNCHANGED <<caller, locked, up, heard, infos, old, owed, closed>>

(* HostServerMgr::onConnectToHostSuccess sends the packet and erases it    *)
(* under one lock; HostUrlListMgr has nothing to send.                     *)
TellOnce(s, t) ==
    /\ rx[s] = "telling" /\ t \in work[s] \ Searches
    /\ IF t \in annList THEN Transmit(t) ELSE UNCHANGED sent
    /\ annList' = annList \ {t}
    /\ told' = told \union {t}
    /\ work' = [work EXCEPT ![s] = @ \ {t}]
    /\ BeginDone(s, t)
    /\ UNCHANGED <<caller, locked, up, heard, infos, old, owed, closed>>

(* hostSearchCompleted: the answer comes on the socket of the search, after *)
(* the peer's announcement.                                                *)
SearchCompleted(t) ==
    /\ rx[t] = "reading" /\ t \in up \intersect heard
    /\ owed[t] > 0
    /\ owed' = [owed EXCEPT ![t] = @ - 1]
    /\ BeginDone(t, t)
    /\ UNCHANGED <<caller, locked, up, heard, work, infos, annList, old, sent, told, closed>>

(* The infos of t's user that have an entry of session t.                  *)
Registered(t) == {x \in Sessions : To[x] = To[t] /\ t \in infos[x]}

(* Slip: the socket of the info is given back.                             *)
UnusedInfo(t) == {x \in Registered(t) : infos[x] = {t}} \intersect up

(* An entry that was the last of its info gives back the socket it came    *)
(* with, which is that of its session.                                     *)
Unused(t) == IF \E x \in Registered(t) : infos[x] = {t} THEN {t} \intersect up ELSE {}

(* doneWithConnection goes on: the entries are removed under the mutex,    *)
(* then what is no longer needed is closed.                                *)
RemoveConnectedReason(s) ==
    /\ rx[s] = "done" /\ ~locked
    /\ infos' = [x \in Sessions |-> IF x \in Registered(doing[s])
                                    THEN infos[x] \ {doing[s]} ELSE infos[x]]
    /\ up' = up \ Unused(doing[s])
    /\ closed' = closed \union Unused(doing[s])
    /\ doing' = [doing EXCEPT ![s] = NoSession]
    /\ rx' = [rx EXCEPT ![s] = Continue(work[s])]
    /\ UNCHANGED <<caller, locked, heard, work, shakes, annList, old, sent, owed, told, finished>>

RxStep(s) ==
    \/ AddConnectReasons(s) \/ StillConnected(s) \/ LostAlready(s)
    \/ \E t \in Sessions : TellSearch(s, t) \/ TellOnce(s, t)
    \/ RemoveConnectedReason(s)

-----------------------------------------------------------------------------
(* What goes wrong *)

(* The connection of a temporary socket is lost: no list is told of it.    *)
Drop(s) ==
    /\ s \in Lossy \intersect up
    /\ up' = up \ {s}
    /\ UNCHANGED <<caller, locked, heard, threads, lists, old, history>>

(* A handshake has waited for more than HANDSHAKE_TIMEOUT_MS.              *)
Expire(s) ==
    /\ s \in (Slow \intersect shakes) \ old
    /\ old' = old \union {s}
    /\ UNCHANGED <<caller, locked, up, heard, threads, lists, history>>

Next ==
    \E s \in Sessions :
        \/ Connect(s) \/ ConnectFail(s) \/ CallerStep(s)
        \/ OnFirstPktAnnounce(s) \/ SearchCompleted(s) \/ RxStep(s)
        \/ Drop(s) \/ Expire(s)

Spec == Init /\ [][Next]_vars

(* Every thread goes on with what it began. Nothing is assumed of peers,   *)
(* of connections and of who makes a request.                              *)
FairSpec == Spec /\ \A s \in Sessions : WF_vars(CallerStep(s)) /\ WF_vars(RxStep(s))

-----------------------------------------------------------------------------
(* Properties *)

(* An announcement is sent at most once, although its requester may be     *)
(* told of its connection by the rx thread of every socket.                *)
SentOnce == \A s \in Announces : sent[s] <= 1

(* A request that still waits on an open connection is not forgotten when  *)
(* another socket's thread takes it and then loses its own connection: it  *)
(* is in the list, or its own thread is about to tell of it.               *)
HandshakesAreKept ==
    \A s \in up :
        caller[s] = "handshaking" /\ s \notin told \union old => s \in shakes \union work[s]

(* A reason to keep an open connection goes when its requester is done, in *)
(* whichever info threads of other sockets entered it.                     *)
AnnouncesLetGo ==
    \A x \in up, s \in Sessions \ Searches :
        s \in infos[x] /\ To[s] = To[x] => s \in work[x] \/ doing[x] = s

(* No connection is closed under a request that is not done with it.       *)
NeverCutOff == closed \subseteq finished

(* No thread has anything left to do.                                      *)
Idle == \A s \in Sessions : rx[s] = "reading" /\ caller[s] \notin Connecting

(* Callers and rx threads do not wait for each other for ever: the mutex   *)
(* is released on every return, and not held when a requester is told, who *)
(* takes it again to be done.                                              *)
ThreadsFinish == <>[]Idle

-----------------------------------------------------------------------------
(* What the comments of the code say, and the code does not keep. *)

(* IConnectRequest.h: "Connect Manager will disconnect if nobody else      *)
(* needs the connection".                                                  *)
UnneededIsClosed == Idle /\ shakes = {} => up \intersect heard \intersect finished = {}

(* ConnectionMgr.cpp: "connected but waiting for PktAnnounce reply": the   *)
(* answer to its announcement ends the wait of a request.                  *)
ReplyEndsWait ==
    \A s \in (up \intersect heard) \ old :
        caller[s] = "handshaking" /\ Idle => s \in told

(* IConnectRequest.h: "one time use": a search is sent once.               *)
AskedOnce == \A s \in Searches : sent[s] <= 1

=============================================================================
