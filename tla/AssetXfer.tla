----------------------------- MODULE AssetXfer -----------------------------
(***************************************************************************)
(* The transfer of one file (an asset) from one engine to another by       *)
(* AssetBaseXferMgr: a request, the chunks, each answered before the next  *)
(* is sent, and the complete request upon which the receiver moves what it *)
(* wrote to its place.  The file may be sent several times, each time with *)
(* a session of its own at either end; what the receiver has not completed *)
(* is named after the asset, so that all sends share this name.            *)
(*                                                                         *)
(* Each engine has one rx thread per connection, which handles its packets *)
(* in their order and, at the end of the connection, the loss.             *)
(***************************************************************************)
EXTENDS Naturals, Sequences

CONSTANTS
    Skts,      \* the connections between the two engines, each made once
    MaxSends,  \* bound: how often the file is sent
    N,         \* the chunks of the file
    Inputs     \* what happens in this instance

ASSUME MaxSendsAssumption == MaxSends \in Nat \ {0}
ASSUME ChunksAssumption == N \in Nat \ {0}
ASSUME XferInputsAssumption ==
    Inputs \subseteq {"lost", "error", "deny", "unmoved", "late", "again", "queued"}

Sends == 1..MaxSends
Chunks == 1..N

VARIABLES
    link,    \* the state of each connection
    over,    \* the sends of which the sessions have this socket
    down,    \* the packets on their way to the receiver
    sLost,   \* the connections whose loss the sender has handled
    rLost,   \* those whose loss the receiver has handled
    tx,      \* the session of each send, in m_TxSessions
    offs,    \* m_u64FileOffs of the sender, in chunks
    told,    \* the send state of the asset at the sender
    queued,  \* whether m_AssetBaseSendQue of the sender has the file, from a send without connection
    up,      \* the replies on their way to the sender
    rx,      \* the session of each send, in m_RxSessions
    got,     \* the position of the receiver's file handle, in chunks
    inode,   \* the file this handle writes to
    file,    \* the contents of each file made: the chunk at each position, 0 for none
    partial, \* the file that has the name of the incomplete download, or 0
    final    \* the file that is registered as received, or 0

netVars  == <<link, over>>
sendVars == <<tx, offs, told, queued, sLost>>
recvVars == <<rx, got, inode, file, partial, final, rLost>>
vars == <<netVars, down, sendVars, up, recvVars>>

Request(t)  == [send |-> t, kind |-> "request", ok |-> TRUE, chunk |-> 0]
Chunk(t, n) == [send |-> t, kind |-> "chunk", ok |-> TRUE, chunk |-> n]
Complete(t) == [send |-> t, kind |-> "complete", ok |-> TRUE, chunk |-> 0]
Reply(t, r) == [send |-> t, kind |-> "request", ok |-> r, chunk |-> 0]
Ack(t, r)   == [send |-> t, kind |-> "chunk", ok |-> r, chunk |-> 0]
Done(t)     == [send |-> t, kind |-> "complete", ok |-> TRUE, chunk |-> 0]
Packets ==
    [send : Sends, kind : {"request", "chunk", "complete"}, ok : BOOLEAN, chunk : 0..N]

TypeOK ==
    /\ link \in [Skts -> {"off", "up", "down"}]
    /\ over \in [Skts -> SUBSET Sends]
    /\ down \in [Skts -> Seq(Packets)]
    /\ up \in [Skts -> Seq(Packets)]
    /\ sLost \subseteq Skts
    /\ rLost \subseteq Skts
    /\ tx \in [Sends -> {"none", "open", "noFile", "ended"}]
    /\ offs \in [Sends -> 0..N]
    /\ told \in {"none", "progress", "success", "fail"}
    /\ queued \in BOOLEAN
    /\ rx \in [Sends -> {"none", "open", "moving", "ending", "gone"}]
    /\ got \in [Sends -> 0..N]
    /\ inode \in [Sends -> 0..MaxSends]
    /\ file \in [Sends -> [Chunks -> 0..N]]
    /\ partial \in 0..MaxSends
    /\ final \in 0..MaxSends

Init ==
    /\ link = [k \in Skts |-> "off"]
    /\ over = [k \in Skts |-> {}]
    /\ down = [k \in Skts |-> <<>>]
    /\ up = [k \in Skts |-> <<>>]
    /\ sLost = {}
    /\ rLost = {}
    /\ tx = [t \in Sends |-> "none"]
    /\ offs = [t \in Sends |-> 0]
    /\ queued = ("queued" \in Inputs)
    /\ told = IF queued THEN "fail" ELSE "none"
    /\ rx = [t \in Sends |-> "none"]
    /\ got = [t \in Sends |-> 0]
    /\ inode = [t \in Sends |-> 0]
    /\ file = [t \in Sends |-> [c \in Chunks |-> 0]]
    /\ partial = 0
    /\ final = 0

-----------------------------------------------------------------------------
(* The connections *)

(* A packet given to a connection that is down is lost; txPacket may or    *)
(* may not have noticed.                                                   *)
Carried(k, packets) == IF link[k] = "up" THEN packets ELSE <<>>
TxResults(k) == IF link[k] = "up" THEN {TRUE} ELSE BOOLEAN

(* A connection is made.  Unless "late", both engines have handled the     *)
(* loss of the one before; with "again", two may be there at once.         *)
Connect(k) ==
    /\ link[k] = "off"
    /\ \A j \in Skts :
        \/ link[j] = "off"
        \/ j \in sLost \intersect rLost
        \/ link[j] = "down" /\ "late" \in Inputs
        \/ "again" \in Inputs
    /\ link' = [link EXCEPT ![k] = "up"]
    /\ UNCHANGED <<over, down, sendVars, up, recvVars>>

Drop(k) ==
    /\ "lost" \in Inputs /\ link[k] = "up"
    /\ link' = [link EXCEPT ![k] = "down"]
    /\ UNCHANGED <<over, down, sendVars, up, recvVars>>

-----------------------------------------------------------------------------
(* The sender: each handler holds the transfer mutex, or gives it up for   *)
(* nothing but its last packet.                                            *)

Fresh == {t \in Sends : tx[t] = "none" /\ \A s \in Sends : s < t => tx[s] # "none"}

(* What becomes of a new session when its request and its first chunk are  *)
(* sent over k; err is what createAssetTxSessionAndSend returns.           *)
NoFile  == [tx |-> "ended", told |-> "fail", err |-> TRUE, packets |-> <<>>]
NotSent == NoFile
Unread(t) == [tx |-> "noFile", told |-> "progress", err |-> TRUE, packets |-> <<Request(t)>>]
Cut     == [tx |-> "open", told |-> "progress", err |-> TRUE, packets |-> <<>>]
Begun(t) ==
    [tx |-> "open", told |-> "progress", err |-> FALSE, packets |-> <<Request(t), Chunk(t, 1)>>]

createAssetTxSessionAndSend(t, k) ==
    {Begun(t)} \union (IF "error" \in Inputs THEN {NoFile, Unread(t)} ELSE {})
               \union (IF link[k] = "down" THEN {NotSent, Cut} ELSE {})

(* fromGuiSendAssetBase, for the user or the send queue.  Unless "again",  *)
(* no other send is under way.                                             *)
Send(k) == \E t \in Fresh : \E new \in createAssetTxSessionAndSend(t, k) :
    /\ link[k] # "off" /\ k \notin sLost
    /\ "again" \in Inputs \/ \A s \in Sends : tx[s] # "open"
    /\ over' = [over EXCEPT ![k] = @ \union {t}]
    /\ tx' = [tx EXCEPT ![t] = new.tx]
    /\ offs' = [offs EXCEPT ![t] = IF new.tx = "open" THEN 1 ELSE 0]
    /\ told' = IF new.err THEN "fail" ELSE new.told
    /\ down' = [down EXCEPT ![k] = @ \o Carried(k, new.packets)]
    /\ UNCHANGED <<link, queued, sLost, up, recvVars>>

Arrives(k, kind) == k \notin sLost /\ up[k] # <<>> /\ Head(up[k]).kind = kind
Taken(k) == up' = [up EXCEPT ![k] = Tail(@)]
End(t) == tx' = [tx EXCEPT ![t] = "ended"]

(* The reply to the request.  An ok changes nothing: the first chunk went  *)
(* with the request.  (A session not found by its id is looked for by      *)
(* asset and user; a reply comes before what else may end its session.)    *)
OnSendReply(k) ==
    /\ Arrives(k, "request")
    /\ LET m == Head(up[k]) IN
        IF ~m.ok /\ tx[m.send] \in {"open", "noFile"}
        THEN End(m.send) /\ told' = "fail"
        ELSE UNCHANGED <<tx, told>>
    /\ Taken(k)
    /\ UNCHANGED <<netVars, down, offs, queued, sLost, recvVars>>

(* onAssetBaseSent: the send state is set, and the copy of the file that   *)
(* the queue has, if any, is sent before the session ends; last is what is *)
(* sent after it has.                                                      *)
onAssetBaseSent(t, k, state, last) ==
    LET again == IF queued THEN Fresh ELSE {} IN
    \/ /\ again = {} \/ link[k] = "down"
       /\ End(t)
       /\ told' = state
       /\ down' = [down EXCEPT ![k] = @ \o Carried(k, last)]
       /\ UNCHANGED <<over, offs, queued>>
    \/ \E s \in again : \E new \in createAssetTxSessionAndSend(s, k) :
        /\ tx' = [tx EXCEPT ![t] = "ended", ![s] = new.tx]
        /\ told' = new.told
        /\ down' = [down EXCEPT ![k] = @ \o Carried(k, new.packets \o last)]
        /\ over' = [over EXCEPT ![k] = @ \union {s}]
        /\ offs' = [offs EXCEPT ![s] = IF new.tx = "open" THEN 1 ELSE 0]
        /\ queued' = new.err

(* The reply to a chunk, to a session that has none or has no file open.   *)
ChunkIgnored(k) ==
    /\ Arrives(k, "chunk") /\ tx[Head(up[k]).send] # "open"
    /\ Taken(k)
    /\ UNCHANGED <<netVars, down, sendVars, recvVars>>

(* The receiver refuses a chunk.                                           *)
Canceled(k) ==
    /\ Arrives(k, "chunk")
    /\ LET m == Head(up[k]) IN
        /\ tx[m.send] = "open" /\ ~m.ok
        /\ onAssetBaseSent(m.send, k, "fail", <<>>)
    /\ Taken(k)
    /\ UNCHANGED <<link, sLost, recvVars>>

(* Slip: the last chunk is taken for sent before it is. *)
AllSentEarly(k) ==
    /\ Arrives(k, "chunk")
    /\ LET m == Head(up[k]) IN
        /\ tx[m.send] = "open" /\ m.ok /\ offs[m.send] + 1 >= N
        /\ onAssetBaseSent(m.send, k, "success", <<Complete(m.send)>>)
    /\ Taken(k)
    /\ UNCHANGED <<link, sLost, recvVars>>

(* The reply to the last chunk: the send is a success, and the receiver is *)
(* told that it has everything.                                            *)
AllSent(k) ==
    /\ Arrives(k, "chunk")
    /\ LET m == Head(up[k]) IN
        /\ tx[m.send] = "open" /\ m.ok /\ offs[m.send] = N
        /\ onAssetBaseSent(m.send, k, "success", <<Complete(m.send)>>)
    /\ Taken(k)
    /\ UNCHANGED <<link, sLost, recvVars>>

(* Slip: the end of the file is found one chunk late. *)
NextChunkLate(k) ==
    /\ Arrives(k, "chunk")
    /\ LET m == Head(up[k])  t == m.send IN
        /\ tx[t] = "open" /\ m.ok /\ offs[t] <= N
        /\ offs' = [offs EXCEPT ![t] = @ + 1]
        /\ down' = [down EXCEPT ![k] = @ \o Carried(k, <<Chunk(t, offs[t] + 1)>>)]
        /\ \E sent \in TxResults(k) : IF sent THEN UNCHANGED tx ELSE End(t)
    /\ Taken(k)
    /\ UNCHANGED <<netVars, told, queued, sLost, recvVars>>

(* The next chunk is read and sent, over a connection that is not known to *)
(* be down.                                                                *)
NextChunk(k) ==
    /\ Arrives(k, "chunk")
    /\ LET m == Head(up[k])  t == m.send IN
        /\ tx[t] = "open" /\ m.ok /\ offs[t] < N
        /\ offs' = [offs EXCEPT ![t] = @ + 1]
        /\ down' = [down EXCEPT ![k] = @ \o Carried(k, <<Chunk(t, offs[t] + 1)>>)]
        /\ \E sent \in TxResults(k) : IF sent THEN UNCHANGED tx ELSE End(t)
    /\ Taken(k)
    /\ UNCHANGED <<netVars, told, queued, sLost, recvVars>>

(* It cannot be read: the session ends, and the receiver is not told.      *)
ReadFails(k) ==
    /\ Arrives(k, "chunk") /\ "error" \in Inputs
    /\ LET m == Head(up[k]) IN
        /\ tx[m.send] = "open" /\ m.ok /\ offs[m.send] < N
        /\ End(m.send)
    /\ Taken(k)
    /\ UNCHANGED <<netVars, down, offs, told, queued, sLost, recvVars>>

(* The reply to the complete request, whose session has ended.             *)
OnCompleteReply(k) ==
    /\ Arrives(k, "complete")
    /\ told' = "success"
    /\ Taken(k)
    /\ UNCHANGED <<netVars, down, tx, offs, queued, sLost, recvVars>>

(* Slip: only the receiving sessions of a lost connection are ended. *)
SLostRxOnly(k) ==
    /\ link[k] = "down" /\ k \notin sLost
    /\ sLost' = sLost \union {k}
    /\ up' = [up EXCEPT ![k] = <<>>]
    /\ UNCHANGED <<netVars, down, tx, offs, told, queued, recvVars>>

(* onConnectionLost at the sender; what has not been handled by then is    *)
(* lost too.                                                               *)
SLost(k) ==
    /\ link[k] = "down" /\ k \notin sLost
    /\ sLost' = sLost \union {k}
    /\ up' = [up EXCEPT ![k] = <<>>]
    /\ tx' = [t \in Sends |->
                IF t \in over[k] /\ tx[t] \in {"open", "noFile"} THEN "ended" ELSE tx[t]]
    /\ UNCHANGED <<netVars, down, offs, told, queued, recvVars>>

-----------------------------------------------------------------------------
(* The receiver *)

Busy(k) == \E t \in over[k] : rx[t] \in {"moving", "ending"}
Comes(k, kind) == k \notin rLost /\ ~Busy(k) /\ down[k] # <<>> /\ Head(down[k]).kind = kind
Handled(k) == down' = [down EXCEPT ![k] = Tail(@)]
Answer(k, packet) == up' = [up EXCEPT ![k] = @ \o Carried(k, <<packet>>)]

(* Slip: the incomplete file is left where it is. *)
EndRxOnly(t) == rx' = [rx EXCEPT ![t] = "gone"] /\ UNCHANGED partial

(* endAssetBaseXferSession and cancelDownload: the session goes, and with  *)
(* it whatever file has the name of the incomplete download.               *)
EndRx(t) == rx' = [rx EXCEPT ![t] = "gone"] /\ partial' = 0

(* A request is refused for lack of permission, before there is a session. *)
Refuse(k) ==
    /\ Comes(k, "request") /\ "deny" \in Inputs
    /\ Answer(k, Reply(Head(down[k]).send, FALSE))
    /\ Handled(k)
    /\ UNCHANGED <<netVars, sendVars, recvVars>>

(* beginAssetBaseReceive cannot create the file.                           *)
CannotReceive(k) ==
    /\ Comes(k, "request") /\ "error" \in Inputs
    /\ LET t == Head(down[k]).send IN EndRx(t) /\ Answer(k, Reply(t, FALSE))
    /\ Handled(k)
    /\ UNCHANGED <<netVars, sendVars, got, inode, file, final, rLost>>

(* beginAssetBaseReceive: the file is opened with "wb+", which truncates   *)
(* the one that has this name or makes a new one.                          *)
Receive(k) ==
    /\ Comes(k, "request")
    /\ LET t == Head(down[k]).send
           f == IF partial = 0 THEN t ELSE partial
       IN  /\ inode' = [inode EXCEPT ![t] = f]
           /\ got' = [got EXCEPT ![t] = 0]
           /\ file' = [file EXCEPT ![f] = [c \in Chunks |-> 0]]
           /\ Answer(k, Reply(t, TRUE))
           /\ \E sent \in TxResults(k) :
                IF sent THEN rx' = [rx EXCEPT ![t] = "open"] /\ partial' = f ELSE EndRx(t)
    /\ Handled(k)
    /\ UNCHANGED <<netVars, sendVars, final, rLost>>

(* A chunk for which there is no session.                                  *)
ChunkUnknown(k) ==
    /\ Comes(k, "chunk")
    /\ LET t == Head(down[k]).send IN rx[t] # "open" /\ Answer(k, Ack(t, FALSE))
    /\ Handled(k)
    /\ UNCHANGED <<netVars, sendVars, recvVars>>

(* A chunk is written where the handle stands.                             *)
ChunkWritten(k) ==
    /\ Comes(k, "chunk")
    /\ LET m == Head(down[k])  t == m.send IN
        /\ rx[t] = "open"
        /\ file' = [file EXCEPT ![inode[t]][got[t] + 1] = m.chunk]
        /\ got' = [got EXCEPT ![t] = @ + 1]
        /\ Answer(k, Ack(t, TRUE))
        /\ \E sent \in TxResults(k) : IF sent THEN UNCHANGED <<rx, partial>> ELSE EndRx(t)
    /\ Handled(k)
    /\ UNCHANGED <<netVars, sendVars, inode, final, rLost>>

(* Slip: the reply does not carry the error. *)
WriteFailsOk(k) ==
    /\ Comes(k, "chunk") /\ "error" \in Inputs
    /\ LET t == Head(down[k]).send IN rx[t] = "open" /\ EndRx(t) /\ Answer(k, Ack(t, TRUE))
    /\ Handled(k)
    /\ UNCHANGED <<netVars, sendVars, got, inode, file, final, rLost>>

(* It cannot be written.                                                   *)
WriteFails(k) ==
    /\ Comes(k, "chunk") /\ "error" \in Inputs
    /\ LET t == Head(down[k]).send IN rx[t] = "open" /\ EndRx(t) /\ Answer(k, Ack(t, FALSE))
    /\ Handled(k)
    /\ UNCHANGED <<netVars, sendVars, got, inode, file, final, rLost>>

(* finishAssetBaseReceive closes the file and replies; without session     *)
(* nothing happens.                                                        *)
OnComplete(k) ==
    /\ Comes(k, "complete")
    /\ LET t == Head(down[k]).send IN
        IF rx[t] = "open"
        THEN rx' = [rx EXCEPT ![t] = "moving"] /\ Answer(k, Done(t))
        ELSE UNCHANGED <<rx, up>>
    /\ Handled(k)
    /\ UNCHANGED <<netVars, sendVars, got, inode, file, partial, final, rLost>>

(* onAssetBaseReceived: what has the name of the incomplete download is    *)
(* moved and registered, without the transfer mutex.                       *)
Move(k, t) ==
    /\ t \in over[k] /\ rx[t] = "moving"
    /\ rx' = [rx EXCEPT ![t] = "ending"]
    /\ \E moved \in IF "unmoved" \in Inputs THEN BOOLEAN ELSE {TRUE} :
        IF moved /\ partial # 0
        THEN final' = partial /\ partial' = 0
        ELSE UNCHANGED <<final, partial>>
    /\ UNCHANGED <<netVars, down, sendVars, up, got, inode, file, rLost>>

(* onAssetBaseReceived ends the session.                                   *)
EndReceived(k, t) ==
    /\ t \in over[k] /\ rx[t] = "ending"
    /\ EndRx(t)
    /\ UNCHANGED <<netVars, down, sendVars, up, got, inode, file, final, rLost>>

(* onConnectionLost at the receiver.                                       *)
RLost(k) ==
    /\ link[k] = "down" /\ k \notin rLost /\ ~Busy(k)
    /\ rLost' = rLost \union {k}
    /\ down' = [down EXCEPT ![k] = <<>>]
    /\ rx' = [t \in Sends |-> IF t \in over[k] /\ rx[t] = "open" THEN "gone" ELSE rx[t]]
    /\ partial' = IF rx' = rx THEN partial ELSE 0
    /\ UNCHANGED <<netVars, sendVars, up, got, inode, file, final>>

-----------------------------------------------------------------------------
(* The specification *)

OnChunkReply(k) ==
    ChunkIgnored(k) \/ Canceled(k) \/ AllSent(k) \/ NextChunk(k) \/ ReadFails(k)

SenderStep(k) == OnSendReply(k) \/ OnChunkReply(k) \/ OnCompleteReply(k) \/ SLost(k)

OnRequest(k) == Refuse(k) \/ CannotReceive(k) \/ Receive(k)
OnChunk(k) == ChunkUnknown(k) \/ ChunkWritten(k) \/ WriteFails(k)

ReceiverStep(k) ==
    \/ OnRequest(k) \/ OnChunk(k) \/ OnComplete(k) \/ RLost(k)
    \/ \E t \in Sends : Move(k, t) \/ EndReceived(k, t)

Next == \E k \in Skts :
    Connect(k) \/ Drop(k) \/ Send(k) \/ SenderStep(k) \/ ReceiverStep(k)

Spec == Init /\ [][Next]_vars

(* The rx threads of both engines run.  Nothing is assumed of connections  *)
(* and users.                                                              *)
Fairness == \A k \in Skts : WF_vars(SenderStep(k)) /\ WF_vars(ReceiverStep(k))

FairSpec == Spec /\ Fairness

-----------------------------------------------------------------------------
(* Properties *)

(* What is registered as received is the file, every chunk in its place,   *)
(* whatever fails, is refused or sent again.                               *)
ReceivedWhole == final # 0 => \A c \in Chunks : file[final][c] = c

(* An incomplete file on the receiver's disk belongs to a session that     *)
(* will complete or delete it.                                             *)
PartialsEnd == partial # 0 => \E t \in Sends : rx[t] \in {"open", "moving", "ending"}

OnItsWay(t) ==
    \/ rx[t] = "moving"
    \/ \E k \in Skts : \E i \in 1..Len(down[k]) : down[k][i] = Complete(t)

(* As long as no connection is lost, the sender takes the file for sent    *)
(* only when the receiver has it, or has all of it and is told so.         *)
SuccessIsHeld ==
    told = "success" /\ (\A k \in Skts : link[k] # "down") =>
        final # 0 \/ \E t \in Sends : OnItsWay(t)

(* README-CHATROOM.md: the sender marks the transfer complete upon the     *)
(* reply to the complete request.  So it does not when the receiver has    *)
(* not replied to one.                                                     *)
SuccessIsAnswered == told = "success" => final # 0 \/ \E t \in Sends : rx[t] = "moving"

(* A send ends, whatever becomes of the connection.                        *)
SendsEnd == \A t \in Sends : tx[t] = "open" ~> tx[t] # "open"

=============================================================================
