----------------------------- MODULE RandConnect -----------------------------
(***************************************************************************)
(* Random connect: members of a random connect host offer each other a     *)
(* one-on-one session. A member's packet goes to the host, which sends it  *)
(* to every member, its sender included; each member keeps the open offers *)
(* in its engine (RandConnectMgr) and, of those it takes part in, in its   *)
(* GUI (GuiRandConnectMgr). The host reads each member's packets on an rx  *)
(* thread of its own, so that packets of two members may reach a third in  *)
(* an order other than that in which they were caused.                     *)
(***************************************************************************)
EXTENDS Naturals, Sequences

CONSTANTS
    Members,
    Sessions, \* the session ids an instance may use, one per offer
    From, To, \* who makes the offer of a session, and to whom
    Inputs,   \* what happens in this instance
    NoPkt,    \* no packet
    MaxAnswers \* bound: how many answers the users give in all

ASSUME PartiesAssumption ==
    /\ From \in [Sessions -> Members] /\ To \in [Sessions -> Members]
    /\ \A s \in Sessions : From[s] # To[s]
ASSUME RandInputsAssumption == Inputs \subseteq {"cancel", "list", "refuse", "drop", "rejoin"}
ASSUME MaxAnswersAssumption == MaxAnswers \in Nat

Parties(s) == {From[s], To[s]}

(* The terminal offer actions of ERandAction. *)
Answers  == {"Accept", "Reject", "Cancel"}
Timeouts == {"NoResponse", "Missed"}
Terminal == Answers \union Timeouts

(* PktRandConnectReq and its reply, which is addressed to the other party. *)
Packets == {p \in [from : Members, action : Terminal \union {"Request"}, session : Sessions] :
               p.from \in Parties(p.session) /\ (p.action = "Request" => p.from = From[p.session])}

Packet(m, a, s) == [from |-> m, action |-> a, session |-> s]

ASSUME NoPktAssumption == NoPkt \notin Packets

(* What the popup menu for a member offers.                                *)
Items == [peer : Members, action : Answers \union {"Request"}]

VARIABLES
    online,   \* the members connected to the host
    uplink,   \* packets on their way from a member to the host
    relaying, \* the packet the rx thread of a member broadcasts at the host
    todo,     \* the connections it has yet to send it to
    downlink, \* packets on their way from the host to a member
    offers,   \* RandConnectMgr::m_OfferList, by session
    pending,  \* GuiRandConnectMgr::m_OfferList, by session
    menu,     \* what the menu shows that is open at a member
    offered,  \* the sessions used so far
    acted,    \* the sessions whose acceptance came back and found the offer pending
    launched, \* the sessions a member's GUI started
    ended,    \* for each session, the terminal actions anyone sent
    answers,  \* how many answers users gave
    dropped   \* whether anyone ever lost a connection

net     == <<online, uplink, relaying, todo, downlink>>
history == <<offered, acted, launched, ended, answers, dropped>>
vars    == <<net, offers, pending, menu, history>>

TypeOK ==
    /\ online \subseteq Members
    /\ uplink \in [Members -> Seq(Packets)]
    /\ relaying \in [Members -> Packets \union {NoPkt}]
    /\ todo \in [Members -> SUBSET Members]
    /\ downlink \in [Members -> Seq(Packets)]
    /\ offers \in [Members -> SUBSET Sessions]
    /\ pending \in [Members -> SUBSET Sessions]
    /\ \A m \in Members : \A s \in pending[m] : m \in Parties(s)
    /\ menu \in [Members -> SUBSET Items]
    /\ offered \subseteq Sessions
    /\ acted \in [Members -> SUBSET Sessions]
    /\ launched \in [Members -> SUBSET Sessions]
    /\ ended \in [Sessions -> SUBSET Terminal]
    /\ answers \in Nat
    /\ dropped \in BOOLEAN

Init ==
    /\ online = Members
    /\ uplink = [m \in Members |-> <<>>]
    /\ relaying = [m \in Members |-> NoPkt]
    /\ todo = [m \in Members |-> {}]
    /\ downlink = [m \in Members |-> <<>>]
    /\ offers = [m \in Members |-> {}]
    /\ pending = [m \in Members |-> {}]
    /\ menu = [m \in Members |-> {}]
    /\ offered = {}
    /\ acted = [m \in Members |-> {}]
    /\ launched = [m \in Members |-> {}]
    /\ ended = [s \in Sessions |-> {}]
    /\ answers = 0
    /\ dropped = FALSE

-----------------------------------------------------------------------------
(* A member's GUI *)

(* The definitions whose comment begins with "Slip" are no part of Next:   *)
(* each is the next definition with a mistake its code could have, and     *)
(* shows that a property depends on that code.                             *)

(* The offers between member m and peer p that m's GUI has pending, made   *)
(* by p (incoming) or by m. Which of several comes first is left open.     *)
Incoming(m, p) == {s \in pending[m] : From[s] = p /\ To[s] = m}
Outgoing(m, p) == {s \in pending[m] : From[s] = m /\ To[s] = p}

(* fromGuiSendRandConnectAction: only a connected member sends.            *)
Send(m, a, s) ==
    IF m \in online
    THEN /\ uplink' = [uplink EXCEPT ![m] = Append(@, Packet(m, a, s))]
         /\ ended' = [ended EXCEPT ![s] = @ \union ({a} \intersect Terminal)]
    ELSE UNCHANGED <<uplink, ended>>

Answer(m, a, s) == answers < MaxAnswers /\ answers' = answers + 1 /\ Send(m, a, s)

(* The menu for peer p shows what was possible when it was opened.         *)
OpenMenu(m, p) ==
    /\ p # m
    /\ menu' = [menu EXCEPT ![m] =
         [peer : {p}, action : {a \in Answers \union {"Request"} :
             CASE a = "Request" -> Incoming(m, p) \union Outgoing(m, p) = {}
               [] a = "Cancel" -> "cancel" \in Inputs /\ Outgoing(m, p) # {}
               [] OTHER -> Incoming(m, p) # {}}]]
    /\ UNCHANGED <<net, offers, pending, history>>

(* sendRandConnectOfferRequest, with a new session id. *)
Offer(m, s) ==
    /\ m = From[s] /\ s \notin offered /\ m \in online
    /\ [peer |-> To[s], action |-> "Request"] \in menu[m]
    /\ offered' = offered \union {s}
    /\ menu' = [menu EXCEPT ![m] = {}]
    /\ Send(m, "Request", s)
    /\ UNCHANGED <<online, relaying, todo, downlink, offers, pending, acted, launched, answers, dropped>>

(* sendRandConnectOfferResponse answers an incoming offer of the peer,     *)
(* else an outgoing one, else none, whatever the menu was opened for.      *)
Respond(m) ==
    \E item \in menu[m] :
        LET p == item.peer
            first == IF Incoming(m, p) # {} THEN Incoming(m, p) ELSE Outgoing(m, p)
        IN  /\ item.action # "Request"
            /\ menu' = [menu EXCEPT ![m] = {}]
            /\ \/ \E s \in first : Answer(m, item.action, s)
               \/ first = {} /\ UNCHANGED <<uplink, ended, answers>>
            /\ UNCHANGED <<online, relaying, todo, downlink, offers, pending, offered, acted, launched, dropped>>

Launch(m, s) == launched' = [launched EXCEPT ![m] = @ \union {s}]

(* GuiOfferMgrBase::launchOfferResponseAccept starts the session, unless a *)
(* session applet is open or the new one refuses it.  Who could not send   *)
(* gets here when an ordinary offer reply reaches the peer, or not at all. *)
LaunchInList(m, s) ==
    \/ Launch(m, s)
    \/ ("refuse" \in Inputs \/ m \notin online) /\ UNCHANGED launched

(* The offer list answers the incoming offer with the session id it shows, *)
(* and who accepts there starts the session at once; the offer is pending  *)
(* until the answer comes back (GuiOfferMgrBase::acceptOffer, rejectOffer).*)
RespondInList(m, s) ==
    /\ "list" \in Inputs
    /\ s \in pending[m] /\ m = To[s]
    /\ \/ Answer(m, "Accept", s) /\ LaunchInList(m, s)
       \/ Answer(m, "Reject", s) /\ UNCHANGED launched
    /\ UNCHANGED <<online, relaying, todo, downlink, offers, pending, menu, offered, acted, dropped>>

(* Slip: only the one who made the offer watches the time. *)
TimeoutOwn(m, s) ==
    /\ s \in pending[m] /\ m = From[s]
    /\ pending' = [pending EXCEPT ![m] = @ \ {s}]
    /\ Send(m, "NoResponse", s)
    /\ UNCHANGED <<online, relaying, todo, downlink, offers, menu, offered, acted, launched, answers, dropped>>

(* Slip: the others are not told. *)
TimeoutUntold(m, s) ==
    /\ s \in pending[m]
    /\ pending' = [pending EXCEPT ![m] = @ \ {s}]
    /\ UNCHANGED <<net, offers, menu, history>>

(* slotOfferTimeoutCheck, for one offer that is pending for 17 seconds by  *)
(* this member's clock.                                                    *)
OfferTimeout(m, s) ==
    /\ s \in pending[m]
    /\ pending' = [pending EXCEPT ![m] = @ \ {s}]
    /\ Send(m, IF m = To[s] THEN "Missed" ELSE "NoResponse", s)
    /\ UNCHANGED <<online, relaying, todo, downlink, offers, menu, offered, acted, launched, answers, dropped>>

-----------------------------------------------------------------------------
(* The host: the rx thread that reads the packets of member m *)

(* Slip: the sender of the request is excluded. *)
BroadcastToOthers(m) ==
    /\ relaying[m] = NoPkt /\ uplink[m] # <<>>
    /\ uplink' = [uplink EXCEPT ![m] = Tail(@)]
    /\ todo' = [todo EXCEPT ![m] = online \ {m}]
    /\ relaying' = IF online \ {m} = {} THEN relaying ELSE [relaying EXCEPT ![m] = Head(uplink[m])]
    /\ UNCHANGED <<online, downlink, offers, pending, menu, history>>

(* onPktRandConnectReq: the connections are copied ...                     *)
BroadcastStart(m) ==
    /\ relaying[m] = NoPkt /\ uplink[m] # <<>>
    /\ uplink' = [uplink EXCEPT ![m] = Tail(@)]
    /\ todo' = [todo EXCEPT ![m] = online]
    /\ relaying' = IF online = {} THEN relaying ELSE [relaying EXCEPT ![m] = Head(uplink[m])]
    /\ UNCHANGED <<online, downlink, offers, pending, menu, history>>

(* Slip: the packet is given up with the first send. *)
BroadcastOnce(m) ==
    \E x \in todo[m] :
        /\ todo' = [todo EXCEPT ![m] = @ \ {x}]
        /\ downlink' = IF x \in online THEN [downlink EXCEPT ![x] = Append(@, relaying[m])] ELSE downlink
        /\ relaying' = [relaying EXCEPT ![m] = NoPkt]
        /\ UNCHANGED <<online, uplink, offers, pending, menu, history>>

(* ... and the reply is sent to each that is still connected.              *)
BroadcastSend(m) ==
    \E x \in todo[m] :
        /\ todo' = [todo EXCEPT ![m] = @ \ {x}]
        /\ downlink' = IF x \in online THEN [downlink EXCEPT ![x] = Append(@, relaying[m])] ELSE downlink
        /\ relaying' = IF todo[m] = {x} THEN [relaying EXCEPT ![m] = NoPkt] ELSE relaying
        /\ UNCHANGED <<online, uplink, offers, pending, menu, history>>

HostStep(m) == BroadcastStart(m) \/ BroadcastSend(m)

-----------------------------------------------------------------------------
(* A member receives: its engine and then, by a queued signal, its GUI *)

(* RandConnectMgr::updateRandConnectOfferStatus *)
UpdateOffers(list, p) ==
    IF p.action = "Request" THEN list \union {p.session} ELSE list \ {p.session}

(* Slip: an accepted offer stays in the list. *)
UpdateKeepsAccepted(list, p) ==
    IF p.action = "Request" THEN list \union {p.session}
    ELSE IF p.action = "Accept" THEN list ELSE list \ {p.session}

(* GuiRandConnectMgr::updateRandConnectOffer: a request is added, a        *)
(* terminal action erases what is there.                                   *)
UpdatePending(list, p) ==
    IF p.action = "Request" THEN list \union {p.session} ELSE list \ {p.session}

(* launchAcceptedOfferSession starts the session, or it is refused: the    *)
(* peer is not a known user, the applet is open with another peer, or the  *)
(* session does not begin.  A session that was started in the offer list   *)
(* goes on.                                                                *)
LaunchAccepted(m, s) ==
    \/ Launch(m, s)
    \/ "refuse" \in Inputs /\ UNCHANGED launched

(* Of an accepted offer that is still pending, now erased, the session is  *)
(* launched. Of the offers of others the GUI wants to know nothing.        *)
OnPktRandConnectReply(m) ==
    LET p == Head(downlink[m])
        accepted == m \in Parties(p.session) /\ p.action = "Accept" /\ p.session \in pending[m]
    IN  /\ downlink[m] # <<>>
        /\ downlink' = [downlink EXCEPT ![m] = Tail(@)]
        /\ offers' = [offers EXCEPT ![m] = UpdateOffers(@, p)]
        /\ pending' = IF m \in Parties(p.session)
                      THEN [pending EXCEPT ![m] = UpdatePending(@, p)] ELSE pending
        /\ IF accepted
           THEN acted' = [acted EXCEPT ![m] = @ \union {p.session}] /\ LaunchAccepted(m, p.session)
           ELSE UNCHANGED <<acted, launched>>
        /\ UNCHANGED <<online, uplink, relaying, todo, menu, offered, ended, answers, dropped>>

-----------------------------------------------------------------------------
(* Connections *)

(* A connection ends: of what is under way on it, the first packets may    *)
(* still arrive. The lists of the member keep their offers.                *)
Drop(m) ==
    /\ "drop" \in Inputs /\ m \in online
    /\ online' = online \ {m}
    /\ dropped' = TRUE
    /\ \E i \in 0..Len(uplink[m]), j \in 0..Len(downlink[m]) :
          /\ uplink' = [uplink EXCEPT ![m] = SubSeq(@, 1, i)]
          /\ downlink' = [downlink EXCEPT ![m] = SubSeq(@, 1, j)]
    /\ UNCHANGED <<relaying, todo, offers, pending, menu, offered, acted, launched, ended, answers>>

(* The member joins again, when the threads of the old connection are done.*)
Rejoin(m) ==
    /\ "rejoin" \in Inputs /\ m \notin online
    /\ uplink[m] = <<>> /\ relaying[m] = NoPkt /\ downlink[m] = <<>>
    /\ online' = online \union {m}
    /\ UNCHANGED <<uplink, relaying, todo, downlink, offers, pending, menu, history>>

GuiStep(m) ==
    \/ \E p \in Members : OpenMenu(m, p)
    \/ Respond(m)
    \/ \E s \in Sessions : Offer(m, s) \/ RespondInList(m, s) \/ OfferTimeout(m, s)

Next == \E m \in Members :
    GuiStep(m) \/ HostStep(m) \/ OnPktRandConnectReply(m) \/ Drop(m) \/ Rejoin(m)

Spec == Init /\ [][Next]_vars

(* The rx threads and the timer run; nothing is assumed of the users.      *)
FairSpec ==
    /\ Spec
    /\ \A m \in Members :
          /\ WF_vars(HostStep(m))
          /\ WF_vars(OnPktRandConnectReply(m))
          /\ \A s \in Sessions : WF_vars(OfferTimeout(m, s))

-----------------------------------------------------------------------------
(* Properties *)

(* An offer whose acceptance came back is over for that member: no copy of *)
(* its request and no second acceptance can make it pending, and so act on *)
(* it, again.  A session that runs while its offer is still pending is one *)
(* the addressee started in the offer list (updateRandConnectOffer,        *)
(* GuiOfferMgrBase::acceptOffer).                                          *)
AcceptedIsOver ==
    \A m \in Members :
        /\ acted[m] \intersect pending[m] = {}
        /\ \A s \in launched[m] \intersect pending[m] : m = To[s]

(* No session runs whose offer is still pending, so that it would be       *)
(* launched again when the acceptance comes back.                          *)
LaunchedOnce == \A m \in Members : launched[m] \intersect pending[m] = {}

(* A packet about session s is under way. *)
OnItsWay(s) ==
    \E m \in Members :
        \/ \E i \in 1..Len(uplink[m]) : uplink[m][i].session = s
        \/ relaying[m] # NoPkt /\ relaying[m].session = s
        \/ \E i \in 1..Len(downlink[m]) : downlink[m][i].session = s

(* Nothing more will happen to the offer of session s.                     *)
Settled(s) == ~OnItsWay(s) /\ \A m \in Parties(s) : s \notin pending[m]

(* When an acceptance is the only answer anyone gave to an offer, and no   *)
(* connection was lost, it reaches the offer at both parties while this is *)
(* pending, also at the one who gave it: each tries to start the session   *)
(* (launchAcceptedOfferSession), and does where nothing refuses it.        *)
AcceptedReachesBoth ==
    \A s \in Sessions :
        ended[s] = {"Accept"} /\ Settled(s) /\ ~dropped =>
            \A m \in Parties(s) :
                s \in acted[m] /\ ("refuse" \notin Inputs => s \in launched[m])

(* After such an acceptance nobody starts the session alone.               *)
NobodyAlone ==
    \A s \in Sessions :
        ended[s] = {"Accept"} /\ Settled(s) /\ ~dropped =>
            (s \in launched[From[s]] <=> s \in launched[To[s]])

(* Every offer ends at its parties' GUIs, at the latest by the timer, even *)
(* when the connection is lost: nobody stays waiting.                      *)
OffersEnd == \A m \in Members, s \in Sessions : s \in pending[m] ~> s \notin pending[m]

(* The engines of the parties forget an offer, however its answers cross,  *)
(* unless a connection is lost.                                            *)
PartiesForget ==
    \A s \in Sessions : \A m \in Parties(s) :
        s \in offers[m] ~> s \notin offers[m] \/ dropped

(* "observers can maintain consistent distributed state": when all is said *)
(* about an offer, its parties agree whether there is a session.           *)
ConsistentOutcome ==
    \A s \in Sessions :
        Settled(s) /\ ~dropped => (s \in launched[From[s]] <=> s \in launched[To[s]])

=============================================================================
