-------------------------- MODULE RandConnectProof --------------------------
(***************************************************************************)
(* Theorems about RandConnect, for any members, sessions and inputs.       *)
(***************************************************************************)
EXTENDS RandConnect, TLAPS

-----------------------------------------------------------------------------
(* Sequences *)

LEMMA Appended ==
    ASSUME NEW S, NEW q \in Seq(S), NEW e \in S
    PROVE  /\ Append(q, e) \in Seq(S)
           /\ Len(q) \in Nat
           /\ Len(Append(q, e)) = Len(q) + 1
           /\ \A i \in 1..Len(q) : Append(q, e)[i] = q[i] /\ q[i] \in S
           /\ Append(q, e)[Len(q) + 1] = e
OBVIOUS

LEMMA Taken ==
    ASSUME NEW S, NEW q \in Seq(S), q # <<>>
    PROVE  /\ Tail(q) \in Seq(S)
           /\ Len(q) \in Nat \ {0}
           /\ Len(Tail(q)) = Len(q) - 1
           /\ \A i \in 1..Len(Tail(q)) : Tail(q)[i] = q[i + 1]
           /\ Head(q) = q[1] /\ q[1] \in S
           /\ \A i \in 1..Len(q) : q[i] \in S
OBVIOUS

LEMMA Cut ==
    ASSUME NEW S, NEW q \in Seq(S), NEW n \in 0..Len(q)
    PROVE  /\ SubSeq(q, 1, n) \in Seq(S)
           /\ Len(SubSeq(q, 1, n)) = n
           /\ \A i \in 1..n : SubSeq(q, 1, n)[i] = q[i]
           /\ 1..n \subseteq 1..Len(q)
OBVIOUS

-----------------------------------------------------------------------------
(* The inductive invariant *)

IsRequest(p, s) == p \in Packets /\ p.action = "Request" /\ p.session = s

(* A packet under way came from the member whose thread carries it, and    *)
(* what it says was said. A thread has a packet while it has recipients.   *)
Said(p, said) == p.action \in Terminal => p.action \in said[p.session]

CarryInv ==
    /\ \A m \in Members : \A i \in 1..Len(uplink[m]) : uplink[m][i].from = m /\ Said(uplink[m][i], ended)
    /\ \A m \in Members : relaying[m] # NoPkt => relaying[m].from = m /\ Said(relaying[m], ended)
    /\ \A m \in Members : todo[m] # {} => relaying[m] # NoPkt
    /\ \A m \in Members : \A i \in 1..Len(downlink[m]) : Said(downlink[m][i], ended)

(* Member x has not had the request of s, nor is it on the last way to x.  *)
Fresh(s, x) == s \notin pending[x] /\ s \notin acted[x]
NotDown(s, x) == \A i \in 1..Len(downlink[x]) : ~IsRequest(downlink[x][i], s)

UpInv ==
    \A m \in Members, s \in Sessions : \A i \in 1..Len(uplink[m]) :
        IsRequest(uplink[m][i], s) =>
            /\ s \in offered
            /\ \A j \in 1..Len(uplink[m]) : IsRequest(uplink[m][j], s) => j = i
            /\ ~IsRequest(relaying[m], s)
            /\ \A x \in Members : Fresh(s, x) /\ NotDown(s, x)

RelayInv ==
    \A m \in Members, s \in Sessions :
        IsRequest(relaying[m], s) => s \in offered /\ \A x \in todo[m] : Fresh(s, x) /\ NotDown(s, x)

DownInv ==
    \A x \in Members, s \in Sessions : \A i \in 1..Len(downlink[x]) :
        IsRequest(downlink[x][i], s) =>
            /\ s \in offered
            /\ Fresh(s, x)
            /\ \A j \in 1..Len(downlink[x]) : IsRequest(downlink[x][j], s) => j = i

OfferedInv ==
    /\ \A x \in Members : pending[x] \union acted[x] \subseteq offered
    /\ \A s \in Sessions : ended[s] # {} => s \in offered

(* The request of a session reaches each party, where it stays until it is *)
(* acted on, if nobody says anything but that he accepts.                  *)
OnTheWay(s, x) ==
    \/ \E i \in 1..Len(uplink[From[s]]) : IsRequest(uplink[From[s]][i], s)
    \/ IsRequest(relaying[From[s]], s) /\ x \in todo[From[s]]
    \/ \E i \in 1..Len(downlink[x]) : IsRequest(downlink[x][i], s)

ReachInv ==
    ~dropped =>
        /\ online = Members
        /\ \A s \in offered : \A x \in Parties(s) :
              ended[s] \subseteq {"Accept"} => OnTheWay(s, x) \/ s \in pending[x] \/ s \in acted[x]

(* What was acted on is not pending.                                      *)
ActedOnce == \A x \in Members : acted[x] \intersect pending[x] = {}

OnceInv == UpInv /\ RelayInv /\ DownInv /\ OfferedInv /\ ActedOnce

OfferInv == TypeOK /\ CarryInv /\ OnceInv /\ ReachInv

-----------------------------------------------------------------------------
(* Steps with the same effect on the offers *)

(* What a user or the timer does about an offer that is pending. *)
Ends(m, a, s) ==
    /\ m \in Members /\ s \in pending[m] /\ a \in Terminal
    /\ Send(m, a, s)
    /\ \/ pending' = pending
       \/ pending' = [pending EXCEPT ![m] = @ \ {s}] /\ a \in Timeouts
    /\ UNCHANGED <<online, relaying, todo, downlink, offers, offered, acted, dropped>>
    /\ launched' \in [Members -> SUBSET Sessions]
    /\ menu' \in [Members -> SUBSET Items] /\ answers' \in Nat

(* What leaves packets and offers alone. *)
Idle == UNCHANGED <<net, offers, pending, offered, acted, launched, ended, dropped>> /\ menu' \in [Members -> SUBSET Items] /\ answers' \in Nat

LEMMA LaunchTypes ==
    ASSUME TypeOK, NEW m \in Members, NEW s \in Sessions, UNCHANGED launched \/ Launch(m, s)
    PROVE  launched' \in [Members -> SUBSET Sessions]
<1>1. launched \in [Members -> SUBSET Sessions]
  BY DEF TypeOK
<1>2. CASE UNCHANGED launched
  BY <1>1, <1>2
<1>3. CASE Launch(m, s)
  BY ONLY <1>1, <1>3, m \in Members, s \in Sessions DEF Launch
<1> QED BY <1>2, <1>3

LEMMA GuiSteps ==
    ASSUME TypeOK, NEW m \in Members, GuiStep(m)
    PROVE  \/ Idle
           \/ \E s \in Sessions : Offer(m, s)
           \/ \E a \in Terminal, s \in Sessions : Ends(m, a, s)
<1>1. ASSUME NEW p \in Members, OpenMenu(m, p) PROVE Idle
  <2>1. menu' \in [Members -> SUBSET Items]
    BY <1>1 DEF OpenMenu, TypeOK, Items
  <2> QED BY <1>1, <2>1 DEF OpenMenu, Idle, net, history, TypeOK
<1>2. ASSUME Respond(m)
      PROVE  Idle \/ \E a \in Terminal, s \in Sessions : Ends(m, a, s)
  <2> PICK item \in menu[m] :
        /\ item.action # "Request"
        /\ menu' = [menu EXCEPT ![m] = {}]
        /\ \/ \E s \in pending[m] : Answer(m, item.action, s)
           \/ UNCHANGED <<uplink, ended, answers>>
        /\ UNCHANGED <<online, relaying, todo, downlink, offers, pending, offered, acted, launched, dropped>>
    BY <1>2 DEF Respond, Incoming, Outgoing
  <2>1. item.action \in Terminal
    BY DEF TypeOK, Items, Terminal
  <2>2. menu' \in [Members -> SUBSET Items]
    BY DEF TypeOK
  <2>3. CASE UNCHANGED <<uplink, ended, answers>>
    BY <2>2, <2>3 DEF Idle, net, TypeOK
  <2>4. ASSUME NEW s \in pending[m], Answer(m, item.action, s)
        PROVE  Ends(m, item.action, s) /\ s \in Sessions
    BY <2>1, <2>2, <2>4 DEF Ends, Answer, TypeOK
  <2> QED BY <2>1, <2>3, <2>4
<1>3. ASSUME NEW s \in Sessions, RespondInList(m, s)
      PROVE  \E a \in Terminal : Ends(m, a, s)
  <2> PICK a \in {"Accept", "Reject"} : Answer(m, a, s)
    BY <1>3 DEF RespondInList
  <2>1. launched' \in [Members -> SUBSET Sessions]
    BY <1>3, LaunchTypes DEF RespondInList, LaunchInList
  <2>2. Ends(m, a, s)
    BY <1>3, <2>1 DEF RespondInList, Ends, Answer, TypeOK, Terminal, Answers
  <2> QED BY <2>2 DEF Terminal, Answers
<1>4. ASSUME NEW s \in Sessions, OfferTimeout(m, s)
      PROVE  \E a \in Terminal : Ends(m, a, s)
  <2> DEFINE a == IF m = To[s] THEN "Missed" ELSE "NoResponse"
  <2>1. Ends(m, a, s)
    BY <1>4 DEF OfferTimeout, Ends, TypeOK, Terminal, Timeouts
  <2> QED BY <2>1 DEF Terminal, Timeouts
<1> QED BY <1>1, <1>2, <1>3, <1>4 DEF GuiStep

(* Sending appends a packet of the sender, or does nothing. *)
Sent(m, a, s) ==
    /\ uplink' \in [Members -> Seq(Packets)]
    /\ ended' \in [Sessions -> SUBSET Terminal]
    /\ \A n \in Members : n # m => uplink'[n] = uplink[n]
    /\ \/ uplink' = uplink
       \/ /\ m \in online
          /\ Len(uplink[m]) \in Nat
          /\ Len(uplink'[m]) = Len(uplink[m]) + 1
          /\ \A i \in 1..Len(uplink[m]) : uplink'[m][i] = uplink[m][i]
          /\ uplink'[m][Len(uplink[m]) + 1] = Packet(m, a, s)
    /\ m \in online => uplink' # uplink
    /\ Packet(m, a, s) \in Packets
    /\ \A r \in Sessions : r # s => ended'[r] = ended[r]
    /\ ended'[s] = IF m \in online THEN ended[s] \union ({a} \intersect Terminal) ELSE ended[s]

LEMMA Sends ==
    ASSUME TypeOK, NEW m \in Members, NEW s \in Sessions, m \in Parties(s),
           NEW a \in Terminal \union {"Request"}, a = "Request" => m = From[s],
           Send(m, a, s)
    PROVE  Sent(m, a, s)
<1> USE DEF Sent
<1>1. Packet(m, a, s) \in Packets
  BY PartiesAssumption DEF Packet, Packets
<1>2. uplink[m] \in Seq(Packets)
  BY DEF TypeOK
<1>3. CASE m \in online
  <2>1. uplink' = [uplink EXCEPT ![m] = Append(uplink[m], Packet(m, a, s))]
        /\ ended' = [ended EXCEPT ![s] = ended[s] \union ({a} \intersect Terminal)]
    BY <1>3 DEF Send
  <2>2. uplink'[m] = Append(uplink[m], Packet(m, a, s))
    BY <2>1 DEF TypeOK
  <2> QED BY <1>1, <1>2, <1>3, <2>1, <2>2, Appended DEF TypeOK
<1>4. CASE m \notin online
  BY <1>1, <1>4 DEF Send, TypeOK
<1> QED BY <1>3, <1>4

-----------------------------------------------------------------------------
(* Each step keeps the invariant *)

LEMMA IdleKeeps == ASSUME OfferInv, Idle PROVE OfferInv'
<1>1. TypeOK'
  BY DEF OfferInv, Idle, net, TypeOK
<1>2. CarryInv'
  BY DEF OfferInv, Idle, net, CarryInv, Said
<1>3. UpInv' /\ RelayInv' /\ DownInv'
  BY DEF OfferInv, OnceInv, Idle, net, UpInv, RelayInv, DownInv, Fresh, NotDown
<1>4. OfferedInv' /\ ActedOnce'
  BY DEF OfferInv, OnceInv, Idle, net, OfferedInv, ActedOnce
<1>5. ReachInv'
  BY DEF OfferInv, Idle, net, ReachInv, OnTheWay
<1> QED BY <1>1, <1>2, <1>3, <1>4, <1>5 DEF OfferInv, OnceInv

LEMMA EndsKeeps ==
    ASSUME OfferInv, NEW m \in Members, NEW a \in Terminal, NEW s \in Sessions, Ends(m, a, s)
    PROVE  OfferInv'
<1> USE DEF OfferInv, OnceInv
<1>1. m \in Parties(s) /\ s \in offered /\ a # "Request" /\ Send(m, a, s)
  BY DEF Ends, TypeOK, OfferedInv, Terminal, Answers, Timeouts
<1>2. /\ uplink' \in [Members -> Seq(Packets)]
      /\ ended' \in [Sessions -> SUBSET Terminal]
      /\ \A n \in Members : n # m => uplink'[n] = uplink[n]
      /\ \/ uplink' = uplink
         \/ /\ m \in online
            /\ Len(uplink[m]) \in Nat
            /\ Len(uplink'[m]) = Len(uplink[m]) + 1
            /\ \A i \in 1..Len(uplink[m]) : uplink'[m][i] = uplink[m][i]
            /\ uplink'[m][Len(uplink[m]) + 1] = Packet(m, a, s)
      /\ \A r \in Sessions : r # s => ended'[r] = ended[r]
      /\ ended'[s] = IF m \in online THEN ended[s] \union {a} ELSE ended[s]
  <2>1. {a} \intersect Terminal = {a}
    OBVIOUS
  <2>2. TypeOK /\ a \in Terminal \union {"Request"} /\ (a = "Request" => m = From[s])
    BY <1>1
  <2> HIDE DEF OfferInv, OnceInv
  <2>3. Sent(m, a, s)
    BY <1>1, <2>2, Sends
  <2> QED BY <2>1, <2>3 DEF Sent
<1>3. /\ UNCHANGED <<online, relaying, todo, downlink, offers, offered, acted, dropped>>
      /\ launched' \in [Members -> SUBSET Sessions]
      /\ \A x \in Members : pending'[x] \subseteq pending[x]
      /\ pending' \in [Members -> SUBSET Sessions]
      /\ menu' \in [Members -> SUBSET Items] /\ answers' \in Nat
  <2>1. /\ \A x \in Members : pending'[x] \subseteq pending[x]
        /\ pending' \in [Members -> SUBSET Sessions]
    <3>1. pending \in [Members -> SUBSET Sessions]
      BY DEF TypeOK
    <3>2. pending' = pending \/ pending' = [pending EXCEPT ![m] = @ \ {s}]
      BY DEF Ends
    <3> QED BY ONLY <3>1, <3>2
  <2> QED BY <2>1 DEF Ends
<1>4. \A r \in Sessions : ended[r] \subseteq ended'[r]
  BY <1>2
<1>5. /\ Packet(m, a, s).from = m /\ Packet(m, a, s).action = a /\ Packet(m, a, s).session = s
      /\ \A r \in Sessions : ~IsRequest(Packet(m, a, s), r)
  BY <1>1 DEF Packet, IsRequest
<1>6. \A n \in Members : \A i \in 1..Len(uplink'[n]) :
         \/ i \in 1..Len(uplink[n]) /\ uplink'[n][i] = uplink[n][i]
         \/ n = m /\ uplink'[n][i] = Packet(m, a, s) /\ m \in online
  BY <1>2
<1>7. \A n \in Members : \A i \in 1..Len(uplink[n]) : i \in 1..Len(uplink'[n]) /\ uplink'[n][i] = uplink[n][i]
  BY <1>2
<1>8. \A p \in Packets : Said(p, ended) => Said(p, ended')
  BY <1>4 DEF Said, Packets
<1>10. TypeOK'
  BY <1>2, <1>3 DEF TypeOK
<1>11. CarryInv'
  <2>1. ASSUME NEW n \in Members, NEW i \in 1..Len(uplink'[n])
        PROVE  uplink'[n][i].from = n /\ Said(uplink'[n][i], ended')
    <3>1. CASE i \in 1..Len(uplink[n]) /\ uplink'[n][i] = uplink[n][i]
      <4>1. uplink[n][i] \in Packets
        BY <3>1 DEF TypeOK
      <4> QED BY <3>1, <4>1, <1>8 DEF CarryInv
    <3>2. CASE n = m /\ uplink'[n][i] = Packet(m, a, s) /\ m \in online
      BY <3>2, <1>2, <1>5 DEF Said
    <3> QED BY <3>1, <3>2, <1>6
  <2>2. ASSUME NEW n \in Members, relaying'[n] # NoPkt
        PROVE  relaying'[n].from = n /\ Said(relaying'[n], ended')
    <3>1. relaying[n] \in Packets /\ relaying'[n] = relaying[n]
      BY <2>2, <1>3 DEF TypeOK
    <3> QED BY <2>2, <3>1, <1>8 DEF CarryInv
  <2>3. ASSUME NEW n \in Members, NEW i \in 1..Len(downlink'[n])
        PROVE  Said(downlink'[n][i], ended')
    <3>1. downlink[n][i] \in Packets /\ downlink'[n][i] = downlink[n][i]
      BY <2>3, <1>3 DEF TypeOK
    <3> QED BY <2>3, <3>1, <1>3, <1>8 DEF CarryInv
  <2> QED BY <2>1, <2>2, <2>3, <1>3 DEF CarryInv
<1>12. UpInv'
  <2> SUFFICES ASSUME NEW n \in Members, NEW r \in Sessions, NEW i \in 1..Len(uplink'[n]),
                      IsRequest(uplink'[n][i], r)
               PROVE  /\ r \in offered'
                      /\ \A j \in 1..Len(uplink'[n]) : IsRequest(uplink'[n][j], r) => j = i
                      /\ ~IsRequest(relaying'[n], r)
                      /\ \A x \in Members : Fresh(r, x)' /\ NotDown(r, x)'
    BY DEF UpInv
  <2>1. i \in 1..Len(uplink[n]) /\ uplink'[n][i] = uplink[n][i]
    BY <1>5, <1>6
  <2>2. \A j \in 1..Len(uplink'[n]) : IsRequest(uplink'[n][j], r) => IsRequest(uplink[n][j], r) /\ j \in 1..Len(uplink[n])
    BY <1>5, <1>6
  <2> QED BY <2>1, <2>2, <1>3 DEF UpInv, Fresh, NotDown
<1>13. RelayInv' /\ DownInv'
  BY <1>3 DEF RelayInv, DownInv, Fresh, NotDown, TypeOK
<1>14. OfferedInv' /\ ActedOnce'
  BY <1>1, <1>2, <1>3 DEF OfferedInv, ActedOnce
<1>15. ReachInv'
  <2> SUFFICES ASSUME ~dropped, NEW r \in offered, NEW x \in Parties(r), ended'[r] \subseteq {"Accept"}
               PROVE  OnTheWay(r, x)' \/ r \in pending'[x] \/ r \in acted'[x]
    BY <1>3 DEF ReachInv
  <2>1. r \in Sessions /\ x \in Members /\ From[r] \in Members
    BY PartiesAssumption DEF TypeOK, Parties
  <2>2. m \in online /\ a \in ended'[s]
    BY <1>2 DEF ReachInv
  <2>3. OnTheWay(r, x) \/ r \in pending[x] \/ r \in acted[x]
    BY <2>1, <1>4 DEF ReachInv
  <2>4. OnTheWay(r, x) => OnTheWay(r, x)'
    BY <2>1, <1>3, <1>7 DEF OnTheWay
  <2>5. r \in pending[x] => r \in pending'[x]
    <3>1. CASE pending' = pending
      BY <3>1
    <3>2. CASE pending' = [pending EXCEPT ![m] = @ \ {s}] /\ a \in Timeouts
      <4>1. r # s
        BY <3>2, <2>2 DEF Timeouts
      <4> QED BY <3>2, <4>1, <2>1 DEF TypeOK
    <3> QED BY <3>1, <3>2 DEF Ends
  <2> QED BY <2>3, <2>4, <2>5, <1>3
<1> QED BY <1>10, <1>11, <1>12, <1>13, <1>14, <1>15

LEMMA OfferKeeps ==
    ASSUME OfferInv, NEW m \in Members, NEW s \in Sessions, Offer(m, s)
    PROVE  OfferInv'
<1> USE DEF OfferInv, OnceInv
<1> DEFINE p == Packet(m, "Request", s)
<1>1. m = From[s] /\ m \in Parties(s) /\ s \notin offered /\ m \in online
  BY DEF Offer, Parties
<1>2. Sent(m, "Request", s)
  BY <1>1, Sends DEF Offer
<1>3. /\ UNCHANGED <<online, relaying, todo, downlink, offers, pending, acted, launched, answers, dropped>>
      /\ offered' = offered \union {s}
      /\ menu' = [menu EXCEPT ![m] = {}]
  BY DEF Offer
<1>4. ended' = ended
  <2>1. {"Request"} \intersect Terminal = {}
    BY DEF Terminal, Answers, Timeouts
  <2>2. ended'[s] = ended[s]
    BY <1>2, <2>1 DEF Sent
  <2> QED BY <1>2, <2>2 DEF Sent, TypeOK
<1>5. /\ Len(uplink[m]) \in Nat
      /\ Len(uplink'[m]) = Len(uplink[m]) + 1
      /\ \A i \in 1..Len(uplink[m]) : uplink'[m][i] = uplink[m][i]
      /\ uplink'[m][Len(uplink[m]) + 1] = p
      /\ \A n \in Members : n # m => uplink'[n] = uplink[n]
      /\ uplink' \in [Members -> Seq(Packets)] /\ p \in Packets
  BY <1>1, <1>2 DEF Sent
<1>6. \A n \in Members : \A i \in 1..Len(uplink'[n]) :
         \/ i \in 1..Len(uplink[n]) /\ uplink'[n][i] = uplink[n][i]
         \/ n = m /\ uplink'[n][i] = p /\ i = Len(uplink[m]) + 1
  BY <1>5
<1>7. \A n \in Members : \A i \in 1..Len(uplink[n]) : i \in 1..Len(uplink'[n]) /\ uplink'[n][i] = uplink[n][i]
  BY <1>5
<1>8. p.from = m /\ p.action = "Request" /\ p.session = s /\ IsRequest(p, s)
  BY <1>5 DEF Packet, IsRequest
<1>9. \A r \in Sessions : IsRequest(p, r) => r = s
  BY <1>8 DEF IsRequest
<1> HIDE DEF p
<1>10. TypeOK'
  BY <1>3, <1>4, <1>5 DEF TypeOK
<1>11. CarryInv'
  <2>1. Said(p, ended)
    BY <1>8 DEF Said, Terminal, Answers, Timeouts
  <2> QED BY <2>1, <1>3, <1>4, <1>6, <1>8 DEF CarryInv
<1>12. UpInv'
  <2> SUFFICES ASSUME NEW n \in Members, NEW r \in Sessions, NEW i \in 1..Len(uplink'[n]),
                      IsRequest(uplink'[n][i], r)
               PROVE  /\ r \in offered'
                      /\ \A j \in 1..Len(uplink'[n]) : IsRequest(uplink'[n][j], r) => j = i
                      /\ ~IsRequest(relaying'[n], r)
                      /\ \A x \in Members : Fresh(r, x)' /\ NotDown(r, x)'
    BY DEF UpInv
  <2>1. CASE i \in 1..Len(uplink[n]) /\ uplink'[n][i] = uplink[n][i]
    <3>1. r \in offered /\ r # s
      BY <2>1, <1>1 DEF UpInv
    <3> QED BY <2>1, <3>1, <1>3, <1>6, <1>9, SMTT(30) DEF UpInv, Fresh, NotDown
  <2>2. CASE n = m /\ uplink'[n][i] = p /\ i = Len(uplink[m]) + 1
    <3>1. r = s
      BY <2>2, <1>9
    <3>2. \A j \in 1..Len(uplink'[n]) : IsRequest(uplink'[n][j], r) => j = i
      BY <2>2, <3>1, <1>1, <1>6 DEF UpInv
    <3>3. ~IsRequest(relaying[n], r) /\ \A x \in Members : NotDown(r, x)
      BY <3>1, <1>1 DEF RelayInv, DownInv, NotDown
    <3> QED BY <3>1, <3>2, <3>3, <1>1, <1>3 DEF OfferedInv, Fresh, NotDown
  <2> QED BY <2>1, <2>2, <1>6
<1>13. RelayInv' /\ DownInv'
  BY <1>3 DEF RelayInv, DownInv, Fresh, NotDown, TypeOK
<1>14. OfferedInv' /\ ActedOnce'
  BY <1>3, <1>4 DEF OfferedInv, ActedOnce
<1>15. ReachInv'
  <2> SUFFICES ASSUME ~dropped, NEW r \in offered', NEW x \in Parties(r), ended[r] \subseteq {"Accept"}
               PROVE  OnTheWay(r, x)' \/ r \in pending[x] \/ r \in acted[x]
    BY <1>3, <1>4 DEF ReachInv
  <2>1. r \in Sessions /\ x \in Members /\ From[r] \in Members
    BY <1>3, PartiesAssumption DEF TypeOK, Parties
  <2>2. OnTheWay(r, x) => OnTheWay(r, x)'
    BY <2>1, <1>3, <1>7 DEF OnTheWay
  <2>3. OnTheWay(s, x)'
    <3>1. Len(uplink[m]) + 1 \in 1..Len(uplink'[m])
      BY <1>5
    <3> QED BY <3>1, <1>1, <1>5, <1>8 DEF OnTheWay
  <2> QED BY <2>2, <2>3, <1>3 DEF ReachInv
<1> QED BY <1>10, <1>11, <1>12, <1>13, <1>14, <1>15

LEMMA StartKeeps ==
    ASSUME OfferInv, NEW m \in Members, BroadcastStart(m)
    PROVE  OfferInv'
<1> USE DEF OfferInv, OnceInv
<1>1. /\ relaying[m] = NoPkt /\ uplink[m] # <<>>
      /\ uplink' = [uplink EXCEPT ![m] = Tail(@)]
      /\ todo' = [todo EXCEPT ![m] = online]
      /\ relaying' = IF online = {} THEN relaying ELSE [relaying EXCEPT ![m] = Head(uplink[m])]
      /\ UNCHANGED <<online, downlink, offers, pending, menu, history>>
  BY DEF BroadcastStart
<1>2. UNCHANGED <<offered, acted, launched, ended, answers, dropped>>
  BY <1>1 DEF history
<1>3. uplink[m] \in Seq(Packets)
  BY DEF TypeOK
<1>4. /\ Tail(uplink[m]) \in Seq(Packets)
      /\ Len(uplink[m]) \in Nat \ {0}
      /\ Len(Tail(uplink[m])) = Len(uplink[m]) - 1
      /\ \A i \in 1..Len(Tail(uplink[m])) : Tail(uplink[m])[i] = uplink[m][i + 1]
      /\ Head(uplink[m]) = uplink[m][1] /\ uplink[m][1] \in Packets
  BY <1>1, <1>3, Taken
<1>5. /\ uplink'[m] = Tail(uplink[m])
      /\ \A n \in Members : n # m => uplink'[n] = uplink[n] /\ relaying'[n] = relaying[n] /\ todo'[n] = todo[n]
      /\ todo'[m] = online
      /\ relaying'[m] = IF online = {} THEN NoPkt ELSE uplink[m][1]
  BY <1>1, <1>4 DEF TypeOK
<1>6. \A n \in Members : \A i \in 1..Len(uplink'[n]) :
         \/ n # m /\ i \in 1..Len(uplink[n]) /\ uplink'[n][i] = uplink[n][i]
         \/ n = m /\ i + 1 \in 1..Len(uplink[n]) /\ uplink'[n][i] = uplink[n][i + 1] /\ i \in Nat \ {0}
  <2>1. ASSUME NEW i \in 1..Len(uplink'[m])
        PROVE  i + 1 \in 1..Len(uplink[m]) /\ uplink'[m][i] = uplink[m][i + 1] /\ i \in Nat \ {0}
    <3>1. i \in 1..(Len(uplink[m]) - 1) /\ i \in 1..Len(Tail(uplink[m]))
      BY <1>4, <1>5
    <3>2. uplink'[m][i] = uplink[m][i + 1]
      BY <3>1, <1>4, <1>5
    <3> QED BY <3>1, <3>2, <1>4
  <2> QED BY <2>1, <1>5
<1>7. \A r \in Sessions : ~IsRequest(NoPkt, r)
  BY NoPktAssumption DEF IsRequest
<1>8. 1 \in 1..Len(uplink[m])
  BY <1>4
<1>10. TypeOK'
  BY <1>1, <1>2, <1>4 DEF TypeOK
<1>11. CarryInv'
  <2>1. uplink[m][1].from = m /\ Said(uplink[m][1], ended)
    BY <1>8 DEF CarryInv
  <2>2. \A n \in Members : \A i \in 1..Len(uplink'[n]) : uplink'[n][i].from = n /\ Said(uplink'[n][i], ended')
    BY <1>2, <1>6 DEF CarryInv
  <2>3. \A n \in Members : /\ relaying'[n] # NoPkt => relaying'[n].from = n /\ Said(relaying'[n], ended')
                           /\ todo'[n] # {} => relaying'[n] # NoPkt
    BY <1>2, <1>4, <1>5, <2>1, NoPktAssumption DEF CarryInv
  <2> QED BY <1>1, <1>2, <2>2, <2>3 DEF CarryInv
<1>12. UpInv'
  <2> SUFFICES ASSUME NEW n \in Members, NEW r \in Sessions, NEW i \in 1..Len(uplink'[n]),
                      IsRequest(uplink'[n][i], r)
               PROVE  /\ r \in offered'
                      /\ \A j \in 1..Len(uplink'[n]) : IsRequest(uplink'[n][j], r) => j = i
                      /\ ~IsRequest(relaying'[n], r)
                      /\ \A x \in Members : Fresh(r, x)' /\ NotDown(r, x)'
    BY DEF UpInv
  <2>1. CASE n # m
    BY <2>1, <1>1, <1>2, <1>5, <1>6 DEF UpInv, Fresh, NotDown
  <2>2. CASE n = m
    <3>1. i + 1 \in 1..Len(uplink[m]) /\ IsRequest(uplink[m][i + 1], r) /\ i \in Nat \ {0}
      BY <2>2, <1>6
    <3>2. /\ r \in offered
          /\ \A j \in 1..Len(uplink[m]) : IsRequest(uplink[m][j], r) => j = i + 1
          /\ \A x \in Members : Fresh(r, x) /\ NotDown(r, x)
      BY <3>1 DEF UpInv
    <3>3. ~IsRequest(uplink[m][1], r)
      BY <3>1, <3>2, <1>8
    <3>4. \A j \in 1..Len(uplink'[n]) : IsRequest(uplink'[n][j], r) => j = i
      BY <2>2, <3>1, <3>2, <1>6
    <3> QED BY <2>2, <3>2, <3>3, <3>4, <1>1, <1>2, <1>5, <1>7 DEF Fresh, NotDown
  <2> QED BY <2>1, <2>2
<1>13. RelayInv'
  <2> SUFFICES ASSUME NEW n \in Members, NEW r \in Sessions, IsRequest(relaying'[n], r)
               PROVE  r \in offered' /\ \A x \in todo'[n] : Fresh(r, x)' /\ NotDown(r, x)'
    BY DEF RelayInv
  <2>1. CASE n # m
    BY <2>1, <1>1, <1>2, <1>5 DEF RelayInv, Fresh, NotDown, TypeOK
  <2>2. CASE n = m
    <3>1. IsRequest(uplink[m][1], r)
      BY <2>2, <1>5, <1>7
    <3> QED BY <2>2, <3>1, <1>1, <1>2, <1>5, <1>8 DEF UpInv, Fresh, NotDown, TypeOK
  <2> QED BY <2>1, <2>2
<1>14. DownInv' /\ OfferedInv' /\ ActedOnce'
  BY <1>1, <1>2 DEF DownInv, OfferedInv, ActedOnce, Fresh
<1>15. ReachInv'
  <2> SUFFICES ASSUME ~dropped, NEW r \in offered, NEW x \in Parties(r), ended[r] \subseteq {"Accept"},
                      OnTheWay(r, x)
               PROVE  OnTheWay(r, x)'
    BY <1>1, <1>2 DEF ReachInv
  <2>1. r \in Sessions /\ x \in Members /\ From[r] \in Members /\ online = Members /\ online # {}
    BY PartiesAssumption DEF TypeOK, Parties, ReachInv
  <2>2. CASE \E i \in 1..Len(uplink[From[r]]) : IsRequest(uplink[From[r]][i], r)
    <3> PICK i \in 1..Len(uplink[From[r]]) : IsRequest(uplink[From[r]][i], r)
      BY <2>2
    <3>1. CASE From[r] # m
      BY <2>1, <3>1, <1>5 DEF OnTheWay
    <3>2. CASE From[r] = m /\ i = 1
      BY <2>1, <3>2, <1>5 DEF OnTheWay
    <3>3. CASE From[r] = m /\ i # 1
      <4>1. i - 1 \in 1..Len(uplink'[m]) /\ uplink'[m][i - 1] = uplink[m][i]
        BY <3>3, <1>4, <1>5
      <4> QED BY <3>3, <4>1 DEF OnTheWay
    <3> QED BY <3>1, <3>2, <3>3
  <2>3. CASE IsRequest(relaying[From[r]], r) /\ x \in todo[From[r]]
    <3>1. From[r] # m
      BY <2>1, <2>3, <1>1, <1>7
    <3> QED BY <2>1, <2>3, <3>1, <1>5 DEF OnTheWay
  <2>4. CASE \E i \in 1..Len(downlink[x]) : IsRequest(downlink[x][i], r)
    BY <2>4, <1>1 DEF OnTheWay
  <2> QED BY <2>2, <2>3, <2>4 DEF OnTheWay
<1> QED BY <1>10, <1>11, <1>12, <1>13, <1>14, <1>15

LEMMA SendKeeps ==
    ASSUME OfferInv, NEW m \in Members, BroadcastSend(m)
    PROVE  OfferInv'
<1> USE DEF OfferInv, OnceInv
<1> PICK x \in todo[m] :
        /\ todo' = [todo EXCEPT ![m] = @ \ {x}]
        /\ downlink' = IF x \in online THEN [downlink EXCEPT ![x] = Append(@, relaying[m])] ELSE downlink
        /\ relaying' = IF todo[m] = {x} THEN [relaying EXCEPT ![m] = NoPkt] ELSE relaying
        /\ UNCHANGED <<online, uplink, offers, pending, menu, history>>
  BY DEF BroadcastSend
<1> DEFINE p == relaying[m]
<1>1. UNCHANGED <<offered, acted, launched, ended, answers, dropped>>
  BY DEF history
<1>2. x \in Members /\ p \in Packets /\ p # NoPkt /\ p.from = m /\ Said(p, ended)
  BY NoPktAssumption DEF CarryInv, TypeOK
<1>3. downlink[x] \in Seq(Packets)
  BY <1>2 DEF TypeOK
<1>4. /\ Append(downlink[x], p) \in Seq(Packets)
      /\ Len(downlink[x]) \in Nat
      /\ Len(Append(downlink[x], p)) = Len(downlink[x]) + 1
      /\ \A i \in 1..Len(downlink[x]) : Append(downlink[x], p)[i] = downlink[x][i] /\ downlink[x][i] \in Packets
      /\ Append(downlink[x], p)[Len(downlink[x]) + 1] = p
  BY <1>2, <1>3, Appended
<1>5. /\ \A y \in Members : y # x => downlink'[y] = downlink[y]
      /\ x \in online => downlink'[x] = Append(downlink[x], p)
      /\ x \notin online => downlink'[x] = downlink[x]
  BY <1>2 DEF TypeOK
<1>6. \A y \in Members : \A i \in 1..Len(downlink'[y]) :
         \/ i \in 1..Len(downlink[y]) /\ downlink'[y][i] = downlink[y][i]
         \/ y = x /\ downlink'[y][i] = p /\ i = Len(downlink[x]) + 1
  <2>1. ASSUME NEW i \in 1..Len(downlink'[x]), x \in online
        PROVE  \/ i \in 1..Len(downlink[x]) /\ downlink'[x][i] = downlink[x][i]
               \/ downlink'[x][i] = p /\ i = Len(downlink[x]) + 1
    BY <2>1, <1>4, <1>5
  <2> QED BY <2>1, <1>5
<1>7. \A y \in Members : \A i \in 1..Len(downlink[y]) : i \in 1..Len(downlink'[y]) /\ downlink'[y][i] = downlink[y][i]
  <2>1. ASSUME NEW i \in 1..Len(downlink[x]), x \in online
        PROVE  i \in 1..Len(downlink'[x]) /\ downlink'[x][i] = downlink[x][i]
    BY <2>1, <1>4, <1>5
  <2> QED BY <2>1, <1>5
<1>8. /\ \A n \in Members : n # m => relaying'[n] = relaying[n] /\ todo'[n] = todo[n]
      /\ todo'[m] = todo[m] \ {x}
      /\ relaying'[m] = IF todo[m] = {x} THEN NoPkt ELSE p
  BY DEF TypeOK
<1>9. /\ \A r \in Sessions : ~IsRequest(NoPkt, r)
      /\ \A r \in Sessions : IsRequest(p, r) => m = From[r]
  BY <1>2, NoPktAssumption DEF IsRequest, Packets
<1> HIDE DEF p
<1>10. TypeOK'
  <2>1. downlink' \in [Members -> Seq(Packets)]
    BY <1>4 DEF TypeOK, p
  <2>2. todo' \in [Members -> SUBSET Members] /\ relaying' \in [Members -> Packets \union {NoPkt}]
    BY DEF TypeOK
  <2> QED BY <2>1, <2>2, <1>1 DEF TypeOK
<1>11. CarryInv'
  <2>1. \A n \in Members : /\ relaying'[n] # NoPkt => relaying'[n].from = n /\ Said(relaying'[n], ended')
                           /\ todo'[n] # {} => relaying'[n] # NoPkt
    BY <1>1, <1>2, <1>8 DEF CarryInv
  <2>2. \A y \in Members : \A i \in 1..Len(downlink'[y]) : Said(downlink'[y][i], ended')
    BY <1>1, <1>2, <1>6 DEF CarryInv
  <2> QED BY <2>1, <2>2, <1>1 DEF CarryInv
<1>12. UpInv'
  <2> SUFFICES ASSUME NEW n \in Members, NEW r \in Sessions, NEW i \in 1..Len(uplink[n]),
                      IsRequest(uplink[n][i], r)
               PROVE  /\ ~IsRequest(relaying'[n], r)
                      /\ \A y \in Members : NotDown(r, y)'
    BY <1>1 DEF UpInv, Fresh
  <2>1. n = From[r]
    BY DEF TypeOK, IsRequest, Packets, CarryInv
  <2>2. ~IsRequest(p, r)
    BY <2>1, <1>9 DEF UpInv, p
  <2> QED BY <2>2, <1>6, <1>8, <1>9 DEF UpInv, NotDown
<1>13. RelayInv'
  <2> SUFFICES ASSUME NEW n \in Members, NEW r \in Sessions, IsRequest(relaying'[n], r), NEW y \in todo'[n]
               PROVE  NotDown(r, y)'
    <3>1. ASSUME NEW n \in Members, NEW r \in Sessions, IsRequest(relaying'[n], r)
          PROVE  r \in offered' /\ \A y \in todo'[n] : Fresh(r, y)'
      BY <3>1, <1>1, <1>8, <1>9 DEF RelayInv, Fresh, p
    <3> QED BY <3>1 DEF RelayInv
  <2>1. IsRequest(relaying[n], r) /\ y \in todo[n] /\ y \in Members
    BY <1>8, <1>9 DEF TypeOK, p
  <2>2. \A i \in 1..Len(downlink[y]) : ~IsRequest(downlink[y][i], r)
    BY <2>1 DEF RelayInv, NotDown
  <2>3. CASE n = m
    BY <2>1, <2>2, <2>3, <1>6, <1>8 DEF NotDown
  <2>4. CASE n # m
    <3>1. n = From[r]
      BY <2>1, NoPktAssumption DEF TypeOK, IsRequest, Packets, CarryInv
    <3>2. ~IsRequest(p, r)
      BY <3>1, <2>4, <1>9
    <3> QED BY <3>2, <2>1, <2>2, <1>6 DEF NotDown
  <2> QED BY <2>3, <2>4
<1>14. DownInv'
  <2> SUFFICES ASSUME NEW y \in Members, NEW r \in Sessions, NEW i \in 1..Len(downlink'[y]),
                      IsRequest(downlink'[y][i], r)
               PROVE  /\ r \in offered /\ Fresh(r, y)
                      /\ \A j \in 1..Len(downlink'[y]) : IsRequest(downlink'[y][j], r) => j = i
    BY <1>1 DEF DownInv, Fresh
  <2>1. IsRequest(p, r) => r \in offered /\ Fresh(r, x) /\ \A j \in 1..Len(downlink[x]) : ~IsRequest(downlink[x][j], r)
    BY DEF RelayInv, NotDown, p
  <2>2. CASE i \in 1..Len(downlink[y]) /\ downlink'[y][i] = downlink[y][i]
    BY <2>1, <2>2, <1>6 DEF DownInv
  <2>3. CASE y = x /\ downlink'[y][i] = p /\ i = Len(downlink[x]) + 1
    BY <2>1, <2>3, <1>6
  <2> QED BY <2>2, <2>3, <1>6
<1>15. OfferedInv' /\ ActedOnce'
  BY <1>1 DEF OfferedInv, ActedOnce
<1>16. ReachInv'
  <2> SUFFICES ASSUME ~dropped, NEW r \in offered, NEW y \in Parties(r), ended[r] \subseteq {"Accept"},
                      OnTheWay(r, y)
               PROVE  OnTheWay(r, y)'
    BY <1>1 DEF ReachInv
  <2>1. r \in Sessions /\ y \in Members /\ From[r] \in Members /\ online = Members
    BY PartiesAssumption DEF TypeOK, Parties, ReachInv
  <2>2. CASE \E i \in 1..Len(uplink[From[r]]) : IsRequest(uplink[From[r]][i], r)
    BY <2>2 DEF OnTheWay
  <2>3. CASE IsRequest(relaying[From[r]], r) /\ y \in todo[From[r]]
    <3>1. CASE From[r] = m /\ y = x
      <4>1. Len(downlink[x]) + 1 \in 1..Len(downlink'[x]) /\ downlink'[x][Len(downlink[x]) + 1] = p
        BY <2>1, <1>2, <1>4, <1>5
      <4> QED BY <2>3, <3>1, <4>1 DEF OnTheWay, p
    <3>2. CASE From[r] = m /\ y # x
      BY <2>1, <2>3, <3>2, <1>8 DEF OnTheWay, p
    <3>3. CASE From[r] # m
      BY <2>1, <2>3, <3>3, <1>8 DEF OnTheWay
    <3> QED BY <3>1, <3>2, <3>3
  <2>4. CASE \E i \in 1..Len(downlink[y]) : IsRequest(downlink[y][i], r)
    BY <2>1, <2>4, <1>7 DEF OnTheWay
  <2> QED BY <2>2, <2>3, <2>4 DEF OnTheWay
<1> QED BY <1>10, <1>11, <1>12, <1>13, <1>14, <1>15, <1>16

LEMMA ReceiveKeeps ==
    ASSUME OfferInv, NEW m \in Members, OnPktRandConnectReply(m)
    PROVE  OfferInv'
<1> USE DEF OfferInv, OnceInv
<1> DEFINE p == downlink[m][1]
           s == p.session
<1>1. /\ downlink[m] # <<>>
      /\ downlink' = [downlink EXCEPT ![m] = Tail(@)]
      /\ UNCHANGED <<online, uplink, relaying, todo, menu, offered, ended, answers, dropped>>
  BY DEF OnPktRandConnectReply
<1>2. downlink[m] \in Seq(Packets)
  BY DEF TypeOK
<1>3. /\ Tail(downlink[m]) \in Seq(Packets)
      /\ Len(downlink[m]) \in Nat \ {0}
      /\ Len(Tail(downlink[m])) = Len(downlink[m]) - 1
      /\ \A i \in 1..Len(Tail(downlink[m])) : Tail(downlink[m])[i] = downlink[m][i + 1]
      /\ Head(downlink[m]) = p /\ p \in Packets
  BY <1>1, <1>2, Taken
<1>4. 1 \in 1..Len(downlink[m]) /\ Said(p, ended)
  BY <1>3 DEF CarryInv
<1>5. /\ downlink'[m] = Tail(downlink[m])
      /\ \A y \in Members : y # m => downlink'[y] = downlink[y]
  BY <1>1 DEF TypeOK
<1>6. \A y \in Members : \A i \in 1..Len(downlink'[y]) :
         \/ y # m /\ i \in 1..Len(downlink[y]) /\ downlink'[y][i] = downlink[y][i]
         \/ y = m /\ i + 1 \in 1..Len(downlink[y]) /\ downlink'[y][i] = downlink[y][i + 1] /\ i \in Nat \ {0}
  <2>1. ASSUME NEW i \in 1..Len(downlink'[m])
        PROVE  i + 1 \in 1..Len(downlink[m]) /\ downlink'[m][i] = downlink[m][i + 1] /\ i \in Nat \ {0}
    <3>1. i \in 1..(Len(downlink[m]) - 1) /\ i \in 1..Len(Tail(downlink[m]))
      BY <1>3, <1>5
    <3>2. downlink'[m][i] = downlink[m][i + 1]
      BY <3>1, <1>3, <1>5
    <3> QED BY <3>1, <3>2, <1>3
  <2> QED BY <2>1, <1>5
<1>7. s \in Sessions /\ (IsRequest(p, s) <=> p.action = "Request")
      /\ (p.action \in Terminal <=> p.action # "Request")
  BY <1>3 DEF Packets, IsRequest, Terminal, Answers, Timeouts
<1>8. \A r \in Sessions : IsRequest(p, r) => r = s
  BY DEF IsRequest
<1>9. IsRequest(p, s) => s \in offered /\ Fresh(s, m) /\ \A j \in 1..Len(downlink'[m]) : ~IsRequest(downlink'[m][j], s)
  <2> SUFFICES ASSUME IsRequest(p, s)
               PROVE  s \in offered /\ Fresh(s, m) /\ \A j \in 1..Len(downlink'[m]) : ~IsRequest(downlink'[m][j], s)
    OBVIOUS
  <2>1. s \in offered /\ Fresh(s, m) /\ \A j \in 1..Len(downlink[m]) : IsRequest(downlink[m][j], s) => j = 1
    BY <1>4, <1>7 DEF DownInv
  <2> QED BY <2>1, <1>6
<1> HIDE DEF p
<1> HIDE DEF s
<1>10. /\ pending' \in [Members -> SUBSET Sessions] /\ acted' \in [Members -> SUBSET Sessions]
       /\ \A y \in Members : y # m => pending'[y] = pending[y] /\ acted'[y] = acted[y]
       /\ p.action # "Request" /\ m \in Parties(s) => pending'[m] = pending[m] \ {s}
       /\ p.action = "Request" /\ m \in Parties(s) => pending'[m] = pending[m] \union {s}
       /\ m \notin Parties(s) => pending'[m] = pending[m] /\ acted'[m] = acted[m]
       /\ p.action = "Accept" /\ m \in Parties(s) /\ s \in pending[m] => acted'[m] = acted[m] \union {s}
       /\ p.action # "Accept" \/ s \notin pending[m] => acted'[m] = acted[m]
       /\ offers' \in [Members -> SUBSET Sessions] /\ launched' \in [Members -> SUBSET Sessions]
  <2>1. /\ offers' = [offers EXCEPT ![m] = UpdateOffers(@, p)]
        /\ pending' = IF m \in Parties(s) THEN [pending EXCEPT ![m] = UpdatePending(@, p)] ELSE pending
        /\ IF m \in Parties(s) /\ p.action = "Accept" /\ s \in pending[m]
           THEN acted' = [acted EXCEPT ![m] = @ \union {s}] /\ LaunchAccepted(m, s)
           ELSE UNCHANGED <<acted, launched>>
    BY <1>3 DEF OnPktRandConnectReply, s
  <2>0. launched' \in [Members -> SUBSET Sessions]
    <3>1. UNCHANGED launched \/ Launch(m, s)
      BY <2>1, Zenon DEF LaunchAccepted
    <3>2. TypeOK
      OBVIOUS
    <3> QED BY ONLY <3>1, <3>2, <1>7, LaunchTypes, m \in Members
  <2>2. UpdatePending(pending[m], p) = IF p.action = "Request" THEN pending[m] \union {s} ELSE pending[m] \ {s}
    BY DEF UpdatePending, s
  <2>3. UpdateOffers(offers[m], p) = IF p.action = "Request" THEN offers[m] \union {s} ELSE offers[m] \ {s}
    BY DEF UpdateOffers, s
  <2>4. offers' \in [Members -> SUBSET Sessions]
    BY <2>1, <2>3, <1>7 DEF TypeOK
  <2>5. CASE m \in Parties(s)
    <3>1. CASE p.action = "Accept" /\ s \in pending[m]
      <4>1. /\ pending' = [pending EXCEPT ![m] = pending[m] \ {s}]
            /\ acted' = [acted EXCEPT ![m] = acted[m] \union {s}]
        BY <2>1, <2>2, <2>5, <3>1
      <4> QED BY <4>1, <2>0, <2>4, <2>5, <3>1, <1>7 DEF TypeOK
    <3>2. CASE ~(p.action = "Accept" /\ s \in pending[m])
      <4>1. /\ pending' = [pending EXCEPT ![m] = IF p.action = "Request" THEN pending[m] \union {s}
                                                 ELSE pending[m] \ {s}]
            /\ acted' = acted
        BY <2>1, <2>2, <2>5, <3>2 DEF TypeOK
      <4> QED BY <4>1, <2>0, <2>4, <2>5, <3>2, <1>7 DEF TypeOK
    <3> QED BY <3>1, <3>2
  <2>6. CASE m \notin Parties(s)
    BY <2>0, <2>1, <2>4, <2>6 DEF TypeOK
  <2> QED BY <2>5, <2>6
<1>11. \A y \in Members, r \in Sessions : Fresh(r, y) => Fresh(r, y)' \/ (y = m /\ IsRequest(p, r))
  <2> SUFFICES ASSUME NEW r \in Sessions, Fresh(r, m)
               PROVE  (r \notin pending'[m] /\ r \notin acted'[m]) \/ IsRequest(p, r)
    BY <1>10 DEF Fresh
  <2>1. CASE r # s
    BY <2>1, <1>7, <1>10 DEF Fresh
  <2>2. CASE r = s /\ p.action # "Request"
    BY <2>2, <1>10 DEF Fresh
  <2>3. CASE r = s /\ p.action = "Request"
    BY <2>3, <1>7
  <2> QED BY <2>1, <2>2, <2>3
<1>12. \A y \in Members, r \in Sessions : NotDown(r, y) => NotDown(r, y)' /\ ~(y = m /\ IsRequest(p, r))
  BY <1>4, <1>6 DEF NotDown, p
<1>13. TypeOK'
  <2>1. downlink' \in [Members -> Seq(Packets)]
    BY <1>1, <1>3 DEF TypeOK
  <2>2. ASSUME NEW y \in Members, NEW r \in pending'[y] PROVE y \in Parties(r)
    <3>1. CASE r \in pending[y]
      BY <3>1 DEF TypeOK
    <3>2. CASE r \notin pending[y]
      BY <2>2, <3>2, <1>10
    <3> QED BY <3>1, <3>2
  <2> QED BY <2>1, <2>2, <1>1, <1>10 DEF TypeOK
<1>14. CarryInv'
  <2>1. \A y \in Members : \A i \in 1..Len(downlink'[y]) : Said(downlink'[y][i], ended')
    BY <1>1, <1>6 DEF CarryInv
  <2> QED BY <2>1, <1>1 DEF CarryInv
<1>15. UpInv'
  BY <1>1, <1>11, <1>12 DEF UpInv
<1>16. RelayInv'
  BY <1>1, <1>11, <1>12 DEF RelayInv, TypeOK
<1>17. DownInv'
  <2> SUFFICES ASSUME NEW y \in Members, NEW r \in Sessions, NEW i \in 1..Len(downlink'[y]),
                      IsRequest(downlink'[y][i], r)
               PROVE  /\ r \in offered /\ Fresh(r, y)'
                      /\ \A j \in 1..Len(downlink'[y]) : IsRequest(downlink'[y][j], r) => j = i
    BY <1>1 DEF DownInv
  <2>1. CASE y # m
    BY <2>1, <1>6, <1>11 DEF DownInv
  <2>2. CASE y = m
    <3>1. i + 1 \in 1..Len(downlink[m]) /\ IsRequest(downlink[m][i + 1], r) /\ i \in Nat \ {0}
      BY <2>2, <1>6
    <3>2. r \in offered /\ Fresh(r, m) /\ \A j \in 1..Len(downlink[m]) : IsRequest(downlink[m][j], r) => j = i + 1
      BY <3>1 DEF DownInv
    <3>3. ~IsRequest(p, r)
      BY <3>1, <3>2, <1>4 DEF p
    <3>4. \A j \in 1..Len(downlink'[m]) : IsRequest(downlink'[m][j], r) => j = i
      BY <3>1, <3>2, <1>6
    <3> QED BY <2>2, <3>2, <3>3, <3>4, <1>11
  <2> QED BY <2>1, <2>2
<1>18. OfferedInv' /\ ActedOnce'
  <2>1. ASSUME NEW r \in pending'[m] \union acted'[m]
        PROVE  r \in offered
    BY <1>7, <1>9, <1>10 DEF OfferedInv
  <2>2. acted'[m] \intersect pending'[m] = {}
    <3>1. CASE p.action = "Request"
      BY <3>1, <1>7, <1>9, <1>10 DEF ActedOnce, Fresh
    <3>2. CASE p.action # "Request"
      BY <3>2, <1>10 DEF ActedOnce
    <3> QED BY <3>1, <3>2
  <2> QED BY <2>1, <2>2, <1>1, <1>10 DEF OfferedInv, ActedOnce
<1>19. ReachInv'
  <2> SUFFICES ASSUME ~dropped, NEW r \in offered, NEW x \in Parties(r), ended[r] \subseteq {"Accept"}
               PROVE  OnTheWay(r, x)' \/ r \in pending'[x] \/ r \in acted'[x]
    BY <1>1 DEF ReachInv
  <2>1. r \in Sessions /\ x \in Members
    BY PartiesAssumption DEF TypeOK, Parties
  <2>2. OnTheWay(r, x) \/ r \in pending[x] \/ r \in acted[x]
    BY DEF ReachInv
  <2>3. CASE r \in pending[x] \/ r \in acted[x]
    <3>1. r = s /\ p.action # "Request" => p.action = "Accept"
      BY <1>4, <1>7 DEF Said, s
    <3> QED BY <2>1, <2>3, <3>1, <1>10
  <2>4. CASE (\E i \in 1..Len(uplink[From[r]]) : IsRequest(uplink[From[r]][i], r))
             \/ (IsRequest(relaying[From[r]], r) /\ x \in todo[From[r]])
    BY <2>4, <1>1 DEF OnTheWay
  <2>5. CASE \E i \in 1..Len(downlink[x]) : IsRequest(downlink[x][i], r)
    <3> PICK i \in 1..Len(downlink[x]) : IsRequest(downlink[x][i], r)
      BY <2>5
    <3>1. CASE x # m
      BY <2>1, <3>1, <1>5 DEF OnTheWay
    <3>2. CASE x = m /\ i = 1
      <4>1. IsRequest(p, r)
        BY <3>2 DEF p
      <4>2. r = s
        BY <2>1, <4>1, <1>8
      <4> QED BY <3>2, <4>1, <4>2, <1>7, <1>10
    <3>3. CASE x = m /\ i # 1
      <4>1. i - 1 \in 1..Len(downlink'[m]) /\ downlink'[m][i - 1] = downlink[m][i]
        BY <3>3, <1>3, <1>5
      <4> QED BY <3>3, <4>1 DEF OnTheWay
    <3> QED BY <3>1, <3>2, <3>3
  <2> QED BY <2>2, <2>3, <2>4, <2>5 DEF OnTheWay
<1> QED BY <1>13, <1>14, <1>15, <1>16, <1>17, <1>18, <1>19

LEMMA DropKeeps ==
    ASSUME OfferInv, NEW m \in Members, Drop(m)
    PROVE  OfferInv'
<1> USE DEF OfferInv, OnceInv
<1>1. /\ online' = online \ {m} /\ dropped' = TRUE
      /\ UNCHANGED <<relaying, todo, offers, pending, menu, offered, acted, launched, ended, answers>>
  BY DEF Drop
<1> PICK i \in 0..Len(uplink[m]), j \in 0..Len(downlink[m]) :
        /\ uplink' = [uplink EXCEPT ![m] = SubSeq(@, 1, i)]
        /\ downlink' = [downlink EXCEPT ![m] = SubSeq(@, 1, j)]
  BY DEF Drop
<1>2. uplink[m] \in Seq(Packets) /\ downlink[m] \in Seq(Packets)
  BY DEF TypeOK
<1>3. /\ SubSeq(uplink[m], 1, i) \in Seq(Packets)
      /\ Len(SubSeq(uplink[m], 1, i)) = i
      /\ \A k \in 1..i : SubSeq(uplink[m], 1, i)[k] = uplink[m][k]
      /\ 1..i \subseteq 1..Len(uplink[m])
  BY <1>2, Cut
<1>4. /\ SubSeq(downlink[m], 1, j) \in Seq(Packets)
      /\ Len(SubSeq(downlink[m], 1, j)) = j
      /\ \A k \in 1..j : SubSeq(downlink[m], 1, j)[k] = downlink[m][k]
      /\ 1..j \subseteq 1..Len(downlink[m])
  BY <1>2, Cut
<1>5. \A n \in Members : \A k \in 1..Len(uplink'[n]) : k \in 1..Len(uplink[n]) /\ uplink'[n][k] = uplink[n][k]
  <2>1. uplink'[m] = SubSeq(uplink[m], 1, i) /\ \A n \in Members : n # m => uplink'[n] = uplink[n]
    BY DEF TypeOK
  <2> QED BY <2>1, <1>3
<1>6. \A n \in Members : \A k \in 1..Len(downlink'[n]) : k \in 1..Len(downlink[n]) /\ downlink'[n][k] = downlink[n][k]
  <2>1. downlink'[m] = SubSeq(downlink[m], 1, j) /\ \A n \in Members : n # m => downlink'[n] = downlink[n]
    BY DEF TypeOK
  <2> QED BY <2>1, <1>4
<1>7. TypeOK'
  BY <1>1, <1>3, <1>4 DEF TypeOK
<1>8. CarryInv'
  BY <1>1, <1>5, <1>6 DEF CarryInv
<1>9. \A y \in Members, r \in Sessions : NotDown(r, y) => NotDown(r, y)'
  BY <1>6 DEF NotDown
<1>10. UpInv'
  BY <1>1, <1>5, <1>9 DEF UpInv, Fresh
<1>11. RelayInv'
  BY <1>1, <1>9 DEF RelayInv, Fresh, TypeOK
<1>12. DownInv'
  BY <1>1, <1>6 DEF DownInv, Fresh
<1>13. OfferedInv' /\ ActedOnce' /\ ReachInv'
  BY <1>1 DEF OfferedInv, ActedOnce, ReachInv
<1> QED BY <1>7, <1>8, <1>10, <1>11, <1>12, <1>13

LEMMA RejoinKeeps ==
    ASSUME OfferInv, NEW m \in Members, Rejoin(m)
    PROVE  OfferInv'
<1> USE DEF OfferInv, OnceInv
<1>1. /\ UNCHANGED <<uplink, relaying, todo, downlink, offers, pending, menu, offered, acted, launched, ended, answers, dropped>>
      /\ m \notin online /\ online' = online \union {m}
  BY DEF Rejoin, history
<1>2. TypeOK'
  BY <1>1 DEF TypeOK
<1>3. CarryInv' /\ OfferedInv' /\ ActedOnce'
  BY <1>1 DEF CarryInv, OfferedInv, ActedOnce
<1>4. UpInv' /\ RelayInv' /\ DownInv'
  BY <1>1 DEF UpInv, RelayInv, DownInv, Fresh, NotDown
<1>5. ReachInv'
  BY <1>1 DEF ReachInv
<1> QED BY <1>2, <1>3, <1>4, <1>5

-----------------------------------------------------------------------------
(* Theorems *)

LEMMA InitOffer == Init => OfferInv
<1> SUFFICES ASSUME Init PROVE OfferInv
  OBVIOUS
<1>1. TypeOK
  <2>1. <<>> \in Seq(Packets)
    OBVIOUS
  <2>2. uplink \in [Members -> Seq(Packets)] /\ downlink \in [Members -> Seq(Packets)]
    BY <2>1 DEF Init
  <2> QED BY <2>2 DEF Init, TypeOK
<1>2. \A r \in Sessions : ~IsRequest(NoPkt, r)
  BY NoPktAssumption DEF IsRequest
<1>3. CarryInv
  BY DEF Init, CarryInv
<1>4. UpInv /\ RelayInv /\ DownInv
  BY <1>2 DEF Init, UpInv, RelayInv, DownInv
<1>5. OfferedInv /\ ActedOnce /\ ReachInv
  BY DEF Init, OfferedInv, ActedOnce, ReachInv
<1> QED BY <1>1, <1>3, <1>4, <1>5 DEF OfferInv, OnceInv

LEMMA NextOffer == OfferInv /\ [Next]_vars => OfferInv'
<1> SUFFICES ASSUME OfferInv, [Next]_vars PROVE OfferInv'
  OBVIOUS
<1>1. ASSUME NEW m \in Members, GuiStep(m) PROVE OfferInv'
  BY <1>1, GuiSteps, IdleKeeps, OfferKeeps, EndsKeeps DEF OfferInv
<1>2. ASSUME NEW m \in Members, HostStep(m) PROVE OfferInv'
  BY <1>2, StartKeeps, SendKeeps DEF HostStep
<1>3. ASSUME NEW m \in Members, OnPktRandConnectReply(m) \/ Drop(m) \/ Rejoin(m) PROVE OfferInv'
  BY <1>3, ReceiveKeeps, DropKeeps, RejoinKeeps
<1>4. CASE UNCHANGED vars
  <2>1. Idle
    BY <1>4 DEF vars, history, Idle, OfferInv, TypeOK
  <2> QED BY <2>1, IdleKeeps
<1> QED BY <1>1, <1>2, <1>3, <1>4 DEF Next

LEMMA OfferAlways == Spec => []OfferInv
BY InitOffer, NextOffer, PTL DEF Spec

(* The variables have their types; an offer is pending at its parties only *)
(* (GuiRandConnectMgr keeps no offer of others).                           *)
THEOREM RandTypeCorrect == Spec => []TypeOK
<1>1. OfferInv => TypeOK
  BY DEF OfferInv
<1> QED BY <1>1, OfferAlways, PTL

(* What runs was accepted: at the addressee in the offer list, or by an    *)
(* acceptance that came back. And where nothing refuses it, what was acted *)
(* on runs.                                                                *)
LaunchInv ==
    \A x \in Members :
        /\ \A s \in launched[x] : s \in acted[x] \/ x = To[s]
        /\ "refuse" \notin Inputs => acted[x] \subseteq launched[x]

LEMMA NextLaunch == TypeOK /\ LaunchInv /\ [Next]_vars => LaunchInv'
<1> SUFFICES ASSUME TypeOK, LaunchInv, [Next]_vars PROVE LaunchInv'
  OBVIOUS
<1>1. CASE UNCHANGED <<acted, launched>>
  BY <1>1 DEF LaunchInv
<1>2. ASSUME NEW m \in Members, NEW s \in Sessions, RespondInList(m, s) PROVE LaunchInv'
  <2>1. m = To[s] /\ acted' = acted /\ (launched' = launched \/ Launch(m, s))
    BY <1>2 DEF RespondInList, LaunchInList
  <2>2. CASE Launch(m, s)
    BY <2>1, <2>2 DEF Launch, TypeOK, LaunchInv
  <2> QED BY <1>1, <2>1, <2>2
<1>3. ASSUME NEW m \in Members, OnPktRandConnectReply(m) PROVE LaunchInv'
  <2> DEFINE s == Head(downlink[m]).session
  <2>1. CASE ~UNCHANGED <<acted, launched>>
    <3>1. acted' = [acted EXCEPT ![m] = @ \union {s}] /\ LaunchAccepted(m, s)
      BY <1>3, <2>1 DEF OnPktRandConnectReply
    <3> HIDE DEF s
    <3>2. CASE Launch(m, s)
      BY <3>1, <3>2 DEF Launch, TypeOK, LaunchInv
    <3>3. CASE "refuse" \in Inputs /\ UNCHANGED launched
      BY <3>1, <3>3 DEF TypeOK, LaunchInv
    <3> QED BY <3>1, <3>2, <3>3 DEF LaunchAccepted
  <2> QED BY <1>1, <2>1
<1>4. CASE \E m \in Members : GuiStep(m)
  <2>1. PICK m \in Members : GuiStep(m)
    BY <1>4
  <2>2. CASE Respond(m) \/ \E p \in Members : OpenMenu(m, p)
    BY <2>2, <1>1 DEF Respond, OpenMenu, history
  <2>3. CASE \E s \in Sessions : Offer(m, s) \/ OfferTimeout(m, s)
    BY <2>3, <1>1 DEF Offer, OfferTimeout
  <2> QED BY <2>1, <2>2, <2>3, <1>2 DEF GuiStep
<1>5. CASE \E m \in Members : HostStep(m) \/ Drop(m) \/ Rejoin(m)
  BY <1>5, <1>1 DEF HostStep, BroadcastStart, BroadcastSend, Drop, Rejoin, history
<1>6. CASE UNCHANGED vars
  BY <1>6, <1>1 DEF vars, history
<1> QED BY <1>3, <1>4, <1>5, <1>6 DEF Next

LEMMA LaunchAlways == Spec => []LaunchInv
<1>1. Init => LaunchInv
  BY DEF Init, LaunchInv
<1> QED BY <1>1, NextLaunch, RandTypeCorrect, PTL DEF Spec

(* No copy of a request and no second acceptance makes an offer pending    *)
(* again whose acceptance came back, in whatever order the host's          *)
(* broadcasts reach the member; what already runs while it is pending was  *)
(* started in the offer list (GuiOfferMgrBase::acceptOffer).               *)
THEOREM AcceptedEndsOffer == Spec => []AcceptedIsOver
<1>1. OfferInv /\ LaunchInv => AcceptedIsOver
  BY DEF OfferInv, OnceInv, ActedOnce, LaunchInv, AcceptedIsOver
<1> QED BY <1>1, OfferAlways, LaunchAlways, PTL

(* While no connection is lost, an offer to which all anyone says is that  *)
(* he accepts is acted on at both parties, wherever it was accepted; each  *)
(* starts the session unless that is refused (launchAcceptedOfferSession). *)
THEOREM AcceptanceReachesBoth == Spec => []AcceptedReachesBoth
<1>1. OfferInv /\ LaunchInv => AcceptedReachesBoth
  <2> SUFFICES ASSUME OfferInv, LaunchInv, NEW s \in Sessions, ended[s] = {"Accept"}, Settled(s), ~dropped,
                      NEW x \in Parties(s)
               PROVE  s \in acted[x] /\ ("refuse" \notin Inputs => s \in launched[x])
    BY DEF AcceptedReachesBoth
  <2>1. s \in offered /\ x \in Members /\ From[s] \in Members
    BY PartiesAssumption DEF OfferInv, OnceInv, OfferedInv, Parties
  <2>2. OnTheWay(s, x) \/ s \in pending[x] \/ s \in acted[x]
    BY <2>1 DEF OfferInv, ReachInv
  <2>3. s \notin pending[x]
    BY DEF Settled
  <2>4. ~OnTheWay(s, x)
    BY <2>1, NoPktAssumption DEF Settled, OnItsWay, OnTheWay, IsRequest
  <2> QED BY <2>1, <2>2, <2>3, <2>4 DEF LaunchInv
<1> QED BY <1>1, OfferAlways, LaunchAlways, PTL

=============================================================================
