--------------------------- MODULE AssetXferProof ---------------------------
(***************************************************************************)
(* Theorems about AssetXfer, for any connections, sends and chunks.        *)
(***************************************************************************)
EXTENDS AssetXfer, TLAPS

-----------------------------------------------------------------------------
(* Sequences of packets *)

LEMMA Tails ==
    ASSUME NEW s \in Seq(Packets), s # <<>>
    PROVE  /\ Tail(s) \in Seq(Packets)
           /\ Head(s) = s[1] /\ s[1] \in Packets
           /\ Len(s) \in Nat /\ 1 \in 1..Len(s)
           /\ Len(Tail(s)) = Len(s) - 1
           /\ \A i \in 1..Len(Tail(s)) :
                Tail(s)[i] = s[i + 1] /\ i + 1 \in 1..Len(s) /\ i \in Nat
  OBVIOUS

LEMMA Joins ==
    ASSUME NEW s \in Seq(Packets), NEW a \in Seq(Packets)
    PROVE  /\ s \o a \in Seq(Packets)
           /\ Len(s) \in Nat /\ Len(a) \in Nat /\ Len(s \o a) = Len(s) + Len(a)
           /\ \A i \in 1..Len(s) : (s \o a)[i] = s[i] /\ i \in 1..Len(s \o a)
           /\ \A i \in 1..Len(s \o a) : i \notin 1..Len(s) =>
                i - Len(s) \in 1..Len(a) /\ (s \o a)[i] = a[i - Len(s)]
  OBVIOUS

LEMMA NoneOf ==
    ASSUME NEW s \in Seq(Packets), NEW a \in Seq(Packets), NEW t,
           \A i \in 1..Len(s) : s[i].send # t,
           \A i \in 1..Len(a) : a[i].send # t
    PROVE  \A i \in 1..Len(s \o a) : (s \o a)[i].send # t
<1> DEFINE d == s \o a
<1>1. ASSUME NEW i \in 1..Len(d)
      PROVE  \/ i \in 1..Len(s) /\ d[i] = s[i]
             \/ i - Len(s) \in 1..Len(a) /\ d[i] = a[i - Len(s)]
  BY Joins
<1> HIDE DEF d
<1>2. \A i \in 1..Len(d) : d[i].send # t
  BY <1>1
<1> QED BY <1>2 DEF d

LEMMA Associates ==
    ASSUME NEW s \in Seq(Packets), NEW a \in Seq(Packets), NEW b \in Seq(Packets)
    PROVE  s \o (a \o b) = (s \o a) \o b
  BY SMTT(60)

LEMMA PacketTypes ==
    ASSUME NEW t \in Sends, NEW r \in BOOLEAN, NEW n \in 0..N
    PROVE  {Request(t), Chunk(t, n), Complete(t), Reply(t, r), Ack(t, r), Done(t)} \subseteq Packets
  BY ChunksAssumption DEF Request, Chunk, Complete, Reply, Ack, Done, Packets

LEMMA CarriedType ==
    ASSUME NEW k \in Skts, NEW a \in Seq(Packets)
    PROVE  Carried(k, a) \in Seq(Packets) /\ (Carried(k, a) = a \/ Carried(k, a) = <<>>)
  BY DEF Carried

LEMMA NewSends ==
    ASSUME NEW t \in Sends, NEW k \in Skts, NEW new \in createAssetTxSessionAndSend(t, k)
    PROVE  /\ new.tx \in {"open", "noFile", "ended"}
           /\ new.told \in {"progress", "fail"}
           /\ new.err \in BOOLEAN
           /\ new.packets \in {<<>>, <<Request(t)>>, <<Request(t), Chunk(t, 1)>>}
           /\ new.packets = <<Request(t), Chunk(t, 1)>> => new.tx = "open"
           /\ new.packets \in Seq(Packets)
<1>1. Request(t) \in Packets /\ Chunk(t, 1) \in Packets
  BY ChunksAssumption DEF Request, Chunk, Packets
<1>2. <<>> \in Seq(Packets) /\ <<Request(t)>> \in Seq(Packets)
      /\ <<Request(t), Chunk(t, 1)>> \in Seq(Packets)
  BY <1>1
<1>3. \/ new = Begun(t) \/ new = NoFile \/ new = Unread(t) \/ new = Cut
  BY DEF createAssetTxSessionAndSend, NotSent
<1>4. CASE new = Begun(t)
  BY <1>2, <1>4 DEF Begun
<1>5. CASE new = NoFile
  BY <1>2, <1>5 DEF NoFile
<1>6. CASE new = Unread(t)
  BY <1>2, <1>6 DEF Unread
<1>7. CASE new = Cut
  BY <1>2, <1>7 DEF Cut
<1> QED BY <1>3, <1>4, <1>5, <1>6, <1>7

-----------------------------------------------------------------------------
(* Each chunk waits for the answer to the one before *)

(* The packets are of these sends. *)
From(s, owned) == \A i \in 1..Len(s) : s[i].send \in owned

(* Each send has one connection, and its packets go over this one.  A send *)
(* that has not begun has left no trace.                                   *)
Owned ==
    /\ \A j, k \in Skts : j # k => over[j] \intersect over[k] = {}
    /\ \A k \in Skts : \A t \in over[k] : tx[t] # "none"
    /\ \A k \in Skts : From(down[k], over[k])
    /\ \A k \in Skts : From(up[k], over[k])
    /\ \A t \in Sends : tx[t] = "none" => offs[t] = 0 /\ got[t] = 0 /\ rx[t] = "none"

(* Of the send t, with d on its way to the receiver and u back, the        *)
(* sessions x and r, and o chunks sent of which g are written: a packet    *)
(* says how far both are, only the request and the first chunk are on      *)
(* their way together, and a chunk is answered before the next packet.     *)
Exchange(t, d, u, x, r, o, g) ==
    /\ \A i \in 1..Len(d) : d[i].send = t /\ d[i].kind = "request" =>
            r = "none" /\ g = 0 /\ o <= 1
    /\ \A i \in 1..Len(d) : d[i].send = t /\ d[i].kind = "chunk" =>
            d[i].chunk = o /\ o = g + 1
    /\ \A i \in 1..Len(d) : d[i].send = t /\ d[i].kind = "complete" =>
            x = "ended" /\ o = N /\ g = N
    /\ \A i \in 1..Len(u) : u[i].send = t /\ u[i].kind = "chunk" /\ u[i].ok => g = o
    /\ \A i, j \in 1..Len(d) : i < j /\ d[i].send = t /\ d[j].send = t =>
            d[i].kind = "request" /\ d[j].kind = "chunk"
    /\ \A i \in 1..Len(d), j \in 1..Len(u) : d[i].send = t /\ u[j].send = t =>
            d[i].kind # "request" /\ u[j].kind # "chunk"
    /\ \A i, j \in 1..Len(u) : i < j /\ u[i].send = t /\ u[j].send = t =>
            u[i].kind # "chunk" \/ u[j].kind # "chunk"

StopAndWait ==
    /\ Owned
    /\ \A k \in Skts : \A t \in over[k] :
        Exchange(t, down[k], up[k], tx[t], rx[t], offs[t], got[t])

LEMMA FromParts ==
    ASSUME NEW s \in Seq(Packets), NEW owned, NEW more, From(s, owned), owned \subseteq more
    PROVE  /\ From(<<>>, more)
           /\ From(s, more)
           /\ s # <<>> => From(Tail(s), more)
           /\ \A a \in Seq(Packets) : From(a, more) => From(s \o a, more)
<1>1. From(<<>>, more) /\ From(s, more)
  BY DEF From
<1>2. ASSUME s # <<>>
      PROVE  From(Tail(s), more)
  BY <1>2, Tails DEF From
<1>3. ASSUME NEW a \in Seq(Packets), From(a, more)
      PROVE  From(s \o a, more)
  BY <1>1, <1>3, Joins DEF From
<1> QED BY <1>1, <1>2, <1>3

(* What a session loses changes nothing of this. *)
LEMMA Weaken ==
    ASSUME NEW t, NEW d, NEW u, NEW x, NEW r, NEW o, NEW g, Exchange(t, d, u, x, r, o, g),
           NEW y, x = "ended" => y = "ended", NEW q, r = "none" => q = "none"
    PROVE  Exchange(t, d, u, y, q, o, g)
  BY DEF Exchange

LEMMA LoseDown ==
    ASSUME NEW t, NEW d, NEW u, NEW x, NEW r, NEW o, NEW g, Exchange(t, d, u, x, r, o, g)
    PROVE  Exchange(t, <<>>, u, x, r, o, g)
  BY DEF Exchange

LEMMA LoseUp ==
    ASSUME NEW t, NEW d, NEW u, NEW x, NEW r, NEW o, NEW g, Exchange(t, d, u, x, r, o, g)
    PROVE  Exchange(t, d, <<>>, x, r, o, g)
  BY DEF Exchange

LEMMA TailDown ==
    ASSUME NEW t, NEW d \in Seq(Packets), NEW u, NEW x, NEW r, NEW o, NEW g,
           Exchange(t, d, u, x, r, o, g), d # <<>>
    PROVE  Exchange(t, Tail(d), u, x, r, o, g)
<1>1. /\ Len(d) \in Nat /\ Len(Tail(d)) = Len(d) - 1
      /\ \A i \in 1..Len(Tail(d)) : Tail(d)[i] = d[i + 1] /\ i + 1 \in 1..Len(d) /\ i \in Nat
  BY Tails
<1>2. \A i, j \in 1..Len(Tail(d)) : i < j => i + 1 < j + 1
  BY <1>1
<1> QED BY <1>1, <1>2 DEF Exchange

LEMMA TailUp ==
    ASSUME NEW t, NEW d, NEW u \in Seq(Packets), NEW x, NEW r, NEW o, NEW g,
           Exchange(t, d, u, x, r, o, g), u # <<>>
    PROVE  Exchange(t, d, Tail(u), x, r, o, g)
<1>1. /\ Len(u) \in Nat /\ Len(Tail(u)) = Len(u) - 1
      /\ \A i \in 1..Len(Tail(u)) : Tail(u)[i] = u[i + 1] /\ i + 1 \in 1..Len(u) /\ i \in Nat
  BY Tails
<1>2. \A i, j \in 1..Len(Tail(u)) : i < j => i + 1 < j + 1
  BY <1>1
<1> QED BY <1>1, <1>2 DEF Exchange

(* What is sent for others changes nothing of this. *)
LEMMA OthersDown ==
    ASSUME NEW t, NEW d \in Seq(Packets), NEW u, NEW x, NEW r, NEW o, NEW g,
           Exchange(t, d, u, x, r, o, g),
           NEW a \in Seq(Packets), \A i \in 1..Len(a) : a[i].send # t
    PROVE  Exchange(t, d \o a, u, x, r, o, g)
<1>1. \A i \in 1..Len(d \o a) : (d \o a)[i].send = t =>
        i \in 1..Len(d) /\ (d \o a)[i] = d[i]
  BY Joins
<1> QED BY <1>1 DEF Exchange

LEMMA OthersUp ==
    ASSUME NEW t, NEW d, NEW u \in Seq(Packets), NEW x, NEW r, NEW o, NEW g,
           Exchange(t, d, u, x, r, o, g),
           NEW b \in Seq(Packets), \A i \in 1..Len(b) : b[i].send # t
    PROVE  Exchange(t, d, u \o b, x, r, o, g)
<1>1. \A i \in 1..Len(u \o b) : (u \o b)[i].send = t =>
        i \in 1..Len(u) /\ (u \o b)[i] = u[i]
  BY Joins
<1> QED BY <1>1 DEF Exchange

(* A send begins with its request and its first chunk, if anything. *)
LEMMA Begins ==
    ASSUME NEW t \in Sends, NEW d \in Seq(Packets), NEW u, NEW x, NEW o \in 0..1, x = "open" => o = 1,
           \A i \in 1..Len(d) : d[i].send # t,
           \A i \in 1..Len(u) : u[i].send # t,
           NEW a \in {<<>>, <<Request(t)>>, <<Request(t), Chunk(t, 1)>>},
           a = <<Request(t), Chunk(t, 1)>> => x = "open"
    PROVE  Exchange(t, d \o a, u, x, "none", o, 0)
<1> DEFINE s == d \o a
<1>1. Request(t) \in Packets /\ Chunk(t, 1) \in Packets
  BY ChunksAssumption DEF Request, Chunk, Packets
<1>2. a = <<>> \/ a = <<Request(t)>> \/ a = <<Request(t), Chunk(t, 1)>>
  OBVIOUS
<1>3. /\ a \in Seq(Packets)
      /\ \A i \in 1..Len(a) : \/ a[i] = Request(t) /\ i = 1
                              \/ a[i] = Chunk(t, 1) /\ i = 2 /\ x = "open"
  <2>1. CASE a = <<>>
    BY <2>1
  <2>2. CASE a = <<Request(t)>>
    BY <1>1, <2>2
  <2>3. CASE a = <<Request(t), Chunk(t, 1)>>
    BY <1>1, <2>3
  <2> QED BY <1>2, <2>1, <2>2, <2>3
<1>4. \A i \in 1..Len(s) : s[i].send = t =>
        /\ i \notin 1..Len(d)
        /\ s[i] = a[i - Len(d)]
        /\ i - Len(d) \in 1..Len(a)
        /\ i \in Nat
  BY <1>3, Joins
<1>5. Len(d) \in Nat
  OBVIOUS
<1> HIDE DEF s
<1>6. ASSUME NEW i \in 1..Len(s), s[i].send = t
      PROVE  \/ s[i].kind = "request" /\ i = Len(d) + 1
             \/ s[i].kind = "chunk" /\ s[i].chunk = 1 /\ i = Len(d) + 2 /\ o = 1
  <2>1. Chunk(t, 1).kind = "chunk" /\ Chunk(t, 1).chunk = 1 /\ Request(t).kind = "request"
    BY DEF Chunk, Request
  <2> QED BY <1>3, <1>4, <1>5, <1>6, <2>1
<1>7. Exchange(t, s, u, x, "none", o, 0)
  BY <1>5, <1>6 DEF Exchange
<1> QED BY <1>7 DEF s

(* What the head of the packets to the receiver says of the rest. *)
LEMMA HeadDown ==
    ASSUME NEW t, NEW d \in Seq(Packets), NEW u, NEW x, NEW r, NEW o, NEW g,
           Exchange(t, d, u, x, r, o, g), d # <<>>, Head(d).send = t
    PROVE  /\ Head(d).kind = "request" =>
                /\ r = "none" /\ g = 0 /\ o <= 1
                /\ \A i \in 1..Len(Tail(d)) : Tail(d)[i].send = t => Tail(d)[i].kind = "chunk"
                /\ \A i \in 1..Len(u) : u[i].send # t
           /\ Head(d).kind # "request" =>
                /\ \A i \in 1..Len(Tail(d)) : Tail(d)[i].send # t
                /\ \A i \in 1..Len(u) : u[i].send = t => u[i].kind # "chunk"
           /\ Head(d).kind = "chunk" => Head(d).chunk = o /\ o = g + 1
           /\ Head(d).kind = "complete" => x = "ended" /\ o = N /\ g = N
<1>1. /\ Len(d) \in Nat /\ Len(Tail(d)) = Len(d) - 1
      /\ Head(d) = d[1] /\ 1 \in 1..Len(d)
      /\ \A i \in 1..Len(Tail(d)) : Tail(d)[i] = d[i + 1] /\ i + 1 \in 1..Len(d) /\ i \in Nat
  BY Tails
<1>2. \A i \in 1..Len(Tail(d)) : 1 < i + 1
  BY <1>1
<1>3. ASSUME NEW i \in 1..Len(Tail(d)), Tail(d)[i].send = t
      PROVE  Head(d).kind = "request" /\ Tail(d)[i].kind = "chunk"
  BY <1>1, <1>2, <1>3 DEF Exchange
<1> QED BY <1>1, <1>3 DEF Exchange

(* The sender goes on after an answer: the next chunk, or the end. *)
LEMMA SendsOne ==
    ASSUME NEW t, NEW d \in Seq(Packets), NEW u, NEW p \in Packets,
           NEW x, NEW r, NEW o \in Nat, NEW g,
           \A i \in 1..Len(d) : d[i].send # t,
           \A i \in 1..Len(u) : u[i].send = t => u[i].kind # "chunk",
           \/ p.kind = "chunk" /\ p.chunk = o /\ o = g + 1
           \/ p.kind = "complete" /\ x = "ended" /\ o = N /\ g = N,
           NEW a \in {<<>>, <<p>>}
    PROVE  Exchange(t, d \o a, u, x, r, o, g)
<1> DEFINE s == d \o a
<1>1. a \in Seq(Packets) /\ \A i \in 1..Len(a) : i = 1 /\ a[i] = p
  <2>1. CASE a = <<>>
    BY <2>1
  <2>2. CASE a = <<p>>
    BY <2>2
  <2> QED BY <2>1, <2>2
<1>2. Len(d) \in Nat
  OBVIOUS
<1>3. \A i \in 1..Len(s) : s[i].send = t =>
        i \notin 1..Len(d) /\ i - Len(d) \in 1..Len(a) /\ s[i] = a[i - Len(d)]
  BY <1>1, Joins
<1> HIDE DEF s
<1>4. \A i \in 1..Len(s) : s[i].send = t => s[i] = p /\ i = Len(d) + 1
  BY <1>1, <1>2, <1>3
<1>5. Exchange(t, s, u, x, r, o, g)
  BY <1>2, <1>4 DEF Exchange
<1> QED BY <1>5 DEF s

(* The receiver answers a packet. *)
LEMMA Answers ==
    ASSUME NEW t, NEW d \in Seq(Packets), NEW u \in Seq(Packets), NEW p \in Packets,
           NEW x, NEW r, NEW o, NEW g,
           Exchange(t, d, u, x, r, o, g),
           \A i \in 1..Len(d) : d[i].send = t => d[i].kind # "request" /\ p.kind # "chunk",
           p.kind = "chunk" =>
                /\ p.ok => g = o
                /\ \A i \in 1..Len(u) : u[i].send = t => u[i].kind # "chunk",
           NEW b \in {<<>>, <<p>>}
    PROVE  Exchange(t, d, u \o b, x, r, o, g)
<1> DEFINE s == u \o b
<1>1. b \in Seq(Packets) /\ \A i \in 1..Len(b) : i = 1 /\ b[i] = p
  <2>1. CASE b = <<>>
    BY <2>1
  <2>2. CASE b = <<p>>
    BY <2>2
  <2> QED BY <2>1, <2>2
<1>2. Len(u) \in Nat
  OBVIOUS
<1>3. \A i \in 1..Len(s) : i \notin 1..Len(u) => i - Len(u) \in 1..Len(b) /\ s[i] = b[i - Len(u)]
  BY <1>1, Joins
<1>4. \A i \in 1..Len(s) : i \in 1..Len(u) => s[i] = u[i]
  BY <1>1, Joins
<1> HIDE DEF s
<1>5. \A i \in 1..Len(s) :
        \/ i \in 1..Len(u) /\ i < Len(u) + 1 /\ s[i] = u[i]
        \/ i = Len(u) + 1 /\ s[i] = p
  BY <1>1, <1>2, <1>3, <1>4
<1>6. Exchange(t, d, s, x, r, o, g)
  BY <1>2, <1>5, SMTT(30) DEF Exchange
<1> QED BY <1>6 DEF s

-----------------------------------------------------------------------------
(* The exchange of each send is an invariant *)

(* A step at one connection, of sends that have it or begin upon it,       *)
(* leaves the exchanges at the others alone.                               *)
LEMMA Elsewhere ==
    ASSUME TypeOK, StopAndWait, NEW k \in Skts,
           \A j \in Skts : j # k => over'[j] = over[j] /\ down'[j] = down[j] /\ up'[j] = up[j],
           \A t \in over'[k] : t \in over[k] \/ tx[t] = "none",
           \A t \in over'[k] : tx'[t] # "none",
           \A t \in Sends : t \notin over'[k] =>
                tx'[t] = tx[t] /\ rx'[t] = rx[t] /\ offs'[t] = offs[t] /\ got'[t] = got[t],
           From(down'[k], over'[k]), From(up'[k], over'[k]),
           over'[k] \subseteq Sends,
           \A t \in over'[k] :
                Exchange(t, down'[k], up'[k], tx'[t], rx'[t], offs'[t], got'[t])
    PROVE  StopAndWait'
<1>1. \A j \in Skts : over[j] \subseteq Sends
  BY DEF TypeOK
<1>2. ASSUME NEW j \in Skts, j # k
      PROVE  over[j] \intersect over'[k] = {}
  BY <1>2 DEF StopAndWait, Owned
<1>3. ASSUME NEW i \in Skts, NEW j \in Skts, i # j
      PROVE  over'[i] \intersect over'[j] = {}
  <2>1. CASE i = k
    BY <1>2, <1>3, <2>1
  <2>2. CASE j = k
    BY <1>2, <1>3, <2>2
  <2>3. CASE i # k /\ j # k
    BY <1>3, <2>3 DEF StopAndWait, Owned
  <2> QED BY <2>1, <2>2, <2>3
<1>4. ASSUME NEW j \in Skts, NEW t \in over'[j]
      PROVE  /\ tx'[t] # "none"
             /\ Exchange(t, down'[j], up'[j], tx'[t], rx'[t], offs'[t], got'[t])
  <2>1. CASE j = k
    BY <1>4, <2>1
  <2>2. CASE j # k
    <3>1. t \in over[j] /\ t \notin over'[k] /\ t \in Sends
      BY <1>1, <1>2, <1>4, <2>2
    <3>2. tx[t] # "none" /\ Exchange(t, down[j], up[j], tx[t], rx[t], offs[t], got[t])
      BY <3>1 DEF StopAndWait, Owned
    <3> QED BY <2>2, <3>1, <3>2
  <2> QED BY <2>1, <2>2
<1>5. ASSUME NEW j \in Skts
      PROVE  From(down'[j], over'[j]) /\ From(up'[j], over'[j])
  <2>1. CASE j = k
    BY <2>1
  <2>2. CASE j # k
    BY <2>2 DEF StopAndWait, Owned
  <2> QED BY <2>1, <2>2
<1>6. ASSUME NEW t \in Sends, tx'[t] = "none"
      PROVE  offs'[t] = 0 /\ got'[t] = 0 /\ rx'[t] = "none"
  BY <1>6 DEF StopAndWait, Owned
<1> QED BY <1>3, <1>4, <1>5, <1>6 DEF StopAndWait, Owned

(* What is known of a connection of which the sender handles a reply. *)
LEMMA Replied ==
    ASSUME TypeOK, StopAndWait, NEW k \in Skts, up[k] # <<>>, NEW t, t = Head(up[k]).send
    PROVE  /\ t \in over[k] /\ t \in Sends /\ over[k] \subseteq Sends
           /\ Head(up[k]) \in Packets
           /\ down[k] \in Seq(Packets) /\ up[k] \in Seq(Packets) /\ Tail(up[k]) \in Seq(Packets)
           /\ From(down[k], over[k]) /\ From(Tail(up[k]), over[k])
           /\ \A s \in over[k] : tx[s] # "none"
           /\ \A s \in over[k] :
                Exchange(s, down[k], Tail(up[k]), tx[s], rx[s], offs[s], got[s])
           /\ Head(up[k]).kind = "chunk" =>
                /\ \A i \in 1..Len(Tail(up[k])) :
                        Tail(up[k])[i].send = t => Tail(up[k])[i].kind # "chunk"
                /\ \A i \in 1..Len(down[k]) : down[k][i].send # t
                /\ Head(up[k]).ok => got[t] = offs[t]
<1>1. /\ over[k] \subseteq Sends
      /\ down[k] \in Seq(Packets) /\ up[k] \in Seq(Packets)
  BY DEF TypeOK
<1>2. /\ From(down[k], over[k]) /\ From(up[k], over[k])
      /\ \A s \in over[k] : tx[s] # "none"
      /\ \A s \in over[k] : Exchange(s, down[k], up[k], tx[s], rx[s], offs[s], got[s])
  BY DEF StopAndWait, Owned
<1>3. /\ Tail(up[k]) \in Seq(Packets) /\ Head(up[k]) \in Packets
      /\ Head(up[k]) = up[k][1] /\ 1 \in 1..Len(up[k])
  BY <1>1, Tails
<1>4. t \in over[k]
  BY <1>2, <1>3 DEF From
<1>5. From(Tail(up[k]), over[k])
  BY <1>1, <1>2, FromParts
<1>6. \A s \in over[k] : Exchange(s, down[k], Tail(up[k]), tx[s], rx[s], offs[s], got[s])
  BY <1>1, <1>2, TailUp
<1>7. /\ Exchange(t, down[k], up[k], tx[t], rx[t], offs[t], got[t])
      /\ Head(up[k]).send = t
  BY <1>2, <1>4
<1>8. ASSUME Head(up[k]).kind = "chunk"
      PROVE  /\ \A i \in 1..Len(Tail(up[k])) :
                    Tail(up[k])[i].send = t => Tail(up[k])[i].kind # "chunk"
             /\ \A i \in 1..Len(down[k]) : down[k][i].send # t
             /\ Head(up[k]).ok => got[t] = offs[t]
  <2>1. /\ \A i \in 1..Len(Tail(up[k])) :
             Tail(up[k])[i] = up[k][i + 1] /\ i + 1 \in 1..Len(up[k]) /\ 1 < i + 1
        /\ 1 \in 1..Len(up[k])
    BY <1>1, Tails
  <2> QED BY <1>3, <1>7, <1>8, <2>1 DEF Exchange
<1> QED BY <1>1, <1>2, <1>3, <1>4, <1>5, <1>6, <1>8

(* What is known of one of which the receiver handles a packet. *)
LEMMA Asked ==
    ASSUME TypeOK, StopAndWait, NEW k \in Skts, down[k] # <<>>, NEW t, t = Head(down[k]).send
    PROVE  /\ t \in over[k] /\ t \in Sends /\ over[k] \subseteq Sends
           /\ Head(down[k]) \in Packets
           /\ down[k] \in Seq(Packets) /\ up[k] \in Seq(Packets) /\ Tail(down[k]) \in Seq(Packets)
           /\ From(Tail(down[k]), over[k]) /\ From(up[k], over[k])
           /\ \A s \in over[k] : tx[s] # "none"
           /\ \A s \in over[k] :
                Exchange(s, Tail(down[k]), up[k], tx[s], rx[s], offs[s], got[s])
           /\ Head(down[k]).kind = "request" =>
                /\ rx[t] = "none" /\ got[t] = 0 /\ offs[t] <= 1
                /\ \A i \in 1..Len(Tail(down[k])) :
                        Tail(down[k])[i].send = t => Tail(down[k])[i].kind = "chunk"
                /\ \A i \in 1..Len(up[k]) : up[k][i].send # t
           /\ Head(down[k]).kind # "request" =>
                /\ \A i \in 1..Len(Tail(down[k])) : Tail(down[k])[i].send # t
                /\ \A i \in 1..Len(up[k]) : up[k][i].send = t => up[k][i].kind # "chunk"
           /\ Head(down[k]).kind = "chunk" =>
                Head(down[k]).chunk = offs[t] /\ offs[t] = got[t] + 1
           /\ Head(down[k]).kind = "complete" => tx[t] = "ended" /\ offs[t] = N /\ got[t] = N
<1>1. /\ over[k] \subseteq Sends
      /\ down[k] \in Seq(Packets) /\ up[k] \in Seq(Packets)
  BY DEF TypeOK
<1>2. /\ From(down[k], over[k]) /\ From(up[k], over[k])
      /\ \A s \in over[k] : tx[s] # "none"
      /\ \A s \in over[k] : Exchange(s, down[k], up[k], tx[s], rx[s], offs[s], got[s])
  BY DEF StopAndWait, Owned
<1>3. /\ Tail(down[k]) \in Seq(Packets) /\ Head(down[k]) \in Packets
      /\ Head(down[k]) = down[k][1] /\ 1 \in 1..Len(down[k])
  BY <1>1, Tails
<1>4. t \in over[k]
  BY <1>2, <1>3 DEF From
<1>5. From(Tail(down[k]), over[k])
  BY <1>1, <1>2, FromParts
<1>6. \A s \in over[k] : Exchange(s, Tail(down[k]), up[k], tx[s], rx[s], offs[s], got[s])
  BY <1>1, <1>2, TailDown
<1>7. /\ Exchange(t, down[k], up[k], tx[t], rx[t], offs[t], got[t])
      /\ Head(down[k]).send = t
  BY <1>2, <1>4
<1>8. /\ Head(down[k]).kind = "request" =>
           /\ rx[t] = "none" /\ got[t] = 0 /\ offs[t] <= 1
           /\ \A i \in 1..Len(Tail(down[k])) :
                   Tail(down[k])[i].send = t => Tail(down[k])[i].kind = "chunk"
           /\ \A i \in 1..Len(up[k]) : up[k][i].send # t
      /\ Head(down[k]).kind # "request" =>
           /\ \A i \in 1..Len(Tail(down[k])) : Tail(down[k])[i].send # t
           /\ \A i \in 1..Len(up[k]) : up[k][i].send = t => up[k][i].kind # "chunk"
      /\ Head(down[k]).kind = "chunk" =>
           Head(down[k]).chunk = offs[t] /\ offs[t] = got[t] + 1
      /\ Head(down[k]).kind = "complete" => tx[t] = "ended" /\ offs[t] = N /\ got[t] = N
  BY <1>1, <1>7, HeadDown
<1> QED BY <1>1, <1>2, <1>3, <1>4, <1>5, <1>6, <1>8

(* A fresh send begins at connection k, behind what is on its way. *)
LEMMA Opens ==
    ASSUME TypeOK, StopAndWait, NEW k \in Skts, NEW s \in Fresh,
           NEW new \in createAssetTxSessionAndSend(s, k), NEW a, a = <<>> \/ a = new.packets,
           NEW u \in Seq(Packets), From(u, over[k])
    PROVE  /\ s \in Sends /\ tx[s] = "none" /\ s \notin over[k]
           /\ new.tx # "none"
           /\ a \in Seq(Packets) /\ \A i \in 1..Len(a) : a[i].send = s
           /\ \A o : o = (IF new.tx = "open" THEN 1 ELSE 0) =>
                Exchange(s, down[k] \o a, u, new.tx, rx[s], o, got[s])
<1>1. s \in Sends /\ tx[s] = "none"
  BY DEF Fresh
<1>2. s \notin over[k] /\ rx[s] = "none" /\ got[s] = 0
  BY <1>1 DEF StopAndWait, Owned
<1>3. /\ new.tx \in {"open", "noFile", "ended"}
      /\ new.packets \in {<<>>, <<Request(s)>>, <<Request(s), Chunk(s, 1)>>}
      /\ new.packets = <<Request(s), Chunk(s, 1)>> => new.tx = "open"
      /\ new.packets \in Seq(Packets)
  BY <1>1, NewSends
<1>4. /\ a \in {<<>>, <<Request(s)>>, <<Request(s), Chunk(s, 1)>>} /\ a \in Seq(Packets)
      /\ a = <<Request(s), Chunk(s, 1)>> => new.tx = "open"
  <2>1. CASE a = <<>>
    BY <2>1
  <2>2. CASE a = new.packets
    BY <1>3, <2>2
  <2> QED BY <2>1, <2>2
<1>5. \A i \in 1..Len(a) : a[i].send = s
  <2>1. Request(s).send = s /\ Chunk(s, 1).send = s
    BY DEF Request, Chunk
  <2>2. CASE a = <<>>
    BY <2>2
  <2>3. CASE a = <<Request(s)>>
    BY <2>1, <2>3
  <2>4. CASE a = <<Request(s), Chunk(s, 1)>>
    BY <2>1, <2>4
  <2> QED BY <1>4, <2>2, <2>3, <2>4
<1>6. /\ \A i \in 1..Len(down[k]) : down[k][i].send # s
      /\ \A i \in 1..Len(u) : u[i].send # s
  BY <1>2 DEF StopAndWait, Owned, From
<1>7. down[k] \in Seq(Packets)
  BY DEF TypeOK
<1> DEFINE o == IF new.tx = "open" THEN 1 ELSE 0
<1>8. o \in 0..1 /\ (new.tx = "open" => o = 1)
  OBVIOUS
<1> HIDE DEF o
<1>9. Exchange(s, down[k] \o a, u, new.tx, "none", o, 0)
  BY <1>1, <1>4, <1>6, <1>7, <1>8, Begins
<1> QED BY <1>1, <1>2, <1>3, <1>4, <1>5, <1>9 DEF o

LEMMA SendKeeps ==
    ASSUME TypeOK, StopAndWait, NEW k \in Skts, Send(k)
    PROVE  StopAndWait'
<1>0. PICK t \in Fresh : \E new \in createAssetTxSessionAndSend(t, k) :
        /\ over' = [over EXCEPT ![k] = @ \union {t}]
        /\ tx' = [tx EXCEPT ![t] = new.tx]
        /\ offs' = [offs EXCEPT ![t] = IF new.tx = "open" THEN 1 ELSE 0]
        /\ down' = [down EXCEPT ![k] = @ \o Carried(k, new.packets)]
        /\ UNCHANGED <<up, recvVars>>
  BY DEF Send
<1>1. PICK new \in createAssetTxSessionAndSend(t, k) :
        /\ over' = [over EXCEPT ![k] = @ \union {t}]
        /\ tx' = [tx EXCEPT ![t] = new.tx]
        /\ offs' = [offs EXCEPT ![t] = IF new.tx = "open" THEN 1 ELSE 0]
        /\ down' = [down EXCEPT ![k] = @ \o Carried(k, new.packets)]
        /\ UNCHANGED <<up, recvVars>>
  BY <1>0
<1> DEFINE a == Carried(k, new.packets)
<1>2. /\ down[k] \in Seq(Packets) /\ up[k] \in Seq(Packets) /\ over[k] \subseteq Sends
      /\ tx \in [Sends -> {"none", "open", "noFile", "ended"}] /\ offs \in [Sends -> 0..N]
      /\ over \in [Skts -> SUBSET Sends] /\ down \in [Skts -> Seq(Packets)]
  BY DEF TypeOK
<1>3. /\ From(down[k], over[k]) /\ From(up[k], over[k])
      /\ \A s \in over[k] : tx[s] # "none"
      /\ \A s \in over[k] : Exchange(s, down[k], up[k], tx[s], rx[s], offs[s], got[s])
  BY DEF StopAndWait, Owned
<1>4. a = <<>> \/ a = new.packets
  BY DEF Carried
<1> HIDE DEF a
<1>5. /\ t \in Sends /\ tx[t] = "none" /\ t \notin over[k]
      /\ new.tx # "none"
      /\ a \in Seq(Packets) /\ \A i \in 1..Len(a) : a[i].send = t
      /\ \A o : o = (IF new.tx = "open" THEN 1 ELSE 0) =>
            Exchange(t, down[k] \o a, up[k], new.tx, rx[t], o, got[t])
  BY <1>2, <1>3, <1>4, Opens
<1>6. /\ over'[k] = over[k] \union {t} /\ down'[k] = down[k] \o a /\ up' = up
      /\ tx'[t] = new.tx /\ offs'[t] = IF new.tx = "open" THEN 1 ELSE 0
      /\ \A s \in Sends : s # t => tx'[s] = tx[s] /\ offs'[s] = offs[s]
      /\ rx' = rx /\ got' = got
      /\ \A j \in Skts : j # k => over'[j] = over[j] /\ down'[j] = down[j]
  BY <1>1, <1>2, <1>5 DEF recvVars, a
<1>7. From(down'[k], over'[k]) /\ From(up'[k], over'[k])
  <2>1. From(a, over'[k]) /\ over[k] \subseteq over'[k]
    BY <1>5, <1>6 DEF From
  <2>2. From(up[k], over'[k]) /\ From(down[k] \o a, over'[k])
    BY <1>2, <1>3, <1>5, <2>1, FromParts
  <2> QED BY <1>6, <2>2
<1>8. ASSUME NEW s \in over'[k]
      PROVE  Exchange(s, down'[k], up'[k], tx'[s], rx'[s], offs'[s], got'[s])
  <2>1. CASE s = t
    BY <1>5, <1>6, <2>1
  <2>2. CASE s # t
    <3>1. s \in over[k] /\ s \in Sends /\ \A i \in 1..Len(a) : a[i].send # s
      BY <1>2, <1>5, <1>6, <2>2
    <3>2. Exchange(s, down[k] \o a, up[k], tx[s], rx[s], offs[s], got[s])
      BY <1>2, <1>3, <1>5, <3>1, OthersDown
    <3> QED BY <1>6, <2>2, <3>1, <3>2
  <2> QED BY <2>1, <2>2
<1>9. /\ \A s \in over'[k] : s \in over[k] \/ tx[s] = "none"
      /\ \A s \in over'[k] : tx'[s] # "none"
      /\ over'[k] \subseteq Sends
  BY <1>2, <1>3, <1>5, <1>6
<1> QED BY <1>6, <1>7, <1>8, <1>9, Elsewhere

(* What Canceled and AllSent have in common. *)
LEMMA EndKeeps ==
    ASSUME TypeOK, StopAndWait, NEW k \in Skts, up[k] # <<>>,
           NEW t, t = Head(up[k]).send, Head(up[k]).kind = "chunk",
           NEW state, NEW last,
           \/ last = <<>>
           \/ last = <<Complete(t)>> /\ Head(up[k]).ok /\ offs[t] = N,
           onAssetBaseSent(t, k, state, last), Taken(k), UNCHANGED recvVars
    PROVE  StopAndWait'
<1>1. /\ t \in over[k] /\ t \in Sends /\ over[k] \subseteq Sends
      /\ down[k] \in Seq(Packets) /\ up[k] \in Seq(Packets) /\ Tail(up[k]) \in Seq(Packets)
      /\ From(down[k], over[k]) /\ From(Tail(up[k]), over[k])
      /\ \A s \in over[k] : tx[s] # "none"
      /\ \A s \in over[k] :
           Exchange(s, down[k], Tail(up[k]), tx[s], rx[s], offs[s], got[s])
      /\ \A i \in 1..Len(Tail(up[k])) :
           Tail(up[k])[i].send = t => Tail(up[k])[i].kind # "chunk"
      /\ \A i \in 1..Len(down[k]) : down[k][i].send # t
      /\ Head(up[k]).ok => got[t] = offs[t]
  BY Replied
<1>2. /\ tx \in [Sends -> {"none", "open", "noFile", "ended"}] /\ offs \in [Sends -> 0..N]
      /\ over \in [Skts -> SUBSET Sends] /\ down \in [Skts -> Seq(Packets)]
      /\ up \in [Skts -> Seq(Packets)]
  BY DEF TypeOK
<1>3. /\ up'[k] = Tail(up[k]) /\ rx' = rx /\ got' = got
      /\ \A j \in Skts : j # k => up'[j] = up[j]
  BY <1>2 DEF Taken, recvVars
<1>4. Complete(t) \in Packets /\ Complete(t).kind = "complete" /\ Complete(t).send = t
  BY <1>1, ChunksAssumption DEF Complete, Packets
(* What is sent after the end of the session. *)
<1>5. ASSUME NEW b, b = <<>> \/ b = last
      PROVE  b \in Seq(Packets) /\ \A i \in 1..Len(b) : b[i].send = t
  <2>1. CASE b = <<>>
    BY <2>1
  <2>2. CASE b = <<Complete(t)>>
    BY <1>4, <2>2
  <2> QED BY <1>5, <2>1, <2>2
<1>6. ASSUME NEW d \in Seq(Packets), \A i \in 1..Len(d) : d[i].send # t,
             Exchange(t, d, Tail(up[k]), "ended", rx[t], offs[t], got[t]),
             NEW b, b = <<>> \/ b = last
      PROVE  Exchange(t, d \o b, Tail(up[k]), "ended", rx[t], offs[t], got[t])
  <2>1. CASE b = <<>>
    <3>1. d \o b = d
      BY <1>6, <2>1
    <3> QED BY <1>6, <3>1
  <2>2. CASE b = <<Complete(t)>> /\ Head(up[k]).ok /\ offs[t] = N
    <3>1. offs[t] \in Nat /\ got[t] = N
      BY <1>1, <1>2, <2>2, ChunksAssumption
    <3> QED BY <1>1, <1>4, <1>6, <2>2, <3>1, SendsOne
  <2> QED BY <1>6, <2>1, <2>2
<1>7. Exchange(t, down[k], Tail(up[k]), "ended", rx[t], offs[t], got[t])
  BY <1>1, Weaken
(* The session ends. *)
<1>8. ASSUME NEW b, b = <<>> \/ b = last,
             tx' = [tx EXCEPT ![t] = "ended"],
             down' = [down EXCEPT ![k] = @ \o b],
             UNCHANGED <<over, offs>>
      PROVE  StopAndWait'
  <2>1. /\ tx'[t] = "ended" /\ down'[k] = down[k] \o b /\ over' = over /\ offs' = offs
        /\ \A s \in Sends : s # t => tx'[s] = tx[s]
        /\ \A j \in Skts : j # k => down'[j] = down[j]
    BY <1>1, <1>2, <1>8
  <2>2. From(down'[k], over'[k]) /\ From(up'[k], over'[k])
    <3>1. From(b, over[k]) /\ b \in Seq(Packets)
      BY <1>1, <1>5, <1>8 DEF From
    <3>2. From(down[k] \o b, over[k])
      BY <1>1, <3>1, FromParts
    <3> QED BY <1>1, <1>3, <2>1, <3>2
  <2>3. ASSUME NEW s \in over'[k]
        PROVE  /\ tx'[s] # "none"
               /\ Exchange(s, down'[k], up'[k], tx'[s], rx'[s], offs'[s], got'[s])
    <3>1. CASE s = t
      <4>1. Exchange(t, down[k] \o b, Tail(up[k]), "ended", rx[t], offs[t], got[t])
        BY <1>1, <1>6, <1>7, <1>8
      <4> QED BY <1>3, <2>1, <3>1, <4>1
    <3>2. CASE s # t
      <4>1. s \in over[k] /\ s \in Sends /\ b \in Seq(Packets) /\ \A i \in 1..Len(b) : b[i].send # s
        BY <1>1, <1>5, <1>8, <2>1, <3>2
      <4>2. Exchange(s, down[k] \o b, Tail(up[k]), tx[s], rx[s], offs[s], got[s])
        BY <1>1, <4>1, OthersDown
      <4> QED BY <1>1, <1>3, <2>1, <3>2, <4>1, <4>2
    <3> QED BY <3>1, <3>2
  <2>4. \A s \in Sends : s \notin over'[k] =>
          tx'[s] = tx[s] /\ rx'[s] = rx[s] /\ offs'[s] = offs[s] /\ got'[s] = got[s]
    BY <1>1, <1>3, <2>1
  <2> QED BY <1>1, <1>3, <2>1, <2>2, <2>3, <2>4, Elsewhere, ZenonT(40)
(* The queue's copy of the file is sent before it does. *)
<1>9. ASSUME NEW s \in Fresh, NEW new \in createAssetTxSessionAndSend(s, k),
             NEW a, NEW b, \/ a = new.packets /\ b = last
                           \/ a = <<>> /\ b = <<>>,
             tx' = [tx EXCEPT ![t] = "ended", ![s] = new.tx],
             down' = [down EXCEPT ![k] = @ \o (a \o b)],
             over' = [over EXCEPT ![k] = @ \union {s}],
             offs' = [offs EXCEPT ![s] = IF new.tx = "open" THEN 1 ELSE 0]
      PROVE  StopAndWait'
  <2>1. /\ s \in Sends /\ tx[s] = "none" /\ s \notin over[k]
        /\ new.tx # "none"
        /\ a \in Seq(Packets) /\ \A i \in 1..Len(a) : a[i].send = s
        /\ \A o : o = (IF new.tx = "open" THEN 1 ELSE 0) =>
              Exchange(s, down[k] \o a, Tail(up[k]), new.tx, rx[s], o, got[s])
    BY <1>1, <1>9, Opens
  <2>2. b \in Seq(Packets) /\ \A i \in 1..Len(b) : b[i].send = t
    BY <1>5, <1>9
  <2>3. down[k] \o (a \o b) = (down[k] \o a) \o b /\ down[k] \o a \in Seq(Packets)
    <3>1. down[k] \in Seq(Packets) /\ a \in Seq(Packets) /\ b \in Seq(Packets)
      BY <1>1, <2>1, <2>2
    <3>2. down[k] \o (a \o b) = (down[k] \o a) \o b
      BY ONLY <3>1, Associates
    <3> QED BY <3>1, <3>2, Joins
  <2>4. /\ s # t /\ tx'[t] = "ended" /\ tx'[s] = new.tx
        /\ down'[k] = (down[k] \o a) \o b
        /\ over'[k] = over[k] \union {s}
        /\ offs'[s] = IF new.tx = "open" THEN 1 ELSE 0
        /\ \A r \in Sends : r # s => offs'[r] = offs[r]
        /\ \A r \in Sends : r # s /\ r # t => tx'[r] = tx[r]
        /\ \A j \in Skts : j # k => over'[j] = over[j] /\ down'[j] = down[j]
    BY <1>1, <1>2, <1>9, <2>1, <2>3
  <2>5. From(down'[k], over'[k]) /\ From(up'[k], over'[k])
    <3>1. From(a, over'[k]) /\ From(b, over'[k]) /\ over[k] \subseteq over'[k]
      BY <1>1, <2>1, <2>2, <2>4 DEF From
    <3>2. From(down[k] \o a, over'[k]) /\ From(Tail(up[k]), over'[k])
      BY <1>1, <2>1, <3>1, FromParts
    <3>3. From((down[k] \o a) \o b, over'[k])
      BY <2>2, <2>3, <3>1, <3>2, FromParts
    <3> QED BY <1>3, <2>4, <3>2, <3>3
  <2>6. ASSUME NEW r \in over'[k]
        PROVE  /\ tx'[r] # "none"
               /\ Exchange(r, down'[k], up'[k], tx'[r], rx'[r], offs'[r], got'[r])
    <3>1. CASE r = s
      <4>1. Exchange(s, down[k] \o a, Tail(up[k]), tx'[s], rx[s], offs'[s], got[s])
        BY <2>1, <2>4
      <4>2. \A i \in 1..Len(b) : b[i].send # s
        BY <2>2, <2>4
      <4>3. Exchange(s, (down[k] \o a) \o b, Tail(up[k]), tx'[s], rx[s], offs'[s], got[s])
        BY <2>2, <2>3, <4>1, <4>2, OthersDown
      <4> QED BY <1>3, <2>1, <2>4, <3>1, <4>3
    <3>2. CASE r = t
      <4>1. \A i \in 1..Len(down[k] \o a) : (down[k] \o a)[i].send # t
        <5>1. \A i \in 1..Len(a) : a[i].send # t
          BY <2>1, <2>4
        <5>2. /\ down[k] \in Seq(Packets) /\ a \in Seq(Packets)
              /\ \A i \in 1..Len(down[k]) : down[k][i].send # t
          BY <1>1, <2>1
        <5> QED BY ONLY <5>1, <5>2, NoneOf
      <4>2. \A i \in 1..Len(a) : a[i].send # t
        BY <2>1, <2>4
      <4>3. Exchange(t, down[k] \o a, Tail(up[k]), "ended", rx[t], offs[t], got[t])
        BY <1>1, <1>7, <2>1, <4>2, OthersDown
      <4>4. Exchange(t, (down[k] \o a) \o b, Tail(up[k]), "ended", rx[t], offs[t], got[t])
        BY <1>6, <1>9, <2>3, <4>1, <4>3
      <4> QED BY <1>1, <1>3, <2>4, <3>2, <4>4
    <3>3. CASE r # s /\ r # t
      <4>1. /\ r \in over[k] /\ r \in Sends
            /\ \A i \in 1..Len(a) : a[i].send # r
            /\ \A i \in 1..Len(b) : b[i].send # r
        BY <1>1, <2>1, <2>2, <2>4, <3>3
      <4>2. Exchange(r, down[k] \o a, Tail(up[k]), tx[r], rx[r], offs[r], got[r])
        BY <1>1, <2>1, <4>1, OthersDown
      <4>3. Exchange(r, (down[k] \o a) \o b, Tail(up[k]), tx[r], rx[r], offs[r], got[r])
        BY <2>2, <2>3, <4>1, <4>2, OthersDown
      <4> QED BY <1>1, <1>3, <2>4, <3>3, <4>1, <4>3
    <3> QED BY <3>1, <3>2, <3>3
  <2>7. /\ \A r \in over'[k] : r \in over[k] \/ tx[r] = "none"
        /\ over'[k] \subseteq Sends
        /\ \A r \in Sends : r \notin over'[k] =>
             tx'[r] = tx[r] /\ rx'[r] = rx[r] /\ offs'[r] = offs[r] /\ got'[r] = got[r]
    BY <1>1, <1>3, <2>1, <2>4
  <2> QED BY <1>3, <2>4, <2>5, <2>6, <2>7, Elsewhere, ZenonT(40)
<1> DEFINE again == IF queued THEN Fresh ELSE {}
<1>10. CASE /\ End(t)
            /\ down' = [down EXCEPT ![k] = @ \o Carried(k, last)]
            /\ UNCHANGED <<over, offs>>
  <2>1. Carried(k, last) = <<>> \/ Carried(k, last) = last
    BY DEF Carried
  <2> QED BY <1>8, <1>10, <2>1 DEF End
<1>11. CASE \E s \in again : \E new \in createAssetTxSessionAndSend(s, k) :
                /\ tx' = [tx EXCEPT ![t] = "ended", ![s] = new.tx]
                /\ down' = [down EXCEPT ![k] = @ \o Carried(k, new.packets \o last)]
                /\ over' = [over EXCEPT ![k] = @ \union {s}]
                /\ offs' = [offs EXCEPT ![s] = IF new.tx = "open" THEN 1 ELSE 0]
  <2>1. PICK s \in again : \E new \in createAssetTxSessionAndSend(s, k) :
                /\ tx' = [tx EXCEPT ![t] = "ended", ![s] = new.tx]
                /\ down' = [down EXCEPT ![k] = @ \o Carried(k, new.packets \o last)]
                /\ over' = [over EXCEPT ![k] = @ \union {s}]
                /\ offs' = [offs EXCEPT ![s] = IF new.tx = "open" THEN 1 ELSE 0]
    BY <1>11
  <2>2. PICK new \in createAssetTxSessionAndSend(s, k) :
                /\ tx' = [tx EXCEPT ![t] = "ended", ![s] = new.tx]
                /\ down' = [down EXCEPT ![k] = @ \o Carried(k, new.packets \o last)]
                /\ over' = [over EXCEPT ![k] = @ \union {s}]
                /\ offs' = [offs EXCEPT ![s] = IF new.tx = "open" THEN 1 ELSE 0]
    BY <2>1
  <2>3. s \in Fresh
    BY <2>1
  <2>4. CASE Carried(k, new.packets \o last) = new.packets \o last
    BY <1>9, <2>2, <2>3, <2>4
  <2>5. CASE Carried(k, new.packets \o last) = <<>>
    <3>1. <<>> \o <<>> = <<>>
      OBVIOUS
    <3> QED BY <1>9, <2>2, <2>3, <2>5, <3>1
  <2> QED BY <2>4, <2>5 DEF Carried
<1> QED BY <1>10, <1>11 DEF onAssetBaseSent

(* What the sender does to a reply without sending anything. *)
LEMMA TakenKeeps ==
    ASSUME TypeOK, StopAndWait, NEW k \in Skts, up[k] # <<>>,
           tx' = tx \/ End(Head(up[k]).send), Taken(k),
           UNCHANGED <<over, down, offs, recvVars>>
    PROVE  StopAndWait'
<1> DEFINE t == Head(up[k]).send
<1>1. /\ t \in over[k] /\ t \in Sends /\ over[k] \subseteq Sends
      /\ From(down[k], over[k]) /\ From(Tail(up[k]), over[k])
      /\ \A s \in over[k] : tx[s] # "none"
      /\ \A s \in over[k] :
           Exchange(s, down[k], Tail(up[k]), tx[s], rx[s], offs[s], got[s])
  BY Replied
<1>2. /\ tx \in [Sends -> {"none", "open", "noFile", "ended"}]
      /\ up \in [Skts -> Seq(Packets)]
  BY DEF TypeOK
<1>3. /\ up'[k] = Tail(up[k]) /\ rx' = rx /\ got' = got /\ over' = over /\ down' = down
      /\ offs' = offs
      /\ \A j \in Skts : j # k => up'[j] = up[j]
  BY <1>2 DEF Taken, recvVars
<1>4. \A s \in Sends : tx'[s] = tx[s] \/ (s = t /\ tx'[s] = "ended")
  BY <1>1, <1>2 DEF End
<1> HIDE DEF t
<1>5. ASSUME NEW s \in over[k]
      PROVE  /\ tx'[s] # "none"
             /\ Exchange(s, down[k], Tail(up[k]), tx'[s], rx[s], offs[s], got[s])
  <2>1. tx'[s] = tx[s] \/ tx'[s] = "ended"
    BY <1>1, <1>4
  <2> QED BY <1>1, <2>1, Weaken
<1>6. \A s \in Sends : s \notin over'[k] =>
        tx'[s] = tx[s] /\ rx'[s] = rx[s] /\ offs'[s] = offs[s] /\ got'[s] = got[s]
  BY <1>1, <1>3, <1>4
<1> QED BY <1>1, <1>3, <1>5, <1>6, Elsewhere

LEMMA NextChunkKeeps ==
    ASSUME TypeOK, StopAndWait, NEW k \in Skts, NextChunk(k)
    PROVE  StopAndWait'
<1> DEFINE t == Head(up[k]).send
           p == Chunk(t, offs[t] + 1)
           a == Carried(k, <<p>>)
<1>1. /\ up[k] # <<>> /\ Head(up[k]).kind = "chunk" /\ Head(up[k]).ok /\ offs[t] < N
      /\ offs' = [offs EXCEPT ![t] = @ + 1]
      /\ down' = [down EXCEPT ![k] = @ \o a]
      /\ tx' = tx \/ End(t)
      /\ Taken(k) /\ UNCHANGED <<over, recvVars>>
  BY DEF NextChunk, Arrives, netVars
<1>2. /\ t \in over[k] /\ t \in Sends /\ over[k] \subseteq Sends
      /\ down[k] \in Seq(Packets)
      /\ From(down[k], over[k]) /\ From(Tail(up[k]), over[k])
      /\ \A s \in over[k] : tx[s] # "none"
      /\ \A s \in over[k] :
           Exchange(s, down[k], Tail(up[k]), tx[s], rx[s], offs[s], got[s])
      /\ \A i \in 1..Len(Tail(up[k])) :
           Tail(up[k])[i].send = t => Tail(up[k])[i].kind # "chunk"
      /\ \A i \in 1..Len(down[k]) : down[k][i].send # t
      /\ got[t] = offs[t]
  BY <1>1, Replied
<1>3. /\ tx \in [Sends -> {"none", "open", "noFile", "ended"}] /\ offs \in [Sends -> 0..N]
      /\ up \in [Skts -> Seq(Packets)] /\ down \in [Skts -> Seq(Packets)]
  BY DEF TypeOK
<1>4. /\ p \in Packets /\ p.kind = "chunk" /\ p.chunk = offs[t] + 1 /\ p.send = t
      /\ offs[t] + 1 \in Nat
  BY <1>1, <1>2, <1>3, ChunksAssumption DEF Chunk, Packets
<1>5. a \in {<<>>, <<p>>}
  BY DEF Carried
<1> HIDE DEF p, a
<1>6. a \in Seq(Packets) /\ \A i \in 1..Len(a) : a[i].send = t
  <2>1. CASE a = <<>>
    BY <2>1
  <2>2. CASE a = <<p>>
    BY <1>4, <2>2
  <2> QED BY <1>5, <2>1, <2>2
<1>7. /\ up'[k] = Tail(up[k]) /\ rx' = rx /\ got' = got /\ over' = over
      /\ down'[k] = down[k] \o a
      /\ offs'[t] = offs[t] + 1
      /\ \A s \in Sends : s # t => offs'[s] = offs[s]
      /\ \A j \in Skts : j # k => up'[j] = up[j] /\ down'[j] = down[j]
  BY <1>1, <1>2, <1>3 DEF Taken, recvVars
<1>8. \A s \in Sends : tx'[s] = tx[s] \/ (s = t /\ tx'[s] = "ended")
  BY <1>1, <1>2, <1>3 DEF End
<1> HIDE DEF t
<1>9. From(down'[k], over'[k]) /\ From(up'[k], over'[k])
  <2>1. From(a, over[k])
    BY <1>2, <1>6 DEF From
  <2>2. From(down[k] \o a, over[k])
    BY <1>2, <1>6, <2>1, FromParts
  <2> QED BY <1>2, <1>7, <2>2
<1>10. ASSUME NEW s \in over[k]
       PROVE  /\ tx'[s] # "none"
              /\ Exchange(s, down'[k], up'[k], tx'[s], rx[s], offs'[s], got[s])
  <2>1. CASE s = t
    <3>1. tx'[t] # "none"
      BY <1>2, <1>8
    <3>2. Exchange(t, down[k] \o a, Tail(up[k]), tx'[t], rx[t], offs[t] + 1, got[t])
      BY <1>2, <1>4, <1>5, SendsOne
    <3> QED BY <1>7, <2>1, <3>1, <3>2
  <2>2. CASE s # t
    <3>1. s \in Sends /\ \A i \in 1..Len(a) : a[i].send # s
      BY <1>2, <1>6, <2>2
    <3>2. Exchange(s, down[k] \o a, Tail(up[k]), tx[s], rx[s], offs[s], got[s])
      BY <1>2, <1>6, <3>1, OthersDown
    <3> QED BY <1>2, <1>7, <1>8, <2>2, <3>1, <3>2
  <2> QED BY <2>1, <2>2
<1>11. \A s \in Sends : s \notin over'[k] =>
        tx'[s] = tx[s] /\ rx'[s] = rx[s] /\ offs'[s] = offs[s] /\ got'[s] = got[s]
  BY <1>2, <1>7, <1>8
<1> QED BY <1>2, <1>7, <1>9, <1>10, <1>11, Elsewhere

LEMMA SLostKeeps ==
    ASSUME TypeOK, StopAndWait, NEW k \in Skts, SLost(k)
    PROVE  StopAndWait'
<1>1. /\ over[k] \subseteq Sends /\ up \in [Skts -> Seq(Packets)]
      /\ From(down[k], over[k])
      /\ \A s \in over[k] : tx[s] # "none"
      /\ \A s \in over[k] : Exchange(s, down[k], up[k], tx[s], rx[s], offs[s], got[s])
  BY DEF TypeOK, StopAndWait, Owned
<1>2. /\ up'[k] = <<>> /\ rx' = rx /\ got' = got /\ over' = over /\ down' = down /\ offs' = offs
      /\ \A j \in Skts : j # k => up'[j] = up[j]
      /\ \A s \in Sends : tx'[s] = tx[s] \/ (s \in over[k] /\ tx'[s] = "ended")
  BY <1>1 DEF SLost, recvVars, netVars
<1>3. ASSUME NEW s \in over[k]
      PROVE  /\ tx'[s] # "none"
             /\ Exchange(s, down[k], <<>>, tx'[s], rx[s], offs[s], got[s])
  <2>1. Exchange(s, down[k], <<>>, tx[s], rx[s], offs[s], got[s])
    BY <1>1, LoseUp
  <2>2. tx'[s] = tx[s] \/ tx'[s] = "ended"
    BY <1>1, <1>2
  <2> QED BY <1>1, <2>1, <2>2, Weaken
<1>4. From(<<>>, over[k])
  BY DEF From
<1>5. \A s \in Sends : s \notin over'[k] =>
        tx'[s] = tx[s] /\ rx'[s] = rx[s] /\ offs'[s] = offs[s] /\ got'[s] = got[s]
  BY <1>2
<1> QED BY <1>1, <1>2, <1>3, <1>4, <1>5, Elsewhere

LEMMA SenderKeeps ==
    ASSUME TypeOK, StopAndWait, NEW k \in Skts, SenderStep(k)
    PROVE  StopAndWait'
<1>1. CASE OnSendReply(k)
  BY <1>1, TakenKeeps DEF OnSendReply, Arrives, netVars
<1>2. CASE ChunkIgnored(k)
  BY <1>2, TakenKeeps DEF ChunkIgnored, Arrives, netVars, sendVars
<1>3. CASE Canceled(k)
  BY <1>3, EndKeeps DEF Canceled, Arrives
<1>4. CASE AllSent(k)
  BY <1>4, EndKeeps DEF AllSent, Arrives
<1>5. CASE NextChunk(k)
  BY <1>5, NextChunkKeeps
<1>6. CASE ReadFails(k)
  BY <1>6, TakenKeeps DEF ReadFails, Arrives, netVars
<1>7. CASE OnCompleteReply(k)
  BY <1>7, TakenKeeps DEF OnCompleteReply, Arrives, netVars
<1>8. CASE SLost(k)
  BY <1>8, SLostKeeps
<1> QED BY <1>1, <1>2, <1>3, <1>4, <1>5, <1>6, <1>7, <1>8 DEF SenderStep, OnChunkReply

(* What the receiver does to a packet: it may answer, in kind, and change  *)
(* the session; a chunk that is answered without error is written.         *)
LEMMA AnswerKeeps ==
    ASSUME TypeOK, StopAndWait, NEW k \in Skts, down[k] # <<>>, NEW t, t = Head(down[k]).send,
           NEW p \in Packets, p.send = t, p.kind = Head(down[k]).kind,
           Answer(k, p) \/ up' = up, Handled(k), UNCHANGED <<over, tx, offs>>,
           \A s \in Sends : s # t => rx'[s] = rx[s] /\ got'[s] = got[s],
           p.kind = "chunk" => got'[t] = offs[t] \/ ~p.ok,
           p.kind # "chunk" => got'[t] = got[t]
    PROVE  StopAndWait'
<1>0. PICK b : (b = <<>> \/ b = <<p>>) /\ up' = [up EXCEPT ![k] = @ \o b]
  <2>1. up = [up EXCEPT ![k] = @ \o <<>>]
    BY DEF TypeOK
  <2> QED BY <2>1 DEF Answer, Carried
<1>1. /\ t \in over[k] /\ t \in Sends /\ over[k] \subseteq Sends
      /\ up[k] \in Seq(Packets) /\ Tail(down[k]) \in Seq(Packets)
      /\ From(Tail(down[k]), over[k]) /\ From(up[k], over[k])
      /\ \A s \in over[k] : tx[s] # "none"
      /\ \A s \in over[k] :
           Exchange(s, Tail(down[k]), up[k], tx[s], rx[s], offs[s], got[s])
      /\ p.kind = "request" =>
           /\ \A i \in 1..Len(Tail(down[k])) :
                   Tail(down[k])[i].send = t => Tail(down[k])[i].kind = "chunk"
           /\ \A i \in 1..Len(up[k]) : up[k][i].send # t
      /\ p.kind # "request" =>
           /\ \A i \in 1..Len(Tail(down[k])) : Tail(down[k])[i].send # t
           /\ \A i \in 1..Len(up[k]) : up[k][i].send = t => up[k][i].kind # "chunk"
  BY Asked
<1>2. up \in [Skts -> Seq(Packets)] /\ down \in [Skts -> Seq(Packets)]
  BY DEF TypeOK
<1>3. b \in Seq(Packets) /\ \A i \in 1..Len(b) : b[i].send = t
  <2>1. CASE b = <<>>
    BY <2>1
  <2>2. CASE b = <<p>>
    BY <2>2
  <2> QED BY <1>0, <2>1, <2>2
<1>4. /\ up'[k] = up[k] \o b /\ down'[k] = Tail(down[k])
      /\ over' = over /\ tx' = tx /\ offs' = offs
      /\ \A j \in Skts : j # k => up'[j] = up[j] /\ down'[j] = down[j]
  BY <1>0, <1>2 DEF Handled
<1>5. From(down'[k], over'[k]) /\ From(up'[k], over'[k])
  <2>1. From(b, over[k])
    BY <1>1, <1>3 DEF From
  <2>2. From(up[k] \o b, over[k])
    BY <1>1, <1>3, <2>1, FromParts
  <2> QED BY <1>1, <1>4, <2>2
<1> DEFINE d == Tail(down[k])
<1>6. Exchange(t, d, up[k] \o b, tx[t], rx'[t], offs[t], got'[t])
  <2>1. Exchange(t, d, up[k], tx[t], rx[t], offs[t], got[t])
    BY <1>1
  <2>2. CASE p.kind = "request"
    <3>1. got'[t] = got[t]
      BY <2>2
    <3>2. Exchange(t, d, up[k], tx[t], rx'[t], offs[t], got'[t])
      BY <1>1, <2>1, <2>2, <3>1 DEF Exchange
    <3> QED BY <1>0, <1>1, <2>2, <3>2, Answers
  <2>3. CASE p.kind = "chunk"
    <3>1. got'[t] = offs[t] \/ ~p.ok
      BY <2>3
    <3>2. Exchange(t, d, up[k], tx[t], rx'[t], offs[t], got'[t])
      BY <1>1, <2>1, <2>3 DEF Exchange
    <3> QED BY <1>0, <1>1, <2>3, <3>1, <3>2, Answers
  <2>4. CASE p.kind = "complete"
    <3>1. Exchange(t, d, up[k], tx[t], rx'[t], offs[t], got'[t])
      BY <1>1, <2>1, <2>4 DEF Exchange
    <3> QED BY <1>0, <1>1, <2>4, <3>1, Answers, ZenonT(40)
  <2> QED BY <2>2, <2>3, <2>4 DEF Packets
<1>7. ASSUME NEW s \in over[k], s # t
      PROVE  Exchange(s, d, up[k] \o b, tx[s], rx'[s], offs[s], got'[s])
  <2>1. s \in Sends /\ \A i \in 1..Len(b) : b[i].send # s
    BY <1>1, <1>3, <1>7
  <2>2. Exchange(s, d, up[k] \o b, tx[s], rx[s], offs[s], got[s])
    BY <1>1, <1>3, <2>1, OthersUp
  <2> QED BY <1>7, <2>1, <2>2
<1>8. \A s \in over'[k] :
        Exchange(s, down'[k], up'[k], tx'[s], rx'[s], offs'[s], got'[s])
  BY <1>4, <1>6, <1>7
<1>9. \A s \in Sends : s \notin over'[k] =>
        tx'[s] = tx[s] /\ rx'[s] = rx[s] /\ offs'[s] = offs[s] /\ got'[s] = got[s]
  BY <1>1, <1>4
<1>10. /\ \A j \in Skts : j # k => over'[j] = over[j] /\ down'[j] = down[j] /\ up'[j] = up[j]
       /\ \A s \in over'[k] : s \in over[k] \/ tx[s] = "none"
       /\ \A s \in over'[k] : tx'[s] # "none"
       /\ over'[k] \subseteq Sends
  BY <1>1, <1>4
<1> QED BY <1>5, <1>8, <1>9, <1>10, Elsewhere

LEMMA ReceiverKeeps ==
    ASSUME TypeOK, StopAndWait, NEW k \in Skts, ReceiverStep(k)
    PROVE  StopAndWait'
<1> DEFINE t == Head(down[k]).send
<1>1. /\ rx \in [Sends -> {"none", "open", "moving", "ending", "gone"}]
      /\ got \in [Sends -> 0..N]
  BY DEF TypeOK
<1>2. ASSUME down[k] # <<>>
      PROVE  /\ t \in Sends
             /\ Head(down[k]).kind = "chunk" => offs[t] = got[t] + 1
             /\ Head(down[k]).kind = "request" => got[t] = 0
  BY <1>2, Asked
<1>3. ASSUME NEW s \in Sends, NEW r \in BOOLEAN
      PROVE  /\ Reply(s, r) \in Packets /\ Reply(s, r).send = s
             /\ Reply(s, r).kind = "request"
             /\ Ack(s, r) \in Packets /\ Ack(s, r).send = s
             /\ Ack(s, r).kind = "chunk" /\ Ack(s, r).ok = r
             /\ Done(s) \in Packets /\ Done(s).send = s /\ Done(s).kind = "complete"
  BY ChunksAssumption DEF Reply, Ack, Done, Packets
<1>4. ASSUME NEW p \in Packets, down[k] # <<>>, p.send = t, p.kind = Head(down[k]).kind,
             Answer(k, p) \/ up' = up, Handled(k), UNCHANGED <<over, tx, offs>>,
             \A s \in Sends : s # t => rx'[s] = rx[s] /\ got'[s] = got[s],
             p.kind = "chunk" => got'[t] = offs[t] \/ ~p.ok,
             p.kind # "chunk" => got'[t] = got[t]
      PROVE  StopAndWait'
  BY <1>4, AnswerKeeps
<1> HIDE DEF t
<1>5. CASE Refuse(k)
  <2> DEFINE p == Reply(t, FALSE)
  <2>1. /\ down[k] # <<>> /\ Head(down[k]).kind = "request"
        /\ Answer(k, p) /\ Handled(k) /\ UNCHANGED <<over, tx, offs, rx, got>>
    BY <1>5 DEF Refuse, Comes, netVars, sendVars, recvVars, t
  <2>2. p \in Packets /\ p.send = t /\ p.kind = "request"
    BY <1>2, <1>3, <2>1
  <2> HIDE DEF p
  <2> QED BY <1>4, <2>1, <2>2
<1>6. CASE CannotReceive(k)
  <2> DEFINE p == Reply(t, FALSE)
  <2>1. /\ down[k] # <<>> /\ Head(down[k]).kind = "request"
        /\ Answer(k, p) /\ Handled(k) /\ UNCHANGED <<over, tx, offs, got>>
        /\ rx' = [rx EXCEPT ![t] = "gone"]
    BY <1>6 DEF CannotReceive, Comes, netVars, sendVars, EndRx, t
  <2>2. \A s \in Sends : s # t => rx'[s] = rx[s]
    BY <1>1, <2>1
  <2>3. p \in Packets /\ p.send = t /\ p.kind = "request"
    BY <1>2, <1>3, <2>1
  <2> HIDE DEF p
  <2> QED BY <1>2, <1>4, <2>1, <2>2, <2>3
<1>7. CASE Receive(k)
  <2> DEFINE p == Reply(t, TRUE)
  <2>1. /\ down[k] # <<>> /\ Head(down[k]).kind = "request"
        /\ Answer(k, p) /\ Handled(k) /\ UNCHANGED <<over, tx, offs>>
        /\ rx' = [rx EXCEPT ![t] = "gone"] \/ rx' = [rx EXCEPT ![t] = "open"]
        /\ got' = [got EXCEPT ![t] = 0]
    BY <1>7 DEF Receive, Comes, netVars, sendVars, EndRx, t
  <2>2. /\ \A s \in Sends : s # t => rx'[s] = rx[s] /\ got'[s] = got[s]
        /\ got'[t] = got[t]
    BY <1>1, <1>2, <2>1
  <2>3. p \in Packets /\ p.send = t /\ p.kind = "request"
    BY <1>2, <1>3, <2>1
  <2> HIDE DEF p
  <2> QED BY <1>2, <1>4, <2>1, <2>2, <2>3
<1>8. CASE ChunkUnknown(k)
  <2> DEFINE p == Ack(t, FALSE)
  <2>1. /\ down[k] # <<>> /\ Head(down[k]).kind = "chunk"
        /\ Answer(k, p) /\ Handled(k) /\ UNCHANGED <<over, tx, offs, rx, got>>
    BY <1>8 DEF ChunkUnknown, Comes, netVars, sendVars, recvVars, t
  <2>2. p \in Packets /\ p.send = t /\ p.kind = "chunk" /\ p.ok = FALSE
    BY <1>2, <1>3, <2>1
  <2> HIDE DEF p
  <2> QED BY <1>4, <2>1, <2>2
<1>9. CASE ChunkWritten(k)
  <2> DEFINE p == Ack(t, TRUE)
  <2>1. /\ down[k] # <<>> /\ Head(down[k]).kind = "chunk"
        /\ Answer(k, p) /\ Handled(k) /\ UNCHANGED <<over, tx, offs>>
        /\ rx' = [rx EXCEPT ![t] = "gone"] \/ rx' = rx
        /\ got' = [got EXCEPT ![t] = @ + 1]
    BY <1>9 DEF ChunkWritten, Comes, netVars, sendVars, EndRx, t
  <2>2. /\ \A s \in Sends : s # t => rx'[s] = rx[s] /\ got'[s] = got[s]
        /\ got'[t] = offs[t]
    BY <1>1, <1>2, <2>1
  <2>3. p \in Packets /\ p.send = t /\ p.kind = "chunk" /\ p.ok = TRUE
    BY <1>2, <1>3, <2>1
  <2> HIDE DEF p
  <2> QED BY <1>2, <1>4, <2>1, <2>2, <2>3
<1>10. CASE WriteFails(k)
  <2> DEFINE p == Ack(t, FALSE)
  <2>1. /\ down[k] # <<>> /\ Head(down[k]).kind = "chunk"
        /\ Answer(k, p) /\ Handled(k) /\ UNCHANGED <<over, tx, offs, got>>
        /\ rx' = [rx EXCEPT ![t] = "gone"]
    BY <1>10 DEF WriteFails, Comes, netVars, sendVars, EndRx, t
  <2>2. \A s \in Sends : s # t => rx'[s] = rx[s]
    BY <1>1, <2>1
  <2>3. p \in Packets /\ p.send = t /\ p.kind = "chunk" /\ p.ok = FALSE
    BY <1>2, <1>3, <2>1
  <2> HIDE DEF p
  <2> QED BY <1>2, <1>4, <2>1, <2>2, <2>3
<1>11. CASE OnComplete(k)
  <2> DEFINE p == Done(t)
  <2>1. /\ down[k] # <<>> /\ Head(down[k]).kind = "complete"
        /\ Handled(k) /\ UNCHANGED <<over, tx, offs, got>>
        /\ \/ rx' = [rx EXCEPT ![t] = "moving"] /\ Answer(k, p)
           \/ rx' = rx /\ up' = up
    BY <1>11 DEF OnComplete, Comes, netVars, sendVars, t
  <2>2. \A s \in Sends : s # t => rx'[s] = rx[s]
    BY <1>1, <2>1
  <2>3. p \in Packets /\ p.send = t /\ p.kind = "complete"
    BY <1>2, <1>3, <2>1
  <2> HIDE DEF p
  <2> QED BY <1>2, <1>4, <2>1, <2>2, <2>3
<1>12. CASE RLost(k) \/ \E s \in Sends : Move(k, s) \/ EndReceived(k, s)
  <2>1. /\ over' = over /\ tx' = tx /\ offs' = offs /\ got' = got /\ up' = up
        /\ down' = down \/ down' = [down EXCEPT ![k] = <<>>]
        /\ \A s \in Sends : rx'[s] = rx[s] \/ (s \in over[k] /\ rx[s] # "none")
    BY <1>1, <1>12 DEF RLost, Move, EndReceived, EndRx, netVars, sendVars
  <2>2. /\ over[k] \subseteq Sends /\ down \in [Skts -> Seq(Packets)]
        /\ From(up[k], over[k])
        /\ From(down[k], over[k])
        /\ \A s \in over[k] : tx[s] # "none"
        /\ \A s \in over[k] : Exchange(s, down[k], up[k], tx[s], rx[s], offs[s], got[s])
    BY DEF TypeOK, StopAndWait, Owned
  <2>3. /\ down'[k] = down[k] \/ down'[k] = <<>>
        /\ \A j \in Skts : j # k => down'[j] = down[j]
    BY <2>1, <2>2
  <2>4. From(down'[k], over'[k])
    BY <2>1, <2>2, <2>3 DEF From
  <2>5. ASSUME NEW s \in over[k]
        PROVE  Exchange(s, down'[k], up[k], tx[s], rx'[s], offs[s], got[s])
    <3>1. Exchange(s, down'[k], up[k], tx[s], rx[s], offs[s], got[s])
      BY <2>2, <2>3, LoseDown
    <3>2. rx'[s] = rx[s] \/ rx[s] # "none"
      BY <2>1, <2>2
    <3> QED BY <3>1, <3>2, Weaken
  <2>6. \A s \in Sends : s \notin over'[k] =>
          tx'[s] = tx[s] /\ rx'[s] = rx[s] /\ offs'[s] = offs[s] /\ got'[s] = got[s]
    BY <2>1
  <2> QED BY <2>1, <2>2, <2>3, <2>4, <2>5, <2>6, Elsewhere
<1> QED BY <1>5, <1>6, <1>7, <1>8, <1>9, <1>10, <1>11, <1>12
        DEF ReceiverStep, OnRequest, OnChunk

LEMMA StopAndWaitInit ==
    ASSUME Init
    PROVE  TypeOK /\ StopAndWait
<1>1. TypeOK
  <2>1. 0 \in 0..N /\ 0 \in 0..MaxSends /\ <<>> \in Seq(Packets)
    BY ChunksAssumption, MaxSendsAssumption
  <2>2. told \in {"none", "progress", "success", "fail"} /\ queued \in BOOLEAN
    BY DEF Init
  <2> QED BY <2>1, <2>2 DEF Init, TypeOK
<1>2. Owned
  BY DEF Init, Owned, From
<1>3. \A k \in Skts : over[k] = {}
  BY DEF Init
<1> QED BY <1>1, <1>2, <1>3 DEF StopAndWait

LEMMA StopAndWaitStep ==
    ASSUME TypeOK, StopAndWait, [Next]_vars
    PROVE  StopAndWait'
<1>1. CASE UNCHANGED vars
  BY <1>1 DEF vars, netVars, sendVars, recvVars, StopAndWait, Owned
<1>2. ASSUME NEW k \in Skts, Connect(k) \/ Drop(k)
      PROVE  StopAndWait'
  BY <1>2 DEF Connect, Drop, sendVars, recvVars, StopAndWait, Owned
<1>3. ASSUME NEW k \in Skts, Send(k)
      PROVE  StopAndWait'
  BY <1>3, SendKeeps
<1>4. ASSUME NEW k \in Skts, SenderStep(k)
      PROVE  StopAndWait'
  BY <1>4, SenderKeeps
<1>5. ASSUME NEW k \in Skts, ReceiverStep(k)
      PROVE  StopAndWait'
  BY <1>5, ReceiverKeeps
<1> QED BY <1>1, <1>2, <1>3, <1>4, <1>5 DEF Next

-----------------------------------------------------------------------------
(* Types *)

LEMMA QueueTypes ==
    ASSUME NEW f \in [Skts -> Seq(Packets)], NEW k \in Skts, NEW a \in Seq(Packets)
    PROVE  /\ [f EXCEPT ![k] = @ \o a] \in [Skts -> Seq(Packets)]
           /\ [f EXCEPT ![k] = @ \o Carried(k, a)] \in [Skts -> Seq(Packets)]
           /\ [f EXCEPT ![k] = <<>>] \in [Skts -> Seq(Packets)]
           /\ f[k] # <<>> => [f EXCEPT ![k] = Tail(@)] \in [Skts -> Seq(Packets)]
<1>1. f[k] \in Seq(Packets) /\ Carried(k, a) \in Seq(Packets)
  BY CarriedType
<1>2. f[k] \o a \in Seq(Packets) /\ f[k] \o Carried(k, a) \in Seq(Packets)
  BY <1>1, Joins
<1>3. f[k] # <<>> => Tail(f[k]) \in Seq(Packets)
  BY <1>1, Tails
<1> QED BY <1>2, <1>3

LEMMA SendTypes ==
    ASSUME TypeOK, StopAndWait, NEW k \in Skts, Send(k)
    PROVE  TypeOK'
<1>1. PICK t \in Fresh : \E new \in createAssetTxSessionAndSend(t, k) :
        /\ over' = [over EXCEPT ![k] = @ \union {t}]
        /\ tx' = [tx EXCEPT ![t] = new.tx]
        /\ offs' = [offs EXCEPT ![t] = IF new.tx = "open" THEN 1 ELSE 0]
        /\ told' = IF new.err THEN "fail" ELSE new.told
        /\ down' = [down EXCEPT ![k] = @ \o Carried(k, new.packets)]
        /\ UNCHANGED <<link, queued, sLost, up, recvVars>>
  BY DEF Send
<1>2. PICK new \in createAssetTxSessionAndSend(t, k) :
        /\ over' = [over EXCEPT ![k] = @ \union {t}]
        /\ tx' = [tx EXCEPT ![t] = new.tx]
        /\ offs' = [offs EXCEPT ![t] = IF new.tx = "open" THEN 1 ELSE 0]
        /\ told' = IF new.err THEN "fail" ELSE new.told
        /\ down' = [down EXCEPT ![k] = @ \o Carried(k, new.packets)]
        /\ UNCHANGED <<link, queued, sLost, up, recvVars>>
  BY <1>1
<1>3. t \in Sends
  BY DEF Fresh
<1>4. /\ new.tx \in {"open", "noFile", "ended"} /\ new.told \in {"progress", "fail"}
      /\ new.packets \in Seq(Packets)
  BY <1>3, NewSends
<1>5. over' \in [Skts -> SUBSET Sends]
  BY <1>2, <1>3 DEF TypeOK
<1>6. tx' \in [Sends -> {"none", "open", "noFile", "ended"}]
  BY <1>2, <1>4 DEF TypeOK
<1>7. offs' \in [Sends -> 0..N]
  <2>1. (IF new.tx = "open" THEN 1 ELSE 0) \in 0..N
    BY ChunksAssumption
  <2> QED BY <1>2, <2>1 DEF TypeOK
<1>8. told' \in {"none", "progress", "success", "fail"}
  BY <1>2, <1>4
<1>9. down' \in [Skts -> Seq(Packets)]
  BY <1>2, <1>4, QueueTypes DEF TypeOK
<1> QED BY <1>2, <1>5, <1>6, <1>7, <1>8, <1>9 DEF TypeOK, recvVars

LEMMA SentTypes ==
    ASSUME TypeOK, NEW k \in Skts, NEW t \in Sends, NEW state \in {"success", "fail"},
           NEW last \in {<<>>, <<Complete(t)>>},
           onAssetBaseSent(t, k, state, last)
    PROVE  /\ over' \in [Skts -> SUBSET Sends]
           /\ tx' \in [Sends -> {"none", "open", "noFile", "ended"}]
           /\ offs' \in [Sends -> 0..N]
           /\ told' \in {"none", "progress", "success", "fail"}
           /\ queued' \in BOOLEAN
           /\ down' \in [Skts -> Seq(Packets)]
<1>1. last \in Seq(Packets)
  <2>1. CASE last = <<>>
    BY <2>1
  <2>2. CASE last = <<Complete(t)>>
    BY <2>2, ChunksAssumption DEF Complete, Packets
  <2> QED BY <2>1, <2>2
<1> DEFINE again == IF queued THEN Fresh ELSE {}
<1>2. CASE /\ End(t)
           /\ told' = state
           /\ down' = [down EXCEPT ![k] = @ \o Carried(k, last)]
           /\ UNCHANGED <<over, offs, queued>>
  <2>1. down' \in [Skts -> Seq(Packets)]
    BY <1>1, <1>2, QueueTypes DEF TypeOK
  <2> QED BY <1>2, <2>1 DEF TypeOK, End
<1>3. ASSUME NEW s \in Fresh, NEW new \in createAssetTxSessionAndSend(s, k),
             tx' = [tx EXCEPT ![t] = "ended", ![s] = new.tx],
             told' = new.told,
             down' = [down EXCEPT ![k] = @ \o Carried(k, new.packets \o last)],
             over' = [over EXCEPT ![k] = @ \union {s}],
             offs' = [offs EXCEPT ![s] = IF new.tx = "open" THEN 1 ELSE 0],
             queued' = new.err
      PROVE  /\ over' \in [Skts -> SUBSET Sends]
             /\ tx' \in [Sends -> {"none", "open", "noFile", "ended"}]
             /\ offs' \in [Sends -> 0..N]
             /\ told' \in {"none", "progress", "success", "fail"}
             /\ queued' \in BOOLEAN
             /\ down' \in [Skts -> Seq(Packets)]
  <2>1. s \in Sends
    BY DEF Fresh
  <2>2. /\ new.tx \in {"open", "noFile", "ended"} /\ new.told \in {"progress", "fail"}
        /\ new.packets \in Seq(Packets) /\ new.err \in BOOLEAN
    BY <2>1, NewSends
  <2>3. new.packets \o last \in Seq(Packets)
    BY <1>1, <2>2, Joins
  <2>4. down' \in [Skts -> Seq(Packets)]
    BY <1>3, <2>3, QueueTypes DEF TypeOK
  <2>5. offs' \in [Sends -> 0..N]
    <3>1. (IF new.tx = "open" THEN 1 ELSE 0) \in 0..N
      BY ChunksAssumption
    <3> QED BY <1>3, <3>1 DEF TypeOK
  <2>6. tx' \in [Sends -> {"none", "open", "noFile", "ended"}]
    BY <1>3, <2>2 DEF TypeOK
  <2>7. over' \in [Skts -> SUBSET Sends]
    BY <1>3, <2>1 DEF TypeOK
  <2> QED BY <1>3, <2>2, <2>4, <2>5, <2>6, <2>7
<1>4. CASE \E s \in again : \E new \in createAssetTxSessionAndSend(s, k) :
                /\ tx' = [tx EXCEPT ![t] = "ended", ![s] = new.tx]
                /\ told' = new.told
                /\ down' = [down EXCEPT ![k] = @ \o Carried(k, new.packets \o last)]
                /\ over' = [over EXCEPT ![k] = @ \union {s}]
                /\ offs' = [offs EXCEPT ![s] = IF new.tx = "open" THEN 1 ELSE 0]
                /\ queued' = new.err
  <2>1. again \subseteq Fresh
    OBVIOUS
  <2> QED BY <1>3, <1>4, <2>1
<1> QED BY <1>2, <1>4 DEF onAssetBaseSent

LEMMA SenderTypes ==
    ASSUME TypeOK, StopAndWait, NEW k \in Skts, SenderStep(k)
    PROVE  TypeOK'
<1> DEFINE t == Head(up[k]).send
<1>1. ASSUME up[k] # <<>>
      PROVE  t \in Sends
  BY <1>1, Replied
<1>2. ASSUME up[k] # <<>>, Taken(k)
      PROVE  up' \in [Skts -> Seq(Packets)]
  <2>1. <<>> \in Seq(Packets)
    OBVIOUS
  <2> QED BY <1>2, <2>1, QueueTypes DEF Taken, TypeOK
<1>3. ASSUME up[k] # <<>>, tx' = tx \/ End(t)
      PROVE  tx' \in [Sends -> {"none", "open", "noFile", "ended"}]
  BY <1>1, <1>3 DEF TypeOK, End
<1> HIDE DEF t
<1>4. CASE OnSendReply(k)
  <2>1. /\ up[k] # <<>> /\ Taken(k) /\ (tx' = tx \/ End(t)) /\ (told' = told \/ told' = "fail")
        /\ UNCHANGED <<netVars, down, offs, queued, sLost, recvVars>>
    BY <1>4 DEF OnSendReply, Arrives, t
  <2> QED BY <1>2, <1>3, <2>1 DEF TypeOK, netVars, recvVars
<1>5. CASE ChunkIgnored(k)
  <2>1. up[k] # <<>> /\ Taken(k) /\ UNCHANGED <<netVars, down, sendVars, recvVars>>
    BY <1>5 DEF ChunkIgnored, Arrives
  <2> QED BY <1>2, <2>1 DEF TypeOK, netVars, recvVars, sendVars
<1>6. CASE Canceled(k) \/ AllSent(k)
  <2>1. /\ up[k] # <<>> /\ Taken(k) /\ UNCHANGED <<link, sLost, recvVars>>
        /\ \/ onAssetBaseSent(t, k, "fail", <<>>)
           \/ onAssetBaseSent(t, k, "success", <<Complete(t)>>)
    BY <1>6 DEF Canceled, AllSent, Arrives, t
  <2>2. up' \in [Skts -> Seq(Packets)] /\ t \in Sends
    BY <1>1, <1>2, <2>1 DEF t
  <2>3. /\ over' \in [Skts -> SUBSET Sends]
        /\ tx' \in [Sends -> {"none", "open", "noFile", "ended"}]
        /\ offs' \in [Sends -> 0..N]
        /\ told' \in {"none", "progress", "success", "fail"}
        /\ queued' \in BOOLEAN
        /\ down' \in [Skts -> Seq(Packets)]
    BY <2>1, <2>2, SentTypes
  <2> QED BY <2>1, <2>2, <2>3 DEF TypeOK, recvVars
<1>7. CASE NextChunk(k)
  <2>1. /\ up[k] # <<>> /\ Taken(k) /\ (tx' = tx \/ End(t)) /\ offs[t] < N
        /\ offs' = [offs EXCEPT ![t] = @ + 1]
        /\ down' = [down EXCEPT ![k] = @ \o Carried(k, <<Chunk(t, offs[t] + 1)>>)]
        /\ UNCHANGED <<netVars, told, queued, sLost, recvVars>>
    BY <1>7 DEF NextChunk, Arrives, t
  <2>2. up' \in [Skts -> Seq(Packets)] /\ t \in Sends
    BY <1>1, <1>2, <2>1 DEF t
  <2>3. offs[t] + 1 \in 0..N
    BY <2>1, <2>2, ChunksAssumption DEF TypeOK
  <2>4. Chunk(t, offs[t] + 1) \in Packets
    BY <2>2, <2>3 DEF Chunk, Packets
  <2>5. <<Chunk(t, offs[t] + 1)>> \in Seq(Packets)
    BY <2>4
  <2>6. down' \in [Skts -> Seq(Packets)]
    BY <2>1, <2>5, QueueTypes DEF TypeOK
  <2>7. offs' \in [Sends -> 0..N]
    BY <2>1, <2>3 DEF TypeOK
  <2> QED BY <1>3, <2>1, <2>2, <2>6, <2>7 DEF TypeOK, netVars, recvVars
<1>8. CASE ReadFails(k)
  <2>1. /\ up[k] # <<>> /\ Taken(k) /\ (tx' = tx \/ End(t))
        /\ UNCHANGED <<netVars, down, offs, told, queued, sLost, recvVars>>
    BY <1>8 DEF ReadFails, Arrives, t
  <2> QED BY <1>2, <1>3, <2>1 DEF TypeOK, netVars, recvVars
<1>9. CASE OnCompleteReply(k)
  <2>1. /\ up[k] # <<>> /\ Taken(k) /\ told' = "success"
        /\ UNCHANGED <<netVars, down, tx, offs, queued, sLost, recvVars>>
    BY <1>9 DEF OnCompleteReply, Arrives
  <2> QED BY <1>2, <2>1 DEF TypeOK, netVars, recvVars
<1>10. CASE SLost(k)
  <2>1. up' = [up EXCEPT ![k] = <<>>]
    BY <1>10 DEF SLost
  <2>2. up' \in [Skts -> Seq(Packets)]
    BY <2>1 DEF TypeOK
  <2>3. tx' \in [Sends -> {"none", "open", "noFile", "ended"}]
    BY <1>10 DEF SLost, TypeOK
  <2> QED BY <1>10, <2>2, <2>3 DEF SLost, TypeOK, netVars, recvVars
<1> QED BY <1>4, <1>5, <1>6, <1>7, <1>8, <1>9, <1>10 DEF SenderStep, OnChunkReply

LEMMA ReceiverTypes ==
    ASSUME TypeOK, StopAndWait, NEW k \in Skts, ReceiverStep(k)
    PROVE  TypeOK'
<1> DEFINE t == Head(down[k]).send
<1>1. ASSUME down[k] # <<>>
      PROVE  /\ t \in Sends /\ Head(down[k]).chunk \in 0..N
             /\ Head(down[k]).kind = "chunk" => offs[t] = got[t] + 1
  BY <1>1, Asked DEF Packets
<1>2. ASSUME down[k] # <<>>, Handled(k)
      PROVE  down' \in [Skts -> Seq(Packets)]
  <2>1. <<>> \in Seq(Packets)
    OBVIOUS
  <2> QED BY <1>2, <2>1, QueueTypes DEF Handled, TypeOK
<1>3. ASSUME NEW p \in Packets, Answer(k, p)
      PROVE  up' \in [Skts -> Seq(Packets)]
  <2>1. <<p>> \in Seq(Packets)
    OBVIOUS
  <2> QED BY <1>3, <2>1, QueueTypes DEF Answer, TypeOK
<1>4. ASSUME NEW s \in Sends
      PROVE  /\ \A r \in BOOLEAN : Reply(s, r) \in Packets /\ Ack(s, r) \in Packets
             /\ Done(s) \in Packets
  BY ChunksAssumption DEF Reply, Ack, Done, Packets
<1>5. 0 \in 0..MaxSends /\ 0 \in 0..N /\ Sends \subseteq 0..MaxSends
  BY MaxSendsAssumption, ChunksAssumption DEF Sends
<1> HIDE DEF t
<1>6. CASE Refuse(k)
  <2>1. /\ down[k] # <<>> /\ Answer(k, Reply(t, FALSE)) /\ Handled(k)
        /\ UNCHANGED <<netVars, sendVars, recvVars>>
    BY <1>6 DEF Refuse, Comes, t
  <2>2. up' \in [Skts -> Seq(Packets)] /\ down' \in [Skts -> Seq(Packets)]
    BY <1>1, <1>2, <1>3, <1>4, <2>1
  <2> QED BY <2>1, <2>2 DEF TypeOK, netVars, sendVars, recvVars
<1>7. CASE CannotReceive(k) \/ WriteFails(k)
  <2>1. /\ down[k] # <<>> /\ Handled(k) /\ EndRx(t)
        /\ Answer(k, Reply(t, FALSE)) \/ Answer(k, Ack(t, FALSE))
        /\ UNCHANGED <<netVars, sendVars, got, inode, file, final, rLost>>
    BY <1>7 DEF CannotReceive, WriteFails, Comes, t
  <2>2. up' \in [Skts -> Seq(Packets)] /\ down' \in [Skts -> Seq(Packets)]
    BY <1>1, <1>2, <1>3, <1>4, <2>1
  <2>3. rx' \in [Sends -> {"none", "open", "moving", "ending", "gone"}]
    BY <2>1 DEF EndRx, TypeOK
  <2> QED BY <1>5, <2>1, <2>2, <2>3 DEF TypeOK, netVars, sendVars, EndRx
<1>8. CASE Receive(k)
  <2> DEFINE f == IF partial = 0 THEN t ELSE partial
  <2>1. /\ down[k] # <<>> /\ Handled(k) /\ Answer(k, Reply(t, TRUE))
        /\ inode' = [inode EXCEPT ![t] = f]
        /\ got' = [got EXCEPT ![t] = 0]
        /\ file' = [file EXCEPT ![f] = [c \in Chunks |-> 0]]
        /\ EndRx(t) \/ (rx' = [rx EXCEPT ![t] = "open"] /\ partial' = f)
        /\ UNCHANGED <<netVars, sendVars, final, rLost>>
    BY <1>8 DEF Receive, Comes, t
  <2>2. up' \in [Skts -> Seq(Packets)] /\ down' \in [Skts -> Seq(Packets)]
    BY <1>1, <1>2, <1>3, <1>4, <2>1
  <2>3. f \in 0..MaxSends
    BY <1>1, <1>5, <2>1 DEF TypeOK
  <2> HIDE DEF f
  <2>4. rx' \in [Sends -> {"none", "open", "moving", "ending", "gone"}]
    BY <2>1 DEF EndRx, TypeOK
  <2>5. inode' \in [Sends -> 0..MaxSends] /\ partial' \in 0..MaxSends
    BY <1>5, <2>1, <2>3 DEF EndRx, TypeOK
  <2>6. got' \in [Sends -> 0..N]
    BY <1>5, <2>1 DEF TypeOK
  <2>7. [c \in Chunks |-> 0] \in [Chunks -> 0..N]
    BY <1>5
  <2>8. file' \in [Sends -> [Chunks -> 0..N]]
    BY <2>1, <2>7 DEF TypeOK
  <2> QED BY <2>1, <2>2, <2>4, <2>5, <2>6, <2>8 DEF TypeOK, netVars, sendVars
<1>9. CASE ChunkUnknown(k)
  <2>1. /\ down[k] # <<>> /\ Answer(k, Ack(t, FALSE)) /\ Handled(k)
        /\ UNCHANGED <<netVars, sendVars, recvVars>>
    BY <1>9 DEF ChunkUnknown, Comes, t
  <2>2. up' \in [Skts -> Seq(Packets)] /\ down' \in [Skts -> Seq(Packets)]
    BY <1>1, <1>2, <1>3, <1>4, <2>1
  <2> QED BY <2>1, <2>2 DEF TypeOK, netVars, sendVars, recvVars
<1>10. CASE ChunkWritten(k)
  <2> DEFINE c == Head(down[k]).chunk
  <2>1. /\ down[k] # <<>> /\ Head(down[k]).kind = "chunk"
        /\ Handled(k) /\ Answer(k, Ack(t, TRUE))
        /\ file' = [file EXCEPT ![inode[t]][got[t] + 1] = c]
        /\ got' = [got EXCEPT ![t] = @ + 1]
        /\ EndRx(t) \/ UNCHANGED <<rx, partial>>
        /\ UNCHANGED <<netVars, sendVars, inode, final, rLost>>
    BY <1>10 DEF ChunkWritten, Comes, t
  <2>2. up' \in [Skts -> Seq(Packets)] /\ down' \in [Skts -> Seq(Packets)]
    BY <1>1, <1>2, <1>3, <1>4, <2>1
  <2>3. rx' \in [Sends -> {"none", "open", "moving", "ending", "gone"}] /\ partial' \in 0..MaxSends
    BY <1>5, <2>1 DEF EndRx, TypeOK
  <2>4. got[t] + 1 \in 0..N
    BY <1>1, <2>1, ChunksAssumption DEF TypeOK
  <2>5. got' \in [Sends -> 0..N]
    BY <2>1, <2>4 DEF TypeOK
  <2>6. c \in 0..N
    BY <1>1, <2>1
  <2> HIDE DEF c
  <2>7. file' \in [Sends -> [Chunks -> 0..N]]
    BY <2>1, <2>6 DEF TypeOK
  <2> QED BY <2>1, <2>2, <2>3, <2>5, <2>7 DEF TypeOK, netVars, sendVars
<1>11. CASE OnComplete(k)
  <2>1. /\ down[k] # <<>> /\ Handled(k)
        /\ \/ rx' = [rx EXCEPT ![t] = "moving"] /\ Answer(k, Done(t))
           \/ UNCHANGED <<rx, up>>
        /\ UNCHANGED <<netVars, sendVars, got, inode, file, partial, final, rLost>>
    BY <1>11 DEF OnComplete, Comes, t
  <2>2. up' \in [Skts -> Seq(Packets)] /\ down' \in [Skts -> Seq(Packets)]
    BY <1>1, <1>2, <1>3, <1>4, <2>1 DEF TypeOK
  <2>3. rx' \in [Sends -> {"none", "open", "moving", "ending", "gone"}]
    BY <2>1 DEF TypeOK
  <2> QED BY <2>1, <2>2, <2>3 DEF TypeOK, netVars, sendVars
<1>12. CASE \E s \in Sends : Move(k, s) \/ EndReceived(k, s)
  <2>1. PICK s \in Sends : Move(k, s) \/ EndReceived(k, s)
    BY <1>12
  <2>2. rx' \in [Sends -> {"none", "open", "moving", "ending", "gone"}]
    BY <2>1 DEF Move, EndReceived, EndRx, TypeOK
  <2>3. partial' \in 0..MaxSends /\ final' \in 0..MaxSends
    BY <1>5, <2>1 DEF Move, EndReceived, EndRx, TypeOK
  <2>4. UNCHANGED <<netVars, down, sendVars, up, got, inode, file, rLost>>
    BY <2>1 DEF Move, EndReceived
  <2> QED BY <2>2, <2>3, <2>4 DEF TypeOK, netVars, sendVars
<1>13. CASE RLost(k)
  <2>1. down' = [down EXCEPT ![k] = <<>>]
    BY <1>13 DEF RLost
  <2>2. down' \in [Skts -> Seq(Packets)]
    BY <2>1 DEF TypeOK
  <2>3. rx' \in [Sends -> {"none", "open", "moving", "ending", "gone"}]
    BY <1>13 DEF RLost, TypeOK
  <2>4. partial' \in 0..MaxSends
    BY <1>5, <1>13 DEF RLost, TypeOK
  <2>5. rLost' \subseteq Skts /\ UNCHANGED <<netVars, sendVars, up, got, inode, file, final>>
    BY <1>13 DEF RLost, TypeOK
  <2> QED BY <2>2, <2>3, <2>4, <2>5 DEF TypeOK, netVars, sendVars
<1> QED BY <1>6, <1>7, <1>8, <1>9, <1>10, <1>11, <1>12, <1>13
        DEF ReceiverStep, OnRequest, OnChunk

LEMMA TypeStep ==
    ASSUME TypeOK, StopAndWait, [Next]_vars
    PROVE  TypeOK'
<1>1. CASE UNCHANGED vars
  BY <1>1 DEF vars, netVars, sendVars, recvVars, TypeOK
<1>2. ASSUME NEW k \in Skts, Connect(k) \/ Drop(k)
      PROVE  TypeOK'
  BY <1>2 DEF Connect, Drop, sendVars, recvVars, TypeOK
<1>3. ASSUME NEW k \in Skts, Send(k)
      PROVE  TypeOK'
  BY <1>3, SendTypes
<1>4. ASSUME NEW k \in Skts, SenderStep(k)
      PROVE  TypeOK'
  BY <1>4, SenderTypes
<1>5. ASSUME NEW k \in Skts, ReceiverStep(k)
      PROVE  TypeOK'
  BY <1>5, ReceiverTypes
<1> QED BY <1>1, <1>2, <1>3, <1>4, <1>5 DEF Next

(* Every variable has its type: in particular, neither end counts a chunk  *)
(* beyond the last one, whatever is lost, fails or is sent again.          *)
THEOREM XferTypeCorrect == Spec => []TypeOK
<1>1. Init => TypeOK /\ StopAndWait
  BY StopAndWaitInit
<1>2. TypeOK /\ StopAndWait /\ [Next]_vars => TypeOK' /\ StopAndWait'
  BY TypeStep, StopAndWaitStep
<1> QED BY <1>1, <1>2, PTL DEF Spec

(* A chunk is answered before the next packet of its send, which is at     *)
(* most one ahead of what is written, as the code has no sequence numbers  *)
(* to put packets in order (beginAssetBaseSend, txNextAssetBaseChunk and   *)
(* rxAssetBaseChunk).                                                      *)
THEOREM OneChunkAtATime == Spec => []StopAndWait
<1>1. Init => TypeOK /\ StopAndWait
  BY StopAndWaitInit
<1>2. TypeOK /\ StopAndWait /\ [Next]_vars => TypeOK' /\ StopAndWait'
  BY TypeStep, StopAndWaitStep
<1> QED BY <1>1, <1>2, PTL DEF Spec

-----------------------------------------------------------------------------
(* Incomplete files *)

(* An incomplete file on the receiver's disk belongs to a session that     *)
(* will complete or delete it: every end of a session deletes what has the *)
(* name of the incomplete download (endAssetBaseXferSession,               *)
(* cancelDownload), whichever session wrote it.                            *)
THEOREM IncompleteFilesEnd == Spec => []PartialsEnd
<1>1. Init => TypeOK /\ PartialsEnd
  BY StopAndWaitInit DEF Init, PartialsEnd
<1>2. ASSUME TypeOK, TypeOK', StopAndWait, PartialsEnd, [Next]_vars
      PROVE  PartialsEnd'
  <2>1. /\ rx \in [Sends -> {"none", "open", "moving", "ending", "gone"}]
        /\ rx' \in [Sends -> {"none", "open", "moving", "ending", "gone"}]
    BY <1>2 DEF TypeOK
  <2>2. CASE UNCHANGED <<rx, partial>>
    BY <1>2, <2>2 DEF PartialsEnd
  <2>3. CASE partial' = 0
    BY <2>3 DEF PartialsEnd
  <2>4. CASE \E t \in Sends : rx'[t] \in {"open", "moving", "ending"}
    BY <2>4 DEF PartialsEnd
  <2>5. ASSUME NEW k \in Skts, ReceiverStep(k)
        PROVE  \/ UNCHANGED <<rx, partial>> \/ partial' = 0
               \/ \E t \in Sends : rx'[t] \in {"open", "moving", "ending"}
    <3> DEFINE t == Head(down[k]).send
    <3>1. down[k] # <<>> => t \in Sends
      BY <1>2, Asked
    <3> HIDE DEF t
    <3>2. CASE Refuse(k) \/ ChunkUnknown(k)
      BY <3>2 DEF Refuse, ChunkUnknown, recvVars
    <3>3. CASE CannotReceive(k) \/ WriteFails(k) \/ ChunkWritten(k)
      BY <3>3 DEF CannotReceive, WriteFails, ChunkWritten, EndRx
    <3>4. CASE Receive(k)
      <4>1. down[k] # <<>> /\ (rx' = [rx EXCEPT ![t] = "open"] \/ partial' = 0)
        BY <3>4 DEF Receive, Comes, EndRx, t
      <4> QED BY <2>1, <3>1, <4>1
    <3>5. CASE OnComplete(k)
      <4>1. down[k] # <<>> /\ (rx' = [rx EXCEPT ![t] = "moving"] \/ rx' = rx) /\ partial' = partial
        BY <3>5 DEF OnComplete, Comes, t
      <4> QED BY <2>1, <3>1, <4>1
    <3>6. CASE RLost(k)
      BY <3>6 DEF RLost
    <3>7. CASE \E s \in Sends : Move(k, s) \/ EndReceived(k, s)
      BY <2>1, <3>7 DEF Move, EndReceived, EndRx
    <3> QED BY <2>5, <3>2, <3>3, <3>4, <3>5, <3>6, <3>7 DEF ReceiverStep, OnRequest, OnChunk
  <2>6. \/ UNCHANGED <<rx, partial>>
        \/ \E k \in Skts : ReceiverStep(k)
    BY <1>2, ZenonT(40) DEF Next, vars, recvVars, Connect, Drop, Send, SenderStep, OnSendReply, OnChunkReply,
                ChunkIgnored, Canceled, AllSent, NextChunk, ReadFails, OnCompleteReply, SLost
  <2> QED BY <2>2, <2>3, <2>4, <2>5, <2>6
<1>3. Spec => []TypeOK
  BY XferTypeCorrect
<1>4. Spec => []StopAndWait
  BY OneChunkAtATime
<1> QED BY <1>1, <1>2, <1>3, <1>4, PTL DEF Spec

-----------------------------------------------------------------------------
(* What is received *)

(* The user sends the file again only when no send is under way, and both  *)
(* engines know that a connection is lost before there is another.         *)
OneAtATime == Inputs \intersect {"late", "again", "queued"} = {}

(* At most one connection is in use, and what is lost stays lost. *)
Links ==
    /\ ~queued
    /\ \A j, k \in Skts : j # k =>
        \/ link[j] = "off" \/ link[k] = "off"
        \/ j \in sLost \intersect rLost \/ k \in sLost \intersect rLost
    /\ \A k \in Skts : link[k] = "off" => over[k] = {}
    /\ \A k \in rLost : link[k] = "down" /\ down[k] = <<>>
    /\ \A k \in rLost : \A t \in over[k] : rx[t] \in {"none", "gone"}
    /\ \A t \in Sends : tx[t] # "none" => \E k \in Skts : t \in over[k]

(* The sends take their turns at the sender, on the way and at the receiver. *)
Sequential == \A s, t \in Sends : s < t /\ tx[t] # "none" => tx[s] \in {"noFile", "ended"}
Ordered == \A k \in Skts : \A i, j \in 1..Len(down[k]) :
    i < j => down[k][i].send <= down[k][j].send
Ahead == \A k \in Skts : \A i \in 1..Len(down[k]) : \A s \in Sends :
    s > down[k][i].send => rx[s] = "none"
BusyLatest == \A s, t \in Sends : rx[s] \in {"moving", "ending"} /\ s < t => rx[t] = "none"

InTurn == Links /\ Sequential /\ Ordered /\ Ahead /\ BusyLatest

OnTheWay(t) == \E k \in Skts : \E i \in 1..Len(down[k]) : down[k][i].send = t

(* A session that may still write. *)
Live(t) == rx[t] = "open" /\ (tx[t] = "open" \/ OnTheWay(t))

(* What it has written is in the incomplete file, and it is all of it when *)
(* the file is to be moved.                                                *)
Content == \A t \in Sends : Live(t) \/ rx[t] = "moving" =>
    /\ partial # 0
    /\ inode[t] = partial
    /\ \A c \in 1..got[t] : file[partial][c] = c
    /\ rx[t] = "moving" => got[t] = N

(* What is received is never written again. *)
Finals ==
    /\ partial # 0 => rx[partial] # "none"
    /\ final # 0 => rx[final] # "none" /\ final # partial
    /\ ReceivedWhole

LEMMA Alone ==
    ASSUME TypeOK, StopAndWait, Links, NEW k \in Skts, k \notin rLost, link[k] # "off",
           NEW j \in Skts, j # k
    PROVE  down[j] = <<>> /\ \A t \in over[j] : rx[t] \in {"none", "gone"}
<1>1. CASE j \in rLost
  BY <1>1 DEF Links
<1>2. CASE j \notin rLost
  <2>1. over[j] = {}
    BY <1>2 DEF Links
  <2>2. down[j] \in Seq(Packets) /\ From(down[j], over[j])
    BY DEF TypeOK, StopAndWait, Owned
  <2>3. Len(down[j]) \in Nat /\ ~ \E i \in 1..Len(down[j]) : TRUE
    BY <2>1, <2>2 DEF From
  <2>4. Len(down[j]) = 0
    BY <2>3
  <2> QED BY <2>1, <2>2, <2>4
<1> QED BY <1>1, <1>2

(* No send has got farther than one that may still write or is finished. *)
LEMMA Latest ==
    ASSUME TypeOK, StopAndWait, InTurn, NEW s \in Sends, NEW t \in Sends, s < t,
           Live(s) \/ rx[s] \in {"moving", "ending"}
    PROVE  rx[t] = "none"
<1>1. CASE rx[s] \in {"moving", "ending"}
  BY <1>1 DEF InTurn, BusyLatest
<1>2. CASE Live(s) /\ tx[t] = "none"
  BY <1>2 DEF StopAndWait, Owned
<1>3. CASE Live(s) /\ tx[t] # "none"
  <2>1. tx[s] # "open"
    BY <1>3 DEF InTurn, Sequential
  <2>2. PICK k \in Skts : \E i \in 1..Len(down[k]) : down[k][i].send = s
    BY <1>3, <2>1 DEF Live, OnTheWay
  <2> QED BY <2>2 DEF InTurn, Ahead, Sends
<1> QED BY <1>1, <1>2, <1>3

(* So there is at most one such. *)
LEMMA OnlyOne ==
    ASSUME TypeOK, StopAndWait, InTurn, NEW s \in Sends, NEW t \in Sends, s # t,
           Live(t) \/ rx[t] \in {"moving", "ending"}
    PROVE  ~Live(s) /\ rx[s] \notin {"moving", "ending"}
<1>1. s < t \/ t < s
  BY DEF Sends
<1>2. rx[t] # "none"
  BY DEF Live
<1>3. CASE s < t
  BY <1>2, <1>3, Latest
<1>4. CASE t < s
  <2>1. rx[s] = "none"
    BY <1>4, Latest
  <2> QED BY <2>1 DEF Live
<1> QED BY <1>1, <1>3, <1>4

(* When a packet is handled, it is the one whose packet this is, or none. *)
LEMMA HeadAlone ==
    ASSUME TypeOK, StopAndWait, InTurn, NEW k \in Skts, k \notin rLost, ~Busy(k), down[k] # <<>>,
           NEW s \in Sends
    PROVE  /\ link[k] # "off"
           /\ rx[s] \notin {"moving", "ending"}
           /\ s # Head(down[k]).send => ~Live(s)
<1> DEFINE t == Head(down[k]).send
<1>1. /\ t \in over[k] /\ t \in Sends /\ tx[t] # "none"
      /\ down[k] \in Seq(Packets)
  BY Asked
<1>2. link[k] # "off"
  BY <1>1 DEF InTurn, Links
<1>3. Head(down[k]) = down[k][1] /\ 1 \in 1..Len(down[k]) /\ Len(down[k]) \in Nat
  BY <1>1, Tails
<1>4. ASSUME rx[s] # "none"
      PROVE  s \in over[k] \/ rx[s] = "gone"
  <2>1. tx[s] # "none"
    BY <1>4 DEF StopAndWait, Owned
  <2>2. PICK j \in Skts : s \in over[j]
    BY <2>1 DEF InTurn, Links
  <2>3. CASE j # k
    BY <1>2, <1>4, <2>2, <2>3, Alone DEF InTurn
  <2> QED BY <2>2, <2>3
<1>5. rx[s] \notin {"moving", "ending"}
  BY <1>4 DEF Busy
<1>6. ASSUME s # t, Live(s)
      PROVE  FALSE
  <2>1. rx[s] = "open"
    BY <1>6 DEF Live
  <2>2. s < t
    <3>1. ~(s > t)
      BY <1>1, <1>3, <2>1 DEF InTurn, Ahead
    <3> QED BY <1>1, <1>6, <3>1 DEF Sends
  <2>3. tx[s] # "open"
    BY <1>1, <2>2 DEF InTurn, Sequential
  <2>4. PICK j \in Skts : \E i \in 1..Len(down[j]) : down[j][i].send = s
    BY <1>6, <2>3 DEF Live, OnTheWay
  <2>5. j = k
    <3>1. CASE j # k
      <4>1. down[j] = <<>>
        BY <1>2, <3>1, Alone DEF InTurn
      <4> QED BY <2>4, <4>1
    <3> QED BY <3>1
  <2>6. PICK i \in 1..Len(down[k]) : down[k][i].send = s
    BY <2>4, <2>5
  <2>7. 1 < i
    BY <1>3, <1>6, <2>6
  <2>8. down[k][1].send <= down[k][i].send
    BY <1>3, <2>7 DEF InTurn, Ordered
  <2> QED BY <1>1, <1>3, <2>2, <2>6, <2>8 DEF Sends
<1> QED BY <1>2, <1>5, <1>6

(* The receiver handles a packet: only the session of its send changes. *)
LEMMA PacketKeeps ==
    ASSUME TypeOK, StopAndWait, InTurn, Content, NEW k \in Skts, k \notin rLost, ~Busy(k),
           down[k] # <<>>, NEW t, t = Head(down[k]).send,
           Handled(k), UNCHANGED <<netVars, sendVars, rLost>>,
           \A s \in Sends : s # t => rx'[s] = rx[s],
           Live(t)' \/ rx'[t] = "moving" =>
                /\ partial' # 0
                /\ inode'[t] = partial'
                /\ \A c \in 1..got'[t] : file'[partial'][c] = c
                /\ rx'[t] = "moving" => got'[t] = N
    PROVE  InTurn' /\ Content'
<1>1. /\ t \in over[k] /\ t \in Sends /\ over[k] \subseteq Sends
      /\ down[k] \in Seq(Packets) /\ Tail(down[k]) \in Seq(Packets)
      /\ From(Tail(down[k]), over[k])
  BY Asked
<1>2. /\ Head(down[k]) = down[k][1] /\ 1 \in 1..Len(down[k]) /\ Len(down[k]) \in Nat
      /\ Len(Tail(down[k])) = Len(down[k]) - 1
      /\ \A i \in 1..Len(Tail(down[k])) :
           Tail(down[k])[i] = down[k][i + 1] /\ i + 1 \in 1..Len(down[k]) /\ i \in Nat
  BY <1>1, Tails
<1>3. /\ down'[k] = Tail(down[k])
      /\ \A j \in Skts : j # k => down'[j] = down[j]
      /\ UNCHANGED <<link, over, tx, queued, sLost, rLost>>
  BY DEF Handled, TypeOK, netVars, sendVars
<1>4. link[k] # "off" /\ \A s \in Sends : rx[s] \notin {"moving", "ending"}
  BY <1>1, HeadAlone
<1>5. \A s \in Sends : s # t => ~Live(s)
  BY HeadAlone
<1>6. \A j \in Skts : j # k => down[j] = <<>>
  BY <1>4, Alone DEF InTurn
<1>7. ASSUME NEW j \in Skts, NEW i \in 1..Len(down'[j])
      PROVE  /\ j = k
             /\ down'[j][i] = down[k][i + 1] /\ i + 1 \in 1..Len(down[k]) /\ 1 < i + 1
             /\ i \in Nat
  <2>1. j = k
    <3>1. CASE j # k
      <4>1. down'[j] = <<>>
        BY <1>3, <1>6, <3>1
      <4> QED BY <4>1
    <3> QED BY <3>1
  <2>2. i \in 1..Len(Tail(down[k])) /\ down'[j][i] = Tail(down[k])[i]
    BY <1>3, <2>1
  <2>3. i \in Nat /\ i # 0
    BY <1>2, <2>2
  <2> QED BY <1>2, <2>1, <2>2, <2>3
<1>8. Links'
  <2>1. ASSUME NEW j \in rLost', NEW s \in over'[j]
        PROVE  rx'[s] \in {"none", "gone"}
    <3>1. j \in Skts /\ j # k /\ s \in over[j]
      BY <1>3, <2>1 DEF TypeOK
    <3>2. s # t /\ s \in Sends
      BY <1>1, <3>1 DEF StopAndWait, Owned, TypeOK
    <3> QED BY <1>3, <2>1, <3>1, <3>2 DEF InTurn, Links
  <2>2. \A j \in rLost' : link'[j] = "down" /\ down'[j] = <<>>
    BY <1>3 DEF InTurn, Links, TypeOK
  <2> QED BY <1>3, <2>1, <2>2 DEF InTurn, Links
<1>9. Sequential'
  BY <1>3 DEF InTurn, Sequential
<1>10. Ordered'
  <2>1. ASSUME NEW j \in Skts, NEW i \in 1..Len(down'[j]), NEW l \in 1..Len(down'[j]), i < l
        PROVE  down'[j][i].send <= down'[j][l].send
    <3>1. i + 1 < l + 1 /\ i + 1 \in 1..Len(down[k]) /\ l + 1 \in 1..Len(down[k])
      BY <1>7, <2>1
    <3>2. down[k][i + 1].send <= down[k][l + 1].send
      BY <3>1 DEF InTurn, Ordered
    <3> QED BY <1>7, <3>2
  <2> QED BY <2>1 DEF Ordered
<1>11. Ahead'
  <2>1. ASSUME NEW j \in Skts, NEW i \in 1..Len(down'[j]), NEW s \in Sends,
               s > down'[j][i].send
        PROVE  rx'[s] = "none"
    <3>1. /\ down'[j][i] = down[k][i + 1] /\ i + 1 \in 1..Len(down[k]) /\ 1 < i + 1
      BY <1>7
    <3>2. t <= down[k][i + 1].send
      BY <1>2, <3>1 DEF InTurn, Ordered
    <3>3. down[k][i + 1].send \in Sends
      <4>1. \A p \in Packets : p.send \in Sends
        BY DEF Packets
      <4> QED BY <1>1, <3>1, <4>1
    <3>4. s # t
      BY <1>1, <2>1, <3>1, <3>2, <3>3 DEF Sends
    <3>5. rx[s] = "none"
      BY <2>1, <3>1 DEF InTurn, Ahead
    <3> QED BY <3>4, <3>5
  <2> QED BY <2>1 DEF Ahead
<1>12. BusyLatest'
  <2>1. ASSUME NEW s \in Sends, NEW r \in Sends, rx'[s] \in {"moving", "ending"}, s < r
        PROVE  rx'[r] = "none"
    <3>1. s = t
      BY <1>4, <2>1
    <3>2. r > t /\ r # t
      BY <1>1, <2>1, <3>1 DEF Sends
    <3>3. rx[r] = "none"
      BY <1>2, <3>2 DEF InTurn, Ahead
    <3> QED BY <3>2, <3>3
  <2> QED BY <2>1 DEF BusyLatest
<1>13. Content'
  <2>1. ASSUME NEW s \in Sends, s # t, Live(s)' \/ rx'[s] = "moving"
        PROVE  FALSE
    <3>1. rx'[s] = rx[s]
      BY <2>1
    <3>2. Live(s)'
      BY <1>4, <2>1, <3>1
    <3>3. OnTheWay(s)' => OnTheWay(s)
      BY <1>7 DEF OnTheWay
    <3>4. Live(s)
      BY <1>3, <3>1, <3>2, <3>3 DEF Live
    <3> QED BY <1>5, <2>1, <3>4
  <2> QED BY <2>1 DEF Content
<1> QED BY <1>8, <1>9, <1>10, <1>11, <1>12, <1>13 DEF InTurn

(* The actions of the receiver, one by one. *)
LEMMA ReceiverKeepsWhole ==
    ASSUME TypeOK, TypeOK', StopAndWait, StopAndWait', InTurn, Content, Finals,
           NEW k \in Skts, OnRequest(k) \/ OnChunk(k) \/ OnComplete(k)
    PROVE  InTurn' /\ Content' /\ Finals'
<1>0. PICK t : t = Head(down[k]).send
  OBVIOUS
<1>1. /\ k \notin rLost /\ ~Busy(k) /\ down[k] # <<>>
      /\ Handled(k) /\ UNCHANGED <<netVars, sendVars, rLost, final>>
  BY DEF OnRequest, OnChunk, OnComplete, Refuse, CannotReceive, Receive, ChunkUnknown,
         ChunkWritten, WriteFails, Comes, recvVars
<1>2. /\ t \in over[k] /\ t \in Sends
      /\ Head(down[k]).kind = "request" => rx[t] = "none" /\ got[t] = 0
      /\ Head(down[k]).kind = "chunk" => Head(down[k]).chunk = got[t] + 1
      /\ Head(down[k]).kind = "complete" => got[t] = N
  BY <1>0, <1>1, Asked
<1>3. rx[t] \notin {"moving", "ending"}
  BY <1>1, <1>2, HeadAlone
<1>4. OnTheWay(t)
  <2>1. down[k] \in Seq(Packets)
    BY DEF TypeOK
  <2>2. Head(down[k]) = down[k][1] /\ 1 \in 1..Len(down[k])
    BY <1>1, <2>1, Tails
  <2> QED BY <1>0, <2>2 DEF OnTheWay
<1>5. /\ rx \in [Sends -> {"none", "open", "moving", "ending", "gone"}]
      /\ got \in [Sends -> 0..N] /\ inode \in [Sends -> 0..MaxSends]
      /\ file \in [Sends -> [Chunks -> 0..N]]
      /\ partial \in 0..MaxSends /\ final \in 0..MaxSends
  BY DEF TypeOK
<1>6. N \in Nat /\ MaxSends \in Nat
  BY ChunksAssumption, MaxSendsAssumption
<1>7. rx[t] = "open" => /\ partial # 0
                        /\ inode[t] = partial
                        /\ \A c \in 1..got[t] : file[partial][c] = c
  BY <1>2, <1>4 DEF Live, Content
(* What suffices for a step. *)
<1>8. ASSUME \A s \in Sends : s # t => rx'[s] = rx[s],
             rx'[t] \in {"open", "moving"} =>
                  /\ partial' # 0
                  /\ inode'[t] = partial'
                  /\ \A c \in 1..got'[t] : file'[partial'][c] = c
                  /\ rx'[t] = "moving" => got'[t] = N,
             Finals'
      PROVE  InTurn' /\ Content' /\ Finals'
  <2>1. Live(t)' \/ rx'[t] = "moving" =>
                /\ partial' # 0
                /\ inode'[t] = partial'
                /\ \A c \in 1..got'[t] : file'[partial'][c] = c
                /\ rx'[t] = "moving" => got'[t] = N
    BY <1>8 DEF Live
  <2> QED BY <1>1, <1>8, <2>1, <1>0, PacketKeeps
<1>9. CASE Refuse(k) \/ ChunkUnknown(k)
  <2>1. UNCHANGED <<rx, got, inode, file, partial, final>>
    BY <1>9 DEF Refuse, ChunkUnknown, recvVars
  <2>2. rx[t] \notin {"open", "moving"}
    BY <1>0, <1>2, <1>3, <1>9 DEF Refuse, ChunkUnknown, Comes
  <2>3. Finals'
    BY <2>1 DEF Finals, ReceivedWhole
  <2> QED BY <1>8, <2>1, <2>2, <2>3
<1>10. CASE CannotReceive(k) \/ WriteFails(k)
  <2>1. /\ rx' = [rx EXCEPT ![t] = "gone"] /\ partial' = 0
        /\ UNCHANGED <<file, final>>
    BY <1>0, <1>10 DEF CannotReceive, WriteFails, EndRx
  <2>2. rx'[t] = "gone" /\ \A s \in Sends : s # t => rx'[s] = rx[s]
    BY <1>2, <1>5, <2>1
  <2>3. Finals'
    <3>1. final # 0 => final \in Sends
      BY <1>5 DEF Sends
    <3> QED BY <2>1, <2>2, <3>1 DEF Finals, ReceivedWhole
  <2> QED BY <1>8, <2>2, <2>3
<1>11. CASE Receive(k)
  <2> DEFINE f == IF partial = 0 THEN t ELSE partial
  <2>1. /\ Head(down[k]).kind = "request"
        /\ inode' = [inode EXCEPT ![t] = f]
        /\ got' = [got EXCEPT ![t] = 0]
        /\ file' = [file EXCEPT ![f] = [c \in Chunks |-> 0]]
        /\ \/ rx' = [rx EXCEPT ![t] = "open"] /\ partial' = f
           \/ rx' = [rx EXCEPT ![t] = "gone"] /\ partial' = 0
    BY <1>0, <1>11 DEF Receive, Comes, EndRx
  <2>2. f \in Sends /\ f # 0
    BY <1>2, <1>5, <1>6 DEF Sends
  <2>3. final # 0 => final \in Sends /\ final # f /\ final # t
    BY <1>2, <1>5, <2>1 DEF Finals, Sends
  <2>4. partial = 0 \/ f = partial
    OBVIOUS
  <2>5. f = t \/ rx[f] # "none"
    BY <2>4 DEF Finals
  <2> HIDE DEF f
  <2>6. /\ \A s \in Sends : s # t => rx'[s] = rx[s]
        /\ rx'[t] \in {"open", "gone"} /\ got'[t] = 0 /\ inode'[t] = f
    BY <1>2, <1>5, <2>1
  <2>7. rx'[t] = "open" => partial' = f
    BY <1>2, <1>5, <2>1
  <2>8. Finals'
    <3>1. partial' # 0 => rx'[partial'] # "none"
      <4>1. partial' # 0 => partial' = f
        BY <2>1
      <4>2. rx'[f] # "none"
        BY <2>2, <2>5, <2>6
      <4> QED BY <4>1, <4>2
    <3>2. ASSUME final' # 0
          PROVE  /\ rx'[final'] # "none" /\ final' # partial'
                 /\ \A c \in Chunks : file'[final'][c] = c
      <4>1. final' = final /\ final \in Sends /\ final # f /\ final # t
        BY <1>1, <2>3, <3>2
      <4>2. rx'[final] = rx[final] /\ rx[final] # "none"
        BY <2>6, <3>2, <4>1 DEF Finals
      <4>3. final # partial'
        BY <2>1, <2>2, <3>2, <4>1
      <4>4. file'[final] = file[final]
        BY <1>5, <2>1, <4>1
      <4>5. \A c \in Chunks : file[final][c] = c
        BY <3>2, <4>1 DEF Finals, ReceivedWhole
      <4> QED BY <4>1, <4>2, <4>3, <4>4, <4>5
    <3> QED BY <3>1, <3>2 DEF Finals, ReceivedWhole
  <2>9. \A c \in 1..got'[t] : file'[partial'][c] = c
    BY <2>6
  <2> QED BY <1>8, <2>2, <2>6, <2>7, <2>8, <2>9
<1>12. CASE ChunkWritten(k)
  <2> DEFINE n == got[t] + 1
  <2>1. /\ Head(down[k]).kind = "chunk" /\ rx[t] = "open"
        /\ file' = [file EXCEPT ![inode[t]][n] = Head(down[k]).chunk]
        /\ got' = [got EXCEPT ![t] = n]
        /\ UNCHANGED inode
        /\ \/ UNCHANGED <<rx, partial>>
           \/ rx' = [rx EXCEPT ![t] = "gone"] /\ partial' = 0
    BY <1>0, <1>12 DEF ChunkWritten, Comes, EndRx
  <2>2. /\ Head(down[k]).chunk = n /\ got'[t] = n /\ n \in 1..N /\ n - 1 = got[t]
    <3>1. got'[t] = n /\ got'[t] \in 0..N /\ got[t] \in 0..N
      BY <1>2, <1>5, <2>1 DEF TypeOK
    <3> QED BY <1>2, <1>6, <2>1, <3>1
  <2>3. /\ partial # 0 /\ partial \in Sends /\ inode[t] = partial /\ inode'[t] = partial
        /\ \A c \in 1..got[t] : file[partial][c] = c
    BY <1>5, <1>7, <2>1 DEF Sends
  <2> HIDE DEF n
  <2>4. \A c \in Chunks : file'[partial][c] = IF c = n THEN n ELSE file[partial][c]
    BY <1>5, <2>1, <2>2, <2>3
  <2>5. \A s \in Sends : s # partial => file'[s] = file[s]
    BY <1>5, <2>1, <2>3
  <2>6. \A c \in 1..n : file'[partial][c] = c
    <3>1. ASSUME NEW c \in 1..n
          PROVE  file'[partial][c] = c
      <4>1. c \in Chunks /\ (c = n \/ c \in 1..got[t])
        BY <1>2, <1>5, <1>6, <2>2 DEF Chunks
      <4> QED BY <2>3, <2>4, <4>1
    <3> QED BY <3>1
  <2>7. /\ \A s \in Sends : s # t => rx'[s] = rx[s]
        /\ rx'[t] \in {"open", "gone"} /\ (rx'[t] = "open" => partial' = partial)
        /\ partial' = partial \/ partial' = 0
        /\ \A s \in Sends : rx[s] # "none" => rx'[s] # "none"
    BY <1>2, <1>5, <2>1
  <2>8. Finals'
    <3>1. partial' # 0 => rx'[partial'] # "none"
      BY <2>3, <2>7 DEF Finals
    <3>2. ASSUME final' # 0
          PROVE  /\ rx'[final'] # "none" /\ final' # partial'
                 /\ \A c \in Chunks : file'[final'][c] = c
      <4>1. final' = final /\ final \in Sends /\ final # partial
        BY <1>1, <1>5, <3>2 DEF Finals, Sends
      <4>2. rx'[final] # "none" /\ final # partial'
        BY <2>7, <3>2, <4>1 DEF Finals
      <4>3. \A c \in Chunks : file[final][c] = c
        BY <3>2, <4>1 DEF Finals, ReceivedWhole
      <4> QED BY <2>5, <4>1, <4>2, <4>3
    <3> QED BY <3>1, <3>2 DEF Finals, ReceivedWhole
  <2> QED BY <1>8, <2>2, <2>3, <2>6, <2>7, <2>8
<1>13. CASE OnComplete(k)
  <2>1. /\ Head(down[k]).kind = "complete"
        /\ UNCHANGED <<got, inode, file, partial>>
        /\ \/ rx[t] = "open" /\ rx' = [rx EXCEPT ![t] = "moving"]
           \/ rx[t] # "open" /\ rx' = rx
    BY <1>0, <1>13 DEF OnComplete, Comes
  <2>2. /\ \A s \in Sends : s # t => rx'[s] = rx[s]
        /\ rx'[t] \in {"open", "moving"} => rx[t] = "open" /\ rx'[t] = "moving"
        /\ \A s \in Sends : rx[s] # "none" => rx'[s] # "none"
    BY <1>2, <1>3, <1>5, <2>1
  <2>3. Finals'
    <3>1. /\ final # 0 => final \in Sends
          /\ partial # 0 => partial \in Sends
      BY <1>5 DEF Sends
    <3> QED BY <1>1, <2>1, <2>2, <3>1 DEF Finals, ReceivedWhole
  <2> QED BY <1>2, <1>7, <1>8, <2>1, <2>2, <2>3
<1> QED BY <1>9, <1>10, <1>11, <1>12, <1>13 DEF OnRequest, OnChunk

(* The received file is moved, and its session ends. *)
LEMMA ReceivedKeepsWhole ==
    ASSUME TypeOK, StopAndWait, InTurn, Content, Finals,
           NEW k \in Skts, NEW t \in Sends, Move(k, t) \/ EndReceived(k, t)
    PROVE  InTurn' /\ Content' /\ Finals'
<1>1. /\ t \in over[k] /\ rx[t] \in {"moving", "ending"}
      /\ rx' = [rx EXCEPT ![t] = IF rx[t] = "moving" THEN "ending" ELSE "gone"]
      /\ UNCHANGED <<link, over, down, tx, queued, sLost, rLost, got, inode, file>>
  BY DEF Move, EndReceived, EndRx, netVars, sendVars
<1>2. /\ rx \in [Sends -> {"none", "open", "moving", "ending", "gone"}]
      /\ partial \in 0..MaxSends /\ final \in 0..MaxSends
      /\ \A j \in Skts : over[j] \subseteq Sends
      /\ rLost \subseteq Skts
  BY DEF TypeOK
<1>3. /\ \A s \in Sends : s # t => rx'[s] = rx[s] /\ ~Live(s) /\ rx[s] \notin {"moving", "ending"}
      /\ rx'[t] \in {"ending", "gone"}
      /\ \A s \in Sends : rx'[s] = "none" <=> rx[s] = "none"
  BY <1>1, <1>2, OnlyOne
<1>4. Links'
  <2>1. ASSUME NEW j \in rLost, NEW s \in over[j]
        PROVE  rx'[s] \in {"none", "gone"}
    BY <1>1, <1>2, <1>3 DEF InTurn, Links
  <2> QED BY <1>1, <2>1 DEF InTurn, Links
<1>5. Sequential' /\ Ordered'
  BY <1>1 DEF InTurn, Sequential, Ordered
<1>6. Ahead'
  BY <1>1, <1>3 DEF InTurn, Ahead
<1>7. BusyLatest'
  BY <1>1, <1>3 DEF InTurn, BusyLatest
<1>8. Content'
  <2>1. ASSUME NEW s \in Sends, Live(s)' \/ rx'[s] = "moving"
        PROVE  FALSE
    <3>1. s # t
      BY <1>3, <2>1 DEF Live
    <3>2. OnTheWay(s)' => OnTheWay(s)
      BY <1>1 DEF OnTheWay
    <3> QED BY <1>1, <1>3, <2>1, <3>1, <3>2 DEF Live
  <2> QED BY <2>1 DEF Content
<1>9. Finals'
  <2>1. \A s \in 1..MaxSends : rx'[s] # "none" <=> rx[s] # "none"
    BY <1>3 DEF Sends
  <2>2. CASE partial' \in {partial, 0} /\ final' = final
    BY <1>1, <1>2, <2>1, <2>2 DEF Finals, ReceivedWhole
  <2>3. CASE rx[t] = "moving" /\ final' = partial /\ partial' = 0
    <3>1. /\ partial # 0 /\ \A c \in 1..N : file[partial][c] = c
      BY <2>3 DEF Content
    <3> QED BY <1>1, <1>2, <2>1, <2>3, <3>1 DEF Finals, ReceivedWhole, Chunks
  <2> QED BY <2>2, <2>3 DEF Move, EndReceived, EndRx
<1> QED BY <1>4, <1>5, <1>6, <1>7, <1>8, <1>9 DEF InTurn

LEMMA RLostKeepsWhole ==
    ASSUME TypeOK, StopAndWait, InTurn, Content, Finals, NEW k \in Skts, RLost(k)
    PROVE  InTurn' /\ Content' /\ Finals'
<1>1. /\ link[k] = "down" /\ k \notin rLost /\ ~Busy(k)
      /\ rLost' = rLost \union {k}
      /\ down' = [down EXCEPT ![k] = <<>>]
      /\ rx' = [t \in Sends |-> IF t \in over[k] /\ rx[t] = "open" THEN "gone" ELSE rx[t]]
      /\ partial' \in {partial, 0}
      /\ UNCHANGED <<link, over, tx, queued, sLost, got, inode, file, final>>
  BY DEF RLost, netVars, sendVars
<1>2. /\ rx \in [Sends -> {"none", "open", "moving", "ending", "gone"}]
      /\ partial \in 0..MaxSends /\ final \in 0..MaxSends
      /\ \A j \in Skts : over[j] \subseteq Sends
      /\ rLost \subseteq Skts /\ down \in [Skts -> Seq(Packets)]
  BY DEF TypeOK
<1>3. /\ \A s \in Sends : rx'[s] = "none" <=> rx[s] = "none"
      /\ \A s \in over[k] : rx'[s] \in {"none", "gone"}
      /\ \A s \in Sends : s \notin over[k] => rx'[s] = rx[s]
  BY <1>1, <1>2 DEF Busy
<1>4. /\ down'[k] = <<>> /\ \A j \in Skts : j # k => down'[j] = down[j]
      /\ Len(<<>>) = 0
  BY <1>1, <1>2
<1>5. ASSUME NEW s \in Sends
      PROVE  rx'[s] \in {"none", "gone"}
  <2>1. CASE rx[s] = "none"
    BY <1>3, <2>1
  <2>2. CASE rx[s] # "none"
    <3>1. tx[s] # "none"
      BY <2>2 DEF StopAndWait, Owned
    <3>2. PICK j \in Skts : s \in over[j]
      BY <3>1 DEF InTurn, Links
    <3>3. CASE j = k
      BY <1>3, <3>2, <3>3
    <3>4. CASE j # k
      <4>1. rx[s] \in {"none", "gone"}
        BY <1>1, <3>2, <3>4, Alone DEF InTurn
      <4>2. s \notin over[k]
        BY <3>2, <3>4 DEF StopAndWait, Owned
      <4> QED BY <1>3, <4>1, <4>2
    <3> QED BY <3>3, <3>4
  <2> QED BY <2>1, <2>2
<1>6. Links'
  <2>1. \A j \in rLost' : link'[j] = "down" /\ down'[j] = <<>>
    BY <1>1, <1>2, <1>4 DEF InTurn, Links
  <2>2. \A j \in rLost' : \A t \in over'[j] : rx'[t] \in {"none", "gone"}
    BY <1>1, <1>2, <1>5
  <2>3. /\ ~queued'
        /\ \A j, i \in Skts : j # i =>
            \/ link'[j] = "off" \/ link'[i] = "off"
            \/ j \in sLost' \intersect rLost' \/ i \in sLost' \intersect rLost'
        /\ \A j \in Skts : link'[j] = "off" => over'[j] = {}
        /\ \A t \in Sends : tx'[t] # "none" => \E j \in Skts : t \in over'[j]
    BY <1>1 DEF InTurn, Links
  <2> QED BY <2>1, <2>2, <2>3 DEF Links
<1>7. Sequential' /\ BusyLatest'
  BY <1>1, <1>5 DEF InTurn, Sequential, BusyLatest
<1>8. \A j \in Skts : \A i \in 1..Len(down'[j]) : j # k /\ down'[j] = down[j]
  BY <1>4
<1>9. Ordered'
  BY <1>8 DEF InTurn, Ordered
<1>10. Ahead'
  BY <1>3, <1>8 DEF InTurn, Ahead
<1>11. Content'
  BY <1>5 DEF Content, Live
<1>12. Finals'
  <2>1. \A s \in 1..MaxSends : rx'[s] # "none" <=> rx[s] # "none"
    BY <1>3 DEF Sends
  <2> QED BY <1>1, <1>2, <2>1 DEF Finals, ReceivedWhole
<1> QED BY <1>6, <1>7, <1>9, <1>10, <1>11, <1>12 DEF InTurn

LEMMA LinkKeepsWhole ==
    ASSUME OneAtATime, TypeOK, StopAndWait, InTurn, Content, Finals,
           NEW k \in Skts, Connect(k) \/ Drop(k)
    PROVE  InTurn' /\ Content' /\ Finals'
<1>1. UNCHANGED <<over, down, tx, offs, queued, sLost, up, rx, got, inode, file, partial, final, rLost>>
  BY DEF Connect, Drop, sendVars, recvVars
<1>2. /\ link \in [Skts -> {"off", "up", "down"}] /\ rLost \subseteq Skts
  BY DEF TypeOK
<1>3. Links'
  <2>1. CASE Connect(k)
    <3>1. /\ link[k] = "off" /\ link' = [link EXCEPT ![k] = "up"]
          /\ \A j \in Skts : link[j] = "off" \/ j \in sLost \intersect rLost
      BY <2>1 DEF Connect, OneAtATime
    <3> QED BY <1>1, <1>2, <3>1 DEF InTurn, Links
  <2>2. CASE Drop(k)
    <3>1. link[k] = "up" /\ link' = [link EXCEPT ![k] = "down"]
      BY <2>2 DEF Drop
    <3> QED BY <1>1, <1>2, <3>1 DEF InTurn, Links
  <2> QED BY <2>1, <2>2
<1>4. Sequential' /\ Ordered' /\ Ahead' /\ BusyLatest'
  BY <1>1 DEF InTurn, Sequential, Ordered, Ahead, BusyLatest
<1>5. \A t \in Sends : Live(t)' => Live(t)
  BY <1>1 DEF Live, OnTheWay
<1>6. Content' /\ Finals'
  BY <1>1, <1>5 DEF Content, Finals, ReceivedWhole
<1> QED BY <1>3, <1>4, <1>6 DEF InTurn

(* A send may go on when its session is open, or begin when no other is    *)
(* under way.                                                              *)
MayBegin(t) == t \in Fresh /\ \A s \in Sends : tx[s] # "open"

(* The sender appends packets of one send, and sessions end. *)
LEMMA AppendKeeps ==
    ASSUME TypeOK, StopAndWait, InTurn, Content, Finals,
           NEW k \in Skts, NEW t \in Sends, NEW a \in Seq(Packets),
           \A i \in 1..Len(a) : a[i].send = t,
           down' = [down EXCEPT ![k] = @ \o a],
           a # <<>> => link[k] = "up" /\ (tx[t] = "open" \/ MayBegin(t)),
           \A s \in Sends : \/ tx'[s] = tx[s]
                            \/ tx[s] # "none" /\ tx'[s] = "ended"
                            \/ s = t /\ MayBegin(t) /\ t \in over'[k],
           \/ over' = over
           \/ over' = [over EXCEPT ![k] = @ \union {t}] /\ MayBegin(t) /\ link[k] # "off",
           UNCHANGED <<link, queued, recvVars>>,
           sLost \subseteq sLost'
    PROVE  InTurn' /\ Content' /\ Finals'
<1>1. /\ rx' = rx /\ inode' = inode /\ got' = got /\ file' = file
      /\ partial' = partial /\ final' = final /\ rLost' = rLost
      /\ link' = link /\ queued' = queued
  BY DEF recvVars
<1>2. /\ down[k] \in Seq(Packets) /\ down \in [Skts -> Seq(Packets)]
      /\ over \in [Skts -> SUBSET Sends] /\ rLost \subseteq Skts
      /\ tx \in [Sends -> {"none", "open", "noFile", "ended"}]
  BY DEF TypeOK
<1>3. /\ down'[k] = down[k] \o a
      /\ \A j \in Skts : j # k => down'[j] = down[j]
      /\ \A j \in Skts : over[j] \subseteq over'[j]
      /\ \A j \in Skts : \A s \in over'[j] : s \in over[j] \/ (s = t /\ j = k /\ MayBegin(t))
      /\ \A j \in Skts : over'[j] # over[j] => j = k /\ link[k] # "off"
  <2>1. CASE over' = over
    BY <1>2, <2>1
  <2>2. CASE over' = [over EXCEPT ![k] = @ \union {t}] /\ MayBegin(t) /\ link[k] # "off"
    <3>1. /\ over'[k] = over[k] \union {t}
          /\ \A j \in Skts : j # k => over'[j] = over[j]
      BY <1>2, <2>2
    <3>2. down'[k] = down[k] \o a /\ \A j \in Skts : j # k => down'[j] = down[j]
      BY <1>2
    <3> QED BY <2>2, <3>1, <3>2
  <2> QED BY <2>1, <2>2
<1>4. MayBegin(t) => tx[t] = "none" /\ rx[t] = "none"
  BY DEF MayBegin, Fresh, StopAndWait, Owned
<1>5. ASSUME tx[t] = "open" \/ MayBegin(t), NEW s \in Sends, s > t
      PROVE  tx[s] = "none" /\ rx[s] = "none"
  <2>1. tx[t] \notin {"noFile", "ended"}
    BY <1>4, <1>5
  <2>2. tx[s] = "none"
    BY <1>5, <2>1 DEF InTurn, Sequential, Sends
  <2> QED BY <2>2 DEF StopAndWait, Owned
<1>6. /\ Len(down[k]) \in Nat
      /\ \A i \in 1..Len(down'[k]) : i \in Nat
      /\ \A i \in 1..Len(down'[k]) :
           \/ i \in 1..Len(down[k]) /\ down'[k][i] = down[k][i]
           \/ i > Len(down[k]) /\ down'[k][i].send = t /\ a # <<>>
  <2> DEFINE d == down[k] \o a
  <2>1. \A i \in 1..Len(d) : i \in 1..Len(down[k]) => d[i] = down[k][i]
    BY <1>2, Joins
  <2>2. \A i \in 1..Len(d) : i \notin 1..Len(down[k]) =>
           i - Len(down[k]) \in 1..Len(a) /\ d[i] = a[i - Len(down[k])]
    BY <1>2, Joins
  <2>3. a = <<>> => Len(a) = 0
    OBVIOUS
  <2>4. Len(down[k]) \in Nat /\ Len(d) \in Nat
    BY <1>2
  <2> HIDE DEF d
  <2>5. ASSUME NEW i \in 1..Len(d)
        PROVE  \/ i \in 1..Len(down[k]) /\ d[i] = down[k][i]
               \/ i > Len(down[k]) /\ d[i].send = t /\ a # <<>>
    <3>1. CASE i \in 1..Len(down[k])
      BY <2>1, <3>1
    <3>2. CASE i \notin 1..Len(down[k])
      BY <2>2, <2>3, <2>4, <3>2
    <3> QED BY <3>1, <3>2
  <2> QED BY <1>3, <2>4, <2>5 DEF d
<1>7. Links'
  <2>1. ASSUME NEW j \in rLost
        PROVE  down'[j] = <<>>
    <3>1. CASE j = k
      <4>1. link[k] = "down" /\ down[k] = <<>>
        BY <3>1 DEF InTurn, Links
      <4>2. a = <<>>
        BY <4>1
      <4>3. down[k] \o a = <<>>
        BY <4>1, <4>2
      <4> QED BY <1>3, <3>1, <4>3
    <3>2. CASE j # k
      BY <1>2, <1>3, <3>2 DEF InTurn, Links
    <3> QED BY <3>1, <3>2
  <2>2. ASSUME NEW j \in rLost, NEW s \in over'[j]
        PROVE  rx'[s] \in {"none", "gone"}
    BY <1>1, <1>2, <1>3, <1>4 DEF InTurn, Links
  <2>3. ASSUME NEW s \in Sends, tx'[s] # "none"
        PROVE  \E j \in Skts : s \in over'[j]
    <3>1. CASE s = t /\ t \in over'[k]
      BY <3>1
    <3>2. CASE tx[s] # "none"
      BY <1>3, <3>2 DEF InTurn, Links
    <3> QED BY <2>3, <3>1, <3>2
  <2>4. \A j \in Skts : link'[j] = "off" => over'[j] = {}
    BY <1>1, <1>3 DEF InTurn, Links
  <2>5. /\ ~queued'
        /\ \A j, i \in Skts : j # i =>
            \/ link'[j] = "off" \/ link'[i] = "off"
            \/ j \in sLost' \intersect rLost' \/ i \in sLost' \intersect rLost'
        /\ \A j \in rLost' : link'[j] = "down"
    BY <1>1 DEF InTurn, Links
  <2> QED BY <1>1, <2>1, <2>2, <2>3, <2>4, <2>5 DEF Links
<1>8. Sequential'
  <2>1. ASSUME NEW s \in Sends, NEW r \in Sends, s < r, tx'[r] # "none"
        PROVE  tx'[s] \in {"noFile", "ended"}
    <3>1. tx[s] \in {"noFile", "ended"}
      <4>1. CASE tx[r] # "none"
        BY <2>1, <4>1 DEF InTurn, Sequential
      <4>2. CASE tx[r] = "none"
        <5>1. r = t /\ MayBegin(t)
          BY <2>1, <4>2
        <5>2. tx[s] # "none" /\ tx[s] # "open"
          BY <2>1, <5>1 DEF MayBegin, Fresh
        <5> QED BY <1>2, <5>2
      <4> QED BY <4>1, <4>2
    <3> QED BY <1>4, <3>1
  <2> QED BY <2>1 DEF Sequential
<1>9. Ordered'
  <2>1. ASSUME NEW i \in 1..Len(down'[k]), NEW j \in 1..Len(down'[k]), i < j
        PROVE  down'[k][i].send <= down'[k][j].send
    <3>1. CASE j \in 1..Len(down[k]) /\ down'[k][j] = down[k][j]
      <4>1. i \in 1..Len(down[k]) /\ down'[k][i] = down[k][i]
        BY <1>6, <2>1, <3>1
      <4> QED BY <2>1, <3>1, <4>1 DEF InTurn, Ordered
    <3>2. CASE /\ down'[k][j].send = t /\ a # <<>>
               /\ i \in 1..Len(down[k]) /\ down'[k][i] = down[k][i]
      <4>1. /\ down[k][i].send \in Sends
            /\ tx[down[k][i].send] # "none"
        BY <1>2, <3>2 DEF StopAndWait, Owned, From
      <4>2. ~(down[k][i].send > t)
        BY <1>5, <3>2, <4>1
      <4> QED BY <3>2, <4>1, <4>2 DEF Sends
    <3>3. CASE down'[k][j].send = t /\ down'[k][i].send = t
      BY <3>3, SMTT(30) DEF Sends
    <3> QED BY <1>6, <2>1, <3>1, <3>2, <3>3
  <2>2. ASSUME NEW l \in Skts, l # k, NEW i \in 1..Len(down'[l]), NEW j \in 1..Len(down'[l]), i < j
        PROVE  down'[l][i].send <= down'[l][j].send
    BY <1>3, <2>2 DEF InTurn, Ordered
  <2> QED BY <2>1, <2>2 DEF Ordered
<1>10. Ahead'
  <2>1. ASSUME NEW i \in 1..Len(down'[k]), NEW s \in Sends, s > down'[k][i].send
        PROVE  rx[s] = "none"
    <3>1. CASE i \in 1..Len(down[k]) /\ down'[k][i] = down[k][i]
      BY <2>1, <3>1 DEF InTurn, Ahead
    <3>2. CASE down'[k][i].send = t /\ a # <<>>
      BY <1>5, <2>1, <3>2
    <3> QED BY <1>6, <3>1, <3>2
  <2>2. ASSUME NEW l \in Skts, l # k, NEW i \in 1..Len(down'[l]), NEW s \in Sends,
               s > down'[l][i].send
        PROVE  rx[s] = "none"
    BY <1>3, <2>2 DEF InTurn, Ahead
  <2> QED BY <1>1, <2>1, <2>2 DEF Ahead
<1>11. BusyLatest'
  BY <1>1 DEF InTurn, BusyLatest
<1>12. Content'
  <2>1. ASSUME NEW s \in Sends, Live(s)'
        PROVE  Live(s)
    <3>1. rx[s] = "open" /\ (tx'[s] = "open" \/ OnTheWay(s)')
      BY <1>1, <2>1 DEF Live
    <3>2. CASE tx'[s] = "open"
      BY <1>4, <3>1, <3>2 DEF Live
    <3>3. CASE OnTheWay(s)'
      <4>1. PICK l \in Skts : \E i \in 1..Len(down'[l]) : down'[l][i].send = s
        BY <3>3 DEF OnTheWay
      <4>2. CASE l # k
        BY <1>3, <3>1, <4>1, <4>2 DEF Live, OnTheWay
      <4>3. CASE l = k
        <5>1. PICK i \in 1..Len(down'[k]) : down'[k][i].send = s
          BY <4>1, <4>3
        <5>2. CASE i \in 1..Len(down[k]) /\ down'[k][i] = down[k][i]
          BY <3>1, <5>1, <5>2 DEF Live, OnTheWay
        <5>3. CASE s = t /\ a # <<>>
          BY <1>4, <3>1, <5>3 DEF Live
        <5> QED BY <1>6, <5>1, <5>2, <5>3
      <4> QED BY <4>2, <4>3
    <3> QED BY <3>1, <3>2, <3>3
  <2> QED BY <1>1, <2>1 DEF Content
<1>13. Finals'
  BY <1>1 DEF Finals, ReceivedWhole
<1> QED BY <1>7, <1>8, <1>9, <1>10, <1>11, <1>12, <1>13 DEF InTurn

LEMMA SenderKeepsWhole ==
    ASSUME OneAtATime, TypeOK, StopAndWait, InTurn, Content, Finals,
           NEW k \in Skts, Send(k) \/ SenderStep(k)
    PROVE  InTurn' /\ Content' /\ Finals'
<1>1. /\ tx \in [Sends -> {"none", "open", "noFile", "ended"}]
      /\ over \in [Skts -> SUBSET Sends] /\ down \in [Skts -> Seq(Packets)]
      /\ <<>> \in Seq(Packets)
  BY DEF TypeOK
<1>2. CASE Send(k)
  <2>1. PICK t \in Fresh : \E new \in createAssetTxSessionAndSend(t, k) :
          /\ link[k] # "off" /\ ("again" \in Inputs \/ \A s \in Sends : tx[s] # "open")
          /\ over' = [over EXCEPT ![k] = @ \union {t}]
          /\ tx' = [tx EXCEPT ![t] = new.tx]
          /\ down' = [down EXCEPT ![k] = @ \o Carried(k, new.packets)]
          /\ UNCHANGED <<link, queued, sLost, up, recvVars>>
    BY <1>2 DEF Send
  <2>2. PICK new \in createAssetTxSessionAndSend(t, k) :
          /\ link[k] # "off" /\ ("again" \in Inputs \/ \A s \in Sends : tx[s] # "open")
          /\ over' = [over EXCEPT ![k] = @ \union {t}]
          /\ tx' = [tx EXCEPT ![t] = new.tx]
          /\ down' = [down EXCEPT ![k] = @ \o Carried(k, new.packets)]
          /\ UNCHANGED <<link, queued, sLost, up, recvVars>>
    BY <2>1
  <2>3. t \in Sends /\ MayBegin(t)
    BY <2>2 DEF MayBegin, Fresh, OneAtATime
  <2>4. PICK a : a = Carried(k, new.packets)
    OBVIOUS
  <2>5. a = <<>> \/ a = new.packets
    BY <2>4 DEF Carried
  <2>6. PICK u \in Seq(Packets) : From(u, over[k])
    <3>1. From(<<>>, over[k])
      BY DEF From
    <3> QED BY <1>1, <3>1
  <2>7. a \in Seq(Packets) /\ \A i \in 1..Len(a) : a[i].send = t
    BY <2>5, <2>6, Opens
  <2>8. a # <<>> => link[k] = "up"
    BY <2>4 DEF Carried
  <2>9. t \in over'[k]
    BY <1>1, <2>2
  <2>10. \A s \in Sends : tx'[s] = tx[s] \/ s = t
    BY <1>1, <2>2
  <2>11. down' = [down EXCEPT ![k] = @ \o a]
    BY <2>2, <2>4
  <2>12. sLost \subseteq sLost'
    BY <2>2
  <2> QED BY <2>2, <2>3, <2>7, <2>8, <2>9, <2>10, <2>11, <2>12, AppendKeeps
<1>3. PICK t : t = Head(up[k]).send
  OBVIOUS
<1>4. ASSUME up[k] # <<>>
      PROVE  t \in Sends /\ tx[t] # "none"
  BY <1>3, <1>4, Replied
(* Sessions end, and nothing is sent. *)
<1>5. ASSUME NEW s \in Sends, UNCHANGED <<netVars, down, queued, recvVars>>,
             sLost \subseteq sLost',
             \A r \in Sends : tx'[r] = tx[r] \/ (tx[r] # "none" /\ tx'[r] = "ended")
      PROVE  InTurn' /\ Content' /\ Finals'
  <2>1. down' = [down EXCEPT ![k] = @ \o <<>>]
    <3>1. down[k] \o <<>> = down[k]
      BY <1>1
    <3> QED BY <1>1, <1>5, <3>1
  <2>2. \A i \in 1..Len(<<>>) : <<>>[i].send = s
    OBVIOUS
  <2>3. UNCHANGED <<link, queued, recvVars>> /\ over' = over
    BY <1>5 DEF netVars
  <2> QED BY <1>1, <1>5, <2>1, <2>2, <2>3, AppendKeeps
(* The session goes on, or ends, and sends a packet. *)
<1>6. ASSUME t \in Sends, tx[t] = "open", NEW p \in Packets, p.send = t,
             UNCHANGED <<netVars, queued, sLost, recvVars>>,
             down' = [down EXCEPT ![k] = @ \o Carried(k, <<p>>)],
             tx' = tx \/ End(t)
      PROVE  InTurn' /\ Content' /\ Finals'
  <2>1. PICK a : a = Carried(k, <<p>>)
    OBVIOUS
  <2>2. a = <<>> \/ (a = <<p>> /\ link[k] = "up")
    BY <2>1 DEF Carried
  <2>3. a \in Seq(Packets) /\ \A i \in 1..Len(a) : a[i].send = t
    <3>1. CASE a = <<>>
      BY <3>1
    <3>2. CASE a = <<p>>
      BY <1>6, <3>2
    <3> QED BY <2>2, <3>1, <3>2
  <2>4. a # <<>> => link[k] = "up" /\ (tx[t] = "open" \/ MayBegin(t))
    BY <1>6, <2>2
  <2>5. \A s \in Sends :
            \/ tx'[s] = tx[s]
            \/ tx[s] # "none" /\ tx'[s] = "ended"
            \/ s = t /\ MayBegin(t) /\ t \in over'[k]
    BY <1>1, <1>6 DEF End
  <2>6. UNCHANGED <<link, queued, recvVars>> /\ over' = over /\ sLost \subseteq sLost'
    BY <1>6 DEF netVars
  <2>7. down' = [down EXCEPT ![k] = @ \o a]
    BY <1>6, <2>1
  <2>8. t \in Sends
    BY <1>6
  <2> QED BY <2>3, <2>4, <2>5, <2>6, <2>7, <2>8, AppendKeeps
<1>7. CASE OnSendReply(k) \/ ChunkIgnored(k) \/ ReadFails(k) \/ OnCompleteReply(k)
  <2>1. up[k] # <<>>
    BY <1>7 DEF OnSendReply, ChunkIgnored, ReadFails, OnCompleteReply, Arrives
  <2>2. tx' = tx \/ End(t)
    BY <1>3, <1>7 DEF OnSendReply, ChunkIgnored, ReadFails, OnCompleteReply, sendVars
  <2>3. UNCHANGED <<netVars, down, queued, recvVars>> /\ sLost \subseteq sLost'
    BY <1>7 DEF OnSendReply, ChunkIgnored, ReadFails, OnCompleteReply, sendVars
  <2>4. \A r \in Sends : tx'[r] = tx[r] \/ (tx[r] # "none" /\ tx'[r] = "ended")
    BY <1>1, <1>4, <2>1, <2>2 DEF End
  <2> QED BY <1>4, <1>5, <2>1, <2>3, <2>4
<1>8. CASE SLost(k)
  <2>1. UNCHANGED <<netVars, down, queued, recvVars>> /\ sLost \subseteq sLost'
    BY <1>8 DEF SLost
  <2>2. \A r \in Sends : tx'[r] = tx[r] \/ (tx[r] # "none" /\ tx'[r] = "ended")
    BY <1>1, <1>8 DEF SLost
  <2>3. 1 \in Sends
    BY MaxSendsAssumption DEF Sends
  <2> QED BY <1>5, <2>1, <2>2, <2>3
<1>9. CASE NextChunk(k)
  <2>1. up[k] # <<>>
    BY <1>9 DEF NextChunk, Arrives
  <2>2. /\ tx[t] = "open" /\ offs[t] < N
        /\ down' = [down EXCEPT ![k] = @ \o Carried(k, <<Chunk(t, offs[t] + 1)>>)]
        /\ (tx' = tx \/ End(t))
        /\ UNCHANGED <<netVars, queued, sLost, recvVars>>
    BY <1>3, <1>9 DEF NextChunk
  <2>3. t \in Sends
    BY <1>4, <2>1
  <2>4. offs[t] + 1 \in 0..N
    BY <2>2, <2>3, ChunksAssumption DEF TypeOK
  <2>5. PICK p : p = Chunk(t, offs[t] + 1)
    OBVIOUS
  <2>6. p \in Packets /\ p.send = t
    BY <2>3, <2>4, <2>5 DEF Chunk, Packets
  <2> QED BY <1>6, <2>2, <2>3, <2>5, <2>6
<1>10. CASE Canceled(k) \/ AllSent(k)
  <2>1. up[k] # <<>>
    BY <1>10 DEF Canceled, AllSent, Arrives
  <2>2. t \in Sends /\ tx[t] = "open" /\ UNCHANGED <<link, sLost, recvVars>>
    BY <1>3, <1>4, <1>10, <2>1 DEF Canceled, AllSent
  <2>3. \/ onAssetBaseSent(t, k, "fail", <<>>)
        \/ onAssetBaseSent(t, k, "success", <<Complete(t)>>)
    BY <1>3, <1>10 DEF Canceled, AllSent
  <2>4. ~queued
    BY DEF InTurn, Links
  <2>5. /\ End(t)
        /\ UNCHANGED <<over, queued>>
        /\ \/ down' = [down EXCEPT ![k] = @ \o Carried(k, <<>>)]
           \/ down' = [down EXCEPT ![k] = @ \o Carried(k, <<Complete(t)>>)]
    BY <2>3, <2>4 DEF onAssetBaseSent
  <2>6. UNCHANGED <<netVars, queued, recvVars>> /\ UNCHANGED sLost
    BY <2>2, <2>5 DEF netVars
  <2>7. CASE down' = [down EXCEPT ![k] = @ \o Carried(k, <<>>)]
    <3>1. down[k] \o Carried(k, <<>>) = down[k]
      BY <1>1 DEF Carried
    <3>2. down' = down
      BY <1>1, <2>7, <3>1
    <3>3. \A r \in Sends : tx'[r] = tx[r] \/ (tx[r] # "none" /\ tx'[r] = "ended")
      BY <1>1, <2>2, <2>5 DEF End
    <3> QED BY <1>5, <2>2, <2>6, <3>2, <3>3
  <2>8. CASE down' = [down EXCEPT ![k] = @ \o Carried(k, <<Complete(t)>>)]
    <3>1. PICK p : p = Complete(t)
      OBVIOUS
    <3>2. p \in Packets /\ p.send = t
      BY <2>2, <3>1, ChunksAssumption DEF Complete, Packets
    <3> QED BY <1>6, <2>2, <2>5, <2>6, <2>8, <3>1, <3>2
  <2> QED BY <2>5, <2>7, <2>8
<1> QED BY <1>2, <1>7, <1>8, <1>9, <1>10 DEF SenderStep, OnChunkReply

LEMMA WholeInit ==
    ASSUME OneAtATime, Init
    PROVE  InTurn /\ Content /\ Finals
<1>1. /\ \A k \in Skts : link[k] = "off" /\ over[k] = {} /\ down[k] = <<>>
      /\ \A t \in Sends : tx[t] = "none" /\ rx[t] = "none"
      /\ rLost = {} /\ partial = 0 /\ final = 0
  BY DEF Init
<1>2. ~queued
  BY DEF Init, OneAtATime
<1>3. \A k \in Skts : ~ \E i \in 1..Len(down[k]) : TRUE
  <2>1. ~ \E i \in 1..Len(<<>>) : TRUE
    OBVIOUS
  <2>2. \A k \in Skts : down[k] = <<>>
    BY <1>1
  <2> QED BY <2>1, <2>2, Zenon
<1>4. Links /\ Sequential /\ BusyLatest
  BY <1>1, <1>2 DEF Links, Sequential, BusyLatest
<1>5. Ordered /\ Ahead
  BY <1>3 DEF Ordered, Ahead
<1>6. Content /\ Finals
  BY <1>1 DEF Content, Live, Finals, ReceivedWhole
<1> QED BY <1>4, <1>5, <1>6 DEF InTurn

LEMMA WholeStep ==
    ASSUME OneAtATime, TypeOK, TypeOK', StopAndWait, StopAndWait', InTurn, Content, Finals,
           [Next]_vars
    PROVE  InTurn' /\ Content' /\ Finals'
<1>1. CASE UNCHANGED vars
  <2>1. /\ UNCHANGED <<link, over, down, tx, queued, sLost, rx, got, inode, file, partial, final>>
        /\ UNCHANGED rLost
    BY <1>1 DEF vars, netVars, sendVars, recvVars
  <2>2. Links' /\ Sequential' /\ Ordered' /\ Ahead' /\ BusyLatest'
    BY <2>1 DEF InTurn, Links, Sequential, Ordered, Ahead, BusyLatest
  <2>3. \A t \in Sends : Live(t)' => Live(t)
    BY <2>1 DEF Live, OnTheWay
  <2>4. Content' /\ Finals'
    BY <2>1, <2>3 DEF Content, Finals, ReceivedWhole
  <2> QED BY <2>2, <2>4 DEF InTurn
<1>2. ASSUME NEW k \in Skts, Connect(k) \/ Drop(k)
      PROVE  InTurn' /\ Content' /\ Finals'
  BY <1>2, LinkKeepsWhole
<1>3. ASSUME NEW k \in Skts, Send(k) \/ SenderStep(k)
      PROVE  InTurn' /\ Content' /\ Finals'
  BY <1>3, SenderKeepsWhole
<1>4. ASSUME NEW k \in Skts, ReceiverStep(k)
      PROVE  InTurn' /\ Content' /\ Finals'
  BY <1>4, ReceiverKeepsWhole, ReceivedKeepsWhole, RLostKeepsWhole DEF ReceiverStep
<1> QED BY <1>1, <1>2, <1>3, <1>4 DEF Next

(* What is registered as received is the file, every chunk in its place,   *)
(* if the user sends it again only when no send is under way and both      *)
(* engines know that a connection is lost before there is another: of the  *)
(* sessions that share the name of the incomplete download                 *)
(* (beginAssetBaseReceive) only one then writes (rxAssetBaseChunk) until   *)
(* its file is moved (onAssetBaseReceived).                                *)
THEOREM ReceivedIsWhole == ASSUME OneAtATime PROVE Spec => []ReceivedWhole
<1>1. Init => TypeOK /\ StopAndWait /\ InTurn /\ Content /\ Finals
  BY StopAndWaitInit, WholeInit
<1>2. TypeOK /\ StopAndWait /\ InTurn /\ Content /\ Finals /\ [Next]_vars =>
        TypeOK' /\ StopAndWait' /\ InTurn' /\ Content' /\ Finals'
  BY TypeStep, StopAndWaitStep, WholeStep
<1>3. Finals => ReceivedWhole
  BY DEF Finals
<1> QED BY <1>1, <1>2, <1>3, PTL DEF Spec


-----------------------------------------------------------------------------
(* What the sender takes for sent *)

Among(s, q) == \E i \in 1..Len(s) : s[i] = q
InDown(q) == \E k \in Skts : Among(down[k], q)
InUp(q) == \E k \in Skts : Among(up[k], q)

NoneLost == \A k \in Skts : link[k] # "down"

(* As long as no connection is lost, the receiver has a session for what   *)
(* it is told to be complete and for each chunk it has accepted, and what  *)
(* it has answered to be complete it has, or is about to move.             *)
Held == NoneLost =>
    /\ \A q : InDown(q) /\ q.kind = "complete" => rx[q.send] = "open"
    /\ \A q : InUp(q) /\ q.kind = "chunk" /\ q.ok => rx[q.send] = "open"
    /\ \A q : InUp(q) /\ q.kind = "complete" => final # 0 \/ rx[q.send] = "moving"

LEMMA JoinElements ==
    ASSUME NEW s \in Seq(Packets), NEW a \in Seq(Packets), NEW q
    PROVE  Among(s \o a, q) <=> Among(s, q) \/ Among(a, q)
<1> DEFINE w == s \o a
<1>1. /\ Len(s) \in Nat /\ Len(a) \in Nat /\ Len(w) = Len(s) + Len(a)
      /\ \A i \in 1..Len(s) : w[i] = s[i] /\ i \in 1..Len(w)
      /\ \A i \in 1..Len(w) : i \notin 1..Len(s) =>
              i - Len(s) \in 1..Len(a) /\ w[i] = a[i - Len(s)]
  BY Joins
<1>2. \A i \in 1..Len(a) : w[Len(s) + i] = a[i] /\ Len(s) + i \in 1..Len(w)
  OBVIOUS
<1> HIDE DEF w
<1>3. Among(w, q) <=> Among(s, q) \/ Among(a, q)
  BY <1>1, <1>2 DEF Among
<1> QED BY <1>3 DEF w

LEMMA TailElements ==
    ASSUME NEW s \in Seq(Packets), s # <<>>, NEW q
    PROVE  /\ Among(s, Head(s))
           /\ Among(Tail(s), q) => Among(s, q)
           /\ Among(s, q) => q = Head(s) \/ Among(Tail(s), q)
<1>1. /\ Head(s) = s[1] /\ 1 \in 1..Len(s) /\ Len(s) \in Nat /\ Len(Tail(s)) = Len(s) - 1
      /\ \A i \in 1..Len(Tail(s)) : Tail(s)[i] = s[i + 1] /\ i + 1 \in 1..Len(s)
  BY Tails
<1>2. ASSUME NEW i \in 1..Len(s), i # 1
      PROVE  s[i] = Tail(s)[i - 1] /\ i - 1 \in 1..Len(Tail(s))
  <2>1. i - 1 \in 1..Len(Tail(s)) /\ (i - 1) + 1 = i
    BY <1>1, <1>2
  <2> QED BY <1>1, <2>1
<1>3. \A i \in 1..Len(s) : s[i] = Head(s) \/ \E j \in 1..Len(Tail(s)) : Tail(s)[j] = s[i]
  BY <1>1, <1>2
<1>4. \A i \in 1..Len(Tail(s)) : \E j \in 1..Len(s) : s[j] = Tail(s)[i]
  BY <1>1
<1> QED BY <1>1, <1>3, <1>4, SMTT(30) DEF Among

LEMMA Appended ==
    ASSUME TypeOK, NEW k \in Skts, NEW a \in Seq(Packets)
    PROVE  /\ down' = [down EXCEPT ![k] = @ \o a] => \A q :
                InDown(q)' <=> InDown(q) \/ Among(a, q)
           /\ up' = [up EXCEPT ![k] = @ \o a] => \A q :
                InUp(q)' <=> InUp(q) \/ Among(a, q)
<1>1. /\ down \in [Skts -> Seq(Packets)] /\ up \in [Skts -> Seq(Packets)]
      /\ down[k] \in Seq(Packets) /\ up[k] \in Seq(Packets)
  BY DEF TypeOK
<1>2. ASSUME down' = [down EXCEPT ![k] = @ \o a], NEW q
      PROVE  InDown(q)' <=> InDown(q) \/ Among(a, q)
  <2>1. /\ down'[k] = down[k] \o a
        /\ \A j \in Skts : j # k => down'[j] = down[j]
    BY <1>1, <1>2
  <2>2. Among(down'[k], q) <=> Among(down[k], q) \/ Among(a, q)
    BY <1>1, <2>1, JoinElements
  <2> QED BY <2>1, <2>2 DEF InDown
<1>3. ASSUME up' = [up EXCEPT ![k] = @ \o a], NEW q
      PROVE  InUp(q)' <=> InUp(q) \/ Among(a, q)
  <2>1. /\ up'[k] = up[k] \o a
        /\ \A j \in Skts : j # k => up'[j] = up[j]
    BY <1>1, <1>3
  <2>2. Among(up'[k], q) <=> Among(up[k], q) \/ Among(a, q)
    BY <1>1, <2>1, JoinElements
  <2> QED BY <2>1, <2>2 DEF InUp
<1> QED BY <1>2, <1>3

LEMMA Removed ==
    ASSUME TypeOK, NEW k \in Skts
    PROVE  /\ down[k] # <<>> /\ Handled(k) =>
                /\ InDown(Head(down[k]))
                /\ \A q : InDown(q)' => InDown(q)
                /\ \A q : InDown(q) => InDown(q)' \/ q = Head(down[k])
           /\ up[k] # <<>> => InUp(Head(up[k]))
           /\ up[k] # <<>> /\ Taken(k) => \A q : InUp(q)' => InUp(q)
<1>1. /\ down \in [Skts -> Seq(Packets)] /\ up \in [Skts -> Seq(Packets)]
      /\ down[k] \in Seq(Packets) /\ up[k] \in Seq(Packets)
  BY DEF TypeOK
<1>2. ASSUME down[k] # <<>>, Handled(k)
      PROVE  /\ InDown(Head(down[k]))
             /\ \A q : InDown(q)' => InDown(q)
             /\ \A q : InDown(q) => InDown(q)' \/ q = Head(down[k])
  <2>1. down'[k] = Tail(down[k]) /\ \A j \in Skts : j # k => down'[j] = down[j]
    BY <1>1, <1>2 DEF Handled
  <2>2. /\ Among(down[k], Head(down[k]))
        /\ \A q : Among(down'[k], q) => Among(down[k], q)
        /\ \A q : Among(down[k], q) => q = Head(down[k]) \/ Among(down'[k], q)
    BY <1>1, <1>2, <2>1, TailElements
  <2>3. ASSUME NEW q, InDown(q)'
        PROVE  InDown(q)
    BY <2>1, <2>2, <2>3 DEF InDown
  <2>4. ASSUME NEW q, InDown(q), q # Head(down[k])
        PROVE  InDown(q)'
    BY <2>1, <2>2, <2>4 DEF InDown
  <2> QED BY <2>2, <2>3, <2>4 DEF InDown
<1>3. ASSUME up[k] # <<>>
      PROVE  InUp(Head(up[k]))
  BY <1>1, <1>3, TailElements DEF InUp
<1>4. ASSUME up[k] # <<>>, Taken(k)
      PROVE  \A q : InUp(q)' => InUp(q)
  <2>1. up'[k] = Tail(up[k]) /\ \A j \in Skts : j # k => up'[j] = up[j]
    BY <1>1, <1>4 DEF Taken
  <2>2. \A q : Among(up'[k], q) => Among(up[k], q)
    BY <1>1, <1>4, <2>1, TailElements
  <2>3. ASSUME NEW q, InUp(q)'
        PROVE  InUp(q)
    BY <2>1, <2>2, <2>3 DEF InUp
  <2> QED BY <2>2, <2>3 DEF InUp
<1> QED BY <1>2, <1>3, <1>4

LEMMA HeldIsWay ==
    SuccessIsHeld <=>
        (told = "success" /\ NoneLost =>
            final # 0 \/ \E t \in Sends : rx[t] = "moving" \/ InDown(Complete(t)))
  BY DEF SuccessIsHeld, NoneLost, OnItsWay, InDown, Among

(* The packets of other connections are of other sends. *)
LEMMA SendOfPacket ==
    ASSUME TypeOK, StopAndWait, NEW k \in Skts, NEW t \in over[k], NEW q, q.send = t
    PROVE  /\ InDown(q) => Among(down[k], q)
           /\ InUp(q) => Among(up[k], q)
<1>1. /\ \A j \in Skts : From(down[j], over[j]) /\ From(up[j], over[j])
      /\ \A i, j \in Skts : i # j => over[i] \intersect over[j] = {}
  BY DEF StopAndWait, Owned
<1>2. ASSUME NEW j \in Skts, j # k
      PROVE  ~Among(down[j], q) /\ ~Among(up[j], q)
  <2>1. t \notin over[j]
    BY <1>1, <1>2
  <2> QED BY <1>1, <2>1 DEF From, Among
<1> QED BY <1>2 DEF InDown, InUp

(* The sender takes a reply and sends the packets a, of which the complete *)
(* request is one that the receiver has a session for; it takes the file   *)
(* for sent only with such a request or when the receiver said so.         *)
LEMMA SendsKeepHeld ==
    ASSUME TypeOK, Held, SuccessIsHeld, NEW k \in Skts, NEW a \in Seq(Packets),
           NoneLost,
           down' = [down EXCEPT ![k] = @ \o a],
           \A i \in 1..Len(a) : a[i].kind = "complete" => rx[a[i].send] = "open",
           up' = up \/ (up[k] # <<>> /\ Taken(k)),
           UNCHANGED <<link, rx, final>>,
           told' = "success" =>
                \/ told = "success" \/ final # 0
                \/ \E t \in Sends : rx[t] = "moving" \/ Among(a, Complete(t))
    PROVE  Held' /\ SuccessIsHeld'
<1>1. \A q : InDown(q)' <=> InDown(q) \/ Among(a, q)
  BY Appended
<1>2. \A q : InUp(q)' => InUp(q)
  <2>1. CASE up' = up
    BY <2>1 DEF InUp
  <2>2. CASE up[k] # <<>> /\ Taken(k)
    BY <2>2, Removed
  <2> QED BY <2>1, <2>2
<1>3. /\ \A q : InDown(q) /\ q.kind = "complete" => rx[q.send] = "open"
      /\ \A q : InUp(q) /\ q.kind = "chunk" /\ q.ok => rx[q.send] = "open"
      /\ \A q : InUp(q) /\ q.kind = "complete" => final # 0 \/ rx[q.send] = "moving"
  BY DEF Held
<1>4. \A q : Among(a, q) /\ q.kind = "complete" => rx[q.send] = "open"
  BY DEF Among
<1>5. rx' = rx /\ final' = final
  OBVIOUS
<1>6. Held'
  BY <1>1, <1>2, <1>3, <1>4, <1>5 DEF Held
<1>7. told = "success" => final # 0 \/ \E t \in Sends : rx[t] = "moving" \/ InDown(Complete(t))
  BY HeldIsWay
<1>8. told' = "success" =>
        final' # 0 \/ \E t \in Sends : rx'[t] = "moving" \/ InDown(Complete(t))'
  BY <1>1, <1>5, <1>7 DEF Complete
<1>9. SuccessIsHeld'
  BY <1>8 DEF SuccessIsHeld, OnItsWay, InDown, Among, Complete
<1> QED BY <1>6, <1>9

LEMMA RepliesKeepHeld ==
    ASSUME TypeOK, Held, SuccessIsHeld, NEW k \in Skts, NoneLost, down' = down,
           up[k] # <<>>, Taken(k), UNCHANGED <<link, rx, final>>,
           told' = "success" =>
                told = "success" \/ final # 0 \/ \E t \in Sends : rx[t] = "moving"
    PROVE  Held' /\ SuccessIsHeld'
<1> DEFINE a == <<>>
<1>1. a \in Seq(Packets) /\ \A i \in 1..Len(a) : FALSE
  OBVIOUS
<1>2. down' = [down EXCEPT ![k] = @ \o a]
  BY DEF TypeOK
<1> HIDE DEF a
<1> QED BY <1>1, <1>2, SendsKeepHeld

LEMMA SenderKeepsHeld ==
    ASSUME OneAtATime, TypeOK, StopAndWait, InTurn, Held, SuccessIsHeld, NoneLost,
           NEW k \in Skts, Send(k) \/ SenderStep(k)
    PROVE  Held' /\ SuccessIsHeld'
<1>1. /\ over \in [Skts -> SUBSET Sends] /\ down \in [Skts -> Seq(Packets)]
      /\ down[k] \in Seq(Packets) /\ <<>> \in Seq(Packets)
      /\ tx \in [Sends -> {"none", "open", "noFile", "ended"}]
  BY DEF TypeOK
<1>2. /\ link[k] # "down"
      /\ \A q : InUp(q) /\ q.kind = "chunk" /\ q.ok => rx[q.send] = "open"
      /\ \A q : InUp(q) /\ q.kind = "complete" => final # 0 \/ rx[q.send] = "moving"
  BY DEF Held, NoneLost
<1>3. ASSUME up[k] # <<>>
      PROVE  /\ Head(up[k]).send \in Sends
             /\ link[k] = "up"
             /\ Head(up[k]).kind = "chunk" /\ Head(up[k]).ok => rx[Head(up[k]).send] = "open"
             /\ Head(up[k]).kind = "complete" =>
                    final # 0 \/ rx[Head(up[k]).send] = "moving"
  <2>1. Head(up[k]).send \in over[k] /\ Head(up[k]).send \in Sends
    BY <1>3, Replied
  <2>2. link[k] # "off"
    BY <2>1 DEF InTurn, Links
  <2>3. InUp(Head(up[k]))
    BY <1>3, Removed
  <2> QED BY <1>2, <2>1, <2>2, <2>3 DEF TypeOK
<1>4. CASE Send(k)
  <2>1. PICK t \in Fresh : \E new \in createAssetTxSessionAndSend(t, k) :
          /\ told' = IF new.err THEN "fail" ELSE new.told
          /\ down' = [down EXCEPT ![k] = @ \o Carried(k, new.packets)]
          /\ UNCHANGED <<link, up, recvVars>>
    BY <1>4 DEF Send
  <2>2. PICK new \in createAssetTxSessionAndSend(t, k) :
          /\ told' = IF new.err THEN "fail" ELSE new.told
          /\ down' = [down EXCEPT ![k] = @ \o Carried(k, new.packets)]
          /\ UNCHANGED <<link, up, recvVars>>
    BY <2>1
  <2>3. t \in Sends
    BY DEF Fresh
  <2>4. /\ new.told \in {"progress", "fail"}
        /\ new.packets \in {<<>>, <<Request(t)>>, <<Request(t), Chunk(t, 1)>>}
        /\ new.packets \in Seq(Packets)
    BY <2>3, NewSends
  <2> DEFINE a == Carried(k, new.packets)
  <2>5. a \in Seq(Packets) /\ a \in {<<>>, <<Request(t)>>, <<Request(t), Chunk(t, 1)>>}
    BY <2>4, CarriedType
  <2>6. \A i \in 1..Len(a) : a[i].kind # "complete"
    <3>1. Request(t).kind = "request" /\ Chunk(t, 1).kind = "chunk"
      BY DEF Request, Chunk
    <3>2. a = <<>> \/ a = <<Request(t)>> \/ a = <<Request(t), Chunk(t, 1)>>
      BY <2>5
    <3> HIDE DEF a
    <3>3. CASE a = <<>>
      BY <3>3
    <3>4. CASE a = <<Request(t)>>
      BY <3>1, <3>4
    <3>5. CASE a = <<Request(t), Chunk(t, 1)>>
      BY <3>1, <3>5
    <3> QED BY <3>2, <3>3, <3>4, <3>5
  <2>7. told' # "success" /\ up' = up /\ UNCHANGED <<link, rx, final>>
        /\ down' = [down EXCEPT ![k] = @ \o a]
    BY <2>2, <2>4 DEF recvVars
  <2> HIDE DEF a
  <2> QED BY <2>5, <2>6, <2>7, SendsKeepHeld
<1>5. CASE OnSendReply(k)
  <2>1. /\ up[k] # <<>> /\ Taken(k) /\ down' = down
        /\ UNCHANGED <<link, rx, final>> /\ (told' = "fail" \/ told' = told)
    BY <1>5 DEF OnSendReply, Arrives, netVars, recvVars
  <2> QED BY <2>1, RepliesKeepHeld
<1>6. CASE ChunkIgnored(k) \/ ReadFails(k)
  <2>1. /\ up[k] # <<>> /\ Taken(k) /\ down' = down
        /\ UNCHANGED <<link, rx, final>> /\ told' = told
    BY <1>6 DEF ChunkIgnored, ReadFails, Arrives, netVars, sendVars, recvVars
  <2> QED BY <2>1, RepliesKeepHeld
<1>7. CASE Canceled(k)
  <2>1. /\ up[k] # <<>> /\ Taken(k) /\ UNCHANGED <<link, rx, final>>
        /\ onAssetBaseSent(Head(up[k]).send, k, "fail", <<>>)
    BY <1>7 DEF Canceled, Arrives, recvVars
  <2>2. ~queued
    BY DEF InTurn, Links
  <2>3. told' = "fail" /\ down' = [down EXCEPT ![k] = @ \o Carried(k, <<>>)]
    BY <2>1, <2>2 DEF onAssetBaseSent
  <2>4. down' = down
    BY <1>1, <2>3 DEF Carried
  <2> QED BY <2>1, <2>3, <2>4, RepliesKeepHeld
<1>8. CASE AllSent(k)
  <2>0. PICK t : t = Head(up[k]).send
    OBVIOUS
  <2>1. /\ up[k] # <<>> /\ Taken(k) /\ UNCHANGED <<link, rx, final>>
        /\ Head(up[k]).kind = "chunk" /\ Head(up[k]).ok
        /\ onAssetBaseSent(t, k, "success", <<Complete(t)>>)
    BY <1>8, <2>0 DEF AllSent, Arrives, recvVars
  <2>2. t \in Sends /\ link[k] = "up" /\ rx[t] = "open"
    BY <1>3, <2>0, <2>1
  <2>3. ~queued
    BY DEF InTurn, Links
  <2>4. down' = [down EXCEPT ![k] = @ \o <<Complete(t)>>]
    BY <2>1, <2>2, <2>3 DEF onAssetBaseSent, Carried
  <2> DEFINE a == <<Complete(t)>>
  <2>5. a \in Seq(Packets) /\ Among(a, Complete(t))
    <3>1. Complete(t) \in Packets
      BY <2>2, PacketTypes, ChunksAssumption DEF Complete, Packets
    <3> QED BY <3>1 DEF Among
  <2>6. \A i \in 1..Len(a) : a[i].kind = "complete" => rx[a[i].send] = "open"
    BY <2>2 DEF Complete
  <2> HIDE DEF a
  <2>7. down' = [down EXCEPT ![k] = @ \o a]
    BY <2>4 DEF a
  <2> QED BY <2>1, <2>2, <2>5, <2>6, <2>7, SendsKeepHeld
<1>9. CASE NextChunk(k)
  <2>0. PICK t : t = Head(up[k]).send
    OBVIOUS
  <2> DEFINE a == Carried(k, <<Chunk(t, offs[t] + 1)>>)
  <2>1. /\ up[k] # <<>> /\ Taken(k) /\ UNCHANGED <<link, rx, final>> /\ told' = told
        /\ down' = [down EXCEPT ![k] = @ \o a] /\ offs[t] < N
    BY <1>9, <2>0 DEF NextChunk, Arrives, netVars, recvVars
  <2>2. t \in Sends /\ offs[t] + 1 \in 0..N
    BY <1>3, <2>0, <2>1, ChunksAssumption DEF TypeOK
  <2>3. a \in Seq(Packets) /\ \A i \in 1..Len(a) : a[i].kind = "chunk"
    <3>1. Chunk(t, offs[t] + 1) \in Packets /\ Chunk(t, offs[t] + 1).kind = "chunk"
      BY <2>2 DEF Chunk, Packets
    <3> QED BY <3>1 DEF Carried
  <2> HIDE DEF a
  <2> QED BY <2>1, <2>3, SendsKeepHeld
<1>10. CASE OnCompleteReply(k)
  <2>1. /\ up[k] # <<>> /\ Taken(k) /\ UNCHANGED <<link, rx, final>>
        /\ Head(up[k]).kind = "complete" /\ down' = down
    BY <1>10 DEF OnCompleteReply, Arrives, netVars, recvVars
  <2>2. final # 0 \/ \E t \in Sends : rx[t] = "moving"
    BY <1>3, <2>1
  <2> QED BY <2>1, <2>2, RepliesKeepHeld
<1>11. CASE SLost(k)
  BY <1>2, <1>11 DEF SLost
<1> QED BY <1>4, <1>5, <1>6, <1>7, <1>8, <1>9, <1>10, <1>11 DEF SenderStep, OnChunkReply

(* The receiver handles a packet of t, and may answer it with p. *)
LEMMA HandlingKeepsHeld ==
    ASSUME TypeOK, StopAndWait, InTurn, Held, SuccessIsHeld, NoneLost,
           NEW k \in Skts, k \notin rLost, ~Busy(k), down[k] # <<>>,
           NEW t, t = Head(down[k]).send, NEW p \in Packets,
           Handled(k), Answer(k, p) \/ up' = up, UNCHANGED <<link, told, final>>,
           \A s \in Sends : s # t => rx'[s] = rx[s],
           Head(down[k]).kind = "complete" => rx'[t] = "moving",
           /\ p.kind = "chunk" /\ p.ok => rx'[p.send] = "open"
           /\ p.kind = "complete" => final' # 0 \/ rx'[p.send] = "moving"
    PROVE  Held' /\ SuccessIsHeld'
<1>1. /\ t \in over[k] /\ t \in Sends
      /\ Head(down[k]).kind = "request" => rx[t] = "none"
      /\ Head(down[k]).kind # "request" =>
                /\ \A i \in 1..Len(Tail(down[k])) : Tail(down[k])[i].send # t
                /\ \A i \in 1..Len(up[k]) : up[k][i].send = t => up[k][i].kind # "chunk"
  BY Asked
<1>2. /\ \A q : InDown(q) /\ q.kind = "complete" => rx[q.send] = "open"
      /\ \A q : InUp(q) /\ q.kind = "chunk" /\ q.ok => rx[q.send] = "open"
      /\ \A q : InUp(q) /\ q.kind = "complete" => final # 0 \/ rx[q.send] = "moving"
  BY DEF Held
<1>3. \A s \in Sends : rx[s] # "moving"
  BY HeadAlone
<1>4. /\ \A q : InDown(q)' => InDown(q)
      /\ \A q : InDown(q) => InDown(q)' \/ q = Head(down[k])
      /\ InDown(Head(down[k]))
  BY Removed
<1>5. \A q : InUp(q)' => InUp(q) \/ q = p
  <2>1. CASE up' = up
    BY <2>1 DEF InUp
  <2>2. CASE Answer(k, p)
    <3>0. /\ <<p>> \in Seq(Packets) /\ <<>> \in Seq(Packets)
          /\ Carried(k, <<p>>) = <<p>> \/ Carried(k, <<p>>) = <<>>
      BY DEF Carried
    <3>1. PICK a \in Seq(Packets) : up' = [up EXCEPT ![k] = @ \o a] /\ (a = <<>> \/ a = <<p>>)
      BY <2>2, <3>0 DEF Answer
    <3>2. \A q : Among(a, q) => q = p
      BY <3>1 DEF Among
    <3> QED BY <3>1, <3>2, Appended
  <2> QED BY <2>1, <2>2
<1>6. ASSUME NEW q, InDown(q)
      PROVE  q.send \in Sends
  <2>1. PICK j \in Skts : Among(down[j], q)
    BY <1>6 DEF InDown
  <2>2. down[j] \in Seq(Packets)
    BY DEF TypeOK
  <2>3. q \in Packets
    BY <2>1, <2>2 DEF Among
  <2> QED BY <2>3 DEF Packets
<1>7. ASSUME NEW q, InUp(q)
      PROVE  q.send \in Sends
  <2>1. PICK j \in Skts : Among(up[j], q)
    BY <1>7 DEF InUp
  <2>2. up[j] \in Seq(Packets)
    BY DEF TypeOK
  <2>3. q \in Packets
    BY <2>1, <2>2 DEF Among
  <2> QED BY <2>3 DEF Packets
<1>8. ASSUME NEW q, InDown(q)', q.kind = "complete"
      PROVE  rx'[q.send] = "open"
  <2>1. rx[q.send] = "open" /\ q.send \in Sends
    BY <1>2, <1>4, <1>6, <1>8
  <2>2. CASE q.send = t
    <3>1. Head(down[k]).kind # "request"
      BY <1>1, <2>1, <2>2
    <3>2. ~Among(down'[k], q)
      <4>1. down'[k] = Tail(down[k])
        BY DEF Handled, TypeOK
      <4> QED BY <1>1, <2>2, <3>1, <4>1 DEF Among
    <3>3. PICK j \in Skts : Among(down'[j], q)
      BY <1>8 DEF InDown
    <3>4. j # k /\ Among(down[j], q)
      BY <3>2, <3>3 DEF Handled, TypeOK
    <3>5. From(down[j], over[j]) /\ over[j] \intersect over[k] = {}
      BY <3>4 DEF StopAndWait, Owned
    <3> QED BY <1>1, <2>2, <3>4, <3>5 DEF From, Among
  <2> QED BY <2>1, <2>2
<1>9. ASSUME NEW q, InUp(q), q.kind = "chunk", q.ok
      PROVE  rx'[q.send] = "open"
  <2>1. rx[q.send] = "open" /\ q.send \in Sends
    BY <1>2, <1>7, <1>9
  <2>2. CASE q.send = t
    <3>1. Head(down[k]).kind # "request"
      BY <1>1, <2>1, <2>2
    <3>2. Among(up[k], q)
      BY <1>1, <1>9, <2>2, SendOfPacket
    <3> QED BY <1>1, <1>9, <2>2, <3>1, <3>2 DEF Among
  <2> QED BY <2>1, <2>2
<1>10. Held'
  <2>1. ASSUME NEW q, InUp(q)', q.kind = "chunk", q.ok
        PROVE  rx'[q.send] = "open"
    BY <1>5, <1>9, <2>1
  <2>2. ASSUME NEW q, InUp(q)', q.kind = "complete"
        PROVE  final' # 0 \/ rx'[q.send] = "moving"
    BY <1>2, <1>3, <1>5, <1>7, <2>2
  <2> QED BY <1>8, <2>1, <2>2 DEF Held
<1>11. told' = "success" =>
         final' # 0 \/ \E s \in Sends : rx'[s] = "moving" \/ InDown(Complete(s))'
  <2>1. SUFFICES ASSUME told = "success", final = 0
                 PROVE  \E s \in Sends : rx'[s] = "moving" \/ InDown(Complete(s))'
    OBVIOUS
  <2>2. PICK s \in Sends : rx[s] = "moving" \/ InDown(Complete(s))
    BY <2>1, HeldIsWay
  <2>3. InDown(Complete(s))
    BY <1>3, <2>2
  <2>4. CASE Complete(s) = Head(down[k])
    BY <1>1, <2>4 DEF Complete
  <2>5. CASE Complete(s) # Head(down[k])
    <3>1. InDown(Complete(s))'
      BY <1>4, <2>3, <2>5 DEF Complete
    <3> QED BY <3>1
  <2> QED BY <2>4, <2>5
<1>12. SuccessIsHeld'
  BY <1>11 DEF SuccessIsHeld, OnItsWay, InDown, Among, Complete
<1> QED BY <1>10, <1>12

LEMMA PacketsKeepHeld ==
    ASSUME TypeOK, StopAndWait, InTurn, Held, SuccessIsHeld, NoneLost,
           NEW k \in Skts, OnRequest(k) \/ OnChunk(k) \/ OnComplete(k)
    PROVE  Held' /\ SuccessIsHeld'
<1>0. PICK t : t = Head(down[k]).send
  OBVIOUS
<1>1. /\ k \notin rLost /\ ~Busy(k) /\ down[k] # <<>>
      /\ Handled(k) /\ UNCHANGED <<link, told, final>>
  BY DEF OnRequest, OnChunk, OnComplete, Refuse, CannotReceive, Receive, ChunkUnknown,
         ChunkWritten, WriteFails, Comes, recvVars, netVars, sendVars
<1>2. /\ t \in over[k] /\ t \in Sends
      /\ rx \in [Sends -> {"none", "open", "moving", "ending", "gone"}]
  BY <1>0, <1>1, Asked DEF TypeOK
<1>3. link[k] = "up"
  BY <1>2 DEF InTurn, Links, NoneLost, TypeOK
<1>4. ASSUME NEW r \in BOOLEAN
      PROVE  /\ Reply(t, r) \in Packets /\ Reply(t, r).kind = "request"
             /\ Ack(t, r) \in Packets /\ Ack(t, r).send = t /\ Ack(t, r).kind = "chunk"
             /\ Ack(t, r).ok = r
             /\ Done(t) \in Packets /\ Done(t).send = t /\ Done(t).kind = "complete"
  BY <1>2, ChunksAssumption DEF Reply, Ack, Done, Packets
<1>5. CASE Refuse(k)
  <2>1. Head(down[k]).kind = "request" /\ Answer(k, Reply(t, FALSE)) /\ rx' = rx
    BY <1>0, <1>5 DEF Refuse, Comes, recvVars
  <2>2. Reply(t, FALSE) \in Packets /\ Reply(t, FALSE).kind = "request"
    BY <1>4
  <2> QED BY <1>0, <1>1, <2>1, <2>2, HandlingKeepsHeld
<1>6. CASE CannotReceive(k)
  <2>1. /\ Head(down[k]).kind = "request" /\ Answer(k, Reply(t, FALSE))
        /\ rx' = [rx EXCEPT ![t] = "gone"]
    BY <1>0, <1>6 DEF CannotReceive, Comes, EndRx
  <2>2. Reply(t, FALSE) \in Packets /\ Reply(t, FALSE).kind = "request"
    BY <1>4
  <2>3. \A s \in Sends : s # t => rx'[s] = rx[s]
    BY <1>2, <2>1
  <2> QED BY <1>0, <1>1, <2>1, <2>2, <2>3, HandlingKeepsHeld
<1>7. CASE Receive(k)
  <2>1. /\ Head(down[k]).kind = "request" /\ Answer(k, Reply(t, TRUE))
        /\ rx' = [rx EXCEPT ![t] = "open"] \/ rx' = [rx EXCEPT ![t] = "gone"]
    BY <1>0, <1>7 DEF Receive, Comes, EndRx
  <2>2. Reply(t, TRUE) \in Packets /\ Reply(t, TRUE).kind = "request"
    BY <1>4
  <2>3. \A s \in Sends : s # t => rx'[s] = rx[s]
    BY <1>2, <2>1
  <2> QED BY <1>0, <1>1, <2>1, <2>2, <2>3, HandlingKeepsHeld
<1>8. CASE ChunkUnknown(k)
  <2>1. /\ Head(down[k]).kind = "chunk" /\ Answer(k, Ack(t, FALSE)) /\ rx' = rx
    BY <1>0, <1>8 DEF ChunkUnknown, Comes, recvVars
  <2>2. Ack(t, FALSE) \in Packets /\ Ack(t, FALSE).kind = "chunk" /\ ~Ack(t, FALSE).ok
    BY <1>4
  <2> QED BY <1>0, <1>1, <2>1, <2>2, HandlingKeepsHeld
<1>9. CASE ChunkWritten(k)
  <2>1. /\ Head(down[k]).kind = "chunk" /\ Answer(k, Ack(t, TRUE)) /\ rx[t] = "open"
        /\ rx' = rx
    BY <1>0, <1>3, <1>9 DEF ChunkWritten, Comes, TxResults
  <2>2. /\ Ack(t, TRUE) \in Packets /\ Ack(t, TRUE).kind = "chunk" /\ Ack(t, TRUE).send = t
    BY <1>4
  <2> QED BY <1>0, <1>1, <2>1, <2>2, HandlingKeepsHeld
<1>10. CASE WriteFails(k)
  <2>1. /\ Head(down[k]).kind = "chunk" /\ Answer(k, Ack(t, FALSE))
        /\ rx' = [rx EXCEPT ![t] = "gone"]
    BY <1>0, <1>10 DEF WriteFails, Comes, EndRx
  <2>2. Ack(t, FALSE) \in Packets /\ Ack(t, FALSE).kind = "chunk" /\ ~Ack(t, FALSE).ok
    BY <1>4
  <2>3. \A s \in Sends : s # t => rx'[s] = rx[s]
    BY <1>2, <2>1
  <2> QED BY <1>0, <1>1, <2>1, <2>2, <2>3, HandlingKeepsHeld
<1>11. CASE OnComplete(k)
  <2>1. Head(down[k]).kind = "complete"
    BY <1>11 DEF OnComplete, Comes
  <2>2. rx[t] = "open"
    BY <1>0, <1>1, <2>1, Removed DEF Held
  <2>3. Answer(k, Done(t)) /\ rx' = [rx EXCEPT ![t] = "moving"]
    BY <1>0, <1>11, <2>2 DEF OnComplete
  <2>4. Done(t) \in Packets /\ Done(t).kind = "complete" /\ Done(t).send = t
    BY <1>4
  <2>5. rx'[t] = "moving" /\ \A s \in Sends : s # t => rx'[s] = rx[s]
    BY <1>2, <2>3
  <2> QED BY <1>0, <1>1, <2>3, <2>4, <2>5, HandlingKeepsHeld
<1> QED BY <1>5, <1>6, <1>7, <1>8, <1>9, <1>10, <1>11 DEF OnRequest, OnChunk

LEMMA ReceivedKeepsHeld ==
    ASSUME "unmoved" \notin Inputs, TypeOK, Content, Held, SuccessIsHeld, NoneLost,
           NEW k \in Skts, NEW t \in Sends, Move(k, t) \/ EndReceived(k, t)
    PROVE  Held' /\ SuccessIsHeld'
<1>1. /\ rx[t] \in {"moving", "ending"}
      /\ rx' = [rx EXCEPT ![t] = IF rx[t] = "moving" THEN "ending" ELSE "gone"]
      /\ UNCHANGED <<link, told, down, up>>
  BY DEF Move, EndReceived, EndRx, netVars, sendVars
<1>2. rx[t] = "moving" => final' # 0
  <2>1. ASSUME rx[t] = "moving"
        PROVE  final' # 0
    <3>1. Move(k, t) /\ partial # 0
      BY <2>1 DEF EndReceived, Content
    <3> QED BY <3>1 DEF Move
  <2> QED BY <2>1
<1>3. rx[t] = "ending" => final' = final
  BY DEF Move, EndReceived
<1>4. final # 0 => final' # 0
  BY <1>1, <1>2, <1>3
<1>5. \A q : /\ InDown(q)' <=> InDown(q)
             /\ InUp(q)' <=> InUp(q)
  BY <1>1 DEF InDown, InUp
<1>6. \A s : rx[s] = "open" /\ s \in Sends => rx'[s] = "open"
  BY <1>1 DEF TypeOK
<1>7. \A q : InDown(q) \/ InUp(q) => q.send \in Sends
  <2>1. ASSUME NEW q, InDown(q) \/ InUp(q)
        PROVE  q.send \in Sends
    <3>1. PICK j \in Skts : Among(down[j], q) \/ Among(up[j], q)
      BY <2>1 DEF InDown, InUp
    <3>2. down[j] \in Seq(Packets) /\ up[j] \in Seq(Packets)
      BY DEF TypeOK
    <3>3. q \in Packets
      BY <3>1, <3>2 DEF Among
    <3> QED BY <3>3 DEF Packets
  <2> QED BY <2>1
<1>8. \A s \in Sends : rx[s] = "moving" => rx'[s] = "moving" \/ final' # 0
  BY <1>1, <1>2 DEF TypeOK
<1>9. Held'
  <2>1. /\ \A q : InDown(q) /\ q.kind = "complete" => rx[q.send] = "open"
        /\ \A q : InUp(q) /\ q.kind = "chunk" /\ q.ok => rx[q.send] = "open"
        /\ \A q : InUp(q) /\ q.kind = "complete" => final # 0 \/ rx[q.send] = "moving"
    BY DEF Held
  <2> QED BY <1>4, <1>5, <1>6, <1>7, <1>8, <2>1 DEF Held
<1>10. told' = "success" =>
         final' # 0 \/ \E s \in Sends : rx'[s] = "moving" \/ InDown(Complete(s))'
  <2>1. told = "success" => final # 0 \/ \E s \in Sends : rx[s] = "moving" \/ InDown(Complete(s))
    BY HeldIsWay
  <2> QED BY <1>1, <1>4, <1>5, <1>8, <2>1 DEF Complete
<1>11. SuccessIsHeld'
  BY <1>10 DEF SuccessIsHeld, OnItsWay, InDown, Among, Complete
<1> QED BY <1>9, <1>11

LEMMA HeldStep ==
    ASSUME OneAtATime, "unmoved" \notin Inputs, TypeOK, StopAndWait, InTurn, Content,
           Held, SuccessIsHeld, [Next]_vars
    PROVE  Held' /\ SuccessIsHeld'
<1>1. CASE ~NoneLost'
  BY <1>1 DEF Held, SuccessIsHeld, NoneLost
<1>2. CASE NoneLost'
  <2>1. \/ link' = link
        \/ \E k \in Skts : Connect(k) \/ Drop(k)
    BY ZenonT(40) DEF Next, vars, netVars, Send, SenderStep, OnSendReply, OnChunkReply,
                ChunkIgnored, Canceled, AllSent, NextChunk, ReadFails, OnCompleteReply, SLost,
                ReceiverStep, OnRequest, OnChunk, OnComplete, RLost, Refuse, CannotReceive,
                Receive, ChunkUnknown, ChunkWritten, WriteFails, Move, EndReceived
  <2>2. NoneLost
    <3>1. CASE link' = link
      BY <1>2, <3>1 DEF NoneLost
    <3>2. ASSUME NEW k \in Skts, Connect(k) \/ Drop(k)
          PROVE  NoneLost
      BY <1>2, <3>2 DEF NoneLost, Connect, Drop, TypeOK
    <3> QED BY <2>1, <3>1, <3>2
  <2>3. CASE UNCHANGED <<down, up, rx, final, told>>
    <3>1. \A q : (InDown(q)' <=> InDown(q)) /\ (InUp(q)' <=> InUp(q))
      BY <2>3 DEF InDown, InUp
    <3>2. Held'
      BY <2>2, <2>3, <3>1 DEF Held
    <3>3. told = "success" =>
            final # 0 \/ \E s \in Sends : rx[s] = "moving" \/ InDown(Complete(s))
      BY <2>2, HeldIsWay
    <3>4. told' = "success" =>
            final' # 0 \/ \E s \in Sends : rx'[s] = "moving" \/ InDown(Complete(s))'
      BY <2>3, <3>1, <3>3 DEF Complete
    <3>5. SuccessIsHeld'
      BY <3>4 DEF SuccessIsHeld, OnItsWay, InDown, Among, Complete
    <3> QED BY <3>2, <3>5
  <2>4. CASE UNCHANGED vars
    BY <2>3, <2>4 DEF vars, sendVars, recvVars
  <2>5. ASSUME NEW k \in Skts, Connect(k) \/ Drop(k)
        PROVE  Held' /\ SuccessIsHeld'
    BY <2>3, <2>5 DEF Connect, Drop, sendVars, recvVars
  <2>6. ASSUME NEW k \in Skts, Send(k) \/ SenderStep(k)
        PROVE  Held' /\ SuccessIsHeld'
    BY <2>2, <2>6, SenderKeepsHeld
  <2>7. ASSUME NEW k \in Skts, RLost(k)
        PROVE  FALSE
    BY <2>2, <2>7 DEF RLost, NoneLost
  <2>8. ASSUME NEW k \in Skts, ReceiverStep(k)
        PROVE  Held' /\ SuccessIsHeld'
    BY <2>2, <2>7, <2>8, PacketsKeepHeld, ReceivedKeepsHeld DEF ReceiverStep
  <2> QED BY <2>4, <2>5, <2>6, <2>8 DEF Next
<1> QED BY <1>1, <1>2

(* As long as no connection is lost, the sender takes the file for sent    *)
(* (onAssetBaseSent, onAssetBaseReplySendComplete) only when the receiver  *)
(* has it, or has all of it and is told so: the reply to the last chunk is *)
(* an ok only from a session that is still there when the complete request *)
(* comes, and what this session then moves is there to be moved.           *)
THEOREM SuccessIsKept ==
    ASSUME OneAtATime, "unmoved" \notin Inputs
    PROVE  Spec => []SuccessIsHeld
<1>1. Init => TypeOK /\ StopAndWait /\ InTurn /\ Content /\ Finals
  BY StopAndWaitInit, WholeInit
<1>2. Init => Held /\ SuccessIsHeld
  <2>1. ASSUME Init
        PROVE  Held /\ SuccessIsHeld
    <3>1. \A k \in Skts : down[k] = <<>> /\ up[k] = <<>>
      BY <2>1 DEF Init
    <3>2. \A q : ~InDown(q) /\ ~InUp(q)
      BY <3>1 DEF InDown, InUp, Among
    <3>3. told # "success"
      BY <2>1 DEF Init
    <3> QED BY <3>2, <3>3 DEF Held, SuccessIsHeld
  <2> QED BY <2>1
<1>3. /\ TypeOK /\ StopAndWait /\ InTurn /\ Content /\ Finals /\ Held /\ SuccessIsHeld
      /\ [Next]_vars
      => /\ TypeOK' /\ StopAndWait' /\ InTurn' /\ Content' /\ Finals' /\ Held' /\ SuccessIsHeld'
  BY TypeStep, StopAndWaitStep, WholeStep, HeldStep
<1> QED BY <1>1, <1>2, <1>3, PTL DEF Spec

=============================================================================
