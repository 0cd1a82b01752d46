---------------------------- MODULE StaticProofs ----------------------------
(***************************************************************************)
(* Theorems about what the server makes of wg0.conf, for all files and     *)
(* faults: the memory of the list of peers, keys that do not decode, and   *)
(* the peers that the kernel is given.  The last one joins the types that  *)
(* the proofs about the daemon have established.                           *)
(***************************************************************************)
EXTENDS FileProofs

-----------------------------------------------------------------------------
(* The blocks of the list of peers *)

Pub == {NoPub} \cup {l.value : l \in StaticLines}
Peer == [pub : Pub, ips : Seq(Entry)]

(* The blocks of peer i, and the parts of the list they are. *)
BlocksOf(list, i) == {<<i, j>> : j \in 0 .. Len(list[i].ips)}

LEMMA ReachedBlock ==
    ASSUME NEW list
    PROVE  \A b : b \in Reached(list) <=> \E i \in 1 .. Len(list) : b \in BlocksOf(list, i)
BY DEF Reached, BlocksOf

(* A list with a peer more, and one whose last peer has some blocks more. *)
LEMMA ReachedNew ==
    ASSUME NEW list, NEW t, NEW m \in Nat, Len(list) = m, Len(t) = m + 1,
           \A i \in 1 .. m : BlocksOf(t, i) = BlocksOf(list, i)
    PROVE  Reached(t) = Reached(list) \cup BlocksOf(t, m + 1)
<1>1. \A i : i \in 1 .. m + 1 <=> i \in 1 .. m \/ i = m + 1
  OBVIOUS
<1>2. \A b : b \in Reached(t) <=> b \in Reached(list) \cup BlocksOf(t, m + 1)
  BY <1>1, ReachedBlock
<1>3. QED
  BY <1>2

LEMMA ReachedMore ==
    ASSUME NEW list, NEW t, NEW m \in Nat, Len(list) = m + 1, Len(t) = m + 1,
           \A i \in 1 .. m : BlocksOf(t, i) = BlocksOf(list, i),
           NEW added, BlocksOf(t, m + 1) = BlocksOf(list, m + 1) \cup added
    PROVE  Reached(t) = Reached(list) \cup added
<1>1. \A i : i \in 1 .. m + 1 <=> i \in 1 .. m \/ i = m + 1
  OBVIOUS
<1>2. \A b : b \in Reached(t) <=> b \in Reached(list) \cup added
  BY <1>1, ReachedBlock
<1>3. QED
  BY <1>2

LEMMA SameBlocks ==
    ASSUME NEW list, NEW t, NEW i, t[i].ips = list[i].ips
    PROVE  BlocksOf(t, i) = BlocksOf(list, i)
BY DEF BlocksOf

LEMMA PeerAdded ==
    ASSUME NEW list \in Seq(Peer)
    PROVE  /\ Append(list, NewPeer) \in Seq(Peer)
           /\ Append(list, NewPeer) # <<>>
           /\ Reached(Append(list, NewPeer)) = Reached(list) \cup {<<Len(list) + 1, 0>>}
<1> DEFINE t == Append(list, NewPeer)
           n == Len(list)
<1>1. NewPeer \in Peer /\ NewPeer.ips = <<>>
  BY DEF NewPeer, Peer, Pub
<1>2. /\ t \in Seq(Peer) /\ n \in Nat /\ Len(t) = n + 1 /\ t # <<>>
      /\ t[n + 1] = NewPeer /\ \A i \in 1 .. n : t[i] = list[i]
  BY <1>1
<1> HIDE DEF t, n
<1>3. BlocksOf(t, n + 1) = {<<n + 1, 0>>}
  <2>1. 0 .. Len(<<>>) = {0}
    OBVIOUS
  <2>2. QED
    BY <1>1, <1>2, <2>1 DEF BlocksOf
<1>4. \A i \in 1 .. n : BlocksOf(t, i) = BlocksOf(list, i)
  BY <1>2, SameBlocks
<1>5. Reached(t) = Reached(list) \cup {<<n + 1, 0>>}
  BY <1>2, <1>3, <1>4, ReachedNew DEF n
<1>6. QED
  BY <1>2, <1>5 DEF t, n

LEMMA KeyKept ==
    ASSUME NEW list \in Seq(Peer), list # <<>>, NEW k \in Pub
    PROVE  LET t == [list EXCEPT ![Len(list)].pub = k]
           IN t \in Seq(Peer) /\ t # <<>> /\ Reached(t) = Reached(list)
<1> DEFINE n == Len(list)
           t == [list EXCEPT ![n].pub = k]
<1>1. n \in Nat \ {0} /\ n \in 1 .. n /\ DOMAIN list = 1 .. n
  OBVIOUS
<1>2. list[n] \in Peer
  BY <1>1
<1>3. [list[n] EXCEPT !.pub = k] \in Peer
  BY <1>2 DEF Peer
<1>4. t = [i \in 1 .. n |-> IF i = n THEN [list[n] EXCEPT !.pub = k] ELSE list[i]]
  BY <1>1
<1>5. t \in Seq(Peer) /\ Len(t) = n
  BY <1>1, <1>3, <1>4
<1>6. \A i \in 1 .. n : t[i].ips = list[i].ips
  BY <1>2, <1>4 DEF Peer
<1> HIDE DEF t
<1>7. Reached(t) = Reached(list)
  BY <1>5, <1>6 DEF Reached
<1>8. t # <<>>
  BY <1>1, <1>5
<1>9. QED
  BY <1>5, <1>7, <1>8 DEF t

LEMMA AddressesAdded ==
    ASSUME NEW list \in Seq(Peer), list # <<>>, NEW p \in Seq(Entry)
    PROVE  LET n == Len(list)
               t == [list EXCEPT ![n].ips = @ \o p]
           IN /\ t \in Seq(Peer) /\ t # <<>>
              /\ Reached(t) = Reached(list)
                    \cup {<<n, Len(list[n].ips) + j>> : j \in 1 .. Len(p)}
<1> DEFINE n == Len(list)
           q == list[n].ips
           t == [list EXCEPT ![n].ips = @ \o p]
<1>1. n \in Nat \ {0} /\ n \in 1 .. n /\ DOMAIN list = 1 .. n
  OBVIOUS
<1>2. list[n] \in Peer
  BY <1>1
<1>3. q \in Seq(Entry)
  BY <1>2 DEF Peer
<1>4. q \o p \in Seq(Entry) /\ Len(q \o p) = Len(q) + Len(p) /\ Len(q) \in Nat /\ Len(p) \in Nat
  BY <1>3
<1>5. [list[n] EXCEPT !.ips = q \o p] \in Peer
  BY <1>2, <1>4 DEF Peer
<1>6. t = [i \in 1 .. n |-> IF i = n THEN [list[n] EXCEPT !.ips = q \o p] ELSE list[i]]
  BY <1>1
<1>7. t \in Seq(Peer) /\ Len(t) = n
  BY <1>1, <1>5, <1>6
<1>8. t[n].ips = q \o p /\ \A i \in 1 .. n - 1 : t[i].ips = list[i].ips
  BY <1>1, <1>2, <1>6 DEF Peer
<1> DEFINE added == {<<n, Len(q) + j>> : j \in 1 .. Len(p)}
<1>9. BlocksOf(t, n) = BlocksOf(list, n) \cup added
  <2> DEFINE a == Len(q)
             b == Len(p)
  <2>1. a \in Nat /\ b \in Nat
    BY <1>4
  <2>2. BlocksOf(t, n) = {<<n, j>> : j \in 0 .. a + b}
    BY <1>4, <1>8 DEF BlocksOf
  <2>3. BlocksOf(list, n) = {<<n, j>> : j \in 0 .. a}
    BY DEF BlocksOf
  <2> HIDE DEF a, b
  <2>4. \A x \in 0 .. a + b : x \in 0 .. a \/ (x - a \in 1 .. b /\ x = a + (x - a))
    BY <2>1
  <2>5. \A x \in 0 .. a : x \in 0 .. a + b
    BY <2>1
  <2>6. \A j \in 1 .. b : a + j \in 0 .. a + b
    BY <2>1
  <2>7. 0 .. a + b = (0 .. a) \cup {a + j : j \in 1 .. b}
    BY <2>4, <2>5, <2>6
  <2>8. added = {<<n, a + j>> : j \in 1 .. b}
    BY DEF a, b
  <2> HIDE DEF n, added
  <2>9. QED
    BY <2>2, <2>3, <2>7, <2>8
<1> HIDE DEF t, added, q
<1>10. n - 1 \in Nat /\ (n - 1) + 1 = n
  BY <1>1
<1> HIDE DEF n
<1>11. \A i \in 1 .. n - 1 : BlocksOf(t, i) = BlocksOf(list, i)
  BY <1>8, SameBlocks
<1>12. Reached(t) = Reached(list) \cup added
  <2> DEFINE m == n - 1
  <2>1. m \in Nat /\ m + 1 = n /\ Len(list) = m + 1 /\ Len(t) = m + 1
    BY <1>7, <1>10 DEF n
  <2>2. \A i \in 1 .. m : BlocksOf(t, i) = BlocksOf(list, i)
    BY <1>11
  <2> HIDE DEF m
  <2>3. BlocksOf(t, m + 1) = BlocksOf(list, m + 1) \cup added
    BY <1>9, <2>1
  <2>4. QED
    BY <2>1, <2>2, <2>3, ReachedMore
<1>13. t # <<>>
  BY <1>1, <1>7
<1>14. QED
  BY <1>7, <1>12, <1>13 DEF t, n, q, added

-----------------------------------------------------------------------------
(* wg0.conf *)

(* While the file is open the blocks are those of the list; before it is   *)
(* opened there are none, and afterwards only those of one way out.        *)
StaticAt ==
    /\ part \in {"closed", "none", "interface", "peer"}
    /\ peers \in Seq(Peer)
    /\ part = "peer" => peers # <<>>
    /\ part # "closed" => phase = "parse" /\ blocks = Reached(peers)
    /\ phase \in {"off", "config", "db", "pool", "static"} => blocks = {} /\ peers = <<>>
    /\ address \in {"none", "good", "bad"}
    /\ device.given \in BOOLEAN /\ device.up \in BOOLEAN
    /\ LeakOnlyByBadAddress

LEMMA NothingReached == <<>> \in Seq(Peer) /\ Reached(<<>>) = {}
BY DEF Reached

LEMMA CleanupStep ==
    ASSUME StaticAt, part # "closed", Cleanup, phase' = phase,
           device'.given \in BOOLEAN, device'.up \in BOOLEAN
    PROVE  StaticAt'
<1>1. blocks' = {}
  BY DEF StaticAt, Cleanup
<1>2. QED
  BY <1>1 DEF StaticAt, Cleanup, LeakOnlyByBadAddress

LEMMA StaticLineStep ==
    ASSUME StaticAt, NEW l \in StaticLines, StaticLine(l), phase' = phase
    PROVE  StaticAt'
<1>1. part # "closed" /\ part' = part /\ device' = device
  BY DEF StaticLine
<1>2. phase = "parse" /\ blocks = Reached(peers) /\ peers \in Seq(Peer)
  BY <1>1 DEF StaticAt
<1>3. address' \in {"none", "good", "bad"}
  BY StaticAssumption DEF StaticLine, StaticAt
<1>4. /\ peers' \in Seq(Peer) /\ blocks' = Reached(peers')
      /\ part = "peer" => peers' # <<>>
  <2>1. CASE Counts(l) /\ l.kind = "public"
    <3>1. part = "peer" /\ peers # <<>>
      BY <1>1, <2>1 DEF Counts, LinesOf, StaticAt
    <3>2. l.value \in Pub
      BY DEF Pub
    <3>3. peers' = [peers EXCEPT ![Len(peers)].pub = l.value] /\ blocks' = blocks
      BY <2>1 DEF StaticLine
    <3>4. QED
      BY <1>2, <3>1, <3>2, <3>3, KeyKept
  <2>2. CASE Counts(l) /\ l.kind = "ips"
    <3>1. part = "peer" /\ peers # <<>>
      BY <1>1, <2>2 DEF Counts, LinesOf, StaticAt
    <3>2. Parsed(l) \in Seq(Entry)
      BY <2>2, StaticAssumption
    <3>3. /\ peers' = [peers EXCEPT ![Len(peers)].ips = @ \o Parsed(l)]
          /\ blocks' = blocks \cup {<<Len(peers), Len(peers[Len(peers)].ips) + j>> :
                                          j \in 1 .. Len(Parsed(l))}
      BY <2>2 DEF StaticLine
    <3>4. QED
      BY <1>2, <3>1, <3>2, <3>3, AddressesAdded
  <2>3. CASE ~ Counts(l) \/ l.kind \notin {"public", "ips"}
    <3>1. peers' = peers /\ blocks' = blocks
      BY <2>3 DEF StaticLine
    <3>2. QED
      BY <1>2, <3>1 DEF StaticAt
  <2>4. QED
    BY <2>1, <2>2, <2>3
<1>5. QED
  BY <1>1, <1>2, <1>3, <1>4 DEF StaticAt, LeakOnlyByBadAddress

LEMMA StaticHeaderStep ==
    ASSUME StaticAt, NEW l, StaticHeader(l), phase' = phase
    PROVE  StaticAt'
<1>1. part # "closed" /\ UNCHANGED <<address, device>>
  BY DEF StaticHeader
<1>2. phase = "parse" /\ blocks = Reached(peers) /\ peers \in Seq(Peer)
  BY <1>1 DEF StaticAt
<1>3. CASE l.value = "peer"
  <2>1. /\ part' = "peer" /\ peers' = Append(peers, NewPeer)
        /\ blocks' = blocks \cup {<<Len(peers) + 1, 0>>}
    BY <1>3 DEF StaticHeader
  <2>2. peers' \in Seq(Peer) /\ peers' # <<>> /\ blocks' = Reached(peers')
    BY <1>2, <2>1, PeerAdded
  <2>3. QED
    BY <1>1, <1>2, <2>1, <2>2 DEF StaticAt, LeakOnlyByBadAddress
<1>4. CASE l.value # "peer"
  <2>1. part' \in {"interface", part} /\ UNCHANGED <<peers, blocks>>
    BY <1>4 DEF StaticHeader
  <2>2. QED
    BY <1>1, <1>2, <2>1 DEF StaticAt, LeakOnlyByBadAddress
<1>5. QED
  BY <1>3, <1>4

LEMMA StaticStep == StaticAt /\ [Next]_vars => StaticAt'
<1> SUFFICES ASSUME StaticAt, [Next]_vars PROVE StaticAt'
  OBVIOUS
<1>1. CASE UNCHANGED <<phase, static>>
  BY <1>1 DEF StaticAt, static, LeakOnlyByBadAddress
<1>2. CASE /\ UNCHANGED static /\ phase # "parse"
           /\ \/ phase \in {"off", "config", "db", "pool", "static"}
              \/ phase' \notin {"off", "config", "db", "pool", "static"}
  BY <1>2 DEF StaticAt, static, LeakOnlyByBadAddress
<1>3. CASE OpenStatic
  <2>1. CASE StaticOpen /\ phase' = "parse"
    BY <1>3, <2>1, NothingReached DEF OpenStatic, StaticOpen, StaticAt, LeakOnlyByBadAddress
  <2>2. QED
    BY <1>2, <1>3, <2>1 DEF OpenStatic
<1>4. CASE ReadStatic
  <2>1. PICK l \in StaticLines : StaticRead(l)
    BY <1>4 DEF ReadStatic
  <2>2. phase' = phase
    BY <1>4 DEF ReadStatic
  <2>3. CASE StaticBadKey(l) \/ StaticOom(l)
    BY <2>2, <2>3, CleanupStep DEF StaticBadKey, StaticOom, StaticAt
  <2>4. QED
    BY <2>1, <2>2, <2>3, StaticHeaderStep, StaticLineStep DEF StaticRead
<1>5. CASE EndStatic
  <2>1. part # "closed" /\ phase' = phase
    BY <1>5 DEF EndStatic, StaticEnd, main
  <2>2. CASE Cleanup
    <3>1. \A b \in {TRUE} \cup {"command" \notin StaticFaults} : b \in BOOLEAN
      BY Zenon
    <3>2. \/ device' = device
          \/ \E b \in BOOLEAN : device' = [given |-> TRUE, peers |-> peers, up |-> b]
      BY <1>5, <3>1 DEF EndStatic, StaticEnd
    <3>3. device'.given \in BOOLEAN /\ device'.up \in BOOLEAN
      <4>1. CASE device' = device
        BY <4>1 DEF StaticAt
      <4>2. ASSUME NEW b \in BOOLEAN, device' = [given |-> TRUE, peers |-> peers, up |-> b]
            PROVE  device'.given \in BOOLEAN /\ device'.up \in BOOLEAN
        <5>1. device'.given = TRUE /\ device'.up = b
          BY <4>2
        <5>2. QED
          BY <5>1, Zenon
      <4>3. QED
        BY <3>2, <4>1, <4>2
    <3>4. QED
      BY <2>1, <2>2, <3>3, CleanupStep
  <2>3. CASE /\ address = "bad"
             /\ device' = [given |-> TRUE, peers |-> peers, up |-> FALSE]
             /\ part' = "closed"
             /\ UNCHANGED <<peers, blocks, address>>
    BY <2>1, <2>3 DEF StaticAt, LeakOnlyByBadAddress
  <2>4. QED
    BY <1>5, <2>2, <2>3 DEF EndStatic, StaticEnd
<1>6. CASE StaticLoaded
  BY <1>6, NothingReached DEF StaticLoaded, StaticAt, LeakOnlyByBadAddress
<1>7. QED
  BY <1>1, <1>2, <1>3, <1>4, <1>5, <1>6 DEF Next, vars, Start, StartStep, Stop, Ask, Client,
     Server, Network, startup, main, OpenConfig, ReadConfig, CloseConfig, DbInit, PoolInit,
     ApiStart, ReaperStart, ReaperStop, DbClose, PoolDestroy, ApiStop

LEMMA StaticInvariant == Spec => []StaticAt
<1>1. Init => StaticAt
  BY NothingReached DEF Init, StartupInit, StaticInit, Untouched, StaticAt, LeakOnlyByBadAddress
<1>2. QED
  BY <1>1, StaticStep, PTL DEF Spec

(* However many peers and addresses wg0.conf has, and whatever fails while *)
(* it is read: no block of the list is lost but by the return for a bad    *)
(* Address.                                                                *)
THEOREM LeaksOneWay == Spec => []LeakOnlyByBadAddress
<1>1. StaticAt => LeakOnlyByBadAddress
  BY DEF StaticAt
<1>2. QED
  BY <1>1, StaticInvariant, PTL

-----------------------------------------------------------------------------
(* Keys that do not decode *)

KnownHeads(ls, i) == {j \in 1 .. i - 1 : Known(ls[j])}

(* The section that the line after ls stands in. *)
PartAfter(ls) == LET h == KnownBefore(ls, Len(ls) + 1)
                 IN IF h = 0 THEN "none" ELSE ls[h].value

LEMMA ConfLineAdded ==
    ASSUME NEW ls \in Seq(StaticLines), NEW l \in StaticLines
    PROVE  /\ Append(ls, l) \in Seq(StaticLines)
           /\ Len(ls) \in Nat /\ DOMAIN ls = 1 .. Len(ls)
           /\ Len(Append(ls, l)) = Len(ls) + 1
           /\ DOMAIN Append(ls, l) = 1 .. Len(ls) + 1
           /\ \A i \in 1 .. Len(ls) : Append(ls, l)[i] = ls[i]
           /\ Append(ls, l)[Len(ls) + 1] = l
OBVIOUS

LEMMA KnownBeforeIs ==
    ASSUME NEW ls, NEW n \in Nat
    PROVE  /\ KnownHeads(ls, n + 1) \in SUBSET (1 .. n)
           /\ KnownBefore(ls, n + 1) =
                 IF KnownHeads(ls, n + 1) = {} THEN 0 ELSE Max(KnownHeads(ls, n + 1))
           /\ KnownBefore(ls, n + 1) # 0 =>
                 KnownBefore(ls, n + 1) \in 1 .. n /\ Known(ls[KnownBefore(ls, n + 1)])
<1>1. (n + 1) - 1 = n
  OBVIOUS
<1>2. KnownHeads(ls, n + 1) \in SUBSET (1 .. n)
  BY <1>1 DEF KnownHeads
<1>3. KnownBefore(ls, n + 1) =
          IF KnownHeads(ls, n + 1) = {} THEN 0 ELSE Max(KnownHeads(ls, n + 1))
  BY DEF KnownBefore, KnownHeads
<1>4. KnownHeads(ls, n + 1) # {} => Max(KnownHeads(ls, n + 1)) \in KnownHeads(ls, n + 1)
  BY <1>2, GreatestExists
<1>5. QED
  BY <1>2, <1>3, <1>4 DEF KnownHeads

LEMMA KnownKept ==
    ASSUME NEW ls \in Seq(StaticLines), NEW l \in StaticLines, NEW m \in 0 .. Len(ls)
    PROVE  KnownBefore(Append(ls, l), m + 1) = KnownBefore(ls, m + 1)
<1> DEFINE t == Append(ls, l)
<1>1. Len(ls) \in Nat /\ \A j \in 1 .. Len(ls) : t[j] = ls[j]
  BY ConfLineAdded
<1> HIDE DEF t
<1>2. m \in Nat /\ (m + 1) - 1 = m /\ 1 .. m \subseteq 1 .. Len(ls)
  BY <1>1
<1>3. KnownHeads(t, m + 1) = KnownHeads(ls, m + 1)
  BY <1>1, <1>2 DEF KnownHeads
<1>4. QED
  BY <1>2, <1>3, KnownBeforeIs DEF t

(* A line spoils the file, or does not, for good. *)
LEMMA SpoilsKept ==
    ASSUME NEW ls \in Seq(StaticLines), NEW l \in StaticLines, NEW i \in 1 .. Len(ls)
    PROVE  Spoils(Append(ls, l), i) <=> Spoils(ls, i)
<1> DEFINE t == Append(ls, l)
           m == i - 1
<1>1. Len(ls) \in Nat /\ \A j \in 1 .. Len(ls) : t[j] = ls[j]
  BY ConfLineAdded
<1>2. m \in 0 .. Len(ls) /\ m \in Nat /\ m + 1 = i /\ 1 .. m \subseteq 1 .. Len(ls)
  BY <1>1
<1> HIDE DEF m
<1>3. KnownBefore(t, m + 1) = KnownBefore(ls, m + 1)
  BY <1>2, KnownKept
<1>4. KnownBefore(ls, m + 1) # 0 => KnownBefore(ls, m + 1) \in 1 .. m
  BY <1>2, KnownBeforeIs
<1> HIDE DEF t
<1>5. KnownBefore(ls, i) # 0 => t[KnownBefore(ls, i)] = ls[KnownBefore(ls, i)]
  BY <1>1, <1>2, <1>4
<1>6. KnownBefore(t, i) = KnownBefore(ls, i) /\ t[i] = ls[i]
  BY <1>1, <1>2, <1>3
<1>7. QED
  BY <1>5, <1>6 DEF Spoils, t

(* The new line spoils it when it is a bad key where its section looks for *)
(* one.                                                                    *)
LEMMA SpoilsNext ==
    ASSUME NEW ls \in Seq(StaticLines), NEW l \in StaticLines, part = PartAfter(ls),
           Spoils(Append(ls, l), Len(ls) + 1)
    PROVE  BadKey(l)
<1> DEFINE t == Append(ls, l)
           n == Len(ls)
           h == KnownBefore(ls, n + 1)
<1>1. n \in Nat /\ t[n + 1] = l /\ \A j \in 1 .. n : t[j] = ls[j]
  BY ConfLineAdded
<1>2. KnownBefore(t, n + 1) = h
  <2>1. n \in 0 .. n
    BY <1>1
  <2>2. QED
    BY <2>1, KnownKept
<1>3. h # 0 => h \in 1 .. n /\ Known(ls[h])
  BY <1>1, KnownBeforeIs
<1> HIDE DEF t, n, h
<1>4. /\ l.kind \in {"private", "public", "psk"} /\ l.value = "bad" /\ h # 0
      /\ l.kind = "private" <=> t[h].value = "interface"
  BY <1>1, <1>2 DEF Spoils, t, n
<1>5. t[h] = ls[h] /\ Known(ls[h])
  BY <1>1, <1>3, <1>4
<1>6. part = ls[h].value /\ part \in {"interface", "peer"}
  BY <1>4, <1>5 DEF PartAfter, Known, h, n
<1>7. QED
  BY <1>4, <1>5, <1>6 DEF BadKey, Counts, LinesOf

LEMMA PartNext ==
    ASSUME NEW ls \in Seq(StaticLines), NEW l \in StaticLines
    PROVE  PartAfter(Append(ls, l)) = IF Known(l) THEN l.value ELSE PartAfter(ls)
<1> DEFINE t == Append(ls, l)
           n == Len(ls)
<1>1. n \in Nat /\ Len(t) = n + 1 /\ t[n + 1] = l /\ \A j \in 1 .. n : t[j] = ls[j]
  BY ConfLineAdded
<1> HIDE DEF t, n
<1> DEFINE hs == KnownHeads(t, n + 2)
<1>2. 1 .. (n + 2) - 1 = (1 .. n) \cup {n + 1} /\ 1 .. (n + 1) - 1 = 1 .. n
      /\ n + 1 \in Nat /\ (n + 1) + 1 = n + 2
  BY <1>1
<1>3. hs = KnownHeads(ls, n + 1) \cup (IF Known(l) THEN {n + 1} ELSE {})
  BY <1>1, <1>2 DEF KnownHeads
<1>4. /\ hs \in SUBSET (1 .. n + 1)
      /\ KnownBefore(t, n + 2) = IF hs = {} THEN 0 ELSE Max(hs)
  BY <1>2, KnownBeforeIs
<1> HIDE DEF hs
<1>5. PartAfter(t) = IF KnownBefore(t, n + 2) = 0 THEN "none" ELSE t[KnownBefore(t, n + 2)].value
  BY <1>1, <1>2 DEF PartAfter
<1>6. PartAfter(ls) = IF KnownBefore(ls, n + 1) = 0 THEN "none" ELSE ls[KnownBefore(ls, n + 1)].value
  BY DEF PartAfter, n
<1>7. CASE Known(l)
  <2>1. n + 1 \in hs
    BY <1>3, <1>7
  <2>2. Max(hs) = n + 1
    BY <1>1, <1>4, <2>1, GreatestIsLast
  <2>3. KnownBefore(t, n + 2) = n + 1 /\ n + 1 # 0
    BY <1>1, <1>4, <2>1, <2>2
  <2>4. QED
    BY <1>1, <1>5, <1>7, <2>3 DEF t
<1>8. CASE ~ Known(l)
  <2>1. KnownBefore(t, n + 2) = KnownBefore(ls, n + 1)
    BY <1>1, <1>3, <1>4, <1>8, KnownBeforeIs
  <2>2. KnownBefore(ls, n + 1) # 0 =>
            t[KnownBefore(ls, n + 1)] = ls[KnownBefore(ls, n + 1)]
    BY <1>1, KnownBeforeIs
  <2>3. QED
    BY <1>5, <1>6, <1>8, <2>1, <2>2 DEF t
<1>9. QED
  BY <1>7, <1>8

Clean(ls) == \A i \in DOMAIN ls : ~ Spoils(ls, i)

(* While the file is open no line so far spoils it, and the device has not *)
(* been touched.                                                           *)
CleanAt ==
    /\ phase \in {"off", "config", "db", "pool", "static"} =>
           part = "closed" /\ confLines = <<>> /\ ~ device.given
    /\ part # "closed" => /\ phase = "parse" /\ ~ device.given
                          /\ confLines \in Seq(StaticLines)
                          /\ part = PartAfter(confLines)
                          /\ Clean(confLines)
    /\ SpoiltNotApplied

LEMMA CleanStep == CleanAt /\ [Next]_vars => CleanAt'
<1> SUFFICES ASSUME CleanAt, [Next]_vars PROVE CleanAt'
  OBVIOUS
<1>1. CASE UNCHANGED <<phase, static>>
  BY <1>1 DEF CleanAt, Clean, static, SpoiltNotApplied
<1>2. CASE /\ UNCHANGED static /\ phase # "parse" /\ phase' # "parse"
           /\ \/ phase \in {"off", "config", "db", "pool", "static"}
              \/ phase' \notin {"off", "config", "db", "pool", "static"}
  BY <1>2 DEF CleanAt, static, SpoiltNotApplied
<1>3. CASE OpenStatic
  <2>1. CASE StaticOpen /\ phase' = "parse"
    <3>1. /\ part' = "none" /\ confLines' = <<>> /\ ~ device'.given
      BY <1>3, <2>1 DEF OpenStatic, StaticOpen, CleanAt
    <3>2. PartAfter(<<>>) = "none" /\ Clean(<<>>) /\ <<>> \in Seq(StaticLines)
      <4>1. KnownHeads(<<>>, 0 + 1) = {}
        BY 1 .. ((0 + 1) - 1) = {} DEF KnownHeads
      <4>2. KnownBefore(<<>>, 0 + 1) = 0
        BY <4>1, KnownBeforeIs
      <4>3. Len(<<>>) + 1 = 0 + 1
        OBVIOUS
      <4>4. PartAfter(<<>>) = "none"
        BY <4>2, <4>3 DEF PartAfter
      <4>5. \A i \in DOMAIN <<>> : FALSE
        OBVIOUS
      <4>6. Clean(<<>>)
        BY <4>5 DEF Clean
      <4>7. <<>> \in Seq(StaticLines)
        OBVIOUS
      <4>8. QED
        BY <4>4, <4>6, <4>7
    <3>3. QED
      BY <2>1, <3>1, <3>2 DEF CleanAt, SpoiltNotApplied
  <2>2. QED
    BY <1>2, <1>3, <2>1 DEF OpenStatic
<1>4. CASE ReadStatic
  <2>1. PICK l \in StaticLines : StaticRead(l)
    BY <1>4 DEF ReadStatic
  <2>2. /\ phase' = phase /\ phase = "parse" /\ device' = device /\ part # "closed"
        /\ confLines' = Append(confLines, l)
    BY <1>4, <2>1 DEF ReadStatic, StaticRead, StaticHeader, StaticLine, StaticBadKey, StaticOom
  <2>3. ~ device'.given
    BY <2>2 DEF CleanAt
  <2>4. CASE part' = "closed"
    BY <2>2, <2>3, <2>4 DEF CleanAt, SpoiltNotApplied
  <2>5. CASE part' # "closed"
    <3>1. confLines \in Seq(StaticLines) /\ part = PartAfter(confLines) /\ Clean(confLines)
      BY <2>2 DEF CleanAt
    <3>2. StaticHeader(l) \/ StaticLine(l)
      BY <2>1, <2>5 DEF StaticRead, StaticBadKey, StaticOom, Cleanup
    <3>3. part' = PartAfter(confLines') /\ ~ BadKey(l)
      <4>1. PartAfter(confLines') = IF Known(l) THEN l.value ELSE part
        BY <2>2, <3>1, PartNext
      <4>2. CASE StaticHeader(l)
        BY <4>1, <4>2 DEF StaticHeader, Known, BadKey
      <4>3. CASE StaticLine(l)
        BY <4>1, <4>3 DEF StaticLine, Known
      <4>4. QED
        BY <3>2, <4>2, <4>3
    <3>4. Clean(confLines')
      <4>1. ASSUME NEW i \in DOMAIN confLines' PROVE ~ Spoils(confLines', i)
        <5>1. i \in 1 .. Len(confLines) + 1 /\ Len(confLines) \in Nat
          BY <2>2, <3>1, <4>1, ConfLineAdded
        <5>2. CASE i \in 1 .. Len(confLines)
          BY <2>2, <3>1, <5>2, SpoilsKept, ConfLineAdded DEF Clean
        <5>3. CASE i = Len(confLines) + 1
          BY <2>2, <3>1, <3>3, <5>3, SpoilsNext
        <5>4. QED
          BY <5>1, <5>2, <5>3
      <4>2. QED
        BY <4>1 DEF Clean
    <3>5. confLines' \in Seq(StaticLines)
      BY <2>2, <3>1, ConfLineAdded
    <3>6. QED
      BY <2>2, <2>3, <3>3, <3>4, <3>5 DEF CleanAt, SpoiltNotApplied
  <2>6. QED
    BY <2>4, <2>5
<1>5. CASE EndStatic
  <2>1. /\ part # "closed" /\ part' = "closed" /\ phase' = phase /\ phase = "parse"
        /\ confLines' = confLines
    BY <1>5 DEF EndStatic, StaticEnd, Cleanup, main
  <2>2. Clean(confLines)
    BY <2>1 DEF CleanAt
  <2>3. QED
    BY <2>1, <2>2 DEF CleanAt, SpoiltNotApplied, Clean
<1>6. CASE StaticLoaded
  BY <1>6 DEF StaticLoaded, CleanAt, SpoiltNotApplied
<1>7. QED
  BY <1>1, <1>2, <1>3, <1>4, <1>5, <1>6 DEF Next, vars, Start, StartStep, Stop, Ask, Client,
     Server, Network, startup, main, OpenConfig, ReadConfig, CloseConfig, DbInit, PoolInit,
     ApiStart, ReaperStart, ReaperStop, DbClose, PoolDestroy, ApiStop

LEMMA CleanInvariant == Spec => []CleanAt
<1>1. Init => CleanAt
  BY DEF Init, StartupInit, StaticInit, Untouched, CleanAt, SpoiltNotApplied
<1>2. QED
  BY <1>1, CleanStep, PTL DEF Spec

(* However long wg0.conf is: one key that does not decode, anywhere in it, *)
(* leaves the device alone.                                                *)
THEOREM SpoiltLeftAlone == Spec => []SpoiltNotApplied
<1>1. CleanAt => SpoiltNotApplied
  BY DEF CleanAt
<1>2. QED
  BY <1>1, CleanInvariant, PTL

-----------------------------------------------------------------------------
(* The peers of wg0.conf *)

(* The addresses on line m. *)
On(ls, m) == {m} \X DOMAIN Parsed(ls[m])

(* A line does not change the section of those up to it. *)
LEMMA SectionOfLine ==
    ASSUME NEW ls \in Seq(StaticLines), NEW l \in StaticLines, NEW i \in 1 .. Len(ls) + 1
    PROVE  KnownBefore(Append(ls, l), i) = KnownBefore(ls, i) /\ KnownBefore(ls, i) \in 0 .. i - 1
<1>1. PICK m \in 0 .. Len(ls) : i = m + 1
  <2>1. Len(ls) \in Nat
    OBVIOUS
  <2>2. i - 1 \in 0 .. Len(ls) /\ i = (i - 1) + 1
    BY <2>1
  <2>3. QED
    BY <2>2
<1>2. m \in Nat /\ i - 1 = m
  BY <1>1
<1>3. KnownBefore(ls, m + 1) \in 0 .. m
  <2>1. KnownBefore(ls, m + 1) # 0 => KnownBefore(ls, m + 1) \in 1 .. m
    BY <1>2, KnownBeforeIs
  <2>2. QED
    BY <1>2, <2>1
<1>4. KnownBefore(Append(ls, l), m + 1) = KnownBefore(ls, m + 1)
  BY KnownKept
<1> DEFINE t == Append(ls, l)
<1> HIDE DEF t
<1>5. KnownBefore(t, i) = KnownBefore(ls, i) /\ KnownBefore(ls, i) \in 0 .. i - 1
  BY <1>1, <1>2, <1>3, <1>4 DEF t
<1>6. QED
  BY <1>5 DEF t

LEMMA HeadsNext ==
    ASSUME NEW ls \in Seq(StaticLines), NEW l \in StaticLines
    PROVE  /\ PeerHeads(ls) \in SUBSET (1 .. Len(ls))
           /\ PeerHeads(Append(ls, l)) = PeerHeads(ls) \cup
                 (IF l.kind = "header" /\ l.value = "peer" THEN {Len(ls) + 1} ELSE {})
<1> DEFINE t == Append(ls, l)
           n == Len(ls)
<1>1. /\ n \in Nat /\ t[n + 1] = l /\ \A j \in 1 .. n : t[j] = ls[j]
      /\ DOMAIN ls = 1 .. n /\ DOMAIN t = 1 .. n + 1
  BY ConfLineAdded
<1> HIDE DEF t, n
<1>2. 1 .. n + 1 = (1 .. n) \cup {n + 1}
  BY <1>1
<1>3. QED
  BY <1>1, <1>2 DEF PeerHeads, t, n

(* The new line joins those of the section that it stands in. *)
LEMMA LinesNext ==
    ASSUME NEW ls \in Seq(StaticLines), NEW l \in StaticLines, NEW h, NEW kind
    PROVE  /\ LinesFrom(ls, h, kind) \in SUBSET (1 .. Len(ls))
           /\ LinesFrom(Append(ls, l), h, kind) = LinesFrom(ls, h, kind) \cup
                 (IF l.kind = kind /\ KnownBefore(ls, Len(ls) + 1) = h THEN {Len(ls) + 1} ELSE {})
<1> DEFINE t == Append(ls, l)
           n == Len(ls)
<1>1. /\ n \in Nat /\ t[n + 1] = l /\ \A j \in 1 .. n : t[j] = ls[j]
      /\ DOMAIN ls = 1 .. n /\ DOMAIN t = 1 .. n + 1
  BY ConfLineAdded
<1>2. \A i \in 1 .. n + 1 : KnownBefore(t, i) = KnownBefore(ls, i)
  BY SectionOfLine
<1> HIDE DEF t, n
<1>3. 1 .. n + 1 = (1 .. n) \cup {n + 1}
  BY <1>1
<1>4. QED
  BY <1>1, <1>2, <1>3 DEF LinesFrom, t, n

LEMMA AddressIs ==
    ASSUME NEW ls, NEW h, NEW i, NEW e
    PROVE  e \in AddressesBefore(ls, h, i) <=>
               \E m \in LinesFrom(ls, h, "ips") : m < i /\ e \in On(ls, m)
BY DEF AddressesBefore, On

LEMMA AddressesKept ==
    ASSUME NEW ls \in Seq(StaticLines), NEW l \in StaticLines, NEW h,
           NEW i \in 1 .. Len(ls) + 1
    PROVE  AddressesBefore(Append(ls, l), h, i) = AddressesBefore(ls, h, i)
<1> DEFINE t == Append(ls, l)
           n == Len(ls)
<1>1. n \in Nat /\ \A j \in 1 .. n : t[j] = ls[j]
  BY ConfLineAdded
<1>2. /\ LinesFrom(ls, h, "ips") \in SUBSET (1 .. n)
      /\ LinesFrom(t, h, "ips") \in SUBSET (LinesFrom(ls, h, "ips") \cup {n + 1})
      /\ LinesFrom(ls, h, "ips") \subseteq LinesFrom(t, h, "ips")
  BY LinesNext
<1>3. i \in 1 .. n + 1
  OBVIOUS
<1> HIDE DEF t, n
<1>4. {k \in LinesFrom(t, h, "ips") : k < i} = {k \in LinesFrom(ls, h, "ips") : k < i}
  BY <1>1, <1>2, <1>3
<1>5. \A m \in LinesFrom(ls, h, "ips") : On(t, m) = On(ls, m)
  BY <1>1, <1>2 DEF On
<1>6. \A e : e \in AddressesBefore(t, h, i) <=> e \in AddressesBefore(ls, h, i)
  BY <1>4, <1>5, AddressIs
<1>7. QED
  BY <1>6 DEF t

LEMMA AddressesNext ==
    ASSUME NEW ls \in Seq(StaticLines), NEW l \in StaticLines, NEW h
    PROVE  /\ AddressesBefore(Append(ls, l), h, Len(ls) + 2) =
                  AddressesBefore(ls, h, Len(ls) + 1) \cup
                     (IF l.kind = "ips" /\ KnownBefore(ls, Len(ls) + 1) = h
                      THEN {Len(ls) + 1} \X DOMAIN Parsed(l) ELSE {})
           /\ \A e \in AddressesBefore(ls, h, Len(ls) + 1) : e[1] # Len(ls) + 1
<1> DEFINE t == Append(ls, l)
           n == Len(ls)
           Counted1 == l.kind = "ips" /\ KnownBefore(ls, n + 1) = h
<1>1. n \in Nat /\ t[n + 1] = l /\ \A j \in 1 .. n : t[j] = ls[j]
  BY ConfLineAdded
<1>2. /\ LinesFrom(ls, h, "ips") \in SUBSET (1 .. n)
      /\ LinesFrom(t, h, "ips") = LinesFrom(ls, h, "ips") \cup (IF Counted1 THEN {n + 1} ELSE {})
  BY LinesNext
<1> HIDE DEF t, n, Counted1
<1>3. \A m \in LinesFrom(ls, h, "ips") : On(t, m) = On(ls, m) /\ m < n + 1 /\ m < n + 2
  BY <1>1, <1>2 DEF On
<1>4. On(t, n + 1) = {n + 1} \X DOMAIN Parsed(l) /\ n + 1 < n + 2
  BY <1>1 DEF On
<1>5. \A e : e \in AddressesBefore(t, h, n + 2) <=>
                 \/ e \in AddressesBefore(ls, h, n + 1)
                 \/ Counted1 /\ e \in {n + 1} \X DOMAIN Parsed(l)
  <2>1. CASE Counted1
    BY <1>2, <1>3, <1>4, <2>1, AddressIs
  <2>2. CASE ~ Counted1
    BY <1>2, <1>3, <2>2, AddressIs
  <2>3. QED
    BY <2>1, <2>2
<1>6. AddressesBefore(t, h, n + 2) = AddressesBefore(ls, h, n + 1) \cup
          (IF Counted1 THEN {n + 1} \X DOMAIN Parsed(l) ELSE {})
  BY <1>5
<1>7. ASSUME NEW e \in AddressesBefore(ls, h, n + 1) PROVE e[1] # n + 1
  <2>1. PICK m \in LinesFrom(ls, h, "ips") : e \in On(ls, m)
    BY <1>7, AddressIs
  <2>2. e[1] = m /\ m \in 1 .. n
    BY <1>2, <2>1 DEF On
  <2>3. QED
    BY <1>1, <2>2
<1>8. QED
  BY <1>6, <1>7 DEF t, n, Counted1

(* Every list has finitely many addresses. *)
LEMMA OnFinite ==
    ASSUME NEW m, NEW s \in Seq(Entry)
    PROVE  IsFiniteSet({m} \X DOMAIN s) /\ Cardinality({m} \X DOMAIN s) = Len(s)
<1>1. DOMAIN s = 1 .. Len(s) /\ Len(s) \in Nat
  OBVIOUS
<1>2. IsFiniteSet(DOMAIN s) /\ Cardinality(DOMAIN s) = Len(s)
  BY <1>1, FS_Interval
<1>3. IsFiniteSet({m}) /\ Cardinality({m}) = 1
  BY FS_Singleton
<1>4. /\ IsFiniteSet({m} \X DOMAIN s)
      /\ Cardinality({m} \X DOMAIN s) = Cardinality({m}) * Cardinality(DOMAIN s)
  BY <1>2, <1>3, FS_Product
<1>5. QED
  BY <1>1, <1>2, <1>3, <1>4

(* A line that gives a host no addresses leaves the addresses before it. *)
LEMMA AddressesSame ==
    ASSUME NEW ls \in Seq(StaticLines), NEW l \in StaticLines, NEW h,
           ~ (l.kind = "ips" /\ KnownBefore(ls, Len(ls) + 1) = h)
    PROVE  AddressesBefore(Append(ls, l), h, Len(ls) + 2) = AddressesBefore(ls, h, Len(ls) + 1)
<1> DEFINE A == AddressesBefore(ls, h, Len(ls) + 1)
           B == AddressesBefore(Append(ls, l), h, Len(ls) + 2)
           C == {Len(ls) + 1} \X DOMAIN Parsed(l)
           counted == l.kind = "ips" /\ KnownBefore(ls, Len(ls) + 1) = h
<1>1. B = A \cup (IF counted THEN C ELSE {})
  BY AddressesNext
<1>2. ~ counted
  OBVIOUS
<1> HIDE DEF A, B, C, counted
<1>3. B = A
  BY <1>1, <1>2
<1>4. QED
  BY <1>3 DEF A, B

LEMMA AddressesCounted ==
    ASSUME NEW ls \in Seq(StaticLines), NEW l \in StaticLines, NEW h,
           IsFiniteSet(AddressesBefore(ls, h, Len(ls) + 1))
    PROVE  /\ IsFiniteSet(AddressesBefore(Append(ls, l), h, Len(ls) + 2))
           /\ Cardinality(AddressesBefore(Append(ls, l), h, Len(ls) + 2)) =
                  Cardinality(AddressesBefore(ls, h, Len(ls) + 1)) +
                     (IF l.kind = "ips" /\ KnownBefore(ls, Len(ls) + 1) = h
                      THEN Len(Parsed(l)) ELSE 0)
<1> DEFINE n == Len(ls)
           A == AddressesBefore(ls, h, n + 1)
           B == AddressesBefore(Append(ls, l), h, n + 2)
           C == {n + 1} \X DOMAIN Parsed(l)
<1>1. \A e \in A : e[1] # n + 1
  BY AddressesNext
<1>2. CASE l.kind = "ips" /\ KnownBefore(ls, n + 1) = h
  <2>1. IsFiniteSet(C) /\ Cardinality(C) = Len(Parsed(l))
    BY <1>2, StaticAssumption, OnFinite
  <2>2. B = A \cup C
    BY <1>2, AddressesNext
  <2>3. A \cap C = {}
    BY <1>1
  <2>4. Cardinality(A \cap C) = 0
    BY <2>3, FS_EmptySet
  <2>5. /\ IsFiniteSet(A \cup C)
        /\ Cardinality(A \cup C) = Cardinality(A) + Cardinality(C) - Cardinality(A \cap C)
    BY <2>1, FS_Union
  <2>6. Cardinality(A) \in Nat /\ Cardinality(C) \in Nat
    BY <2>1, FS_CardinalityType
  <2> HIDE DEF A, B, C
  <2>7. IsFiniteSet(B) /\ Cardinality(B) = Cardinality(A) + Len(Parsed(l))
    BY <2>1, <2>2, <2>4, <2>5, <2>6
  <2>8. QED
    BY <1>2, <2>7 DEF A, B, n
<1>3. CASE ~ (l.kind = "ips" /\ KnownBefore(ls, n + 1) = h)
  <2>1. B = A
    BY <1>3, AddressesSame
  <2>2. Cardinality(A) \in Nat
    BY FS_CardinalityType
  <2> HIDE DEF A, B
  <2>3. IsFiniteSet(B) /\ Cardinality(B) = Cardinality(A) + 0
    BY <2>1, <2>2 DEF A
  <2>4. QED
    BY <1>3, <2>3 DEF A, B, n
<1>4. QED
  BY <1>2, <1>3

(* The place of an address in the list is one of the list. *)
LEMMA PlaceInList ==
    ASSUME NEW ls \in Seq(StaticLines), NEW h,
           IsFiniteSet(AddressesBefore(ls, h, Len(ls) + 1)),
           NEW i \in LinesFrom(ls, h, "ips"), NEW j \in DOMAIN Parsed(ls[i])
    PROVE  /\ Cardinality(AddressesBefore(ls, h, i)) \in Nat
           /\ Cardinality(AddressesBefore(ls, h, i)) + j
                  \in 1 .. Cardinality(AddressesBefore(ls, h, Len(ls) + 1))
<1> DEFINE n == Len(ls)
           A == AddressesBefore(ls, h, i)
           B == AddressesBefore(ls, h, n + 1)
           C == On(ls, i)
<1>1. n \in Nat /\ i \in 1 .. n /\ ls[i] \in StaticLines /\ ls[i].kind = "ips"
  BY DEF LinesFrom
<1>2. /\ Parsed(ls[i]) \in Seq(Entry) /\ Len(Parsed(ls[i])) \in Nat
      /\ j \in 1 .. Len(Parsed(ls[i]))
  BY <1>1, StaticAssumption
<1>3. IsFiniteSet(C) /\ Cardinality(C) = Len(Parsed(ls[i]))
  BY <1>2, OnFinite DEF On
<1>4. A \subseteq B /\ C \subseteq B
  <2>1. \A m \in LinesFrom(ls, h, "ips") : m < i => m < n + 1
    BY <1>1 DEF LinesFrom
  <2>2. i < n + 1
    BY <1>1
  <2>3. QED
    BY <2>1, <2>2, AddressIs
<1>5. A \cap C = {}
  <2>1. ASSUME NEW e \in A, e \in C PROVE FALSE
    <3>1. PICK m \in LinesFrom(ls, h, "ips") : m < i /\ e \in On(ls, m)
      BY <2>1, AddressIs
    <3>2. e[1] = m /\ e[1] = i /\ m \in 1 .. n
      BY <2>1, <3>1 DEF On, LinesFrom
    <3>3. QED
      BY <1>1, <3>1, <3>2
  <2>2. QED
    BY <2>1
<1>6. IsFiniteSet(A)
  BY <1>4, FS_Subset
<1>7. Cardinality(A \cup C) = Cardinality(A) + Cardinality(C) - Cardinality(A \cap C)
  BY <1>3, <1>6, FS_Union
<1>8. Cardinality(A \cap C) = 0
  BY <1>5, FS_EmptySet
<1>9. Cardinality(A \cup C) <= Cardinality(B)
  BY <1>4, FS_Subset
<1>10. Cardinality(A) \in Nat /\ Cardinality(B) \in Nat
  BY <1>6, FS_CardinalityType
<1> HIDE DEF A, B, C
<1>11. Cardinality(A) + j \in 1 .. Cardinality(B)
  BY <1>2, <1>3, <1>7, <1>8, <1>9, <1>10
<1>12. QED
  BY <1>10, <1>11 DEF A, B, n

KeyFrom(ls, h) == LET keys == LinesFrom(ls, h, "public")
                  IN IF keys = {} THEN NoPub ELSE ls[Max(keys)].value

HasAddresses(s, ls, h) ==
    /\ Len(s) = Cardinality(AddressesBefore(ls, h, Len(ls) + 1))
    /\ \A i \in LinesFrom(ls, h, "ips") : \A j \in DOMAIN Parsed(ls[i]) :
           s[Cardinality(AddressesBefore(ls, h, i)) + j] = Parsed(ls[i])[j]

LEMMA PeerIs ==
    ASSUME NEW p, NEW ls, NEW h
    PROVE  IsPeerOf(p, ls, h) <=> p.pub = KeyFrom(ls, h) /\ HasAddresses(p.ips, ls, h)
BY DEF IsPeerOf, KeyFrom, HasAddresses

LEMMA KeyNext ==
    ASSUME NEW ls \in Seq(StaticLines), NEW l \in StaticLines, NEW h
    PROVE  KeyFrom(Append(ls, l), h) =
               IF l.kind = "public" /\ KnownBefore(ls, Len(ls) + 1) = h THEN l.value
               ELSE KeyFrom(ls, h)
<1> DEFINE t == Append(ls, l)
           n == Len(ls)
           K == LinesFrom(ls, h, "public")
           L == LinesFrom(t, h, "public")
           Counted1 == l.kind = "public" /\ KnownBefore(ls, n + 1) = h
<1>1. n \in Nat /\ t[n + 1] = l /\ \A j \in 1 .. n : t[j] = ls[j]
  BY ConfLineAdded
<1>2. K \in SUBSET (1 .. n) /\ L = K \cup (IF Counted1 THEN {n + 1} ELSE {})
  BY LinesNext
<1>3. KeyFrom(ls, h) = IF K = {} THEN NoPub ELSE ls[Max(K)].value
  BY DEF KeyFrom
<1>4. KeyFrom(t, h) = IF L = {} THEN NoPub ELSE t[Max(L)].value
  BY DEF KeyFrom
<1> HIDE DEF t, n, K, L
<1>5. CASE Counted1
  <2>1. L \in SUBSET (1 .. n + 1) /\ n + 1 \in L
    BY <1>1, <1>2, <1>5
  <2>2. Max(L) = n + 1 /\ L # {}
    BY <1>1, <2>1, GreatestIsLast
  <2>3. QED
    BY <1>1, <1>4, <1>5, <2>2 DEF t, n
<1>6. CASE ~ Counted1
  <2>1. L = K
    BY <1>2, <1>6
  <2>2. K # {} => Max(K) \in K
    BY <1>1, <1>2, GreatestExists
  <2>3. K # {} => t[Max(K)] = ls[Max(K)]
    BY <1>1, <1>2, <2>2
  <2>4. QED
    BY <1>3, <1>4, <1>6, <2>1, <2>3 DEF t, n
<1>7. QED
  BY <1>5, <1>6

LEMMA AddressesAsBefore ==
    ASSUME NEW ls \in Seq(StaticLines), NEW l \in StaticLines, NEW h, NEW s,
           HasAddresses(s, ls, h), ~ (l.kind = "ips" /\ KnownBefore(ls, Len(ls) + 1) = h)
    PROVE  HasAddresses(s, Append(ls, l), h)
<1> DEFINE t == Append(ls, l)
           n == Len(ls)
<1>1. n \in Nat /\ Len(t) + 1 = n + 2 /\ \A j \in 1 .. n : t[j] = ls[j]
  BY ConfLineAdded
<1>2. LinesFrom(t, h, "ips") = LinesFrom(ls, h, "ips") /\ LinesFrom(ls, h, "ips") \in SUBSET (1 .. n)
  <2>1. LinesFrom(t, h, "ips") = LinesFrom(ls, h, "ips") \cup
            (IF l.kind = "ips" /\ KnownBefore(ls, n + 1) = h THEN {n + 1} ELSE {})
        /\ LinesFrom(ls, h, "ips") \in SUBSET (1 .. n)
    BY LinesNext
  <2>2. QED
    BY <2>1
<1>3. AddressesBefore(t, h, n + 2) = AddressesBefore(ls, h, n + 1)
  BY AddressesSame
<1>4. \A i \in 1 .. n + 1 : AddressesBefore(t, h, i) = AddressesBefore(ls, h, i)
  BY AddressesKept
<1> HIDE DEF t, n
<1>5. ASSUME NEW i \in LinesFrom(t, h, "ips")
      PROVE  i \in LinesFrom(ls, h, "ips") /\ t[i] = ls[i]
             /\ AddressesBefore(t, h, i) = AddressesBefore(ls, h, i)
  <2>1. i \in LinesFrom(ls, h, "ips") /\ i \in 1 .. n /\ i \in 1 .. n + 1
    BY <1>1, <1>2
  <2>2. QED
    BY <1>1, <1>4, <2>1
<1>6. Len(s) = Cardinality(AddressesBefore(t, h, Len(t) + 1))
  BY <1>1, <1>3 DEF HasAddresses, n
<1>7. ASSUME NEW i \in LinesFrom(t, h, "ips"), NEW j \in DOMAIN Parsed(t[i])
      PROVE  s[Cardinality(AddressesBefore(t, h, i)) + j] = Parsed(t[i])[j]
  BY <1>5, <1>7 DEF HasAddresses
<1>8. QED
  BY <1>6, <1>7 DEF HasAddresses, t

(* A list of addresses is put behind those of the lines before. *)
LEMMA AddressesTaken ==
    ASSUME NEW ls \in Seq(StaticLines), NEW l \in StaticLines, NEW h, NEW s \in Seq(Entry),
           IsFiniteSet(AddressesBefore(ls, h, Len(ls) + 1)),
           HasAddresses(s, ls, h), l.kind = "ips", KnownBefore(ls, Len(ls) + 1) = h
    PROVE  HasAddresses(s \o Parsed(l), Append(ls, l), h)
<1> DEFINE t == Append(ls, l)
           n == Len(ls)
           q == Parsed(l)
           r == s \o q
<1>1. /\ n \in Nat /\ Len(t) + 1 = n + 2 /\ t[n + 1] = l
      /\ \A j \in 1 .. n : t[j] = ls[j]
  BY ConfLineAdded
<1>2. /\ LinesFrom(t, h, "ips") = LinesFrom(ls, h, "ips") \cup {n + 1}
      /\ LinesFrom(ls, h, "ips") \in SUBSET (1 .. n)
  BY LinesNext
<1>3. Cardinality(AddressesBefore(t, h, n + 2)) =
          Cardinality(AddressesBefore(ls, h, n + 1)) + Len(q)
  BY AddressesCounted
<1>4. \A i \in 1 .. n + 1 : AddressesBefore(t, h, i) = AddressesBefore(ls, h, i)
  BY AddressesKept
<1>5. q \in Seq(Entry)
  BY StaticAssumption
<1> HIDE DEF q
<1>6. /\ Len(s) \in Nat /\ Len(q) \in Nat /\ Len(r) = Len(s) + Len(q)
      /\ \A i \in 1 .. Len(s) : r[i] = s[i]
      /\ \A j \in 1 .. Len(q) : r[Len(s) + j] = q[j]
  BY <1>5
<1>7. Len(s) = Cardinality(AddressesBefore(ls, h, n + 1))
  BY DEF HasAddresses
<1>8. \A i \in LinesFrom(ls, h, "ips") : \A j \in DOMAIN Parsed(ls[i]) :
          /\ Cardinality(AddressesBefore(ls, h, i)) + j \in 1 .. Len(s)
          /\ s[Cardinality(AddressesBefore(ls, h, i)) + j] = Parsed(ls[i])[j]
  BY <1>7, PlaceInList DEF HasAddresses
<1> HIDE DEF t, n, r
<1>9. ASSUME NEW i \in LinesFrom(t, h, "ips"), NEW j \in DOMAIN Parsed(t[i])
      PROVE  r[Cardinality(AddressesBefore(t, h, i)) + j] = Parsed(t[i])[j]
  <2>1. CASE i \in LinesFrom(ls, h, "ips")
    <3>1. i \in 1 .. n /\ i \in 1 .. n + 1
      BY <1>1, <1>2, <2>1
    <3>2. t[i] = ls[i] /\ AddressesBefore(t, h, i) = AddressesBefore(ls, h, i)
      BY <1>1, <1>4, <3>1
    <3>3. QED
      BY <1>6, <1>8, <1>9, <2>1, <3>2
  <2>2. CASE i = n + 1
    <3>1. /\ AddressesBefore(t, h, i) = AddressesBefore(ls, h, n + 1)
          /\ Parsed(t[i]) = q
      BY <1>1, <1>4, <2>2 DEF q
    <3>2. j \in 1 .. Len(q)
      BY <1>5, <1>9, <3>1
    <3>3. QED
      BY <1>6, <1>7, <3>1, <3>2
  <2>3. QED
    BY <1>2, <1>9, <2>1, <2>2
<1>10. Len(r) = Cardinality(AddressesBefore(t, h, Len(t) + 1))
  BY <1>1, <1>3, <1>6, <1>7
<1>11. QED
  BY <1>9, <1>10 DEF HasAddresses, t, r, q

(* No line before a header stands in its section. *)
LEMMA NewSection ==
    ASSUME NEW ls \in Seq(StaticLines), NEW l \in StaticLines, l.kind = "header"
    PROVE  /\ KeyFrom(Append(ls, l), Len(ls) + 1) = NoPub
           /\ HasAddresses(<<>>, Append(ls, l), Len(ls) + 1)
<1> DEFINE t == Append(ls, l)
           n == Len(ls)
<1>1. n \in Nat
  OBVIOUS
<1>2. \A i \in 1 .. n + 1 : KnownBefore(ls, i) \in 0 .. i - 1
  BY SectionOfLine
<1>3. \A i \in 1 .. n + 1 : KnownBefore(ls, i) # n + 1
  BY <1>1, <1>2
<1>4. ASSUME NEW kind, kind # "header" PROVE LinesFrom(t, n + 1, kind) = {}
  <2>1. /\ LinesFrom(t, n + 1, kind) = LinesFrom(ls, n + 1, kind) \cup
               (IF l.kind = kind /\ KnownBefore(ls, n + 1) = n + 1 THEN {n + 1} ELSE {})
        /\ LinesFrom(ls, n + 1, kind) \in SUBSET (1 .. n)
    BY LinesNext
  <2>2. LinesFrom(ls, n + 1, kind) = {}
    BY <1>1, <1>3, <2>1 DEF LinesFrom
  <2>3. QED
    BY <1>4, <2>1, <2>2
<1> HIDE DEF t, n
<1>5. LinesFrom(t, n + 1, "public") = {} /\ LinesFrom(t, n + 1, "ips") = {}
  <2>1. LinesFrom(t, n + 1, "public") = {}
    BY <1>4
  <2>2. LinesFrom(t, n + 1, "ips") = {}
    BY <1>4
  <2>3. QED
    BY <2>1, <2>2
<1>6. KeyFrom(t, n + 1) = NoPub
  BY <1>5 DEF KeyFrom
<1>7. AddressesBefore(t, n + 1, Len(t) + 1) = {}
  BY <1>5, AddressIs
<1>8. Len(<<>>) = Cardinality(AddressesBefore(t, n + 1, Len(t) + 1))
  BY <1>7, FS_EmptySet
<1>9. HasAddresses(<<>>, t, n + 1)
  BY <1>5, <1>8 DEF HasAddresses
<1>10. QED
  BY <1>6, <1>9 DEF t, n

-----------------------------------------------------------------------------
(* The order of the peers *)

UpTo(ls, h) == {g \in PeerHeads(ls) : g <= h}
Rank(ls, h) == Cardinality(UpTo(ls, h))

LEMMA HeadsFinite ==
    ASSUME NEW ls \in Seq(StaticLines)
    PROVE  IsFiniteSet(PeerHeads(ls)) /\ Cardinality(PeerHeads(ls)) \in Nat
<1>1. Len(ls) \in Nat /\ PeerHeads(ls) \in SUBSET (1 .. Len(ls))
  BY DEF PeerHeads
<1>2. IsFiniteSet(1 .. Len(ls))
  BY <1>1, FS_Interval
<1>3. IsFiniteSet(PeerHeads(ls))
  BY <1>1, <1>2, FS_Subset
<1>4. QED
  BY <1>3, FS_CardinalityType

LEMMA RankIs ==
    ASSUME NEW ls \in Seq(StaticLines), NEW h \in PeerHeads(ls)
    PROVE  /\ IsFiniteSet(PeerHeads(ls)) /\ Cardinality(PeerHeads(ls)) \in Nat
           /\ Rank(ls, h) \in 1 .. Cardinality(PeerHeads(ls))
           /\ Rank(ls, h) = Cardinality(PeerHeads(ls)) <=> \A g \in PeerHeads(ls) : g <= h
<1> DEFINE H == PeerHeads(ls)
           U == UpTo(ls, h)
<1>1. H \in SUBSET (1 .. Len(ls)) /\ Len(ls) \in Nat
  BY DEF PeerHeads
<1>2. IsFiniteSet(H) /\ Cardinality(H) \in Nat
  BY HeadsFinite
<1>3. U \in SUBSET H /\ h \in U
  BY <1>1 DEF UpTo
<1>4. IsFiniteSet(U) /\ Cardinality(U) <= Cardinality(H) /\ Cardinality(U) \in Nat
      /\ (Cardinality(U) = Cardinality(H) => U = H)
  BY <1>2, <1>3, FS_Subset, FS_CardinalityType
<1>5. Cardinality(U) # 0
  BY <1>3, <1>4, FS_EmptySet
<1>6. U = H <=> \A g \in H : g <= h
  BY DEF UpTo
<1> HIDE DEF H, U
<1>7. Cardinality(U) \in 1 .. Cardinality(H)
  BY <1>2, <1>4, <1>5
<1>8. Cardinality(U) = Cardinality(H) <=> \A g \in H : g <= h
  BY <1>4, <1>6
<1>9. QED
  BY <1>2, <1>7, <1>8 DEF Rank, U, H

LEMMA RankNext ==
    ASSUME NEW ls \in Seq(StaticLines), NEW l \in StaticLines
    PROVE  /\ \A h \in PeerHeads(ls) : Rank(Append(ls, l), h) = Rank(ls, h)
           /\ Cardinality(PeerHeads(ls)) \in Nat
           /\ l.kind = "header" /\ l.value = "peer" =>
                  /\ Cardinality(PeerHeads(Append(ls, l))) = Cardinality(PeerHeads(ls)) + 1
                  /\ Rank(Append(ls, l), Len(ls) + 1) = Cardinality(PeerHeads(ls)) + 1
<1> DEFINE t == Append(ls, l)
           n == Len(ls)
<1>1. n \in Nat /\ PeerHeads(ls) \in SUBSET (1 .. n)
      /\ PeerHeads(t) = PeerHeads(ls) \cup
             (IF l.kind = "header" /\ l.value = "peer" THEN {n + 1} ELSE {})
  BY HeadsNext
<1>2. IsFiniteSet(PeerHeads(ls)) /\ Cardinality(PeerHeads(ls)) \in Nat
  BY HeadsFinite
<1> HIDE DEF t, n
<1>3. \A h \in PeerHeads(ls) : UpTo(t, h) = UpTo(ls, h)
  BY <1>1 DEF UpTo
<1>4. CASE l.kind = "header" /\ l.value = "peer"
  <2>1. PeerHeads(t) = PeerHeads(ls) \cup {n + 1} /\ n + 1 \notin PeerHeads(ls)
    BY <1>1, <1>4
  <2>2. Cardinality(PeerHeads(t)) = Cardinality(PeerHeads(ls)) + 1
    BY <1>2, <2>1, FS_AddElement
  <2>3. UpTo(t, n + 1) = PeerHeads(t)
    BY <1>1, <2>1 DEF UpTo
  <2>4. QED
    BY <1>2, <1>3, <2>2, <2>3 DEF Rank, t, n
<1>5. CASE ~ (l.kind = "header" /\ l.value = "peer")
  <2>1. \A h \in PeerHeads(ls) : Rank(t, h) = Rank(ls, h)
    BY <1>3 DEF Rank
  <2>2. QED
    BY <1>2, <1>5, <2>1 DEF t
<1>6. QED
  BY <1>4, <1>5

(* The section of the next line, when it is a peer's, is the last peer's. *)
LEMMA LastPeer ==
    ASSUME NEW ls \in Seq(StaticLines)
    PROVE  /\ PartAfter(ls) = "peer" =>
                  /\ KnownBefore(ls, Len(ls) + 1) \in PeerHeads(ls)
                  /\ Rank(ls, KnownBefore(ls, Len(ls) + 1)) = Cardinality(PeerHeads(ls))
           /\ KnownBefore(ls, Len(ls) + 1) \in PeerHeads(ls) => PartAfter(ls) = "peer"
<1> DEFINE n == Len(ls)
           h == KnownBefore(ls, n + 1)
           K == KnownHeads(ls, n + 1)
<1>1. n \in Nat /\ DOMAIN ls = 1 .. n /\ (n + 1) - 1 = n
  OBVIOUS
<1>2. /\ K \in SUBSET (1 .. n) /\ h = IF K = {} THEN 0 ELSE Max(K)
      /\ h # 0 => h \in 1 .. n /\ Known(ls[h])
  BY <1>1, KnownBeforeIs
<1>3. PeerHeads(ls) \in SUBSET (1 .. n) /\ PeerHeads(ls) \subseteq K
  BY <1>1 DEF PeerHeads, KnownHeads, Known
<1>4. PartAfter(ls) = IF h = 0 THEN "none" ELSE ls[h].value
  BY DEF PartAfter
<1> HIDE DEF n, h, K
<1>5. ASSUME PartAfter(ls) = "peer"
      PROVE  h \in PeerHeads(ls) /\ Rank(ls, h) = Cardinality(PeerHeads(ls))
  <2>1. h \in 1 .. n /\ Known(ls[h]) /\ ls[h].value = "peer" /\ h # 0
    BY <1>2, <1>4, <1>5
  <2>2. h \in PeerHeads(ls)
    BY <1>1, <2>1 DEF PeerHeads, Known
  <2>3. h = Max(K) /\ K # {}
    BY <1>2, <2>1
  <2>4. \A g \in K : Max(K) >= g
    BY <1>1, <1>2, <2>3, GreatestExists
  <2>5. \A g \in PeerHeads(ls) : g <= h
    BY <1>1, <1>3, <2>1, <2>3, <2>4
  <2>6. QED
    BY <2>2, <2>5, RankIs
<1>6. h \in PeerHeads(ls) => PartAfter(ls) = "peer"
  BY <1>1, <1>3, <1>4 DEF PeerHeads
<1>7. QED
  BY <1>5, <1>6 DEF h, n

-----------------------------------------------------------------------------
(* The list is that of the lines so far *)

LEMMA PeersAre ==
    ASSUME NEW list, NEW ls
    PROVE  ArePeersOf(list, ls) <=>
               /\ Len(list) = Cardinality(PeerHeads(ls))
               /\ \A h \in PeerHeads(ls) : /\ list[Rank(ls, h)].pub = KeyFrom(ls, h)
                                          /\ HasAddresses(list[Rank(ls, h)].ips, ls, h)
BY PeerIs DEF ArePeersOf, Rank, UpTo

(* A peer whose section the line does not stand in, or that it does not    *)
(* change.                                                                 *)
LEMMA PeerUnmoved ==
    ASSUME NEW ls \in Seq(StaticLines), NEW l \in StaticLines, NEW h, NEW p,
           p.pub = KeyFrom(ls, h), HasAddresses(p.ips, ls, h),
           ~ (l.kind \in {"public", "ips"} /\ KnownBefore(ls, Len(ls) + 1) = h)
    PROVE  /\ p.pub = KeyFrom(Append(ls, l), h)
           /\ HasAddresses(p.ips, Append(ls, l), h)
<1>1. p.pub = KeyFrom(Append(ls, l), h)
  BY KeyNext
<1>2. HasAddresses(p.ips, Append(ls, l), h)
  BY AddressesAsBefore
<1>3. QED
  BY <1>1, <1>2

LEMMA HeaderListed ==
    ASSUME NEW ls \in Seq(StaticLines), NEW l \in StaticLines, NEW list \in Seq(Peer),
           ArePeersOf(list, ls), l.kind = "header", l.value = "peer"
    PROVE  ArePeersOf(Append(list, NewPeer), Append(ls, l))
<1> DEFINE t == Append(ls, l)
           n == Len(ls)
           new == Append(list, NewPeer)
<1>1. /\ Len(list) = Cardinality(PeerHeads(ls)) /\ Len(list) \in Nat
      /\ \A h \in PeerHeads(ls) : /\ list[Rank(ls, h)].pub = KeyFrom(ls, h)
                                 /\ HasAddresses(list[Rank(ls, h)].ips, ls, h)
  BY PeersAre
<1>2. PeerHeads(t) = PeerHeads(ls) \cup {n + 1}
  BY HeadsNext
<1>3. /\ \A h \in PeerHeads(ls) : Rank(t, h) = Rank(ls, h)
      /\ Cardinality(PeerHeads(t)) = Len(list) + 1
      /\ Rank(t, n + 1) = Len(list) + 1
  BY <1>1, RankNext
<1>4. /\ Len(new) = Len(list) + 1 /\ new[Len(list) + 1] = NewPeer
      /\ \A i \in 1 .. Len(list) : new[i] = list[i]
  <2>1. NewPeer \in Peer
    BY DEF NewPeer, Peer, Pub
  <2>2. QED
    BY <2>1
<1>5. KeyFrom(t, n + 1) = NoPub /\ HasAddresses(<<>>, t, n + 1)
  BY NewSection
<1> HIDE DEF t, n, new
<1>6. ASSUME NEW h \in PeerHeads(t)
      PROVE  new[Rank(t, h)].pub = KeyFrom(t, h) /\ HasAddresses(new[Rank(t, h)].ips, t, h)
  <2>1. CASE h \in PeerHeads(ls)
    <3> DEFINE p == list[Rank(ls, h)]
    <3>1. Rank(ls, h) \in 1 .. Len(list)
      BY <1>1, <2>1, RankIs
    <3>2. new[Rank(t, h)] = p
      BY <1>3, <1>4, <2>1, <3>1
    <3>3. p.pub = KeyFrom(ls, h) /\ HasAddresses(p.ips, ls, h)
      BY <1>1, <2>1
    <3> HIDE DEF p
    <3>4. p.pub = KeyFrom(t, h) /\ HasAddresses(p.ips, t, h)
      BY <3>3, PeerUnmoved DEF t
    <3>5. QED
      BY <3>2, <3>4
  <2>2. CASE h = n + 1
    <3>1. new[Rank(t, h)] = NewPeer
      BY <1>3, <1>4, <2>2
    <3>2. NewPeer.pub = NoPub /\ NewPeer.ips = <<>>
      BY DEF NewPeer
    <3>3. QED
      BY <1>5, <2>2, <3>1, <3>2
  <2>3. QED
    BY <1>2, <2>1, <2>2
<1>7. ArePeersOf(new, t)
  BY <1>3, <1>4, <1>6, PeersAre
<1>8. QED
  BY <1>7 DEF new, t

(* A line that is no [Peer] header changes the last peer at most. *)
LEMMA LineListed ==
    ASSUME NEW ls \in Seq(StaticLines), NEW l \in StaticLines, NEW list, NEW new,
           ArePeersOf(list, ls), ~ (l.kind = "header" /\ l.value = "peer"),
           Len(new) = Len(list),
           \A h \in PeerHeads(ls) :
               IF l.kind \in {"public", "ips"} /\ KnownBefore(ls, Len(ls) + 1) = h
               THEN /\ new[Rank(ls, h)].pub = KeyFrom(Append(ls, l), h)
                    /\ HasAddresses(new[Rank(ls, h)].ips, Append(ls, l), h)
               ELSE new[Rank(ls, h)] = list[Rank(ls, h)]
    PROVE  ArePeersOf(new, Append(ls, l))
<1> DEFINE t == Append(ls, l)
           n == Len(ls)
<1>1. /\ Len(list) = Cardinality(PeerHeads(ls))
      /\ \A h \in PeerHeads(ls) : /\ list[Rank(ls, h)].pub = KeyFrom(ls, h)
                                 /\ HasAddresses(list[Rank(ls, h)].ips, ls, h)
  BY PeersAre
<1>2. PeerHeads(t) = PeerHeads(ls)
  BY HeadsNext
<1>3. \A h \in PeerHeads(ls) : Rank(t, h) = Rank(ls, h)
  BY RankNext
<1> HIDE DEF t
<1>4. ASSUME NEW h \in PeerHeads(ls)
      PROVE  /\ new[Rank(ls, h)].pub = KeyFrom(t, h)
             /\ HasAddresses(new[Rank(ls, h)].ips, t, h)
  <2>1. CASE l.kind \in {"public", "ips"} /\ KnownBefore(ls, n + 1) = h
    BY <2>1 DEF t
  <2>2. CASE ~ (l.kind \in {"public", "ips"} /\ KnownBefore(ls, n + 1) = h)
    <3> DEFINE p == list[Rank(ls, h)]
    <3>1. new[Rank(ls, h)] = p
      BY <2>2
    <3>2. p.pub = KeyFrom(ls, h) /\ HasAddresses(p.ips, ls, h)
      BY <1>1
    <3> HIDE DEF p
    <3>3. p.pub = KeyFrom(t, h) /\ HasAddresses(p.ips, t, h)
      BY <2>2, <3>2, PeerUnmoved DEF t
    <3>4. QED
      BY <3>1, <3>3
  <2>3. QED
    BY <2>1, <2>2
<1>5. ArePeersOf(new, t)
  BY <1>1, <1>2, <1>3, <1>4, PeersAre
<1>6. QED
  BY <1>5 DEF t

(* Only the last peer is at the end of the list. *)
LEMMA OthersBefore ==
    ASSUME NEW ls \in Seq(StaticLines), NEW g \in PeerHeads(ls), NEW h \in PeerHeads(ls),
           Rank(ls, g) = Cardinality(PeerHeads(ls)), Rank(ls, h) = Cardinality(PeerHeads(ls))
    PROVE  g = h
<1>1. \A k \in PeerHeads(ls) : k <= g
  BY RankIs
<1>2. \A k \in PeerHeads(ls) : k <= h
  BY RankIs
<1>3. g \in Nat /\ h \in Nat
  BY DEF PeerHeads
<1>4. QED
  BY <1>1, <1>2, <1>3

Finite(ls) == \A h \in Nat : IsFiniteSet(AddressesBefore(ls, h, Len(ls) + 1))

LEMMA FiniteNext ==
    ASSUME NEW ls \in Seq(StaticLines), NEW l \in StaticLines, Finite(ls)
    PROVE  Finite(Append(ls, l))
<1>1. Len(Append(ls, l)) + 1 = Len(ls) + 2
  BY ConfLineAdded
<1>2. ASSUME NEW h \in Nat PROVE IsFiniteSet(AddressesBefore(Append(ls, l), h, Len(ls) + 2))
  BY AddressesCounted DEF Finite
<1>3. QED
  BY <1>1, <1>2 DEF Finite

LEMMA KeyListed ==
    ASSUME NEW ls \in Seq(StaticLines), NEW l \in StaticLines, NEW list \in Seq(Peer),
           ArePeersOf(list, ls), PartAfter(ls) = "peer", l.kind = "public"
    PROVE  ArePeersOf([list EXCEPT ![Len(list)].pub = l.value], Append(ls, l))
<1> DEFINE m == Len(list)
           t == Append(ls, l)
           new == [list EXCEPT ![m].pub = l.value]
           k == KnownBefore(ls, Len(ls) + 1)
<1>1. k \in PeerHeads(ls) /\ Rank(ls, k) = Cardinality(PeerHeads(ls))
  BY LastPeer
<1>2. /\ m = Cardinality(PeerHeads(ls)) /\ m \in Nat
      /\ \A h \in PeerHeads(ls) : /\ list[Rank(ls, h)].pub = KeyFrom(ls, h)
                                 /\ HasAddresses(list[Rank(ls, h)].ips, ls, h)
  BY PeersAre
<1>3. \A h \in PeerHeads(ls) : Rank(ls, h) \in 1 .. m
  BY <1>2, RankIs
<1>4. m \in 1 .. m /\ list[m] \in Peer
  BY <1>1, <1>2, <1>3
<1>5. /\ Len(new) = m /\ new[m].pub = l.value /\ new[m].ips = list[m].ips
      /\ \A i \in 1 .. m : i # m => new[i] = list[i]
  BY <1>4 DEF Peer
<1>6. KeyFrom(t, k) = l.value
  BY KeyNext
<1>7. HasAddresses(list[m].ips, t, k)
  <2>1. HasAddresses(list[m].ips, ls, k)
    BY <1>1, <1>2
  <2>2. ~ (l.kind = "ips" /\ KnownBefore(ls, Len(ls) + 1) = k)
    OBVIOUS
  <2> HIDE DEF k
  <2>3. QED
    BY <2>1, <2>2, AddressesAsBefore
<1> HIDE DEF m, t, new, k
<1>8. ASSUME NEW h \in PeerHeads(ls)
      PROVE  IF l.kind \in {"public", "ips"} /\ k = h
             THEN /\ new[Rank(ls, h)].pub = KeyFrom(t, h)
                  /\ HasAddresses(new[Rank(ls, h)].ips, t, h)
             ELSE new[Rank(ls, h)] = list[Rank(ls, h)]
  <2>1. CASE k = h
    BY <1>1, <1>2, <1>5, <1>6, <1>7, <2>1
  <2>2. CASE k # h
    <3>1. Rank(ls, h) # m
      BY <1>1, <1>2, <2>2, OthersBefore
    <3>2. QED
      BY <1>3, <1>5, <2>2, <3>1
  <2>3. QED
    BY <2>1, <2>2
<1>9. Len(new) = Len(list)
  BY <1>5 DEF m
<1>10. ArePeersOf(new, t)
  BY <1>8, <1>9, LineListed DEF t, k
<1>11. QED
  BY <1>10 DEF new, t, m

LEMMA AddressesListed ==
    ASSUME NEW ls \in Seq(StaticLines), NEW l \in StaticLines, NEW list \in Seq(Peer),
           ArePeersOf(list, ls), Finite(ls), PartAfter(ls) = "peer", l.kind = "ips"
    PROVE  ArePeersOf([list EXCEPT ![Len(list)].ips = @ \o Parsed(l)], Append(ls, l))
<1> DEFINE m == Len(list)
           t == Append(ls, l)
           s == list[m].ips
           new == [list EXCEPT ![m].ips = @ \o Parsed(l)]
           k == KnownBefore(ls, Len(ls) + 1)
<1>1. k \in PeerHeads(ls) /\ Rank(ls, k) = Cardinality(PeerHeads(ls))
  BY LastPeer
<1>2. /\ m = Cardinality(PeerHeads(ls)) /\ m \in Nat
      /\ \A h \in PeerHeads(ls) : /\ list[Rank(ls, h)].pub = KeyFrom(ls, h)
                                 /\ HasAddresses(list[Rank(ls, h)].ips, ls, h)
  BY PeersAre
<1>3. \A h \in PeerHeads(ls) : Rank(ls, h) \in 1 .. m
  BY <1>2, RankIs
<1>4. m \in 1 .. m /\ list[m] \in Peer
  BY <1>1, <1>2, <1>3
<1>5. /\ Len(new) = m /\ new[m].pub = list[m].pub /\ new[m].ips = s \o Parsed(l)
      /\ \A i \in 1 .. m : i # m => new[i] = list[i]
  BY <1>4 DEF Peer
<1>6. KeyFrom(t, k) = list[m].pub
  <2>1. KeyFrom(ls, k) = list[m].pub
    BY <1>1, <1>2
  <2>2. QED
    BY <2>1, KeyNext
<1>7. HasAddresses(s \o Parsed(l), t, k)
  <2>1. HasAddresses(s, ls, k)
    BY <1>1, <1>2
  <2>2. s \in Seq(Entry)
    BY <1>4 DEF Peer
  <2>3. k \in Nat
    BY <1>1 DEF PeerHeads
  <2>4. IsFiniteSet(AddressesBefore(ls, k, Len(ls) + 1))
    BY <2>3 DEF Finite
  <2> HIDE DEF s
  <2>5. QED
    BY <2>1, <2>2, <2>4, AddressesTaken
<1> HIDE DEF m, t, s, new, k
<1>8. ASSUME NEW h \in PeerHeads(ls)
      PROVE  IF l.kind \in {"public", "ips"} /\ k = h
             THEN /\ new[Rank(ls, h)].pub = KeyFrom(t, h)
                  /\ HasAddresses(new[Rank(ls, h)].ips, t, h)
             ELSE new[Rank(ls, h)] = list[Rank(ls, h)]
  <2>1. CASE k = h
    BY <1>1, <1>2, <1>5, <1>6, <1>7, <2>1
  <2>2. CASE k # h
    <3>1. Rank(ls, h) # m
      BY <1>1, <1>2, <2>2, OthersBefore
    <3>2. QED
      BY <1>3, <1>5, <2>2, <3>1
  <2>3. QED
    BY <2>1, <2>2
<1>9. Len(new) = Len(list)
  BY <1>5 DEF m
<1>10. ArePeersOf(new, t)
  BY <1>8, <1>9, LineListed DEF t, k
<1>11. QED
  BY <1>10 DEF new, t, m

LEMMA NothingListed ==
    ASSUME NEW ls \in Seq(StaticLines), NEW l \in StaticLines, NEW list,
           ArePeersOf(list, ls), ~ (l.kind = "header" /\ l.value = "peer"),
           PartAfter(ls) # "peer" \/ l.kind \notin {"public", "ips"}
    PROVE  ArePeersOf(list, Append(ls, l))
<1>1. \A h \in PeerHeads(ls) : ~ (l.kind \in {"public", "ips"} /\ KnownBefore(ls, Len(ls) + 1) = h)
  BY LastPeer
<1>2. QED
  BY <1>1, LineListed

(* While the file is open the list has the peers of the lines so far.      *)
PeersAt ==
    /\ part # "closed" => ArePeersOf(peers, confLines) /\ Finite(confLines)
    /\ AppliedWhole

LEMMA NoLines == ArePeersOf(<<>>, <<>>) /\ Finite(<<>>)
<1>1. PeerHeads(<<>>) = {} /\ \A h : LinesFrom(<<>>, h, "ips") = {}
  BY DEF PeerHeads, LinesFrom
<1>2. ArePeersOf(<<>>, <<>>)
  BY <1>1, FS_EmptySet DEF ArePeersOf
<1>3. \A h : AddressesBefore(<<>>, h, Len(<<>>) + 1) = {}
  BY <1>1, AddressIs
<1>4. Finite(<<>>)
  BY <1>3, FS_EmptySet DEF Finite
<1>5. QED
  BY <1>2, <1>4

LEMMA LineReadStep ==
    ASSUME StaticAt, CleanAt, PeersAt, part # "closed",
           NEW l \in StaticLines, StaticHeader(l) \/ StaticLine(l),
           confLines' = Append(confLines, l)
    PROVE  ArePeersOf(peers', confLines') /\ Finite(confLines')
<1>1. /\ confLines \in Seq(StaticLines) /\ part = PartAfter(confLines)
      /\ peers \in Seq(Peer) /\ ArePeersOf(peers, confLines) /\ Finite(confLines)
  BY DEF StaticAt, CleanAt, PeersAt
<1>2. Finite(confLines')
  BY <1>1, FiniteNext
<1>3. CASE StaticHeader(l) /\ l.value = "peer"
  <2>1. l.kind = "header" /\ peers' = Append(peers, NewPeer)
    BY <1>3 DEF StaticHeader
  <2>2. QED
    BY <1>1, <1>2, <1>3, <2>1, HeaderListed
<1>4. CASE StaticHeader(l) /\ l.value # "peer"
  <2>1. l.kind = "header" /\ peers' = peers
    BY <1>4 DEF StaticHeader
  <2>2. QED
    BY <1>1, <1>2, <1>4, <2>1, NothingListed
<1>5. CASE StaticLine(l) /\ part = "peer" /\ l.kind = "public"
  <2>1. peers' = [peers EXCEPT ![Len(peers)].pub = l.value]
    BY <1>5 DEF StaticLine, Counts, LinesOf
  <2>2. QED
    BY <1>1, <1>2, <1>5, <2>1, KeyListed
<1>6. CASE StaticLine(l) /\ part = "peer" /\ l.kind = "ips"
  <2>1. peers' = [peers EXCEPT ![Len(peers)].ips = @ \o Parsed(l)]
    BY <1>6 DEF StaticLine, Counts, LinesOf
  <2>2. QED
    BY <1>1, <1>2, <1>6, <2>1, AddressesListed
<1>7. CASE StaticLine(l) /\ ~ (part = "peer" /\ l.kind \in {"public", "ips"})
  <2>1. l.kind # "header"
    BY <1>7 DEF StaticLine
  <2>2. part \in {"none", "interface", "peer"}
    BY DEF StaticAt
  <2>3. ~ (Counts(l) /\ l.kind \in {"public", "ips"})
    BY <1>7, <2>2 DEF Counts, LinesOf
  <2>4. peers' = peers
    BY <1>7, <2>3 DEF StaticLine
  <2>5. QED
    BY <1>1, <1>2, <1>7, <2>1, <2>4, NothingListed
<1>8. QED
  BY <1>3, <1>4, <1>5, <1>6, <1>7

LEMMA PeersStep == StaticAt /\ CleanAt /\ PeersAt /\ [Next]_vars => PeersAt'
<1> SUFFICES ASSUME StaticAt, CleanAt, PeersAt, [Next]_vars PROVE PeersAt'
  OBVIOUS
<1>1. CASE UNCHANGED <<phase, static>>
  BY <1>1 DEF PeersAt, static, AppliedWhole
<1>2. CASE /\ UNCHANGED static /\ phase # "parse" /\ phase' # "parse"
  BY <1>2 DEF PeersAt, static, AppliedWhole
<1>3. CASE OpenStatic
  <2>1. CASE StaticOpen
    <3>1. peers' = <<>> /\ confLines' = <<>> /\ ~ device'.given
      BY <1>3, <2>1 DEF OpenStatic, StaticOpen, StaticAt, CleanAt
    <3>2. QED
      BY <3>1, NoLines DEF PeersAt, AppliedWhole
  <2>2. QED
    BY <1>2, <1>3, <2>1 DEF OpenStatic
<1>4. CASE ReadStatic
  <2>1. PICK l \in StaticLines : StaticRead(l)
    BY <1>4 DEF ReadStatic
  <2>2. device' = device /\ part # "closed" /\ confLines' = Append(confLines, l)
    BY <2>1 DEF StaticRead, StaticHeader, StaticLine, StaticBadKey, StaticOom
  <2>3. ~ device'.given
    BY <2>2 DEF CleanAt
  <2>4. CASE StaticHeader(l) \/ StaticLine(l)
    BY <2>2, <2>3, <2>4, LineReadStep DEF PeersAt, AppliedWhole
  <2>5. CASE part' = "closed"
    BY <2>3, <2>5 DEF PeersAt, AppliedWhole
  <2>6. QED
    BY <2>1, <2>4, <2>5 DEF StaticRead, StaticBadKey, StaticOom, Cleanup
<1>5. CASE EndStatic
  <2>1. /\ part # "closed" /\ part' = "closed" /\ confLines' = confLines
        /\ device'.given => device' = device \/ device'.peers = peers
    BY <1>5 DEF EndStatic, StaticEnd, Cleanup
  <2>2. ~ device.given /\ ArePeersOf(peers, confLines)
    BY <2>1 DEF CleanAt, PeersAt
  <2>3. QED
    BY <2>1, <2>2 DEF PeersAt, AppliedWhole
<1>6. CASE StaticLoaded
  BY <1>6 DEF StaticLoaded, PeersAt, AppliedWhole
<1>7. QED
  BY <1>1, <1>2, <1>3, <1>4, <1>5, <1>6 DEF Next, vars, Start, StartStep, Stop, Ask, Client,
     Server, Network, startup, main, OpenConfig, ReadConfig, CloseConfig, DbInit, PoolInit,
     ApiStart, ReaperStart, ReaperStop, DbClose, PoolDestroy, ApiStop

(* However long wg0.conf is, and however its sections and lines are mixed: *)
(* the peers that the kernel is given are those of the file, in its order, *)
(* each with the last key and all the addresses of its own section.        *)
THEOREM FileApplied == Spec => []AppliedWhole
<1>1. Init => PeersAt
  BY DEF Init, StartupInit, StaticInit, Untouched, PeersAt, AppliedWhole
<1>2. PeersAt => AppliedWhole
  BY DEF PeersAt
<1>3. QED
  BY <1>1, <1>2, StaticInvariant, CleanInvariant, PeersStep, PTL DEF Spec

-----------------------------------------------------------------------------
(* Types *)

Inputs == inputs \in 0 .. MaxInputs

Codes == {0, 200, 400, 413, 500}

(* What the invariants above do not say of the types of a request. *)
ExchangeTyped == /\ verdict \in {"none", "ok", "failed"}
                 /\ conn \in {"none", "open", "closed"}
                 /\ code \in Codes /\ reply \in Codes
                 /\ done \in BOOLEAN

HeldTyped == held \subseteq {"db", "bitmap", "tls_cert", "tls_key", "daemon", "thread"}

LEMMA InputsStep == Inputs /\ [Next]_vars => Inputs'
<1> SUFFICES ASSUME Inputs, [Next]_vars PROVE Inputs'
  OBVIOUS
<1>1. CASE inputs' = inputs
  BY <1>1 DEF Inputs
<1>2. CASE inputs < MaxInputs /\ inputs' = inputs + 1
  BY <1>2, StartupAssumption DEF Inputs
<1>3. CASE inputs + RequestInputs <= MaxInputs /\ inputs' = inputs + RequestInputs
  BY <1>3, StartupAssumption, DaemonAssumption DEF Inputs
<1>4. QED
  BY <1>1, <1>2, <1>3 DEF Next, vars, Start, StartStep, Stop, Ask, Client, Server, Network,
     startup, main, OpenConfig, ReadConfig, CloseConfig, DbInit, PoolInit, OpenStatic,
     ReadStatic, EndStatic, StaticLoaded, ApiStart, ReaperStart, ReaperStop, DbClose,
     PoolDestroy, ApiStop

LEMMA HeldTypedStep == HeldTyped /\ [Next]_vars => HeldTyped'
<1> SUFFICES ASSUME HeldTyped, [Next]_vars PROVE HeldTyped'
  OBVIOUS
<1>1. CASE held' \subseteq held \cup {"db", "bitmap", "thread"}
  BY <1>1 DEF HeldTyped
<1>2. CASE ApiStart
  <2>1. PICK files \in SUBSET TlsFiles :
           held' \in {held \cup files \cup {"daemon"}, held \cup files}
    BY <1>2 DEF ApiStart, FilesRead
  <2>2. files \subseteq {"tls_cert", "tls_key"}
    BY DEF TlsFiles
  <2>3. QED
    BY <2>1, <2>2 DEF HeldTyped
<1>3. QED
  BY <1>1, <1>2 DEF Next, vars, Start, StartStep, Stop, Ask, Client, Server, Network,
     startup, main, OpenConfig, ReadConfig, CloseConfig, DbInit, PoolInit, OpenStatic,
     ReadStatic, EndStatic, StaticLoaded, ReaperStart, ReaperStop, DbClose, PoolDestroy, ApiStop

LEMMA ExchangeTypedStep == ExchangeTyped /\ [Next]_vars => ExchangeTyped'
<1> SUFFICES ASSUME ExchangeTyped, [Next]_vars PROVE ExchangeTyped'
  OBVIOUS
<1> USE DEF ExchangeTyped, Codes
<1>1. CASE UNCHANGED <<verdict, conn, code, reply, done>>
  BY <1>1
<1>2. CASE Disconnect
  BY <1>2 DEF Disconnect, exchange, clientVars, wire, serverVars
<1>3. CASE Ask
  <2>1. PICK c \in {"curl", "winhttp"}, n \in Sizes : Request(c, n)
    BY <1>3 DEF Ask
  <2>2. QED
    BY <2>1 DEF Request
<1>4. CASE ClientStep
  <2>1. UNCHANGED <<reply, done>> /\ conn' \in {conn, "closed"} /\ code' \in {code, reply}
    BY <1>4 DEF ClientStep, WinAcquire, WinAcquireFails, Status, CurlReads, WinReads,
       CurlReturns, WinReturns, wire, serverVars
  <2>2. verdict' \in {verdict, "ok", "failed"}
    BY <1>4 DEF ClientStep, WinAcquire, WinAcquireFails, Status, CurlReads, WinReads,
       CurlReturns, WinReturns, Return
  <2>3. QED
    BY <2>1, <2>2
<1>5. CASE Connect \/ ConnectFails \/ Break
  BY <1>5 DEF Connect, ConnectFails, Break, clientVars, serverVars
<1>6. CASE RouterFirst
  BY <1>6 DEF RouterFirst, clientVars, wire
<1>7. CASE RouterUpload
  <2>1. CASE \E m \in Answers : Queue(413, m)
    BY <1>7, <2>1 DEF RouterUpload, Queue, clientVars
  <2>2. CASE UNCHANGED reply /\ conn' \in {conn, "closed"}
    BY <1>7, <2>2 DEF RouterUpload, clientVars
  <2>3. QED
    BY <1>7, <2>1, <2>2 DEF RouterUpload, Refuse
<1>8. CASE RouterDispatch
  <2>1. PICK m \in Answers, st \in {200, 400} : Queue(st, m) \/ Refuse
    BY <1>8 DEF RouterDispatch
  <2>2. reply' \in {reply, st, 500} /\ conn' \in {conn, "closed"}
    BY <2>1 DEF Queue, Refuse
  <2>3. done' = TRUE \/ done' = done
    BY <1>8, Zenon DEF RouterDispatch
  <2>4. UNCHANGED clientVars
    BY <1>8 DEF RouterDispatch
  <2>5. done' \in BOOLEAN
    BY <2>3
  <2>6. QED
    BY <2>2, <2>4, <2>5 DEF clientVars
<1>9. CASE RequestCompleted
  BY <1>9 DEF RequestCompleted, clientVars
<1>10. QED
  BY <1>1, <1>2, <1>3, <1>4, <1>5, <1>6, <1>7, <1>8, <1>9
  DEF Next, vars, Start, Stop, Client, Server, ServerStep, Network, exchange, clientVars,
      wire, serverVars

(* Every variable of the process and of a request keeps its type, for all  *)
(* files and faults.                                                       *)
THEOREM DaemonTypes == Spec => []DaemonTypeOK
<1>1. Init => Inputs /\ HeldTyped /\ ExchangeTyped
  <2>1. SUFFICES ASSUME Init PROVE Inputs /\ HeldTyped /\ ExchangeTyped
    OBVIOUS
  <2>2. Inputs
    BY <2>1, StartupAssumption DEF Init, StartupInit, Inputs
  <2>3. HeldTyped /\ ExchangeTyped
    BY <2>1 DEF Init, StartupInit, ExchangeInit, HeldTyped, ExchangeTyped, Codes
  <2>4. QED
    BY <2>2, <2>3
<1>2. ASSUME DInv, BodyAt, PoolInv, StaticAt, Inputs, HeldTyped, ExchangeTyped
      PROVE  DaemonTypeOK
  <2>1. pool # NoPool => Size(pool.block) \in 3 .. MaxPool
    <3>1. SUFFICES ASSUME PoolGood PROVE Size(pool.block) \in 3 .. MaxPool
      BY <1>2 DEF PoolInv, PoolAt
    <3>2. PICK c \in Cidr : c = pool.block /\ Usable(c)
      BY <3>1 DEF PoolGood
    <3>3. Size(c) = Hosts(c) /\ Hosts(c) \in Nat
      BY <3>2, SizeExact, HostsOf DEF Usable
    <3>4. Size(c) > 2 /\ Size(c) <= MaxPool
      BY <3>2 DEF Usable
    <3>5. QED
      BY <3>2, <3>3, <3>4, CidrAssumption
  <2>2. mine \subseteq CurlBlocks \cup WinHandles
    BY <1>2 DEF DInv, ClientAt, CurlBlocks, WinHandles
  <2>3. QED
    BY <1>2, <2>1, <2>2 DEF DInv, HeldAt, RouterAt, ClientAt, BodyAt, StaticAt, Inputs,
       HeldTyped, ExchangeTyped, Codes, DaemonTypeOK
<1>3. QED
  BY <1>1, <1>2, InputsStep, HeldTypedStep, ExchangeTypedStep, DaemonInvariant, BodyInvariant,
     PoolInvariant, StaticInvariant, PTL DEF Spec

=============================================================================
