----------------------------- MODULE FileProofs -----------------------------
(***************************************************************************)
(* Theorems about what the server makes of authd.conf, for all files and   *)
(* every width of an address: the settings and the pool.                   *)
(***************************************************************************)
EXTENDS DaemonProofs, FiniteSetTheorems, WellFoundedInduction

-----------------------------------------------------------------------------
(* Powers of two, counted as the subsets of 1 .. n *)

LEMMA PowerCounts ==
    ASSUME NEW n \in Nat
    PROVE  /\ IsFiniteSet(SUBSET (1 .. n))
           /\ Cardinality(SUBSET (1 .. n)) = 2 ^ n /\ 2 ^ n \in Nat
<1>1. IsFiniteSet(1..n) /\ Cardinality(1..n) = n
  BY FS_Interval
<1>2. IsFiniteSet(SUBSET (1..n)) /\ Cardinality(SUBSET (1..n)) = 2^Cardinality(1..n)
  BY <1>1, FS_SUBSET
<1>3. QED
  BY <1>1, <1>2, FS_CardinalityType

LEMMA PowerOfSum ==
    ASSUME NEW m \in Nat, NEW n \in Nat
    PROVE  2 ^ (m + n) = 2 ^ m * 2 ^ n
<1> DEFINE A == 1 .. m
           B == m + 1 .. m + n
           S == SUBSET (1 .. m + n)
           P == (SUBSET A) \X (SUBSET B)
           f == [T \in S |-> <<T \cap A, T \cap B>>]
<1>1. f \in Bijection(S, P)
  <2>1. \A T \in S : T \cap A \in SUBSET A /\ T \cap B \in SUBSET B
    OBVIOUS
  <2>2. f \in [S -> P]
    BY <2>1
  <2>3. \A T, U \in S : f[T] = f[U] => T = U
    <3>1. SUFFICES ASSUME NEW T \in S, NEW U \in S, f[T] = f[U] PROVE T = U
      OBVIOUS
    <3>2. T \cap A = U \cap A /\ T \cap B = U \cap B
      BY <3>1
    <3>3. 1..m+n = A \cup B
      OBVIOUS
    <3>4. T = (T \cap A) \cup (T \cap B) /\ U = (U \cap A) \cup (U \cap B)
      BY <3>3
    <3>5. QED
      BY <3>2, <3>4
  <2>4. \A p \in P : \E T \in S : f[T] = p
    <3>1. ASSUME NEW C \in SUBSET A, NEW D \in SUBSET B
          PROVE  \E T \in S : f[T] = <<C, D>>
      <4>1. A \cap B = {} /\ 1 .. m + n = A \cup B
        OBVIOUS
      <4>2. C \cup D \in S /\ (C \cup D) \cap A = C /\ (C \cup D) \cap B = D
        BY <4>1
      <4>3. f[C \cup D] = <<C, D>>
        BY <4>2
      <4>4. QED
        BY <4>2, <4>3
    <3> HIDE DEF A, B, S, f
    <3>2. \A p \in P : p = <<p[1], p[2]>> /\ p[1] \in SUBSET A /\ p[2] \in SUBSET B
      OBVIOUS
    <3> HIDE DEF P
    <3>3. ASSUME NEW p \in P
          PROVE  \E T \in S : f[T] = p
      <4> DEFINE C == p[1]
                 D == p[2]
      <4>1. C \in SUBSET A /\ D \in SUBSET B /\ p = <<C, D>>
        BY <3>2
      <4> HIDE DEF C, D
      <4>2. PICK T \in S : f[T] = <<C, D>>
        BY <3>1, <4>1
      <4>3. QED
        BY <4>1, <4>2
    <3>4. QED
      BY <3>3
  <2>5. QED
    BY <2>2, <2>3, <2>4 DEF Bijection, Injection, Surjection, IsInjective
<1>2. Cardinality(A) = m /\ Cardinality(B) = n
  <2>1. Cardinality(B) = IF m + 1 > m + n THEN 0 ELSE m + n - (m + 1) + 1
    BY FS_Interval
  <2>2. Cardinality(A) = IF 1 > m THEN 0 ELSE m - 1 + 1
    BY FS_Interval
  <2>3. QED
    BY <2>1, <2>2
<1>3. IsFiniteSet(A) /\ IsFiniteSet(B)
  BY FS_Interval
<1>4. IsFiniteSet(SUBSET A) /\ Cardinality(SUBSET A) = 2 ^ m
  BY PowerCounts
<1>5. IsFiniteSet(SUBSET B) /\ Cardinality(SUBSET B) = 2 ^ n
  <2> HIDE DEF A, B
  <2>1. Cardinality(SUBSET B) = 2 ^ Cardinality(B)
    BY <1>3, FS_SUBSET
  <2>2. QED
    BY <1>2, <1>3, <2>1, FS_SUBSET
<1>6. IsFiniteSet(S) /\ Cardinality(S) = 2 ^ (m + n)
  BY PowerCounts
<1> HIDE DEF A, B, S, f
<1>7. Cardinality(P) = 2 ^ m * 2 ^ n
  <2>1. Cardinality(P) = Cardinality(SUBSET A) * Cardinality(SUBSET B)
    BY <1>4, <1>5, FS_Product
  <2>2. QED
    BY <2>1, <1>4, <1>5
<1> HIDE DEF P
<1>8. Cardinality(S) = Cardinality(P)
  BY <1>1, <1>6, FS_Bijection DEF ExistsBijection
<1>9. QED
  BY <1>6, <1>7, <1>8

LEMMA PowersOfTwo == 2 ^ 0 = 1 /\ 2 ^ 1 = 2 /\ 2 ^ 2 = 4
<1>1. SUBSET (1 .. 1) = {{}, {1}} /\ SUBSET (1 .. 0) = {{}}
  OBVIOUS
<1>2. 2 ^ 1 = 2 /\ 2 ^ 0 = 1
  BY <1>1, PowerCounts, FS_Singleton, FS_AddElement
<1>3. 2 ^ (1 + 1) = 2 ^ 1 * 2 ^ 1
  BY PowerOfSum
<1>4. QED
  BY <1>2, <1>3
-----------------------------------------------------------------------------
(* Blocks *)

(* Division by n, as a quotient and a rest. *)
LEMMA Division ==
    ASSUME NEW a \in Nat, NEW n \in Nat \ {0}
    PROVE  /\ a \div n \in Nat /\ a % n \in 0 .. n - 1
           /\ a = n * (a \div n) + (a % n)
OBVIOUS

LEMMA QuotientUnique ==
    ASSUME NEW a \in Nat, NEW n \in Nat \ {0}, NEW q \in Nat, NEW r \in 0 .. n - 1,
           a = n * q + r
    PROVE  a \div n = q /\ a % n = r
<1> DEFINE p == a \div n
           s == a % n
<1>1. p \in Nat /\ s \in 0 .. n - 1 /\ a = n * p + s
  BY Division
<1> HIDE DEF p, s
<1>2. ASSUME p < q PROVE FALSE
  <2>1. n * (p + 1) <= n * q
    BY <1>1, <1>2
  <2>2. n * (p + 1) = n * p + n
    BY <1>1
  <2>3. QED
    BY <1>1, <2>1, <2>2
<1>3. ASSUME q < p PROVE FALSE
  <2>1. n * (q + 1) <= n * p
    BY <1>1, <1>3
  <2>2. n * (q + 1) = n * q + n
    OBVIOUS
  <2>3. QED
    BY <1>1, <2>1, <2>2
<1>4. p = q
  BY <1>1, <1>2, <1>3
<1>5. QED
  BY <1>1, <1>4 DEF p, s

(* The addresses of a block are a power of two, and divide the space. *)
LEMMA HostsOf ==
    ASSUME NEW c \in Cidr
    PROVE  /\ Hosts(c) \in Nat \ {0} /\ 2 ^ c.prefix \in Nat \ {0}
           /\ Space = Hosts(c) * 2 ^ c.prefix
           /\ c.addr \in 0 .. Space - 1
<1> DEFINE p == c.prefix
           h == W - c.prefix
<1>1. p \in Nat /\ h \in Nat /\ h + p = W /\ c.addr \in 0 .. Space - 1
  BY CidrAssumption DEF Cidr
<1> HIDE DEF p, h
<1>2. 2 ^ (h + p) = 2 ^ h * 2 ^ p /\ 2 ^ h \in Nat /\ 2 ^ p \in Nat /\ 2 ^ W \in Nat
  BY <1>1, PowerOfSum, PowerCounts, CidrAssumption
<1>3. 2 ^ h * 2 ^ p # 0
  BY <1>1, <1>2 DEF Space
<1>4. 2 ^ h # 0 /\ 2 ^ p # 0
  BY <1>2, <1>3
<1>5. QED
  BY <1>1, <1>2, <1>4 DEF Hosts, Space, p, h

(* The blocks that parse_cidr takes are those of four up to half of all    *)
(* addresses.                                                              *)
LEMMA ParsesBySize ==
    ASSUME NEW c \in Cidr, c # BadCidr
    PROVE  Parses(c) <=> Hosts(c) \in 4 .. Space \div 2
<1> DEFINE p == c.prefix
           h == W - c.prefix
<1>1. p \in 0 .. W /\ h \in Nat /\ W \in Nat /\ W >= 3 /\ h = W - p
  BY CidrAssumption DEF Cidr
<1>2. Hosts(c) = 2 ^ h /\ 2 ^ h \in Nat \ {0} /\ 2 ^ p \in Nat \ {0} /\ Space = 2 ^ h * 2 ^ p
  BY HostsOf DEF Hosts
<1> HIDE DEF p, h
<1>3. CASE p \in 1 .. W - 2
  <2>1. 2 ^ (h - 2) \in Nat /\ 2 ^ h = 4 * 2 ^ (h - 2)
    <3>1. h - 2 \in Nat /\ 2 + (h - 2) = h
      BY <1>1, <1>3
    <3>2. 2 ^ (2 + (h - 2)) = 2 ^ 2 * 2 ^ (h - 2) /\ 2 ^ (h - 2) \in Nat
      BY <3>1, PowerOfSum, PowerCounts
    <3>3. QED
      BY <3>1, <3>2, PowersOfTwo
  <2>2. 2 ^ (p - 1) \in Nat /\ 2 ^ p = 2 * 2 ^ (p - 1)
    <3>1. p - 1 \in Nat /\ 1 + (p - 1) = p
      BY <1>1, <1>3
    <3>2. 2 ^ (1 + (p - 1)) = 2 ^ 1 * 2 ^ (p - 1) /\ 2 ^ (p - 1) \in Nat
      BY <3>1, PowerOfSum, PowerCounts
    <3>3. QED
      BY <3>1, <3>2, PowersOfTwo
  <2>3. 2 ^ h >= 4
    BY <1>2, <2>1
  <2>4. 2 ^ (p - 1) >= 1 /\ Space = 2 * (2 ^ h * 2 ^ (p - 1))
    BY <1>2, <2>2
  <2>5. 2 ^ h <= 2 ^ h * 2 ^ (p - 1)
    BY <1>2, <2>2, <2>4
  <2>6. Space \div 2 = 2 ^ h * 2 ^ (p - 1)
    BY <1>2, <2>2, <2>4
  <2>7. QED
    BY <1>2, <1>3, <2>3, <2>5, <2>6 DEF Parses, p
<1>4. CASE p = 0
  <2>1. 2 ^ h = Space
    BY <1>2, <1>4, PowersOfTwo
  <2>2. ~ (Space <= Space \div 2)
    BY <1>2, <2>1
  <2>3. QED
    BY <1>2, <1>4, <2>1, <2>2 DEF Parses, p
<1>5. CASE p \in {W - 1, W}
  <2>1. h = 0 \/ h = 1
    BY <1>1, <1>5
  <2>2. 2 ^ h = 1 \/ 2 ^ h = 2
    <3>1. CASE h = 0
      BY <3>1, PowersOfTwo
    <3>2. CASE h = 1
      BY <3>2, PowersOfTwo
    <3>3. QED
      BY <2>1, <3>1, <3>2
  <2>3. QED
    BY <1>1, <1>2, <1>5, <2>2 DEF Parses, p
<1>6. QED
  BY <1>1, <1>3, <1>4, <1>5

(* The addresses from the lowest to the highest of a block are those with  *)
(* its prefix.                                                             *)
LEMMA BlockExact ==
    ASSUME NEW c \in Cidr
    PROVE  /\ Lowest(c) \in Nat
           /\ \A a \in 0 .. Space - 1 :
                 a \in Lowest(c) .. Highest(c) <=> a \div Hosts(c) = c.addr \div Hosts(c)
           /\ Lowest(c) .. Highest(c) \subseteq 0 .. Space - 1
           /\ Lowest(c) = Hosts(c) * (c.addr \div Hosts(c))
<1> DEFINE H == Hosts(c)
           K == 2 ^ c.prefix
           q == c.addr \div H
           r == c.addr % H
<1>1. /\ H \in Nat \ {0} /\ K \in Nat \ {0} /\ Space = H * K
      /\ c.addr \in Nat /\ c.addr < Space /\ Space \in Nat
  BY HostsOf
<1> HIDE DEF H, K
<1>2. q \in Nat /\ r \in 0 .. H - 1 /\ c.addr = H * q + r
  BY <1>1, Division
<1>3. Lowest(c) = c.addr - r /\ Highest(c) = Lowest(c) + H - 1
  BY DEF Lowest, Highest, H
<1> HIDE DEF q, r
<1>4. Lowest(c) = H * q /\ H * q \in Nat
  BY <1>1, <1>2, <1>3
<1>5. q < K
  <2>1. SUFFICES ASSUME q >= K PROVE FALSE
    BY <1>1, <1>2
  <2>2. H * K <= H * q
    BY <1>1, <1>2, <2>1
  <2>3. QED
    BY <1>1, <1>2, <1>4, <2>2
<1>6. H * q + H <= Space
  <2>1. H * (q + 1) <= H * K
    BY <1>1, <1>2, <1>5
  <2>2. H * (q + 1) = H * q + H
    BY <1>1, <1>2
  <2>3. QED
    BY <1>1, <2>1, <2>2
<1>7. ASSUME NEW a \in 0 .. Space - 1
      PROVE  a \in Lowest(c) .. Highest(c) <=> a \div H = q
  <2>1. ASSUME a \in Lowest(c) .. Highest(c) PROVE a \div H = q
    <3>1. a - H * q \in 0 .. H - 1 /\ a = H * q + (a - H * q) /\ a \in Nat
      BY <1>1, <1>3, <1>4, <2>1
    <3>2. QED
      BY <1>1, <1>2, <3>1, QuotientUnique
  <2>2. ASSUME a \div H = q PROVE a \in Lowest(c) .. Highest(c)
    <3>1. a \in Nat
      BY <1>1, <1>7
    <3>2. a = H * q + (a % H) /\ a % H \in 0 .. H - 1
      BY <1>1, <2>2, <3>1, Division
    <3>3. QED
      BY <1>1, <1>3, <1>4, <3>1, <3>2
  <2>3. QED
    BY <2>1, <2>2
<1>8. Lowest(c) .. Highest(c) \subseteq 0 .. Space - 1
  BY <1>1, <1>3, <1>4, <1>6
<1>9. QED
  BY <1>4, <1>7, <1>8 DEF H, q

(* A block that parses has no more addresses than num_ips can count. *)
LEMMA SizeExact ==
    ASSUME NEW c \in Cidr, Parses(c)
    PROVE  Size(c) = Hosts(c) /\ Hosts(c) >= 4
<1>1. Hosts(c) \in 4 .. Space \div 2 /\ Hosts(c) \in Nat /\ Space \in Nat \ {0}
  <2>1. c # BadCidr
    BY DEF Parses
  <2>2. Space \in Nat /\ c.addr \in 0 .. Space - 1 /\ Hosts(c) \in Nat
    BY HostsOf
  <2>3. QED
    BY <2>1, <2>2, ParsesBySize
<1>2. Lowest(c) \in Nat
  BY BlockExact
<1>3. Highest(c) - Lowest(c) + 1 = Hosts(c)
  BY <1>1, <1>2 DEF Highest
<1>4. Hosts(c) < Space
  BY <1>1
<1>5. Hosts(c) % Space = Hosts(c)
  BY <1>1, <1>4
<1>6. QED
  BY <1>1, <1>3, <1>5 DEF Size

LEMMA LeasesExact ==
    ASSUME NEW c \in Cidr, Usable(c), NEW x \in Cidr \cup {BadCidr}
    PROVE  LET In(a, b) == a \div Hosts(b) = b.addr \div Hosts(b)
           IN Leases(c, x) =
                {a \in 0 .. Space - 1 : /\ In(a, c)
                                        /\ a % Hosts(c) \notin {0, Hosts(c) - 1}
                                        /\ ~ (x # BadCidr /\ Hosts(x) \in 4 .. Space \div 2 /\ In(a, x))}
<1> DEFINE In(a, b) == a \div Hosts(b) = b.addr \div Hosts(b)
           H == Hosts(c)
           L == Lowest(c)
           q == c.addr \div H
           Inside(a) == In(a, c) /\ a % H \notin {0, H - 1}
           Out(a) == x # BadCidr /\ Hosts(x) \in 4 .. Space \div 2 /\ In(a, x)
<1>1. Parses(c)
  BY DEF Usable
<1>2. Size(c) = H /\ H >= 4
  BY <1>1, SizeExact
<1>3. H \in Nat \ {0} /\ Space \in Nat
  BY HostsOf
<1>4. L \in Nat /\ L = H * q /\ L .. L + H - 1 \subseteq 0 .. Space - 1
  BY BlockExact DEF Highest
<1>5. ASSUME NEW a \in 0 .. Space - 1
      PROVE  Inside(a) <=> a \in L + 1 .. L + H - 2
  <2>1. a \in L .. L + H - 1 <=> a \div H = q
    BY BlockExact DEF Highest
  <2>2. a \in Nat
    BY <1>3, <1>5
  <2> HIDE DEF H, L, q
  <2>3. a = H * (a \div H) + (a % H) /\ a % H \in 0 .. H - 1
    BY <1>3, <2>2, Division
  <2>4. CASE a \div H = q
    <3>1. a = L + (a % H)
      BY <1>4, <2>3, <2>4
    <3>2. PICK r \in 0 .. H - 1 : r = a % H
      BY <2>3
    <3>3. r \notin {0, H - 1} <=> a \in L + 1 .. L + H - 2
      BY <1>2, <1>3, <1>4, <2>2, <3>1, <3>2
    <3>4. Inside(a) <=> a % H \notin {0, H - 1}
      BY <2>4 DEF H, q
    <3>5. QED
      BY <3>2, <3>3, <3>4
  <2>5. CASE a \div H # q
    BY <1>2, <1>3, <1>4, <2>1, <2>2, <2>5 DEF H, q
  <2>6. QED
    BY <2>4, <2>5
<1>6. ASSUME NEW a \in 0 .. Space - 1, Inside(a)
      PROVE  a \in ExcludedBy(x) <=> Out(a)
  <2>1. CASE x = BadCidr
    <3>1. ~ Parses(x) /\ ExcludedBy(x) = {0}
      BY <2>1 DEF Parses, ExcludedBy
    <3>2. a # 0
      BY <1>2, <1>3, <1>4, <1>5, <1>6
    <3>3. QED
      BY <2>1, <3>1, <3>2
  <2>2. CASE x # BadCidr /\ Parses(x)
    BY <1>6, <2>2, ParsesBySize, BlockExact DEF ExcludedBy
  <2>3. CASE x # BadCidr /\ ~ Parses(x)
    <3>1. ExcludedBy(x) = {0} /\ ~ (Hosts(x) \in 4 .. Space \div 2)
      BY <2>3, ParsesBySize DEF ExcludedBy
    <3>2. a # 0
      BY <1>2, <1>3, <1>4, <1>5, <1>6
    <3>3. QED
      BY <3>1, <3>2
  <2>4. QED
    BY <2>1, <2>2, <2>3
<1>7. {L + i : i \in 1 .. Size(c) - 2} = L + 1 .. L + H - 2
  <2> HIDE DEF H, L
  <2>1. \A i \in 1 .. H - 2 : L + i \in L + 1 .. L + H - 2
    BY <1>2, <1>3, <1>4
  <2>2. \A a \in L + 1 .. L + H - 2 : a - L \in 1 .. H - 2 /\ a = L + (a - L)
    BY <1>2, <1>3, <1>4
  <2>3. QED
    BY <1>2, <2>1, <2>2
<1>8. L + 1 .. L + H - 2 = {a \in 0 .. Space - 1 : Inside(a)}
  <2>1. L + 1 .. L + H - 2 \subseteq 0 .. Space - 1
    <3> HIDE DEF H, L
    <3>1. L + 1 .. L + H - 2 \subseteq L .. L + H - 1
      BY <1>2, <1>3, <1>4
    <3>2. QED
      BY <1>4, <3>1
  <2> HIDE DEF H, L, Inside
  <2>2. QED
    BY <1>5, <2>1
<1>9. Leases(c, x) = {a \in 0 .. Space - 1 : Inside(a)} \ ExcludedBy(x)
  BY <1>7, <1>8 DEF Leases
<1>10. Leases(c, x) = {a \in 0 .. Space - 1 : Inside(a) /\ ~ Out(a)}
  <2> HIDE DEF Inside, Out
  <2>1. QED
    BY <1>6, <1>9
<1>11. QED
  BY <1>10

-----------------------------------------------------------------------------
(* The pool *)

(* What the two lines of [ip_pool] may set. *)
CidrSettings == \A key \in {"cidr", "exclude"} : setting[key] \in Cidr \cup {BadCidr, Unset}

PoolGood == /\ pool.block \in Cidr /\ Usable(pool.block)
            /\ pool.exclude \in Cidr \cup {BadCidr}

PoolAt == /\ pool = NoPool \/ PoolGood
          /\ "bitmap" \in held => PoolGood

PoolInv == CidrSettings /\ PoolAt

LEMMA CidrSettingsStep ==
    SettingFunction /\ CidrSettings /\ [Next]_vars => CidrSettings'
<1> SUFFICES ASSUME SettingFunction, CidrSettings, [Next]_vars PROVE CidrSettings'
  OBVIOUS
<1>1. CASE setting' = setting
  BY <1>1 DEF CidrSettings
<1>2. CASE OpenConfig
  BY <1>2 DEF OpenConfig, SetDefaults, CidrSettings, Key, TextKeys, NumberKeys, Default
<1>3. CASE ReadConfig
  <2>1. PICK l \in ConfigLines : ConfigLine(l)
    BY <1>3 DEF ReadConfig
  <2>2. CASE /\ l.kind = "key" /\ l.key \in Key
             /\ setting' = [setting EXCEPT ![l.key] = Converted(l.value, l.key)]
    <3>1. ASSUME NEW key \in {"cidr", "exclude"}
          PROVE  setting'[key] \in Cidr \cup {BadCidr, Unset}
      <4>1. key \in Key /\ key \notin DOMAIN NumberKeys
        BY <3>1 DEF Key, TextKeys, NumberKeys
      <4>2. setting'[key] = IF key = l.key THEN Converted(l.value, l.key) ELSE setting[key]
        BY <2>2, <4>1 DEF SettingFunction
      <4>3. CASE key = l.key
        BY <2>2, <4>1, <4>2, <4>3, LinesAssumption DEF Converted
      <4>4. CASE key # l.key
        BY <4>2, <4>4 DEF CidrSettings
      <4>5. QED
        BY <4>3, <4>4
    <3>2. QED
      BY <3>1 DEF CidrSettings
  <2>3. QED
    BY <1>1, <2>1, <2>2 DEF ConfigLine, Header, Assignment
<1>4. QED
  BY <1>1, <1>2, <1>3 DEF Next, vars, Start, StartStep, Stop, Ask, Client, Server, Network,
     startup, config, CloseConfig, DbInit, PoolInit, OpenStatic, ReadStatic, EndStatic,
     StaticLoaded, ApiStart, ReaperStart, ReaperStop, DbClose, PoolDestroy, ApiStop

LEMMA PoolStep == PoolInv /\ [Next]_vars => PoolAt'
<1> SUFFICES ASSUME PoolInv, [Next]_vars PROVE PoolAt'
  OBVIOUS
<1>1. CASE pool' = pool /\ ("bitmap" \in held' => "bitmap" \in held)
  BY <1>1 DEF PoolInv, PoolAt, PoolGood
<1>2. CASE PoolInit
  <2>1. CASE /\ Usable(PoolCidr)
             /\ pool' = [block |-> PoolCidr, exclude |-> Exclude]
    <3>1. PoolCidr \in Cidr
      BY <2>1, LinesAssumption DEF PoolInv, CidrSettings, PoolCidr, Usable, Parses
    <3>2. Exclude \in Cidr \cup {BadCidr}
      BY DEF PoolInv, CidrSettings, Exclude
    <3>3. QED
      BY <2>1, <3>1, <3>2 DEF PoolAt, PoolGood
  <2>2. QED
    BY <1>1, <1>2, <2>1 DEF PoolInit
<1>3. CASE ApiStart
  <2>1. PICK files \in SUBSET TlsFiles :
           held' \in {held \cup files \cup {"daemon"}, held \cup files}
    BY <1>3 DEF ApiStart, FilesRead
  <2>2. "bitmap" \notin files
    BY <2>1 DEF TlsFiles
  <2>3. QED
    BY <1>1, <1>3, <2>1, <2>2 DEF ApiStart
<1>4. QED
  BY <1>1, <1>2, <1>3 DEF Next, vars, Start, StartStep, Stop, Ask, Client, Server, Network,
     startup, main, OpenConfig, ReadConfig, CloseConfig, DbInit, OpenStatic, ReadStatic,
     EndStatic, StaticLoaded, ReaperStart, ReaperStop, DbClose, PoolDestroy, ApiStop

LEMMA PoolInvariant == Spec => []PoolInv
<1>1. Init => PoolInv
  <2>1. \A key \in {"cidr", "exclude"} : key \in Key /\ Default(key) = Unset
    BY DEF Key, TextKeys, NumberKeys, Default
  <2>2. QED
    BY <2>1 DEF Init, StartupInit, PoolInv, CidrSettings, PoolAt
<1>2. DInv /\ PoolInv /\ [Next]_vars => PoolInv'
  BY CidrSettingsStep, PoolStep DEF DInv, PoolInv
<1>3. QED
  BY <1>1, <1>2, DaemonInvariant, PTL DEF Spec

(* Whatever authd.conf says of the pool and of the exclude, and however    *)
(* wide an address is, the masks of ip_pool_init give the addresses that   *)
(* have the one prefix and not the other.                                  *)
THEOREM PoolIsExact == Spec => []PoolExact
<1>1. PoolInv => PoolExact
  <2> SUFFICES ASSUME PoolGood PROVE PoolExact
    BY DEF PoolInv, PoolAt, PoolExact
  <2>1. QED
    BY LeasesExact DEF PoolGood, PoolExact
<1>2. QED
  BY <1>1, PoolInvariant, PTL

-----------------------------------------------------------------------------
(* The last of several lines *)

(* A bounded set of numbers that is not empty has a greatest. *)
LEMMA GreatestExists ==
    ASSUME NEW n \in Nat, NEW S \in SUBSET (1 .. n), S # {}
    PROVE  Max(S) \in S /\ \A y \in S : Max(S) >= y
<1> DEFINE From(k) == S \cap (k .. n)
           R == StrictSubsetOrdering(1 .. n)
           F == FiniteSubsetsOf(1 .. n)
           T == {From(k) : k \in S}
<1>1. IsWellFoundedOn(R, F)
  BY FS_Interval, FS_StrictSubsetOrderingWellFounded
<1>2. F = SUBSET (1 .. n) /\ T \subseteq F
  <2>1. IsFiniteSet(1 .. n)
    BY FS_Interval
  <2>2. F = SUBSET (1 .. n)
    BY <2>1, FS_FiniteSubsetsOfFinite
  <2> HIDE DEF F
  <2>3. \A k \in S : From(k) \in SUBSET (1 .. n)
    OBVIOUS
  <2>4. QED
    BY <2>2, <2>3
<1>3. T # {}
  OBVIOUS
<1> HIDE DEF R, F, T
<1>4. PICK U \in T : \A V \in T : ~ (<<V, U>> \in R)
  BY <1>1, <1>2, <1>3, WFMin
<1>5. PICK k \in S : U = From(k)
  BY <1>4 DEF T
<1>6. ASSUME NEW y \in S, y > k PROVE FALSE
  <2>1. From(y) \subseteq From(k) /\ k \in From(k) /\ k \notin From(y)
    BY <1>6
  <2>2. From(y) \in T
    BY DEF T
  <2> HIDE DEF From
  <2>3. From(y) \in SUBSET (1 .. n) /\ U \in SUBSET (1 .. n)
        /\ From(y) \subseteq U /\ From(y) # U
    BY <1>2, <1>4, <1>5, <2>1, <2>2
  <2> DEFINE V == From(y)
  <2>4. V \in SUBSET (1 .. n) /\ V \subseteq U /\ V # U
    BY <2>3
  <2> HIDE DEF V
  <2>5. <<V, U>> \in R
    BY <2>3, <2>4 DEF R, StrictSubsetOrdering
  <2>6. QED
    BY <1>4, <2>2, <2>5 DEF V
<1>7. \A y \in S : k >= y
  BY <1>6
<1>8. QED
  BY <1>7 DEF Max

LEMMA GreatestIsLast ==
    ASSUME NEW n \in Nat, NEW S \in SUBSET (1 .. n + 1), n + 1 \in S
    PROVE  Max(S) = n + 1
<1>1. S # {} /\ n + 1 \in Nat
  OBVIOUS
<1>2. Max(S) \in S /\ Max(S) >= n + 1
  BY <1>1, GreatestExists
<1>3. Max(S) \in 1 .. n + 1
  BY <1>2
<1>4. QED
  BY <1>2, <1>3

(* The headers before line i, and the lines that set key. *)
Heads(ls, i) == {j \in 1 .. i - 1 : ls[j].kind = "header"}
Sets(ls, key) == {i \in DOMAIN ls : /\ ls[i].kind = "key"
                                    /\ ls[i].key = key
                                    /\ SectionAt(ls, i) = SectionOf(key)}
Says(ls, key) == IF Sets(ls, key) = {} THEN Default(key)
                 ELSE Converted(ls[Max(Sets(ls, key))].value, key)

LEMMA LineAdded ==
    ASSUME NEW ls \in Seq(ConfigLines), NEW l \in ConfigLines
    PROVE  /\ Append(ls, l) \in Seq(ConfigLines)
           /\ Len(ls) \in Nat /\ DOMAIN ls = 1 .. Len(ls)
           /\ Len(Append(ls, l)) = Len(ls) + 1
           /\ DOMAIN Append(ls, l) = 1 .. Len(ls) + 1
           /\ \A i \in 1 .. Len(ls) : Append(ls, l)[i] = ls[i]
           /\ Append(ls, l)[Len(ls) + 1] = l
OBVIOUS

(* A line does not change the section of those before it, nor its own. *)
LEMMA SectionKept ==
    ASSUME NEW ls \in Seq(ConfigLines), NEW l \in ConfigLines, NEW i \in 1 .. Len(ls) + 1
    PROVE  SectionAt(Append(ls, l), i) = SectionAt(ls, i)
<1> DEFINE t == Append(ls, l)
<1>1. /\ Len(ls) \in Nat
      /\ \A j \in 1 .. Len(ls) : t[j] = ls[j]
  BY LineAdded
<1> HIDE DEF t
<1>2. 1 .. i - 1 \subseteq 1 .. Len(ls) /\ i - 1 \in Nat
  BY <1>1
<1>3. Heads(t, i) = Heads(ls, i)
  BY <1>1, <1>2 DEF Heads
<1>4. Heads(ls, i) # {} => t[Max(Heads(ls, i))] = ls[Max(Heads(ls, i))]
  <2>1. Heads(ls, i) \in SUBSET (1 .. i - 1)
    BY DEF Heads
  <2>2. Heads(ls, i) # {} => Max(Heads(ls, i)) \in Heads(ls, i)
    BY <1>2, <2>1, GreatestExists
  <2>3. QED
    BY <1>1, <1>2, <2>1, <2>2
<1>5. QED
  BY <1>3, <1>4 DEF SectionAt, Heads, t

(* The section of the line after it is the one that it names, if any. *)
LEMMA SectionNext ==
    ASSUME NEW ls \in Seq(ConfigLines), NEW l \in ConfigLines
    PROVE  SectionAt(Append(ls, l), Len(ls) + 2) =
               IF l.kind = "header" THEN l.name ELSE SectionAt(ls, Len(ls) + 1)
<1> DEFINE t == Append(ls, l)
           n == Len(ls)
<1>1. n \in Nat /\ t[n + 1] = l /\ \A j \in 1 .. n : t[j] = ls[j]
  BY LineAdded
<1> HIDE DEF t, n
<1>2. 1 .. (n + 2) - 1 = (1 .. n) \cup {n + 1} /\ 1 .. (n + 1) - 1 = 1 .. n
  BY <1>1
<1>3. Heads(t, n + 2) = Heads(ls, n + 1) \cup (IF l.kind = "header" THEN {n + 1} ELSE {})
  BY <1>1, <1>2 DEF Heads
<1>4. Heads(ls, n + 1) \in SUBSET (1 .. n) /\ Heads(t, n + 2) \in SUBSET (1 .. n + 1)
  BY <1>1, <1>2 DEF Heads
<1>5. CASE l.kind = "header"
  <2>1. n + 1 \in Heads(t, n + 2)
    BY <1>3, <1>5
  <2>2. Max(Heads(t, n + 2)) = n + 1
    BY <1>1, <1>4, <2>1, GreatestIsLast
  <2>3. QED
    BY <1>1, <1>5, <2>1, <2>2 DEF SectionAt, Heads, t, n
<1>6. CASE l.kind # "header"
  <2>1. Heads(t, n + 2) = Heads(ls, n + 1)
    BY <1>3, <1>6
  <2>2. Heads(ls, n + 1) # {} => t[Max(Heads(ls, n + 1))] = ls[Max(Heads(ls, n + 1))]
    BY <1>1, <1>4, GreatestExists
  <2>3. QED
    BY <1>6, <2>1, <2>2 DEF SectionAt, Heads, t, n
<1>7. QED
  BY <1>5, <1>6

(* A line that sets key in the right section is the last that does. *)
LEMMA SaysNext ==
    ASSUME NEW ls \in Seq(ConfigLines), NEW l \in ConfigLines, NEW key
    PROVE  Says(Append(ls, l), key) =
               IF /\ l.kind = "key" /\ l.key = key
                  /\ SectionAt(ls, Len(ls) + 1) = SectionOf(key)
               THEN Converted(l.value, key) ELSE Says(ls, key)
<1> DEFINE t == Append(ls, l)
           n == Len(ls)
           Sets1 == /\ l.kind = "key" /\ l.key = key
                      /\ SectionAt(ls, n + 1) = SectionOf(key)
<1>1. /\ n \in Nat /\ t[n + 1] = l /\ \A j \in 1 .. n : t[j] = ls[j]
      /\ DOMAIN ls = 1 .. n /\ DOMAIN t = 1 .. n + 1
  BY LineAdded
<1>2. \A i \in 1 .. n + 1 : SectionAt(t, i) = SectionAt(ls, i)
  BY SectionKept
<1> HIDE DEF t, n
<1>3. Sets(t, key) = Sets(ls, key) \cup (IF Sets1 THEN {n + 1} ELSE {})
  <2>1. 1 .. n + 1 = (1 .. n) \cup {n + 1}
    BY <1>1
  <2>2. QED
    BY <1>1, <1>2, <2>1 DEF Sets
<1>4. Sets(ls, key) \in SUBSET (1 .. n) /\ Sets(t, key) \in SUBSET (1 .. n + 1)
  BY <1>1 DEF Sets
<1>5. CASE Sets1
  <2>1. n + 1 \in Sets(t, key)
    BY <1>3, <1>5
  <2>2. Max(Sets(t, key)) = n + 1
    BY <1>1, <1>4, <2>1, GreatestIsLast
  <2>3. QED
    BY <1>1, <1>5, <2>1, <2>2 DEF Says, t, n
<1>6. CASE ~ Sets1
  <2>1. Sets(t, key) = Sets(ls, key)
    BY <1>3, <1>6
  <2>2. Sets(ls, key) # {} => t[Max(Sets(ls, key))] = ls[Max(Sets(ls, key))]
    BY <1>1, <1>4, GreatestExists
  <2>3. QED
    BY <1>6, <2>1, <2>2 DEF Says, t, n
<1>7. QED
  BY <1>5, <1>6

-----------------------------------------------------------------------------
(* authd.conf *)

(* While it is read, the section and the settings are those of the lines   *)
(* so far.                                                                 *)
ConfigAt ==
    phase = "config" =>
        /\ lines \in Seq(ConfigLines)
        /\ section = SectionAt(lines, Len(lines) + 1)
        /\ \A key \in Key : setting[key] = Says(lines, key)

LEMMA ReadConfigStep ==
    ASSUME SettingFunction, ConfigAt, ReadConfig
    PROVE  ConfigAt'
<1>1. PICK l \in ConfigLines : ConfigLine(l)
  BY DEF ReadConfig
<1>2. /\ lines \in Seq(ConfigLines) /\ section = SectionAt(lines, Len(lines) + 1)
      /\ \A key \in Key : setting[key] = Says(lines, key)
  BY DEF ConfigAt, ReadConfig
<1>3. lines' = Append(lines, l) /\ (Header(l) \/ Assignment(l))
  BY <1>1 DEF ConfigLine
<1>4. lines' \in Seq(ConfigLines) /\ Len(lines') + 1 = Len(lines) + 2
  BY <1>2, <1>3, LineAdded
<1>5. SectionAt(lines', Len(lines') + 1) =
          IF l.kind = "header" THEN l.name ELSE section
  BY <1>2, <1>3, <1>4, SectionNext
<1>6. section' = SectionAt(lines', Len(lines') + 1)
  BY <1>3, <1>5 DEF Header, Assignment
<1>7. ASSUME NEW key \in Key
      PROVE  setting'[key] = Says(lines', key)
  <2>1. Says(lines', key) =
            IF l.kind = "key" /\ l.key = key /\ section = SectionOf(key)
            THEN Converted(l.value, key) ELSE setting[key]
    BY <1>2, <1>3, SaysNext
  <2>2. CASE Header(l)
    BY <2>1, <2>2 DEF Header
  <2>3. CASE Assignment(l) /\ l.key \in Key /\ SectionOf(l.key) = section
    <3>1. setting'[key] = IF key = l.key THEN Converted(l.value, l.key) ELSE setting[key]
      BY <2>3 DEF Assignment, SettingFunction
    <3>2. QED
      BY <2>1, <2>3, <3>1 DEF Assignment
  <2>4. CASE Assignment(l) /\ ~ (l.key \in Key /\ SectionOf(l.key) = section)
    BY <2>1, <2>4 DEF Assignment
  <2>5. QED
    BY <1>3, <2>2, <2>3, <2>4
<1>8. QED
  BY <1>4, <1>6, <1>7 DEF ConfigAt

LEMMA ConfigStep == SettingFunction /\ ConfigAt /\ [Next]_vars => ConfigAt'
<1> SUFFICES ASSUME SettingFunction, ConfigAt, [Next]_vars PROVE ConfigAt'
  OBVIOUS
<1>1. CASE UNCHANGED <<phase, config>>
  BY <1>1 DEF ConfigAt, config
<1>2. CASE phase' # "config"
  BY <1>2 DEF ConfigAt
<1>3. CASE OpenConfig
  <2>1. lines' = <<>> /\ section' = "none" /\ \A key \in Key : setting'[key] = Default(key)
    BY <1>3 DEF OpenConfig, SetDefaults
  <2>2. SectionAt(<<>>, 1) = "none"
    BY DEF SectionAt
  <2>3. \A key : Says(<<>>, key) = Default(key)
    BY DEF Says, Sets
  <2>4. <<>> \in Seq(ConfigLines) /\ Len(<<>>) = 0
    OBVIOUS
  <2>5. QED
    BY <2>1, <2>2, <2>3, <2>4 DEF ConfigAt
<1>4. CASE ReadConfig
  BY <1>4, ReadConfigStep
<1>5. QED
  BY <1>1, <1>2, <1>3, <1>4 DEF Next, vars, Start, StartStep, Stop, Ask, Client, Server,
     Network, startup, main, CloseConfig, DbInit, PoolInit, OpenStatic, ReadStatic, EndStatic,
     StaticLoaded, ApiStart, ReaperStart, ReaperStop, DbClose, PoolDestroy, ApiStop

(* However long authd.conf is, and in whatever order its sections and keys *)
(* come: each setting is what the last line in the right section says, or  *)
(* the default.                                                            *)
THEOREM LastLineWins == Spec => []ConfigMatchesFile
<1>1. Init => ConfigAt
  BY DEF Init, StartupInit, ConfigAt
<1>2. DInv /\ ConfigAt /\ [Next]_vars => ConfigAt'
  BY ConfigStep DEF DInv
<1>3. ConfigAt => ConfigMatchesFile
  BY DEF ConfigAt, Says, Sets, ConfigMatchesFile
<1>4. QED
  BY <1>1, <1>2, <1>3, DaemonInvariant, PTL DEF Spec
=============================================================================
