-------------------------- MODULE RateLimiterProofs --------------------------
(***************************************************************************)
(* The table of failed logins counts exactly for an address that shares    *)
(* its slots with no other, and refuses none without reason, for every     *)
(* size of the table and every hash.                                       *)
(***************************************************************************)
EXTENDS RateLimiter, TLAPS

(* An entry of an address is in a slot that its search may use. *)
Placed == \A s \in Slot : table[s].ip # NoIp => s \in Reach(table[s].ip)

(* An entry in use counts at least one failure. *)
Counting == \A s \in Slot : table[s].ip # NoIp => table[s].count > 0

(* While a login is in progress the entry of its address is below the      *)
(* limit, so that one more failure keeps it within.                        *)
Room == attempt # NoIp =>
            \A i \in 0 .. (Probes - 1) :
                /\ StopsAt(attempt, i)
                /\ table[SlotAt(attempt, i)].ip = attempt
                => table[SlotAt(attempt, i)].count < MaxFails

(* The inductive invariant. *)
LInv == LimiterTypeOK /\ Placed /\ Counting /\ Room

(* The first probe is the hash itself. *)
LEMMA FirstProbe ==
    ASSUME NEW p \in Ip
    PROVE  /\ Hash[p] \in Slot
           /\ SlotAt(p, 0) = Hash[p]
           /\ 0 \in 0 .. (Probes - 1)
           /\ Hash[p] \in Reach(p)
<1>1. Hash[p] \in 0 .. (Slots - 1) /\ Slots \in Nat \ {0} /\ Probes \in 1 .. Slots
  BY LimiterAssumption
<1>2. \A h \in Nat, n \in Nat \ {0} : h < n => (h + 0) % n = h
  OBVIOUS
<1>3. SlotAt(p, 0) = Hash[p]
  BY <1>1, <1>2 DEF SlotAt
<1>4. QED
  BY <1>1, <1>3 DEF Slot, Reach

(* Every probe is a slot. *)
LEMMA ProbesAreSlots ==
    ASSUME NEW p \in Ip, NEW i \in 0 .. (Probes - 1)
    PROVE  SlotAt(p, i) \in Slot /\ SlotAt(p, i) \in Reach(p)
BY LimiterAssumption DEF SlotAt, Slot, Reach

(* After a step that only empties slots, a search that ends at an entry of *)
(* its address ended there before.                                         *)
LEMMA SearchAfterReset ==
    ASSUME NEW p \in Ip, NEW i \in 0 .. (Probes - 1), LimiterTypeOK,
           \A s \in Slot : table'[s] \in {table[s], Empty},
           StopsAt(p, i)', table'[SlotAt(p, i)].ip = p
    PROVE  /\ StopsAt(p, i)
           /\ table'[SlotAt(p, i)] = table[SlotAt(p, i)]
<1>1. \A j \in 0 .. (Probes - 1) : SlotAt(p, j) \in Slot
  BY ProbesAreSlots
<1>2. \A s \in Slot : table'[s].ip # NoIp => table'[s] = table[s]
  BY DEF Empty
<1>3. p # NoIp
  BY LimiterAssumption
<1>4. table'[SlotAt(p, i)] = table[SlotAt(p, i)]
  BY <1>1, <1>2, <1>3
<1>5. ASSUME NEW j \in 0 .. (i - 1)
      PROVE  table[SlotAt(p, j)].ip \notin {p, NoIp}
  <2>1. j \in 0 .. (Probes - 1)
    BY LimiterAssumption
  <2>2. table'[SlotAt(p, j)].ip \notin {p, NoIp}
    BY DEF StopsAt, SlotAt
  <2>3. QED
    BY <1>1, <1>2, <2>1, <2>2
<1>6. QED
  BY <1>3, <1>4, <1>5 DEF StopsAt

(* The inductive invariant holds at the start. *)
LEMMA LimiterInit == Init => LInv
<1> SUFFICES ASSUME Init PROVE LInv
  OBVIOUS
<1>1. Empty \in Entry
  BY LimiterAssumption DEF Empty, Entry
<1>2. [age \in 0 .. Window |-> 0] \in [0 .. Window -> Nat]
  OBVIOUS
<1>3. LimiterTypeOK
  BY <1>1, <1>2 DEF Init, LimiterTypeOK
<1>4. \A s \in Slot : table[s].ip = NoIp
  BY DEF Init, Empty
<1>5. Placed /\ Counting /\ Room
  BY <1>4 DEF Init, Placed, Counting, Room
<1>6. QED
  BY <1>3, <1>5 DEF LInv

(* A login let through keeps the invariant: the entry that Room is about   *)
(* was looked at, and is below the limit or reset.                         *)
LEMMA CheckKeeps ==
    ASSUME LInv, NEW p \in Ip, Check(p)
    PROVE  LInv'
<1>1. \A s \in Slot : table'[s] \in {table[s], Empty}
  BY DEF Check
<1>2. Empty \in Entry /\ Empty.ip = NoIp
  BY LimiterAssumption DEF Empty, Entry
<1>3. table' \in [Slot -> Entry]
  <2>1. DOMAIN table' = Slot /\ table' = [s \in Slot |-> table'[s]]
    BY DEF Check
  <2>2. QED
    BY <1>1, <1>2, <2>1 DEF LInv, LimiterTypeOK
<1>4. LimiterTypeOK'
  BY <1>3 DEF LInv, LimiterTypeOK, Check, Slot, Entry
<1>5. Placed' /\ Counting'
  BY <1>1, <1>2 DEF LInv, Placed, Counting, Slot, Reach, SlotAt
<1>6. Room'
  <2> SUFFICES ASSUME NEW i \in 0 .. (Probes - 1),
                      StopsAt(p, i)', table'[SlotAt(p, i)].ip = p
               PROVE  table'[SlotAt(p, i)].count < MaxFails
    BY DEF Room, Check, SlotAt, StopsAt
  <2>1. StopsAt(p, i) /\ table'[SlotAt(p, i)] = table[SlotAt(p, i)]
    BY <1>1, SearchAfterReset DEF LInv
  <2>2. SlotAt(p, i) \in Slot /\ p # NoIp
    BY ProbesAreSlots, LimiterAssumption
  <2>3. ~ WindowOver(table[SlotAt(p, i)])
    BY <1>2, <2>1, <2>2 DEF Check
  <2>4. table[SlotAt(p, i)].count \in Nat
    BY <2>2 DEF LInv, LimiterTypeOK, Entry
  <2>5. QED
    BY <2>1, <2>3, <2>4, LimiterAssumption DEF Check, Locked
<1>7. QED
  BY <1>4, <1>5, <1>6 DEF LInv

(* A recorded failure keeps the invariant: the slot where the search stops *)
(* gets the entry of the address, with room for the count.                 *)
LEMMA RecordKeeps ==
    ASSUME LInv, Record
    PROVE  LInv'
<1> DEFINE Here(s) == \E i \in 0 .. (Probes - 1) : StopsAt(attempt, i) /\ s = SlotAt(attempt, i)
<1>1. attempt \in Ip /\ attempt' = NoIp /\ clock' = clock /\ clock \in Nat
  BY DEF Record, LInv, LimiterTypeOK
<1>2. \A s \in Slot : table'[s] = IF Here(s) THEN EntryAfter(table[s], attempt) ELSE table[s]
  BY DEF Record
<1>3. ASSUME NEW s \in Slot, Here(s)
      PROVE  /\ table'[s] \in Entry
             /\ table'[s].ip = attempt
             /\ table'[s].count > 0
             /\ s \in Reach(attempt)
  <2>1. PICK i \in 0 .. (Probes - 1) : StopsAt(attempt, i) /\ s = SlotAt(attempt, i)
    BY <1>3
  <2>2. s \in Reach(attempt)
    BY <1>1, <2>1, ProbesAreSlots
  <2>3. table'[s] = EntryAfter(table[s], attempt) /\ table[s] \in Entry
    BY <1>2, <1>3 DEF LInv, LimiterTypeOK
  <2>4. CASE table[s].ip = NoIp \/ WindowOver(table[s])
    <3>1. table'[s] = [ip |-> attempt, count |-> 1, first |-> clock]
      BY <2>3, <2>4 DEF EntryAfter
    <3>2. 1 \in 0 .. MaxFails
      BY LimiterAssumption
    <3>3. QED
      BY <1>1, <2>2, <3>1, <3>2 DEF Entry
  <2>5. CASE ~ (table[s].ip = NoIp \/ WindowOver(table[s]))
    <3>1. table'[s] = [table[s] EXCEPT !.count = @ + 1]
      BY <2>3, <2>5 DEF EntryAfter
    <3>2. table[s].ip = attempt
      BY <2>1, <2>5 DEF StopsAt
    <3>3. table[s].count < MaxFails
      BY <1>1, <2>1, <3>2, LimiterAssumption DEF LInv, Room
    <3>4. table[s].count \in 0 .. MaxFails
      BY <2>3 DEF Entry
    <3>5. table[s].count + 1 \in 0 .. MaxFails /\ table[s].count + 1 > 0
      BY <3>3, <3>4, LimiterAssumption
    <3>6. QED
      BY <2>2, <2>3, <3>1, <3>2, <3>5 DEF Entry
  <2>6. QED
    BY <2>4, <2>5
<1>4. table' \in [Slot -> Entry]
  <2>1. \A s \in Slot : table'[s] \in Entry
    BY <1>2, <1>3 DEF LInv, LimiterTypeOK
  <2>2. table' = [s \in Slot |-> table'[s]]
    BY DEF Record
  <2>3. QED
    BY <2>1, <2>2
<1>5. failed' \in [Ip -> [0 .. Window -> Nat]]
  <2>1. failed[attempt] \in [0 .. Window -> Nat]
    BY <1>1 DEF LInv, LimiterTypeOK
  <2>2. \A age \in 0 .. Window : Capped(failed[attempt][age] + 1) \in Nat
    BY <2>1, LimiterAssumption DEF Capped
  <2>3. OneMoreNow(failed[attempt]) \in [0 .. Window -> Nat]
    BY <2>1, <2>2 DEF OneMoreNow
  <2>4. QED
    BY <2>3 DEF LInv, LimiterTypeOK, Record
<1>6. LimiterTypeOK'
  BY <1>1, <1>4, <1>5 DEF LimiterTypeOK, Slot, Entry
<1>7. Placed' /\ Counting'
  BY <1>2, <1>3 DEF LInv, Placed, Counting, Slot, Reach, SlotAt
<1>8. Room'
  BY <1>1 DEF Room
<1>9. QED
  BY <1>6, <1>7, <1>8 DEF LInv

(* The clock keeps the invariant. *)
LEMMA TickKeeps ==
    ASSUME LInv, Tick
    PROVE  LInv'
<1>1. clock' \in Nat /\ UNCHANGED <<table, attempt>>
  BY DEF Tick, LInv, LimiterTypeOK
<1>2. failed' \in [Ip -> [0 .. Window -> Nat]]
  <2> SUFFICES ASSUME NEW p \in Ip
               PROVE  [age \in 0 .. Window |-> IF age = 0 THEN 0 ELSE failed[p][age - 1]]
                          \in [0 .. Window -> Nat]
    BY DEF Tick
  <2> SUFFICES ASSUME NEW age \in 0 .. Window, age # 0
               PROVE  failed[p][age - 1] \in Nat
    OBVIOUS
  <2>1. age - 1 \in 0 .. Window
    BY LimiterAssumption
  <2>2. QED
    BY <2>1 DEF LInv, LimiterTypeOK
<1>3. LimiterTypeOK'
  BY <1>1, <1>2 DEF LInv, LimiterTypeOK, Slot, Entry
<1>4. Placed' /\ Counting' /\ Room'
  BY <1>1 DEF LInv, Placed, Counting, Room, StopsAt, SlotAt, Reach, Slot
<1>5. QED
  BY <1>3, <1>4 DEF LInv

(* Every step keeps the invariant. *)
LEMMA LimiterStep == LInv /\ [Next]_vars => LInv'
<1> SUFFICES ASSUME LInv, [Next]_vars PROVE LInv'
  OBVIOUS
<1>1. ASSUME NEW p \in Ip, Check(p) PROVE LInv'
  BY <1>1, CheckKeeps
<1>2. CASE UNCHANGED vars
  BY <1>2 DEF LInv, LimiterTypeOK, Placed, Counting, Room, StopsAt, SlotAt, Reach, Slot, Entry, vars
<1>3. ASSUME NEW p \in Ip, Refuse(p) PROVE LInv'
  BY <1>2, <1>3 DEF Refuse
<1>4. CASE Verified
  BY <1>4 DEF LInv, LimiterTypeOK, Placed, Counting, Room, Reach, SlotAt, Slot, Entry, Verified
<1>5. CASE Record
  BY <1>5, RecordKeeps
<1>6. CASE Tick
  BY <1>6, TickKeeps
<1>7. QED
  BY <1>1, <1>2, <1>3, <1>4, <1>5, <1>6 DEF Next

(* Every variable has its type: no entry counts past MaxFails, although    *)
(* record_login_failure adds one without a look at the limit.              *)
THEOREM LimiterTypeCorrect == Spec => []LimiterTypeOK
<1>1. LInv => LimiterTypeOK
  BY DEF LInv
<1>2. QED
  BY LimiterInit, LimiterStep, <1>1, PTL DEF Spec

-----------------------------------------------------------------------------
(* The first slot of an address that shares no slot is its own or empty.   *)
LEMMA OwnSlot ==
    ASSUME LInv, NEW p \in Alone
    PROVE  /\ p \in Ip
           /\ p # NoIp
           /\ Hash[p] \in Slot
           /\ table[Hash[p]] \in Entry
           /\ table[Hash[p]].ip \in {p, NoIp}
           /\ table[Hash[p]].ip = p => table[Hash[p]].count > 0
<1>1. p \in Ip /\ p # NoIp /\ \A q \in Ip \ {p} : Reach(p) \cap Reach(q) = {}
  BY LimiterAssumption DEF Alone
<1>2. Hash[p] \in Slot /\ Hash[p] \in Reach(p)
  BY <1>1, FirstProbe
<1>3. table[Hash[p]] \in Entry
  BY <1>2 DEF LInv, LimiterTypeOK
<1>4. table[Hash[p]].ip # NoIp => Hash[p] \in Reach(table[Hash[p]].ip)
  BY <1>2 DEF LInv, Placed
<1>5. table[Hash[p]].ip \in Ip \cup {NoIp}
  BY <1>3 DEF Entry
<1>6. QED
  BY <1>1, <1>2, <1>3, <1>4, <1>5 DEF LInv, Counting

(* So its search stops at the first probe. *)
LEMMA OwnSearch ==
    ASSUME LInv, NEW p \in Alone, NEW i \in 0 .. (Probes - 1)
    PROVE  StopsAt(p, i) <=> i = 0
<1>1. p \in Ip
  BY OwnSlot
<1>2. SlotAt(p, 0) = Hash[p] /\ 0 \in 0 .. (Probes - 1)
  BY <1>1, FirstProbe
<1>3. table[SlotAt(p, 0)].ip \in {p, NoIp}
  BY <1>2, OwnSlot
<1>4. ASSUME StopsAt(p, i), i # 0
      PROVE  FALSE
  <2>1. 0 \in 0 .. (i - 1)
    BY <1>4, LimiterAssumption
  <2>2. QED
    BY <1>3, <1>4, <2>1 DEF StopsAt
<1>5. StopsAt(p, 0)
  BY <1>2, <1>3 DEF StopsAt
<1>6. QED
  BY <1>4, <1>5

(* The search for another address does not come to that slot. *)
LEMMA OthersAway ==
    ASSUME NEW p \in Alone, NEW q \in Ip, q # p, NEW i \in 0 .. (Probes - 1)
    PROVE  SlotAt(q, i) # Hash[p]
<1>1. p \in Ip /\ Reach(p) \cap Reach(q) = {}
  BY DEF Alone
<1>2. Hash[p] \in Reach(p) /\ SlotAt(q, i) \in Reach(q)
  BY <1>1, FirstProbe, ProbesAreSlots
<1>3. QED
  BY <1>1, <1>2

(* An address alone is refused when its counter says so. *)
LEMMA LockedByCounter ==
    ASSUME LInv, NEW p \in Alone
    PROVE  Locked(p) <=> ~ (Abstract!Current(CounterOf(p)).count < MaxFails)
<1> DEFINE e == table[Hash[p]]
<1>1. /\ e \in Entry /\ e.ip \in {p, NoIp} /\ (e.ip = p => e.count > 0)
      /\ p # NoIp /\ p \in Ip
  BY OwnSlot
<1>2. SlotAt(p, 0) = Hash[p] /\ 0 \in 0 .. (Probes - 1)
  BY <1>1, FirstProbe
<1>3. Locked(p) <=> e.ip = p /\ ~ WindowOver(e) /\ e.count >= MaxFails
  BY <1>2, OwnSearch DEF Locked
<1>4. e.count \in Nat /\ MaxFails \in Nat \ {0}
  BY <1>1, LimiterAssumption DEF Entry
<1>5. CASE e.ip = p /\ ~ WindowOver(e)
  <2>1. Abstract!Current(CounterOf(p)).count = e.count
    BY <1>1, <1>5 DEF CounterOf, Abstract!Current, Abstract!Over, WindowOver
  <2>2. QED
    BY <1>3, <1>4, <1>5, <2>1
<1>6. CASE ~ (e.ip = p /\ ~ WindowOver(e))
  <2>1. Abstract!Current(CounterOf(p)).count = 0
    BY <1>1, <1>6 DEF CounterOf, Abstract!Current, Abstract!Over, Abstract!Fresh, WindowOver
  <2>2. QED
    BY <1>3, <1>4, <1>6, <2>1
<1>7. QED
  BY <1>5, <1>6

(* What a check leaves of the counter of an address alone. *)
LEMMA CounterAfterCheck ==
    ASSUME LInv, NEW p \in Ip, Check(p), NEW q \in Alone
    PROVE  CounterOf(q)' = IF q = p THEN Abstract!Current(CounterOf(q)) ELSE CounterOf(q)
<1> DEFINE e == table[Hash[q]]
<1>1. /\ Hash[q] \in Slot /\ q \in Ip /\ q # NoIp
      /\ e.ip \in {q, NoIp} /\ (e.ip = q => e.count > 0)
  BY OwnSlot
<1>2. CASE q # p
  <2>1. table'[Hash[q]] = e
    BY <1>1, <1>2, OthersAway DEF Check
  <2>2. QED
    BY <1>2, <2>1 DEF CounterOf
<1>3. CASE q = p
  <2>1. \E i \in 0 .. (Probes - 1) : StopsAt(p, i) /\ Hash[q] = SlotAt(p, i)
    BY <1>1, <1>3, OwnSearch, FirstProbe
  <2>2. table'[Hash[q]] = IF e.ip = p /\ WindowOver(e) THEN Empty ELSE e
    BY <1>1, <2>1 DEF Check
  <2>3. QED
    BY <1>1, <1>3, <2>2 DEF CounterOf, Empty, Abstract!Current, Abstract!Over, Abstract!Fresh, WindowOver
<1>4. QED
  BY <1>2, <1>3

(* What a recorded failure adds to the counter of an address alone. *)
LEMMA CounterAfterRecord ==
    ASSUME LInv, Record, NEW q \in Alone
    PROVE  CounterOf(q)' = IF q = attempt THEN Abstract!OneMore(CounterOf(q)) ELSE CounterOf(q)
<1> DEFINE e == table[Hash[q]]
<1>1. /\ Hash[q] \in Slot /\ q \in Ip /\ q # NoIp /\ e \in Entry
      /\ e.ip \in {q, NoIp} /\ (e.ip = q => e.count > 0)
  BY OwnSlot
<1>2. CASE q # attempt
  <2>1. attempt \in Ip
    BY DEF Record, LInv, LimiterTypeOK
  <2>2. table'[Hash[q]] = e
    BY <1>1, <1>2, <2>1, OthersAway DEF Record
  <2>3. QED
    BY <1>2, <2>2 DEF CounterOf
<1>3. CASE q = attempt
  <2>1. \E i \in 0 .. (Probes - 1) : StopsAt(attempt, i) /\ Hash[q] = SlotAt(attempt, i)
    BY <1>1, <1>3, OwnSearch, FirstProbe
  <2>2. table'[Hash[q]] = EntryAfter(e, q)
    BY <1>1, <1>3, <2>1 DEF Record
  <2>3. CASE e.ip = NoIp \/ WindowOver(e)
    <3>1. table'[Hash[q]] = [ip |-> q, count |-> 1, first |-> clock]
      BY <2>2, <2>3 DEF EntryAfter
    <3>2. Abstract!Current(CounterOf(q)) = Abstract!Fresh
      BY <1>1, <2>3 DEF CounterOf, Abstract!Current, Abstract!Over, Abstract!Fresh, WindowOver
    <3>3. QED
      BY <1>3, <3>1, <3>2 DEF CounterOf, Abstract!OneMore
  <2>4. CASE ~ (e.ip = NoIp \/ WindowOver(e))
    <3>1. table'[Hash[q]] = [e EXCEPT !.count = @ + 1] /\ e.ip = q
      BY <1>1, <2>2, <2>4 DEF EntryAfter
    <3>2. CounterOf(q) = [count |-> e.count, first |-> e.first]
      BY <3>1 DEF CounterOf
    <3>3. CounterOf(q)' = [count |-> e.count + 1, first |-> e.first]
      BY <1>1, <3>1 DEF CounterOf, Entry
    <3>4. Abstract!Current(CounterOf(q)) = CounterOf(q)
      BY <1>1, <2>4, <3>1, <3>2 DEF Abstract!Current, Abstract!Over, WindowOver
    <3>5. CounterOf(q) # Abstract!Fresh
      BY <1>1, <3>1, <3>2 DEF Abstract!Fresh
    <3>6. QED
      BY <1>3, <3>2, <3>3, <3>4, <3>5 DEF Abstract!OneMore
  <2>5. QED
    BY <2>3, <2>4
<1>4. QED
  BY <1>2, <1>3

(* The abstract login in progress. *)
Login == IF attempt \in Alone THEN attempt ELSE NoIp

(* The abstract counters. *)
Counters == [p \in Alone |-> CounterOf(p)]

(* A step of the table is a step of the counters, or none. *)
LEMMA TableRefinesCounters ==
    ASSUME LInv, [Next]_vars
    PROVE  [Abstract!CounterNext]_(Abstract!cvars)
<1> USE DEF Counters, Login
<1>1. NoIp \notin Alone
  BY LimiterAssumption DEF Alone
<1>2. CASE UNCHANGED vars
  BY <1>2 DEF vars, Abstract!cvars, CounterOf
<1>3. ASSUME NEW p \in Ip, Check(p)
      PROVE  [Abstract!CounterNext]_(Abstract!cvars)
  <2>1. attempt = NoIp /\ attempt' = p /\ clock' = clock
    BY <1>3 DEF Check
  <2>2. CASE p \in Alone
    <3>1. Abstract!Current(CounterOf(p)).count < MaxFails
      BY <1>3, <2>2, LockedByCounter DEF Check
    <3>2. Counters' = [Counters EXCEPT ![p] = Abstract!Current(@)]
      BY <1>3, <2>2, CounterAfterCheck
    <3>3. Login = NoIp /\ Login' = p
      BY <1>1, <2>1, <2>2
    <3>4. Abstract!Admit(p)
      BY <2>1, <2>2, <3>1, <3>2, <3>3 DEF Abstract!Admit
    <3>5. QED
      BY <2>2, <3>4 DEF Abstract!CounterNext
  <2>3. CASE p \notin Alone
    <3>1. Counters' = Counters
      BY <1>3, <2>3, CounterAfterCheck
    <3>2. Login = NoIp /\ Login' = NoIp
      BY <1>1, <2>1, <2>3
    <3>3. QED
      BY <2>1, <3>1, <3>2 DEF Abstract!cvars
  <2>4. QED
    BY <2>2, <2>3
<1>4. ASSUME NEW p \in Ip, Refuse(p)
      PROVE  [Abstract!CounterNext]_(Abstract!cvars)
  BY <1>2, <1>4 DEF Refuse
<1>5. CASE Verified
  <2>1. attempt # NoIp /\ attempt' = NoIp /\ UNCHANGED <<table, clock>>
    BY <1>5 DEF Verified
  <2>2. Counters' = Counters
    BY <2>1 DEF CounterOf
  <2>3. Login' = NoIp
    BY <1>1, <2>1
  <2>4. CASE attempt \in Alone
    BY <1>1, <2>1, <2>2, <2>3, <2>4 DEF Abstract!CounterNext, Abstract!Succeed
  <2>5. CASE attempt \notin Alone
    BY <2>1, <2>2, <2>3, <2>5 DEF Abstract!cvars
  <2>6. QED
    BY <2>4, <2>5
<1>6. CASE Record
  <2>1. attempt # NoIp /\ attempt' = NoIp /\ clock' = clock
    BY <1>6 DEF Record
  <2>2. Login' = NoIp
    BY <1>1, <2>1
  <2>3. CASE attempt \in Alone
    <3>1. Counters' = [Counters EXCEPT ![attempt] = Abstract!OneMore(@)]
      BY <1>6, <2>3, CounterAfterRecord
    <3>2. Abstract!Fail
      BY <1>1, <2>1, <2>2, <2>3, <3>1 DEF Abstract!Fail
    <3>3. QED
      BY <3>2 DEF Abstract!CounterNext
  <2>4. CASE attempt \notin Alone
    <3>1. Counters' = Counters
      BY <1>6, <2>4, CounterAfterRecord
    <3>2. QED
      BY <2>1, <2>2, <2>4, <3>1 DEF Abstract!cvars
  <2>5. QED
    BY <2>3, <2>4
<1>7. CASE Tick
  <2>1. clock' = clock + 1 /\ UNCHANGED <<table, attempt>>
    BY <1>7 DEF Tick
  <2>2. Counters' = Counters /\ Login' = Login
    BY <2>1 DEF CounterOf
  <2>3. QED
    BY <2>1, <2>2 DEF Abstract!CounterNext, Abstract!Pass
<1>8. QED
  BY <1>2, <1>3, <1>4, <1>5, <1>6, <1>7 DEF Next

(* For an address that shares its slots with no other the table behaves as *)
(* the counter of FailureCounter: it is refused from its MaxFails-th       *)
(* failure on until the window is over, and never otherwise.               *)
THEOREM CountsCorrect == Spec => CountsExactly
<1>1. Init => Abstract!CounterInit
  <2> SUFFICES ASSUME Init PROVE Abstract!CounterInit
    OBVIOUS
  <2>1. \A p \in Alone : CounterOf(p) = Abstract!Fresh
    <3> SUFFICES ASSUME NEW p \in Alone PROVE CounterOf(p) = Abstract!Fresh
      OBVIOUS
    <3>1. Hash[p] \in Slot /\ p # NoIp
      BY LimiterInit, OwnSlot
    <3>2. table[Hash[p]].ip = NoIp
      BY <3>1 DEF Init, Empty
    <3>3. QED
      BY <3>1, <3>2 DEF CounterOf, Abstract!Fresh
  <2>2. NoIp \notin Alone
    BY LimiterAssumption DEF Alone
  <2>3. QED
    BY <2>1, <2>2 DEF Init, Abstract!CounterInit
<1>2. QED
  BY LimiterInit, LimiterStep, TableRefinesCounters, <1>1, PTL
     DEF Spec, CountsExactly, Abstract!CounterSpec

-----------------------------------------------------------------------------
(* Why an address is refused *)

(* A failure of the last n seconds is one of the last n + 1. *)
Cumulative == \A p \in Ip : \A m, n \in 0 .. Window :
                  m <= n => failed[p][m] <= failed[p][n]

(* What an entry has counted are failures since its window began, in       *)
(* whichever of the slots of its address it is.                            *)
CountedSince ==
    \A s \in Slot :
        table[s].ip # NoIp /\ ~ WindowOver(table[s]) =>
            /\ table[s].first <= clock
            /\ failed[table[s].ip][clock - table[s].first] >= table[s].count

ReasonInv == Cumulative /\ CountedSince

LEMMA CappedGrows ==
    ASSUME NEW m \in Nat, NEW n \in Nat, m <= n
    PROVE  /\ Capped(m) \in Nat /\ Capped(m) <= Capped(n)
           /\ m < MaxFails => Capped(m + 1) >= m + 1
           /\ n >= m => Capped(n + 1) >= Capped(m + 1)
BY LimiterAssumption DEF Capped

(* The age of an entry whose window is not over. *)
LEMMA AgeInWindow ==
    ASSUME LInv, NEW s \in Slot, ~ WindowOver(table[s]), table[s].first <= clock
    PROVE  clock - table[s].first \in 0 .. Window
BY LimiterAssumption DEF LInv, LimiterTypeOK, Entry, WindowOver

LEMMA CheckKeepsReason ==
    ASSUME LInv, ReasonInv, NEW p \in Ip, Check(p)
    PROVE  ReasonInv'
<1>1. \A s \in Slot : table'[s].ip # NoIp => table'[s] = table[s]
  BY DEF Check, Empty
<1>2. clock' = clock /\ failed' = failed
  BY DEF Check
<1>3. QED
  BY <1>1, <1>2 DEF ReasonInv, Cumulative, CountedSince, WindowOver, Slot

(* The failure that is recorded is one more in every entry's window.       *)
LEMMA RecordKeepsReason ==
    ASSUME LInv, ReasonInv, Record
    PROVE  ReasonInv'
<1> DEFINE Here(s) == \E i \in 0 .. (Probes - 1) : StopsAt(attempt, i) /\ s = SlotAt(attempt, i)
<1>0. /\ attempt \in Ip /\ attempt # NoIp /\ clock' = clock /\ clock \in Nat
      /\ failed \in [Ip -> [0 .. Window -> Nat]] /\ Window \in Nat
  BY LimiterAssumption DEF Record, LInv, LimiterTypeOK
<1>1. /\ \A p \in Ip : p # attempt => failed'[p] = failed[p]
      /\ \A n \in 0 .. Window : failed'[attempt][n] = Capped(failed[attempt][n] + 1)
  BY <1>0 DEF Record, OneMoreNow
<1>2. Cumulative'
  <2> SUFFICES ASSUME NEW p \in Ip, NEW m \in 0 .. Window, NEW n \in 0 .. Window, m <= n
               PROVE  failed'[p][m] <= failed'[p][n]
    BY DEF Cumulative
  <2>1. failed[p][m] <= failed[p][n] /\ failed[p][m] \in Nat /\ failed[p][n] \in Nat
    BY <1>0 DEF ReasonInv, Cumulative
  <2>2. Capped(failed[p][m] + 1) <= Capped(failed[p][n] + 1)
    BY <2>1, CappedGrows
  <2>3. QED
    BY <1>1, <2>1, <2>2
<1>3. CountedSince'
  <2> SUFFICES ASSUME NEW s \in Slot, table'[s].ip # NoIp, ~ WindowOver(table'[s])
               PROVE  /\ table'[s].first <= clock
                      /\ failed'[table'[s].ip][clock - table'[s].first] >= table'[s].count
    BY <1>0 DEF CountedSince, Slot, WindowOver
  <2>0. /\ table'[s] = IF Here(s) THEN EntryAfter(table[s], attempt) ELSE table[s]
        /\ table[s] \in Entry
    BY DEF Record, LInv, LimiterTypeOK
  <2>1. CASE Here(s) /\ (table[s].ip = NoIp \/ WindowOver(table[s]))
    <3>1. table'[s] = [ip |-> attempt, count |-> 1, first |-> clock]
      BY <2>0, <2>1 DEF EntryAfter
    <3>2. failed[attempt][0] \in Nat /\ clock - clock = 0 /\ 0 \in 0 .. Window
      BY <1>0
    <3>3. failed'[attempt][0] >= 1
      BY <1>1, <3>2, LimiterAssumption DEF Capped
    <3>4. QED
      BY <1>0, <3>1, <3>2, <3>3
  <2>2. CASE Here(s) /\ ~ (table[s].ip = NoIp \/ WindowOver(table[s]))
    <3> DEFINE age == clock - table[s].first
    <3>1. PICK i \in 0 .. (Probes - 1) : StopsAt(attempt, i) /\ s = SlotAt(attempt, i)
      BY <2>2
    <3>2. table[s].ip = attempt
      BY <2>2, <3>1 DEF StopsAt
    <3>3. table[s].count < MaxFails /\ table[s].count \in Nat
      BY <1>0, <2>0, <3>1, <3>2 DEF LInv, Room, Entry
    <3>4. /\ table'[s].ip = attempt /\ table'[s].count = table[s].count + 1
          /\ table'[s].first = table[s].first
      BY <2>0, <2>2, <3>2 DEF EntryAfter, Entry
    <3>5. table[s].first <= clock /\ failed[attempt][age] >= table[s].count
      BY <2>2, <3>2 DEF ReasonInv, CountedSince
    <3>6. age \in 0 .. Window
      BY <2>2, <3>5, AgeInWindow
    <3>7. failed[attempt][age] \in Nat /\ failed'[attempt][age] = Capped(failed[attempt][age] + 1)
      BY <1>0, <1>1, <3>6
    <3>8. failed'[attempt][age] >= table[s].count + 1
      BY <3>3, <3>5, <3>7, LimiterAssumption DEF Capped
    <3>9. QED
      BY <3>4, <3>5, <3>8
  <2>3. CASE ~ Here(s)
    <3> DEFINE age == clock - table[s].first
    <3>1. table'[s] = table[s]
      BY <2>0, <2>3
    <3>2. table[s].first <= clock /\ failed[table[s].ip][age] >= table[s].count
      BY <1>0, <3>1 DEF ReasonInv, CountedSince, WindowOver
    <3>3. age \in 0 .. Window
      BY <1>0, <3>1, <3>2, AgeInWindow DEF WindowOver
    <3>4. table[s].ip \in Ip /\ table[s].count \in 0 .. MaxFails
      BY <2>0, <3>1 DEF Entry
    <3>5. failed[table[s].ip][age] \in Nat
      BY <1>0, <3>3, <3>4
    <3>6. failed'[table[s].ip][age] >= table[s].count
      BY <1>1, <3>2, <3>3, <3>4, <3>5, LimiterAssumption DEF Capped
    <3>7. QED
      BY <3>1, <3>2, <3>6
  <2>4. QED
    BY <2>1, <2>2, <2>3
<1>4. QED
  BY <1>2, <1>3 DEF ReasonInv

(* The failures grow older with the entries that counted them. *)
LEMMA TickKeepsReason ==
    ASSUME LInv, ReasonInv, Tick
    PROVE  ReasonInv'
<1>0. /\ clock \in Nat /\ clock' = clock + 1 /\ table' = table
      /\ failed \in [Ip -> [0 .. Window -> Nat]] /\ Window \in Nat
  BY LimiterAssumption DEF Tick, LInv, LimiterTypeOK
<1>1. \A p \in Ip : \A n \in 0 .. Window :
          failed'[p][n] = IF n = 0 THEN 0 ELSE failed[p][n - 1]
  BY DEF Tick
<1>2. Cumulative'
  <2> SUFFICES ASSUME NEW p \in Ip, NEW m \in 0 .. Window, NEW n \in 0 .. Window, m <= n
               PROVE  failed'[p][m] <= failed'[p][n]
    BY DEF Cumulative
  <2>1. CASE m = 0
    <3>1. CASE n = 0
      BY <1>1, <2>1, <3>1
    <3>2. CASE n # 0
      <4>1. n - 1 \in 0 .. Window
        BY <1>0, <3>2
      <4>2. failed[p][n - 1] \in Nat
        BY <1>0, <4>1
      <4>3. QED
        BY <1>1, <2>1, <3>2, <4>2
    <3>3. QED
      BY <3>1, <3>2
  <2>2. CASE m # 0
    <3>1. m - 1 \in 0 .. Window /\ n - 1 \in 0 .. Window /\ m - 1 <= n - 1 /\ n # 0
      BY <1>0, <2>2
    <3>2. failed[p][m - 1] <= failed[p][n - 1]
      BY <3>1 DEF ReasonInv, Cumulative
    <3>3. QED
      BY <1>1, <2>2, <3>1, <3>2
  <2>3. QED
    BY <2>1, <2>2
<1>3. CountedSince'
  <2> SUFFICES ASSUME NEW s \in Slot, table[s].ip # NoIp,
                      ~ (clock' - table[s].first > Window)
               PROVE  /\ table[s].first <= clock'
                      /\ failed'[table[s].ip][clock' - table[s].first] >= table[s].count
    BY <1>0 DEF CountedSince, Slot, WindowOver
  <2> DEFINE age == clock - table[s].first
  <2>1. table[s] \in Entry /\ table[s].first \in Nat /\ table[s].ip \in Ip
    BY DEF LInv, LimiterTypeOK, Entry
  <2>2. ~ WindowOver(table[s])
    BY <1>0, <2>1 DEF WindowOver
  <2>3. table[s].first <= clock /\ failed[table[s].ip][age] >= table[s].count
    BY <2>2 DEF ReasonInv, CountedSince
  <2>4. PICK f \in Nat : f = table[s].first
    BY <2>1
  <2>5. f <= clock /\ ~ (clock + 1 - f > Window)
    BY <1>0, <2>3, <2>4
  <2>6. PICK n \in Nat : n = clock - f
    BY <1>0, <2>5
  <2>7. n + 1 \in 0 .. Window /\ clock + 1 - f = n + 1 /\ (n + 1) - 1 = n /\ n + 1 # 0
    BY <1>0, <2>5, <2>6
  <2>8. failed'[table[s].ip][n + 1] = failed[table[s].ip][n]
    BY <1>1, <2>1, <2>7
  <2>9. failed'[table[s].ip][clock' - f] = failed[table[s].ip][age]
    <3>1. clock' - f = n + 1
      BY <1>0, <2>7
    <3>2. age = n
      BY <2>4, <2>6
    <3> HIDE DEF age
    <3>3. QED
      BY <2>8, <3>1, <3>2
  <2>10. QED
    BY <1>0, <2>3, <2>4, <2>5, <2>9
<1>4. QED
  BY <1>2, <1>3 DEF ReasonInv

(* Whatever hashes collide, and whatever entries the resets leave behind   *)
(* an empty slot, an address is refused only after MaxFails failures       *)
(* within the window.                                                      *)
THEOREM RefusalsHaveReason == Spec => []RefusedWithReason
<1>1. Init => ReasonInv
  BY LimiterAssumption DEF Init, ReasonInv, Cumulative, CountedSince, Empty
<1>2. LInv /\ ReasonInv /\ [Next]_vars => ReasonInv'
  <2> SUFFICES ASSUME LInv, ReasonInv, [Next]_vars PROVE ReasonInv'
    OBVIOUS
  <2>1. CASE table' = table /\ clock' = clock /\ failed' = failed
    BY <2>1 DEF ReasonInv, Cumulative, CountedSince, WindowOver, Slot
  <2>2. QED
    BY <2>1, CheckKeepsReason, RecordKeepsReason, TickKeepsReason
       DEF Next, Refuse, Verified, vars
<1>3. LInv /\ ReasonInv => RefusedWithReason
  <2> SUFFICES ASSUME LInv, ReasonInv, NEW p \in Ip, Locked(p)
               PROVE  failed[p][Window] >= MaxFails
    BY DEF RefusedWithReason, Recent
  <2>1. PICK i \in 0 .. (Probes - 1) :
            /\ table[SlotAt(p, i)].ip = p
            /\ ~ WindowOver(table[SlotAt(p, i)])
            /\ table[SlotAt(p, i)].count >= MaxFails
    BY DEF Locked
  <2> DEFINE e == table[SlotAt(p, i)]
             age == clock - e.first
  <2>2. SlotAt(p, i) \in Slot /\ p # NoIp
    BY ProbesAreSlots, LimiterAssumption
  <2>3. e.first <= clock /\ failed[p][age] >= e.count /\ e.count \in Nat
    BY <2>1, <2>2 DEF ReasonInv, CountedSince, LInv, LimiterTypeOK, Entry
  <2>4. age \in 0 .. Window
    BY <2>1, <2>2, <2>3, AgeInWindow
  <2> HIDE DEF age
  <2>5. /\ Window \in 0 .. Window /\ age <= Window
        /\ failed[p][age] \in Nat /\ failed[p][Window] \in Nat
    <3>1. Window \in 0 .. Window /\ age <= Window
      BY <2>4, LimiterAssumption
    <3>2. failed[p] \in [0 .. Window -> Nat]
      BY DEF LInv, LimiterTypeOK
    <3>3. QED
      BY <2>4, <3>1, <3>2
  <2>6. failed[p][age] <= failed[p][Window]
    BY <2>4, <2>5 DEF ReasonInv, Cumulative
  <2>7. QED
    BY <2>1, <2>3, <2>5, <2>6, LimiterAssumption
<1>4. QED
  BY LimiterInit, LimiterStep, <1>1, <1>2, <1>3, PTL DEF Spec

=============================================================================
