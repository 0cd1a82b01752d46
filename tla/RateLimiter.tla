----------------------------- MODULE RateLimiter -----------------------------
(***************************************************************************)
(* The login limit of vpn-authd as server/src/api_handlers.c implements it *)
(* (lines 39-104): a hash table of fixed size.  An address is looked for   *)
(* in Probes slots from its hash on; the search stops at its own entry or  *)
(* at an empty slot.  There is no deletion but the reset of an entry whose *)
(* window is over.  Logins are handled one at a time by the API thread.    *)
(***************************************************************************)
EXTENDS Naturals

CONSTANTS
    Ip,         \* client addresses
    Slots,      \* MAX_TRACKED_IPS: 1024
    Probes,     \* 8, the slots looked at
    Hash,       \* ip_hash
    MaxFails,   \* MAX_FAILS_PER_IP: 5
    Window,     \* FAIL_WINDOW_SECONDS: 600
    MaxTime,    \* bound on the clock
    NoIp        \* an empty slot; no login in progress

ASSUME LimiterAssumption ==
    /\ Slots \in Nat \ {0}
    /\ Probes \in 1 .. Slots
    /\ Hash \in [Ip -> 0 .. (Slots - 1)]
    /\ MaxFails \in Nat \ {0}
    /\ Window \in Nat
    /\ MaxTime \in Nat
    /\ NoIp \notin Ip

VARIABLES
    table,      \* fail_table
    attempt,    \* the address whose credentials are being checked
    clock,      \* time(NULL)
    failed      \* history: how often an address failed in the last 0 .. Window seconds

vars == <<table, attempt, clock, failed>>

Slot == 0 .. (Slots - 1)

(* No entry counts past the limit. *)
Entry == [ip : Ip \cup {NoIp}, count : 0 .. MaxFails, first : Nat]
Empty == [ip |-> NoIp, count |-> 0, first |-> 0]

SlotAt(p, i) == (Hash[p] + i) % Slots

(* The slots p's search may use. *)
Reach(p) == {SlotAt(p, i) : i \in 0 .. (Probes - 1)}

(* The search for p stops at its i-th probe. *)
StopsAt(p, i) == /\ i \in 0 .. (Probes - 1)
                 /\ table[SlotAt(p, i)].ip \in {p, NoIp}
                 /\ \A j \in 0 .. (i - 1) : table[SlotAt(p, j)].ip \notin {p, NoIp}

(* Bound of the history: more failures than this make no difference. *)
Capped(n) == IF n > 2 * MaxFails THEN 2 * MaxFails ELSE n

(* History: one more failure now. *)
OneMoreNow(counts) == [age \in 0 .. Window |-> Capped(counts[age] + 1)]

WindowOver(e) == clock - e.first > Window

(* Variant: the window is not looked at. *)
LockedForGood(p) == \E i \in 0 .. (Probes - 1) :
                        /\ StopsAt(p, i)
                        /\ table[SlotAt(p, i)].ip = p
                        /\ table[SlotAt(p, i)].count >= MaxFails

(* check_rate_limit answers 1: p is refused. *)
Locked(p) == \E i \in 0 .. (Probes - 1) :
                 /\ StopsAt(p, i)
                 /\ table[SlotAt(p, i)].ip = p
                 /\ ~ WindowOver(table[SlotAt(p, i)])
                 /\ table[SlotAt(p, i)].count >= MaxFails

Init == /\ table = [s \in Slot |-> Empty]
        /\ attempt = NoIp
        /\ clock = 0
        /\ failed = [p \in Ip |-> [age \in 0 .. Window |-> 0]]

(* Variant: the answer of check_rate_limit is not looked at. *)
CheckIgnored(p) ==
    /\ attempt = NoIp
    /\ attempt' = p
    /\ UNCHANGED <<table, clock, failed>>

(* check_rate_limit lets p through; an entry whose window is over becomes  *)
(* an empty slot.                                                          *)
Check(p) ==
    /\ attempt = NoIp
    /\ ~ Locked(p)
    /\ attempt' = p
    /\ table' = [s \in Slot |->
                    IF /\ \E i \in 0 .. (Probes - 1) : StopsAt(p, i) /\ s = SlotAt(p, i)
                       /\ table[s].ip = p
                       /\ WindowOver(table[s])
                    THEN Empty ELSE table[s]]
    /\ UNCHANGED <<clock, failed>>

(* check_rate_limit refuses p: 429. *)
Refuse(p) == attempt = NoIp /\ Locked(p) /\ UNCHANGED vars

(* The credentials are good, or the request is malformed: nothing is       *)
(* recorded, and nothing is reset either.                                  *)
Verified == /\ attempt # NoIp
            /\ attempt' = NoIp
            /\ UNCHANGED <<table, clock, failed>>

(* Variant: an entry goes on counting when its window is over. *)
EntryNeverOver(e, p) ==
    IF e.ip = NoIp THEN [ip |-> p, count |-> 1, first |-> clock]
    ELSE [e EXCEPT !.count = @ + 1]

(* The entry after one more failure of p. *)
EntryAfter(e, p) ==
    IF e.ip = NoIp \/ WindowOver(e) THEN [ip |-> p, count |-> 1, first |-> clock]
    ELSE [e EXCEPT !.count = @ + 1]

(* record_login_failure; nothing is recorded when all the slots of the     *)
(* search belong to others.                                                *)
Record ==
    /\ attempt # NoIp
    /\ attempt' = NoIp
    /\ table' = [s \in Slot |->
                    IF \E i \in 0 .. (Probes - 1) : StopsAt(attempt, i) /\ s = SlotAt(attempt, i)
                    THEN EntryAfter(table[s], attempt) ELSE table[s]]
    /\ failed' = [failed EXCEPT ![attempt] = OneMoreNow(@)]
    /\ UNCHANGED clock

Tick ==
    /\ clock < MaxTime
    /\ clock' = clock + 1
    /\ failed' = [p \in Ip |-> [age \in 0 .. Window |->
                                   IF age = 0 THEN 0 ELSE failed[p][age - 1]]]
    /\ UNCHANGED <<table, attempt>>

Next == (\E p \in Ip : Check(p) \/ Refuse(p)) \/ Verified \/ Record \/ Tick

Spec == Init /\ [][Next]_vars

-----------------------------------------------------------------------------
(* Every variable has its type. *)
LimiterTypeOK ==
    /\ table \in [Slot -> Entry]
    /\ attempt \in Ip \cup {NoIp}
    /\ clock \in Nat
    /\ failed \in [Ip -> [0 .. Window -> Nat]]

(* Failures of p in the last Window seconds. *)
Recent(p) == failed[p][Window]

(* Nobody is refused without reason: an address is refused only when it    *)
(* failed MaxFails times within the window, whatever hashes collide and    *)
(* whatever old entries the resets leave behind.                           *)
RefusedWithReason == \A p \in Ip : Locked(p) => Recent(p) >= MaxFails

(* project.md:344, after five failures in a row an address is refused for  *)
(* ten minutes.  Windows that start at a first failure allow for twice     *)
(* that less one in any ten minutes, and never for more.                   *)
FailuresBounded == \A p \in Ip : Recent(p) < 2 * MaxFails

(* The addresses that share no slot with another one. *)
Alone == {p \in Ip : \A q \in Ip \ {p} : Reach(p) \cap Reach(q) = {}}

(* What the table holds for p. *)
CounterOf(p) ==
    IF table[Hash[p]].ip = p
    THEN [count |-> table[Hash[p]].count, first |-> table[Hash[p]].first]
    ELSE [count |-> 0, first |-> 0]

Abstract == INSTANCE FailureCounter WITH
                Ip <- Alone,
                counter <- [p \in Alone |-> CounterOf(p)],
                attempt <- IF attempt \in Alone THEN attempt ELSE NoIp

(* For an address that shares its slots with no other the table is exactly *)
(* the counter that FailureCounter describes.                              *)
CountsExactly == Abstract!CounterSpec

=============================================================================
