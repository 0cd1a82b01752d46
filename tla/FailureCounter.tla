--------------------------- MODULE FailureCounter ---------------------------
(***************************************************************************)
(* What the login limit of vpn-authd promises (server/src/api_handlers.c,  *)
(* lines 39-104 and 192-248): every client address has a counter of failed *)
(* logins.  The counter runs for a window from its first failure; when it  *)
(* has reached MaxFails, the address is refused until the window is over.  *)
(***************************************************************************)
EXTENDS Naturals

CONSTANTS
    Ip,         \* client addresses
    MaxFails,   \* MAX_FAILS_PER_IP: 5
    Window,     \* FAIL_WINDOW_SECONDS: 600
    NoIp        \* no login is in progress

VARIABLES
    counter,    \* the counter of each address
    attempt,    \* the address whose password is being verified
    clock       \* time(NULL)

cvars == <<counter, attempt, clock>>

Fresh == [count |-> 0, first |-> 0]

Over(c) == clock - c.first > Window

(* A counter that has run out starts afresh the next time it is looked at. *)
Current(c) == IF c.count > 0 /\ ~ Over(c) THEN c ELSE Fresh

OneMore(c) == IF Current(c) = Fresh THEN [count |-> 1, first |-> clock]
              ELSE [c EXCEPT !.count = @ + 1]

CounterInit == /\ counter = [p \in Ip |-> Fresh]
               /\ attempt = NoIp
               /\ clock = 0

(* A login of p is let through to the credentials. *)
Admit(p) == /\ attempt = NoIp
            /\ Current(counter[p]).count < MaxFails
            /\ attempt' = p
            /\ counter' = [counter EXCEPT ![p] = Current(@)]
            /\ UNCHANGED clock

Succeed == /\ attempt # NoIp
           /\ attempt' = NoIp
           /\ UNCHANGED <<counter, clock>>

Fail == /\ attempt # NoIp
        /\ attempt' = NoIp
        /\ counter' = [counter EXCEPT ![attempt] = OneMore(@)]
        /\ UNCHANGED clock

Pass == /\ clock' = clock + 1
        /\ UNCHANGED <<counter, attempt>>

CounterNext == (\E p \in Ip : Admit(p)) \/ Succeed \/ Fail \/ Pass

CounterSpec == CounterInit /\ [][CounterNext]_cvars

=============================================================================
