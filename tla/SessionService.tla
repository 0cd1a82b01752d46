--------------------------- MODULE SessionService ---------------------------
(***************************************************************************)
(* What vpn-authd promises about the life of a session, without threads,   *)
(* addresses and peers: handle_login, handle_logout and handle_renew of    *)
(* server/src/api_handlers.c, the reaper and the start of the server       *)
(* implement it. A session is opened once, is live until its end, and      *)
(* never comes back. It ends only when its client asked for it while it    *)
(* was active, when it was seen overdue, or, all sessions at once, while   *)
(* no request is served. A renewal is granted to a live session within the *)
(* grace period; what it grants is never less than the session has, and    *)
(* more than Ttl from now is never given.                                  *)
(*                                                                         *)
(* What is asked, granted or doomed may be forgotten: a statement of the   *)
(* database fails, or the process ends.                                    *)
(***************************************************************************)
EXTENDS Naturals

CONSTANTS
    Key,    \* sessions
    Ttl,    \* the time a login or a renewal gives
    Grace   \* how long after its expiry a session may be renewed

VARIABLES
    live,     \* the sessions that are open
    over,     \* those that have ended
    until,    \* the expiry of a live session; 0 for the others
    asked,    \* sessions whose clients have asked for the end
    doomed,   \* sessions seen overdue
    granted,  \* <<session, new expiry>>: renewals not yet written
    serving,  \* requests are served
    now       \* the clock

svars == <<live, over, until, asked, doomed, granted, serving, now>>

ServiceInit ==
    /\ live = {} /\ over = {} /\ until = [k \in Key |-> 0]
    /\ asked = {} /\ doomed = {} /\ granted = {}
    /\ serving = FALSE
    /\ now = 0

(* The expiry was computed from the clock at some moment of the login.     *)
Open(k, e) ==
    /\ serving
    /\ k \notin live \cup over
    /\ e <= now + Ttl
    /\ live' = live \cup {k}
    /\ until' = [until EXCEPT ![k] = e]
    /\ UNCHANGED <<over, asked, doomed, granted, serving, now>>

AskEnd(k) ==
    /\ serving
    /\ k \in live /\ until[k] >= now
    /\ asked' = asked \cup {k}
    /\ UNCHANGED <<live, over, until, doomed, granted, serving, now>>

Doom(S) ==
    /\ serving
    /\ \A k \in S : k \in live /\ until[k] < now
    /\ doomed' = doomed \cup S
    /\ UNCHANGED <<live, over, until, asked, granted, serving, now>>

Grant(k) ==
    /\ serving
    /\ k \in live /\ until[k] + Grace >= now
    /\ granted' = granted \cup {<<k, now + Ttl>>}
    /\ UNCHANGED <<live, over, until, asked, doomed, serving, now>>

Renew(k, e) ==
    /\ <<k, e>> \in granted
    /\ k \in live /\ until[k] <= e
    /\ until' = [until EXCEPT ![k] = e]
    /\ granted' = granted \ {<<k, e>>}
    /\ UNCHANGED <<live, over, asked, doomed, serving, now>>

(* A session that is renewed after it was seen overdue still ends.         *)
End(k) ==
    /\ k \in live /\ k \in asked \cup doomed
    /\ live' = live \ {k}
    /\ over' = over \cup {k}
    /\ until' = [until EXCEPT ![k] = 0]
    /\ asked' \in {asked, asked \ {k}}
    /\ doomed' \in {doomed, doomed \ {k}}
    /\ UNCHANGED <<granted, serving, now>>

(* Something is dropped: it failed, or it came too late. *)
Forget ==
    /\ asked' \subseteq asked
    /\ doomed' \subseteq doomed
    /\ granted' \subseteq granted
    /\ UNCHANGED <<live, over, until, serving, now>>

Serve ==
    /\ ~ serving
    /\ serving' = TRUE
    /\ UNCHANGED <<live, over, until, asked, doomed, granted, now>>

Stop ==
    /\ serving' = FALSE
    /\ asked' = {} /\ doomed' = {} /\ granted' = {}
    /\ UNCHANGED <<live, over, until, now>>

EndAll ==
    /\ ~ serving
    /\ live' = {}
    /\ over' = over \cup live
    /\ until' = [k \in Key |-> 0]
    /\ UNCHANGED <<asked, doomed, granted, serving, now>>

Pass ==
    /\ now' = now + 1
    /\ UNCHANGED <<live, over, until, asked, doomed, granted, serving>>

ServiceNext ==
    \/ \E k \in Key :
        \/ \E e \in 0..(now + Ttl) : Open(k, e) \/ Renew(k, e)
        \/ AskEnd(k) \/ Grant(k) \/ End(k)
    \/ \E S \in SUBSET live : Doom(S)
    \/ Forget \/ Serve \/ Stop \/ EndAll \/ Pass

ServiceSpec == ServiceInit /\ [][ServiceNext]_svars

=============================================================================
