--------------------------- MODULE LinuxProperties ---------------------------
(***************************************************************************)
(* What the Linux client should guarantee, stated over LinuxClient.        *)
(***************************************************************************)
EXTENDS LinuxClient

(* Every variable has its type, no timer passes its bound, and a process   *)
(* has a token exactly where the code uses one: no request is sent without. *)
LinuxTypeOK ==
    /\ sess \in [Session -> {"none", "live", "ended"}]
    /\ left \in [Session -> Int]
    /\ unheard \subseteq Session
    /\ file \in Session \cup {NoSession}
    /\ dev \in Session \cup {NoSession, Bare}
    /\ pc \in [Proc -> Pc]
    /\ token \in [Proc -> Session \cup {NoSession}]
    /\ known \in [Proc -> Int]
    /\ timer \in [Proc -> Nat]
    /\ \A p \in Proc : timer[p] <= Poll \/ timer[p] <= Delay
    /\ stop \in [Proc -> BOOLEAN]
    /\ \A p \in Proc : pc[p] \notin {"off", "login", "cmd_down"} => token[p] \in Session
    /\ \A p \in Proc : pc[p] \in {"off", "login"} => token[p] = NoSession /\ ~ stop[p]

(* The session time and the renewal margin leave room for an outage, two   *)
(* slow requests and one sleep, and for the clocks' difference.            *)
Tolerable == Cap >= Outage + 2 * Delay + Poll

(* README_en.md:16, "As long as the computer is on, the VPN never          *)
(* disconnects": while a login process is up, its session does not expire  *)
(* (so the reaper does not take it), whatever renewals are lost or slow    *)
(* within the bounds; given that the server stored the expiry that it told. *)
KeptAlive ==
    Tolerable =>
        \A p \in Proc :
            /\ Keeps(p) /\ token[p] \in Session
            /\ Live(token[p]) /\ left[token[p]] >= known[p]
            => left[token[p]] >= 0

(* Somebody can still log s out: a process, or whoever reads the file. *)
Held(s) == file = s \/ \E p \in Proc : token[p] = s

(* The token of another session is about to be written over s's, or s's is *)
(* about to be deleted by a process that has another one.                  *)
Overwritten(s) ==
    \E p \in Proc : /\ pc[p] \in {"save", "clear", "abort_clear", "cmd_clear"}
                    /\ token[p] # s

(* The token of a session that still counts is let go only when its logout *)
(* was lost or refused, the process or the machine was killed, or another  *)
(* process of the client overwrote it: on its own, no path of the program, *)
(* failed set-ups included, forgets a session without logging it out       *)
(* (README_en.md:99, "notify the server").                                 *)
SessionLetGo ==
    [][\A s \in Session :
          Live(s) /\ left[s] >= 0 /\ Held(s) /\ ~ Held(s)' =>
              \/ s \in unheard
              \/ Overwritten(s)
              \/ Reboot \/ \E p \in Proc : Kill(p)]_vars

(* Ctrl+C ends the process, wherever the renew thread is, unless the       *)
(* answer to a request never comes: curl has no timeout here and           *)
(* pthread_join waits for the thread that waits for curl.                  *)
CtrlCEnds ==
    \A p \in Proc : [](stop[p] => <>(~ stop[p] \/ []Waits(p)))

(* A session nobody holds the token of, because the answer to the login    *)
(* was lost or the process died, does not stay: it expires and is reaped.  *)
OrphanEnds ==
    \A s \in Session : [](Live(s) /\ ~ Held(s) =>
                              <>(~ Live(s) \/ Held(s) \/ []\E p \in Proc : Waits(p)))

=============================================================================
