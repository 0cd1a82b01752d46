----------------------------- MODULE LinuxClient -----------------------------
(***************************************************************************)
(* The Linux client (client/src) on one machine, against a server reduced  *)
(* to its sessions.  Any number of processes of the program may run:       *)
(* `login` sets the tunnel up, renews the session and tears both down at   *)
(* Ctrl+C; `logout` is a process of its own that finds the token in a      *)
(* file.  They share the token file and the interface wg-vpn, and nothing  *)
(* keeps them apart.                                                       *)
(*                                                                         *)
(* A process has one request out at a time: main joins the renew thread    *)
(* before it logs out, so one program counter stands for both threads.     *)
(* Times are kept relative to now, so that the clock needs no bound: left  *)
(* is expires_at - now on the server, known is config->expires_at - now.   *)
(***************************************************************************)
EXTENDS Integers

CONSTANTS
    Proc,        \* processes of the client
    LoginProc,   \* those that may run `login`; the others run `logout` only
    Session,     \* sessions the server may create
    NoSession,   \* no token; no interface
    Bare,        \* an interface that is not configured
    Ttl,         \* session_default_ttl_seconds
    Grace,       \* session_renew_grace_seconds
    Poll,        \* the sleep of the renew thread: 60 s
    Margin,      \* renew when fewer seconds are left: 900
    Delay,       \* bound on a renewal, and on setting the tunnel up
    Outage,      \* bound on how long renewals go on failing
    Lag,         \* how far the client's clock is behind the server's
    Faults       \* what may go wrong

Fault == {"loss", "file", "device", "update", "kill", "reboot", "restart"}

ASSUME LinuxAssumption ==
    /\ LoginProc \subseteq Proc
    /\ NoSession \notin Session /\ Bare \notin Session /\ Bare # NoSession
    /\ Ttl \in Nat /\ Grace \in Nat /\ Margin \in Nat
    /\ Poll \in Nat \ {0} /\ Delay \in Nat \ {0}
    /\ Outage \in Nat /\ Lag \in Nat
    /\ Faults \subseteq Fault

VARIABLES
    sess, left,     \* server: state of each session; time to its expiry, while live
    unheard,        \* history: live sessions whose logout was lost or refused
    file, dev,      \* /var/run/vpn-client.token and the interface wg-vpn
    pc, token, known, timer, stop      \* the processes

server == <<sess, left, unheard>>
machine == <<file, dev>>
vars == <<sess, left, unheard, file, dev, pc, token, known, timer, stop>>

(* client_api_login, then the set-up: save_token and client_wg_up. *)
SetupPc == {"save", "create", "configure", "address"}
(* The renew thread sleeps, has a request out, or gets its answer. *)
RenewPc == {"sleep", "renew", "back"}
(* A set-up that failed: log out, clear the token. *)
AbortPc == {"abort_logout", "abort_clear"}
(* After Ctrl+C: log out, take the interface down, clear the token. *)
DownPc == {"logout", "down", "clear"}
(* The command `logout`: log out, clear the token, take the interface down. *)
CommandPc == {"cmd_logout", "cmd_clear", "cmd_down"}
Pc == {"off", "login"} \cup SetupPc \cup RenewPc \cup AbortPc \cup DownPc \cup CommandPc

(* A process that has a tunnel to keep. *)
Keeps(p) == pc[p] \in SetupPc \cup RenewPc

(* Waiting for curl_easy_perform, which has no timeout of its own. *)
Waits(p) == pc[p] \in {"login", "renew", "back", "abort_logout", "logout", "cmd_logout"}

Live(s) == sess[s] = "live"

(* The sessions of S end. *)
End(S) == /\ sess' = [s \in Session |-> IF s \in S THEN "ended" ELSE sess[s]]
          /\ left' = [s \in Session |-> IF s \in S THEN 0 ELSE left[s]]
          /\ unheard' = unheard \ S

(* Nothing depends on how long a session has been past its grace period.   *)
Bottom == -(Grace + 1)
Less(n, floor) == IF n > floor THEN n - 1 ELSE floor

(* The time from which the renew thread finds a renewal due. *)
Cap == IF Ttl < Margin - Lag THEN Ttl ELSE Margin - Lag
DueFor(p) == Cap - known[p]

(* Variant: renewed once it has expired. *)
DueWhenOver(p) == known[p] + Lag < 0

(* config->expires_at - now < 900, by the client's clock *)
Due(p) == known[p] + Lag < Margin

(* Process p goes on at q, with a new timer. *)
Goto(p, q) == /\ pc' = [pc EXCEPT ![p] = q]
              /\ timer' = [timer EXCEPT ![p] = 0]

(* Process p, which kept a tunnel, goes on at q. *)
Leave(p, q) == Goto(p, q) /\ known' = [known EXCEPT ![p] = 0]

(* Process p ends. *)
Exit(p) == /\ Leave(p, "off")
           /\ token' = [token EXCEPT ![p] = NoSession]
           /\ stop' = [stop EXCEPT ![p] = FALSE]

Init == /\ sess = [s \in Session |-> "none"]
        /\ left = [s \in Session |-> 0]
        /\ unheard = {}
        /\ file = NoSession /\ dev = NoSession
        /\ pc = [p \in Proc |-> "off"]
        /\ token = [p \in Proc |-> NoSession]
        /\ known = [p \in Proc |-> 0]
        /\ timer = [p \in Proc |-> 0]
        /\ stop = [p \in Proc |-> FALSE]

-----------------------------------------------------------------------------
(* login *)

Login(p) == /\ p \in LoginProc
            /\ pc[p] = "off"
            /\ Goto(p, "login")
            /\ UNCHANGED <<server, machine, token, known, stop>>

(* handle_login creates s; the answer may be lost on its way. *)
LoginServed(p, s) ==
    /\ pc[p] = "login"
    /\ sess[s] = "none"
    /\ sess' = [sess EXCEPT ![s] = "live"]
    /\ left' = [left EXCEPT ![s] = Ttl]
    /\ \/ /\ Goto(p, "save")
          /\ token' = [token EXCEPT ![p] = s]
          /\ known' = [known EXCEPT ![p] = Ttl]
          /\ UNCHANGED stop
       \/ "loss" \in Faults /\ Exit(p)
    /\ UNCHANGED <<unheard, machine>>

(* No connection, or not the answer 200: "Login failed." *)
LoginFails(p) == /\ pc[p] = "login"
                 /\ Exit(p)
                 /\ UNCHANGED <<server, machine>>

(* save_token does nothing when the file cannot be opened. *)
SaveToken(p) == /\ pc[p] = "save"
                /\ \/ file' = token[p]
                   \/ "file" \in Faults /\ file' = file
                /\ pc' = [pc EXCEPT ![p] = "create"]
                /\ UNCHANGED <<server, dev, token, known, timer, stop>>

(* client_wg_up: the interface there was is deleted, whosever it was. *)
CreateDevice(p) == /\ pc[p] = "create"
                   /\ \/ /\ dev' = Bare
                         /\ pc' = [pc EXCEPT ![p] = "configure"]
                         /\ UNCHANGED <<timer, known>>
                      \/ /\ "device" \in Faults
                         /\ dev' = NoSession
                         /\ Leave(p, "abort_logout")
                   /\ UNCHANGED <<server, file, token, stop>>

(* Keys, endpoint, wg_set_device. *)
Configure(p) == /\ pc[p] = "configure"
                /\ \/ /\ dev # NoSession
                      /\ dev' = token[p]
                      /\ pc' = [pc EXCEPT ![p] = "address"]
                      /\ UNCHANGED <<timer, known>>
                   \/ /\ dev = NoSession \/ "device" \in Faults
                      /\ Leave(p, "abort_logout")
                      /\ UNCHANGED dev
                /\ UNCHANGED <<server, file, token, stop>>

(* ip link, ip addr and ip route, then the renew thread. *)
SetAddress(p) == /\ pc[p] = "address"
                 /\ \/ dev # NoSession /\ Goto(p, "sleep") /\ UNCHANGED known
                    \/ /\ dev = NoSession \/ "device" \in Faults
                       /\ Leave(p, "abort_logout")
                 /\ UNCHANGED <<server, machine, token, stop>>

-----------------------------------------------------------------------------
(* renew_thread_func *)

(* Variant: keep_running is not volatile, and the thread keeps it in a register. *)
StoppingUnseen(p) == FALSE

(* keep_running = 0, as the loops of the thread read it *)
Stopping(p) == stop[p]

(* A minute is over, or keep_running is 0 and main's join returns. *)
Wake(p) == /\ pc[p] = "sleep"
           /\ \/ Stopping(p) /\ Leave(p, "logout")
              \/ /\ ~ Stopping(p) /\ timer[p] = Poll
                 /\ Goto(p, IF Due(p) THEN "renew" ELSE "sleep")
                 /\ UNCHANGED known
           /\ UNCHANGED <<server, machine, token, stop>>

(* handle_renew accepts s until its grace period is over. *)
Renewable(s) == Live(s) /\ left[s] + Grace >= 0

(* It is accepted.  When the update fails the answer is ok all the same     *)
(* (api_handlers.c:509).  The answer may be lost; a renewal fails only     *)
(* while it has not been due for longer than Outage.                       *)
RenewServed(p) ==
    /\ pc[p] = "renew"
    /\ Renewable(token[p])
    /\ \/ left' = [left EXCEPT ![token[p]] = Ttl]
       \/ "update" \in Faults /\ left' = left
    /\ \/ known' = [known EXCEPT ![p] = Ttl]
       \/ "loss" \in Faults /\ DueFor(p) <= Outage /\ known' = known
    /\ pc' = [pc EXCEPT ![p] = "back"]
    /\ UNCHANGED <<sess, unheard, machine, token, timer, stop>>

(* handle_renew refuses, or the request is lost. *)
RenewFails(p) ==
    /\ pc[p] = "renew"
    /\ \/ ~ Renewable(token[p])
       \/ "loss" \in Faults /\ DueFor(p) <= Outage
    /\ pc' = [pc EXCEPT ![p] = "back"]
    /\ UNCHANGED <<server, machine, token, known, timer, stop>>

(* curl_easy_perform returns; a failed renewal is tried again in a minute, *)
(* for ever.                                                               *)
RenewReturns(p) == /\ pc[p] = "back"
                   /\ \/ Stopping(p) /\ Leave(p, "logout")
                      \/ ~ Stopping(p) /\ Goto(p, "sleep") /\ UNCHANGED known
                   /\ UNCHANGED <<server, machine, token, stop>>

(* handle_sigint, once the handlers are installed *)
Signal(p) == /\ pc[p] \in RenewPc
             /\ ~ stop[p]
             /\ stop' = [stop EXCEPT ![p] = TRUE]
             /\ UNCHANGED <<server, machine, pc, token, known, timer>>

-----------------------------------------------------------------------------
(* The way down *)

AfterLogout == [q \in {"abort_logout", "logout", "cmd_logout"} |->
                   IF q = "abort_logout" THEN "abort_clear"
                   ELSE IF q = "logout" THEN "down" ELSE "cmd_clear"]

(* handle_logout accepts: the session has not expired. *)
Accepted(s) == Live(s) /\ left[s] >= 0

(* client_api_logout; its result is ignored. *)
LogoutServed(p) ==
    /\ pc[p] \in DOMAIN AfterLogout
    /\ Accepted(token[p])
    /\ End({token[p]})
    /\ Goto(p, AfterLogout[pc[p]])
    /\ UNCHANGED <<machine, token, known, stop>>

(* handle_logout refuses, or the request is lost. *)
LogoutFails(p) ==
    /\ pc[p] \in DOMAIN AfterLogout
    /\ ~ Accepted(token[p]) \/ "loss" \in Faults
    /\ unheard' = unheard \cup {s \in {token[p]} : Live(s)}
    /\ Goto(p, AfterLogout[pc[p]])
    /\ UNCHANGED <<sess, left, machine, token, known, stop>>

(* client_wg_down deletes the interface, whosever it is. *)
TakeDown(p) == /\ pc[p] = "down"
               /\ dev' = NoSession
               /\ Goto(p, "clear")
               /\ UNCHANGED <<server, file, token, known, stop>>

(* clear_token deletes the file, whosever token it holds. *)
ClearToken(p) == /\ pc[p] \in {"clear", "abort_clear"}
                 /\ file' = NoSession
                 /\ Exit(p)
                 /\ UNCHANGED <<server, dev>>

(* Variant: the command forgets to log out. *)
CommandKeepsSession(p) ==
    /\ pc[p] = "off"
    /\ Goto(p, IF file = NoSession THEN "cmd_down" ELSE "cmd_clear")
    /\ token' = [token EXCEPT ![p] = file]
    /\ UNCHANGED <<server, machine, known, stop>>

(* Variant: the command does not look whether there was a token. *)
CommandUnchecked(p) ==
    /\ pc[p] = "off"
    /\ Goto(p, "cmd_logout")
    /\ token' = [token EXCEPT ![p] = file]
    /\ UNCHANGED <<server, machine, known, stop>>

(* The command `logout` loads the token. *)
Command(p) == /\ pc[p] = "off"
              /\ Goto(p, IF file = NoSession THEN "cmd_down" ELSE "cmd_logout")
              /\ token' = [token EXCEPT ![p] = file]
              /\ UNCHANGED <<server, machine, known, stop>>

CommandClear(p) == /\ pc[p] = "cmd_clear"
                   /\ file' = NoSession
                   /\ Goto(p, "cmd_down")
                   /\ UNCHANGED <<server, dev, token, known, stop>>

CommandDown(p) == /\ pc[p] = "cmd_down"
                  /\ dev' = NoSession
                  /\ Exit(p)
                  /\ UNCHANGED <<server, file>>

-----------------------------------------------------------------------------
(* What is not the client's to decide *)

(* A signal before the handlers are installed, or a kill, or a crash. *)
Kill(p) == /\ "kill" \in Faults
           /\ pc[p] # "off"
           /\ Exit(p)
           /\ UNCHANGED <<server, machine>>

(* The machine goes down: no process, no interface, /var/run is empty. *)
Reboot == /\ "reboot" \in Faults
          /\ \E p \in Proc : pc[p] # "off"
          /\ pc' = [p \in Proc |-> "off"]
          /\ token' = [p \in Proc |-> NoSession]
          /\ known' = [p \in Proc |-> 0]
          /\ timer' = [p \in Proc |-> 0]
          /\ stop' = [p \in Proc |-> FALSE]
          /\ file' = NoSession /\ dev' = NoSession
          /\ UNCHANGED server

(* revoke_stale_sessions of a server that starts again *)
ServerRestart ==
    /\ "restart" \in Faults
    /\ \E s \in Session : Live(s)
    /\ End({s \in Session : Live(s)})
    /\ UNCHANGED <<machine, pc, token, known, timer, stop>>

(* Variant: the query of the reaper asks for revoked rows. *)
ReapEnded(s) == /\ sess[s] = "ended" /\ left[s] < 0
                /\ End({s})
                /\ UNCHANGED <<machine, pc, token, known, timer, stop>>

(* The reaper of the server, which does not wait for the grace period. *)
Reap(s) == /\ Live(s) /\ left[s] < 0
           /\ End({s})
           /\ UNCHANGED <<machine, pc, token, known, timer, stop>>

(* The sleep of a renew thread lasts no longer than Poll, a renewal and a   *)
(* set-up no longer than Delay.                                             *)
Tick == /\ \A p \in Proc : /\ pc[p] = "sleep" => timer[p] < Poll
                           /\ pc[p] \in SetupPc \cup {"renew", "back"} => timer[p] < Delay
        /\ left' = [s \in Session |-> IF Live(s) THEN Less(left[s], Bottom - 1) ELSE left[s]]
        /\ known' = [p \in Proc |-> IF Keeps(p) THEN Less(known[p], Bottom) ELSE known[p]]
        /\ timer' = [p \in Proc |-> IF Keeps(p) THEN timer[p] + 1 ELSE timer[p]]
        /\ UNCHANGED <<sess, unheard, machine, pc, token, stop>>

-----------------------------------------------------------------------------

Setup(p) == SaveToken(p) \/ CreateDevice(p) \/ Configure(p) \/ SetAddress(p)
Teardown(p) == TakeDown(p) \/ ClearToken(p) \/ CommandClear(p) \/ CommandDown(p)
Answer(p) == \/ \E s \in Session : LoginServed(p, s)
             \/ LoginFails(p) \/ RenewServed(p) \/ RenewFails(p) \/ RenewReturns(p)
             \/ LogoutServed(p) \/ LogoutFails(p)

(* The steps a process takes by itself. *)
Step(p) == Setup(p) \/ Wake(p) \/ Teardown(p)

Next == \/ \E p \in Proc : \/ Login(p) \/ Command(p) \/ Signal(p) \/ Kill(p)
                           \/ Step(p) \/ Answer(p)
        \/ \E s \in Session : Reap(s)
        \/ Reboot \/ ServerRestart \/ Tick

Spec == Init /\ [][Next]_vars

(* Threads run, time passes, and the server's reaper makes its rounds; no   *)
(* answer is assumed to come.                                               *)
FairSpec == /\ Spec
            /\ \A p \in Proc : WF_vars(Step(p))
            /\ \A s \in Session : WF_vars(Reap(s))
            /\ WF_vars(Tick)

=============================================================================
