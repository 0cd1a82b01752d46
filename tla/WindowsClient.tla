---------------------------- MODULE WindowsClient ----------------------------
(***************************************************************************)
(* The Windows client: the library windows/client/src/authwg.cpp and the   *)
(* user interface windows-ui/main.pas that calls it.  Two threads: the     *)
(* user interface's, which runs the calls WgLogin and WgLogout to their    *)
(* end, and the thread that renews the session.  The tunnel is a Windows   *)
(* service and outlives the process, as the session on the server does.    *)
(***************************************************************************)
EXTENDS Naturals

CONSTANTS
    Token,      \* the sessions the server can give out
    NoToken,    \* no session
    Faults,     \* what can go wrong: "net", "conf", "install", "uninstall", "kill"
    MaxFrames   \* bound on clicks handled inside ProcessMessages of another

ASSUME ClientAssumption ==
    /\ NoToken \notin Token
    /\ Faults \subseteq {"net", "conf", "install", "uninstall", "kill"}
    /\ MaxFrames \in Nat \ {0}

VARIABLES
    ui,         \* what the user interface's thread does next
    frames,     \* btnConnectClick frames that wait in ProcessMessages
    exiting,    \* Exit was chosen
    shown,      \* FIsConnected: the button says Disconnect
    running,    \* g_is_running
    status,     \* g_status; "Failed" stands for each failure of WgLogin
    token,      \* g_session_token
    renewer,    \* the thread in g_renew_thread
    conf,       \* the session whose keys are in wg-vpn.conf
    tunnel,     \* the session whose tunnel the service runs
    session     \* the sessions as the server has them

window == <<frames, exiting, shown>>
library == <<running, status, token, renewer>>
machine == <<conf, tunnel>>
vars == <<ui, window, library, machine, session>>

Ended == {"gone", "killed"}
Calls == {"login", "conf", "install", "join", "bye", "uninstall", "unheard"}

Init ==
    /\ ui = "gone"
    /\ frames = 0 /\ exiting = FALSE /\ shown = FALSE
    /\ running = FALSE /\ status = "Disconnected" /\ token = NoToken /\ renewer = "none"
    /\ conf = NoToken /\ tunnel = NoToken
    /\ session = [t \in Token |-> "none"]

(* The process's memory as it is before anything happened. *)
Blank ==
    /\ frames' = 0 /\ exiting' = FALSE /\ shown' = FALSE
    /\ running' = FALSE /\ status' = "Disconnected" /\ token' = NoToken /\ renewer' = "none"

(* wireguard.exe removes the service; nobody looks at whether it did. *)
TunnelRemoved ==
    \/ tunnel' = NoToken
    \/ "uninstall" \in Faults /\ UNCHANGED tunnel

(* FormCreate; ForceKillGhostService ignores its failure. *)
Launch ==
    /\ ui \in Ended
    /\ ui' = "loop"
    /\ Blank
    /\ TunnelRemoved
    /\ UNCHANGED <<conf, session>>

-----------------------------------------------------------------------------
(* The message loop, also inside ProcessMessages. *)
Listening == ui = "loop" /\ ~ exiting

(* UpdateStatus once a second. *)
Timer ==
    /\ Listening
    /\ shown' = (status = "Connected")
    /\ UNCHANGED <<ui, frames, exiting, library, machine, session>>

(* btnConnectClick up to its ProcessMessages. *)
ClickConnect ==
    /\ Listening
    /\ ~ shown
    /\ frames < MaxFrames
    /\ frames' = frames + 1
    /\ UNCHANGED <<ui, exiting, shown, library, machine, session>>

(* Variant: the call does not look at g_is_running. *)
WgLoginAgain ==
    /\ ui = "loop"
    /\ frames > 0
    /\ frames' = frames - 1
    /\ ui' = "login" /\ status' = "Connecting"
    /\ UNCHANGED <<exiting, shown, running, token, renewer, machine, session>>

(* Variant: a login that no click waits for. *)
WgLoginUnasked ==
    /\ ui = "loop"
    /\ frames' = frames - 1
    /\ \/ running /\ UNCHANGED <<ui, status>>
       \/ ~ running /\ ui' = "login" /\ status' = "Connecting"
    /\ UNCHANGED <<exiting, shown, running, token, renewer, machine, session>>

(* The latest click goes on and calls WgLogin, even when Exit was chosen   *)
(* meanwhile.                                                              *)
WgLogin ==
    /\ ui = "loop"
    /\ frames > 0
    /\ frames' = frames - 1
    /\ \/ running /\ UNCHANGED <<ui, status>>
       \/ ~ running /\ ui' = "login" /\ status' = "Connecting"
    /\ UNCHANGED <<exiting, shown, running, token, renewer, machine, session>>

(* WgLogin returns a negative code, and the click updates the status. *)
LoginFails ==
    /\ ui' = "loop"
    /\ status' = "Failed"
    /\ shown' = FALSE
    /\ UNCHANGED <<frames, exiting, running, renewer>>

(* POST /login: a session, a refusal, or an answer that is lost.  A URL    *)
(* that is not accepted is a refusal too.                                  *)
LoginPost ==
    /\ ui = "login"
    /\ \/ \E t \in Token :
             /\ session[t] = "none"
             /\ session' = [session EXCEPT ![t] = "live"]
             /\ \/ /\ token' = t
                   /\ ui' = "conf"
                   /\ UNCHANGED <<window, running, status, renewer>>
                \/ "net" \in Faults /\ LoginFails /\ UNCHANGED token
       \/ LoginFails /\ UNCHANGED <<token, session>>
    /\ UNCHANGED machine

WriteConf ==
    /\ ui = "conf"
    /\ \/ conf' = token /\ ui' = "install" /\ UNCHANGED <<window, running, status, renewer>>
       \/ "conf" \in Faults /\ LoginFails /\ UNCHANGED conf
    /\ UNCHANGED <<token, tunnel, session>>

(* Variant: the status is not set when the tunnel is up. *)
InstallTunnelSilently ==
    /\ ui = "install"
    /\ \/ /\ tunnel' = token
          /\ running' = TRUE /\ renewer' = "asleep"
          /\ ui' = "loop"
          /\ UNCHANGED <<window, status>>
       \/ "install" \in Faults /\ LoginFails /\ tunnel' \in {tunnel, token}
    /\ UNCHANGED <<token, conf, session>>

(* InstallTunnel, and when it answers true the start of the renew thread.  *)
(* An installer that was stopped after five seconds may have done its work.*)
InstallTunnel ==
    /\ ui = "install"
    /\ \/ /\ tunnel' = token
          /\ running' = TRUE /\ status' = "Connected" /\ renewer' = "asleep"
          /\ ui' = "loop"
          /\ UNCHANGED window
       \/ "install" \in Faults /\ LoginFails /\ tunnel' \in {tunnel, token}
    /\ UNCHANGED <<token, conf, session>>

-----------------------------------------------------------------------------
(* Variant: the token is cleared at the start of WgLogout. *)
StopRunningForgets ==
    /\ running' = FALSE /\ status' = "Disconnecting" /\ token' = NoToken
    /\ ui' = "join"
    /\ UNCHANGED renewer

(* WgLogout up to the join of the renew thread. *)
StopRunning ==
    /\ running' = FALSE /\ status' = "Disconnecting"
    /\ ui' = "join"
    /\ UNCHANGED <<token, renewer>>

(* btnConnectClick when the button says Disconnect; without a running      *)
(* tunnel WgLogout returns at once.                                        *)
ClickDisconnect ==
    /\ Listening
    /\ shown /\ running
    /\ StopRunning
    /\ UNCHANGED <<window, machine, session>>

(* MenuItemExitClick. *)
ClickExit ==
    /\ Listening
    /\ exiting' = TRUE
    /\ \/ shown /\ running /\ StopRunning
       \/ ~ (shown /\ running) /\ UNCHANGED <<ui, library>>
    /\ UNCHANGED <<frames, shown, machine, session>>

(* Variant: the thread is not waited for. *)
DetachRenewer ==
    /\ ui = "join"
    /\ ui' = "bye"
    /\ UNCHANGED <<window, library, machine, session>>

JoinRenewer ==
    /\ ui = "join"
    /\ renewer = "done"
    /\ renewer' = "none"
    /\ ui' = "bye"
    /\ UNCHANGED <<window, running, status, token, machine, session>>

(* POST /logout; nobody looks at its result. *)
LogoutPost ==
    /\ ui = "bye"
    /\ \/ /\ session' = [t \in Token |-> IF t = token /\ session[t] = "live"
                                         THEN "ended" ELSE session[t]]
          /\ ui' = "uninstall"
       \/ "net" \in Faults /\ ui' = "unheard" /\ UNCHANGED session
    /\ UNCHANGED <<window, library, machine>>

(* UninstallTunnel and the rest of WgLogout. *)
UninstallTunnel ==
    /\ ui \in {"uninstall", "unheard"}
    /\ TunnelRemoved
    /\ conf' = NoToken
    /\ token' = NoToken /\ status' = "Disconnected"
    /\ ui' = "loop"
    /\ UNCHANGED <<window, running, renewer, session>>

(* The loop ends after Exit: FormDestroy unloads the library, which deletes *)
(* the file, and the process ends with whatever thread it still has.       *)
Terminate ==
    /\ ui = "loop" /\ exiting /\ frames = 0
    /\ ui' = "gone"
    /\ Blank
    /\ conf' = NoToken
    /\ UNCHANGED <<tunnel, session>>

(* The process is killed. *)
Kill ==
    /\ "kill" \in Faults
    /\ ui \notin Ended
    /\ ui' = "killed"
    /\ Blank
    /\ UNCHANGED <<machine, session>>

-----------------------------------------------------------------------------
(* Variant: g_is_running is looked at only when six hours are over. *)
RenewWakeDeaf ==
    /\ renewer = "asleep" /\ running
    /\ renewer' = "posting"
    /\ UNCHANGED <<ui, window, running, status, token, machine, session>>

(* The sleep of RenewThreadFunc ends, after six hours or with the logout. *)
RenewWake ==
    /\ renewer = "asleep"
    /\ renewer' = IF running THEN "posting" ELSE "done"
    /\ UNCHANGED <<ui, window, running, status, token, machine, session>>

(* POST /renew: any answer but 200 is shown, no answer is not.  A server   *)
(* that cannot read its database refuses a live session too.               *)
RenewPost ==
    /\ renewer = "posting"
    /\ renewer' = "asleep"
    /\ \/ /\ session[token] = "live" \/ "net" \in Faults
          /\ UNCHANGED status
       \/ /\ session[token] # "live" \/ "net" \in Faults
          /\ status' = "RenewFailed"
    /\ UNCHANGED <<ui, window, running, token, machine, session>>

(* The server ends a session: it expired, or the server was restarted. *)
ServerEnds(t) ==
    /\ session[t] = "live"
    /\ session' = [session EXCEPT ![t] = "ended"]
    /\ UNCHANGED <<ui, window, library, machine>>

-----------------------------------------------------------------------------
(* What the user interface's thread does once it was started. *)
UiStep ==
    \/ WgLogin \/ LoginPost \/ WriteConf \/ InstallTunnel
    \/ JoinRenewer \/ LogoutPost \/ UninstallTunnel \/ Terminate

Renewer == RenewWake \/ RenewPost

User == ClickConnect \/ ClickDisconnect \/ ClickExit \/ Launch

Next == UiStep \/ Timer \/ Renewer \/ User \/ Kill \/ \E t \in Token : ServerEnds(t)

Spec == Init /\ [][Next]_vars

FairSpec == Spec /\ WF_vars(UiStep) /\ WF_vars(Timer) /\ WF_vars(Renewer)

=============================================================================
