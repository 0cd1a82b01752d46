-------------------------- MODULE WindowsProperties --------------------------
(* What the Windows client must keep. *)
EXTENDS WindowsClient

(* Every variable has its type. *)
WinTypeOK ==
    /\ ui \in Ended \cup Calls \cup {"loop"}
    /\ frames \in 0 .. MaxFrames
    /\ exiting \in BOOLEAN /\ shown \in BOOLEAN /\ running \in BOOLEAN
    /\ status \in {"Disconnected", "Connecting", "Failed", "Connected",
                   "Disconnecting", "RenewFailed"}
    /\ token \in Token \cup {NoToken}
    /\ renewer \in {"none", "asleep", "posting", "done"}
    /\ conf \in Token \cup {NoToken} /\ tunnel \in Token \cup {NoToken}
    /\ session \in [Token -> {"none", "live", "ended"}]

(* While the library says it is running, the tunnel, its file and the      *)
(* token are those of one session and a thread renews it, whatever clicks  *)
(* were handled inside another (authwg.cpp:175-302, main.pas:258-288).     *)
RunningIsWhole ==
    running => /\ token # NoToken /\ tunnel = token /\ conf = token
               /\ renewer # "none"
               /\ status \in {"Connected", "RenewFailed"}

(* g_session_token is a plain string that two threads use: the user        *)
(* interface's thread writes it only while there is no renew thread that   *)
(* could read it (authwg.cpp:146, 255, 309-313, 333).                      *)
TokenChange == token' # token => renewer = "none" \/ ui' \in Ended
TokenNotShared == [][TokenChange]_vars

(* The client lets go of the token of a session that is live on the server *)
(* only when the process ends, when the server could not be told, or when  *)
(* the login had not got as far as a running tunnel (authwg.cpp:304-337).  *)
LetGo == \A t \in Token :
            token = t /\ session[t] = "live" /\ token' # t
                => ui' \in Ended \/ ui \in {"unheard", "login"}
TokenLetGo == [][LetGo]_vars

(* Once the tunnel is up the button comes to say Disconnect, unless a      *)
(* renewal was refused first (main.pas:220-254).                           *)
ButtonFollows == running ~> shown \/ status = "RenewFailed" \/ ~ running

(* WgLogin and WgLogout return: the wait for the renew thread ends.        *)
CallsReturn == ui \in Calls ~> ui \notin Calls

(* README_en.md, "Using the Windows Client": Exit disconnects and destroys *)
(* the virtual network adapter.                                            *)
ExitDisconnects == ui = "gone" => tunnel = NoToken

=============================================================================
