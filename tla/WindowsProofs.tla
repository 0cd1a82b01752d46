---------------------------- MODULE WindowsProofs ----------------------------
(***************************************************************************)
(* The two threads of the Windows client keep out of each other's way, for *)
(* any number of sessions and of clicks inside one another, and for every  *)
(* set of faults.                                                          *)
(***************************************************************************)
EXTENDS WindowsProperties, TLAPS

(* A tunnel runs only between two calls, and a renew thread is there only  *)
(* while it runs or is being waited for.                                   *)
Threads == /\ running => ui = "loop"
           /\ renewer # "none" => running \/ ui = "join"

(* What the user interface's thread has done before its next call. *)
Progress == /\ ui \in Ended => token = NoToken
            /\ ui \in {"conf", "install"} => token # NoToken
            /\ ui = "install" => conf = token
            /\ ui = "uninstall" => \A t \in Token : t = token => session[t] # "live"

(* The inductive invariant. *)
WInv == WinTypeOK /\ RunningIsWhole /\ Threads /\ Progress

(* It holds at the start. *)
LEMMA WindowsInit == Init => WInv
<1> SUFFICES ASSUME Init PROVE WInv
  OBVIOUS
<1> USE DEF Init, Ended, Calls
<1>1. WinTypeOK
  <2>1. frames \in 0 .. MaxFrames
    BY ClientAssumption
  <2>2. exiting \in BOOLEAN /\ shown \in BOOLEAN /\ running \in BOOLEAN
    OBVIOUS
  <2>3. session \in [Token -> {"none", "live", "ended"}]
    OBVIOUS
  <2>4. QED
    BY <2>1, <2>2, <2>3 DEF WinTypeOK
<1>2. RunningIsWhole /\ Threads /\ Progress
  BY DEF RunningIsWhole, Threads, Progress
<1>3. QED
  BY <1>1, <1>2 DEF WInv

(* Every step keeps it. *)
LEMMA WindowsStep == WInv /\ [Next]_vars => WInv'
<1> SUFFICES ASSUME WInv, [Next]_vars PROVE WInv'
  OBVIOUS
<1> USE ClientAssumption DEF WInv, WinTypeOK, RunningIsWhole, Threads, Progress,
        Ended, Calls, vars, window, library, machine
<1>1. CASE Launch
  <2>1. WinTypeOK'
    <3>1. frames' \in 0 .. MaxFrames
      BY <1>1 DEF Launch, Blank, TunnelRemoved
    <3>2. exiting' \in BOOLEAN /\ shown' \in BOOLEAN /\ running' \in BOOLEAN
      BY <1>1 DEF Launch, Blank, TunnelRemoved
    <3>3. QED
      BY <1>1, <3>1, <3>2 DEF Launch, Blank, TunnelRemoved
  <2>2. RunningIsWhole' /\ Threads'
    BY <1>1 DEF Launch, Blank, TunnelRemoved
  <2>3. Progress'
    BY <1>1 DEF Launch, Blank, TunnelRemoved
  <2>4. QED
    BY <2>1, <2>2, <2>3
<1>2. CASE Timer
  BY <1>2 DEF Timer, Listening
<1>3. CASE ClickConnect
  BY <1>3 DEF ClickConnect, Listening
<1>4. CASE WgLogin
  BY <1>4 DEF WgLogin
<1>5. CASE LoginPost
  <2>1. CASE LoginFails /\ UNCHANGED <<token, session>>
    BY <1>5, <2>1 DEF LoginPost, LoginFails
  <2>2. ASSUME NEW t \in Token, session[t] = "none",
               session' = [session EXCEPT ![t] = "live"]
        PROVE  WInv'
    <3>1. session' \in [Token -> {"none", "live", "ended"}]
      BY <2>2
    <3>2. CASE token' = t /\ ui' = "conf" /\ UNCHANGED <<window, running, status, renewer>>
      BY <1>5, <2>2, <3>1, <3>2 DEF LoginPost
    <3>3. CASE LoginFails /\ UNCHANGED token
      BY <1>5, <2>2, <3>1, <3>3 DEF LoginPost, LoginFails
    <3>4. QED
      BY <1>5, <2>2, <3>2, <3>3 DEF LoginPost
  <2>3. QED
    BY <1>5, <2>1, <2>2 DEF LoginPost
<1>6. CASE WriteConf
  <2>1. WinTypeOK'
    BY <1>6 DEF WriteConf, LoginFails
  <2>2. RunningIsWhole' /\ Threads'
    BY <1>6 DEF WriteConf, LoginFails
  <2>3. Progress'
    BY <1>6 DEF WriteConf, LoginFails
  <2>4. QED
    BY <2>1, <2>2, <2>3
<1>7. CASE InstallTunnel
  <2>1. WinTypeOK'
    BY <1>7 DEF InstallTunnel, LoginFails
  <2>2. RunningIsWhole' /\ Threads'
    BY <1>7 DEF InstallTunnel, LoginFails
  <2>3. Progress'
    BY <1>7 DEF InstallTunnel, LoginFails
  <2>4. QED
    BY <2>1, <2>2, <2>3
<1>8. CASE ClickDisconnect
  BY <1>8 DEF ClickDisconnect, StopRunning, Listening
<1>9. CASE ClickExit
  <2>1. WinTypeOK'
    BY <1>9 DEF ClickExit, StopRunning, Listening
  <2>2. RunningIsWhole' /\ Threads'
    BY <1>9 DEF ClickExit, StopRunning, Listening
  <2>3. Progress'
    BY <1>9 DEF ClickExit, StopRunning, Listening
  <2>4. QED
    BY <2>1, <2>2, <2>3
<1>10. CASE JoinRenewer
  BY <1>10 DEF JoinRenewer
<1>11. CASE LogoutPost
  BY <1>11 DEF LogoutPost
<1>12. CASE UninstallTunnel
  BY <1>12 DEF UninstallTunnel, TunnelRemoved
<1>13. CASE Terminate
  BY <1>13 DEF Terminate, Blank
<1>14. CASE Kill
  <2>1. WinTypeOK'
    <3>1. frames' \in 0 .. MaxFrames
      BY <1>14 DEF Kill, Blank
    <3>2. exiting' \in BOOLEAN /\ shown' \in BOOLEAN /\ running' \in BOOLEAN
      BY <1>14 DEF Kill, Blank
    <3>3. QED
      BY <1>14, <3>1, <3>2 DEF Kill, Blank
  <2>2. RunningIsWhole' /\ Threads'
    BY <1>14 DEF Kill, Blank
  <2>3. Progress'
    BY <1>14 DEF Kill, Blank
  <2>4. QED
    BY <2>1, <2>2, <2>3
<1>15. CASE RenewWake
  BY <1>15 DEF RenewWake
<1>16. CASE RenewPost
  BY <1>16 DEF RenewPost
<1>17. ASSUME NEW t \in Token, ServerEnds(t) PROVE WInv'
  BY <1>17 DEF ServerEnds
<1>18. CASE UNCHANGED vars
  BY <1>18
<1>19. QED
  BY <1>1, <1>2, <1>3, <1>4, <1>5, <1>6, <1>7, <1>8, <1>9, <1>10, <1>11, <1>12,
     <1>13, <1>14, <1>15, <1>16, <1>17, <1>18 DEF Next, UiStep, Renewer, User

(* Every variable has its type. *)
THEOREM WindowsTypeCorrect == Spec => []WinTypeOK
<1>1. WInv => WinTypeOK
  BY DEF WInv
<1>2. QED
  BY WindowsInit, WindowsStep, <1>1, PTL DEF Spec

(* A running tunnel is whole: one session, one token, one thread. *)
THEOREM RunningCorrect == Spec => []RunningIsWhole
<1>1. WInv => RunningIsWhole
  BY DEF WInv
<1>2. QED
  BY WindowsInit, WindowsStep, <1>1, PTL DEF Spec

(* The token is written only when no renew thread can read it. *)
THEOREM TokenCorrect == Spec => TokenNotShared
<1>1. WInv /\ [Next]_vars => [TokenChange]_vars
  <2> SUFFICES ASSUME WInv, Next, token' # token, renewer # "none", ui' \notin Ended
               PROVE  FALSE
    BY DEF TokenChange
  <2> USE DEF WInv, Threads, Ended, library
  <2>1. CASE UiStep
    BY <2>1 DEF UiStep, WgLogin, LoginPost, WriteConf, InstallTunnel, JoinRenewer,
                LogoutPost, UninstallTunnel, Terminate, window, machine
  <2>2. CASE User
    BY <2>2 DEF User, Launch, ClickConnect, ClickDisconnect, ClickExit, StopRunning,
                Listening
  <2>3. CASE ~ (UiStep \/ User)
    BY <2>3 DEF Next, Timer, Renewer, RenewWake, RenewPost, Kill, ServerEnds
  <2>4. QED
    BY <2>1, <2>2, <2>3
<1>2. QED
  BY WindowsInit, WindowsStep, <1>1, PTL DEF Spec, TokenNotShared

(* A live session's token is let go only when the process ends, when the   *)
(* logout could not be told, or for a new login after a failed one.        *)
THEOREM LetGoCorrect == Spec => TokenLetGo
<1>1. WInv /\ [Next]_vars => [LetGo]_vars
  <2> SUFFICES ASSUME WInv, Next, NEW t \in Token, token = t, session[t] = "live",
                      token' # t, ui' \notin Ended, ui \notin {"unheard", "login"}
               PROVE  FALSE
    BY DEF LetGo
  <2> USE ClientAssumption DEF WInv, Progress, Ended, library
  <2>1. CASE UiStep
    BY <2>1 DEF UiStep, WgLogin, LoginPost, WriteConf, InstallTunnel, JoinRenewer,
                LogoutPost, UninstallTunnel, Terminate, window, machine
  <2>2. CASE User
    BY <2>2 DEF User, Launch, ClickConnect, ClickDisconnect, ClickExit, StopRunning,
                Listening
  <2>3. CASE ~ (UiStep \/ User)
    BY <2>3 DEF Next, Timer, Renewer, RenewWake, RenewPost, Kill, ServerEnds
  <2>4. QED
    BY <2>1, <2>2, <2>3
<1>2. QED
  BY WindowsInit, WindowsStep, <1>1, PTL DEF Spec, TokenLetGo

=============================================================================
