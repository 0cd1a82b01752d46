----------------------------- MODULE LinuxProofs -----------------------------
(***************************************************************************)
(* What the Linux client guarantees for any number of processes that log   *)
(* in or out at any moment, any number of sessions, every set of faults,   *)
(* and every session time, margin and delay.                               *)
(***************************************************************************)
EXTENDS LinuxProperties, TLAPS

USE DEF vars, server, machine

(* The process variables of p, where pc, token and stop are what they were *)
(* or what Goto, Leave and Exit make of them, keep their types.            *)
LEMMA GotoTypes ==
  ASSUME LinuxTypeOK, NEW p \in Proc, NEW q \in Pc, Goto(p, q)
  PROVE  /\ pc' \in [Proc -> Pc]
         /\ timer' \in [Proc -> Nat]
         /\ \A r \in Proc : timer'[r] <= Poll \/ timer'[r] <= Delay
         /\ pc'[p] = q /\ timer'[p] = 0
         /\ \A r \in Proc \ {p} : pc'[r] = pc[r] /\ timer'[r] = timer[r]
BY LinuxAssumption DEF Goto, LinuxTypeOK

LEMMA LeaveTypes ==
  ASSUME LinuxTypeOK, NEW p \in Proc, NEW q \in Pc, Leave(p, q)
  PROVE  Goto(p, q) /\ known' \in [Proc -> Int]
BY DEF Leave, LinuxTypeOK

LEMMA ExitTypes ==
  ASSUME LinuxTypeOK, NEW p \in Proc, Exit(p)
  PROVE  /\ Goto(p, "off") /\ known' \in [Proc -> Int]
         /\ token' \in [Proc -> Session \cup {NoSession}]
         /\ token'[p] = NoSession
         /\ \A r \in Proc \ {p} : token'[r] = token[r]
<1>1. "off" \in Pc
  BY DEF Pc
<1>2. QED
  BY <1>1, LeaveTypes DEF Exit, LinuxTypeOK

LEMMA ExitStop ==
  ASSUME LinuxTypeOK, NEW p \in Proc, Exit(p)
  PROVE  /\ stop' \in [Proc -> BOOLEAN]
         /\ ~ stop'[p]
         /\ \A r \in Proc \ {p} : stop'[r] = stop[r]
BY DEF Exit, LinuxTypeOK

(* Every step keeps the types. *)
LEMMA LinuxTypes == LinuxTypeOK /\ [Next]_vars => LinuxTypeOK'
<1> SUFFICES ASSUME LinuxTypeOK, [Next]_vars PROVE LinuxTypeOK'
  OBVIOUS
<1> USE LinuxAssumption DEF LinuxTypeOK, SetupPc, RenewPc, AbortPc, DownPc, CommandPc, Pc
<1>1. ASSUME NEW p \in Proc, Login(p) PROVE LinuxTypeOK'
  BY <1>1, GotoTypes DEF Login
<1>2. ASSUME NEW p \in Proc, Command(p) PROVE LinuxTypeOK'
  BY <1>2, GotoTypes DEF Command
<1>3. ASSUME NEW p \in Proc, Signal(p) PROVE LinuxTypeOK'
  BY <1>3 DEF Signal
<1>4. ASSUME NEW p \in Proc, Kill(p) PROVE LinuxTypeOK'
  BY <1>4, ExitTypes, ExitStop, GotoTypes DEF Kill
<1>5. ASSUME NEW p \in Proc, SaveToken(p) PROVE LinuxTypeOK'
  BY <1>5 DEF SaveToken
<1>6. ASSUME NEW p \in Proc, CreateDevice(p) PROVE LinuxTypeOK'
  BY <1>6, GotoTypes, LeaveTypes DEF CreateDevice
<1>7. ASSUME NEW p \in Proc, Configure(p) PROVE LinuxTypeOK'
  BY <1>7, GotoTypes, LeaveTypes DEF Configure
<1>8. ASSUME NEW p \in Proc, SetAddress(p) PROVE LinuxTypeOK'
  BY <1>8, GotoTypes, LeaveTypes DEF SetAddress
<1>9. ASSUME NEW p \in Proc, Wake(p) PROVE LinuxTypeOK'
  BY <1>9, GotoTypes, LeaveTypes DEF Wake, Due, Stopping
<1>10. ASSUME NEW p \in Proc, TakeDown(p) PROVE LinuxTypeOK'
  BY <1>10, GotoTypes DEF TakeDown
<1>11. ASSUME NEW p \in Proc, ClearToken(p) PROVE LinuxTypeOK'
  BY <1>11, ExitTypes, ExitStop, GotoTypes DEF ClearToken
<1>12. ASSUME NEW p \in Proc, CommandClear(p) PROVE LinuxTypeOK'
  BY <1>12, GotoTypes DEF CommandClear
<1>13. ASSUME NEW p \in Proc, CommandDown(p) PROVE LinuxTypeOK'
  BY <1>13, ExitTypes, ExitStop, GotoTypes DEF CommandDown
<1>14. ASSUME NEW p \in Proc, LoginFails(p) PROVE LinuxTypeOK'
  BY <1>14, ExitTypes, ExitStop, GotoTypes DEF LoginFails
<1>15. ASSUME NEW p \in Proc, RenewServed(p) PROVE LinuxTypeOK'
  BY <1>15 DEF RenewServed, Renewable, Live
<1>16. ASSUME NEW p \in Proc, RenewFails(p) PROVE LinuxTypeOK'
  BY <1>16 DEF RenewFails, Renewable, Live
<1>17. ASSUME NEW p \in Proc, RenewReturns(p) PROVE LinuxTypeOK'
  BY <1>17, GotoTypes, LeaveTypes DEF RenewReturns, Stopping
<1>18. ASSUME NEW p \in Proc, LogoutServed(p) PROVE LinuxTypeOK'
  BY <1>18, GotoTypes DEF LogoutServed, Accepted, End, Live, AfterLogout
<1>19. ASSUME NEW p \in Proc, LogoutFails(p) PROVE LinuxTypeOK'
  BY <1>19, GotoTypes DEF LogoutFails, Accepted, Live, AfterLogout
<1>20. ASSUME NEW p \in Proc, NEW s \in Session, LoginServed(p, s) PROVE LinuxTypeOK'
  BY <1>20, ExitTypes, ExitStop, GotoTypes DEF LoginServed
<1>21. ASSUME NEW s \in Session, Reap(s) PROVE LinuxTypeOK'
  BY <1>21 DEF Reap, End
<1>22. CASE Reboot
  BY <1>22 DEF Reboot
<1>23. CASE ServerRestart
  BY <1>23 DEF ServerRestart, End
<1>24. CASE Tick
  BY <1>24 DEF Tick, Less, Keeps, Bottom, Live
<1>25. CASE UNCHANGED vars
  BY <1>25
<1>26. QED
  BY <1>1, <1>2, <1>3, <1>4, <1>5, <1>6, <1>7, <1>8, <1>9, <1>10, <1>11, <1>12,
     <1>13, <1>14, <1>15, <1>16, <1>17, <1>18, <1>19, <1>20, <1>21, <1>22, <1>23,
     <1>24, <1>25 DEF Next, Step, Setup, Teardown, Answer

(* A token that a process or the file has is one of a session that was made. *)
Born == /\ \A p \in Proc : token[p] \in Session => sess[token[p]] # "none"
        /\ file \in Session => sess[file] # "none"

(* A process past its logout that has the token of a live session was told *)
(* no, or was not heard.                                                   *)
Past(p) == pc[p] \in {"down", "clear", "abort_clear", "cmd_clear", "cmd_down"}
Answered == \A p \in Proc : Past(p) /\ token[p] \in Session =>
                                 (Live(token[p]) => token[p] \in unheard)

(* The server would still renew the session of p, or has it as long as p   *)
(* believes; once neither is so, it stays so.                              *)
Sound(p) == /\ Live(token[p])
            /\ left[token[p]] >= known[p] \/ left[token[p]] + Grace >= 0

(* How long a renewal may have been due, by what the process is doing.     *)
InTime(p) ==
    /\ pc[p] \in SetupPc => DueFor(p) <= timer[p] /\ timer[p] <= Delay
    /\ pc[p] = "sleep" => DueFor(p) <= Outage + Delay + timer[p] /\ timer[p] <= Poll
    /\ pc[p] = "renew" => DueFor(p) <= Outage + Delay + Poll + timer[p] /\ timer[p]
       <= Delay
    /\ pc[p] = "back" => DueFor(p) <= Outage + timer[p] /\ timer[p] <= Delay
Punctual == Tolerable => \A p \in Proc : Keeps(p) /\ Sound(p) => InTime(p)

LEMMA CapFacts == Cap \in Int /\ Cap <= Ttl /\ Cap <= Margin - Lag
BY LinuxAssumption DEF Cap

(* No step names a session that was not made. *)
LEMMA BornStep ==
  LinuxTypeOK /\ Born /\ [Next]_vars => Born'
<1> SUFFICES ASSUME LinuxTypeOK, Born, [Next]_vars PROVE Born'
  OBVIOUS
<1> USE LinuxAssumption DEF LinuxTypeOK, Born
<1>1. ASSUME NEW p \in Proc, Login(p) PROVE Born'
  BY <1>1 DEF Login, Goto
<1>2. ASSUME NEW p \in Proc, Command(p) PROVE Born'
  BY <1>2 DEF Command, Goto
<1>3. ASSUME NEW p \in Proc, Signal(p) PROVE Born'
  BY <1>3 DEF Signal
<1>4. ASSUME NEW p \in Proc, Kill(p) PROVE Born'
  BY <1>4 DEF Kill, Exit, Leave, Goto
<1>5. ASSUME NEW p \in Proc, SaveToken(p) PROVE Born'
  BY <1>5 DEF SaveToken
<1>6. ASSUME NEW p \in Proc, CreateDevice(p) PROVE Born'
  BY <1>6 DEF CreateDevice, Leave, Goto
<1>7. ASSUME NEW p \in Proc, Configure(p) PROVE Born'
  BY <1>7 DEF Configure, Leave, Goto
<1>8. ASSUME NEW p \in Proc, SetAddress(p) PROVE Born'
  BY <1>8 DEF SetAddress, Leave, Goto
<1>9. ASSUME NEW p \in Proc, Wake(p) PROVE Born'
  BY <1>9 DEF Wake, Leave, Goto, Due, Stopping
<1>10. ASSUME NEW p \in Proc, TakeDown(p) PROVE Born'
  BY <1>10 DEF TakeDown, Goto
<1>11. ASSUME NEW p \in Proc, ClearToken(p) PROVE Born'
  BY <1>11 DEF ClearToken, Exit, Leave, Goto
<1>12. ASSUME NEW p \in Proc, CommandClear(p) PROVE Born'
  BY <1>12 DEF CommandClear, Goto
<1>13. ASSUME NEW p \in Proc, CommandDown(p) PROVE Born'
  BY <1>13 DEF CommandDown, Exit, Leave, Goto
<1>14. ASSUME NEW p \in Proc, LoginFails(p) PROVE Born'
  BY <1>14 DEF LoginFails, Exit, Leave, Goto
<1>15. ASSUME NEW p \in Proc, RenewServed(p) PROVE Born'
  BY <1>15 DEF RenewServed, Renewable, Live
<1>16. ASSUME NEW p \in Proc, RenewFails(p) PROVE Born'
  BY <1>16 DEF RenewFails, Renewable, Live
<1>17. ASSUME NEW p \in Proc, RenewReturns(p) PROVE Born'
  BY <1>17 DEF RenewReturns, Leave, Goto, Stopping
<1>18. ASSUME NEW p \in Proc, LogoutServed(p) PROVE Born'
  BY <1>18 DEF LogoutServed, Accepted, End, Goto, Live, AfterLogout
<1>19. ASSUME NEW p \in Proc, LogoutFails(p) PROVE Born'
  BY <1>19 DEF LogoutFails, Accepted, Goto, Live, AfterLogout
<1>20. ASSUME NEW p \in Proc, NEW s \in Session, LoginServed(p, s) PROVE Born'
  BY <1>20 DEF LoginServed, Exit, Leave, Goto
<1>21. ASSUME NEW s \in Session, Reap(s) PROVE Born'
  BY <1>21 DEF Reap, End, Live
<1>22. CASE Reboot
  BY <1>22 DEF Reboot
<1>23. CASE ServerRestart
  BY <1>23 DEF ServerRestart, End, Live
<1>24. CASE Tick
  BY <1>24 DEF Tick, Less, Keeps, Bottom, Live
<1>25. CASE UNCHANGED vars
  BY <1>25
<1>26. QED
  BY <1>1, <1>2, <1>3, <1>4, <1>5, <1>6, <1>7, <1>8, <1>9, <1>10, <1>11, <1>12,
     <1>13, <1>14, <1>15, <1>16, <1>17, <1>18, <1>19, <1>20, <1>21, <1>22, <1>23,
     <1>24, <1>25 DEF Next, Step, Setup, Teardown, Answer

(* Every way past a logout leaves the session ended or unheard. *)
LEMMA AnsweredStep ==
  LinuxTypeOK /\ Born /\ Answered /\ [Next]_vars => Answered'
<1> SUFFICES ASSUME LinuxTypeOK, Born, Answered, [Next]_vars PROVE Answered'
  OBVIOUS
<1> USE LinuxAssumption DEF LinuxTypeOK, Born, Answered, Past, Live
<1>1. ASSUME NEW p \in Proc, Login(p) PROVE Answered'
  BY <1>1 DEF Login, Goto
<1>2. ASSUME NEW p \in Proc, Command(p) PROVE Answered'
  BY <1>2 DEF Command, Goto
<1>3. ASSUME NEW p \in Proc, Signal(p) PROVE Answered'
  BY <1>3 DEF Signal
<1>4. ASSUME NEW p \in Proc, Kill(p) PROVE Answered'
  BY <1>4 DEF Kill, Exit, Leave, Goto
<1>5. ASSUME NEW p \in Proc, SaveToken(p) PROVE Answered'
  BY <1>5 DEF SaveToken
<1>6. ASSUME NEW p \in Proc, CreateDevice(p) PROVE Answered'
  BY <1>6 DEF CreateDevice, Leave, Goto
<1>7. ASSUME NEW p \in Proc, Configure(p) PROVE Answered'
  BY <1>7 DEF Configure, Leave, Goto
<1>8. ASSUME NEW p \in Proc, SetAddress(p) PROVE Answered'
  BY <1>8 DEF SetAddress, Leave, Goto
<1>9. ASSUME NEW p \in Proc, Wake(p) PROVE Answered'
  BY <1>9 DEF Wake, Leave, Goto, Due, Stopping
<1>10. ASSUME NEW p \in Proc, TakeDown(p) PROVE Answered'
  BY <1>10 DEF TakeDown, Goto
<1>11. ASSUME NEW p \in Proc, ClearToken(p) PROVE Answered'
  BY <1>11 DEF ClearToken, Exit, Leave, Goto
<1>12. ASSUME NEW p \in Proc, CommandClear(p) PROVE Answered'
  BY <1>12 DEF CommandClear, Goto
<1>13. ASSUME NEW p \in Proc, CommandDown(p) PROVE Answered'
  BY <1>13 DEF CommandDown, Exit, Leave, Goto
<1>14. ASSUME NEW p \in Proc, LoginFails(p) PROVE Answered'
  BY <1>14 DEF LoginFails, Exit, Leave, Goto
<1>15. ASSUME NEW p \in Proc, RenewServed(p) PROVE Answered'
  BY <1>15 DEF RenewServed, Renewable, Live
<1>16. ASSUME NEW p \in Proc, RenewFails(p) PROVE Answered'
  BY <1>16 DEF RenewFails, Renewable, Live
<1>17. ASSUME NEW p \in Proc, RenewReturns(p) PROVE Answered'
  BY <1>17 DEF RenewReturns, Leave, Goto, Stopping
<1>18. ASSUME NEW p \in Proc, LogoutServed(p) PROVE Answered'
  BY <1>18 DEF LogoutServed, Accepted, End, Goto, Live, AfterLogout
<1>19. ASSUME NEW p \in Proc, LogoutFails(p) PROVE Answered'
  BY <1>19 DEF LogoutFails, Accepted, Goto, Live, AfterLogout
<1>20. ASSUME NEW p \in Proc, NEW s \in Session, LoginServed(p, s) PROVE Answered'
  BY <1>20 DEF LoginServed, Exit, Leave, Goto
<1>21. ASSUME NEW s \in Session, Reap(s) PROVE Answered'
  BY <1>21 DEF Reap, End, Live
<1>22. CASE Reboot
  BY <1>22 DEF Reboot
<1>23. CASE ServerRestart
  BY <1>23 DEF ServerRestart, End, Live
<1>24. CASE Tick
  BY <1>24 DEF Tick, Less, Keeps, Bottom, Live
<1>25. CASE UNCHANGED vars
  BY <1>25
<1>26. QED
  BY <1>1, <1>2, <1>3, <1>4, <1>5, <1>6, <1>7, <1>8, <1>9, <1>10, <1>11, <1>12,
     <1>13, <1>14, <1>15, <1>16, <1>17, <1>18, <1>19, <1>20, <1>21, <1>22, <1>23,
     <1>24, <1>25 DEF Next, Step, Setup, Teardown, Answer

(* The step from one pc to the next keeps the account of the time. *)
LEMMA PunctualStep ==
  LinuxTypeOK /\ Born /\ Punctual /\ [Next]_vars => Punctual'
<1> SUFFICES ASSUME LinuxTypeOK, Born, Punctual, [Next]_vars PROVE Punctual'
  OBVIOUS
<1> USE LinuxAssumption, CapFacts DEF LinuxTypeOK, Born, Punctual, InTime, Sound,
   DueFor, Keeps, Live, SetupPc, RenewPc, Tolerable
<1>1. ASSUME NEW p \in Proc, Login(p) PROVE Punctual'
  BY <1>1 DEF Login, Goto
<1>2. ASSUME NEW p \in Proc, Command(p) PROVE Punctual'
  BY <1>2 DEF Command, Goto
<1>3. ASSUME NEW p \in Proc, Signal(p) PROVE Punctual'
  BY <1>3 DEF Signal
<1>4. ASSUME NEW p \in Proc, Kill(p) PROVE Punctual'
  BY <1>4 DEF Kill, Exit, Leave, Goto
<1>5. ASSUME NEW p \in Proc, SaveToken(p) PROVE Punctual'
  BY <1>5 DEF SaveToken
<1>6. ASSUME NEW p \in Proc, CreateDevice(p) PROVE Punctual'
  BY <1>6 DEF CreateDevice, Leave, Goto
<1>7. ASSUME NEW p \in Proc, Configure(p) PROVE Punctual'
  BY <1>7 DEF Configure, Leave, Goto
<1>8. ASSUME NEW p \in Proc, SetAddress(p) PROVE Punctual'
  BY <1>8 DEF SetAddress, Leave, Goto
<1>9. ASSUME NEW p \in Proc, Wake(p) PROVE Punctual'
  BY <1>9 DEF Wake, Leave, Goto, Due, Stopping
<1>10. ASSUME NEW p \in Proc, TakeDown(p) PROVE Punctual'
  BY <1>10 DEF TakeDown, Goto
<1>11. ASSUME NEW p \in Proc, ClearToken(p) PROVE Punctual'
  BY <1>11 DEF ClearToken, Exit, Leave, Goto
<1>12. ASSUME NEW p \in Proc, CommandClear(p) PROVE Punctual'
  BY <1>12 DEF CommandClear, Goto
<1>13. ASSUME NEW p \in Proc, CommandDown(p) PROVE Punctual'
  BY <1>13 DEF CommandDown, Exit, Leave, Goto
<1>14. ASSUME NEW p \in Proc, LoginFails(p) PROVE Punctual'
  BY <1>14 DEF LoginFails, Exit, Leave, Goto
<1>15. ASSUME NEW p \in Proc, RenewServed(p) PROVE Punctual'
  BY <1>15 DEF RenewServed, Renewable, Live
<1>16. ASSUME NEW p \in Proc, RenewFails(p) PROVE Punctual'
  BY <1>16 DEF RenewFails, Renewable, Live
<1>17. ASSUME NEW p \in Proc, RenewReturns(p) PROVE Punctual'
  BY <1>17 DEF RenewReturns, Leave, Goto, Stopping
<1>18. ASSUME NEW p \in Proc, LogoutServed(p) PROVE Punctual'
  BY <1>18 DEF LogoutServed, Accepted, End, Goto, Live, AfterLogout
<1>19. ASSUME NEW p \in Proc, LogoutFails(p) PROVE Punctual'
  BY <1>19 DEF LogoutFails, Accepted, Goto, Live, AfterLogout
<1>20. ASSUME NEW p \in Proc, NEW s \in Session, LoginServed(p, s) PROVE Punctual'
  BY <1>20 DEF LoginServed, Exit, Leave, Goto
<1>21. ASSUME NEW s \in Session, Reap(s) PROVE Punctual'
  BY <1>21 DEF Reap, End, Live
<1>22. CASE Reboot
  BY <1>22 DEF Reboot
<1>23. CASE ServerRestart
  BY <1>23 DEF ServerRestart, End, Live
<1>24. CASE Tick
  BY <1>24 DEF Tick, Less, Keeps, Bottom, Live
<1>25. CASE UNCHANGED vars
  BY <1>25
<1>26. QED
  BY <1>1, <1>2, <1>3, <1>4, <1>5, <1>6, <1>7, <1>8, <1>9, <1>10, <1>11, <1>12,
     <1>13, <1>14, <1>15, <1>16, <1>17, <1>18, <1>19, <1>20, <1>21, <1>22, <1>23,
     <1>24, <1>25 DEF Next, Step, Setup, Teardown, Answer

(* The inductive invariant of the client. *)
LInv == LinuxTypeOK /\ Born /\ Answered /\ Punctual

LEMMA LinuxInit == Init => LInv
<1> SUFFICES ASSUME Init PROVE LInv
  OBVIOUS
<1>1. LinuxTypeOK
  BY LinuxAssumption DEF Init, LinuxTypeOK, Pc
<1>2. Born
  BY LinuxAssumption DEF Init, Born
<1>3. Answered
  BY DEF Init, Answered, Past
<1>4. Punctual
  BY DEF Init, Punctual, Keeps, SetupPc, RenewPc
<1>5. QED
  BY <1>1, <1>2, <1>3, <1>4 DEF LInv

THEOREM LinuxInvariant == Spec => []LInv
<1>1. LInv /\ [Next]_vars => LInv'
  BY LinuxTypes, BornStep, AnsweredStep, PunctualStep DEF LInv
<1>2. QED
  BY LinuxInit, <1>1, PTL DEF Spec

(* Every reachable state of the client is well formed: no timer passes its *)
(* bound and no request is made without a token.                           *)
THEOREM LinuxTyped == Spec => []LinuxTypeOK
<1>1. LInv => LinuxTypeOK
  BY DEF LInv
<1>2. QED
  BY LinuxInvariant, <1>1, PTL

(* The VPN of a login process never disconnects: within the bounds on      *)
(* outages and delays, no session expires under a process that keeps it.   *)
THEOREM LinuxKeptAlive == Spec => []KeptAlive
<1>1. LInv => KeptAlive
  <2> SUFFICES ASSUME LInv, Tolerable, NEW p \in Proc, Keeps(p), token[p] \in Session,
                      Live(token[p]), left[token[p]] >= known[p]
               PROVE  left[token[p]] >= 0
    BY DEF KeptAlive
  <2>1. Sound(p)
    BY DEF Sound
  <2>2. InTime(p)
    BY <2>1 DEF LInv, Punctual
  <2>3. /\ known[p] \in Int /\ timer[p] \in Nat /\ left[token[p]] \in Int
        /\ pc[p] \in SetupPc \cup RenewPc
    BY DEF LInv, LinuxTypeOK, Keeps
  <2>4. DueFor(p) <= Outage + Delay + Poll + Delay
    BY <2>2, <2>3, LinuxAssumption, CapFacts DEF InTime, SetupPc, RenewPc, DueFor
  <2>5. known[p] >= 0
    BY <2>3, <2>4, LinuxAssumption, CapFacts DEF DueFor, Tolerable
  <2>6. QED
    BY <2>3, <2>5
<1>2. QED
  BY LinuxInvariant, <1>1, PTL

(* No path of the program forgets a session that still counts: its token   *)
(* goes only when the logout was lost or refused, the process was killed,  *)
(* or another process of the client wrote over it.                         *)
THEOREM LinuxSessionLetGo == Spec => SessionLetGo
<1> DEFINE LetGo == \A s \in Session :
                       Live(s) /\ left[s] >= 0 /\ Held(s) /\ ~ Held(s)' =>
                           \/ s \in unheard
                           \/ Overwritten(s)
                           \/ Reboot \/ \E p \in Proc : Kill(p)
<1>1. LInv /\ [Next]_vars => [LetGo]_vars
  <2> SUFFICES ASSUME LInv, Next, NEW s \in Session, Live(s), left[s] >= 0,
                      Held(s), ~ Held(s)',
                      s \notin unheard, ~ Overwritten(s), ~ Reboot,
                      \A p \in Proc : ~ Kill(p)
               PROVE  FALSE
    BY DEF LetGo
  <2> USE LinuxAssumption DEF LInv, LinuxTypeOK, Born, Answered, Past, Live, Held,
     Overwritten
  <2>1. ASSUME NEW p \in Proc, Login(p) PROVE FALSE
    BY <2>1 DEF Login, Goto
  <2>2. ASSUME NEW p \in Proc, Command(p) PROVE FALSE
    BY <2>2 DEF Command, Goto
  <2>3. ASSUME NEW p \in Proc, Signal(p) PROVE FALSE
    BY <2>3 DEF Signal
  <2>4. ASSUME NEW p \in Proc, SaveToken(p) PROVE FALSE
    BY <2>4 DEF SaveToken
  <2>5. ASSUME NEW p \in Proc, CreateDevice(p) PROVE FALSE
    BY <2>5 DEF CreateDevice, Leave, Goto
  <2>6. ASSUME NEW p \in Proc, Configure(p) PROVE FALSE
    BY <2>6 DEF Configure, Leave, Goto
  <2>7. ASSUME NEW p \in Proc, SetAddress(p) PROVE FALSE
    BY <2>7 DEF SetAddress, Leave, Goto
  <2>8. ASSUME NEW p \in Proc, Wake(p) PROVE FALSE
    BY <2>8 DEF Wake, Leave, Goto, Due, Stopping
  <2>9. ASSUME NEW p \in Proc, TakeDown(p) PROVE FALSE
    BY <2>9 DEF TakeDown, Goto
  <2>10. ASSUME NEW p \in Proc, ClearToken(p) PROVE FALSE
    BY <2>10 DEF ClearToken, Exit, Leave, Goto
  <2>11. ASSUME NEW p \in Proc, CommandClear(p) PROVE FALSE
    BY <2>11 DEF CommandClear, Goto
  <2>12. ASSUME NEW p \in Proc, CommandDown(p) PROVE FALSE
    BY <2>12 DEF CommandDown, Exit, Leave, Goto
  <2>13. ASSUME NEW p \in Proc, LoginFails(p) PROVE FALSE
    BY <2>13 DEF LoginFails, Exit, Leave, Goto
  <2>14. ASSUME NEW p \in Proc, RenewServed(p) PROVE FALSE
    BY <2>14 DEF RenewServed, Renewable, Live
  <2>15. ASSUME NEW p \in Proc, RenewFails(p) PROVE FALSE
    BY <2>15 DEF RenewFails, Renewable, Live
  <2>16. ASSUME NEW p \in Proc, RenewReturns(p) PROVE FALSE
    BY <2>16 DEF RenewReturns, Leave, Goto, Stopping
  <2>17. ASSUME NEW p \in Proc, LogoutServed(p) PROVE FALSE
    BY <2>17 DEF LogoutServed, Accepted, End, Goto, Live, AfterLogout
  <2>18. ASSUME NEW p \in Proc, LogoutFails(p) PROVE FALSE
    BY <2>18 DEF LogoutFails, Accepted, Goto, Live, AfterLogout
  <2>19. ASSUME NEW p \in Proc, NEW t \in Session, LoginServed(p, t) PROVE FALSE
    BY <2>19 DEF LoginServed, Exit, Leave, Goto
  <2>20. ASSUME NEW t \in Session, Reap(t) PROVE FALSE
    BY <2>20 DEF Reap
  <2>21. CASE ServerRestart
    BY <2>21 DEF ServerRestart
  <2>22. CASE Tick
    BY <2>22 DEF Tick
  <2>23. QED
    BY <2>1, <2>2, <2>3, <2>4, <2>5, <2>6, <2>7, <2>8, <2>9, <2>10, <2>11, <2>12,
       <2>13, <2>14, <2>15, <2>16, <2>17, <2>18, <2>19, <2>20, <2>21, <2>22 DEF
       Next, Step, Setup, Teardown, Answer
<1>2. QED
  BY LinuxInvariant, <1>1, PTL DEF Spec, SessionLetGo

=============================================================================
