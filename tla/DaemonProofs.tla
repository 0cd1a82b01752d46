---------------------------- MODULE DaemonProofs ----------------------------
(***************************************************************************)
(* Theorems about the start, the stop and the requests of the server, for  *)
(* all files, faults and sizes.                                            *)
(***************************************************************************)
EXTENDS DaemonProperties, TLAPS

-----------------------------------------------------------------------------
(* The inductive invariant *)

SettingFunction == setting = [key \in Key |-> setting[key]]

(* What the process holds between the calls of main. *)
HeldAt ==
    /\ phase \in Phase
    /\ phase \in {"pool", "static", "parse", "listen", "reaper", "serve",
                  "api_stop", "db_close"} => "db" \in held
    /\ phase \in {"static", "parse", "listen", "reaper", "serve", "api_stop",
                  "db_close", "pool_destroy"} => "bitmap" \in held
    /\ "daemon" \in held => phase \in {"reaper", "serve", "api_stop", "failed"}
    /\ phase \in {"off", "config", "db"} => held = {}
    /\ phase \in {"pool", "static", "parse", "listen"} => held \subseteq {"db", "bitmap"}
    /\ phase = "reaper" => "thread" \notin held
    /\ phase \in {"reaper", "serve", "api_stop"} =>
           held \subseteq {"db", "bitmap", "tls_cert", "tls_key", "daemon", "thread"}
    /\ phase = "api_stop" => "thread" \notin held
    /\ phase = "db_close" => held \subseteq {"db", "bitmap"}
    /\ phase = "pool_destroy" => held \subseteq {"bitmap"}
    /\ phase = "down" => held = {}

(* A request is in the router only while the daemon runs. *)
RouterAt == /\ spc # "idle" => Serving
            /\ spc = "idle" => theirs = {}
            /\ theirs \subseteq {"info", "data", "answer"}

(* What a client holds between its calls. *)
ClientAt ==
    /\ client \in {"curl", "winhttp"}
    /\ cpc \in {"idle", "session", "connect", "open", "send", "wait"}
    /\ cpc = "idle" => mine = {}
    /\ cpc = "session" => client = "winhttp" /\ mine = {"request"}
    /\ cpc = "connect" => client = "winhttp" /\ mine = {"request", "hSession"}
    /\ cpc = "open" => client = "winhttp" /\ mine = {"request", "hSession", "hConnect"}
    /\ cpc \in {"send", "wait"} =>
           mine = IF client = "curl" THEN CurlBlocks ELSE WinHandles \cup {"request"}

DInv == SettingFunction /\ ConfigSane /\ HeldAt /\ RouterAt /\ ClientAt

LEMMA DInit == Init => SettingFunction /\ HeldAt /\ RouterAt /\ ClientAt
BY DEF Init, StartupInit, ExchangeInit, StaticInit, SettingFunction, HeldAt, RouterAt,
   ClientAt, Phase

-----------------------------------------------------------------------------
(* The settings *)

(* The limits in config.c leave room for every default. *)
LEMMA LimitsSane ==
    ASSUME NEW key \in DOMAIN NumberKeys
    PROVE  /\ Least(key) \in Int /\ Greatest(key) \in Int
           /\ Fallback(key) \in Least(key) .. Greatest(key)
           /\ Default(key) \in Least(key) .. Greatest(key)
<1>1. key \in {"listen_port", "default_ttl_seconds", "renew_grace_seconds",
               "reap_interval_seconds", "argon2_time_cost", "argon2_mem_cost_kb"}
  BY DEF NumberKeys
<1>2. QED
  BY <1>1 DEF Limits, Least, Greatest, Fallback, Default, NumberKeys

LEMMA ConvertedSane ==
    ASSUME NEW key \in DOMAIN NumberKeys, NEW v, v = NotNumber \/ v \in Int
    PROVE  Converted(v, key) \in Least(key) .. Greatest(key)
BY LimitsSane DEF Converted, SafeAtoi

LEMMA SettingStep ==
    SettingFunction /\ ConfigSane /\ [Next]_vars => SettingFunction' /\ ConfigSane'
<1> SUFFICES ASSUME SettingFunction, ConfigSane, [Next]_vars
             PROVE  SettingFunction' /\ ConfigSane'
  OBVIOUS
<1>1. CASE setting' = setting
  BY <1>1 DEF SettingFunction, ConfigSane
<1>2. CASE OpenConfig
  <2>1. setting' = [key \in Key |-> Default(key)]
    BY <1>2 DEF OpenConfig, SetDefaults
  <2>2. SettingFunction'
    BY <2>1 DEF SettingFunction
  <2>3. ConfigSane'
    BY <2>1, LimitsSane DEF ConfigSane, Key
  <2>4. QED
    BY <2>2, <2>3
<1>3. CASE ReadConfig
  <2>1. PICK l \in ConfigLines : ConfigLine(l)
    BY <1>3 DEF ReadConfig
  <2>2. CASE setting' = setting
    BY <1>1, <2>2
  <2>3. CASE /\ l.kind = "key" /\ l.key \in Key
             /\ setting' = [setting EXCEPT ![l.key] = Converted(l.value, l.key)]
    <3>1. setting' = [key \in Key |-> IF key = l.key THEN Converted(l.value, key)
                                                     ELSE setting[key]]
      BY <2>3 DEF SettingFunction
    <3>2. SettingFunction'
      BY <3>1 DEF SettingFunction
    <3>3. ASSUME NEW key \in DOMAIN NumberKeys
          PROVE  setting'[key] \in Least(key) .. Greatest(key)
      <4>1. CASE key = l.key
        BY <2>3, <3>1, <4>1, ConvertedSane, LinesAssumption DEF Key
      <4>2. CASE key # l.key
        BY <3>1, <4>2 DEF Key, ConfigSane
      <4>3. QED
        BY <4>1, <4>2
    <3>4. QED
      BY <3>2, <3>3 DEF ConfigSane
  <2>4. QED
    BY <2>1, <2>2, <2>3 DEF ConfigLine, Header, Assignment
<1>4. QED
  BY <1>1, <1>2, <1>3 DEF Next, vars, Start, StartStep, Stop, Ask, Client, Server, Network,
     startup, config, CloseConfig, DbInit, PoolInit, OpenStatic, ReadStatic, EndStatic,
     StaticLoaded, ApiStart, ReaperStart, ReaperStop, DbClose, PoolDestroy, ApiStop

-----------------------------------------------------------------------------
(* What the process holds *)

LEMMA HeldStep == HeldAt /\ [Next]_vars => HeldAt'
<1> SUFFICES ASSUME HeldAt, [Next]_vars PROVE HeldAt'
  OBVIOUS
<1> USE DEF HeldAt, Phase
<1>1. CASE phase' = phase /\ held' = held
  BY <1>1
<1>2. CASE OpenConfig
  BY <1>2 DEF OpenConfig
<1>3. CASE CloseConfig
  BY <1>3 DEF CloseConfig
<1>4. CASE DbInit
  BY <1>4 DEF DbInit
<1>5. CASE PoolInit
  BY <1>5 DEF PoolInit
<1>6. CASE OpenStatic
  BY <1>6 DEF OpenStatic
<1>7. CASE StaticLoaded
  BY <1>7 DEF StaticLoaded
<1>8. CASE ApiStart
  <2>1. PICK files \in SUBSET TlsFiles :
           \/ phase' = "reaper" /\ held' = held \cup files \cup {"daemon"}
           \/ phase' = "failed" /\ held' = held \cup files
    BY <1>8 DEF ApiStart, FilesRead
  <2>2. files \subseteq {"tls_cert", "tls_key"}
    BY DEF TlsFiles
  <2>3. phase = "listen"
    BY <1>8 DEF ApiStart
  <2>4. QED
    BY <2>1, <2>2, <2>3
<1>9. CASE ReaperStart
  BY <1>9 DEF ReaperStart
<1>10. CASE ReaperStop
  BY <1>10 DEF ReaperStop
<1>11. CASE ApiStop
  BY <1>11 DEF ApiStop
<1>12. CASE DbClose
  BY <1>12 DEF DbClose
<1>13. CASE PoolDestroy
  BY <1>13 DEF PoolDestroy
<1>14. QED
  BY <1>1, <1>2, <1>3, <1>4, <1>5, <1>6, <1>7, <1>8, <1>9, <1>10, <1>11, <1>12, <1>13
  DEF Next, vars, Start, StartStep, Stop, Ask, Client, Server, Network, startup, main,
      ReadConfig, ReadStatic, EndStatic

-----------------------------------------------------------------------------
(* The router *)

LEMMA DisconnectEnds ==
    RouterAt /\ Disconnect => spc' = "idle" /\ theirs' = {}
BY DEF RouterAt, Disconnect, exchange, serverVars

LEMMA RouterStep == HeldAt /\ RouterAt /\ [Next]_vars => RouterAt'
<1> SUFFICES ASSUME HeldAt, RouterAt, [Next]_vars PROVE RouterAt'
  OBVIOUS
<1>1. CASE UNCHANGED <<spc, theirs, phase, held>>
  BY <1>1 DEF RouterAt, Serving
<1>2. CASE Start
  <2>1. CASE phase' = "failed"
    BY <1>2, <2>1, DisconnectEnds DEF Start, RouterAt
  <2>2. CASE phase' # "failed"
    <3>1. held \subseteq held'
      BY <1>2 DEF Start, StartStep, OpenConfig, ReadConfig, CloseConfig, DbInit, PoolInit,
         OpenStatic, ReadStatic, EndStatic, StaticLoaded, ApiStart, ReaperStart, main
    <3>2. spc' = spc /\ theirs' = theirs
      BY <1>2, <2>2 DEF Start, exchange, serverVars
    <3>3. QED
      BY <2>2, <3>1, <3>2 DEF RouterAt, Serving
  <2>3. QED
    BY <2>1, <2>2
<1>3. CASE Stop
  <2>1. CASE ApiStop /\ Disconnect
    BY <2>1, DisconnectEnds DEF RouterAt
  <2>2. CASE (ReaperStop \/ DbClose \/ PoolDestroy) /\ UNCHANGED exchange
    BY <2>2 DEF RouterAt, Serving, ReaperStop, DbClose, PoolDestroy, exchange, serverVars
  <2>3. QED
    BY <1>3, <2>1, <2>2 DEF Stop
<1>4. CASE Ask
  BY <1>1, <1>4 DEF Ask, Request
<1>5. CASE Client \/ Network
  BY <1>1, <1>5 DEF Client, ClientStep, Network, Break, WinAcquire, WinAcquireFails, Status,
     CurlReads, WinReads, CurlReturns, WinReturns, Connect, ConnectFails, serverVars,
     startup, main
<1>6. CASE Server
  <2>1. Serving /\ Serving'
    BY <1>6 DEF Server, startup, main, Serving
  <2>2. /\ theirs' \subseteq {"info", "data", "answer"}
        /\ spc' = "idle" => theirs' = {}
    <3>1. CASE RouterFirst
      BY <3>1 DEF RouterFirst
    <3>2. CASE RouterUpload
      BY <3>2 DEF RouterUpload, Queue, Refuse, RouterAt
    <3>3. CASE RouterDispatch
      BY <3>3 DEF RouterDispatch, Queue, Refuse, RouterAt
    <3>4. CASE RequestCompleted
      BY <3>4 DEF RequestCompleted, RouterAt
    <3>5. QED
      BY <1>6, <3>1, <3>2, <3>3, <3>4 DEF Server, ServerStep
  <2>3. QED
    BY <2>1, <2>2 DEF RouterAt
<1>7. QED
  BY <1>1, <1>2, <1>3, <1>4, <1>5, <1>6 DEF Next, vars, startup, main, exchange, serverVars

-----------------------------------------------------------------------------
(* The client *)

LEMMA ClientAtStep == ClientAt /\ [Next]_vars => ClientAt'
<1> SUFFICES ASSUME ClientAt, [Next]_vars PROVE ClientAt'
  OBVIOUS
<1> USE DEF ClientAt, Return, CurlBlocks, WinHandles
<1>1. CASE UNCHANGED <<cpc, client, mine>>
  BY <1>1
<1>2. CASE Ask
  <2>1. PICK c \in {"curl", "winhttp"}, n \in Sizes : Request(c, n)
    BY <1>2 DEF Ask
  <2>2. QED
    BY <2>1 DEF Request
<1>3. CASE WinAcquire
  BY <1>3 DEF WinAcquire, HandleOf, NextCall
<1>4. CASE WinAcquireFails
  BY <1>4 DEF WinAcquireFails, HandleOf, Closed
<1>5. CASE Connect \/ ConnectFails
  BY <1>5 DEF Connect, ConnectFails
<1>6. CASE CurlReads
  BY <1>6 DEF CurlReads
<1>7. CASE WinReads
  BY <1>7 DEF WinReads
<1>8. CASE CurlReturns
  BY <1>8 DEF CurlReturns
<1>9. CASE WinReturns
  BY <1>9 DEF WinReturns
<1>10. QED
  BY <1>1, <1>2, <1>3, <1>4, <1>5, <1>6, <1>7, <1>8, <1>9
  DEF Next, vars, Start, Stop, Client, ClientStep, Server, ServerStep, Network, Break,
      Disconnect, exchange, clientVars, Status, RouterFirst, RouterUpload,
      RouterDispatch, RequestCompleted

-----------------------------------------------------------------------------

LEMMA DaemonInvariant == Spec => []DInv
<1>1. Init => DInv
  BY DInit, LimitsSane DEF DInv, Init, StartupInit, ConfigSane, Key
<1>2. DInv /\ [Next]_vars => DInv'
  BY SettingStep, HeldStep, RouterStep, ClientAtStep DEF DInv
<1>3. QED
  BY <1>1, <1>2, PTL DEF Spec

(* Whatever authd.conf says, every number the server computes with lies    *)
(* within its limits.                                                      *)
THEOREM SettingsSane == Spec => []ConfigSane
<1>1. DInv => ConfigSane
  BY DEF DInv
<1>2. QED
  BY <1>1, DaemonInvariant, PTL

(* Whatever fails at the start, and at whatever point of a request main    *)
(* stops: no request runs without the database and the pool.               *)
THEOREM HeldThroughout == Spec => []HeldWhileServing
<1>1. DInv => HeldWhileServing
  BY DEF DInv, HeldAt, RouterAt, Serving, HeldWhileServing
<1>2. QED
  BY <1>1, DaemonInvariant, PTL

(* Neither side keeps memory or a handle of a finished request, whichever  *)
(* call of whichever client or of the router failed.                       *)
THEOREM RequestsKeepNothing == Spec => []NothingKept
<1>1. DInv => NothingKept
  BY DEF DInv, RouterAt, ClientAt, NothingKept
<1>2. QED
  BY <1>1, DaemonInvariant, PTL

(* A stop after a signal gives everything back. *)
THEOREM StopReleases == Spec => []ShutdownReleases
<1>1. DInv => ShutdownReleases
  BY DEF DInv, HeldAt, RouterAt, Serving, ShutdownReleases
<1>2. QED
  BY <1>1, DaemonInvariant, PTL

-----------------------------------------------------------------------------
(* The answer *)

(* The pieces k + 1 .. n. *)
Rest(k, n) == [i \in 1 .. n - k |-> k + i]

(* What is on the wire is the rest of what the client has. *)
InOrder == \E k \in 0 .. answer : got = Whole(k) /\ (down = <<>> \/ down = Rest(k, answer))

(* Before api_router has queued an answer there is none anywhere. *)
Unanswered == reply = 0 /\ answer = 0 /\ down = <<>> /\ code = 0 /\ got = <<>>

AnswerAt ==
    /\ client \in {"curl", "winhttp"}
    /\ spc = "upload" \/ (spc = "idle" /\ conn # "closed") => Unanswered
    /\ conn = "none" => spc = "idle"
    /\ cpc \in {"session", "connect", "open", "send"} => conn = "none"
    /\ code # 0 => code = reply
    /\ reply = 200 => done
    /\ reply = 0 => Unanswered
    /\ reply # 0 => answer \in Nat \ {0}
    /\ verdict = "ok" => cpc = "idle" /\ conn = "closed"
    /\ answer \in Nat
    /\ client = "curl" \/ "read" \notin NetFaults => InOrder

AnswerInv == AnswerAt /\ AcceptedIsTrue

LEMMA WholeGrows ==
    ASSUME NEW n \in Nat, NEW k \in 0 .. n, Rest(k, n) # <<>>
    PROVE  /\ k + 1 \in 0 .. n
           /\ Append(Whole(k), Head(Rest(k, n))) = Whole(k + 1)
           /\ Tail(Rest(k, n)) = Rest(k + 1, n)
<1>1. k < n
  <2>1. ASSUME n = k PROVE FALSE
    BY <2>1 DEF Rest
  <2>2. QED
    BY <2>1
<1>2. Head(Rest(k, n)) = k + 1
  BY <1>1 DEF Rest
<1>3. Append(Whole(k), k + 1) = Whole(k + 1)
  BY <1>1 DEF Whole
<1>4. Tail(Rest(k, n)) = Rest(k + 1, n)
  BY <1>1 DEF Rest
<1>5. QED
  BY <1>1, <1>2, <1>3, <1>4

LEMMA WholeStarts == Whole(0) = <<>> /\ \A n \in Nat : Rest(0, n) = Whole(n)
BY DEF Whole, Rest

LEMMA WholeEnds ==
    ASSUME NEW n \in Nat \ {0}, NEW s, TRUE \in MayParse(s, n)
    PROVE  /\ s # <<>>
           /\ \A k \in 0 .. n : s = Whole(k) => s = Whole(n)
<1>1. s = Whole(n) \/ \E i \in DOMAIN s : s[i] = n
  BY DEF MayParse
<1>2. DOMAIN s # {}
  <2>1. CASE s = Whole(n)
    <3>1. 1 \in DOMAIN s
      BY <2>1 DEF Whole
    <3>2. QED
      BY <3>1
  <2>2. QED
    BY <1>1, <2>1
<1>3. s # <<>>
  BY <1>2
<1>4. ASSUME NEW k \in 0 .. n, s = Whole(k)
      PROVE  s = Whole(n)
  <2>1. CASE \E i \in DOMAIN s : s[i] = n
    <3>1. PICK i \in 1 .. k : s[i] = n
      BY <1>4, <2>1 DEF Whole
    <3>2. n = i
      BY <1>4, <3>1 DEF Whole
    <3>3. k = n
      BY <3>1, <3>2
    <3>4. QED
      BY <1>4, <3>3
  <2>2. QED
    BY <1>1, <2>1
<1>5. QED
  BY <1>3, <1>4

(* A piece is read. *)
LEMMA ReadStep ==
    ASSUME AnswerAt, InOrder, down # <<>>
    PROVE  \E k \in 0 .. answer : /\ Append(got, Head(down)) = Whole(k)
                                  /\ Tail(down) = Rest(k, answer)
<1>1. PICK k \in 0 .. answer : got = Whole(k) /\ down = Rest(k, answer)
  BY DEF InOrder
<1>2. QED
  BY <1>1, WholeGrows DEF AnswerAt

(* The handler's answer, or none. *)
LEMMA QueueStep ==
    ASSUME AnswerAt, Unanswered, NEW st \in {200, 400, 413}, NEW m \in Answers,
           Queue(st, m) \/ Refuse, UNCHANGED clientVars, conn = "open",
           st # 200 \/ done', spc = "upload"
    PROVE  /\ spc' = "idle" => UNCHANGED <<conn, spc>>
           /\ conn' \in {"open", "closed"}
           /\ spc' = "upload" => Unanswered'
           /\ reply' = 200 => done'
           /\ reply' = 0 => Unanswered'
           /\ reply' # 0 => answer' \in Nat \ {0}
           /\ answer' \in Nat
           /\ code' = 0
           /\ InOrder'
<1>1. m \in Nat \ {0}
  BY ExchangeAssumption
<1>2. got = <<>> /\ got' = <<>> /\ code' = 0
  BY DEF Unanswered, clientVars
<1>3. CASE Refuse
  BY <1>2, <1>3, WholeStarts DEF Refuse, Unanswered, InOrder
<1>4. CASE Queue(st, m)
  <2>1. CASE reply' = reply /\ answer' = answer /\ down' = down /\ spc' = spc /\ conn' = "closed"
    BY <1>2, <2>1, WholeStarts DEF Unanswered, InOrder
  <2>2. CASE /\ reply' \in {st, 500} /\ answer' = m /\ down' = Whole(m)
             /\ spc' = "answer" /\ conn' = conn
    <3>1. got' = Whole(0) /\ down' = Rest(0, answer') /\ 0 \in 0 .. answer'
      BY <1>1, <1>2, <2>2, WholeStarts
    <3>2. InOrder'
      BY <3>1 DEF InOrder
    <3>3. QED
      BY <1>1, <1>2, <2>2, <3>2 DEF Unanswered
  <2>3. QED
    BY <1>4, <2>1, <2>2 DEF Queue
<1>5. QED
  BY <1>3, <1>4

LEMMA AnswerStep == AnswerInv /\ [Next]_vars => AnswerInv'
<1> SUFFICES ASSUME AnswerInv, [Next]_vars PROVE AnswerInv'
  OBVIOUS
<1> USE DEF AnswerInv, AnswerAt, AcceptedIsTrue, Return
<1>1. CASE UNCHANGED exchange
  BY <1>1 DEF exchange, clientVars, wire, serverVars, InOrder, Unanswered
<1>2. CASE Disconnect
  <2>1. CASE ~ UNCHANGED exchange
    <3>1. /\ conn' = "closed" /\ spc' = "idle" /\ down' = <<>>
          /\ UNCHANGED <<cpc, client, verdict, code, got, reply, answer, done>>
      BY <1>2, <2>1 DEF Disconnect, clientVars
    <3>2. cpc \notin {"session", "connect", "open", "send"}
      BY <1>2, <2>1 DEF Disconnect
    <3>3. QED
      BY <3>1, <3>2 DEF InOrder, Unanswered
  <2>2. QED
    BY <1>1, <2>1
<1>3. CASE Ask
  <2>1. PICK c \in {"curl", "winhttp"}, n \in Sizes : Request(c, n)
    BY <1>3 DEF Ask
  <2>2. /\ verdict' # "ok" /\ Unanswered' /\ conn' = "none" /\ spc' = "idle"
        /\ client' \in {"curl", "winhttp"}
    BY <2>1 DEF Request, Unanswered
  <2>3. QED
    BY <2>2, WholeStarts DEF InOrder, Unanswered
<1>4. CASE WinAcquire \/ WinAcquireFails
  BY <1>4 DEF WinAcquire, WinAcquireFails, HandleOf, NextCall, wire, serverVars,
     InOrder, Unanswered
<1>5. CASE Connect \/ ConnectFails
  BY <1>5 DEF Connect, ConnectFails, serverVars, InOrder, Unanswered
<1>6. CASE Status
  BY <1>6 DEF Status, wire, serverVars, InOrder, Unanswered
<1>7. CASE CurlReads
  <2>1. CASE cpc' = "idle"
    BY <1>7, <2>1 DEF CurlReads, serverVars, InOrder, Unanswered
  <2>2. CASE got' = Append(got, Head(down)) /\ down' = Tail(down)
    <3>1. InOrder'
      BY <1>7, <2>2, ReadStep DEF CurlReads, InOrder
    <3>2. QED
      BY <1>7, <2>2, <3>1 DEF CurlReads, serverVars, Unanswered
  <2>3. QED
    BY <1>7, <2>1, <2>2 DEF CurlReads
<1>8. CASE WinReads
  <2>1. "read" \notin NetFaults => InOrder'
    <3>1. SUFFICES ASSUME "read" \notin NetFaults PROVE InOrder'
      OBVIOUS
    <3>2. got' = Append(got, Head(down)) /\ down' \in {<<>>, Tail(down)} /\ answer' = answer
      BY <1>8, <3>1 DEF WinReads, MayLack
    <3>3. QED
      BY <1>8, <3>1, <3>2, ReadStep DEF WinReads, InOrder
  <2>2. QED
    BY <1>8, <2>1 DEF WinReads, serverVars, Unanswered
<1>9. CASE CurlReturns
  <2>1. CASE Accepted /\ verdict' = "ok"
    <3>1. got = Whole(answer) /\ reply = 200 /\ answer \in Nat \ {0}
      BY <2>1 DEF Accepted
    <3>2. 1 \in DOMAIN got
      BY <3>1 DEF Whole
    <3>3. got # <<>>
      BY <3>2
    <3>4. QED
      BY <1>9, <2>1, <3>1, <3>3 DEF CurlReturns, wire, serverVars, InOrder, Unanswered
  <2>2. CASE verdict' = "failed"
    BY <1>9, <2>2 DEF CurlReturns, wire, serverVars, InOrder, Unanswered
  <2>3. QED
    BY <1>9, <2>1, <2>2 DEF CurlReturns
<1>10. CASE WinReturns
  <2>1. CASE TRUE \in MayParse(got, answer) /\ code = 200 /\ verdict' = "ok"
    <3>1. reply = 200 /\ answer \in Nat \ {0}
      BY <2>1
    <3>2. got # <<>> /\ (InOrder => got = Whole(answer))
      BY <2>1, <3>1, WholeEnds DEF InOrder
    <3>3. QED
      BY <1>10, <2>1, <3>1, <3>2 DEF WinReturns, wire, serverVars, InOrder, Unanswered
  <2>2. CASE verdict' = "failed"
    BY <1>10, <2>2 DEF WinReturns, wire, serverVars, InOrder, Unanswered
  <2>3. QED
    <3>1. PICK parsed \in MayParse(got, answer) :
             Return(IF parsed /\ code = 200 THEN "ok" ELSE "failed", WinHandles \cup {"request"})
      BY <1>10 DEF WinReturns
    <3>2. parsed \in BOOLEAN
      BY <3>1 DEF MayParse
    <3>3. QED
      BY <2>1, <2>2, <3>1, <3>2
<1>11. CASE RouterFirst
  BY <1>11 DEF RouterFirst, clientVars, wire, InOrder, Unanswered
<1>12. CASE RouterUpload
  <2>1. CASE UNCHANGED <<reply, answer, down, spc>> /\ conn' \in {conn, "closed"}
    BY <1>12, <2>1 DEF RouterUpload, clientVars, InOrder, Unanswered
  <2>2. CASE \E m \in Answers : Queue(413, m)
    <3>1. Unanswered /\ spc = "upload" /\ conn = "open" /\ UNCHANGED clientVars
      BY <1>12 DEF RouterUpload
    <3>2. PICK m \in Answers : Queue(413, m)
      BY <2>2
    <3>3. QED
      BY <1>12, <3>1, <3>2, QueueStep DEF RouterUpload, clientVars, Unanswered
  <2>3. QED
    BY <1>12, <2>1, <2>2 DEF RouterUpload, Refuse
<1>13. CASE RouterDispatch
  <2>1. Unanswered /\ spc = "upload" /\ conn = "open" /\ UNCHANGED clientVars
    BY <1>13 DEF RouterDispatch
  <2>2. PICK m \in Answers, st \in {200, 400} :
           /\ Queue(st, m) \/ Refuse
           /\ st = 200 => done' = TRUE
           /\ st # 200 => done' = done
    BY <1>13 DEF RouterDispatch
  <2>3. QED
    BY <1>13, <2>1, <2>2, QueueStep DEF RouterDispatch, clientVars, Unanswered
<1>14. CASE RequestCompleted
  BY <1>14 DEF RequestCompleted, clientVars, InOrder, Unanswered
<1>15. CASE Break
  BY <1>15 DEF Break, clientVars, serverVars, InOrder, Unanswered
<1>16. QED
  BY <1>1, <1>2, <1>3, <1>4, <1>5, <1>6, <1>7, <1>8, <1>9, <1>10, <1>11, <1>12, <1>13,
     <1>14, <1>15
  DEF Next, vars, Start, Stop, Client, ClientStep, Server, ServerStep, Network

LEMMA AnswerInvariant == Spec => []AnswerInv
<1>1. Init => AnswerInv
  BY WholeStarts DEF Init, ExchangeInit, AnswerInv, AnswerAt, AcceptedIsTrue, InOrder, Unanswered
<1>2. QED
  BY <1>1, AnswerStep, PTL DEF Spec

(* A client that reports success was told so by a handler that did the     *)
(* operation, however the answer was cut up, lost or left unread.          *)
THEOREM SuccessIsTrue == Spec => []AcceptedIsTrue
<1>1. AnswerInv => AcceptedIsTrue
  BY DEF AnswerInv
<1>2. QED
  BY <1>1, AnswerInvariant, PTL

-----------------------------------------------------------------------------
(* The request *)

Increasing(s) == \A i, j \in DOMAIN s : i < j => s[i] < s[j]

(* The pieces of the body are some of the first k, or just these. *)
Collected(k) == /\ \A i \in DOMAIN body : body[i] <= k
                /\ "memory" \notin NetFaults => body = Whole(k)

(* While the body comes in, what is on the wire is the rest of it; once    *)
(* the handler has run nothing is added.                                   *)
BodyAt ==
    /\ size \in Nat
    /\ body \in Seq(Nat) /\ Increasing(body) /\ Len(body) <= MaxBody
    /\ spc \in {"idle", "upload", "answer"}
    /\ conn = "none" => spc = "idle"
    /\ spc = "idle" /\ conn # "closed" => ~ done /\ up = Rest(0, size)
    /\ spc = "upload" /\ conn = "open" =>
           ~ done /\ \E k \in 0 .. size : up = Rest(k, size) /\ Collected(k)
    /\ done /\ "memory" \notin NetFaults => body = Whole(size)

LEMMA AppendInOrder ==
    ASSUME NEW s \in Seq(Nat), NEW k \in Nat, Increasing(s),
           \A i \in DOMAIN s : s[i] <= k
    PROVE  /\ Append(s, k + 1) \in Seq(Nat)
           /\ Increasing(Append(s, k + 1))
           /\ Len(Append(s, k + 1)) = Len(s) + 1
           /\ \A i \in DOMAIN Append(s, k + 1) : Append(s, k + 1)[i] <= k + 1
<1> DEFINE t == Append(s, k + 1)
<1>1. t \in Seq(Nat) /\ Len(t) = Len(s) + 1 /\ DOMAIN t = 1 .. Len(s) + 1
      /\ DOMAIN s = 1 .. Len(s) /\ Len(s) \in Nat
  OBVIOUS
<1>2. \A i \in 1 .. Len(s) + 1 : t[i] = IF i <= Len(s) THEN s[i] ELSE k + 1
  OBVIOUS
<1>3. \A i \in 1 .. Len(s) : s[i] \in Nat
  OBVIOUS
<1> HIDE DEF t
<1>4. \A i \in 1 .. Len(s) + 1 : t[i] <= k + 1
  BY <1>1, <1>2, <1>3
<1>5. ASSUME NEW i \in 1 .. Len(s) + 1, NEW j \in 1 .. Len(s) + 1, i < j
      PROVE  t[i] < t[j]
  <2>1. i <= Len(s) /\ i \in 1 .. Len(s)
    BY <1>1, <1>5
  <2>2. t[i] = s[i] /\ s[i] \in Nat /\ s[i] <= k
    BY <1>1, <1>2, <1>3, <2>1
  <2>3. CASE j <= Len(s)
    <3>1. j \in 1 .. Len(s) /\ t[j] = s[j]
      BY <1>1, <1>2, <2>3
    <3>2. s[i] < s[j]
      BY <1>1, <1>5, <2>1, <3>1 DEF Increasing
    <3>3. QED
      BY <2>2, <3>1, <3>2
  <2>4. CASE ~ (j <= Len(s))
    <3>1. t[j] = k + 1
      BY <1>2, <2>4
    <3>2. QED
      BY <2>2, <3>1
  <2>5. QED
    BY <2>3, <2>4
<1>6. QED
  BY <1>1, <1>4, <1>5 DEF t, Increasing

(* The end of the wire is the end of the body. *)
LEMMA RestEmpty ==
    ASSUME NEW n \in Nat, NEW k \in 0 .. n, Rest(k, n) = <<>>
    PROVE  k = n
<1>1. DOMAIN Rest(k, n) = 1 .. n - k
  BY DEF Rest
<1>2. 1 .. n - k = {}
  BY <1>1
<1>3. QED
  BY <1>2

LEMMA NextPiece ==
    ASSUME NEW n \in Nat, NEW k \in 0 .. n, Rest(k, n) # <<>>
    PROVE  Head(Rest(k, n)) = k + 1
<1>1. k < n
  <2>1. ASSUME n = k PROVE FALSE
    BY <2>1 DEF Rest
  <2>2. QED
    BY <2>1
<1>2. QED
  BY <1>1 DEF Rest

LEMMA UploadStep ==
    ASSUME BodyAt, RouterUpload
    PROVE  BodyAt'
<1>1. /\ spc = "upload" /\ conn = "open" /\ ~ done /\ up # <<>> /\ up' = Tail(up)
      /\ size' = size /\ done' = done
  BY DEF RouterUpload, BodyAt
<1>2. PICK k \in 0 .. size : up = Rest(k, size) /\ Collected(k)
  BY <1>1 DEF BodyAt
<1>3. size \in Nat /\ k \in Nat /\ k + 1 \in 0 .. size /\ up' = Rest(k + 1, size)
      /\ Head(up) = k + 1
  BY <1>1, <1>2, WholeGrows, NextPiece DEF BodyAt
<1>4. CASE TooLarge
  <2>1. /\ body' = body
        /\ \/ spc' = "answer" /\ conn' = conn
           \/ spc' = spc /\ conn' = "closed"
    BY <1>4 DEF RouterUpload, Queue, Refuse
  <2>2. QED
    BY <1>1, <1>3, <2>1 DEF BodyAt, Increasing
<1>5. CASE /\ ~ TooLarge /\ spc' = spc /\ conn' = conn
           /\ body' = Append(body, Head(up))
  <2>1. body \in Seq(Nat) /\ Increasing(body) /\ \A i \in DOMAIN body : body[i] <= k
    BY <1>2 DEF BodyAt, Collected
  <2>2. /\ body' \in Seq(Nat) /\ Increasing(body') /\ Len(body') = Len(body) + 1
        /\ \A i \in DOMAIN body' : body'[i] <= k + 1
    BY <1>3, <1>5, <2>1, AppendInOrder
  <2>3. Len(body') <= MaxBody
    BY <1>5, <2>1, <2>2, ExchangeAssumption DEF TooLarge
  <2>4. "memory" \notin NetFaults => body' = Whole(k + 1)
    BY <1>1, <1>2, <1>3, <1>5, WholeGrows DEF Collected
  <2>5. Collected(k + 1)'
    BY <2>2, <2>4 DEF Collected
  <2>6. QED
    BY <1>1, <1>3, <1>5, <2>2, <2>3, <2>5 DEF BodyAt, Increasing
<1>6. CASE /\ ~ TooLarge /\ spc' = spc /\ conn' = conn
           /\ MayLack("memory") /\ body' = body
  <2>1. Collected(k + 1)'
    <3>1. \A i \in DOMAIN body : body[i] <= k + 1
      BY <1>2, <1>3 DEF Collected, BodyAt
    <3>2. QED
      BY <1>6, <3>1 DEF Collected, MayLack
  <2>2. QED
    BY <1>1, <1>3, <1>6, <2>1 DEF BodyAt, Increasing
<1>7. QED
  BY <1>4, <1>5, <1>6 DEF RouterUpload

LEMMA DispatchStep ==
    ASSUME BodyAt, RouterDispatch
    PROVE  BodyAt'
<1>1. /\ spc = "upload" /\ conn = "open" /\ up = <<>>
      /\ size' = size /\ body' = body /\ up' = up
  BY DEF RouterDispatch
<1>2. PICK k \in 0 .. size : up = Rest(k, size) /\ Collected(k)
  BY <1>1 DEF BodyAt
<1>3. k = size
  BY <1>1, <1>2, RestEmpty DEF BodyAt
<1>4. "memory" \notin NetFaults => body = Whole(size)
  BY <1>2, <1>3 DEF Collected
<1>5. \/ spc' = "answer" /\ conn' = "open"
      \/ spc' = spc /\ conn' = "closed"
  <2>1. PICK m \in Answers, st \in {200, 400} : Queue(st, m) \/ Refuse
    BY DEF RouterDispatch
  <2>2. QED
    BY <1>1, <2>1 DEF Queue, Refuse
<1>6. QED
  BY <1>1, <1>4, <1>5 DEF BodyAt, Increasing

LEMMA BodyStep == AnswerInv /\ BodyAt /\ [Next]_vars => BodyAt'
<1> SUFFICES ASSUME AnswerInv, BodyAt, [Next]_vars PROVE BodyAt'
  OBVIOUS
<1>1. CASE UNCHANGED <<size, body, spc, conn, done, up>>
  BY <1>1 DEF BodyAt, Increasing, Collected
<1>2. CASE Disconnect
  BY <1>1, <1>2 DEF Disconnect, BodyAt, Increasing, exchange, wire, serverVars
<1>3. CASE Ask
  <2>1. PICK c \in {"curl", "winhttp"}, n \in Sizes : Request(c, n)
    BY <1>3 DEF Ask
  <2>2. n \in Nat /\ Rest(0, n) = Whole(n)
    BY ExchangeAssumption, WholeStarts
  <2>3. QED
    BY <2>1, <2>2 DEF Request, BodyAt, Increasing
<1>4. CASE UNCHANGED <<size, body, spc, done>> /\ conn' = "closed"
  BY <1>4 DEF BodyAt, Increasing
<1>5. CASE Connect
  BY <1>5 DEF Connect, AnswerInv, AnswerAt, BodyAt, Increasing, Collected, serverVars
<1>6. CASE RouterFirst
  <2>1. /\ spc = "idle" /\ conn = "open" /\ spc' = "upload" /\ body' = <<>>
        /\ UNCHANGED <<size, conn, up, done>>
    BY <1>6 DEF RouterFirst, wire
  <2>2. up' = Rest(0, size) /\ 0 \in 0 .. size /\ ~ done'
    BY <2>1 DEF BodyAt
  <2>3. Collected(0)'
    BY <2>1, WholeStarts DEF Collected
  <2>4. QED
    BY <2>1, <2>2, <2>3, ExchangeAssumption DEF BodyAt, Increasing
<1>7. CASE RouterUpload
  BY <1>7, UploadStep
<1>8. CASE RouterDispatch
  BY <1>8, DispatchStep
<1>9. CASE RequestCompleted
  BY <1>9 DEF RequestCompleted, BodyAt, Increasing
<1>10. QED
  BY <1>1, <1>2, <1>3, <1>4, <1>5, <1>6, <1>7, <1>8, <1>9
  DEF Next, vars, Start, Stop, Client, ClientStep, Server, ServerStep, Network, Break,
      exchange, clientVars, wire, serverVars, ConnectFails, WinAcquire, WinAcquireFails,
      Status, CurlReads, WinReads, CurlReturns, WinReturns

LEMMA BodyInvariant == Spec => []BodyAt
<1>1. Init => BodyAt
  BY WholeStarts, ExchangeAssumption DEF Init, ExchangeInit, BodyAt, Increasing
<1>2. QED
  BY <1>1, BodyStep, AnswerInvariant, PTL DEF Spec

(* However a request is cut up, and whichever allocation fails on the way, *)
(* a handler acts on its pieces in their order, never on more than fit,    *)
(* and on all of them unless memory ran out.                               *)
THEOREM BodiesInOrder == Spec => []BodyInOrder
<1>1. BodyAt => BodyInOrder
  BY DEF BodyAt, BodyInOrder, Increasing
<1>2. QED
  BY <1>1, BodyInvariant, PTL

=============================================================================
