------------------------------- MODULE Daemon -------------------------------
(***************************************************************************)
(* One life of the server process with the requests it serves: Startup     *)
(* composed with Exchange.  A request is served while the daemon of        *)
(* libmicrohttpd runs; MHD_stop_daemon closes the connection there is.     *)
(***************************************************************************)
EXTENDS Startup, Exchange

CONSTANT RequestInputs     \* what a request takes of MaxInputs

ASSUME DaemonAssumption == RequestInputs \in Nat

vars == <<startup, exchange>>

Init == StartupInit /\ ExchangeInit

(* The daemon runs from api_start to api_stop, or until main returns 1. *)
Serving == "daemon" \in held /\ phase # "failed"

(* A client starts a request; nothing keeps it from doing so. *)
Ask == /\ phase \in {"reaper", "serve", "api_stop"}
       /\ inputs + RequestInputs <= MaxInputs
       /\ inputs' = inputs + RequestInputs
       /\ \E c \in {"curl", "winhttp"}, n \in Sizes : Request(c, n)
       /\ UNCHANGED <<config, static, phase, held, pool>>

(* What MHD_stop_daemon, or the end of the process, does to a connection. *)
Disconnect == IF spc = "idle" /\ conn # "open" THEN UNCHANGED exchange
              ELSE /\ conn' = "closed" /\ spc' = "idle"
                   /\ theirs' = theirs \ {"info", "data", "answer"}
                   /\ up' = <<>> /\ down' = <<>>
                   /\ UNCHANGED <<clientVars, size, reply, answer, body, done>>

Start == /\ StartStep
         /\ IF phase' = "failed" THEN Disconnect ELSE UNCHANGED exchange

Stop == \/ (ReaperStop \/ DbClose \/ PoolDestroy) /\ UNCHANGED exchange
        \/ ApiStop /\ Disconnect

Client == /\ \/ ClientStep
             \/ Serving /\ Connect
             \/ (MayLack("net") \/ ~ Serving) /\ ConnectFails
          /\ UNCHANGED startup

Server == Serving /\ ServerStep /\ UNCHANGED startup

Network == Break /\ UNCHANGED startup

Next == Start \/ Stop \/ Ask \/ Client \/ Server \/ Network

Spec == Init /\ [][Next]_vars

(* A client and the thread of libmicrohttpd keep working on a request; no  *)
(* answer, no connection and no start or stop of the server is promised.   *)
FairSpec == Spec /\ WF_vars(Client) /\ WF_vars(Server)

=============================================================================
