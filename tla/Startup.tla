------------------------------ MODULE Startup -------------------------------
(***************************************************************************)
(* main of vpn-authd (server/src/main.c) as the owner of what the process  *)
(* holds: it reads its two files, opens the database, sets the pool up,    *)
(* starts the API and the reaper, and gives all of it back when it stops.  *)
(* Any of the calls may fail.  What the server does with its sessions      *)
(* meanwhile is AuthServer's.                                              *)
(***************************************************************************)
EXTENDS ServerConfig, StaticConfig, CidrPool

CONSTANTS
    ConfigLines,    \* the lines authd.conf may have
    StaticLines,    \* the lines wg0.conf may have
    DefaultPool,    \* "10.8.1.0/23"
    NoPool,         \* ip_pool_init has not been called
    StartFaults,    \* the calls of main that may fail
    MaxInputs       \* bound on the lines of the two files, and on requests

Call == {"config", "db", "pool", "static", "tls", "listen", "reaper"}

ASSUME StartupAssumption ==
    /\ StartFaults \subseteq Call
    /\ StaticFaults \subseteq {"memory", "device", "command"}
    /\ MaxInputs \in Nat

(* strtol gives a number, or safe_atoi finds there is none; a block has an *)
(* address and a prefix length, or is no block.                            *)
ASSUME LinesAssumption ==
    /\ \A l \in ConfigLines : l.kind = "key" =>
           /\ l.key \in DOMAIN NumberKeys => l.value = NotNumber \/ l.value \in Int
           /\ l.key \in {"cidr", "exclude"} => l.value \in Cidr \cup {BadCidr}
    /\ DefaultPool \in Cidr

(* The entries of AllowedIPs. *)
Entry == UNION {{l.value[i] : i \in DOMAIN l.value} : l \in {m \in StaticLines : m.kind = "ips"}}

(* AllowedIPs is a list, and those of its entries that parse are one. *)
ASSUME StaticAssumption ==
    \A l \in StaticLines :
        /\ l.kind = "address" => l.value \in {"good", "bad"}
        /\ l.kind = "ips" => Parsed(l) \in Seq(Entry)

VARIABLES
    phase,     \* the call main is about to make or is in
    held,      \* what the process holds
    pool,      \* pool_start .. pool_end, and exclude, as blocks
    inputs     \* how much of MaxInputs has been used

main == <<phase, held, pool, inputs>>
startup == <<config, static, main>>

Phase == {"off", "config", "db", "pool", "static", "parse", "listen", "reaper",
          "serve", "api_stop", "db_close", "pool_destroy", "down", "failed"}

MayFail(call) == call \in StartFaults

StartupInit == /\ section = "none" /\ setting = [key \in Key |-> Default(key)]
               /\ lines = <<>>
               /\ StaticInit
               /\ phase = "off" /\ held = {} /\ pool = NoPool /\ inputs = 0

(* load_config, with or without a file; main goes on without. *)
OpenConfig == /\ phase = "off"
              /\ SetDefaults
              /\ \/ phase' = "config"
                 \/ MayFail("config") /\ phase' = "db"
              /\ UNCHANGED <<static, held, pool, inputs>>

ReadConfig == /\ phase = "config"
              /\ inputs < MaxInputs
              /\ inputs' = inputs + 1
              /\ \E l \in ConfigLines : ConfigLine(l)
              /\ UNCHANGED <<static, phase, held, pool>>

CloseConfig == /\ phase = "config"
               /\ phase' = "db"
               /\ lines' = <<>>
               /\ UNCHANGED <<section, setting, static, held, pool, inputs>>

(* db_init: the file is opened and the three tables are there. *)
DbInit == /\ phase = "db"
          /\ \/ phase' = "pool" /\ held' = held \cup {"db"}
             \/ MayFail("db") /\ phase' = "failed" /\ held' \in {held, held \cup {"db"}}
          /\ UNCHANGED <<config, static, pool, inputs>>

PoolCidr == IF setting["cidr"] = Unset THEN DefaultPool ELSE setting["cidr"]

(* An empty exclude is treated like one that does not parse. *)
Exclude == IF setting["exclude"] = Unset THEN BadCidr ELSE setting["exclude"]

(* ip_pool_init; when it fails, main returns 1. *)
PoolInit == /\ phase = "pool"
            /\ \/ /\ Usable(PoolCidr)
                  /\ phase' = "static"
                  /\ held' = held \cup {"bitmap"}
                  /\ pool' = [block |-> PoolCidr, exclude |-> Exclude]
               \/ /\ ~ Usable(PoolCidr) \/ MayFail("pool")
                  /\ phase' = "failed"
                  /\ UNCHANGED <<held, pool>>
            /\ UNCHANGED <<config, static, inputs>>

(* wgctl_load_static_config; main does not look at its result. *)
OpenStatic == /\ phase = "static"
              /\ \/ StaticOpen /\ phase' = "parse"
                 \/ MayFail("static") /\ phase' = "listen" /\ UNCHANGED static
              /\ UNCHANGED <<config, held, pool, inputs>>

ReadStatic == /\ phase = "parse"
              /\ inputs < MaxInputs
              /\ inputs' = inputs + 1
              /\ \E l \in StaticLines : StaticRead(l)
              /\ UNCHANGED <<config, phase, held, pool>>

EndStatic == /\ phase = "parse"
             /\ StaticEnd
             /\ UNCHANGED <<config, main>>

(* The static configuration is loaded, or not; stale sessions are revoked. *)
StaticLoaded == /\ phase = "parse" /\ part = "closed"
                /\ phase' = "listen"
                /\ confLines' = <<>> /\ peers' = <<>>
                /\ UNCHANGED <<config, part, blocks, address, device, held, pool, inputs>>

(* The two files, when both are configured. *)
TlsFiles == IF setting["tls_cert"] # Unset /\ setting["tls_key"] # Unset
            THEN {"tls_cert", "tls_key"} ELSE {}

(* What read_file_to_string may return of them. *)
FilesRead == {files \in SUBSET TlsFiles : files = TlsFiles \/ MayFail("tls")}

(* api_start: without both files the daemon serves plain HTTP. *)
ApiStart == /\ phase = "listen"
            /\ \E files \in FilesRead :
                \/ phase' = "reaper" /\ held' = held \cup files \cup {"daemon"}
                \/ MayFail("listen") /\ phase' = "failed" /\ held' = held \cup files
            /\ UNCHANGED <<config, static, pool, inputs>>

ReaperStart == /\ phase = "reaper"
               /\ \/ phase' = "serve" /\ held' = held \cup {"thread"}
                  \/ MayFail("reaper") /\ phase' = "failed" /\ held' = held
               /\ UNCHANGED <<config, static, pool, inputs>>

(* After a signal: reaper_stop, api_stop, db_close, ip_pool_destroy. *)
ReaperStop == /\ phase = "serve"
              /\ phase' = "api_stop"
              /\ held' = held \ {"thread"}
              /\ UNCHANGED <<config, static, pool, inputs>>

(* Variant: the buffers that MHD reads are freed with the daemon running. *)
ApiStopTls == /\ phase = "api_stop"
              /\ phase' = "db_close"
              /\ held' = held \ {"tls_cert", "tls_key"}
              /\ UNCHANGED <<config, static, pool, inputs>>

(* MHD_stop_daemon, then the two TLS buffers *)
ApiStop == /\ phase = "api_stop"
           /\ phase' = "db_close"
           /\ held' = held \ {"daemon", "tls_cert", "tls_key"}
           /\ UNCHANGED <<config, static, pool, inputs>>

DbClose == /\ phase = "db_close"
           /\ phase' = "pool_destroy"
           /\ held' = held \ {"db"}
           /\ UNCHANGED <<config, static, pool, inputs>>

PoolDestroy == /\ phase = "pool_destroy"
               /\ phase' = "down"
               /\ held' = held \ {"bitmap"}
               /\ UNCHANGED <<config, static, pool, inputs>>

StartStep == \/ OpenConfig \/ ReadConfig \/ CloseConfig \/ DbInit \/ PoolInit
             \/ OpenStatic \/ ReadStatic \/ EndStatic \/ StaticLoaded
             \/ ApiStart \/ ReaperStart
=============================================================================
