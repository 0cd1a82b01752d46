----------------------------- MODULE AuthServer -----------------------------
(***************************************************************************)
(* vpn-authd (server/src): main's start and stop, the API thread, the      *)
(* reaper thread, and what they share: the session table, the address      *)
(* pool, the kernel's WireGuard device and the wall clock.                 *)
(*                                                                         *)
(* The API runs in one libmicrohttpd polling thread, so one request is     *)
(* handled at a time; the reaper is the only other thread that touches the *)
(* shared state.  Each handler is a sequence of steps, one per call that   *)
(* reads or changes shared state, and the two threads, the clock and the   *)
(* end of the process interleave between the steps.                        *)
(***************************************************************************)
EXTENDS SessionDb

CONSTANTS
    MaxSessions,  \* the session limit of handle_login: 5
    Ttl,          \* session_default_ttl_seconds
    Grace,        \* session_renew_grace_seconds
    Requests,     \* the requests the clients make
    DbMayFail,    \* the statements that may fail (SQLITE_BUSY, disk full)
    WgMayFail,    \* TRUE: a netlink call may fail
    MaxTime,      \* bound on the clock
    MaxExits,     \* bound on how often the process ends
    NoKey         \* "no session in hand"

Statement == {"count", "insert", "revoke", "update", "select", "audit",
              "revoke_all"}

ASSUME ServerAssumption ==
    /\ MaxSessions \in Nat
    /\ Ttl \in Nat
    /\ Grace \in Nat
    /\ Requests \subseteq {"login", "logout", "renew"}
    /\ DbMayFail \subseteq Statement
    /\ WgMayFail \in BOOLEAN
    /\ MaxTime \in Nat
    /\ MaxExits \in Nat
    /\ NoKey \notin Key \cup Static

(* wg0.conf.example asks for this: the static devices' addresses are       *)
(* outside the pool, or excluded from it.                                  *)
ASSUME StaticAssumption ==
    \A s \in Static : StaticAddr[s] \notin Scanned \ Excluded

VARIABLES
    row,      \* sessions table: survives the process
    audit,    \* <<action, key>> pairs in audit_log: survives the process
    peers,    \* peer table of the device: survives the process, not a reboot
    route,    \* cryptokey routing table of the device
    bitmap,   \* the pool's set bits: memory of the process
    proc,     \* where main is
    api,      \* the API thread
    reaper,   \* the reaper thread
    clock,    \* time(NULL)
    exits     \* how often the process has ended

vars == <<row, audit, peers, route, bitmap, proc, api, reaper, clock, exits>>

-----------------------------------------------------------------------------

(* main: "load" the static config, "revoke" stale sessions, start the api  *)
(* ("listen") and the reaper ("spawn"), "run", then "join" the reaper and  *)
(* "stop" the api.                                                         *)
ProcPc == {"down", "load", "revoke", "listen", "spawn", "run", "join", "stop"}

(* The api thread exists from api_start to api_stop. *)
ApiUp == proc \in {"spawn", "run", "join", "stop"}

(* atomic_int stop_flag of reaper.c *)
StopFlag == proc \in {"join", "stop"}

(* Each name is the call the API thread is about to make. *)
LoginPc == {"login_alloc", "login_peer", "login_insert",
            "login_undo_peer", "login_undo_ip", "login_audit"}
LogoutPc == {"logout_peer", "logout_release", "logout_revoke", "logout_audit"}
RenewPc == {"renew_update", "renew_audit"}
ApiPc == {"idle"} \cup LoginPc \cup LogoutPc \cup RenewPc

(* Locals of the handler: the session in hand, the account that logs in,   *)
(* the address allocated and the expiry computed.  Unused ones are 0.      *)
ApiState == [pc : ApiPc, key : Key \cup {NoKey},
             account : Account \cup {NoKey}, ip : Index, expires : Nat]
ApiAt(pc, k, a, e) == [pc |-> pc, key |-> k, account |-> a, ip |-> 0,
                       expires |-> e]
ApiIdle == ApiAt("idle", NoKey, NoKey, 0)

(* key is the session the reaper works on, batch those still to come. *)
ReaperPc == {"off", "select", "peer", "release", "revoke", "audit", "sleep",
             "exited"}
ReaperState == [pc : ReaperPc, key : Key \cup {NoKey}, batch : SUBSET Key]
ReaperAt(pc) == [pc |-> pc, key |-> NoKey, batch |-> {}]

Outcomes(mayFail) == IF mayFail THEN {TRUE, FALSE} ELSE {TRUE}
DbOutcome(statement) == Outcomes(statement \in DbMayFail)
WgOutcome == Outcomes(WgMayFail)

(* Ignored results: the call takes effect, or the state stays as it was. *)
AddAudit(action, k) ==
    \E ok \in DbOutcome("audit") :
        audit' = IF ok THEN audit \cup {<<action, k>>} ELSE audit

RemovePeer(k) ==
    \E ok \in WgOutcome :
        /\ peers' = IF ok THEN peers \ {k} ELSE peers
        /\ route' = IF ok THEN RouteDropped(route, k) ELSE route

RevokeRow(k) ==
    \E ok \in DbOutcome("revoke") : row' = IF ok THEN Revoked(row, k) ELSE row

-----------------------------------------------------------------------------
(* main *)

Init ==
    /\ row = [k \in Key |-> NoRow]
    /\ audit = {}
    /\ peers = {}
    /\ route = NoRoutes
    /\ bitmap = {}
    /\ proc = "down"
    /\ api = ApiIdle
    /\ reaper = ReaperAt("off")
    /\ clock = 0
    /\ exits = 0

(* ip_pool_init: a new bitmap with the two reserved bits. *)
Start ==
    /\ proc = "down"
    /\ proc' = "load"
    /\ bitmap' = Reserved
    /\ UNCHANGED <<row, audit, peers, route, api, reaper, clock, exits>>

(* wgctl_load_static_config; main ignores its result. *)
LoadStatic ==
    /\ proc = "load"
    /\ proc' = "revoke"
    /\ \E ok \in WgOutcome :
        /\ peers' = IF ok THEN peers \cup Static ELSE peers
        /\ route' = IF ok THEN RouteStatic(route) ELSE route
    /\ UNCHANGED <<row, audit, bitmap, api, reaper, clock, exits>>

(* Variant: sessions are recovered instead of revoked. *)
RecoverStale ==
    /\ proc = "revoke"
    /\ proc' = "listen"
    /\ UNCHANGED <<row, audit, peers, route, bitmap, api, reaper, clock, exits>>

(* revoke_stale_sessions; the result is ignored, no peer is removed and    *)
(* nothing is audited.                                                     *)
RevokeStale ==
    /\ proc = "revoke"
    /\ proc' = "listen"
    /\ \E ok \in DbOutcome("revoke_all") : row' = IF ok THEN AllRevoked(row) ELSE row
    /\ UNCHANGED <<audit, peers, route, bitmap, api, reaper, clock, exits>>

ApiStart ==
    /\ proc = "listen"
    /\ proc' = "spawn"
    /\ UNCHANGED <<row, audit, peers, route, bitmap, api, reaper, clock, exits>>

ReaperStart ==
    /\ proc = "spawn"
    /\ proc' = "run"
    /\ reaper' = ReaperAt("select")
    /\ UNCHANGED <<row, audit, peers, route, bitmap, api, clock, exits>>

(* SIGINT or SIGTERM: main leaves its loop and reaper_stop sets stop_flag. *)
Signal ==
    /\ proc = "run"
    /\ exits < MaxExits
    /\ proc' = "join"
    /\ UNCHANGED <<row, audit, peers, route, bitmap, api, reaper, clock, exits>>

(* pthread_join returns; the API still serves. *)
ReaperJoin ==
    /\ proc = "join"
    /\ reaper.pc = "exited"
    /\ proc' = "stop"
    /\ UNCHANGED <<row, audit, peers, route, bitmap, api, reaper, clock, exits>>

(* MHD_stop_daemon returns once the polling thread has finished its        *)
(* request; then the database and the pool are closed and main returns.    *)
(* No session is revoked and no peer removed.                              *)
ApiStop ==
    /\ proc = "stop"
    /\ api.pc = "idle"
    /\ proc' = "down"
    /\ bitmap' = {}
    /\ reaper' = ReaperAt("off")
    /\ exits' = exits + 1
    /\ UNCHANGED <<row, audit, peers, route, api, clock>>

(* The process ends at any other point: killed, crashed, or main returned  *)
(* 1 because api_start or reaper_start failed.  The memory of the process  *)
(* is lost, the database and the kernel's device are not, unless the       *)
(* machine itself went down.                                               *)
Die(machine) ==
    /\ proc # "down"
    /\ exits < MaxExits
    /\ proc' = "down"
    /\ bitmap' = {}
    /\ api' = ApiIdle
    /\ reaper' = ReaperAt("off")
    /\ exits' = exits + 1
    /\ peers' = IF machine THEN {} ELSE peers
    /\ route' = IF machine THEN NoRoutes ELSE route
    /\ UNCHANGED <<row, audit, clock>>

Tick ==
    /\ clock < MaxTime
    /\ clock' = clock + 1
    /\ UNCHANGED <<row, audit, peers, route, bitmap, proc, api, reaper, exits>>

-----------------------------------------------------------------------------
(* handle_login, from the session count on: the rate limit and the         *)
(* credentials, checked before it, change none of this state.              *)

(* The API thread takes a request. *)
Accepts(request) ==
    /\ request \in Requests
    /\ proc \in {"spawn", "run", "join"}
    /\ api.pc = "idle"

(* A key pair never used before. *)
Fresh(k) == row[k] = NoRow /\ k \notin peers

(* Variant: one session more passes. *)
LoginCountOneMore(k, a) ==
    /\ Accepts("login")
    /\ Fresh(k)
    /\ \E ok \in DbOutcome("count") :
        ok => Cardinality(Active(row, a, clock)) <= MaxSessions
    /\ api' = ApiAt("login_alloc", k, a, 0)
    /\ UNCHANGED <<row, audit, peers, route, bitmap, proc, reaper, clock, exits>>

(* db_count_active_sessions and the limit; the count is 0 when it fails.   *)
LoginCount(k, a) ==
    /\ Accepts("login")
    /\ Fresh(k)
    /\ \E ok \in DbOutcome("count") :
        ok => Cardinality(Active(row, a, clock)) < MaxSessions
    /\ api' = ApiAt("login_alloc", k, a, 0)
    /\ UNCHANGED <<row, audit, peers, route, bitmap, proc, reaper, clock, exits>>

(* ip_pool_allocate finds an address. *)
LoginAllocate ==
    /\ api.pc = "login_alloc"
    /\ \E i \in Leasable :
        /\ FirstFree(bitmap, i)
        /\ bitmap' = MarkedUpTo(bitmap, i)
        /\ api' = [api EXCEPT !.pc = "login_peer", !.ip = i]
    /\ UNCHANGED <<row, audit, peers, route, proc, reaper, clock, exits>>

(* ip_pool_allocate finds none: 503. *)
LoginExhausted ==
    /\ api.pc = "login_alloc"
    /\ FreeIn(bitmap) = {}
    /\ bitmap' = MarkedAll(bitmap)
    /\ api' = ApiIdle
    /\ UNCHANGED <<row, audit, peers, route, proc, reaper, clock, exits>>

(* wgctl_add_peer, and after it the expiry from the clock. *)
LoginAddPeer ==
    /\ api.pc = "login_peer"
    /\ \E ok \in WgOutcome :
        IF ok
        THEN /\ peers' = peers \cup {api.key}
             /\ route' = RouteTo(route, api.key, api.ip)
             /\ api' = [api EXCEPT !.pc = "login_insert",
                                   !.expires = clock + Ttl]
        ELSE /\ api' = [api EXCEPT !.pc = "login_undo_ip"]
             /\ UNCHANGED <<peers, route>>
    /\ UNCHANGED <<row, audit, bitmap, proc, reaper, clock, exits>>

(* db_create_session *)
LoginInsert ==
    /\ api.pc = "login_insert"
    /\ \E ok \in DbOutcome("insert") :
        IF ok
        THEN /\ row' = Inserted(row, api.key, api.account, api.ip, api.expires)
             /\ api' = [api EXCEPT !.pc = "login_audit"]
        ELSE /\ api' = [api EXCEPT !.pc = "login_undo_peer"]
             /\ UNCHANGED row
    /\ UNCHANGED <<audit, peers, route, bitmap, proc, reaper, clock, exits>>

(* Variant: the error path forgets ip_pool_release. *)
LoginUndoPeerKeepsIp ==
    /\ api.pc = "login_undo_peer"
    /\ RemovePeer(api.key)
    /\ api' = ApiIdle
    /\ UNCHANGED <<row, audit, bitmap, proc, reaper, clock, exits>>

(* The error paths: wgctl_remove_peer, then ip_pool_release, then 500. *)
LoginUndoPeer ==
    /\ api.pc = "login_undo_peer"
    /\ RemovePeer(api.key)
    /\ api' = [api EXCEPT !.pc = "login_undo_ip"]
    /\ UNCHANGED <<row, audit, bitmap, proc, reaper, clock, exits>>

LoginUndoIp ==
    /\ api.pc = "login_undo_ip"
    /\ bitmap' = Released(bitmap, api.ip)
    /\ api' = ApiIdle
    /\ UNCHANGED <<row, audit, peers, route, proc, reaper, clock, exits>>

(* db_log_audit, then 200. *)
LoginAudit ==
    /\ api.pc = "login_audit"
    /\ AddAudit("login", api.key)
    /\ api' = ApiIdle
    /\ UNCHANGED <<row, peers, route, bitmap, proc, reaper, clock, exits>>

-----------------------------------------------------------------------------
(* handle_logout.  An unknown, revoked or expired token is answered with   *)
(* 404, 409 or 401 and changes nothing.                                    *)

(* Variant: the peer is left in the kernel. *)
LogoutLookupSkipsPeer(k) ==
    /\ Accepts("logout")
    /\ IsLive(row, k)
    /\ row[k].expires >= clock
    /\ api' = ApiAt("logout_release", k, NoKey, 0)
    /\ UNCHANGED <<row, audit, peers, route, bitmap, proc, reaper, clock, exits>>

LogoutLookup(k) ==
    /\ Accepts("logout")
    /\ IsLive(row, k)
    /\ row[k].expires >= clock
    /\ api' = ApiAt("logout_peer", k, NoKey, 0)
    /\ UNCHANGED <<row, audit, peers, route, bitmap, proc, reaper, clock, exits>>

LogoutRemovePeer ==
    /\ api.pc = "logout_peer"
    /\ RemovePeer(api.key)
    /\ api' = [api EXCEPT !.pc = "logout_release"]
    /\ UNCHANGED <<row, audit, bitmap, proc, reaper, clock, exits>>

LogoutRelease ==
    /\ api.pc = "logout_release"
    /\ bitmap' = Released(bitmap, row[api.key].ip)
    /\ api' = [api EXCEPT !.pc = "logout_revoke"]
    /\ UNCHANGED <<row, audit, peers, route, proc, reaper, clock, exits>>

LogoutRevoke ==
    /\ api.pc = "logout_revoke"
    /\ RevokeRow(api.key)
    /\ api' = [api EXCEPT !.pc = "logout_audit"]
    /\ UNCHANGED <<audit, peers, route, bitmap, proc, reaper, clock, exits>>

LogoutAudit ==
    /\ api.pc = "logout_audit"
    /\ AddAudit("logout", api.key)
    /\ api' = ApiIdle
    /\ UNCHANGED <<row, peers, route, bitmap, proc, reaper, clock, exits>>

-----------------------------------------------------------------------------
(* handle_renew.  A revoked session, or one expired for longer than the    *)
(* grace period, is answered with 403 and changes nothing.                 *)

RenewLookup(k) ==
    /\ Accepts("renew")
    /\ IsLive(row, k)
    /\ row[k].expires + Grace >= clock
    /\ api' = ApiAt("renew_update", k, NoKey, clock + Ttl)
    /\ UNCHANGED <<row, audit, peers, route, bitmap, proc, reaper, clock, exits>>

(* db_update_session_expiry; the result is ignored. *)
RenewUpdate ==
    /\ api.pc = "renew_update"
    /\ \E ok \in DbOutcome("update") :
        row' = IF ok THEN Extended(row, api.key, api.expires) ELSE row
    /\ api' = [api EXCEPT !.pc = "renew_audit"]
    /\ UNCHANGED <<audit, peers, route, bitmap, proc, reaper, clock, exits>>

RenewAudit ==
    /\ api.pc = "renew_audit"
    /\ AddAudit("renew", api.key)
    /\ api' = ApiIdle
    /\ UNCHANGED <<row, peers, route, bitmap, proc, reaper, clock, exits>>

-----------------------------------------------------------------------------
(* reaper_worker *)

(* db_get_expired_sessions: a snapshot of the overdue rows. *)
ReaperSelect ==
    /\ reaper.pc = "select"
    /\ \E b \in Batches(row, clock, "select" \in DbMayFail) :
        reaper' = IF b = {} THEN ReaperAt("sleep")
                  ELSE [ReaperAt("peer") EXCEPT !.batch = b]
    /\ UNCHANGED <<row, audit, peers, route, bitmap, proc, api, clock, exits>>

(* Variant: the peer stays. *)
ReaperKeepsPeer ==
    /\ reaper.pc = "peer"
    /\ \E k \in reaper.batch :
        reaper' = [pc |-> "release", key |-> k, batch |-> reaper.batch \ {k}]
    /\ UNCHANGED <<row, audit, peers, route, bitmap, proc, api, clock, exits>>

(* The next session of the batch, whatever has become of its row since. *)
ReaperRemovePeer ==
    /\ reaper.pc = "peer"
    /\ \E k \in reaper.batch :
        /\ RemovePeer(k)
        /\ reaper' = [pc |-> "release", key |-> k, batch |-> reaper.batch \ {k}]
    /\ UNCHANGED <<row, audit, bitmap, proc, api, clock, exits>>

ReaperRelease ==
    /\ reaper.pc = "release"
    /\ bitmap' = Released(bitmap, row[reaper.key].ip)
    /\ reaper' = [reaper EXCEPT !.pc = "revoke"]
    /\ UNCHANGED <<row, audit, peers, route, proc, api, clock, exits>>

(* Variant: the row stays as it is. *)
ReaperKeepsRow ==
    /\ reaper.pc = "revoke"
    /\ reaper' = [reaper EXCEPT !.pc = "audit"]
    /\ UNCHANGED <<row, audit, peers, route, bitmap, proc, api, clock, exits>>

ReaperRevoke ==
    /\ reaper.pc = "revoke"
    /\ RevokeRow(reaper.key)
    /\ reaper' = [reaper EXCEPT !.pc = "audit"]
    /\ UNCHANGED <<audit, peers, route, bitmap, proc, api, clock, exits>>

(* Variant: only the last session of a batch is audited. *)
ReaperAuditsLast ==
    /\ reaper.pc = "audit"
    /\ IF reaper.batch = {} THEN AddAudit("expired", reaper.key)
                            ELSE UNCHANGED audit
    /\ reaper' = IF reaper.batch = {} THEN ReaperAt("sleep")
                 ELSE [reaper EXCEPT !.pc = "peer", !.key = NoKey]
    /\ UNCHANGED <<row, peers, route, bitmap, proc, api, clock, exits>>

ReaperAudit ==
    /\ reaper.pc = "audit"
    /\ AddAudit("expired", reaper.key)
    /\ reaper' = IF reaper.batch = {} THEN ReaperAt("sleep")
                 ELSE [reaper EXCEPT !.pc = "peer", !.key = NoKey]
    /\ UNCHANGED <<row, peers, route, bitmap, proc, api, clock, exits>>

(* Variant: the outer loop does not look at stop_flag. *)
ReaperWakeDeaf ==
    /\ reaper.pc = "sleep"
    /\ reaper' = ReaperAt("select")
    /\ UNCHANGED <<row, audit, peers, route, bitmap, proc, api, clock, exits>>

(* The sleep ends with the interval or with stop_flag; the outer loop then *)
(* looks at stop_flag.  It is not looked at inside a batch.                *)
ReaperWake ==
    /\ reaper.pc = "sleep"
    /\ reaper' = ReaperAt(IF StopFlag THEN "exited" ELSE "select")
    /\ UNCHANGED <<row, audit, peers, route, bitmap, proc, api, clock, exits>>

-----------------------------------------------------------------------------

MainStep == \/ LoadStatic \/ RevokeStale \/ ApiStart \/ ReaperStart
            \/ ReaperJoin \/ ApiStop

LoginStep == \/ LoginAllocate \/ LoginExhausted \/ LoginAddPeer \/ LoginInsert
             \/ LoginUndoPeer \/ LoginUndoIp \/ LoginAudit

LogoutStep == \/ LogoutRemovePeer \/ LogoutRelease \/ LogoutRevoke
              \/ LogoutAudit

RenewStep == RenewUpdate \/ RenewAudit

ApiStep == LoginStep \/ LogoutStep \/ RenewStep

ReaperStep == \/ ReaperSelect \/ ReaperRemovePeer \/ ReaperRelease
              \/ ReaperRevoke \/ ReaperAudit \/ ReaperWake

Request == \E k \in Key : \/ \E a \in Account : LoginCount(k, a)
                          \/ LogoutLookup(k)
                          \/ RenewLookup(k)

Environment == Start \/ Signal \/ Tick \/ \E machine \in BOOLEAN : Die(machine)

Next == MainStep \/ ApiStep \/ ReaperStep \/ Request \/ Environment

Spec == Init /\ [][Next]_vars

(* The threads of a running process keep running: each takes a step it can *)
(* take.  Nothing is assumed of clients, signals, the clock or a start.    *)
FairSpec == Spec /\ WF_vars(MainStep) /\ WF_vars(ApiStep) /\ WF_vars(ReaperStep)

=============================================================================
