--------------------------- MODULE AuthProperties ---------------------------
(***************************************************************************)
(* What vpn-authd should guarantee, stated over the state of AuthServer.   *)
(***************************************************************************)
EXTENDS AuthServer

(* Every variable has its type. *)
TypeOK ==
    /\ row \in [Key -> Row \cup {NoRow}]
    /\ audit \subseteq {"login", "logout", "renew", "expired"} \X Key
    /\ peers \subseteq Peer
    /\ route \in RouteTable
    /\ bitmap \subseteq Index
    /\ proc \in ProcPc
    /\ api \in ApiState
    /\ reaper \in ReaperState
    /\ clock \in Nat
    /\ exits \in Nat

-----------------------------------------------------------------------------
(* Who holds what. *)

(* A login in progress that has allocated an address and not given it up. *)
LoginHoldsIp == api.pc \in {"login_peer", "login_insert",
                            "login_undo_peer", "login_undo_ip"}

(* A thread has released k's address and has not yet revoked its row. *)
PastRelease(k) == \/ api.pc = "logout_revoke" /\ api.key = k
                  \/ reaper.pc = "revoke" /\ reaper.key = k

(* k is the session, or the login in progress, that address i was given to. *)
Holder(k, i) == \/ LoginHoldsIp /\ api.key = k /\ api.ip = i
                \/ IsLive(row, k) /\ row[k].ip = i /\ ~ PastRelease(k)

(* A logout of k and the reaper are both at work on k. *)
Contended(k) == /\ api.pc \in LogoutPc \ {"logout_audit"}
                /\ api.key = k
                /\ \/ k \in reaper.batch
                   \/ reaper.key = k /\ reaper.pc \in {"release", "revoke"}

NoContention == \A k \in Key : ~ Contended(k)

(* A thread has removed k's peer and has not yet revoked its row. *)
Removing(k) ==
    \/ api.key = k /\ api.pc \in {"logout_release", "logout_revoke"}
    \/ reaper.key = k /\ reaper.pc \in {"release", "revoke"}

(* A peer of the device that no session row and no login accounts for. *)
Orphan(k) == /\ k \in peers
             /\ ~ IsLive(row, k)
             /\ ~ (api.key = k /\ api.pc \in {"login_insert", "login_undo_peer"})

(* k is revoked, and audit_log has neither a "logout" nor an "expired"     *)
(* entry for it, nor will a thread write one.                              *)
Unaudited(k) ==
    /\ row[k] # NoRow /\ row[k].revoked
    /\ <<"logout", k>> \notin audit /\ <<"expired", k>> \notin audit
    /\ ~ (api.key = k /\ api.pc = "logout_audit")
    /\ ~ (reaper.key = k /\ reaper.pc \in {"release", "revoke", "audit"})

-----------------------------------------------------------------------------
(* Safety *)

(* Every address the pool counts as used is in use: a leasable bit is set  *)
(* only while some session, or a login in progress, holds the address.     *)
(* This is project.md:371's "no leak", through every error path of         *)
(* handle_login, double releases, ignored failures and restarts.           *)
NoLeakedAddress ==
    \A i \in bitmap \cap Leasable : \E k \in Key : Holder(k, i)

(* No two sessions hold the same address while the server runs             *)
(* (project.md:371's "no conflict").                                       *)
NoSharedAddress ==
    ApiUp => \A i \in Index, k, l \in Key :
                 Holder(k, i) /\ Holder(l, i) => k = l

(* Unless a logout and the reaper work on one session at the same time, no *)
(* two sessions ever share an address: the reaper's stale batch is the     *)
(* only way ip_pool_release can clear a bit that belongs to somebody else. *)
SharingNeedsContention == []NoContention => []NoSharedAddress

(* Once the server has started, a session that is not revoked has its peer *)
(* in the kernel, or a thread is in the middle of taking it down: a client *)
(* that is told "active" can use its tunnel.                               *)
LiveSessionHasPeer ==
    proc \notin {"down", "load", "revoke"} =>
        \A k \in Key : IsLive(row, k) => k \in peers \/ Removing(k)

(* The kernel sends what is addressed to a session to that session's peer:  *)
(* the peers that a crash inside handle_login or a restart has left in the *)
(* device, with addresses that the new bitmap gives out again, take        *)
(* nothing from it.                                                        *)
LiveSessionHasRoute ==
    ApiUp => \A k \in Key :
                 IsLive(row, k) /\ ~ Removing(k) => route[row[k].ip] = k

(* Unless a logout and the reaper work on one session at the same time, no *)
(* session loses its traffic to another peer.                              *)
MisrouteNeedsContention == []NoContention => []LiveSessionHasRoute

(* A revoked session has no peer in the kernel once the server serves       *)
(* (project.md:170: revoked=1 means the peer "should be removed from wg0"). *)
RevokedPeerGone ==
    ApiUp => \A k \in Key : row[k] # NoRow /\ row[k].revoked => k \notin peers

-----------------------------------------------------------------------------
(* Actions *)

(* While the server runs no step leaves a peer behind: a peer becomes an   *)
(* orphan only when the process ends or revokes the stale sessions of its  *)
(* predecessor.                                                            *)
NoNewOrphan ==
    \A k \in Key : Orphan(k)' => \/ Orphan(k)
                                \/ proc' = "down"
                                \/ proc = "revoke"

OrphanOnlyByRestart == [][NoNewOrphan]_vars

(* project.md:345 asks for an entry in audit_log for every end of a        *)
(* session, revocations included.  The code falls short of it in two ways, *)
(* both of them at a restart: revoke_stale_sessions writes none, and a     *)
(* crash may come between a revocation and its entry.  As long as the      *)
(* INSERT itself works these are the only ways: while the server runs, and *)
(* in its orderly stop, every logout and every round of the reaper         *)
(* accounts for the sessions it ends.                                      *)
OrderlyStop == proc = "stop" /\ api.pc = "idle"

NoNewUnaudited ==
    \A k \in Key :
        Unaudited(k)' => \/ Unaudited(k)
                         \/ proc = "revoke"
                         \/ proc' = "down" /\ ~ OrderlyStop

UnauditedOnlyByRestart == [][NoNewUnaudited]_vars

(* The limit of handle_login (api_handlers.c:250) is looked at long before  *)
(* the row is inserted, and renewals do not look at it.  While the count   *)
(* does not fail, no login takes an account over the limit, whatever       *)
(* expires or is renewed in between; the only step that does is a renewal  *)
(* that brings a session back within its grace period.                     *)
OverLimitOnlyByRenewal ==
    [][\A a \in Account :
          LET before == Active(row, a, clock)
              after  == Active(row', a, clock')
          IN Cardinality(after) > MaxSessions /\ Cardinality(after) > Cardinality(before)
               => /\ api.pc = "renew_update"
                  /\ after \ before = {api.key}
                  /\ row[api.key].expires < clock]_vars

(* Nothing the server does, restarts included, takes a static device's     *)
(* address from it (project.md:347): only the end of the machine does.     *)
StaticKept ==
    \A s \in Static :
        s \in peers /\ route[StaticAddr[s]] = s =>
            \/ s \in peers' /\ route'[StaticAddr[s]] = s
            \/ peers' = {}

StaticRouteKept == [][StaticKept]_vars

(* A session is taken down only when it cannot be renewed any more         *)
(* (api_handlers.c:498), or when its client logs out.                      *)
GraceHonoured ==
    [][\A k \in Key :
          IsLive(row, k) /\ row'[k] # NoRow /\ row'[k].revoked =>
              \/ proc = "revoke"
              \/ api.pc = "logout_revoke" /\ api.key = k
              \/ row[k].expires + Grace < clock]_vars

-----------------------------------------------------------------------------
(* The sessions that clients see *)

LiveKeys == {k \in Key : IsLive(row, k)}

EndedKeys == {k \in Key : row[k] # NoRow /\ row[k].revoked}

ExpiryOf == [k \in Key |-> IF IsLive(row, k) THEN row[k].expires ELSE 0]

(* A logout that has passed its checks and not yet revoked the row. *)
AskedKeys ==
    IF api.pc \in LogoutPc \ {"logout_audit"} THEN {api.key} ELSE {}

(* What is left of the reaper's snapshot. *)
DoomedKeys ==
    reaper.batch \cup
        IF reaper.pc \in {"release", "revoke"} THEN {reaper.key} ELSE {}

GrantedRenewals ==
    IF api.pc = "renew_update" THEN {<<api.key, api.expires>>} ELSE {}

Service == INSTANCE SessionService WITH
               live <- LiveKeys,
               over <- EndedKeys,
               until <- ExpiryOf,
               asked <- AskedKeys,
               doomed <- DoomedKeys,
               granted <- GrantedRenewals,
               serving <- ApiUp,
               now <- clock

(* handle_login, handle_logout, handle_renew, the reaper and the start of  *)
(* the server give every session the life that SessionService describes,   *)
(* whatever fails and however the threads interleave: it ends once, for a  *)
(* reason, and no late renewal revives it or takes time from it, although  *)
(* db_update_session_expiry (db.c:163) looks neither at revoked nor at the *)
(* expiry it replaces.                                                     *)
SessionsServed == Service!ServiceSpec

-----------------------------------------------------------------------------
(* Liveness *)

(* An overdue session is renewed or revoked, or the process ends.          *)
OverdueIsReaped ==
    \A k \in Key : proc = "run" /\ k \in Overdue(row, clock)
                       ~> k \notin Overdue(row, clock) \/ proc # "run"

(* The peer of an overdue session leaves the kernel, unless the session is *)
(* renewed or the process ends: README_en.md:14, "preventing zombie        *)
(* whitelists".                                                            *)
OverduePeerRemoved ==
    \A k \in Key : proc = "run" /\ k \in Overdue(row, clock) /\ k \in peers
                       ~> \/ k \notin peers \/ proc # "run"
                          \/ IsLive(row, k) /\ k \notin Overdue(row, clock)

(* A shutdown completes: main's join does not wait for ever. *)
ShutdownCompletes == proc = "join" ~> proc = "down"

=============================================================================
