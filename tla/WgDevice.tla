------------------------------ MODULE WgDevice ------------------------------
(***************************************************************************)
(* The kernel's WireGuard device as vpn-authd drives it through            *)
(* server/src/wg_ctl.c: a peer table, and the cryptokey routing table that *)
(* gives an address to at most one peer.  The kernel is external to the    *)
(* program; what a call does to it is read from the flags the calls set    *)
(* (WGPEER_REPLACE_ALLOWEDIPS, WGPEER_REMOVE_ME).                          *)
(***************************************************************************)
CONSTANTS
    Key,          \* public keys of the session peers the server generates
    Static,       \* public keys of the peers of wg0.conf
    Addr,         \* addresses: offsets in the pool, and others outside it
    StaticAddr,   \* the AllowedIPs of each static peer, a /32
    NoPeer        \* the routing entry of an address nobody owns

ASSUME WgAssumption ==
    /\ Key \cap Static = {}
    /\ NoPeer \notin Key \cup Static
    /\ StaticAddr \in [Static -> Addr]
    /\ \A s, t \in Static : StaticAddr[s] = StaticAddr[t] => s = t

Peer == Key \cup Static

RouteTable == [Addr -> Peer \cup {NoPeer}]

NoRoutes == [a \in Addr |-> NoPeer]

(* wgctl_add_peer: the peer's allowed IPs become {ip}; whoever had ip      *)
(* loses it.                                                               *)
RouteTo(route, p, ip) ==
    [a \in Addr |-> IF a = ip THEN p
                    ELSE IF route[a] = p THEN NoPeer ELSE route[a]]

(* wgctl_remove_peer: the peer's routes go with it. *)
RouteDropped(route, p) ==
    [a \in Addr |-> IF route[a] = p THEN NoPeer ELSE route[a]]

(* wgctl_load_static_config: every static peer gets exactly its AllowedIPs; *)
(* the call has no REPLACE_PEERS flag, so the other peers stay.             *)
RouteStatic(route) ==
    [a \in Addr |-> IF \E s \in Static : StaticAddr[s] = a
                    THEN CHOOSE s \in Static : StaticAddr[s] = a
                    ELSE IF route[a] \in Static THEN NoPeer ELSE route[a]]

=============================================================================
