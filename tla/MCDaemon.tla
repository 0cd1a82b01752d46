------------------------------ MODULE MCDaemon ------------------------------
(* A small instance of Daemon for TLC: addresses of five bits. *)
EXTENDS DaemonProperties

CONSTANT text

Block(addr, prefix) == [addr |-> addr, prefix |-> prefix]
Section(name) == [kind |-> "header", name |-> name]
Setting(key, value) == [kind |-> "key", key |-> key, value |-> value]

(* 8 .. 15, written with a host bit like 10.8.1.0/23 *)
MCDefaultPool == Block(12, 2)

(* Blocks that are usable, too large, too small, and no blocks. *)
MCConfigLines ==
    {Section(s) : s \in {"ip_pool", "session", "api", "other"}}
    \cup {Setting("cidr", b) : b \in {Block(21, 3), Block(3, 1), Block(4, 4), BadCidr}}
    \cup {Setting("exclude", b) : b \in {Block(13, 3), Block(9, 5), Block(0, 0), BadCidr}}
    \cup {Setting("default_ttl_seconds", n) : n \in {59, 60, 2592001, NotNumber}}
    \cup {Setting(key, text) : key \in {"tls_cert", "tls_key"}}

MCStaticLines ==
    {[kind |-> "header", value |-> v] : v \in {"interface", "peer", "other"}}
    \cup {[kind |-> k, value |-> v] : k \in {"private", "public", "psk"}, v \in {"bad", "k1"}}
    \cup {[kind |-> "ips", value |-> v] : v \in {<<"a">>, <<"b", BadAddr>>}}
    \cup {[kind |-> "address", value |-> v] : v \in {"good", "bad"}}

=============================================================================
