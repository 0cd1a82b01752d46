---------------------------- MODULE ServerConfig ----------------------------
(***************************************************************************)
(* load_config (server/src/config.c): authd.conf read line by line into    *)
(* g_config.  A line names a section, sets a key, or is skipped; the last  *)
(* of several settings wins.                                               *)
(***************************************************************************)
EXTENDS Integers, Sequences

CONSTANTS
    Unset,        \* a text setting that no line has set: empty, or the default
    NotNumber     \* text that safe_atoi does not take for a number

VARIABLES
    section,      \* the section the next line belongs to
    setting,      \* g_config
    lines         \* history: the lines read so far

config == <<section, setting, lines>>

(* The keys load_config knows, each with its section. *)
TextKeys == [wg_interface |-> "server", wg_conf_path |-> "server",
             endpoint_public_addr |-> "server", dns |-> "server",
             listen_addr |-> "api", tls_cert |-> "api", tls_key |-> "api",
             path |-> "db", cidr |-> "ip_pool", exclude |-> "ip_pool"]

NumberKeys == [listen_port |-> "api", default_ttl_seconds |-> "session",
               renew_grace_seconds |-> "session", reap_interval_seconds |-> "session",
               argon2_time_cost |-> "security", argon2_mem_cost_kb |-> "security"]

Key == DOMAIN TextKeys \cup DOMAIN NumberKeys
SectionOf(key) == IF key \in DOMAIN TextKeys THEN TextKeys[key] ELSE NumberKeys[key]

(* min_val, max_val and default_val of each call of safe_atoi, and the     *)
(* value that set_default_config gives the key.                            *)
Limits == [listen_port           |-> <<1, 65535, 8443, 8443>>,
           default_ttl_seconds   |-> <<60, 2592000, 3600, 43200>>,
           renew_grace_seconds   |-> <<0, 86400, 300, 0>>,
           reap_interval_seconds |-> <<5, 3600, 60, 60>>,
           argon2_time_cost      |-> <<1, 100, 3, 3>>,
           argon2_mem_cost_kb    |-> <<1024, 4194304, 65536, 65536>>]
Least(key) == Limits[key][1]
Greatest(key) == Limits[key][2]
Fallback(key) == Limits[key][3]

Default(key) == IF key \in DOMAIN NumberKeys THEN Limits[key][4] ELSE Unset

(* Variant: the least value is not looked at. *)
SafeAtoiUpTo(v, key) ==
    IF v = NotNumber THEN Fallback(key)
    ELSE IF v > Greatest(key) THEN Fallback(key) ELSE v

SafeAtoi(v, key) ==
    IF v = NotNumber THEN Fallback(key)
    ELSE IF v < Least(key) \/ v > Greatest(key) THEN Fallback(key) ELSE v

(* What the text v after key's equals sign comes to. *)
Converted(v, key) == IF key \in DOMAIN NumberKeys THEN SafeAtoi(v, key) ELSE v

(* set_default_config *)
SetDefaults == /\ section' = "none"
               /\ setting' = [key \in Key |-> Default(key)]
               /\ lines' = <<>>

(* Variant: a section header only opens a section that has keys. *)
HeaderKnown(l) ==
    /\ l.kind = "header"
    /\ section' = IF \E key \in Key : SectionOf(key) = l.name THEN l.name ELSE section
    /\ UNCHANGED setting

(* Any header opens a section, known or not. *)
Header(l) == /\ l.kind = "header"
             /\ section' = l.name
             /\ UNCHANGED setting

(* A key counts in its own section only; others are skipped. *)
Assignment(l) ==
    /\ l.kind = "key"
    /\ setting' = IF l.key \in Key /\ SectionOf(l.key) = section
                  THEN [setting EXCEPT ![l.key] = Converted(l.value, l.key)]
                  ELSE setting
    /\ UNCHANGED section

ConfigLine(l) == /\ Header(l) \/ Assignment(l)
                 /\ lines' = Append(lines, l)

=============================================================================
