-------------------------- MODULE DaemonProperties --------------------------
(***************************************************************************)
(* What the start, the stop and the request handling of the server must    *)
(* keep.                                                                   *)
(***************************************************************************)
EXTENDS Daemon, FiniteSetsExt, SequencesExt

(* Every variable of the process and of a request keeps its type; the pool *)
(* has a size that its bitmap is meant for.                                *)
DaemonTypeOK ==
    /\ phase \in Phase
    /\ held \subseteq {"db", "bitmap", "tls_cert", "tls_key", "daemon", "thread"}
    /\ inputs \in 0 .. MaxInputs
    /\ pool # NoPool => Size(pool.block) \in 3 .. MaxPool
    /\ part \in {"closed", "none", "interface", "peer"}
    /\ address \in {"none", "good", "bad"}
    /\ device.given \in BOOLEAN /\ device.up \in BOOLEAN
    /\ cpc \in {"idle", "session", "connect", "open", "send", "wait"}
    /\ client \in {"curl", "winhttp"}
    /\ mine \subseteq CurlBlocks \cup WinHandles
    /\ verdict \in {"none", "ok", "failed"}
    /\ conn \in {"none", "open", "closed"}
    /\ code \in {0, 200, 400, 413, 500} /\ reply \in {0, 200, 400, 413, 500}
    /\ spc \in {"idle", "upload", "answer"}
    /\ theirs \subseteq {"info", "data", "answer"}
    /\ done \in BOOLEAN

-----------------------------------------------------------------------------
(* The configuration *)

(* The section that line i of ls stands in: the last header before it. *)
SectionAt(ls, i) ==
    LET heads == {j \in 1 .. i - 1 : ls[j].kind = "header"}
    IN IF heads = {} THEN "none" ELSE ls[Max(heads)].name

(* load_config: each setting is what the last line in the right section    *)
(* says, or the default; a header of a section that no key belongs to ends *)
(* the section before it.                                                  *)
ConfigMatchesFile ==
    phase = "config" =>
        \A key \in Key :
            LET sets == {i \in DOMAIN lines : /\ lines[i].kind = "key"
                                              /\ lines[i].key = key
                                              /\ SectionAt(lines, i) = SectionOf(key)}
            IN setting[key] = IF sets = {} THEN Default(key)
                              ELSE Converted(lines[Max(sets)].value, key)

(* safe_atoi: whatever the file says, the numbers that the time arithmetic *)
(* of sessions, the reaper's sleep and the password hash are given lie     *)
(* within their limits.                                                    *)
ConfigSane == \A key \in DOMAIN NumberKeys : setting[key] \in Least(key) .. Greatest(key)

(* ip_pool_init: the addresses that can be leased are those with the       *)
(* pool's prefix, without the first and the last and without those that    *)
(* have the prefix of the exclude, when that is a block of four up to half *)
(* of all addresses; the host bits of a block may be set.                  *)
PoolExact ==
    "bitmap" \in held =>
        LET c == pool.block
            x == pool.exclude
            In(a, b) == a \div Hosts(b) = b.addr \div Hosts(b)
        IN Leases(c, x) =
             {a \in 0 .. Space - 1 : /\ In(a, c)
                                     /\ a % Hosts(c) \notin {0, Hosts(c) - 1}
                                     /\ ~ (x # BadCidr /\ Hosts(x) \in 4 .. Space \div 2 /\ In(a, x))}

-----------------------------------------------------------------------------
(* wg0.conf *)

Known(l) == l.kind = "header" /\ l.value \in {"interface", "peer"}

(* The last known header before line i of ls, or 0. *)
KnownBefore(ls, i) ==
    LET heads == {j \in 1 .. i - 1 : Known(ls[j])} IN IF heads = {} THEN 0 ELSE Max(heads)

PeerHeads(ls) == {i \in DOMAIN ls : ls[i].kind = "header" /\ ls[i].value = "peer"}

(* The lines of a kind in the section that begins at h. *)
LinesFrom(ls, h, kind) == {i \in DOMAIN ls : ls[i].kind = kind /\ KnownBefore(ls, i) = h}

(* The addresses that its lines before i give, as <<line, position>>. *)
AddressesBefore(ls, h, i) ==
    UNION {{m} \X DOMAIN Parsed(ls[m]) : m \in {k \in LinesFrom(ls, h, "ips") : k < i}}

(* p has the last key of the section at h, and the addresses of all its    *)
(* lists in their order.                                                   *)
IsPeerOf(p, ls, h) ==
    LET keys == LinesFrom(ls, h, "public")
    IN /\ p.pub = IF keys = {} THEN NoPub ELSE ls[Max(keys)].value
       /\ Len(p.ips) = Cardinality(AddressesBefore(ls, h, Len(ls) + 1))
       /\ \A i \in LinesFrom(ls, h, "ips") : \A j \in DOMAIN Parsed(ls[i]) :
              p.ips[Cardinality(AddressesBefore(ls, h, i)) + j] = Parsed(ls[i])[j]

(* list has one peer for each [Peer] header, in their order. *)
ArePeersOf(list, ls) ==
    /\ Len(list) = Cardinality(PeerHeads(ls))
    /\ \A h \in PeerHeads(ls) :
           IsPeerOf(list[Cardinality({g \in PeerHeads(ls) : g <= h})], ls, h)

(* Line i of ls is a key that does not decode, where a key is looked for. *)
Spoils(ls, i) ==
    LET h == KnownBefore(ls, i)
    IN /\ ls[i].kind \in {"private", "public", "psk"} /\ ls[i].value = "bad"
       /\ h # 0
       /\ ls[i].kind = "private" <=> ls[h].value = "interface"

(* wgctl_load_static_config: one key that does not decode, anywhere in the *)
(* file, leaves the device alone.                                          *)
SpoiltNotApplied ==
    phase = "parse" /\ device.given => \A i \in DOMAIN confLines : ~ Spoils(confLines, i)

(* wgctl_load_static_config: when the kernel is given peers, they are      *)
(* those of the whole file, each with the lines of its own section.        *)
AppliedWhole == phase = "parse" /\ device.given => ArePeersOf(device.peers, confLines)

(* wgctl_load_static_config gives every block of the list back, on each of *)
(* its ways out but one: the return for a bad Address, after the device    *)
(* was set.                                                                *)
LeakOnlyByBadAddress ==
    part = "closed" /\ blocks # {} => address = "bad" /\ device.given

-----------------------------------------------------------------------------
(* What is held *)

(* api_stop stops the daemon before main closes the database and frees the *)
(* pool: no request runs without them, whatever main is doing.             *)
HeldWhileServing ==
    Serving \/ spc # "idle" => {"db", "bitmap"} \subseteq held /\ phase # "failed"

(* request_completed, do_post and PostJson: between two requests neither   *)
(* side holds memory or a handle of the one before, however it ended.      *)
NothingKept == /\ spc = "idle" => theirs = {}
               /\ cpc = "idle" => mine = {}

(* main: after a signal everything is given back, also of a request that   *)
(* was being served.                                                       *)
ShutdownReleases == phase = "down" => held = {} /\ spc = "idle" /\ theirs = {}

-----------------------------------------------------------------------------
(* Requests *)

(* api_router: what a handler acts on is at most MaxBody pieces of the     *)
(* request in their order, with the last one and without the others only   *)
(* where realloc failed.                                                   *)
BodyInOrder == /\ Len(body) <= MaxBody
               /\ \A i, j \in DOMAIN body : i < j => body[i] < body[j]
               /\ done /\ "memory" \notin NetFaults => body = Whole(size)

(* do_post and PostJson: a client that takes an answer for success got     *)
(* status 200 from a handler that did the operation; curl's client has the *)
(* whole answer, the Windows one may lack what it failed to read.          *)
AcceptedIsTrue ==
    verdict = "ok" => /\ done /\ reply = 200
                      /\ got # <<>>
                      /\ client = "curl" \/ "read" \notin NetFaults => got = Whole(answer)

(* Every request comes to an end on the client's side, though neither      *)
(* client sets a time limit: the server answers or closes the connection,  *)
(* also when it stops in the middle.                                       *)
RequestEnds == cpc # "idle" ~> cpc = "idle"

=============================================================================
