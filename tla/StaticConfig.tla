---------------------------- MODULE StaticConfig ----------------------------
(***************************************************************************)
(* wgctl_load_static_config (server/src/wg_ctl.c): wg0.conf read line by   *)
(* line into a list of peers, which is sent to the kernel in one call.     *)
(* Each peer and each of its allowed addresses is a block of memory: block *)
(* <<i, 0>> is the i-th peer, <<i, j>> its j-th address.                   *)
(***************************************************************************)
EXTENDS Integers, Sequences

CONSTANTS
    NoPub,         \* the zero key of a peer without PublicKey
    BadAddr,       \* an entry of AllowedIPs that does not parse
    StaticFaults   \* what may fail: "memory", "device", "command"

VARIABLES
    part,          \* enum parse_state, or "closed" when the file is not open
    peers,         \* the list built so far
    blocks,        \* allocated and not freed
    address,       \* the interface's Address: "none", "good" or "bad"
    device,        \* what the kernel was given
    confLines      \* history: the lines read so far

static == <<part, peers, blocks, address, device, confLines>>

(* The device before the first wg_set_device. *)
Untouched == [given |-> FALSE, peers |-> <<>>, up |-> FALSE]

NewPeer == [pub |-> NoPub, ips |-> <<>>]

(* The lines that count in each section; others are skipped. *)
LinesOf == [none |-> {}, interface |-> {"private", "address"},
            peer |-> {"public", "psk", "ips"}]
Counts(l) == l.kind \in LinesOf[part]

(* A key that does not decode to 32 bytes. *)
BadKey(l) == Counts(l) /\ l.kind \in {"private", "public", "psk"} /\ l.value = "bad"

Parsed(l) == SelectSeq(l.value, LAMBDA a : a # BadAddr)

(* Variant: the addresses of a peer are not walked. *)
ReachedPeers(list) == {<<i, 0>> : i \in 1 .. Len(list)}

(* The blocks that the loop at cleanup, and the one at oom, free. *)
Reached(list) == UNION {{<<i, j>> : j \in 0 .. Len(list[i].ips)} : i \in 1 .. Len(list)}

(* The function returns: the file is closed, the list is freed. *)
Cleanup == /\ part' = "closed"
           /\ blocks' = blocks \ Reached(peers)
           /\ UNCHANGED <<peers, address>>

StaticInit == /\ part = "closed" /\ peers = <<>> /\ blocks = {}
              /\ address = "none" /\ device = Untouched /\ confLines = <<>>

StaticOpen == /\ part = "closed"
              /\ part' = "none"
              /\ UNCHANGED <<peers, blocks, address, device, confLines>>

(* Variant: an unknown header ends the section before it. *)
StaticHeaderEnds(l) ==
    /\ part # "closed" /\ l.kind = "header"
    /\ part' = IF l.value \in {"interface", "peer"} THEN l.value ELSE "none"
    /\ IF l.value = "peer"
       THEN /\ peers' = Append(peers, NewPeer)
            /\ blocks' = blocks \cup {<<Len(peers) + 1, 0>>}
       ELSE UNCHANGED <<peers, blocks>>
    /\ UNCHANGED <<address, device>>

(* A section header; an unknown one leaves the section what it was. *)
StaticHeader(l) ==
    /\ part # "closed" /\ l.kind = "header"
    /\ part' = IF l.value \in {"interface", "peer"} THEN l.value ELSE part
    /\ IF l.value = "peer"
       THEN /\ peers' = Append(peers, NewPeer)
            /\ blocks' = blocks \cup {<<Len(peers) + 1, 0>>}
       ELSE UNCHANGED <<peers, blocks>>
    /\ UNCHANGED <<address, device>>

(* A key and its value.  An entry of AllowedIPs that does not parse is     *)
(* freed at once and skipped.                                              *)
StaticLine(l) ==
    /\ part # "closed" /\ l.kind # "header" /\ ~ BadKey(l)
    /\ LET n == Len(peers) IN
        /\ peers' = IF ~ Counts(l) THEN peers
                    ELSE IF l.kind = "public" THEN [peers EXCEPT ![n].pub = l.value]
                    ELSE IF l.kind = "ips" THEN [peers EXCEPT ![n].ips = @ \o Parsed(l)]
                    ELSE peers
        /\ blocks' = IF Counts(l) /\ l.kind = "ips"
                     THEN blocks \cup {<<n, Len(peers[n].ips) + j>> : j \in 1 .. Len(Parsed(l))}
                     ELSE blocks
    /\ address' = IF Counts(l) /\ l.kind = "address" THEN l.value ELSE address
    /\ UNCHANGED <<part, device>>

(* Variant: a bad key ends the file, and what was read is applied. *)
StaticBadKeyApplies(l) ==
    /\ part # "closed" /\ BadKey(l)
    /\ device' = [given |-> TRUE, peers |-> peers, up |-> TRUE]
    /\ Cleanup

(* goto cleanup, with rc not initialised: the result is anything, and main *)
(* does not look at it.                                                    *)
StaticBadKey(l) ==
    /\ part # "closed" /\ BadKey(l)
    /\ UNCHANGED device
    /\ Cleanup

(* calloc fails for a peer or for an address: goto oom. *)
StaticOom(l) ==
    /\ "memory" \in StaticFaults
    /\ part # "closed"
    /\ \/ l.kind = "header" /\ l.value = "peer"
       \/ l.kind = "ips" /\ Counts(l)
    /\ UNCHANGED device
    /\ Cleanup

(* One round of the loop. *)
StaticRead(l) == /\ \/ StaticHeader(l) \/ StaticLine(l)
                    \/ StaticBadKey(l) \/ StaticOom(l)
                 /\ confLines' = Append(confLines, l)

(* The end of the file: wg_set_device.  A bad Address returns at once:     *)
(* nothing is freed and the interface is not brought up.                   *)
StaticEnd ==
    /\ part # "closed"
    /\ \/ /\ "device" \in StaticFaults
          /\ UNCHANGED device
          /\ Cleanup
       \/ /\ address # "bad"
          /\ \E up \in {TRUE} \cup {"command" \notin StaticFaults} :
                device' = [given |-> TRUE, peers |-> peers, up |-> up]
          /\ Cleanup
       \/ /\ address = "bad"
          /\ device' = [given |-> TRUE, peers |-> peers, up |-> FALSE]
          /\ part' = "closed"
          /\ UNCHANGED <<peers, blocks, address>>
    /\ UNCHANGED confLines

=============================================================================
