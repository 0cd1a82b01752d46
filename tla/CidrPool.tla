------------------------------ MODULE CidrPool ------------------------------
(***************************************************************************)
(* The arithmetic of server/src/ip_pool.c: what ip_pool_init makes of the  *)
(* two CIDR blocks of the configuration.  Addresses are W bits wide, 32 in *)
(* the code; a block is a record of an address and a prefix length, which  *)
(* parse_cidr takes to be W when there is none.                            *)
(***************************************************************************)
EXTENDS Integers

CONSTANTS
    W,          \* bits of an address
    MaxPool,    \* largest pool: 2^20 addresses
    BadCidr     \* text that is no address, or has no prefix length up to W

ASSUME CidrAssumption == W \in Nat /\ W >= 3 /\ MaxPool \in Nat

Space == 2 ^ W

(* Text that is a block; its host bits may be set. *)
Cidr == [addr : 0 .. Space - 1, prefix : 0 .. W]

(* parse_cidr returns 0: the prefix leaves at least two host bits. *)
Parses(c) == c # BadCidr /\ c.prefix \in 1 .. W - 2

(* ~mask + 1 *)
Hosts(c) == 2 ^ (W - c.prefix)

(* Variant: the host bits of the address stay. *)
LowestUnmasked(c) == c.addr

(* ip & mask, and that | ~mask *)
Lowest(c) == c.addr - (c.addr % Hosts(c))
Highest(c) == Lowest(c) + Hosts(c) - 1

(* num_ips, a uint32_t *)
Size(c) == (Highest(c) - Lowest(c) + 1) % Space

(* Variant: a block of any size that parses. *)
UsableParsed(c) == Parses(c) /\ Size(c) > 2

(* ip_pool_init takes block c for the pool. *)
Usable(c) == Parses(c) /\ Size(c) > 2 /\ Size(c) <= MaxPool

(* An exclude that does not parse, or is empty, is the range 0 .. 0. *)
ExcludedBy(x) == IF Parses(x) THEN Lowest(x) .. Highest(x) ELSE {0}

(* The addresses that ip_pool_allocate may give from pool c without x. *)
Leases(c, x) == {Lowest(c) + i : i \in 1 .. Size(c) - 2} \ ExcludedBy(x)

=============================================================================
