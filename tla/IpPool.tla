------------------------------- MODULE IpPool -------------------------------
(***************************************************************************)
(* The address pool of vpn-authd (server/src/ip_pool.c).  Addresses are    *)
(* named by their offset from pool_start, the index of their bit.  The     *)
(* bitmap is the set of the indices whose bit is set.  Each operator is    *)
(* what one call does between lock and unlock of pool_mutex.               *)
(***************************************************************************)
EXTENDS Naturals

CONSTANTS
    PoolSize,   \* num_ips, the number of addresses of the pool's CIDR block
    Excluded    \* indices whose address lies in exclude_start..exclude_end

(* ip_pool_init refuses a block of two addresses or fewer. *)
ASSUME PoolAssumption == /\ PoolSize \in Nat
                         /\ PoolSize > 2
                         /\ Excluded \subseteq 0 .. (PoolSize - 1)

Index == 0 .. (PoolSize - 1)

(* Variant: the broadcast address is one off. *)
ReservedPastEnd == {0, PoolSize}

(* The network and the broadcast address, marked used when the pool starts. *)
Reserved == {0, PoolSize - 1}

(* The indices that ip_pool_allocate scans. *)
Scanned == 1 .. (PoolSize - 2)

(* Variant: exclude is not looked at. *)
LeasableAll == Scanned

(* The addresses a client may be given: scanned and not excluded. *)
Leasable == Scanned \ Excluded

(* The leasable addresses whose bit is clear. *)
FreeIn(bitmap) == Leasable \ bitmap

(* i is the address the first-fit scan stops at. *)
FirstFree(bitmap, i) == /\ i \in FreeIn(bitmap)
                        /\ \A j \in FreeIn(bitmap) : i <= j

(* Bits after the scan returned i: its own, and those of the excluded      *)
(* addresses it passed on the way.                                         *)
MarkedUpTo(bitmap, i) ==
    bitmap \cup {i} \cup {j \in Scanned \cap Excluded : j < i}

(* Bits after a scan that found nothing: every excluded address was passed. *)
MarkedAll(bitmap) == bitmap \cup (Scanned \cap Excluded)

(* ip_pool_release clears the bit, whoever holds the address. *)
Released(bitmap, i) == bitmap \ {i}

=============================================================================
