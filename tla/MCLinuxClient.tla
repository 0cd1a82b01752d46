---------------------------- MODULE MCLinuxClient ----------------------------
(* A small instance of LinuxClient for TLC. *)
EXTENDS LinuxProperties

CONSTANTS p1, p2, s1, s2

=============================================================================
