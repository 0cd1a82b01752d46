--------------------------- MODULE MCWindowsClient ---------------------------
(* A small instance of the Windows client for TLC. *)
EXTENDS WindowsProperties

CONSTANTS t1, t2

=============================================================================
