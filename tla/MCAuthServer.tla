---------------------------- MODULE MCAuthServer ----------------------------
(* Small instances of AuthServer for TLC. *)
EXTENDS AuthProperties, TLC

CONSTANTS k1, k2, k3, s1

(* The first and last addresses are reserved, 1 is excluded in every       *)
(* instance, and the static device has it.                                 *)
MCStaticAddr == [s \in Static |-> 1]

(* Session keys are interchangeable. *)
KeySymmetry == Permutations(Key)

=============================================================================
