----------------------------- MODULE MCLimiter -----------------------------
(* Instances of Limiter for TLC. *)
EXTENDS Limiter, TLC

(* Connections, users and addresses are interchangeable. *)
LimiterSymmetry ==
    Permutations(Conns) \cup Permutations(Users) \cup Permutations(IPs)
=============================================================================
