---------------------------- MODULE MCLoginGuard ----------------------------
(* Two addresses, two request threads, a strict and a lax pair of limits.    *)
EXTENDS LoginGuard

CONSTANTS a, b, r1, r2

MCIPs == {a, b}
MCRequests == {r1, r2}
Strict == [attempts |-> 2, seconds |-> 4]
Lax == [attempts |-> 3, seconds |-> 1]
MCLimits == {Strict, Lax}
=============================================================================
