----------------------------- MODULE MCSessions -----------------------------
(***************************************************************************)
(* Small instances of Sessions for TLC.  The clock runs past a session TTL *)
(* and, after a later login, past a token's: keys, the set and tokens      *)
(* expire in every order.                                                  *)
(***************************************************************************)
EXTENDS Sessions, TLC

CONSTANTS s1, s2, r1, r2, d1, d2

Interchangeable == Permutations({s1, s2}) \cup Permutations({r1, r2}) \cup Permutations({d1, d2})
=============================================================================
