--------------------------- MODULE MCReplyRoutes ---------------------------
(***************************************************************************)
(* Small instances of ReplyRoutes for TLC.                                 *)
(***************************************************************************)
EXTENDS ReplyRoutes, TLC

CONSTANTS a, m1, m2, q1

Interchangeable == Permutations({m1, m2})
=============================================================================
