--------------------------- MODULE MCConversation ---------------------------
(***************************************************************************)
(* Small instances of Conversation for TLC.  MaxAttempts is 2 where the    *)
(* code has 4: one retry and the fallback are enough for every order of a  *)
(* failure, a retry and an exhausted job.                                  *)
(***************************************************************************)
EXTENDS Conversation, TLC

CONSTANTS m1, m2, c1, c2, r1, r2, u1

(* Messages are interchangeable where all are texts, webhook slots always. *)
Interchangeable == Permutations({m1, m2}) \cup Permutations({r1, r2})
=============================================================================
