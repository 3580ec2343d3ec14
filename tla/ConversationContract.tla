------------------------ MODULE ConversationContract ------------------------
(***************************************************************************)
(* What the operations on a conversation promise when each is seen as one  *)
(* step: who answers (the AI or a member of the staff) and how many        *)
(* messages are unread, each changed by the operations meant to change it  *)
(* and by no other.  A concrete handler that writes back columns it only   *)
(* read breaks it.                                                         *)
(***************************************************************************)
EXTENDS Naturals

CONSTANTS Staff, None

VARIABLES ai, assignee, unread

owner == <<ai, assignee>>

Init == ai = TRUE /\ assignee = None /\ unread = 0

Arrive == unread' = unread + 1 /\ UNCHANGED owner

Read == unread' = 0 /\ UNCHANGED owner

Handoff(user) == ai' = FALSE /\ assignee' = user /\ UNCHANGED unread

Resume == ai' = TRUE /\ assignee' = None /\ UNCHANGED unread

Escalate == ai' = FALSE /\ UNCHANGED <<assignee, unread>>

Next ==
  \/ Arrive
  \/ Read
  \/ \E user \in Staff : Handoff(user)
  \/ Resume
  \/ Escalate

Spec == Init /\ [][Next]_<<ai, assignee, unread>>
=============================================================================
