---------------------------- MODULE InboundOnce ----------------------------
(***************************************************************************)
(* What ingestion promises about the messages of a contact, however often, *)
(* in whatever order and how concurrently Meta delivers them: a message    *)
(* has at most one row, no row disappears or changes, and a message gets   *)
(* at most one auto-reply job, only after it is stored.                    *)
(***************************************************************************)
CONSTANT Inbounds

VARIABLES
  stored,   \* the inbound rows of the message table: [id, msg]
  enqueued  \* messages that have a job

Init == stored = {} /\ enqueued = {}

Stored(m) == \E row \in stored : row.msg = m

Store(m) ==
  /\ ~Stored(m)
  /\ \E row \in stored' : row.msg = m /\ stored' = stored \cup {row}
  /\ UNCHANGED enqueued

Enqueue(m) ==
  /\ Stored(m) /\ m \notin enqueued
  /\ enqueued' = enqueued \cup {m}
  /\ UNCHANGED stored

Next == \E m \in Inbounds : Store(m) \/ Enqueue(m)

Spec == Init /\ [][Next]_<<stored, enqueued>>
=============================================================================
