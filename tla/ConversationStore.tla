------------------------- MODULE ConversationStore -------------------------
(***************************************************************************)
(* The tenant database, as far as one conversation between a channel and a *)
(* contact needs it, and the WhatsApp side of a send.  The webhook handler *)
(* (WebhookIngest), the staff inbox (StaffInbox) and the AI auto-reply job *)
(* (AutoReply) all read the conversation row into an entity object, work   *)
(* across awaits, and hand the object back to repository.save().           *)
(*                                                                         *)
(* save() of an entity that has an id is two statements without a lock:    *)
(* TypeORM selects the row again, compares it with the object column by    *)
(* column, and updates every column that differs (also one the handler     *)
(* never assigned).  DirtyColumns and Overwrite are those two halves; each *)
(* handler runs them as two steps.                                         *)
(***************************************************************************)
EXTENDS Naturals, Sequences, FiniteSets

CONSTANTS
  Inbounds,    \* messages the contact sends, by Meta message id
  StaffCalls,  \* state-changing inbox requests the staff make
  Staff,       \* users who can take a conversation over
  None,        \* SQL NULL
  KnownContact,\* whether contact and conversation rows exist at the start
  FaultKinds,  \* which faults happen: "db", "crash", "send", "llm"
  MaxFaults    \* bound on how many of them do

ASSUME StoreAssumption ==
  /\ IsFiniteSet(Inbounds)
  /\ Inbounds \cap StaffCalls = {}
  /\ None \notin Staff \cup Inbounds
  /\ KnownContact \in BOOLEAN
  /\ MaxFaults \in Nat

VARIABLES
  rows,      \* which of the two rows exist: "contact", "conversation"
  convo,     \* the columns of the conversation row
  message,   \* the message table in created_at order
  accepted,  \* texts WhatsApp accepted for the contact, per originator
  faults     \* faults so far

storeVars == <<rows, convo, message, accepted, faults>>

Originators == Inbounds \cup StaffCalls

(* aiPausedAt and handoffReason are written together with ai and assignee  *)
(* and carry no decision; status only ever becomes 'open'.                 *)
Columns == {"ai", "assignee", "unread", "last"}

Row == [ai : BOOLEAN,                \* ai_handled
        assignee : Staff \cup {None},\* assigned_to_user_id / _name
        unread : Nat,                \* unread_count
        last : Nat]                  \* last_message_at: position in message

FreshRow == [ai |-> TRUE, assignee |-> None, unread |-> 0, last |-> 0]

(* "in": from the contact; "out": sent through WhatsApp; "note": a system  *)
(* row of the inbox that WhatsApp never sees.                              *)
MessageRow == [kind : {"in", "out", "note"}, of : Originators]

-----------------------------------------------------------------------------
(* Conversation row *)

DirtyColumns(ent) == {c \in Columns : ent[c] # convo[c]}

Overwrite(ent, dirty) ==
  convo' = [ai       |-> IF "ai" \in dirty THEN ent.ai ELSE convo.ai,
            assignee |-> IF "assignee" \in dirty THEN ent.assignee
                                                 ELSE convo.assignee,
            unread   |-> IF "unread" \in dirty THEN ent.unread
                                               ELSE convo.unread,
            last     |-> IF "last" \in dirty THEN ent.last ELSE convo.last]

(* First half of save(h.ent) by the handler whose record is h.             *)
SelectForSave(h) ==
  [h EXCEPT !.pc = "update", !.dirty = DirtyColumns(h.ent)]

-----------------------------------------------------------------------------
(* Message table *)

InsertMessage(kind, x) ==
  message' = Append(message, [kind |-> kind, of |-> x])

(* Where the row just inserted will be: the createdAt a handler copies.    *)
CreatedAt == Len(message) + 1

StoredInbound ==
  {m \in Inbounds : \E i \in DOMAIN message :
                       message[i] = [kind |-> "in", of |-> m]}

OutRows(x) ==
  {i \in DOMAIN message : message[i] = [kind |-> "out", of |-> x]}

-----------------------------------------------------------------------------
(* Faults, and MetaCloudProvider.sendText *)

Fault(kind) ==
  /\ kind \in FaultKinds
  /\ faults < MaxFaults
  /\ faults' = faults + 1

SendReturns(x) ==
  /\ accepted' = [accepted EXCEPT ![x] = @ + 1]
  /\ UNCHANGED faults

(* Rejected before delivery, or accepted but the answer is lost: timeout,  *)
(* connection reset, or a 2xx body without a message id.                   *)
SendThrows(x) ==
  /\ Fault("send")
  /\ \/ UNCHANGED accepted
     \/ accepted' = [accepted EXCEPT ![x] = @ + 1]

-----------------------------------------------------------------------------
StoreInit ==
  /\ rows = IF KnownContact THEN {"contact", "conversation"} ELSE {}
  /\ convo = FreshRow
  /\ message = <<>>
  /\ accepted = [x \in Originators |-> 0]
  /\ faults = 0

StoreTypeOK ==
  /\ rows \subseteq {"contact", "conversation"}
  /\ convo \in Row
  /\ message \in Seq(MessageRow)
  /\ accepted \in [Originators -> Nat]
  /\ faults \in Nat
=============================================================================
