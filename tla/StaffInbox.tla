----------------------------- MODULE StaffInbox -----------------------------
(***************************************************************************)
(* InboxService: the four inbox requests that change a conversation, each  *)
(* StaffCalls element being one HTTP request that is made at most once.    *)
(* Every one of them reads the row, changes its entity, and saves it.      *)
(***************************************************************************)
EXTENDS ConversationStore

CONSTANT StaffOps   \* the requests made: subset of the four below

ASSUME InboxAssumption ==
  StaffOps \subseteq {"markAsRead", "handoffToHuman", "resumeAi",
                      "sendHumanMessage"}

VARIABLE call

CallSteps == {"ready", "send", "record", "select", "update", "note", "done"}

Call == [pc : CallSteps, op : StaffOps \cup {None}, ent : Row,
         dirty : SUBSET Columns]

NoCall == [pc |-> "ready", op |-> None, ent |-> FreshRow, dirty |-> {}]

CallInit == call = [c \in StaffCalls |-> NoCall]

CallTypeOK == call \in [StaffCalls -> Call]

-----------------------------------------------------------------------------
CallAt(c, step) == call[c].pc = step
CallGoTo(c, step) == call' = [call EXCEPT ![c].pc = step]
Finish(c) == call' = [call EXCEPT ![c] = [NoCall EXCEPT !.pc = "done",
                                                        !.op = call[c].op]]

(* findOne, the assignments to the entity, then on to the save.            *)
BeginSave(c, op, ent) ==
  /\ CallAt(c, "ready")
  /\ op \in StaffOps
  /\ "conversation" \in rows
  /\ call' = [call EXCEPT ![c] = [pc |-> "select", op |-> op, ent |-> ent,
                                  dirty |-> {}]]
  /\ UNCHANGED storeVars

MarkAsRead(c) == BeginSave(c, "markAsRead", [convo EXCEPT !.unread = 0])

HandoffToHuman(c, user) ==
  BeginSave(c, "handoffToHuman",
            [convo EXCEPT !.ai = FALSE, !.assignee = user])

ResumeAi(c) ==
  BeginSave(c, "resumeAi", [convo EXCEPT !.ai = TRUE, !.assignee = None])

(* The row is read before the text goes out; a missing or disconnected     *)
(* channel ends the request with a 4xx (RejectHumanMessage).               *)
SendHumanMessage(c) ==
  /\ CallAt(c, "ready")
  /\ "sendHumanMessage" \in StaffOps
  /\ "conversation" \in rows
  /\ call' = [call EXCEPT ![c] = [pc |-> "send", op |-> "sendHumanMessage",
                                  ent |-> convo, dirty |-> {}]]
  /\ UNCHANGED storeVars

RejectHumanMessage(c) ==
  /\ CallAt(c, "send")
  /\ Finish(c)
  /\ UNCHANGED storeVars

SendHumanText(c) ==
  /\ CallAt(c, "send")
  /\ \/ SendReturns(c) /\ CallGoTo(c, "record")
     \/ SendThrows(c) /\ Finish(c)
  /\ UNCHANGED <<rows, convo, message>>

RecordHumanText(c) ==
  /\ CallAt(c, "record")
  /\ InsertMessage("out", c)
  /\ call' = [call EXCEPT ![c].pc = "select", ![c].ent.last = CreatedAt]
  /\ UNCHANGED <<rows, convo, accepted, faults>>

SelectConversation(c) ==
  /\ CallAt(c, "select")
  /\ call' = [call EXCEPT ![c] = SelectForSave(@)]
  /\ UNCHANGED storeVars

UpdateConversation(c) ==
  /\ CallAt(c, "update")
  /\ Overwrite(call[c].ent, call[c].dirty)
  /\ IF call[c].op \in {"handoffToHuman", "resumeAi"} THEN CallGoTo(c, "note")
                                                      ELSE Finish(c)
  /\ UNCHANGED <<rows, message, accepted, faults>>

(* The system row that tells the inbox about the takeover or the resume.   *)
WriteNote(c) ==
  /\ CallAt(c, "note")
  /\ InsertMessage("note", c)
  /\ Finish(c)
  /\ UNCHANGED <<rows, convo, accepted, faults>>

(* A rejected await answers 500 and leaves what was already written.       *)
CallThrows(c) ==
  /\ call[c].pc \in {"send", "record", "select", "update", "note"}
  /\ Fault("db")
  /\ Finish(c)
  /\ UNCHANGED <<rows, convo, message, accepted>>

-----------------------------------------------------------------------------
StartCall(c) ==
  \/ MarkAsRead(c)
  \/ \E user \in Staff : HandoffToHuman(c, user)
  \/ ResumeAi(c)
  \/ SendHumanMessage(c)

CallStep(c) ==
  \/ RejectHumanMessage(c)
  \/ SendHumanText(c)
  \/ RecordHumanText(c)
  \/ SelectConversation(c)
  \/ UpdateConversation(c)
  \/ WriteNote(c)
=============================================================================
