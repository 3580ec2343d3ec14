------------------------- MODULE ConversationProofs -------------------------
(***************************************************************************)
(* Conversation, for every set of messages, requests, staff calls and      *)
(* users, every bound, every interleaving and every choice of faults: its  *)
(* types, the unread count, what jobs may send, what the inbox shows as    *)
(* sent, that ingestion and queueing implement InboundOnce, and that       *)
(* handlers that do not overlap implement ConversationContract.            *)
(***************************************************************************)
EXTENDS Conversation, FiniteSetTheorems, TLAPS

(***************************************************************************)
(* Type correctness                                                        *)
(***************************************************************************)

(* The store *)

LEMMA FreshRowType == FreshRow \in Row
BY DEF FreshRow, Row

LEMMA DirtyType == ASSUME NEW ent PROVE DirtyColumns(ent) \in SUBSET Columns
BY DEF DirtyColumns

(* The second half of a save leaves a row.                                 *)
LEMMA OverwriteType ==
  ASSUME convo \in Row, NEW ent \in Row, NEW dirty, Overwrite(ent, dirty)
  PROVE  convo' \in Row
BY DEF Row, Overwrite

LEMMA CreatedAtType == ASSUME message \in Seq(MessageRow) PROVE CreatedAt \in Nat
BY DEF CreatedAt

(* The assignments the handlers make to an entity.                         *)
LEMMA EntityTypes ==
  ASSUME NEW ent \in Row, NEW n \in Nat, NEW k \in Nat
  PROVE  /\ [ent EXCEPT !.unread = k, !.last = n] \in Row
         /\ [ent EXCEPT !.unread = 0] \in Row
         /\ [ent EXCEPT !.last = n] \in Row
         /\ [ent EXCEPT !.ai = FALSE] \in Row
         /\ [ent EXCEPT !.ai = TRUE, !.assignee = None] \in Row
         /\ \A user \in Staff :
               [ent EXCEPT !.ai = FALSE, !.assignee = user] \in Row
BY DEF Row

LEMMA AppendType ==
  ASSUME message \in Seq(MessageRow), NEW kind \in {"in", "out", "note"},
         NEW x \in Originators, InsertMessage(kind, x)
  PROVE  message' \in Seq(MessageRow)
BY DEF InsertMessage, MessageRow

LEMMA FaultType == ASSUME faults \in Nat, NEW kind, Fault(kind)
                   PROVE  faults' \in Nat
BY DEF Fault

-----------------------------------------------------------------------------
(* Type correctness, one lemma per part of the next-state relation.        *)

LEMMA TypeInit == Init => TypeOK
<1> SUFFICES ASSUME Init PROVE TypeOK
  OBVIOUS
<1> USE FreshRowType, StoreAssumption
<1>1. StoreTypeOK
  BY DEF Init, StoreInit, StoreTypeOK, MessageRow
<1>2. QueueTypeOK
  BY DEF Init, QueueInit, QueueTypeOK, Job, JobStates
<1>3. HookTypeOK
  BY DEF Init, HookInit, HookTypeOK, Hook, NoHook, IngestSteps
<1>4. CallTypeOK
  BY DEF Init, CallInit, CallTypeOK, Call, NoCall, CallSteps
<1>5. ReplyTypeOK
  BY DEF Init, ReplyInit, ReplyTypeOK, Attempt, NoAttempt, ReplySteps,
         ReplyPlans
<1> QED BY <1>1, <1>2, <1>3, <1>4, <1>5 DEF TypeOK

LEMMA TypeHook ==
  ASSUME TypeOK, HookNext PROVE TypeOK'
<1>1. PICK r \in Requests :
        \/ \E m \in Inbounds : ReceiveMetaWebhook(r, m)
        \/ HookStep(r)
        \/ IngestThrows(r)
  BY DEF HookNext
<1> DEFINE h == hook[r]
<1>2. CallTypeOK' /\ ReplyTypeOK'
  BY DEF HookNext, CallTypeOK, ReplyTypeOK, TypeOK
<1>3. /\ h \in Hook /\ h.ent \in Row /\ h.dirty \in SUBSET Columns
      /\ ~At(r, "idle") => h.msg \in Inbounds
  BY DEF Hook, At, TypeOK, HookTypeOK
<1>4. SUFFICES StoreTypeOK' /\ QueueTypeOK' /\ HookTypeOK'
  BY <1>2 DEF TypeOK
<1> USE DEF TypeOK
<1>a. ASSUME Acknowledge(r), ~At(r, "idle") PROVE HookTypeOK'
  BY <1>3, <1>a, FreshRowType DEF HookTypeOK, Acknowledge, NoHook, Hook, IngestSteps
<1>b. ASSUME NEW step \in IngestSteps, GoTo(r, step), ~At(r, "idle")
      PROVE  HookTypeOK'
  BY <1>3, <1>b DEF HookTypeOK, GoTo, Hook, At
<1>c. ASSUME NEW ent \in Row, NEW step \in IngestSteps, Hold(r, ent, step),
             ~At(r, "idle")
      PROVE  HookTypeOK'
  BY <1>3, <1>c DEF HookTypeOK, Hold, Hook, At
<1> USE DEF IngestSteps
<1>5. ASSUME NEW m \in Inbounds, ReceiveMetaWebhook(r, m)
      PROVE  StoreTypeOK' /\ QueueTypeOK' /\ HookTypeOK'
  BY <1>3, <1>5 DEF ReceiveMetaWebhook, Hook, storeVars, StoreTypeOK,
     QueueTypeOK, HookTypeOK
<1>6. CASE FindExisting(r)
  BY <1>a, <1>b, <1>6 DEF FindExisting, storeVars, StoreTypeOK, QueueTypeOK, At
<1>7. CASE FindContact(r)
  BY <1>b, <1>7 DEF FindContact, storeVars, StoreTypeOK, QueueTypeOK, At
<1>8. CASE InsertContact(r)
  BY <1>a, <1>b, <1>8 DEF InsertContact, StoreTypeOK, QueueTypeOK, At
<1>9. CASE FindConversation(r)
  BY <1>b, <1>c, <1>9 DEF FindConversation, storeVars, StoreTypeOK, QueueTypeOK, At
<1>10. CASE InsertConversation(r)
  BY <1>a, <1>c, <1>10, FreshRowType DEF InsertConversation, StoreTypeOK,
     QueueTypeOK, At
<1>11. CASE InsertInbound(r)
  <2>1. CASE h.msg \in StoredInbound
    BY <1>a, <1>11, <2>1 DEF InsertInbound, StoreTypeOK, QueueTypeOK, At
  <2>2. CASE h.msg \notin StoredInbound
    <3>1. [h.ent EXCEPT !.unread = @ + 1, !.last = CreatedAt] \in Row
      <4>1. h.ent.unread + 1 \in Nat
        BY <1>3 DEF Row
      <4> QED BY <1>3, <4>1, CreatedAtType, EntityTypes DEF StoreTypeOK
    <3>2. HookTypeOK'
      BY <1>11, <2>2, <3>1, <1>c DEF InsertInbound, At
    <3>3. message' \in Seq(MessageRow)
      BY <1>3, <1>11, <2>2, AppendType DEF InsertInbound, At, Originators, StoreTypeOK
    <3> QED BY <1>11, <3>2, <3>3 DEF InsertInbound, StoreTypeOK, QueueTypeOK
  <2> QED BY <2>1, <2>2
<1>12. CASE SelectCounters(r)
  BY <1>3, <1>12, DirtyType DEF SelectCounters, SelectForSave, Hook, storeVars,
     StoreTypeOK, QueueTypeOK, HookTypeOK, At
<1>13. CASE UpdateCounters(r)
  <2>1. convo' \in Row
    BY <1>3, <1>13, OverwriteType DEF UpdateCounters, StoreTypeOK
  <2> QED BY <1>b, <1>13, <2>1 DEF UpdateCounters, StoreTypeOK, QueueTypeOK, At
<1>14. CASE CaptureLead(r)
  BY <1>b, <1>14 DEF CaptureLead, storeVars, StoreTypeOK, QueueTypeOK, At
<1>15. CASE EnqueueReply(r)
  BY <1>a, <1>3, <1>15 DEF EnqueueReply, EnqueueAutoReply, SetJob, storeVars,
     StoreTypeOK, QueueTypeOK, Job, JobStates, At
<1>16. CASE IngestThrows(r)
  BY <1>a, <1>16, FaultType DEF IngestThrows, StoreTypeOK, QueueTypeOK
<1> QED
  BY <1>1, <1>5, <1>6, <1>7, <1>8, <1>9, <1>10, <1>11, <1>12, <1>13, <1>14,
     <1>15, <1>16 DEF HookStep

LEMMA TypeCall ==
  ASSUME TypeOK, CallNext PROVE TypeOK'
<1>1. PICK c \in StaffCalls : StartCall(c) \/ CallStep(c) \/ CallThrows(c)
  BY DEF CallNext
<1> DEFINE h == call[c]
<1>2. QueueTypeOK' /\ HookTypeOK' /\ ReplyTypeOK'
  BY DEF CallNext, QueueTypeOK, HookTypeOK, ReplyTypeOK, TypeOK
<1>3. SUFFICES StoreTypeOK' /\ CallTypeOK'
  BY <1>2 DEF TypeOK
<1>4. /\ h \in Call /\ h.ent \in Row /\ h.dirty \in SUBSET Columns
      /\ call \in [StaffCalls -> Call] /\ StoreTypeOK
  BY DEF Call, TypeOK, CallTypeOK
<1>5. c \in Originators
  BY DEF Originators
<1>a. ASSUME Finish(c) PROVE CallTypeOK'
  BY <1>4, <1>a, FreshRowType DEF CallTypeOK, Finish, NoCall, Call, CallSteps
<1>b. ASSUME NEW step \in CallSteps, CallGoTo(c, step) PROVE CallTypeOK'
  BY <1>4, <1>b DEF CallTypeOK, CallGoTo, Call
<1>c. ASSUME NEW op, NEW ent \in Row, BeginSave(c, op, ent)
      PROVE  StoreTypeOK' /\ CallTypeOK'
  BY <1>4, <1>c DEF BeginSave, storeVars, StoreTypeOK, CallTypeOK, Call, CallSteps
<1>6. CASE StartCall(c)
  <2>1. convo \in Row
    BY <1>4 DEF StoreTypeOK
  <2>2. CASE MarkAsRead(c)
    BY <1>c, <2>1, <2>2, EntityTypes DEF MarkAsRead
  <2>3. ASSUME NEW user \in Staff, HandoffToHuman(c, user)
        PROVE  StoreTypeOK' /\ CallTypeOK'
    BY <1>c, <2>1, <2>3, EntityTypes DEF HandoffToHuman
  <2>4. CASE ResumeAi(c)
    BY <1>c, <2>1, <2>4, EntityTypes DEF ResumeAi
  <2>5. CASE SendHumanMessage(c)
    BY <1>4, <2>1, <2>5 DEF SendHumanMessage, storeVars, StoreTypeOK, CallTypeOK,
       Call, CallSteps
  <2> QED BY <1>6, <2>2, <2>3, <2>4, <2>5 DEF StartCall
<1>7. CASE RejectHumanMessage(c)
  BY <1>a, <1>4, <1>7 DEF RejectHumanMessage, storeVars, StoreTypeOK
<1>8. CASE SendHumanText(c)
  BY <1>a, <1>b, <1>4, <1>5, <1>8, FaultType DEF SendHumanText, SendReturns,
     SendThrows, CallSteps, StoreTypeOK
<1>9. CASE RecordHumanText(c)
  <2>1. message' \in Seq(MessageRow)
    BY <1>4, <1>5, <1>9, AppendType DEF RecordHumanText, StoreTypeOK
  <2>2. [h.ent EXCEPT !.last = CreatedAt] \in Row
    BY <1>4, CreatedAtType, EntityTypes DEF StoreTypeOK
  <2> QED BY <1>4, <1>9, <2>1, <2>2 DEF RecordHumanText, StoreTypeOK,
             CallTypeOK, Call, CallSteps
<1>10. CASE SelectConversation(c)
  BY <1>4, <1>10, DirtyType DEF SelectConversation, SelectForSave, storeVars,
     StoreTypeOK, CallTypeOK, Call, CallSteps
<1>11. CASE UpdateConversation(c)
  <2>1. convo' \in Row
    BY <1>4, <1>11, OverwriteType DEF UpdateConversation, StoreTypeOK
  <2> QED BY <1>a, <1>b, <1>4, <1>11, <2>1 DEF UpdateConversation, StoreTypeOK,
             CallSteps
<1>12. CASE WriteNote(c)
  <2>1. message' \in Seq(MessageRow)
    BY <1>4, <1>5, <1>12, AppendType DEF WriteNote, StoreTypeOK
  <2> QED BY <1>a, <1>4, <1>12, <2>1 DEF WriteNote, StoreTypeOK
<1>13. CASE CallThrows(c)
  BY <1>a, <1>4, <1>13, FaultType DEF CallThrows, StoreTypeOK
<1> QED
  BY <1>1, <1>6, <1>7, <1>8, <1>9, <1>10, <1>11, <1>12, <1>13 DEF CallStep

LEMMA TypeReply ==
  ASSUME TypeOK, ReplyNext PROVE TypeOK'
<1>1. PICK m \in Inbounds :
        \/ ProcessAutoReply(m) \/ FallbackAutoReply(m)
        \/ ReplyStep(m) \/ GenerateReplyThrows(m) \/ ReplyThrows(m)
  BY DEF ReplyNext
<1> DEFINE h == attempt[m]
<1>2. HookTypeOK' /\ CallTypeOK'
  BY DEF ReplyNext, HookTypeOK, CallTypeOK, TypeOK
<1>3. SUFFICES StoreTypeOK' /\ QueueTypeOK' /\ ReplyTypeOK'
  BY <1>2 DEF TypeOK
<1>4. /\ h \in Attempt /\ h.ent \in Row /\ h.dirty \in SUBSET Columns
      /\ attempt \in [Inbounds -> Attempt] /\ StoreTypeOK /\ QueueTypeOK
      /\ queue \in [Inbounds -> Job] /\ convo \in Row
  BY DEF Attempt, TypeOK, ReplyTypeOK, QueueTypeOK, StoreTypeOK
<1>5. m \in Originators
  BY DEF Originators
<1>a. ASSUME LeaveApi(m) PROVE ReplyTypeOK'
  BY <1>4, <1>a, FreshRowType DEF ReplyTypeOK, LeaveApi, NoAttempt, Attempt,
     ReplySteps, ReplyPlans
<1>b. ASSUME NEW s \in JobStates, SetJob(m, s) PROVE QueueTypeOK'
  BY <1>4, <1>b DEF QueueTypeOK, SetJob, Job
<1>c. ASSUME NEW step \in ReplySteps, ReplyGoTo(m, step) PROVE ReplyTypeOK'
  BY <1>4, <1>c DEF ReplyTypeOK, ReplyGoTo, Attempt
<1>d. ASSUME Return(m) PROVE QueueTypeOK' /\ ReplyTypeOK'
  BY <1>a, <1>b, <1>d DEF Return, JobStates
<1>e. ASSUME Throw(m) PROVE QueueTypeOK' /\ ReplyTypeOK'
  <2>1. CASE queue[m].state = "fallback"
    BY <1>a, <1>b, <1>e, <2>1 DEF Throw, JobStates
  <2>2. CASE queue[m].state # "fallback"
    <3>1. FailAttempt(m) /\ queue[m].failures + 1 \in Nat
      BY <1>e, <1>4, <2>2 DEF Throw, Job
    <3>2. QueueTypeOK'
      BY <1>4, <3>1 DEF FailAttempt, QueueTypeOK, Job, JobStates
    <3> QED BY <1>a, <1>e, <3>2 DEF Throw
  <2> QED BY <2>1, <2>2
<1>f. ASSUME UNCHANGED storeVars PROVE StoreTypeOK'
  BY <1>4, <1>f DEF storeVars, StoreTypeOK
<1>6. CASE ProcessAutoReply(m)
  BY <1>b, <1>c, <1>f, <1>6 DEF ProcessAutoReply, JobStates, ReplySteps
<1>7. CASE FallbackAutoReply(m)
  <2>1. ReplyTypeOK'
    BY <1>4, <1>7 DEF FallbackAutoReply, ReplyTypeOK, Attempt, ReplySteps, ReplyPlans
  <2> QED BY <1>b, <1>f, <1>7, <2>1 DEF FallbackAutoReply, JobStates
<1>8. CASE LoadConversation(m)
  <2>1. CASE UNCHANGED queue
    <3>1. ASSUME attempt' = [attempt EXCEPT ![m].pc = "route", ![m].ent = convo]
          PROVE  ReplyTypeOK'
      <4>1. [h EXCEPT !.pc = "route", !.ent = convo] \in Attempt
        BY <1>4 DEF Attempt, ReplySteps
      <4> QED BY <1>4, <3>1, <4>1 DEF ReplyTypeOK
    <3> QED BY <1>d, <1>e, <1>f, <1>4, <1>8, <2>1, <3>1 DEF LoadConversation, QueueTypeOK
  <2>2. CASE Return(m) \/ Throw(m)
    BY <1>d, <1>e, <1>f, <1>8, <2>2 DEF LoadConversation
  <2> QED BY <1>8, <2>1, <2>2 DEF LoadConversation
<1>9. CASE SkipReply(m)
  BY <1>d, <1>f, <1>9 DEF SkipReply
<1>10. CASE ChooseReply(m)
  <2>1. PICK plan \in {"reply", "escalate"} :
          attempt' = [attempt EXCEPT ![m].pc = "send", ![m].plan = plan]
    BY <1>10 DEF ChooseReply
  <2>2. [h EXCEPT !.pc = "send", !.plan = plan] \in Attempt
    BY <1>4 DEF Attempt, ReplySteps, ReplyPlans
  <2> QED BY <1>4, <1>f, <1>10, <2>1, <2>2 DEF ChooseReply, QueueTypeOK,
             ReplyTypeOK
<1>11. CASE GenerateReplyThrows(m)
  BY <1>e, <1>4, <1>11, FaultType DEF GenerateReplyThrows, StoreTypeOK
<1>12. CASE SkipFallback(m)
  BY <1>d, <1>f, <1>12 DEF SkipFallback
<1>13. CASE SendAiText(m)
  <2>1. StoreTypeOK'
    BY <1>4, <1>5, <1>13, FaultType DEF SendAiText, SendReturns, SendThrows, StoreTypeOK
  <2> QED BY <1>c, <1>e, <1>4, <1>13, <2>1 DEF SendAiText, ReplySteps, QueueTypeOK
<1>14. CASE RecordAiText(m)
  <2>1. message' \in Seq(MessageRow)
    BY <1>4, <1>5, <1>14, AppendType DEF RecordAiText, StoreTypeOK
  <2>2. [h.ent EXCEPT !.last = CreatedAt] \in Row
    BY <1>4, CreatedAtType, EntityTypes DEF StoreTypeOK
  <2> QED BY <1>4, <1>14, <2>1, <2>2 DEF RecordAiText, StoreTypeOK, QueueTypeOK,
             ReplyTypeOK, Attempt, ReplySteps
<1>15. CASE SelectForReply(m)
  BY <1>4, <1>f, <1>15, DirtyType DEF SelectForReply, SelectForSave, QueueTypeOK,
     ReplyTypeOK, Attempt, ReplySteps
<1>16. CASE UpdateForReply(m)
  <2>1. StoreTypeOK'
    BY <1>4, <1>16, OverwriteType DEF UpdateForReply, StoreTypeOK
  <2>2. CASE h.plan = "escalate"
    <3>1. [h.ent EXCEPT !.ai = FALSE] \in Row
      BY <1>4, EntityTypes
    <3> QED BY <1>4, <1>16, <2>1, <2>2, <3>1 DEF UpdateForReply, QueueTypeOK,
               ReplyTypeOK, Attempt, ReplySteps, ReplyPlans
  <2>3. CASE h.plan # "escalate"
    BY <1>d, <1>16, <2>1, <2>3 DEF UpdateForReply
  <2> QED BY <2>2, <2>3
<1>17. CASE ReplyThrows(m)
  BY <1>e, <1>4, <1>17, FaultType DEF ReplyThrows, StoreTypeOK
<1> QED
  BY <1>1, <1>6, <1>7, <1>8, <1>9, <1>10, <1>11, <1>12, <1>13, <1>14, <1>15,
     <1>16, <1>17 DEF ReplyStep

LEMMA TypeCrash ==
  ASSUME TypeOK, Crash PROVE TypeOK'
<1> USE FreshRowType DEF TypeOK
<1>1. StoreTypeOK'
  BY FaultType DEF Crash, StoreTypeOK
<1>2. QueueTypeOK'
  <2>1. \A m \in Inbounds : queue[m].failures + 1 \in Nat /\ queue[m] \in Job
    BY DEF QueueTypeOK, Job
  <2>2. \A m \in Inbounds : queue'[m] \in Job
    BY <2>1 DEF Crash, Job, JobStates
  <2> QED BY <2>2 DEF Crash, QueueTypeOK
<1>3. HookTypeOK'
  BY DEF Crash, HookTypeOK, Hook, NoHook, IngestSteps
<1>4. CallTypeOK'
  BY DEF Crash, CallTypeOK, Call, NoCall, CallSteps
<1>5. ReplyTypeOK'
  BY DEF Crash, ReplyTypeOK, Attempt, NoAttempt, ReplySteps, ReplyPlans
<1> QED BY <1>1, <1>2, <1>3, <1>4, <1>5

(* No step takes a fault back.                                             *)
LEMMA FaultsGrow ==
  ASSUME TypeOK, Next PROVE faults' \in Nat /\ faults <= faults'
<1>1. faults \in Nat
  BY DEF TypeOK, StoreTypeOK
<1>2. (\E kind : Fault(kind)) \/ UNCHANGED faults
  BY DEF Next, HookNext, HookStep, CallNext, StartCall, CallStep, ReplyNext,
     ReplyStep, Crash, storeVars, ReceiveMetaWebhook, FindExisting, FindContact,
     InsertContact, FindConversation, InsertConversation, InsertInbound,
     SelectCounters, UpdateCounters, CaptureLead, EnqueueReply, IngestThrows,
     BeginSave, MarkAsRead, HandoffToHuman, ResumeAi, SendHumanMessage,
     RejectHumanMessage, SendHumanText, RecordHumanText, SelectConversation,
     UpdateConversation, WriteNote, CallThrows, SendReturns, SendThrows,
     ProcessAutoReply, FallbackAutoReply, LoadConversation, SkipReply,
     ChooseReply, GenerateReplyThrows, SkipFallback, SendAiText, RecordAiText,
     SelectForReply, UpdateForReply, ReplyThrows
<1> QED BY <1>1, <1>2 DEF Fault

LEMMA TypeNext == TypeOK /\ [Next]_vars => TypeOK'
<1> SUFFICES ASSUME TypeOK, [Next]_vars PROVE TypeOK'
  OBVIOUS
<1>1. CASE UNCHANGED vars
  BY <1>1 DEF vars, storeVars, TypeOK, StoreTypeOK, QueueTypeOK, HookTypeOK,
     CallTypeOK, ReplyTypeOK
<1> QED BY <1>1, TypeHook, TypeCall, TypeReply, TypeCrash DEF Next

(* Every variable keeps its type.                                          *)
THEOREM TypeCorrect == Spec => []TypeOK
<1> QED BY TypeInit, TypeNext, PTL DEF Spec

(***************************************************************************)
(* The unread count                                                        *)
(***************************************************************************)

(* How an insert changes the sets counted below.                           *)

LEMMA StoredAfterInsert ==
  ASSUME message \in Seq(MessageRow), NEW kind \in {"in", "out", "note"},
         NEW x \in Originators, InsertMessage(kind, x)
  PROVE  StoredInbound' = IF kind = "in" THEN StoredInbound \cup ({x} \cap Inbounds)
                                         ELSE StoredInbound
<1> DEFINE n == Len(message) + 1
<1>1. /\ DOMAIN message = 1..Len(message) /\ DOMAIN message' = 1..n
      /\ Len(message) \in Nat
      /\ message'[n] = [kind |-> kind, of |-> x]
      /\ \A i \in DOMAIN message : message'[i] = message[i]
  BY DEF InsertMessage
<1>2. DOMAIN message' = DOMAIN message \cup {n} /\ n \notin DOMAIN message
  BY <1>1
<1>3. ASSUME NEW m \in Inbounds
      PROVE  m \in StoredInbound' <=> m \in StoredInbound \/ (kind = "in" /\ x = m)
  <2>1. message'[n] = [kind |-> "in", of |-> m] <=> kind = "in" /\ x = m
    BY <1>1
  <2> QED BY <1>1, <1>2, <2>1 DEF StoredInbound
<1> QED BY <1>3 DEF StoredInbound

LEMMA StoredFinite == IsFiniteSet(StoredInbound) /\ Cardinality(StoredInbound) \in Nat
<1>1. StoredInbound \subseteq Inbounds
  BY DEF StoredInbound
<1> QED BY <1>1, StoreAssumption, FS_Subset, FS_CardinalityType

LEMMA StoredSame == ASSUME message' = message PROVE StoredInbound' = StoredInbound
BY DEF StoredInbound

-----------------------------------------------------------------------------
(* UnreadNeverOvercounts is inductive once it also speaks of the entities  *)
(* that handlers will write back.                                          *)
UnreadInv ==
  /\ UnreadNeverOvercounts
  /\ \A r \in Requests : hook[r].ent.unread <= Cardinality(StoredInbound)
  /\ \A c \in StaffCalls : call[c].ent.unread <= Cardinality(StoredInbound)
  /\ \A m \in Inbounds : attempt[m].ent.unread <= Cardinality(StoredInbound)

LEMMA UnreadInit == Init => UnreadInv
<1> SUFFICES ASSUME Init PROVE UnreadInv
  OBVIOUS
<1>1. 0 <= Cardinality(StoredInbound)
  BY StoredFinite
<1> QED BY <1>1 DEF Init, StoreInit, HookInit, CallInit, ReplyInit, NoHook,
        NoCall, NoAttempt, FreshRow, UnreadInv, UnreadNeverOvercounts

(* The column an update leaves is the old one or the entity's.             *)
LEMMA OverwriteUnread ==
  ASSUME NEW ent, NEW dirty, Overwrite(ent, dirty)
  PROVE  convo'.unread = convo.unread \/ convo'.unread = ent.unread
BY DEF Overwrite

LEMMA UnreadHook ==
  ASSUME TypeOK, UnreadInv, HookNext PROVE UnreadInv'
<1> DEFINE N == Cardinality(StoredInbound)
<1>1. PICK r \in Requests :
        \/ \E m \in Inbounds : ReceiveMetaWebhook(r, m)
        \/ HookStep(r)
        \/ IngestThrows(r)
  BY DEF HookNext
<1> DEFINE h == hook[r]
<1>2. /\ h \in Hook /\ h.ent \in Row /\ h.ent.unread \in Nat
      /\ convo \in Row /\ convo.unread \in Nat /\ N \in Nat
      /\ hook \in [Requests -> Hook] /\ message \in Seq(MessageRow)
      /\ ~At(r, "idle") => h.msg \in Inbounds
  BY StoredFinite DEF Hook, Row, At, TypeOK, HookTypeOK, StoreTypeOK
<1>3. /\ convo.unread <= N /\ \A q \in Requests : hook[q].ent.unread <= N
      /\ UNCHANGED <<call, attempt>>
  BY DEF UnreadInv, UnreadNeverOvercounts, HookNext
<1>4. ASSUME N' = N, convo'.unread <= N, \A q \in Requests : hook'[q].ent.unread <= N
      PROVE  UnreadInv'
  BY <1>3, <1>4 DEF UnreadInv, UnreadNeverOvercounts
<1>5. FreshRow.unread = 0
  BY DEF FreshRow
<1>a. ASSUME Acknowledge(r) PROVE \A q \in Requests : hook'[q].ent.unread <= N
  BY <1>2, <1>3, <1>5, <1>a DEF Acknowledge, NoHook
<1>b. ASSUME NEW step, GoTo(r, step)
      PROVE  \A q \in Requests : hook'[q].ent.unread <= N
  BY <1>2, <1>3, <1>b DEF GoTo, Hook
<1>c. ASSUME NEW ent \in Row, ent.unread <= N, NEW step, Hold(r, ent, step)
      PROVE  \A q \in Requests : hook'[q].ent.unread <= N
  BY <1>2, <1>3, <1>c DEF Hold, Hook
<1>d. ASSUME message' = message PROVE N' = N
  BY <1>d, StoredSame
<1>6. ASSUME NEW m \in Inbounds, ReceiveMetaWebhook(r, m) PROVE UnreadInv'
  <2>1. \A q \in Requests : hook'[q].ent.unread <= N
    BY <1>2, <1>3, <1>6 DEF ReceiveMetaWebhook, Hook
  <2> QED BY <1>3, <1>4, <1>6, <1>d, <2>1 DEF ReceiveMetaWebhook, storeVars
<1>7. CASE FindExisting(r)
  BY <1>3, <1>4, <1>7, <1>a, <1>b, <1>d DEF FindExisting, storeVars
<1>8. CASE FindContact(r)
  BY <1>3, <1>4, <1>8, <1>b, <1>d DEF FindContact, storeVars
<1>9. CASE InsertContact(r)
  BY <1>3, <1>4, <1>9, <1>a, <1>b, <1>d DEF InsertContact
<1>10. CASE FindConversation(r)
  BY <1>2, <1>3, <1>4, <1>10, <1>b, <1>c, <1>d DEF FindConversation, storeVars
<1>11. CASE InsertConversation(r)
  BY <1>2, <1>3, <1>4, <1>5, <1>11, <1>a, <1>c, <1>d, FreshRowType
  DEF InsertConversation
<1>12. CASE InsertInbound(r)
  <2>1. CASE h.msg \in StoredInbound
    BY <1>3, <1>4, <1>12, <1>a, <1>d, <2>1 DEF InsertInbound
  <2>2. CASE h.msg \notin StoredInbound
    <3>1. h.msg \in Inbounds /\ h.msg \in Originators
      BY <1>2, <1>12 DEF InsertInbound, At, Originators
    <3>2. StoredInbound' = StoredInbound \cup {h.msg}
      BY <1>2, <1>12, <2>2, <3>1, StoredAfterInsert DEF InsertInbound
    <3>3. N' = N + 1
      BY <2>2, <3>2, StoredFinite, FS_AddElement
    <3>4. \A q \in Requests : hook'[q].ent.unread <= N + 1
      <4> DEFINE e == [h.ent EXCEPT !.unread = @ + 1, !.last = CreatedAt]
      <4>1. e.unread = h.ent.unread + 1
        BY <1>2 DEF Row
      <4>2. Hold(r, e, "select")
        BY <1>12, <2>2 DEF InsertInbound
      <4>3. hook'[r].ent = e /\ \A q \in Requests \ {r} : hook'[q] = hook[q]
        BY <1>2, <4>2 DEF Hold, Hook
      <4> HIDE DEF e
      <4>4. \A q \in Requests : hook[q].ent.unread \in Nat
        BY <1>2 DEF Hook, Row
      <4> QED BY <1>2, <1>3, <4>1, <4>3, <4>4
    <3> QED BY <1>2, <1>3, <1>12, <2>2, <3>3, <3>4, StoredFinite
            DEF UnreadInv, UnreadNeverOvercounts, InsertInbound, TypeOK,
                CallTypeOK, ReplyTypeOK, Call, Attempt, Row
  <2> QED BY <2>1, <2>2
<1>13. CASE SelectCounters(r)
  <2>1. \A q \in Requests : hook'[q].ent.unread <= N
    BY <1>2, <1>3, <1>13 DEF SelectCounters, SelectForSave, Hook
  <2> QED BY <1>3, <1>4, <1>13, <1>d, <2>1 DEF SelectCounters, storeVars
<1>14. CASE UpdateCounters(r)
  BY <1>3, <1>4, <1>14, <1>b, <1>d, OverwriteUnread DEF UpdateCounters
<1>15. CASE CaptureLead(r)
  BY <1>3, <1>4, <1>15, <1>b, <1>d DEF CaptureLead, storeVars
<1>16. CASE EnqueueReply(r)
  BY <1>3, <1>4, <1>16, <1>a, <1>d DEF EnqueueReply, storeVars
<1>17. CASE IngestThrows(r)
  BY <1>3, <1>4, <1>17, <1>a, <1>d DEF IngestThrows
<1> QED
  BY <1>1, <1>6, <1>7, <1>8, <1>9, <1>10, <1>11, <1>12, <1>13, <1>14, <1>15,
     <1>16, <1>17 DEF HookStep

LEMMA UnreadCall ==
  ASSUME TypeOK, UnreadInv, CallNext PROVE UnreadInv'
<1> DEFINE N == Cardinality(StoredInbound)
<1>1. PICK c \in StaffCalls : StartCall(c) \/ CallStep(c) \/ CallThrows(c)
  BY DEF CallNext
<1> DEFINE h == call[c]
<1>2. /\ h \in Call /\ h.ent \in Row
      /\ convo \in Row /\ convo.unread \in Nat /\ N \in Nat
      /\ call \in [StaffCalls -> Call] /\ message \in Seq(MessageRow)
      /\ c \in Originators
  BY StoredFinite DEF Call, Row, Originators, TypeOK, CallTypeOK, StoreTypeOK
<1>3. /\ convo.unread <= N /\ \A d \in StaffCalls : call[d].ent.unread <= N
      /\ UNCHANGED <<hook, attempt>>
  BY DEF UnreadInv, UnreadNeverOvercounts, CallNext
<1>4. ASSUME N' = N, convo'.unread <= N, \A d \in StaffCalls : call'[d].ent.unread <= N
      PROVE  UnreadInv'
  BY <1>3, <1>4 DEF UnreadInv, UnreadNeverOvercounts
<1>a. ASSUME Finish(c) PROVE \A d \in StaffCalls : call'[d].ent.unread <= N
  BY <1>2, <1>3, <1>a DEF Finish, NoCall, FreshRow
<1>b. ASSUME NEW step, CallGoTo(c, step)
      PROVE  \A d \in StaffCalls : call'[d].ent.unread <= N
  BY <1>2, <1>3, <1>b DEF CallGoTo, Call
<1>c. ASSUME NEW op, NEW ent \in Row, ent.unread <= N, BeginSave(c, op, ent)
      PROVE  UnreadInv'
  <2>1. \A d \in StaffCalls : call'[d].ent.unread <= N
    BY <1>2, <1>3, <1>c DEF BeginSave
  <2> QED BY <1>3, <1>4, <1>c, <2>1, StoredSame DEF BeginSave, storeVars
<1>d. ASSUME message' = message PROVE N' = N
  BY <1>d, StoredSame
<1>e. ASSUME NEW kind \in {"out", "note"}, InsertMessage(kind, c) PROVE N' = N
  BY <1>2, <1>e, StoredAfterInsert
<1>5. CASE StartCall(c)
  <2>1. CASE MarkAsRead(c)
    <3>1. [convo EXCEPT !.unread = 0] \in Row /\ [convo EXCEPT !.unread = 0].unread <= N
      BY <1>2 DEF Row
    <3> QED BY <1>c, <2>1, <3>1 DEF MarkAsRead
  <2>2. ASSUME NEW user \in Staff, HandoffToHuman(c, user) PROVE UnreadInv'
    <3> DEFINE e == [convo EXCEPT !.ai = FALSE, !.assignee = user]
    <3>1. e \in Row /\ e.unread <= N
      BY <1>2, <1>3 DEF Row
    <3> QED BY <1>c, <2>2, <3>1 DEF HandoffToHuman
  <2>3. CASE ResumeAi(c)
    <3> DEFINE e == [convo EXCEPT !.ai = TRUE, !.assignee = None]
    <3>1. e \in Row /\ e.unread <= N
      BY <1>2, <1>3 DEF Row
    <3> QED BY <1>c, <2>3, <3>1 DEF ResumeAi
  <2>4. CASE SendHumanMessage(c)
    <3>1. \A d \in StaffCalls : call'[d].ent.unread <= N
      BY <1>2, <1>3, <2>4 DEF SendHumanMessage
    <3> QED BY <1>3, <1>4, <1>d, <2>4, <3>1 DEF SendHumanMessage, storeVars
  <2> QED BY <1>5, <2>1, <2>2, <2>3, <2>4 DEF StartCall
<1>6. CASE RejectHumanMessage(c)
  BY <1>3, <1>4, <1>6, <1>a, <1>d DEF RejectHumanMessage, storeVars
<1>7. CASE SendHumanText(c)
  BY <1>3, <1>4, <1>7, <1>a, <1>b, <1>d DEF SendHumanText
<1>8. CASE RecordHumanText(c)
  <2>1. \A d \in StaffCalls : call'[d].ent.unread <= N
    BY <1>2, <1>3, <1>8 DEF RecordHumanText, Call, Row
  <2> QED BY <1>3, <1>4, <1>8, <1>e, <2>1 DEF RecordHumanText
<1>9. CASE SelectConversation(c)
  <2>1. \A d \in StaffCalls : call'[d].ent.unread <= N
    BY <1>2, <1>3, <1>9 DEF SelectConversation, SelectForSave, Call
  <2> QED BY <1>3, <1>4, <1>9, <1>d, <2>1 DEF SelectConversation, storeVars
<1>10. CASE UpdateConversation(c)
  BY <1>3, <1>4, <1>10, <1>a, <1>b, <1>d, OverwriteUnread DEF UpdateConversation
<1>11. CASE WriteNote(c)
  BY <1>3, <1>4, <1>11, <1>a, <1>e DEF WriteNote
<1>12. CASE CallThrows(c)
  BY <1>3, <1>4, <1>12, <1>a, <1>d DEF CallThrows
<1> QED
  BY <1>1, <1>5, <1>6, <1>7, <1>8, <1>9, <1>10, <1>11, <1>12 DEF CallStep

LEMMA UnreadReply ==
  ASSUME TypeOK, UnreadInv, ReplyNext PROVE UnreadInv'
<1> DEFINE N == Cardinality(StoredInbound)
<1>1. PICK m \in Inbounds :
        \/ ProcessAutoReply(m) \/ FallbackAutoReply(m)
        \/ ReplyStep(m) \/ GenerateReplyThrows(m) \/ ReplyThrows(m)
  BY DEF ReplyNext
<1> DEFINE h == attempt[m]
<1>2. /\ h \in Attempt /\ h.ent \in Row
      /\ convo \in Row /\ convo.unread \in Nat /\ N \in Nat
      /\ attempt \in [Inbounds -> Attempt] /\ message \in Seq(MessageRow)
      /\ m \in Originators
  BY StoredFinite DEF Attempt, Row, Originators, TypeOK, ReplyTypeOK, StoreTypeOK
<1>3. /\ convo.unread <= N /\ \A k \in Inbounds : attempt[k].ent.unread <= N
      /\ UNCHANGED <<hook, call>>
  BY DEF UnreadInv, UnreadNeverOvercounts, ReplyNext
<1>4. ASSUME N' = N, convo'.unread <= N, \A k \in Inbounds : attempt'[k].ent.unread <= N
      PROVE  UnreadInv'
  BY <1>3, <1>4 DEF UnreadInv, UnreadNeverOvercounts
<1>a. ASSUME LeaveApi(m) PROVE \A k \in Inbounds : attempt'[k].ent.unread <= N
  BY <1>2, <1>3, <1>a DEF LeaveApi, NoAttempt, FreshRow
<1>b. ASSUME Return(m) \/ Throw(m) PROVE \A k \in Inbounds : attempt'[k].ent.unread <= N
  BY <1>a, <1>b DEF Return, Throw
<1>c. ASSUME NEW step, ReplyGoTo(m, step)
      PROVE  \A k \in Inbounds : attempt'[k].ent.unread <= N
  BY <1>2, <1>3, <1>c DEF ReplyGoTo, Attempt
<1>d. ASSUME message' = message PROVE N' = N
  BY <1>d, StoredSame
<1>5. CASE ProcessAutoReply(m)
  BY <1>3, <1>4, <1>5, <1>c, <1>d DEF ProcessAutoReply, storeVars
<1>6. CASE FallbackAutoReply(m)
  <2>1. \A k \in Inbounds : attempt'[k].ent.unread <= N
    BY <1>2, <1>3, <1>6 DEF FallbackAutoReply, Attempt
  <2> QED BY <1>3, <1>4, <1>6, <1>d, <2>1 DEF FallbackAutoReply, storeVars
<1>7. CASE LoadConversation(m)
  <2>1. attempt' = [attempt EXCEPT ![m].pc = "route", ![m].ent = convo]
          => \A k \in Inbounds : attempt'[k].ent.unread <= N
    BY <1>2, <1>3 DEF Attempt
  <2> QED BY <1>3, <1>4, <1>7, <1>b, <1>d, <2>1 DEF LoadConversation, storeVars
<1>8. CASE SkipReply(m)
  BY <1>3, <1>4, <1>8, <1>b, <1>d DEF SkipReply, storeVars
<1>9. CASE ChooseReply(m)
  <2>1. \A k \in Inbounds : attempt'[k].ent.unread <= N
    BY <1>2, <1>3, <1>9 DEF ChooseReply, Attempt
  <2> QED BY <1>3, <1>4, <1>9, <1>d, <2>1 DEF ChooseReply, storeVars
<1>10. CASE GenerateReplyThrows(m)
  BY <1>3, <1>4, <1>10, <1>b, <1>d DEF GenerateReplyThrows
<1>11. CASE SkipFallback(m)
  BY <1>3, <1>4, <1>11, <1>b, <1>d DEF SkipFallback, storeVars
<1>12. CASE SendAiText(m)
  BY <1>3, <1>4, <1>12, <1>b, <1>c, <1>d DEF SendAiText
<1>13. CASE RecordAiText(m)
  <2>1. \A k \in Inbounds : attempt'[k].ent.unread <= N
    BY <1>2, <1>3, <1>13 DEF RecordAiText, Attempt, Row
  <2>2. N' = N
    BY <1>2, <1>13, StoredAfterInsert DEF RecordAiText
  <2> QED BY <1>3, <1>4, <1>13, <2>1, <2>2 DEF RecordAiText
<1>14. CASE SelectForReply(m)
  <2>1. \A k \in Inbounds : attempt'[k].ent.unread <= N
    BY <1>2, <1>3, <1>14 DEF SelectForReply, SelectForSave, Attempt
  <2> QED BY <1>3, <1>4, <1>14, <1>d, <2>1 DEF SelectForReply, storeVars
<1>15. CASE UpdateForReply(m)
  <2>1. convo'.unread <= N
    BY <1>3, <1>15, OverwriteUnread DEF UpdateForReply
  <2>2. attempt' = [attempt EXCEPT ![m].pc = "select", ![m].plan = "pause",
                                   ![m].ent.ai = FALSE]
          => \A k \in Inbounds : attempt'[k].ent.unread <= N
    BY <1>2, <1>3 DEF Attempt, Row
  <2>3. \A k \in Inbounds : attempt'[k].ent.unread <= N
    BY <1>15, <1>b, <2>2 DEF UpdateForReply
  <2> QED BY <1>4, <1>15, <1>d, <2>1, <2>3 DEF UpdateForReply
<1>16. CASE ReplyThrows(m)
  BY <1>3, <1>4, <1>16, <1>b, <1>d DEF ReplyThrows
<1> QED
  BY <1>1, <1>5, <1>6, <1>7, <1>8, <1>9, <1>10, <1>11, <1>12, <1>13, <1>14,
     <1>15, <1>16 DEF ReplyStep

LEMMA UnreadCrash ==
  ASSUME TypeOK, UnreadInv, Crash PROVE UnreadInv'
<1>1. Cardinality(StoredInbound)' = Cardinality(StoredInbound)
  BY StoredSame DEF Crash
<1>2. 0 <= Cardinality(StoredInbound)
  BY StoredFinite
<1> QED BY <1>1, <1>2 DEF Crash, UnreadInv, UnreadNeverOvercounts, NoHook, NoCall,
           NoAttempt, FreshRow

(* The badge of the inbox never shows more unread messages than there are. *)
THEOREM UnreadIsBounded == Spec => []UnreadNeverOvercounts
<1>1. TypeOK /\ UnreadInv /\ [Next]_vars => UnreadInv'
  <2> SUFFICES ASSUME TypeOK, UnreadInv, [Next]_vars PROVE UnreadInv'
    OBVIOUS
  <2>1. CASE UNCHANGED vars
    BY <2>1, StoredSame DEF vars, storeVars, UnreadInv, UnreadNeverOvercounts
  <2> QED BY <2>1, UnreadHook, UnreadCall, UnreadReply, UnreadCrash DEF Next
<1>2. UnreadInv => UnreadNeverOvercounts
  BY DEF UnreadInv
<1> QED BY <1>1, <1>2, UnreadInit, TypeCorrect, PTL DEF Spec

(***************************************************************************)
(* Auto-reply jobs: what they may send, whatever fails and however often   *)
(* it is tried again                                                       *)
(***************************************************************************)

(* A call of the worker is in the API exactly while its job is active or   *)
(* in fallback; an attempt that got past the guard holds an entity that    *)
(* says the AI owns the conversation.                                      *)
JobOK(m) ==
  /\ ~ReplyAt(m, "idle") <=> queue[m].state \in {"active", "fallback"}
  /\ queue[m].state = "fallback" => attempt[m].pc \notin {"load", "route"}
  /\ queue[m].state = "active" /\ attempt[m].pc \in {"route", "send"}
       => attempt[m].ent.ai

JobInv == \A m \in Inbounds : JobOK(m)

(* The job's text is out and no fault has hit the call since.              *)
Answered(m) ==
  attempt[m].pc \in {"record", "select", "update"} \/ Settled(m)

ReplyInv ==
  \A m \in Inbounds : accepted[m] <= faults + (IF Answered(m) THEN 1 ELSE 0)

(* A step that leaves a job and its call alone and takes no fault back     *)
(* keeps what is said of the job.                                          *)
LEMMA OtherJob ==
  ASSUME TypeOK, NEW m \in Inbounds, attempt'[m] = attempt[m],
         queue'[m] = queue[m], accepted'[m] = accepted[m],
         faults' \in Nat, faults <= faults'
  PROVE  /\ JobOK(m) => JobOK(m)'
         /\ accepted[m] <= faults + (IF Answered(m) THEN 1 ELSE 0)
              => (accepted[m] <= faults + (IF Answered(m) THEN 1 ELSE 0))'
<1>1. accepted[m] \in Nat /\ faults \in Nat
  BY DEF TypeOK, StoreTypeOK, Originators
<1>2. JobOK(m) => JobOK(m)'
  BY DEF JobOK, ReplyAt
<1>3. Answered(m)' = Answered(m)
  BY DEF Answered, Settled
<1> QED BY <1>1, <1>2, <1>3

LEMMA JobInit == Init => JobInv /\ ReplyInv
BY DEF Init, StoreInit, QueueInit, ReplyInit, NoAttempt, JobInv, JobOK, ReplyAt,
   ReplyInv, Answered, Settled, Originators

LEMMA JobHook ==
  ASSUME TypeOK, JobInv, ReplyInv, Next, HookNext PROVE JobInv' /\ ReplyInv'
<1>1. UNCHANGED <<attempt, accepted>>
  BY DEF HookNext, HookStep, storeVars, ReceiveMetaWebhook, FindExisting,
     FindContact, InsertContact, FindConversation, InsertConversation,
     InsertInbound, SelectCounters, UpdateCounters, CaptureLead, EnqueueReply,
     IngestThrows
<1>2. UNCHANGED queue \/ \E r \in Requests : EnqueueAutoReply(hook[r].msg)
  BY DEF HookNext, HookStep, storeVars, ReceiveMetaWebhook, FindExisting,
     FindContact, InsertContact, FindConversation, InsertConversation,
     InsertInbound, SelectCounters, UpdateCounters, CaptureLead, EnqueueReply,
     IngestThrows
<1>3. SUFFICES ASSUME NEW m \in Inbounds
               PROVE  JobOK(m)' /\ (accepted[m] <= faults + (IF Answered(m) THEN 1 ELSE 0))'
  BY DEF JobInv, ReplyInv
<1>4. CASE queue'[m] = queue[m]
  BY <1>1, <1>4, FaultsGrow, OtherJob DEF JobInv, ReplyInv
<1>5. CASE queue'[m] # queue[m]
  <2>1. queue[m].state = "absent" /\ queue'[m].state = "waiting"
    BY <1>2, <1>5 DEF EnqueueAutoReply, SetJob, TypeOK, QueueTypeOK, Job
  <2>2. ReplyAt(m, "idle")
    BY <2>1 DEF JobInv, JobOK
  <2>3. accepted[m] <= faults /\ accepted[m] \in Nat /\ faults \in Nat
    BY <2>1, <2>2 DEF ReplyInv, Answered, Settled, ReplyAt, TypeOK, StoreTypeOK, Originators
  <2> QED BY <1>1, <2>1, <2>2, <2>3, FaultsGrow DEF JobOK, ReplyAt, Answered, Settled
<1> QED BY <1>4, <1>5

LEMMA JobCall ==
  ASSUME TypeOK, JobInv, ReplyInv, Next, CallNext PROVE JobInv' /\ ReplyInv'
<1>1. UNCHANGED <<attempt, queue>>
  BY DEF CallNext
<1>2. ASSUME NEW m \in Inbounds PROVE accepted'[m] = accepted[m]
  <2>1. PICK c \in StaffCalls : StartCall(c) \/ CallStep(c) \/ CallThrows(c)
    BY DEF CallNext
  <2>2. c # m
    BY StoreAssumption
  <2>3. UNCHANGED accepted \/ accepted' = [accepted EXCEPT ![c] = @ + 1]
    BY <2>1 DEF StartCall, CallStep, storeVars, BeginSave, MarkAsRead, HandoffToHuman,
       ResumeAi, SendHumanMessage, RejectHumanMessage, SendHumanText,
       RecordHumanText, SelectConversation, UpdateConversation, WriteNote,
       CallThrows, SendReturns, SendThrows
  <2> QED BY <2>2, <2>3 DEF TypeOK, StoreTypeOK, Originators
<1> QED BY <1>1, <1>2, FaultsGrow, OtherJob DEF JobInv, ReplyInv

(* The two ways a call ends: it returns, or it throws and a fault is       *)
(* counted (or nothing has been sent yet, as in AI_HANDOFF_PAUSED).        *)
LEMMA JobEnds ==
  ASSUME TypeOK, NEW m \in Inbounds, JobOK(m), ~ReplyAt(m, "idle"),
         faults' \in Nat, faults <= faults',
         accepted'[m] \in Nat,
         \/ Return(m) /\ accepted'[m] <= faults' + 1
         \/ Throw(m) /\ accepted'[m] <= faults'
  PROVE  JobOK(m)' /\ (accepted[m] <= faults + (IF Answered(m) THEN 1 ELSE 0))'
<1>1. /\ queue \in [Inbounds -> Job] /\ queue[m].failures + 1 \in Nat
      /\ attempt \in [Inbounds -> Attempt]
      /\ queue[m].state \in {"active", "fallback"}
  BY DEF JobOK, TypeOK, QueueTypeOK, ReplyTypeOK, Job
<1>2. attempt'[m].pc = "idle"
  BY <1>1 DEF Return, Throw, LeaveApi, NoAttempt
<1>3. CASE Return(m) /\ accepted'[m] <= faults' + 1
  <2>1. queue'[m].state \in {"completed", "failed"}
    BY <1>1, <1>3 DEF Return, SetJob, Job
  <2> QED BY <1>2, <1>3, <2>1 DEF JobOK, ReplyAt, Answered, Settled
<1>4. CASE Throw(m) /\ accepted'[m] <= faults'
  <2>1. queue'[m].state \in {"waiting", "exhausted", "failed"}
    BY <1>1, <1>4 DEF Throw, SetJob, FailAttempt, Job
  <2> QED BY <1>2, <1>4, <2>1 DEF JobOK, ReplyAt, Answered, Settled
<1> QED BY <1>3, <1>4

LEMMA JobReply ==
  ASSUME TypeOK, JobInv, ReplyInv, Next, ReplyNext PROVE JobInv' /\ ReplyInv'
<1>1. PICK m \in Inbounds :
        \/ ProcessAutoReply(m) \/ FallbackAutoReply(m)
        \/ ReplyStep(m) \/ GenerateReplyThrows(m) \/ ReplyThrows(m)
  BY DEF ReplyNext
<1> DEFINE h == attempt[m]
           Bound == accepted[m] <= faults + (IF Answered(m) THEN 1 ELSE 0)
<1>2. /\ h \in Attempt /\ attempt \in [Inbounds -> Attempt]
      /\ queue \in [Inbounds -> Job] /\ accepted \in [Originators -> Nat]
      /\ faults \in Nat /\ m \in Originators /\ accepted[m] \in Nat
      /\ JobOK(m) /\ Bound /\ faults' \in Nat /\ faults <= faults'
  BY FaultsGrow DEF TypeOK, StoreTypeOK, QueueTypeOK, ReplyTypeOK, Originators,
     JobInv, ReplyInv
<1>3. ASSUME NEW k \in Inbounds \ {m}
      PROVE  JobOK(k)' /\ (accepted[k] <= faults + (IF Answered(k) THEN 1 ELSE 0))'
  <2>1. attempt'[k] = attempt[k]
    BY <1>1, <1>2 DEF ProcessAutoReply, FallbackAutoReply, ReplyStep, LoadConversation,
       SkipReply, ChooseReply, GenerateReplyThrows, SkipFallback, SendAiText,
       RecordAiText, SelectForReply, UpdateForReply, ReplyThrows, Return, Throw,
       LeaveApi, ReplyGoTo
  <2>2. queue'[k] = queue[k]
    BY <1>1, <1>2 DEF ProcessAutoReply, FallbackAutoReply, ReplyStep, LoadConversation,
       SkipReply, ChooseReply, GenerateReplyThrows, SkipFallback, SendAiText,
       RecordAiText, SelectForReply, UpdateForReply, ReplyThrows, Return, Throw,
       SetJob, FailAttempt
  <2>3. UNCHANGED accepted \/ accepted' = [accepted EXCEPT ![m] = @ + 1]
    BY <1>1 DEF ProcessAutoReply, FallbackAutoReply, ReplyStep, LoadConversation,
       SkipReply, ChooseReply, GenerateReplyThrows, SkipFallback, SendAiText,
       RecordAiText, SelectForReply, UpdateForReply, ReplyThrows, storeVars,
       SendReturns, SendThrows
  <2>4. accepted'[k] = accepted[k]
    BY <1>2, <2>3 DEF Originators
  <2> QED BY <1>2, <2>1, <2>2, <2>4, OtherJob DEF JobInv, ReplyInv
<1>4. SUFFICES JobOK(m)' /\ Bound'
  BY <1>3 DEF JobInv, ReplyInv
<1>5. accepted[m] <= faults + 1 /\ (~Answered(m) => accepted[m] <= faults)
  BY <1>2
<1>a. ASSUME UNCHANGED accepted, ~ReplyAt(m, "idle"),
             \/ Return(m)
             \/ Throw(m) /\ (~Answered(m) \/ faults' = faults + 1)
      PROVE  JobOK(m)' /\ Bound'
  <2>1. CASE Return(m)
    BY <1>2, <1>5, <1>a, <2>1, JobEnds
  <2>2. CASE Throw(m) /\ (~Answered(m) \/ faults' = faults + 1)
    <3>1. accepted'[m] <= faults'
      BY <1>2, <1>5, <1>a, <2>2
    <3> QED BY <1>2, <1>a, <2>2, <3>1, JobEnds
  <2> QED BY <1>a, <2>1, <2>2
<1>6. CASE ProcessAutoReply(m)
  <2>1. ReplyAt(m, "idle") /\ ~Answered(m)
    BY <1>2, <1>6 DEF ProcessAutoReply, JobOK, Answered, Settled, ReplyAt
  <2>2. attempt'[m].pc = "load" /\ queue'[m].state = "active" /\ UNCHANGED <<accepted, faults>>
    BY <1>2, <1>6 DEF ProcessAutoReply, SetJob, ReplyGoTo, storeVars, Job, Attempt
  <2> QED BY <1>2, <1>5, <2>1, <2>2 DEF JobOK, Answered, Settled, ReplyAt
<1>7. CASE FallbackAutoReply(m)
  <2>1. ReplyAt(m, "idle") /\ ~Answered(m)
    BY <1>2, <1>7 DEF FallbackAutoReply, JobOK, Answered, Settled, ReplyAt
  <2>2. attempt'[m].pc = "send" /\ queue'[m].state = "fallback" /\ UNCHANGED <<accepted, faults>>
    BY <1>2, <1>7 DEF FallbackAutoReply, SetJob, storeVars, Job, Attempt
  <2> QED BY <1>2, <1>5, <2>1, <2>2 DEF JobOK, Answered, Settled, ReplyAt
<1>8. CASE LoadConversation(m)
  <2>1. ~Answered(m) /\ ~ReplyAt(m, "idle") /\ queue[m].state = "active"
        /\ UNCHANGED <<accepted, faults>>
    BY <1>2, <1>8 DEF LoadConversation, JobOK, Answered, Settled, ReplyAt, storeVars
  <2>2. CASE Return(m) \/ Throw(m)
    BY <1>a, <2>1, <2>2
  <2>3. CASE /\ convo.ai /\ UNCHANGED queue
             /\ attempt' = [attempt EXCEPT ![m].pc = "route", ![m].ent = convo]
    <3>1. attempt'[m].pc = "route" /\ attempt'[m].ent = convo
      BY <1>2, <2>3 DEF Attempt
    <3> QED BY <1>2, <1>5, <2>1, <2>3, <3>1 DEF JobOK, Answered, Settled, ReplyAt
  <2> QED BY <1>8, <2>2, <2>3 DEF LoadConversation
<1>9. CASE SkipReply(m)
  BY <1>a, <1>9 DEF SkipReply, storeVars, ReplyAt
<1>10. CASE ChooseReply(m)
  <2>1. PICK plan \in {"reply", "escalate"} :
          attempt' = [attempt EXCEPT ![m].pc = "send", ![m].plan = plan]
    BY <1>10 DEF ChooseReply
  <2>2. attempt'[m].pc = "send" /\ attempt'[m].ent = h.ent
    BY <1>2, <2>1 DEF Attempt
  <2>3. UNCHANGED <<queue, accepted, faults>> /\ ReplyAt(m, "route")
    BY <1>10 DEF ChooseReply, storeVars
  <2> QED BY <1>2, <1>5, <2>2, <2>3 DEF JobOK, Answered, Settled, ReplyAt
<1>11. CASE GenerateReplyThrows(m)
  BY <1>a, <1>11 DEF GenerateReplyThrows, Fault, ReplyAt
<1>12. CASE SkipFallback(m)
  BY <1>a, <1>12 DEF SkipFallback, storeVars, ReplyAt
<1>13. CASE SendAiText(m)
  <2>1. ~ReplyAt(m, "idle") /\ ~Answered(m) /\ accepted[m] <= faults
    BY <1>2, <1>5, <1>13 DEF SendAiText, JobOK, Answered, Settled, ReplyAt
  <2>2. CASE SendReturns(m) /\ ReplyGoTo(m, "record") /\ UNCHANGED queue
    <3>1. attempt'[m].pc = "record" /\ accepted'[m] = accepted[m] + 1 /\ faults' = faults
      BY <1>2, <2>2 DEF SendReturns, ReplyGoTo, Attempt
    <3> QED BY <1>2, <2>1, <2>2, <3>1 DEF JobOK, Answered, Settled, ReplyAt
  <2>3. CASE SendThrows(m) /\ Throw(m)
    <3>1. /\ accepted'[m] = accepted[m] \/ accepted'[m] = accepted[m] + 1
          /\ faults' = faults + 1
      BY <1>2, <2>3 DEF SendThrows, Fault
    <3>2. accepted'[m] \in Nat /\ accepted'[m] <= faults'
      BY <1>2, <2>1, <3>1
    <3> QED BY <1>2, <2>1, <2>3, <3>2, JobEnds
  <2> QED BY <1>13, <2>2, <2>3 DEF SendAiText
<1>14. CASE RecordAiText(m)
  <2>1. attempt'[m].pc = "select" /\ UNCHANGED <<queue, accepted, faults>> /\ ReplyAt(m, "record")
    BY <1>2, <1>14 DEF RecordAiText, Attempt
  <2> QED BY <1>2, <1>5, <2>1 DEF JobOK, Answered, Settled, ReplyAt
<1>15. CASE SelectForReply(m)
  <2>1. attempt'[m].pc = "update" /\ UNCHANGED <<queue, accepted, faults>> /\ ReplyAt(m, "select")
    BY <1>2, <1>15 DEF SelectForReply, SelectForSave, Attempt, storeVars
  <2> QED BY <1>2, <1>5, <2>1 DEF JobOK, Answered, Settled, ReplyAt
<1>16. CASE UpdateForReply(m)
  <2>1. ReplyAt(m, "update") /\ UNCHANGED <<accepted, faults>>
    BY <1>16 DEF UpdateForReply
  <2>2. CASE Return(m)
    BY <1>a, <2>1, <2>2 DEF ReplyAt
  <2>3. CASE UNCHANGED queue /\ attempt' = [attempt EXCEPT ![m].pc = "select",
                               ![m].plan = "pause", ![m].ent.ai = FALSE]
    <3>1. attempt'[m].pc = "select"
      BY <1>2, <2>3 DEF Attempt
    <3> QED BY <1>2, <1>5, <2>1, <2>3, <3>1 DEF JobOK, Answered, Settled, ReplyAt
  <2> QED BY <1>16, <2>2, <2>3 DEF UpdateForReply
<1>17. CASE ReplyThrows(m)
  BY <1>a, <1>17 DEF ReplyThrows, Fault
<1> QED
  BY <1>1, <1>6, <1>7, <1>8, <1>9, <1>10, <1>11, <1>12, <1>13, <1>14, <1>15,
     <1>16, <1>17 DEF ReplyStep

LEMMA JobCrash ==
  ASSUME TypeOK, JobInv, ReplyInv, Crash PROVE JobInv' /\ ReplyInv'
<1>1. SUFFICES ASSUME NEW m \in Inbounds
               PROVE  JobOK(m)' /\ (accepted[m] <= faults + (IF Answered(m) THEN 1 ELSE 0))'
  BY DEF JobInv, ReplyInv
<1>2. /\ queue[m] \in Job /\ accepted[m] \in Nat /\ faults \in Nat
      /\ JobOK(m) /\ accepted[m] <= faults + (IF Answered(m) THEN 1 ELSE 0)
  BY DEF TypeOK, QueueTypeOK, StoreTypeOK, Originators, JobInv, ReplyInv
<1>3. faults' = faults + 1 /\ accepted' = accepted /\ attempt'[m].pc = "idle"
  BY DEF Crash, Fault, NoAttempt
<1>4. queue'[m].state \notin {"active", "fallback"}
  BY <1>2 DEF Crash, Job
<1> QED BY <1>2, <1>3, <1>4 DEF JobOK, ReplyAt

LEMMA JobInductive == Spec => [](TypeOK /\ JobInv /\ ReplyInv)
<1>1. TypeOK /\ JobInv /\ ReplyInv /\ [Next]_vars => JobInv' /\ ReplyInv'
  <2> SUFFICES ASSUME TypeOK, JobInv, ReplyInv, [Next]_vars PROVE JobInv' /\ ReplyInv'
    OBVIOUS
  <2>1. CASE UNCHANGED vars
    BY <2>1 DEF vars, storeVars, JobInv, JobOK, ReplyInv, Answered, Settled, ReplyAt
  <2> QED BY <2>1, JobHook, JobCall, JobReply, JobCrash DEF Next
<1> QED BY <1>1, JobInit, TypeCorrect, PTL DEF Spec

(* A message is answered at most once, plus once for every fault.          *)
THEOREM RepliesAreBounded == Spec => []RepliesBoundedByFaults
<1>1. TypeOK /\ ReplyInv => RepliesBoundedByFaults
  BY DEF TypeOK, StoreTypeOK, Originators, ReplyInv, RepliesBoundedByFaults
<1> QED BY <1>1, JobInductive, PTL

-----------------------------------------------------------------------------
(* TakeoverHolds, part by part. *)

LEMMA OverwriteAi ==
  ASSUME NEW ent, NEW dirty, Overwrite(ent, dirty), ~convo.ai, ~ent.ai
  PROVE  ~convo'.ai
BY DEF Overwrite

LEMMA TakeoverHook ==
  ASSUME TypeOK, TakenOver, HookNext PROVE TakenOver' /\ accepted' = accepted
<1>1. PICK r \in Requests :
        \/ \E m \in Inbounds : ReceiveMetaWebhook(r, m)
        \/ HookStep(r)
        \/ IngestThrows(r)
  BY DEF HookNext
<1>2. /\ hook \in [Requests -> Hook] /\ ~convo.ai /\ "conversation" \in rows
      /\ \A q \in Requests : ~HookClaims(q)
      /\ UNCHANGED <<call, attempt>>
  BY DEF TypeOK, HookTypeOK, TakenOver, AiClaims, HookNext
<1>3. ASSUME ~convo'.ai, "conversation" \in rows', \A q \in Requests : ~HookClaims(q)'
      PROVE  TakenOver'
  BY <1>2, <1>3 DEF TakenOver, AiClaims, CallClaims, ReplyClaims
<1>a. ASSUME Acknowledge(r) PROVE \A q \in Requests : ~HookClaims(q)'
  BY <1>2, <1>a DEF Acknowledge, NoHook, HookClaims
<1>b. ASSUME NEW step, GoTo(r, step), step \notin {"insertMessage", "select", "update"}
      PROVE  \A q \in Requests : ~HookClaims(q)'
  BY <1>2, <1>b DEF GoTo, HookClaims, Hook
<1>c. ASSUME NEW ent, NEW step, Hold(r, ent, step), ~ent.ai
      PROVE  \A q \in Requests : ~HookClaims(q)'
  BY <1>2, <1>c DEF Hold, HookClaims, Hook
<1>4. CASE \E m \in Inbounds : ReceiveMetaWebhook(r, m)
  <2>1. \A q \in Requests : ~HookClaims(q)'
    BY <1>2, <1>4 DEF ReceiveMetaWebhook, HookClaims, Hook
  <2> QED BY <1>2, <1>3, <1>4, <2>1 DEF ReceiveMetaWebhook, storeVars
<1>5. CASE FindExisting(r)
  BY <1>2, <1>3, <1>5, <1>a, <1>b DEF FindExisting, storeVars
<1>6. CASE FindContact(r)
  BY <1>2, <1>3, <1>6, <1>b DEF FindContact, storeVars
<1>7. CASE InsertContact(r)
  BY <1>2, <1>3, <1>7, <1>a, <1>b DEF InsertContact
<1>8. CASE FindConversation(r)
  BY <1>2, <1>3, <1>8, <1>c DEF FindConversation, storeVars
<1>9. CASE InsertConversation(r)
  BY <1>2, <1>3, <1>9, <1>a DEF InsertConversation
<1>10. CASE InsertInbound(r)
  <2>1. CASE Acknowledge(r)
    BY <1>2, <1>3, <1>10, <1>a, <2>1 DEF InsertInbound
  <2>2. CASE Hold(r, [hook[r].ent EXCEPT !.unread = @ + 1, !.last = CreatedAt], "select")
    <3>1. ~hook[r].ent.ai /\ hook[r].ent \in Row
      BY <1>2, <1>10 DEF InsertInbound, HookClaims, At, Hook
    <3>2. ~[hook[r].ent EXCEPT !.unread = @ + 1, !.last = CreatedAt].ai
      BY <3>1 DEF Row
    <3> QED BY <1>2, <1>3, <1>10, <1>c, <2>2, <3>2 DEF InsertInbound
  <2> QED BY <1>10, <2>1, <2>2 DEF InsertInbound
<1>11. CASE SelectCounters(r)
  <2>1. \A q \in Requests : ~HookClaims(q)'
    BY <1>2, <1>11 DEF SelectCounters, SelectForSave, HookClaims, Hook, At
  <2> QED BY <1>2, <1>3, <1>11, <2>1 DEF SelectCounters, storeVars
<1>12. CASE UpdateCounters(r)
  <2>1. ~hook[r].ent.ai
    BY <1>2, <1>12 DEF UpdateCounters, HookClaims, At
  <2> QED BY <1>2, <1>3, <1>12, <1>b, <2>1, OverwriteAi DEF UpdateCounters
<1>13. CASE CaptureLead(r)
  BY <1>2, <1>3, <1>13, <1>b DEF CaptureLead, storeVars
<1>14. CASE EnqueueReply(r)
  BY <1>2, <1>3, <1>14, <1>a DEF EnqueueReply, storeVars
<1>15. CASE IngestThrows(r)
  BY <1>2, <1>3, <1>15, <1>a DEF IngestThrows
<1> QED
  BY <1>1, <1>4, <1>5, <1>6, <1>7, <1>8, <1>9, <1>10, <1>11, <1>12, <1>13, <1>14,
     <1>15 DEF HookStep

LEMMA TakeoverCall ==
  ASSUME TypeOK, TakenOver, CallNext
  PROVE  /\ TakenOver' \/ BeginsResume
         /\ \A m \in Inbounds : accepted'[m] = accepted[m]
<1>1. PICK c \in StaffCalls : StartCall(c) \/ CallStep(c) \/ CallThrows(c)
  BY DEF CallNext
<1>2. /\ call \in [StaffCalls -> Call] /\ ~convo.ai /\ "conversation" \in rows
      /\ \A d \in StaffCalls : ~CallClaims(d)
      /\ UNCHANGED <<hook, attempt>>
      /\ convo \in Row /\ call[c].ent \in Row
      /\ accepted \in [Originators -> Nat]
  BY DEF TypeOK, CallTypeOK, StoreTypeOK, TakenOver, AiClaims, CallNext, Call
<1>3. ASSUME ~convo'.ai, rows' = rows, \A d \in StaffCalls : ~CallClaims(d)'
      PROVE  TakenOver'
  BY <1>2, <1>3 DEF TakenOver, AiClaims, HookClaims, ReplyClaims
<1>4. rows' = rows
  BY <1>1 DEF StartCall, CallStep, storeVars, BeginSave, MarkAsRead, HandoffToHuman,
     ResumeAi, SendHumanMessage, RejectHumanMessage, SendHumanText,
     RecordHumanText, SelectConversation, UpdateConversation, WriteNote, CallThrows
<1>5. \A m \in Inbounds : accepted'[m] = accepted[m]
  <2>1. UNCHANGED accepted \/ accepted' = [accepted EXCEPT ![c] = @ + 1]
    BY <1>1 DEF StartCall, CallStep, storeVars, BeginSave, MarkAsRead, HandoffToHuman,
       ResumeAi, SendHumanMessage, RejectHumanMessage, SendHumanText,
       RecordHumanText, SelectConversation, UpdateConversation, WriteNote,
       CallThrows, SendReturns, SendThrows
  <2>2. \A m \in Inbounds : m # c
    BY StoreAssumption
  <2> QED BY <1>2, <2>1, <2>2 DEF Originators
<1>6. SUFFICES TakenOver' \/ BeginsResume
  BY <1>5
<1>a. ASSUME Finish(c) PROVE \A d \in StaffCalls : ~CallClaims(d)'
  BY <1>2, <1>a DEF Finish, NoCall, CallClaims
<1>b. ASSUME NEW step, CallGoTo(c, step),
             ~call[c].ent.ai \/ step = "note"
      PROVE  \A d \in StaffCalls : ~CallClaims(d)'
  BY <1>2, <1>b DEF CallGoTo, CallClaims, Call
<1>c. ASSUME NEW op, NEW ent, BeginSave(c, op, ent), ~ent.ai PROVE TakenOver'
  <2>1. \A d \in StaffCalls : ~CallClaims(d)'
    BY <1>2, <1>c DEF BeginSave, CallClaims
  <2> QED BY <1>2, <1>3, <1>4, <1>c, <2>1 DEF BeginSave, storeVars
<1>d. call[c].pc \in {"send", "record", "select", "update"} => ~call[c].ent.ai
  BY <1>2 DEF CallClaims
<1>7. CASE StartCall(c)
  <2>1. CASE MarkAsRead(c)
    <3>1. ~[convo EXCEPT !.unread = 0].ai
      BY <1>2 DEF Row
    <3> QED BY <1>c, <2>1, <3>1 DEF MarkAsRead
  <2>2. ASSUME NEW user \in Staff, HandoffToHuman(c, user) PROVE TakenOver'
    <3>1. ~[convo EXCEPT !.ai = FALSE, !.assignee = user].ai
      BY <1>2 DEF Row
    <3> QED BY <1>c, <2>2, <3>1 DEF HandoffToHuman
  <2>3. CASE ResumeAi(c)
    <3>1. CallAt(c, "ready") /\ call'[c].op = "resumeAi"
      BY <1>2, <2>3 DEF ResumeAi, BeginSave
    <3> QED BY <3>1 DEF BeginsResume
  <2>4. CASE SendHumanMessage(c)
    <3>1. \A d \in StaffCalls : ~CallClaims(d)'
      BY <1>2, <2>4 DEF SendHumanMessage, CallClaims
    <3> QED BY <1>2, <1>3, <1>4, <2>4, <3>1 DEF SendHumanMessage, storeVars
  <2> QED BY <1>7, <2>1, <2>2, <2>3, <2>4 DEF StartCall
<1>8. CASE RejectHumanMessage(c)
  BY <1>2, <1>3, <1>4, <1>8, <1>a DEF RejectHumanMessage, storeVars
<1>9. CASE SendHumanText(c)
  BY <1>2, <1>3, <1>4, <1>9, <1>a, <1>b, <1>d DEF SendHumanText, CallAt
<1>10. CASE RecordHumanText(c)
  <2>1. ~call[c].ent.ai
    BY <1>10, <1>d DEF RecordHumanText, CallAt
  <2>2. \A d \in StaffCalls : ~CallClaims(d)'
    BY <1>2, <1>10, <2>1 DEF RecordHumanText, CallClaims, Call, Row
  <2> QED BY <1>2, <1>3, <1>4, <1>10, <2>2 DEF RecordHumanText
<1>11. CASE SelectConversation(c)
  <2>1. \A d \in StaffCalls : ~CallClaims(d)'
    BY <1>2, <1>11, <1>d DEF SelectConversation, SelectForSave, CallClaims, Call, CallAt
  <2> QED BY <1>2, <1>3, <1>4, <1>11, <2>1 DEF SelectConversation, storeVars
<1>12. CASE UpdateConversation(c)
  <2>1. ~call[c].ent.ai
    BY <1>12, <1>d DEF UpdateConversation, CallAt
  <2> QED BY <1>2, <1>3, <1>4, <1>12, <1>a, <1>b, <2>1, OverwriteAi
          DEF UpdateConversation
<1>13. CASE WriteNote(c)
  BY <1>2, <1>3, <1>4, <1>13, <1>a DEF WriteNote
<1>14. CASE CallThrows(c)
  BY <1>2, <1>3, <1>4, <1>14, <1>a DEF CallThrows
<1> QED
  BY <1>1, <1>7, <1>8, <1>9, <1>10, <1>11, <1>12, <1>13, <1>14 DEF CallStep

LEMMA TakeoverReply ==
  ASSUME TypeOK, JobInv, TakenOver, ReplyNext
  PROVE  /\ TakenOver'
         /\ \A m \in Inbounds :
               accepted'[m] # accepted[m] => queue[m].state = "fallback"
<1>1. PICK m \in Inbounds :
        \/ ProcessAutoReply(m) \/ FallbackAutoReply(m)
        \/ ReplyStep(m) \/ GenerateReplyThrows(m) \/ ReplyThrows(m)
  BY DEF ReplyNext
<1> DEFINE h == attempt[m]
<1>2. /\ attempt \in [Inbounds -> Attempt] /\ ~convo.ai /\ "conversation" \in rows
      /\ \A k \in Inbounds : ~ReplyClaims(k)
      /\ UNCHANGED <<hook, call>>
      /\ h.ent \in Row /\ accepted \in [Originators -> Nat] /\ JobOK(m)
      /\ Inbounds \subseteq Originators
  BY DEF TypeOK, ReplyTypeOK, StoreTypeOK, TakenOver, AiClaims, ReplyNext, Attempt,
     JobInv, Originators
<1>3. ASSUME ~convo'.ai, \A k \in Inbounds : ~ReplyClaims(k)'
      PROVE  TakenOver'
  <2>1. rows' = rows
    BY <1>1 DEF ProcessAutoReply, FallbackAutoReply, ReplyStep, LoadConversation,
       SkipReply, ChooseReply, GenerateReplyThrows, SkipFallback, SendAiText,
       RecordAiText, SelectForReply, UpdateForReply, ReplyThrows, storeVars
  <2> QED BY <1>2, <1>3, <2>1 DEF TakenOver, AiClaims, HookClaims, CallClaims
<1>4. \A k \in Inbounds : accepted'[k] # accepted[k] => queue[k].state = "fallback"
  <2>1. CASE UNCHANGED accepted
    BY <2>1
  <2>2. CASE SendAiText(m)
    <3>1. queue[m].state = "fallback"
      BY <1>2, <2>2 DEF SendAiText, JobOK, ReplyClaims, ReplyAt
    <3>2. UNCHANGED accepted \/ accepted' = [accepted EXCEPT ![m] = @ + 1]
      BY <2>2 DEF SendAiText, SendReturns, SendThrows
    <3> QED BY <1>2, <3>1, <3>2
  <2> QED
    BY <1>1, <2>1, <2>2 DEF ProcessAutoReply, FallbackAutoReply, ReplyStep,
       LoadConversation, SkipReply, ChooseReply, GenerateReplyThrows, SkipFallback,
       RecordAiText, SelectForReply, UpdateForReply, ReplyThrows, storeVars
<1>5. SUFFICES TakenOver'
  BY <1>4
<1>a. ASSUME Return(m) \/ Throw(m) PROVE \A k \in Inbounds : ~ReplyClaims(k)'
  BY <1>2, <1>a DEF Return, Throw, LeaveApi, NoAttempt, ReplyClaims
<1>b. h.pc \notin {"idle", "load"} => ~h.ent.ai
  BY <1>2 DEF ReplyClaims
<1>c. ASSUME attempt'[m].pc = "load" \/ ~attempt'[m].ent.ai,
             \A k \in Inbounds \ {m} : attempt'[k] = attempt[k]
      PROVE  \A k \in Inbounds : ~ReplyClaims(k)'
  BY <1>2, <1>c DEF ReplyClaims
<1>6. CASE ProcessAutoReply(m)
  <2>1. attempt'[m].pc = "load" /\ \A k \in Inbounds \ {m} : attempt'[k] = attempt[k]
    BY <1>2, <1>6 DEF ProcessAutoReply, ReplyGoTo, Attempt
  <2> QED BY <1>2, <1>3, <1>6, <1>c, <2>1 DEF ProcessAutoReply, storeVars
<1>7. CASE FallbackAutoReply(m)
  <2>1. attempt'[m].ent = convo /\ \A k \in Inbounds \ {m} : attempt'[k] = attempt[k]
    BY <1>2, <1>7 DEF FallbackAutoReply, Attempt
  <2> QED BY <1>2, <1>3, <1>7, <1>c, <2>1 DEF FallbackAutoReply, storeVars
<1>8. CASE LoadConversation(m)
  BY <1>2, <1>3, <1>8, <1>a DEF LoadConversation, storeVars
<1>9. CASE SkipReply(m)
  BY <1>2, <1>3, <1>9, <1>a DEF SkipReply, storeVars
<1>10. CASE ChooseReply(m)
  <2>1. attempt'[m].ent = h.ent /\ \A k \in Inbounds \ {m} : attempt'[k] = attempt[k]
    BY <1>2, <1>10 DEF ChooseReply, Attempt
  <2> QED BY <1>2, <1>3, <1>10, <1>b, <1>c, <2>1 DEF ChooseReply, storeVars, ReplyAt
<1>11. CASE GenerateReplyThrows(m)
  BY <1>2, <1>3, <1>11, <1>a DEF GenerateReplyThrows
<1>12. CASE SkipFallback(m)
  BY <1>2, <1>3, <1>12, <1>a DEF SkipFallback, storeVars
<1>13. CASE SendAiText(m)
  <2>1. ReplyGoTo(m, "record")
          => attempt'[m].ent = h.ent /\ \A k \in Inbounds \ {m} : attempt'[k] = attempt[k]
    BY <1>2 DEF ReplyGoTo, Attempt
  <2> QED BY <1>2, <1>3, <1>13, <1>a, <1>b, <1>c, <2>1 DEF SendAiText, ReplyAt
<1>14. CASE RecordAiText(m)
  <2>1. attempt'[m].ent.ai = h.ent.ai /\ \A k \in Inbounds \ {m} : attempt'[k] = attempt[k]
    BY <1>2, <1>14 DEF RecordAiText, Attempt, Row
  <2> QED BY <1>2, <1>3, <1>14, <1>b, <1>c, <2>1 DEF RecordAiText, ReplyAt
<1>15. CASE SelectForReply(m)
  <2>1. attempt'[m].ent = h.ent /\ \A k \in Inbounds \ {m} : attempt'[k] = attempt[k]
    BY <1>2, <1>15 DEF SelectForReply, SelectForSave, Attempt
  <2> QED BY <1>2, <1>3, <1>15, <1>b, <1>c, <2>1 DEF SelectForReply, storeVars, ReplyAt
<1>16. CASE UpdateForReply(m)
  <2>1. ~convo'.ai
    BY <1>2, <1>16, <1>b, OverwriteAi DEF UpdateForReply, ReplyAt
  <2>2. attempt' = [attempt EXCEPT ![m].pc = "select", ![m].plan = "pause",
                                   ![m].ent.ai = FALSE]
          => ~attempt'[m].ent.ai /\ \A k \in Inbounds \ {m} : attempt'[k] = attempt[k]
    BY <1>2 DEF Attempt, Row
  <2> QED BY <1>3, <1>16, <1>a, <1>c, <2>1, <2>2 DEF UpdateForReply
<1>17. CASE ReplyThrows(m)
  BY <1>2, <1>3, <1>17, <1>a DEF ReplyThrows
<1> QED
  BY <1>1, <1>6, <1>7, <1>8, <1>9, <1>10, <1>11, <1>12, <1>13, <1>14, <1>15,
     <1>16, <1>17 DEF ReplyStep

LEMMA TakeoverCrash ==
  ASSUME TakenOver, Crash PROVE TakenOver' /\ accepted' = accepted
<1>1. \A c \in StaffCalls : ~CallClaims(c)'
  BY DEF Crash, CallClaims, NoCall, CallAt
<1> QED BY <1>1 DEF Crash, TakenOver, AiClaims, HookClaims, ReplyClaims, NoHook,
           NoAttempt

(* A takeover that no older handler can undo holds until a member of the   *)
(* staff resumes the AI, and lets no AI text through but the fallback's.   *)
THEOREM TakeoverIsKept == Spec => TakeoverHolds
<1> DEFINE Kept ==
      TakenOver => /\ TakenOver' \/ BeginsResume
                   /\ \A m \in Inbounds :
                        accepted'[m] # accepted[m] => queue[m].state = "fallback"
<1>1. TypeOK /\ JobInv /\ [Next]_vars => [Kept]_vars
  <2> SUFFICES ASSUME TypeOK, JobInv, Next, TakenOver PROVE Kept
    OBVIOUS
  <2>1. CASE HookNext
    BY <2>1, TakeoverHook
  <2>2. CASE CallNext
    BY <2>2, TakeoverCall
  <2>3. CASE ReplyNext
    BY <2>3, TakeoverReply
  <2>4. CASE Crash
    BY <2>4, TakeoverCrash
  <2> QED BY <2>1, <2>2, <2>3, <2>4 DEF Next
<1>2. [][Kept]_vars => TakeoverHolds
  BY DEF TakeoverHolds
<1> QED BY <1>1, <1>2, JobInductive, PTL DEF Spec

(***************************************************************************)
(* What the inbox shows as sent against what WhatsApp accepted             *)
(***************************************************************************)

(* How far the message table is behind WhatsApp for one originator.  Every *)
(* step leaves the debt alone, or adds to it at most 1 with a fault.       *)
Recorded(x) == Cardinality(OutRows(x))
Pending(x) == IF BeingRecorded(x) THEN 1 ELSE 0
Debt(x) == accepted[x] - Recorded(x) - Pending(x)

DebtPaid(x) ==
  \/ Debt(x)' = Debt(x)
  \/ Debt(x)' = Debt(x) + 1 /\ faults' = faults + 1

LEMMA OutFinite ==
  ASSUME message \in Seq(MessageRow), NEW x \in Originators
  PROVE  IsFiniteSet(OutRows(x)) /\ Recorded(x) \in Nat
<1>1. OutRows(x) \subseteq 1..Len(message) /\ Len(message) \in Nat
  BY DOMAIN message = 1..Len(message) DEF OutRows
<1>2. IsFiniteSet(1..Len(message))
  BY <1>1, FS_Interval
<1> QED BY <1>1, <1>2, FS_Subset, FS_CardinalityType DEF Recorded

LEMMA RecordedAfterInsert ==
  ASSUME message \in Seq(MessageRow), NEW kind \in {"in", "out", "note"},
         NEW x \in Originators, NEW y \in Originators, InsertMessage(kind, x)
  PROVE  Recorded(y)' = IF kind = "out" /\ x = y THEN Recorded(y) + 1 ELSE Recorded(y)
<1> DEFINE n == Len(message) + 1
<1>1. /\ DOMAIN message = 1..Len(message) /\ DOMAIN message' = 1..n
      /\ Len(message) \in Nat
      /\ message'[n] = [kind |-> kind, of |-> x]
      /\ \A i \in DOMAIN message : message'[i] = message[i]
  BY DEF InsertMessage
<1>2. DOMAIN message' = DOMAIN message \cup {n} /\ n \notin DOMAIN message
  BY <1>1
<1>3. message'[n] = [kind |-> "out", of |-> y] <=> kind = "out" /\ x = y
  BY <1>1
<1>4. OutRows(y)' = IF kind = "out" /\ x = y THEN OutRows(y) \cup {n} ELSE OutRows(y)
  BY <1>1, <1>2, <1>3 DEF OutRows
<1>5. n \notin OutRows(y)
  BY <1>2 DEF OutRows
<1> QED BY <1>4, <1>5, OutFinite, FS_AddElement DEF Recorded

LEMMA RecordedSame ==
  ASSUME message' = message, NEW x PROVE Recorded(x)' = Recorded(x)
BY DEF Recorded, OutRows

(* Nothing the step does concerns x.                                       *)
LEMMA DebtUntouched ==
  ASSUME NEW x, accepted'[x] = accepted[x], Recorded(x)' = Recorded(x),
         BeingRecorded(x)' <=> BeingRecorded(x)
  PROVE  DebtPaid(x)
BY DEF DebtPaid, Debt, Pending

(* A handler's fault: whatever it was about to record stays unrecorded.    *)
LEMMA DebtOfFault ==
  ASSUME TypeOK, NEW x \in Originators, NEW kind, Fault(kind), UNCHANGED message,
         \/ accepted'[x] = accepted[x]
         \/ accepted'[x] = accepted[x] + 1 /\ ~BeingRecorded(x),
         ~BeingRecorded(x)'
  PROVE  DebtPaid(x)
<1>1. accepted[x] \in Nat /\ faults \in Nat /\ Recorded(x) \in Nat
  BY OutFinite DEF TypeOK, StoreTypeOK
<1>2. Recorded(x)' = Recorded(x) /\ Pending(x)' = 0 /\ faults' = faults + 1
  BY RecordedSame DEF Pending, Fault
<1> QED BY <1>1, <1>2 DEF DebtPaid, Debt, Pending

LEMMA DebtOfCall ==
  ASSUME TypeOK, CallNext, NEW x \in Originators PROVE DebtPaid(x)
<1>1. PICK c \in StaffCalls : StartCall(c) \/ CallStep(c) \/ CallThrows(c)
  BY DEF CallNext
<1>2. /\ c \in Originators /\ c \notin Inbounds
      /\ x \in Inbounds \/ x \in StaffCalls
      /\ message \in Seq(MessageRow) /\ accepted \in [Originators -> Nat]
      /\ call \in [StaffCalls -> Call] /\ call[c] \in Call /\ attempt' = attempt
  BY StoreAssumption DEF Originators, TypeOK, StoreTypeOK, CallTypeOK, CallNext
<1>3. accepted[x] \in Nat /\ Recorded(x) \in Nat
  BY <1>2, OutFinite
<1>4. CASE x # c
  <2>1. accepted'[x] = accepted[x]
    BY <1>1, <1>2, <1>4 DEF StartCall, CallStep, storeVars, BeginSave, MarkAsRead,
       HandoffToHuman, ResumeAi, SendHumanMessage, RejectHumanMessage,
       SendHumanText, RecordHumanText, SelectConversation, UpdateConversation,
       WriteNote, CallThrows, SendReturns, SendThrows
  <2>2. UNCHANGED message \/ \E kind \in {"out", "note"} : InsertMessage(kind, c)
    BY <1>1 DEF StartCall, CallStep, storeVars, BeginSave, MarkAsRead, HandoffToHuman,
       ResumeAi, SendHumanMessage, RejectHumanMessage, SendHumanText,
       RecordHumanText, SelectConversation, UpdateConversation, WriteNote, CallThrows
  <2>3. Recorded(x)' = Recorded(x)
    BY <1>2, <1>4, <2>2, RecordedSame, RecordedAfterInsert
  <2>4. x \in StaffCalls => call'[x] = call[x]
    BY <1>1, <1>2, <1>4 DEF StartCall, CallStep, BeginSave, MarkAsRead, HandoffToHuman,
       ResumeAi, SendHumanMessage, RejectHumanMessage, SendHumanText,
       RecordHumanText, SelectConversation, UpdateConversation, WriteNote,
       CallThrows, Finish, CallGoTo
  <2>5. BeingRecorded(x)' = BeingRecorded(x)
    BY <1>2, <2>4 DEF BeingRecorded, CallAt, ReplyAt
  <2> QED BY <2>1, <2>3, <2>5, DebtUntouched
<1>5. CASE x = c
  <2>1. (BeingRecorded(x) <=> call[c].pc = "record")
        /\ (BeingRecorded(x)' <=> call'[c].pc = "record")
    BY <1>2, <1>5 DEF BeingRecorded, CallAt
  <2>2. ASSUME UNCHANGED <<message, accepted>>, call[c].pc # "record",
               call'[c].pc # "record"
        PROVE  DebtPaid(x)
    BY <2>1, <2>2, RecordedSame, DebtUntouched
  <2>3. Finish(c) => call'[c].pc = "done"
    BY <1>2 DEF Finish, NoCall
  <2>4. CASE StartCall(c) \/ RejectHumanMessage(c) \/ SelectConversation(c)
    <3>1. UNCHANGED <<message, accepted>> /\ call[c].pc # "record"
      BY <2>4 DEF StartCall, BeginSave, MarkAsRead, HandoffToHuman, ResumeAi,
         SendHumanMessage, RejectHumanMessage, SelectConversation, CallAt, storeVars
    <3>2. call'[c].pc \in {"select", "send", "done", "update"}
      <4>1. CASE StartCall(c)
        <5>1. ASSUME NEW op, NEW ent, BeginSave(c, op, ent) PROVE call'[c].pc = "select"
          BY <1>2, <5>1 DEF BeginSave
        <5>2. SendHumanMessage(c) => call'[c].pc = "send"
          BY <1>2 DEF SendHumanMessage
        <5> QED BY <4>1, <5>1, <5>2
                DEF StartCall, MarkAsRead, HandoffToHuman, ResumeAi
      <4>2. CASE RejectHumanMessage(c)
        BY <2>3, <4>2 DEF RejectHumanMessage
      <4>3. CASE SelectConversation(c)
        BY <1>2, <4>3 DEF SelectConversation, SelectForSave, Call
      <4> QED BY <2>4, <4>1, <4>2, <4>3
    <3> QED BY <2>2, <3>1, <3>2
  <2>5. CASE SendHumanText(c)
    <3>1. call[c].pc = "send" /\ UNCHANGED message
      BY <2>5 DEF SendHumanText, CallAt
    <3>2. CASE SendReturns(c) /\ CallGoTo(c, "record")
      <4>1. accepted'[c] = accepted[c] + 1 /\ call'[c].pc = "record"
        BY <1>2, <3>2 DEF SendReturns, CallGoTo, Call
      <4> QED BY <1>3, <1>5, <2>1, <3>1, <4>1, RecordedSame DEF DebtPaid, Debt, Pending
    <3>3. CASE SendThrows(c) /\ Finish(c)
      <4>1. accepted'[c] = accepted[c] \/ accepted'[c] = accepted[c] + 1
        BY <1>2, <3>3 DEF SendThrows
      <4> QED BY <1>5, <2>1, <2>3, <3>1, <3>3, <4>1, DebtOfFault DEF SendThrows
    <3> QED BY <2>5, <3>2, <3>3 DEF SendHumanText
  <2>6. CASE RecordHumanText(c)
    <3>1. call[c].pc = "record" /\ call'[c].pc = "select" /\ accepted' = accepted
      BY <1>2, <2>6 DEF RecordHumanText, CallAt, Call
    <3>2. Recorded(x)' = Recorded(x) + 1
      BY <1>2, <1>5, <2>6, RecordedAfterInsert DEF RecordHumanText
    <3> QED BY <1>3, <1>5, <2>1, <3>1, <3>2 DEF DebtPaid, Debt, Pending
  <2>7. CASE UpdateConversation(c)
    <3>1. call[c].pc = "update" /\ call'[c].pc # "record" /\ UNCHANGED <<message, accepted>>
      BY <1>2, <2>3, <2>7 DEF UpdateConversation, CallAt, CallGoTo, Call
    <3> QED BY <2>2, <3>1
  <2>8. CASE WriteNote(c)
    <3>1. Recorded(x)' = Recorded(x) /\ accepted' = accepted
      BY <1>2, <2>8, RecordedAfterInsert DEF WriteNote
    <3>2. call[c].pc = "note" /\ call'[c].pc = "done"
      BY <2>3, <2>8 DEF WriteNote, CallAt
    <3> QED BY <2>1, <3>1, <3>2, DebtUntouched
  <2>9. CASE CallThrows(c)
    BY <1>5, <2>1, <2>3, <2>9, DebtOfFault DEF CallThrows
  <2> QED BY <1>1, <2>4, <2>5, <2>6, <2>7, <2>8, <2>9 DEF CallStep
<1> QED BY <1>4, <1>5

LEMMA DebtOfReply ==
  ASSUME TypeOK, JobInv, ReplyNext, NEW x \in Originators PROVE DebtPaid(x)
<1>1. PICK m \in Inbounds :
        \/ ProcessAutoReply(m) \/ FallbackAutoReply(m)
        \/ ReplyStep(m) \/ GenerateReplyThrows(m) \/ ReplyThrows(m)
  BY DEF ReplyNext
<1>2. /\ m \in Originators /\ message \in Seq(MessageRow)
      /\ accepted \in [Originators -> Nat] /\ attempt \in [Inbounds -> Attempt]
      /\ attempt[m] \in Attempt /\ call' = call
  BY DEF Originators, TypeOK, StoreTypeOK, ReplyTypeOK, ReplyNext
<1>3. accepted[x] \in Nat /\ Recorded(x) \in Nat
  BY <1>2, OutFinite
<1>4. Return(m) \/ Throw(m) => attempt'[m].pc = "idle"
                              /\ \A k \in Inbounds \ {m} : attempt'[k] = attempt[k]
  BY <1>2 DEF Return, Throw, LeaveApi, NoAttempt
<1>5. CASE x # m
  <2>1. accepted'[x] = accepted[x]
    BY <1>1, <1>2, <1>5 DEF ProcessAutoReply, FallbackAutoReply, ReplyStep,
       LoadConversation, SkipReply, ChooseReply, GenerateReplyThrows, SkipFallback,
       SendAiText, RecordAiText, SelectForReply, UpdateForReply, ReplyThrows,
       SendReturns, SendThrows, storeVars
  <2>2. UNCHANGED message \/ InsertMessage("out", m)
    BY <1>1 DEF ProcessAutoReply, FallbackAutoReply, ReplyStep, LoadConversation,
       SkipReply, ChooseReply, GenerateReplyThrows, SkipFallback, SendAiText,
       RecordAiText, SelectForReply, UpdateForReply, ReplyThrows, storeVars
  <2>3. Recorded(x)' = Recorded(x)
    BY <1>2, <1>5, <2>2, RecordedSame, RecordedAfterInsert
  <2>4. x \in Inbounds => attempt'[x] = attempt[x]
    BY <1>1, <1>2, <1>4, <1>5 DEF ProcessAutoReply, FallbackAutoReply, ReplyStep,
       LoadConversation, SkipReply, ChooseReply, GenerateReplyThrows, SkipFallback,
       SendAiText, RecordAiText, SelectForReply, UpdateForReply, ReplyThrows, ReplyGoTo
  <2>5. BeingRecorded(x)' = BeingRecorded(x)
    BY <1>2, <2>4 DEF BeingRecorded, CallAt, ReplyAt
  <2> QED BY <2>1, <2>3, <2>5, DebtUntouched
<1>6. CASE x = m
  <2>1. (BeingRecorded(x) <=> attempt[m].pc = "record")
        /\ (BeingRecorded(x)' <=> attempt'[m].pc = "record")
    BY <1>6 DEF BeingRecorded, ReplyAt
  <2>2. ASSUME UNCHANGED <<message, accepted>>, attempt[m].pc # "record",
               attempt'[m].pc # "record"
        PROVE  DebtPaid(x)
    BY <2>1, <2>2, RecordedSame, DebtUntouched
  <2>3. CASE ProcessAutoReply(m) \/ FallbackAutoReply(m)
    <3>1. UNCHANGED <<message, accepted>> /\ attempt'[m].pc # "record"
      BY <1>2, <2>3 DEF ProcessAutoReply, FallbackAutoReply, ReplyGoTo, storeVars, Attempt
    <3>2. attempt[m].pc = "idle"
      BY <2>3 DEF ProcessAutoReply, FallbackAutoReply, JobInv, JobOK, ReplyAt
    <3> QED BY <2>2, <3>1, <3>2
  <2>4. CASE LoadConversation(m) \/ SkipReply(m) \/ SkipFallback(m)
    BY <1>2, <1>4, <2>2, <2>4 DEF LoadConversation, SkipReply, SkipFallback, ReplyAt,
       storeVars, Attempt
  <2>5. CASE ChooseReply(m) \/ SelectForReply(m)
    BY <1>2, <2>2, <2>5 DEF ChooseReply, SelectForReply, SelectForSave, ReplyAt,
       storeVars, Attempt
  <2>6. CASE SendAiText(m)
    <3>1. attempt[m].pc = "send" /\ UNCHANGED message
      BY <2>6 DEF SendAiText, ReplyAt
    <3>2. CASE SendReturns(m) /\ ReplyGoTo(m, "record")
      <4>1. accepted'[m] = accepted[m] + 1 /\ attempt'[m].pc = "record"
        BY <1>2, <3>2 DEF SendReturns, ReplyGoTo, Attempt
      <4> QED BY <1>3, <1>6, <2>1, <3>1, <4>1, RecordedSame DEF DebtPaid, Debt, Pending
    <3>3. CASE SendThrows(m) /\ Throw(m)
      <4>1. accepted'[m] = accepted[m] \/ accepted'[m] = accepted[m] + 1
        BY <1>2, <3>3 DEF SendThrows
      <4> QED BY <1>4, <1>6, <2>1, <3>1, <3>3, <4>1, DebtOfFault DEF SendThrows
    <3> QED BY <2>6, <3>2, <3>3 DEF SendAiText
  <2>7. CASE RecordAiText(m)
    <3>1. attempt[m].pc = "record" /\ attempt'[m].pc = "select" /\ accepted' = accepted
      BY <1>2, <2>7 DEF RecordAiText, ReplyAt, Attempt
    <3>2. Recorded(x)' = Recorded(x) + 1
      BY <1>2, <1>6, <2>7, RecordedAfterInsert DEF RecordAiText
    <3> QED BY <1>3, <1>6, <2>1, <3>1, <3>2 DEF DebtPaid, Debt, Pending
  <2>8. CASE UpdateForReply(m)
    <3>1. attempt[m].pc = "update" /\ attempt'[m].pc # "record" /\ UNCHANGED <<message, accepted>>
      BY <1>2, <1>4, <2>8 DEF UpdateForReply, ReplyAt, Attempt
    <3> QED BY <2>2, <3>1
  <2>9. CASE GenerateReplyThrows(m) \/ ReplyThrows(m)
    BY <1>4, <1>6, <2>1, <2>9, DebtOfFault DEF GenerateReplyThrows, ReplyThrows
  <2> QED BY <1>1, <2>3, <2>4, <2>5, <2>6, <2>7, <2>8, <2>9 DEF ReplyStep
<1> QED BY <1>5, <1>6

LEMMA DebtStep ==
  ASSUME TypeOK, JobInv, [Next]_vars, NEW x \in Originators PROVE DebtPaid(x)
<1>1. CASE UNCHANGED vars
  BY <1>1, RecordedSame, DebtUntouched
  DEF vars, storeVars, BeingRecorded, CallAt, ReplyAt
<1>2. CASE HookNext
  <2>1. UNCHANGED <<accepted, call, attempt>>
    BY <1>2 DEF HookNext, HookStep, storeVars, ReceiveMetaWebhook, FindExisting,
       FindContact, InsertContact, FindConversation, InsertConversation,
       InsertInbound, SelectCounters, UpdateCounters, CaptureLead, EnqueueReply,
       IngestThrows
  <2>2. UNCHANGED message \/ \E m \in Inbounds : InsertMessage("in", m)
    BY <1>2 DEF HookNext, HookStep, storeVars, ReceiveMetaWebhook, FindExisting,
       FindContact, InsertContact, FindConversation, InsertConversation,
       InsertInbound, SelectCounters, UpdateCounters, CaptureLead, EnqueueReply,
       IngestThrows, At, TypeOK, HookTypeOK
  <2>3. Recorded(x)' = Recorded(x)
    BY <2>2, RecordedSame, RecordedAfterInsert DEF TypeOK, StoreTypeOK, Originators
  <2> QED BY <2>1, <2>3, DebtUntouched DEF BeingRecorded, CallAt, ReplyAt
<1>3. CASE Crash
  <2>1. ~BeingRecorded(x)'
    BY <1>3 DEF Crash, BeingRecorded, CallAt, ReplyAt, NoAttempt, NoCall, Originators
  <2> QED BY <1>3, <2>1, DebtOfFault DEF Crash
<1> QED BY <1>1, <1>2, <1>3, DebtOfCall, DebtOfReply DEF Next

(* The inbox and the phone never differ by more than the faults so far and *)
(* the text a handler is about to record.                                  *)
THEOREM InboxFollowsPhone == Spec => []InboxMatchesPhone
<1> DEFINE Inv == \A x \in Originators : 0 <= Debt(x) /\ Debt(x) <= faults
<1>1. Init => Inv
  <2> SUFFICES ASSUME Init, NEW x \in Originators PROVE Debt(x) = 0 /\ faults = 0
    OBVIOUS
  <2>1. OutRows(x) = {} /\ ~BeingRecorded(x)
    BY DEF Init, StoreInit, CallInit, ReplyInit, NoCall, NoAttempt, OutRows,
       BeingRecorded, CallAt, ReplyAt, Originators
  <2> QED BY <2>1, FS_EmptySet DEF Init, StoreInit, Debt, Recorded, Pending
<1>2. TypeOK /\ JobInv /\ Inv /\ [Next]_vars => Inv'
  <2> SUFFICES ASSUME TypeOK, JobInv, Inv, [Next]_vars, NEW x \in Originators
               PROVE  (0 <= Debt(x) /\ Debt(x) <= faults)'
    OBVIOUS
  <2>1. DebtPaid(x) /\ 0 <= Debt(x) /\ Debt(x) <= faults /\ Debt(x) \in Int
    BY DebtStep, OutFinite DEF Debt, Pending, TypeOK, StoreTypeOK
  <2>2. faults \in Nat /\ faults' \in Nat /\ faults <= faults'
    BY FaultsGrow DEF TypeOK, StoreTypeOK, vars, storeVars
  <2> QED BY <2>1, <2>2 DEF DebtPaid
<1>3. TypeOK /\ Inv => InboxMatchesPhone
  <2> SUFFICES ASSUME TypeOK, Inv, NEW x \in Originators
               PROVE  /\ Recorded(x) + Pending(x) <= accepted[x]
                      /\ accepted[x] <= Recorded(x) + Pending(x) + faults
    BY DEF InboxMatchesPhone, Recorded, Pending
  <2>1. /\ accepted[x] \in Nat /\ faults \in Nat /\ Recorded(x) \in Nat
        /\ Pending(x) \in Nat
    BY OutFinite DEF TypeOK, StoreTypeOK, Pending
  <2> QED BY <2>1 DEF Debt
<1> QED BY <1>1, <1>2, <1>3, JobInductive, PTL DEF Spec

(***************************************************************************)
(* Ingestion and queueing implement InboundOnce                            *)
(***************************************************************************)

Queued == {m \in Inbounds : queue[m].state # "absent"}

(* Past the insert, the handler's message is in the table.                 *)
PastInsert(r) == hook[r].pc \in {"select", "update", "lead", "enqueue"}

IngestInv == \A r \in Requests : PastInsert(r) => hook[r].msg \in StoredInbound

OnceStep ==
  \/ \E m \in Inbounds :
       \/ /\ m \notin StoredInbound
          /\ \E row \in InboundRows' :
               row.msg = m /\ InboundRows' = InboundRows \cup {row}
          /\ Queued' = Queued
       \/ /\ m \in StoredInbound \ Queued
          /\ Queued' = Queued \cup {m}
          /\ InboundRows' = InboundRows
  \/ InboundRows' = InboundRows /\ Queued' = Queued

-----------------------------------------------------------------------------
LEMMA RowsSame == ASSUME message' = message PROVE InboundRows' = InboundRows
BY DEF InboundRows

LEMMA RowsOfStored ==
  ASSUME message \in Seq(MessageRow), NEW m \in Inbounds
  PROVE  m \in StoredInbound <=> \E row \in InboundRows : row.msg = m
<1>1. \A i \in DOMAIN message : message[i] \in MessageRow
  BY DOMAIN message = 1..Len(message)
<1>2. \A i \in DOMAIN message :
        message[i] = [kind |-> "in", of |-> m]
          <=> message[i].kind = "in" /\ message[i].of = m
  BY <1>1 DEF MessageRow
<1>3. ASSUME m \in StoredInbound PROVE \E row \in InboundRows : row.msg = m
  <2>1. PICK i \in DOMAIN message : message[i].kind = "in" /\ message[i].of = m
    BY <1>2, <1>3 DEF StoredInbound
  <2>2. [id |-> i, msg |-> message[i].of] \in InboundRows
    BY <2>1 DEF InboundRows
  <2> QED BY <2>1, <2>2
<1>4. ASSUME NEW row \in InboundRows, row.msg = m PROVE m \in StoredInbound
  <2>1. PICK i \in DOMAIN message :
          message[i].kind = "in" /\ row = [id |-> i, msg |-> message[i].of]
    BY <1>4 DEF InboundRows
  <2>2. message[i].of = m
    BY <1>4, <2>1
  <2> QED BY <1>2, <2>1, <2>2 DEF StoredInbound
<1> QED BY <1>3, <1>4

LEMMA RowsAfterInsert ==
  ASSUME message \in Seq(MessageRow), NEW kind \in {"in", "out", "note"},
         NEW x \in Originators, InsertMessage(kind, x)
  PROVE  InboundRows' =
           IF kind = "in" THEN InboundRows \cup {[id |-> CreatedAt, msg |-> x]}
                          ELSE InboundRows
<1> DEFINE In == {j \in DOMAIN message : message[j].kind = "in"}
<1>1. /\ DOMAIN message = 1..Len(message) /\ Len(message) \in Nat
      /\ DOMAIN message' = 1..CreatedAt /\ CreatedAt = Len(message) + 1
      /\ message'[CreatedAt] = [kind |-> kind, of |-> x]
      /\ \A i \in DOMAIN message : message'[i] = message[i]
  BY DEF InsertMessage, CreatedAt
<1>2. DOMAIN message' = DOMAIN message \cup {CreatedAt} /\ CreatedAt \notin DOMAIN message
  BY <1>1
<1>3. In' = IF kind = "in" THEN In \cup {CreatedAt} ELSE In
  BY <1>1, <1>2
<1>4. /\ InboundRows = {[id |-> i, msg |-> message[i].of] : i \in In}
      /\ InboundRows' = {[id |-> i, msg |-> message'[i].of] : i \in In'}
  BY DEF InboundRows
<1>5. \A i \in In : message'[i] = message[i]
  BY <1>1
<1> HIDE DEF In
<1> QED BY <1>1, <1>3, <1>4, <1>5

-----------------------------------------------------------------------------
LEMMA IngestHook ==
  ASSUME TypeOK, IngestInv, HookNext PROVE IngestInv' /\ OnceStep
<1>1. PICK r \in Requests :
        \/ \E m \in Inbounds : ReceiveMetaWebhook(r, m)
        \/ HookStep(r)
        \/ IngestThrows(r)
  BY DEF HookNext
<1> DEFINE h == hook[r]
<1>2. /\ hook \in [Requests -> Hook] /\ queue \in [Inbounds -> Job]
      /\ message \in Seq(MessageRow) /\ h.ent \in Row
      /\ ~At(r, "idle") => h.msg \in Inbounds /\ h.msg \in Originators
  BY DEF TypeOK, HookTypeOK, QueueTypeOK, StoreTypeOK, At, Originators, Hook
<1>3. \A q \in Requests : PastInsert(q) => hook[q].msg \in StoredInbound
  BY DEF IngestInv
<1>4. ASSUME StoredInbound \subseteq StoredInbound',
             \A q \in Requests \ {r} : hook'[q] = hook[q],
             PastInsert(r)' => hook'[r].msg \in StoredInbound'
      PROVE  IngestInv'
  <2>1. \A q \in Requests \ {r} : PastInsert(q)' => hook'[q].msg \in StoredInbound'
    BY <1>3, <1>4 DEF PastInsert
  <2> QED BY <1>4, <2>1 DEF IngestInv
<1>5. \A q \in Requests \ {r} : hook'[q] = hook[q]
  BY <1>1, <1>2 DEF HookStep, ReceiveMetaWebhook, FindExisting, FindContact,
     InsertContact, FindConversation, InsertConversation, InsertInbound,
     SelectCounters, UpdateCounters, CaptureLead, EnqueueReply, IngestThrows,
     GoTo, Hold, Acknowledge
<1>a. ASSUME UNCHANGED <<message, queue>> PROVE OnceStep /\ StoredInbound' = StoredInbound
  BY <1>a, StoredSame, RowsSame DEF OnceStep, Queued
<1>b. ASSUME Acknowledge(r) PROVE ~PastInsert(r)'
  BY <1>2, <1>b DEF Acknowledge, NoHook, PastInsert
<1>c. ASSUME NEW step, GoTo(r, step)
      PROVE  hook'[r].pc = step /\ hook'[r].msg = h.msg
  BY <1>2, <1>c DEF GoTo, Hook
<1>d. ASSUME NEW ent, NEW step, Hold(r, ent, step)
      PROVE  hook'[r].pc = step /\ hook'[r].msg = h.msg
  BY <1>2, <1>d DEF Hold, Hook
<1>6. CASE \E m \in Inbounds : ReceiveMetaWebhook(r, m)
  <2>1. hook'[r].pc = "dedupe" /\ UNCHANGED <<message, queue>>
    BY <1>2, <1>6 DEF ReceiveMetaWebhook, storeVars, Hook
  <2> QED BY <1>4, <1>5, <1>a, <2>1 DEF PastInsert
<1>7. CASE FindExisting(r)
  BY <1>4, <1>5, <1>7, <1>a, <1>b, <1>c DEF FindExisting, storeVars, PastInsert
<1>8. CASE FindContact(r)
  BY <1>4, <1>5, <1>8, <1>a, <1>c DEF FindContact, storeVars, PastInsert
<1>9. CASE InsertContact(r)
  BY <1>4, <1>5, <1>9, <1>a, <1>b, <1>c DEF InsertContact, PastInsert
<1>10. CASE FindConversation(r)
  BY <1>4, <1>5, <1>10, <1>a, <1>c, <1>d DEF FindConversation, storeVars, PastInsert
<1>11. CASE InsertConversation(r)
  BY <1>4, <1>5, <1>11, <1>a, <1>b, <1>d DEF InsertConversation, PastInsert
<1>12. CASE InsertInbound(r)
  <2>1. CASE h.msg \in StoredInbound
    BY <1>4, <1>5, <1>12, <1>a, <1>b, <2>1 DEF InsertInbound
  <2>2. CASE h.msg \notin StoredInbound
    <3>1. StoredInbound' = StoredInbound \cup {h.msg}
      BY <1>2, <1>12, <2>2, StoredAfterInsert DEF InsertInbound, At
    <3>2. Queued' = Queued /\ h.msg \in Inbounds
      BY <1>2, <1>12 DEF InsertInbound, Queued, At
    <3>3. hook'[r].msg = h.msg
      BY <1>12, <2>2, <1>d DEF InsertInbound
    <3>4. InboundRows' = InboundRows \cup {[id |-> CreatedAt, msg |-> h.msg]}
      BY <1>2, <1>12, <2>2, RowsAfterInsert DEF InsertInbound, At
    <3>5. \E row \in InboundRows' :
            row.msg = h.msg /\ InboundRows' = InboundRows \cup {row}
      BY <3>4
    <3> QED BY <1>4, <1>5, <2>2, <3>1, <3>2, <3>3, <3>5 DEF OnceStep
  <2> QED BY <2>1, <2>2
<1>13. CASE SelectCounters(r)
  <2>1. hook'[r].msg = h.msg /\ h.msg \in StoredInbound
    BY <1>2, <1>3, <1>13 DEF SelectCounters, SelectForSave, PastInsert, At, Hook
  <2> QED BY <1>4, <1>5, <1>13, <1>a, <2>1 DEF SelectCounters, storeVars
<1>14. CASE UpdateCounters(r)
  <2>1. h.msg \in StoredInbound
    BY <1>3, <1>14 DEF UpdateCounters, PastInsert, At
  <2> QED BY <1>4, <1>5, <1>14, <1>a, <1>c, <2>1 DEF UpdateCounters
<1>15. CASE CaptureLead(r)
  <2>1. h.msg \in StoredInbound
    BY <1>3, <1>15 DEF CaptureLead, PastInsert, At
  <2> QED BY <1>4, <1>5, <1>15, <1>a, <1>c, <2>1 DEF CaptureLead, storeVars
<1>16. CASE EnqueueReply(r)
  <2>1. h.msg \in StoredInbound /\ h.msg \in Inbounds
    BY <1>2, <1>3, <1>16 DEF EnqueueReply, PastInsert, At
  <2>2. StoredInbound' = StoredInbound /\ InboundRows' = InboundRows
    BY <1>16, StoredSame, RowsSame DEF EnqueueReply, storeVars
  <2>3. CASE queue[h.msg].state = "absent"
    <3>1. queue'[h.msg].state = "waiting" /\ \A m \in Inbounds \ {h.msg} : queue'[m] = queue[m]
      BY <1>2, <1>16, <2>1, <2>3 DEF EnqueueReply, EnqueueAutoReply, SetJob, Job
    <3>2. Queued' = Queued \cup {h.msg} /\ h.msg \notin Queued
      BY <2>1, <2>3, <3>1 DEF Queued
    <3> QED BY <1>4, <1>5, <1>16, <1>b, <2>1, <2>2, <3>2 DEF OnceStep, EnqueueReply
  <2>4. CASE queue[h.msg].state # "absent"
    BY <1>4, <1>5, <1>16, <1>a, <1>b, <2>4
    DEF EnqueueReply, EnqueueAutoReply, storeVars
  <2> QED BY <2>3, <2>4
<1>17. CASE IngestThrows(r)
  BY <1>4, <1>5, <1>17, <1>a, <1>b DEF IngestThrows
<1> QED
  BY <1>1, <1>6, <1>7, <1>8, <1>9, <1>10, <1>11, <1>12, <1>13, <1>14, <1>15,
     <1>16, <1>17 DEF HookStep

(* The other parts insert no inbound row, add no job and remove none.      *)
LEMMA IngestCall ==
  ASSUME TypeOK, IngestInv, CallNext
  PROVE  IngestInv' /\ OnceStep /\ StoredInbound' = StoredInbound
<1>1. PICK c \in StaffCalls : StartCall(c) \/ CallStep(c) \/ CallThrows(c)
  BY DEF CallNext
<1>2. UNCHANGED message \/ \E kind \in {"out", "note"} : InsertMessage(kind, c)
  BY <1>1 DEF StartCall, CallStep, storeVars, BeginSave, MarkAsRead, HandoffToHuman,
     ResumeAi, SendHumanMessage, RejectHumanMessage, SendHumanText,
     RecordHumanText, SelectConversation, UpdateConversation, WriteNote, CallThrows
<1>3. StoredInbound' = StoredInbound /\ InboundRows' = InboundRows
  BY <1>2, StoredSame, StoredAfterInsert, RowsSame, RowsAfterInsert
  DEF TypeOK, StoreTypeOK, Originators
<1> QED BY <1>3 DEF CallNext, IngestInv, PastInsert, OnceStep, Queued

LEMMA IngestReply ==
  ASSUME TypeOK, JobInv, IngestInv, ReplyNext
  PROVE  IngestInv' /\ OnceStep /\ StoredInbound' = StoredInbound
<1>1. PICK m \in Inbounds :
        \/ ProcessAutoReply(m) \/ FallbackAutoReply(m)
        \/ ReplyStep(m) \/ GenerateReplyThrows(m) \/ ReplyThrows(m)
  BY DEF ReplyNext
<1>2. UNCHANGED message \/ InsertMessage("out", m)
  BY <1>1 DEF ProcessAutoReply, FallbackAutoReply, ReplyStep, LoadConversation,
     SkipReply, ChooseReply, GenerateReplyThrows, SkipFallback, SendAiText,
     RecordAiText, SelectForReply, UpdateForReply, ReplyThrows, storeVars
<1>3. StoredInbound' = StoredInbound /\ InboundRows' = InboundRows
  BY <1>2, StoredSame, StoredAfterInsert, RowsSame, RowsAfterInsert
  DEF TypeOK, StoreTypeOK, Originators
<1>4. queue[m].state # "absent"
  BY <1>1 DEF ProcessAutoReply, FallbackAutoReply, ReplyStep, LoadConversation,
     SkipReply, ChooseReply, GenerateReplyThrows, SkipFallback, SendAiText,
     RecordAiText, SelectForReply, UpdateForReply, ReplyThrows, ReplyAt, JobInv, JobOK
<1>5. UNCHANGED queue \/ FailAttempt(m)
        \/ \E s \in JobStates \ {"absent"} : SetJob(m, s)
  BY <1>1 DEF ProcessAutoReply, FallbackAutoReply, ReplyStep, LoadConversation,
     SkipReply, ChooseReply, GenerateReplyThrows, SkipFallback, SendAiText,
     RecordAiText, SelectForReply, UpdateForReply, ReplyThrows, Return, Throw,
     JobStates
<1>6. \A k \in Inbounds : queue'[k].state = "absent" <=> queue[k].state = "absent"
  BY <1>4, <1>5 DEF FailAttempt, SetJob, TypeOK, QueueTypeOK, Job
<1>7. Queued' = Queued
  BY <1>6 DEF Queued
<1> QED BY <1>3, <1>7 DEF ReplyNext, IngestInv, PastInsert, OnceStep

LEMMA IngestCrash ==
  ASSUME TypeOK, Crash PROVE IngestInv' /\ OnceStep
<1>1. StoredInbound' = StoredInbound /\ InboundRows' = InboundRows
  BY StoredSame, RowsSame DEF Crash
<1>2. \A k \in Inbounds : queue'[k].state = "absent" <=> queue[k].state = "absent"
  BY DEF Crash, TypeOK, QueueTypeOK, Job
<1>3. Queued' = Queued
  BY <1>2 DEF Queued
<1>4. IngestInv'
  BY DEF Crash, NoHook, IngestInv, PastInsert
<1> QED BY <1>1, <1>3, <1>4 DEF OnceStep

LEMMA IngestStep ==
  TypeOK /\ JobInv /\ IngestInv /\ [Next]_vars => IngestInv' /\ OnceStep
<1> SUFFICES ASSUME TypeOK, JobInv, IngestInv, [Next]_vars PROVE IngestInv' /\ OnceStep
  OBVIOUS
<1>1. CASE UNCHANGED vars
  BY <1>1, StoredSame, RowsSame DEF vars, storeVars, IngestInv, PastInsert, OnceStep, Queued
<1> QED BY <1>1, IngestHook, IngestCall, IngestReply, IngestCrash DEF Next

LEMMA IngestInit == Init => IngestInv /\ InboundRows = {} /\ Queued = {}
BY DEF Init, StoreInit, QueueInit, HookInit, NoHook, IngestInv, PastInsert,
   InboundRows, Queued

(* However Meta delivers and whatever fails, a message is stored at most   *)
(* once, stays stored, and gets at most one job, after it is stored.       *)
THEOREM ImplementsInboundOnce == Spec => InboundOnceSpec
<1>1. Init => Once!Init
  BY IngestInit DEF Once!Init, Queued
<1>2. TypeOK /\ JobInv /\ IngestInv /\ [Next]_vars
        => [Once!Next]_<<InboundRows, {m \in Inbounds : queue[m].state # "absent"}>>
  <2> SUFFICES ASSUME TypeOK, JobInv, IngestInv, [Next]_vars
               PROVE  \/ Once!Next
                      \/ InboundRows' = InboundRows /\ Queued' = Queued
    BY DEF Queued
  <2>1. \A m \in Inbounds : m \in StoredInbound <=> Once!Stored(m)
    BY RowsOfStored DEF TypeOK, StoreTypeOK, Once!Stored
  <2> QED BY <2>1, IngestStep
          DEF OnceStep, Queued, Once!Next, Once!Store, Once!Enqueue
<1>3. Spec => [](TypeOK /\ JobInv /\ IngestInv)
  BY IngestInit, IngestStep, JobInductive, PTL DEF Spec
<1> QED BY <1>1, <1>2, <1>3, PTL DEF Spec, InboundOnceSpec, Once!Spec

-----------------------------------------------------------------------------
(* When the contact is known and no await of the handler rejects, every    *)
(* 200 is given for a message that is in the table.                        *)
AckInv ==
  /\ rows = {"contact", "conversation"}
  /\ acked \subseteq StoredInbound
  /\ \A r \in Requests : hook[r].pc \notin {"insertContact", "insertConvo"}

LEMMA AckHook ==
  ASSUME "db" \notin FaultKinds, TypeOK, IngestInv, AckInv, HookNext,
         StoredInbound \subseteq StoredInbound'
  PROVE  AckInv'
<1>1. PICK r \in Requests :
        \/ \E m \in Inbounds : ReceiveMetaWebhook(r, m)
        \/ HookStep(r)
        \/ IngestThrows(r)
  BY DEF HookNext
<1>2. hook \in [Requests -> Hook]
  BY DEF TypeOK, HookTypeOK
<1>3. /\ rows = {"contact", "conversation"} /\ acked \subseteq StoredInbound
      /\ \A q \in Requests : hook[q].pc \notin {"insertContact", "insertConvo"}
  BY DEF AckInv
<1>4. ~IngestThrows(r) /\ ~InsertContact(r) /\ ~InsertConversation(r)
  BY <1>3 DEF IngestThrows, Fault, InsertContact, InsertConversation, At
<1>5. rows' = rows
  BY <1>1, <1>4 DEF HookStep, ReceiveMetaWebhook, FindExisting, FindContact,
     FindConversation, InsertInbound, SelectCounters, UpdateCounters,
     CaptureLead, EnqueueReply, storeVars
<1>6. acked' = acked \/ (Acknowledge(r) /\ hook[r].msg \in StoredInbound)
  BY <1>1, <1>3, <1>4 DEF HookStep, ReceiveMetaWebhook, FindExisting, FindContact,
     FindConversation, InsertInbound, SelectCounters, UpdateCounters,
     CaptureLead, EnqueueReply, GoTo, Hold, IngestInv, PastInsert, At
<1>7. acked' \subseteq StoredInbound'
  BY <1>3, <1>6 DEF Acknowledge
<1>8. \A q \in Requests : hook'[q].pc \notin {"insertContact", "insertConvo"}
  <2>1. ASSUME NEW s \in IngestSteps \ {"insertContact", "insertConvo"},
               \/ GoTo(r, s)
               \/ \E ent : Hold(r, ent, s)
               \/ Acknowledge(r)
               \/ hook' = [hook EXCEPT ![r] = SelectForSave(@)]
        PROVE  \A q \in Requests : hook'[q].pc \notin {"insertContact", "insertConvo"}
    <3>1. \A q \in Requests \ {r} : hook'[q] = hook[q]
      BY <1>2, <2>1 DEF GoTo, Hold, Acknowledge
    <3>2. hook'[r].pc \in {s, "idle", "update"}
      <4>1. CASE GoTo(r, s)
        BY <1>2, <4>1 DEF GoTo, Hook
      <4>2. CASE \E ent : Hold(r, ent, s)
        BY <1>2, <4>2 DEF Hold, Hook
      <4>3. CASE Acknowledge(r)
        BY <1>2, <4>3 DEF Acknowledge, NoHook
      <4>4. CASE hook' = [hook EXCEPT ![r] = SelectForSave(@)]
        BY <1>2, <4>4 DEF SelectForSave, Hook
      <4> QED BY <2>1, <4>1, <4>2, <4>3, <4>4
    <3> QED BY <1>3, <3>1, <3>2
  <2>2. CASE FindExisting(r)
    BY <2>1, <2>2 DEF FindExisting, IngestSteps
  <2>3. CASE FindContact(r)
    BY <1>3, <2>1, <2>3 DEF FindContact, IngestSteps
  <2>4. CASE FindConversation(r)
    BY <1>3, <2>1, <2>4 DEF FindConversation, IngestSteps
  <2>5. CASE InsertInbound(r)
    BY <2>1, <2>5 DEF InsertInbound, IngestSteps
  <2>6. CASE SelectCounters(r)
    BY <2>1, <2>6 DEF SelectCounters, IngestSteps
  <2>7. CASE UpdateCounters(r) \/ CaptureLead(r) \/ EnqueueReply(r)
    BY <2>1, <2>7 DEF UpdateCounters, CaptureLead, EnqueueReply, IngestSteps
  <2>8. CASE \E m \in Inbounds : ReceiveMetaWebhook(r, m)
    BY <1>2, <1>3, <2>8 DEF ReceiveMetaWebhook, Hook
  <2> QED
    BY <1>1, <1>4, <2>2, <2>3, <2>4, <2>5, <2>6, <2>7, <2>8 DEF HookStep
<1> QED BY <1>3, <1>5, <1>7, <1>8 DEF AckInv

RowsAgree == \A m \in Inbounds : m \in StoredInbound <=> \E row \in InboundRows : row.msg = m

LEMMA RowsAgreeAlways == TypeOK => RowsAgree
BY RowsOfStored DEF TypeOK, StoreTypeOK, RowsAgree

LEMMA RowsAgreeNext == TypeOK' => RowsAgree'
BY RowsAgreeAlways, PTL

LEMMA AckStep ==
  ASSUME "db" \notin FaultKinds, TypeOK, JobInv, IngestInv, AckInv, [Next]_vars
  PROVE  AckInv'
<1>1. StoredInbound \subseteq StoredInbound'
  <2>1. InboundRows \subseteq InboundRows' /\ TypeOK'
    BY IngestStep, TypeNext DEF OnceStep
  <2>2. \A m \in Inbounds : m \in StoredInbound => m \in StoredInbound'
    BY <2>1, RowsAgreeAlways, RowsAgreeNext DEF RowsAgree
  <2> QED BY <2>2 DEF StoredInbound
<1>2. CASE HookNext
  BY <1>1, <1>2, AckHook
<1>3. CASE CallNext
  <2>1. rows' = rows /\ hook' = hook /\ acked' = acked
    BY <1>3 DEF CallNext, StartCall, CallStep, storeVars, BeginSave, MarkAsRead,
       HandoffToHuman, ResumeAi, SendHumanMessage, RejectHumanMessage,
       SendHumanText, RecordHumanText, SelectConversation, UpdateConversation,
       WriteNote, CallThrows
  <2> QED BY <1>1, <2>1 DEF AckInv
<1>4. CASE ReplyNext
  <2>1. rows' = rows /\ hook' = hook /\ acked' = acked
    BY <1>4 DEF ReplyNext, ProcessAutoReply, FallbackAutoReply, ReplyStep,
       LoadConversation, SkipReply, ChooseReply, GenerateReplyThrows,
       SkipFallback, SendAiText, RecordAiText, SelectForReply, UpdateForReply,
       ReplyThrows, storeVars
  <2> QED BY <1>1, <2>1 DEF AckInv
<1>5. CASE Crash
  BY <1>1, <1>5 DEF Crash, AckInv, NoHook
<1>6. CASE UNCHANGED vars
  BY <1>1, <1>6 DEF vars, storeVars, AckInv
<1> QED BY <1>2, <1>3, <1>4, <1>5, <1>6 DEF Next

(* A contact who is already known loses no message that Meta got its 200   *)
(* for, however deliveries overlap, crashes included, as long as the       *)
(* database answers.                                                       *)
THEOREM KnownContactLosesNothing ==
  ASSUME KnownContact, "db" \notin FaultKinds
  PROVE  Spec => []AckedImpliesStored
<1>1. Init => AckInv
  BY DEF Init, StoreInit, HookInit, NoHook, AckInv
<1>2. TypeOK /\ JobInv /\ IngestInv /\ AckInv /\ [Next]_vars => AckInv'
  BY AckStep
<1>3. AckInv => AckedImpliesStored
  BY DEF AckInv, AckedImpliesStored
<1>4. Spec => [](TypeOK /\ JobInv /\ IngestInv)
  BY IngestInit, IngestStep, JobInductive, PTL DEF Spec
<1> QED BY <1>1, <1>2, <1>3, <1>4, PTL DEF Spec

-----------------------------------------------------------------------------
(* Where the job of a stored message is: added, or owed by handler r.      *)
Owes(r, m) == hook[r].msg = m /\ PastInsert(r)
HasJob(m) == queue[m].state # "absent"

(* Only the insert makes a debt, and a handler leaves one by paying it.    *)
LEMMA QueuedHook ==
  ASSUME TypeOK, StoredIsQueued, HookNext, faults = 0, faults' = 0
  PROVE  \A m \in StoredInbound' : HasJob(m)' \/ \E q \in Requests : Owes(q, m)'
<1>1. PICK r \in Requests :
        \/ \E m \in Inbounds : ReceiveMetaWebhook(r, m)
        \/ HookStep(r)
  BY DEF HookNext, IngestThrows, Fault
<1> DEFINE h == hook[r]
<1>2. /\ hook \in [Requests -> Hook] /\ queue \in [Inbounds -> Job]
      /\ message \in Seq(MessageRow)
      /\ ~At(r, "idle") => h.msg \in Inbounds /\ h.msg \in Originators
  BY DEF TypeOK, HookTypeOK, QueueTypeOK, StoreTypeOK, At, Originators, Hook
<1>3. \A m \in StoredInbound : HasJob(m) \/ \E q \in Requests : Owes(q, m)
  BY DEF StoredIsQueued, HasJob, Owes, PastInsert
<1>4. ASSUME \A m \in StoredInbound' : m \in StoredInbound \/ HasJob(m)' \/ Owes(r, m)',
             \A m \in StoredInbound : HasJob(m) => HasJob(m)',
             \A m \in StoredInbound : Owes(r, m) => Owes(r, m)' \/ HasJob(m)'
      PROVE  \A m \in StoredInbound' : HasJob(m)' \/ \E q \in Requests : Owes(q, m)'
  <2>1. \A q \in Requests \ {r} : hook'[q] = hook[q]
    BY <1>1, <1>2 DEF HookStep, ReceiveMetaWebhook, FindExisting, FindContact,
       InsertContact, FindConversation, InsertConversation, InsertInbound,
       SelectCounters, UpdateCounters, CaptureLead, EnqueueReply,
       GoTo, Hold, Acknowledge
  <2>2. \A q \in Requests \ {r}, m \in StoredInbound : Owes(q, m) => Owes(q, m)'
    BY <2>1 DEF Owes, PastInsert
  <2> QED BY <1>3, <1>4, <2>2
<1>a. ASSUME UNCHANGED <<message, queue>>
      PROVE  StoredInbound' = StoredInbound /\ \A m \in StoredInbound : HasJob(m) => HasJob(m)'
  BY <1>a, StoredSame DEF HasJob
<1>5. CASE /\ h.pc \notin {"insertMessage", "select", "update", "lead", "enqueue"}
           /\ UNCHANGED <<message, queue>>
  BY <1>4, <1>5, <1>a DEF Owes, PastInsert
<1>6. CASE InsertInbound(r)
  <2>1. ~PastInsert(r) /\ UNCHANGED queue
    BY <1>6 DEF InsertInbound, PastInsert, At
  <2>2. CASE h.msg \in StoredInbound
    BY <1>4, <1>6, <1>a, <2>1, <2>2 DEF InsertInbound, Owes
  <2>3. CASE h.msg \notin StoredInbound
    <3>1. StoredInbound' = StoredInbound \cup {h.msg}
      BY <1>2, <1>6, <2>3, StoredAfterInsert DEF InsertInbound, At
    <3>2. hook'[r].pc = "select" /\ hook'[r].msg = h.msg
      BY <1>2, <1>6, <2>3 DEF InsertInbound, Hold, Hook
    <3>3. \A m \in StoredInbound' : m \in StoredInbound \/ Owes(r, m)'
      BY <3>1, <3>2 DEF Owes, PastInsert
    <3> QED BY <1>4, <2>1, <3>3 DEF HasJob, Owes
  <2> QED BY <2>2, <2>3
<1>7. CASE SelectCounters(r) \/ UpdateCounters(r) \/ CaptureLead(r)
  <2>1. UNCHANGED <<message, queue>>
    BY <1>7 DEF SelectCounters, UpdateCounters, CaptureLead, storeVars
  <2>2. hook'[r].msg = h.msg /\ hook'[r].pc \in {"update", "lead", "enqueue"}
    BY <1>2, <1>7 DEF SelectCounters, UpdateCounters, CaptureLead, SelectForSave,
       GoTo, Hook
  <2>3. \A m \in StoredInbound : Owes(r, m) => Owes(r, m)'
    BY <2>2 DEF Owes, PastInsert
  <2> QED BY <1>4, <1>a, <2>1, <2>3
<1>8. CASE EnqueueReply(r)
  <2>1. h.msg \in Inbounds /\ StoredInbound' = StoredInbound
    BY <1>2, <1>8, StoredSame DEF EnqueueReply, At, storeVars
  <2>2. \A m \in Inbounds : HasJob(m) \/ m = h.msg => HasJob(m)'
    BY <1>2, <1>8, <2>1 DEF EnqueueReply, EnqueueAutoReply, SetJob, Job, HasJob
  <2> QED BY <1>4, <2>1, <2>2 DEF Owes, StoredInbound
<1> QED
  BY <1>1, <1>5, <1>6, <1>7, <1>8
  DEF HookStep, ReceiveMetaWebhook, FindExisting, FindContact, InsertContact,
      FindConversation, InsertConversation, At, storeVars

(* A stored message has its job, or a handler on its way to add it, as     *)
(* long as nothing failed: no interleaving of deliveries, staff requests   *)
(* and auto-reply calls drops the enqueue (ingestInboundMessage).          *)
THEOREM StoredGetsQueued == Spec => []StoredIsQueued
<1>1. Init => StoredIsQueued
  BY DEF Init, StoreInit, StoredIsQueued, StoredInbound
<1>2. ASSUME TypeOK, JobInv, IngestInv, StoredIsQueued, [Next]_vars PROVE StoredIsQueued'
  <2>1. SUFFICES ASSUME faults' = 0
                 PROVE  \A m \in StoredInbound' :
                           HasJob(m)' \/ \E q \in Requests : Owes(q, m)'
    BY DEF StoredIsQueued, HasJob, Owes, PastInsert
  <2>2. CASE UNCHANGED vars
    BY <1>2, <2>1, <2>2, StoredSame
    DEF vars, storeVars, StoredIsQueued, HasJob, Owes, PastInsert
  <2>3. CASE Next
    <3>1. faults = 0
      BY <1>2, <2>1, <2>3, FaultsGrow DEF TypeOK, StoreTypeOK
    <3>2. CASE HookNext
      BY <1>2, <2>1, <3>1, <3>2, QueuedHook
    <3>3. CASE CallNext
      <4>1. StoredInbound' = StoredInbound /\ UNCHANGED <<queue, hook>>
        BY <1>2, <3>3, IngestCall DEF CallNext
      <4> QED BY <1>2, <3>1, <4>1 DEF StoredIsQueued, HasJob, Owes, PastInsert
    <3>4. CASE ReplyNext
      <4>1. StoredInbound' = StoredInbound /\ UNCHANGED hook
        BY <1>2, <3>4, IngestReply DEF ReplyNext
      <4>2. \A m \in Inbounds : HasJob(m) => HasJob(m)'
        BY <1>2, <3>4, IngestReply DEF OnceStep, Queued, HasJob
      <4> QED BY <1>2, <3>1, <4>1, <4>2 DEF StoredIsQueued, HasJob, Owes, PastInsert, StoredInbound
    <3>5. ~Crash
      BY <2>1, <3>1 DEF Crash, Fault
    <3> QED BY <2>3, <3>2, <3>3, <3>4, <3>5 DEF Next
  <2> QED BY <1>2, <2>2, <2>3
<1>3. Spec => [](TypeOK /\ JobInv /\ IngestInv)
  BY IngestInit, IngestStep, JobInductive, PTL DEF Spec
<1> QED BY <1>1, <1>2, <1>3, PTL DEF Spec

(***************************************************************************)
(* Handlers one at a time                                                  *)
(***************************************************************************)
(* With one handler at a time, what a handler at work holds is the row as  *)
(* it is, but for what its operation changes, and a save writes all of it. *)
HookBusy(r) == hook[r].pc # "idle"
CallBusy(c) == call[c].pc \notin {"ready", "done"}
ReplyBusy(m) == attempt[m].pc # "idle"

Alone ==
  /\ \A q, r \in Requests : HookBusy(q) /\ HookBusy(r) => q = r
  /\ \A b, c \in StaffCalls : CallBusy(b) /\ CallBusy(c) => b = c
  /\ \A l, m \in Inbounds : ReplyBusy(l) /\ ReplyBusy(m) => l = m
  /\ \A r \in Requests, c \in StaffCalls : ~ (HookBusy(r) /\ CallBusy(c))
  /\ \A r \in Requests, m \in Inbounds : ~ (HookBusy(r) /\ ReplyBusy(m))
  /\ \A c \in StaffCalls, m \in Inbounds : ~ (CallBusy(c) /\ ReplyBusy(m))

SameOwner(ent) == ent.ai = convo.ai /\ ent.assignee = convo.assignee

Whole(h) ==
  h.pc = "update" => /\ h.ent.ai # convo.ai => "ai" \in h.dirty
                     /\ h.ent.assignee # convo.assignee => "assignee" \in h.dirty
                     /\ h.ent.unread # convo.unread => "unread" \in h.dirty

HookFresh(r) ==
  LET h == hook[r] IN
  /\ h.pc \in {"insertMessage", "select", "update"} => SameOwner(h.ent)
  /\ h.pc = "insertMessage" => h.ent.unread = convo.unread
  /\ h.pc \in {"select", "update"} => h.ent.unread = convo.unread + 1
  /\ Whole(h)

CallFresh(c) ==
  LET h == call[c] IN
  /\ h.pc \in {"send", "record"} => h.op = "sendHumanMessage"
  /\ h.pc \in {"send", "record", "select", "update"} =>
       \/ h.op = "sendHumanMessage" /\ SameOwner(h.ent) /\ h.ent.unread = convo.unread
       \/ h.op = "markAsRead" /\ SameOwner(h.ent) /\ h.ent.unread = 0
       \/ /\ h.op = "handoffToHuman" /\ h.ent.ai = FALSE /\ h.ent.assignee \in Staff
          /\ h.ent.unread = convo.unread
       \/ /\ h.op = "resumeAi" /\ h.ent.ai = TRUE /\ h.ent.assignee = None
          /\ h.ent.unread = convo.unread
  /\ Whole(h)

ReplyFresh(m) ==
  LET h == attempt[m] IN
  /\ h.pc \in {"route", "send", "record", "select", "update"} =>
       /\ h.ent.assignee = convo.assignee /\ h.ent.unread = convo.unread
       /\ h.plan = "pause" /\ h.pc \in {"select", "update"} => h.ent.ai = FALSE
       /\ ~ (h.plan = "pause" /\ h.pc \in {"select", "update"}) => h.ent.ai = convo.ai
  /\ h.pc \in {"send", "record"} => h.plan # "pause"
  /\ Whole(h)

(* Only a conversation that exists has handlers that hold it, and jobs.    *)
RowIsThere ==
  "conversation" \notin rows =>
    /\ convo.ai = TRUE /\ convo.assignee = None /\ convo.unread = 0
    /\ \A r \in Requests : hook[r].pc \notin {"insertMessage", "select", "update", "lead", "enqueue"}
    /\ \A c \in StaffCalls : ~CallBusy(c)
    /\ \A m \in Inbounds : queue[m].state = "absent" /\ ~ReplyBusy(m)

SerialInv ==
  /\ Alone /\ RowIsThere
  /\ \A r \in Requests : HookFresh(r)
  /\ \A c \in StaffCalls : CallFresh(c)
  /\ \A m \in Inbounds : ReplyFresh(m)

Kept ==
  convo'.ai = convo.ai /\ convo'.assignee = convo.assignee /\ convo'.unread = convo.unread

ContractStep ==
  \/ Kept
  \/ convo'.ai = convo.ai /\ convo'.assignee = convo.assignee /\ convo'.unread \in {convo.unread + 1, 0}
  \/ /\ convo'.unread = convo.unread
     /\ \/ convo'.ai = FALSE /\ convo'.assignee \in Staff \cup {convo.assignee}
        \/ convo'.ai = TRUE /\ convo'.assignee = None

-----------------------------------------------------------------------------
LEMMA FewAreFinite ==
  ASSUME NEW S, \A x, y \in S : x = y
  PROVE  Cardinality(S) \in Nat /\ (Cardinality(S) = 0 => S = {})
<1>1. CASE S = {}
  BY <1>1, FS_EmptySet
<1>2. CASE S # {}
  <2>1. PICK x : S = {x}
    BY <1>2
  <2>2. Cardinality(S) = 1
    BY <2>1, FS_Singleton
  <2> QED BY <2>2
<1> QED BY <1>1, <1>2

LEMMA NobodyIsBusy ==
  ASSUME Alone, CanStart, MaxInFlight = 1
  PROVE  /\ \A r \in Requests : ~HookBusy(r)
         /\ \A c \in StaffCalls : ~CallBusy(c)
         /\ \A m \in Inbounds : ~ReplyBusy(m)
<1>1. PICK H, C, A : /\ H = {r \in Requests : HookBusy(r)}
                     /\ C = {c \in StaffCalls : CallBusy(c)}
                     /\ A = {m \in Inbounds : ReplyBusy(m)}
  OBVIOUS
<1>2. /\ H = {r \in Requests : ~At(r, "idle")}
      /\ C = {c \in StaffCalls : call[c].pc \notin {"ready", "done"}}
      /\ A = {m \in Inbounds : ~ReplyAt(m, "idle")}
  BY <1>1 DEF HookBusy, CallBusy, ReplyBusy, At, ReplyAt
<1>3. Cardinality(H) + Cardinality(C) + Cardinality(A) < 1
  BY <1>2 DEF CanStart, InFlight
<1>4. /\ \A x, y \in H : x = y
      /\ \A x, y \in C : x = y
      /\ \A x, y \in A : x = y
  BY <1>1 DEF Alone
<1>5. /\ Cardinality(H) \in Nat /\ (Cardinality(H) = 0 => H = {})
      /\ Cardinality(C) \in Nat /\ (Cardinality(C) = 0 => C = {})
      /\ Cardinality(A) \in Nat /\ (Cardinality(A) = 0 => A = {})
  BY <1>4, FewAreFinite
<1>6. H = {} /\ C = {} /\ A = {}
  <2>1. PICK x, y, z : x = Cardinality(H) /\ y = Cardinality(C) /\ z = Cardinality(A)
    OBVIOUS
  <2>2. x \in Nat /\ y \in Nat /\ z \in Nat /\ x + y + z < 1
    BY <1>3, <1>5, <2>1
  <2>3. x = 0 /\ y = 0 /\ z = 0
    BY <2>2
  <2> QED BY <1>5, <2>1, <2>3
<1> QED BY <1>1, <1>6

LEMMA SavesAll ==
  ASSUME NEW ent, NEW dirty, Overwrite(ent, dirty),
         ent.ai # convo.ai => "ai" \in dirty,
         ent.assignee # convo.assignee => "assignee" \in dirty,
         ent.unread # convo.unread => "unread" \in dirty
  PROVE  convo'.ai = ent.ai /\ convo'.assignee = ent.assignee /\ convo'.unread = ent.unread
BY DEF Overwrite

LEMMA SelectsAll ==
  ASSUME NEW ent
  PROVE  /\ ent.ai # convo.ai => "ai" \in DirtyColumns(ent)
         /\ ent.assignee # convo.assignee => "assignee" \in DirtyColumns(ent)
         /\ ent.unread # convo.unread => "unread" \in DirtyColumns(ent)
<1>1. ent["ai"] = ent.ai /\ ent["assignee"] = ent.assignee /\ ent["unread"] = ent.unread
  OBVIOUS
<1>2. /\ convo["ai"] = convo.ai /\ convo["assignee"] = convo.assignee
      /\ convo["unread"] = convo.unread
  OBVIOUS
<1> QED BY <1>1, <1>2 DEF DirtyColumns, Columns

-----------------------------------------------------------------------------
LEMMA SerialHook ==
  ASSUME TypeOK, SerialInv, MaxInFlight = 1, HookNext PROVE SerialInv' /\ ContractStep
<1>1. PICK r \in Requests :
        \/ CanStart /\ \E m \in Inbounds : ReceiveMetaWebhook(r, m)
        \/ HookStep(r)
        \/ IngestThrows(r)
  BY DEF HookNext
<1>2. PICK h : h = hook[r]
  OBVIOUS
<1>3. /\ hook \in [Requests -> Hook] /\ h \in Hook /\ h.ent \in Row /\ convo \in Row
      /\ rows \subseteq {"contact", "conversation"} /\ HookFresh(r)
  BY <1>2 DEF TypeOK, HookTypeOK, StoreTypeOK, Hook, SerialInv
<1>4. /\ \A q \in Requests \ {r} : ~HookBusy(q)
      /\ \A c \in StaffCalls : ~CallBusy(c)
      /\ \A m \in Inbounds : ~ReplyBusy(m)
  <2>1. CASE HookBusy(r)
    BY <2>1 DEF SerialInv, Alone
  <2>2. CASE ~HookBusy(r)
    <3>1. CanStart
      BY <1>1, <2>2 DEF HookBusy, HookStep, FindExisting, FindContact, InsertContact,
         FindConversation, InsertConversation, InsertInbound, SelectCounters, UpdateCounters,
         CaptureLead, EnqueueReply, IngestThrows, At
    <3> QED BY <3>1, NobodyIsBusy DEF SerialInv
  <2> QED BY <2>1, <2>2
<1>5. /\ \A q \in Requests \ {r} : hook'[q] = hook[q]
      /\ UNCHANGED <<call, attempt>>
  BY <1>1, <1>3 DEF HookNext, HookStep, ReceiveMetaWebhook, FindExisting, FindContact,
     InsertContact, FindConversation, InsertConversation, InsertInbound,
     SelectCounters, UpdateCounters, CaptureLead, EnqueueReply, IngestThrows,
     GoTo, Hold, Acknowledge
<1>6. Alone'
  <2>1. /\ \A q \in Requests \ {r} : ~HookBusy(q)'
        /\ \A c \in StaffCalls : ~CallBusy(c)'
        /\ \A m \in Inbounds : ~ReplyBusy(m)'
    BY <1>4, <1>5 DEF HookBusy, CallBusy, ReplyBusy
  <2> QED BY <2>1 DEF Alone
<1>7. /\ \A q \in Requests \ {r} : HookFresh(q)'
      /\ \A c \in StaffCalls : CallFresh(c)'
      /\ \A m \in Inbounds : ReplyFresh(m)'
  <2>1. /\ \A q \in Requests \ {r} : hook'[q].pc = "idle"
        /\ \A c \in StaffCalls : call'[c].pc \in {"ready", "done"}
        /\ \A m \in Inbounds : attempt'[m].pc = "idle"
    BY <1>4, <1>5 DEF HookBusy, CallBusy, ReplyBusy
  <2> QED BY <2>1 DEF HookFresh, CallFresh, ReplyFresh, Whole
<1>8. ASSUME HookFresh(r)', RowIsThere' PROVE SerialInv'
  BY <1>6, <1>7, <1>8 DEF SerialInv
<1>9. ASSUME rows \subseteq rows',
             "conversation" \notin rows' =>
               Kept /\ queue' = queue
               /\ hook'[r].pc \notin {"insertMessage", "select", "update", "lead", "enqueue"}
      PROVE  RowIsThere'
  <2> SUFFICES ASSUME "conversation" \notin rows' PROVE RowIsThere'
    BY DEF RowIsThere
  <2>1. "conversation" \notin rows
    BY <1>9
  <2>2. \A q \in Requests : hook'[q].pc \notin {"insertMessage", "select", "update", "lead", "enqueue"}
    BY <1>5, <1>9, <2>1 DEF SerialInv, RowIsThere
  <2> QED BY <1>4, <1>5, <1>9, <2>1, <2>2 DEF SerialInv, RowIsThere, Kept, CallBusy, ReplyBusy
<1>a. ASSUME Acknowledge(r) PROVE hook'[r].pc = "idle"
  BY <1>3, <1>a DEF Acknowledge, NoHook
<1>b. ASSUME NEW step, GoTo(r, step)
      PROVE  hook'[r].pc = step /\ hook'[r].ent = h.ent /\ hook'[r].dirty = h.dirty
  BY <1>2, <1>3, <1>b DEF GoTo, Hook
<1>c. ASSUME NEW ent, NEW step, Hold(r, ent, step)
      PROVE  hook'[r].pc = step /\ hook'[r].ent = ent
  BY <1>2, <1>3, <1>c DEF Hold, Hook
<1>d. ASSUME hook'[r].pc \in {"idle", "dedupe", "findContact", "insertContact", "findConvo",
                              "insertConvo", "lead", "enqueue"}
      PROVE  HookFresh(r)'
  BY <1>d DEF HookFresh, Whole
<1>e. ASSUME hook'[r].pc \in {"idle", "dedupe", "findContact", "insertContact", "findConvo",
                              "insertConvo"},
             rows \subseteq rows', convo' = convo, queue' = queue
      PROVE  SerialInv' /\ ContractStep
  <2>1. Kept
    BY <1>e DEF Kept
  <2>2. RowIsThere'
    BY <1>9, <1>e, <2>1
  <2> QED BY <1>8, <1>d, <1>e, <2>1, <2>2 DEF ContractStep
<1>f. ASSUME h.pc \in {"insertMessage", "select", "update", "lead", "enqueue"}
      PROVE  "conversation" \in rows
  BY <1>2, <1>f DEF SerialInv, RowIsThere
<1>10. CASE \E m \in Inbounds : ReceiveMetaWebhook(r, m)
  <2>1. hook'[r].pc = "dedupe" /\ UNCHANGED <<rows, convo, queue>>
    BY <1>3, <1>10 DEF ReceiveMetaWebhook, storeVars, Hook
  <2> QED BY <1>e, <2>1
<1>11. CASE FindExisting(r) \/ FindContact(r) \/ IngestThrows(r)
  <2>1. /\ hook'[r].pc \in {"idle", "findContact", "findConvo", "insertContact"}
        /\ UNCHANGED <<rows, convo, queue>>
    BY <1>11, <1>a, <1>b DEF FindExisting, FindContact, IngestThrows, storeVars
  <2> QED BY <1>e, <2>1
<1>12. CASE InsertContact(r)
  <2>1. hook'[r].pc \in {"idle", "findConvo"} /\ rows \subseteq rows' /\ UNCHANGED <<convo, queue>>
    BY <1>12, <1>a, <1>b DEF InsertContact
  <2> QED BY <1>e, <2>1
<1>13. CASE FindConversation(r)
  <2>1. CASE "conversation" \in rows
    <3>1. /\ hook'[r].pc = "insertMessage" /\ hook'[r].ent = convo /\ UNCHANGED <<rows, convo, queue>>
      BY <1>13, <2>1, <1>c DEF FindConversation, storeVars
    <3>2. HookFresh(r)'
      BY <3>1 DEF HookFresh, SameOwner, Whole
    <3> QED BY <1>8, <1>9, <2>1, <3>1, <3>2 DEF Kept, ContractStep
  <2>2. CASE "conversation" \notin rows
    <3>1. hook'[r].pc = "insertConvo" /\ UNCHANGED <<rows, convo, queue>>
      BY <1>13, <2>2, <1>b DEF FindConversation, storeVars
    <3> QED BY <1>e, <3>1
  <2> QED BY <2>1, <2>2
<1>14. CASE InsertConversation(r)
  <2>1. CASE "conversation" \in rows
    <3>1. hook'[r].pc = "idle" /\ UNCHANGED <<rows, convo, queue>>
      BY <1>14, <2>1, <1>a DEF InsertConversation
    <3> QED BY <1>e, <3>1
  <2>2. CASE "conversation" \notin rows
    <3>1. /\ hook'[r].pc = "insertMessage" /\ hook'[r].ent = FreshRow /\ convo' = FreshRow
          /\ rows' = rows \cup {"conversation"}
      BY <1>14, <2>2, <1>c DEF InsertConversation
    <3>2. HookFresh(r)'
      BY <3>1 DEF HookFresh, SameOwner, Whole
    <3>3. Kept
      BY <2>2, <3>1 DEF SerialInv, RowIsThere, FreshRow, Kept
    <3> QED BY <1>8, <1>9, <3>1, <3>2, <3>3 DEF ContractStep
  <2> QED BY <2>1, <2>2
<1>15. CASE InsertInbound(r)
  <2>1. CASE Acknowledge(r)
    <3>1. hook'[r].pc = "idle" /\ UNCHANGED <<rows, convo, queue>>
      BY <1>15, <2>1, <1>a DEF InsertInbound
    <3> QED BY <1>e, <3>1
  <2>2. CASE Hold(r, [hook[r].ent EXCEPT !.unread = @ + 1, !.last = CreatedAt], "select")
    <3>1. PICK n, e : n = CreatedAt /\ e = h.ent
      OBVIOUS
    <3>2. hook'[r].pc = "select" /\ hook'[r].ent = [e EXCEPT !.unread = e.unread + 1, !.last = n]
      BY <1>2, <1>c, <2>2, <3>1
    <3>3. e \in Row
      BY <1>3, <3>1
    <3>4. /\ hook'[r].ent.ai = e.ai /\ hook'[r].ent.assignee = e.assignee
          /\ hook'[r].ent.unread = e.unread + 1
      BY <3>2, <3>3 DEF Row
    <3>5. h.pc = "insertMessage" /\ UNCHANGED <<rows, convo, queue>>
      BY <1>2, <1>15 DEF InsertInbound, At
    <3>6. SameOwner(e) /\ e.unread = convo.unread
      BY <1>2, <1>3, <3>1, <3>5 DEF HookFresh
    <3>7. HookFresh(r)'
      BY <3>2, <3>4, <3>5, <3>6 DEF HookFresh, SameOwner, Whole
    <3> QED BY <1>8, <1>9, <1>f, <3>5, <3>7 DEF Kept, ContractStep
  <2> QED BY <1>15, <2>1, <2>2 DEF InsertInbound
<1>16. CASE SelectCounters(r)
  <2>1. h.pc = "select" /\ UNCHANGED <<rows, convo, queue>>
    BY <1>2, <1>16 DEF SelectCounters, At, storeVars
  <2>2. PICK d : d = DirtyColumns(h.ent)
    OBVIOUS
  <2>3. hook'[r] = [h EXCEPT !.pc = "update", !.dirty = d]
    BY <1>2, <1>3, <1>16, <2>2 DEF SelectCounters, SelectForSave
  <2>4. hook'[r].pc = "update" /\ hook'[r].dirty = d /\ hook'[r].ent = h.ent
    BY <1>3, <2>3 DEF Hook
  <2>5. Whole(hook[r])'
    BY <2>1, <2>2, <2>4, SelectsAll DEF Whole
  <2>6. HookFresh(r)'
    BY <1>2, <1>3, <2>1, <2>4, <2>5 DEF HookFresh, SameOwner
  <2> QED BY <1>8, <1>9, <1>f, <2>1, <2>6 DEF Kept, ContractStep
<1>17. CASE UpdateCounters(r)
  <2>1. h.pc = "update" /\ Overwrite(h.ent, h.dirty) /\ hook'[r].pc = "lead" /\ rows' = rows
    BY <1>2, <1>17, <1>b DEF UpdateCounters, At
  <2>2. SameOwner(h.ent) /\ h.ent.unread = convo.unread + 1 /\ Whole(h)
    BY <1>2, <1>3, <2>1 DEF HookFresh
  <2>3. convo'.ai = h.ent.ai /\ convo'.assignee = h.ent.assignee /\ convo'.unread = h.ent.unread
    BY <2>1, <2>2, SavesAll DEF Whole
  <2>4. ContractStep
    BY <2>2, <2>3 DEF SameOwner, ContractStep
  <2> QED BY <1>8, <1>9, <1>d, <1>f, <2>1, <2>4
<1>18. CASE CaptureLead(r)
  <2>1. h.pc = "lead" /\ hook'[r].pc = "enqueue" /\ UNCHANGED <<rows, convo, queue>>
    BY <1>2, <1>18, <1>b DEF CaptureLead, At, storeVars
  <2> QED BY <1>8, <1>9, <1>d, <1>f, <2>1 DEF Kept, ContractStep
<1>19. CASE EnqueueReply(r)
  <2>1. h.pc = "enqueue" /\ hook'[r].pc = "idle" /\ UNCHANGED <<rows, convo>>
    BY <1>2, <1>19, <1>a DEF EnqueueReply, At, storeVars
  <2> QED BY <1>8, <1>9, <1>d, <1>f, <2>1 DEF Kept, ContractStep
<1> QED BY <1>1, <1>10, <1>11, <1>12, <1>13, <1>14, <1>15, <1>16, <1>17, <1>18, <1>19 DEF HookStep

LEMMA SerialCall ==
  ASSUME TypeOK, SerialInv, MaxInFlight = 1, CallNext PROVE SerialInv' /\ ContractStep
<1>1. PICK c \in StaffCalls :
        \/ CanStart /\ StartCall(c)
        \/ CallStep(c)
        \/ CallThrows(c)
  BY DEF CallNext
<1>2. PICK h : h = call[c]
  OBVIOUS
<1>3. /\ call \in [StaffCalls -> Call] /\ h \in Call /\ h.ent \in Row /\ convo \in Row
      /\ rows \subseteq {"contact", "conversation"} /\ CallFresh(c)
  BY <1>2 DEF TypeOK, CallTypeOK, StoreTypeOK, Call, SerialInv
<1>4. /\ \A r \in Requests : ~HookBusy(r)
      /\ \A b \in StaffCalls \ {c} : ~CallBusy(b)
      /\ \A m \in Inbounds : ~ReplyBusy(m)
  <2>1. CASE CallBusy(c)
    BY <2>1 DEF SerialInv, Alone
  <2>2. CASE ~CallBusy(c)
    <3>1. CanStart
      BY <1>1, <2>2 DEF CallBusy, CallStep, RejectHumanMessage, SendHumanText, RecordHumanText,
         SelectConversation, UpdateConversation, WriteNote, CallThrows, CallAt
    <3> QED BY <3>1, NobodyIsBusy DEF SerialInv
  <2> QED BY <2>1, <2>2
<1>5. "conversation" \in rows
  <2>1. CASE CallBusy(c)
    BY <2>1 DEF SerialInv, RowIsThere
  <2>2. CASE ~CallBusy(c)
    <3>1. StartCall(c)
      BY <1>1, <2>2 DEF CallBusy, CallStep, RejectHumanMessage, SendHumanText, RecordHumanText,
         SelectConversation, UpdateConversation, WriteNote, CallThrows, CallAt
    <3> QED BY <3>1 DEF StartCall, MarkAsRead, HandoffToHuman, ResumeAi, SendHumanMessage, BeginSave
  <2> QED BY <2>1, <2>2
<1>6. /\ \A b \in StaffCalls \ {c} : call'[b] = call[b]
      /\ UNCHANGED <<rows, queue, hook, attempt>>
  BY <1>1, <1>3 DEF CallNext, StartCall, MarkAsRead, HandoffToHuman, ResumeAi, SendHumanMessage,
     BeginSave, CallStep, RejectHumanMessage, SendHumanText, RecordHumanText, SelectConversation,
     UpdateConversation, WriteNote, CallThrows, CallGoTo, Finish, storeVars
<1>7. Alone'
  <2>1. /\ \A r \in Requests : ~HookBusy(r)'
        /\ \A b \in StaffCalls \ {c} : ~CallBusy(b)'
        /\ \A m \in Inbounds : ~ReplyBusy(m)'
    BY <1>4, <1>6 DEF HookBusy, CallBusy, ReplyBusy
  <2> QED BY <2>1 DEF Alone
<1>8. /\ \A r \in Requests : HookFresh(r)'
      /\ \A b \in StaffCalls \ {c} : CallFresh(b)'
      /\ \A m \in Inbounds : ReplyFresh(m)'
  <2>1. /\ \A r \in Requests : hook'[r].pc = "idle"
        /\ \A b \in StaffCalls \ {c} : call'[b].pc \in {"ready", "done"}
        /\ \A m \in Inbounds : attempt'[m].pc = "idle"
    BY <1>4, <1>6 DEF HookBusy, CallBusy, ReplyBusy
  <2> QED BY <2>1 DEF HookFresh, CallFresh, ReplyFresh, Whole
<1>9. ASSUME CallFresh(c)' PROVE SerialInv'
  <2>1. RowIsThere'
    BY <1>5, <1>6 DEF RowIsThere
  <2> QED BY <1>7, <1>8, <1>9, <2>1 DEF SerialInv
<1>a. ASSUME Finish(c) PROVE CallFresh(c)'
  <2>1. call'[c].pc = "done"
    BY <1>3, <1>a DEF Finish, NoCall
  <2> QED BY <2>1 DEF CallFresh, Whole
<1>b. ASSUME NEW step, CallGoTo(c, step)
      PROVE  call'[c].pc = step /\ call'[c].op = h.op /\ call'[c].ent = h.ent
  BY <1>2, <1>3, <1>b DEF CallGoTo, Call
<1>c. ASSUME convo' = convo PROVE ContractStep
  BY <1>c DEF Kept, ContractStep
<1>10. CASE StartCall(c)
  <2>1. PICK e : e = convo
    OBVIOUS
  <2>2. convo' = convo
    BY <1>10 DEF StartCall, MarkAsRead, HandoffToHuman, ResumeAi, SendHumanMessage, BeginSave, storeVars
  <2>3. CASE MarkAsRead(c)
    <3>1. /\ call'[c].pc = "select" /\ call'[c].op = "markAsRead"
          /\ call'[c].ent = [e EXCEPT !.unread = 0]
      BY <1>3, <2>1, <2>3 DEF MarkAsRead, BeginSave
    <3>2. /\ call'[c].ent.ai = e.ai /\ call'[c].ent.assignee = e.assignee
          /\ call'[c].ent.unread = 0
      BY <1>3, <2>1, <3>1 DEF Row
    <3>3. CallFresh(c)'
      BY <2>1, <2>2, <3>1, <3>2 DEF CallFresh, SameOwner, Whole
    <3> QED BY <1>9, <1>c, <2>2, <3>3
  <2>4. CASE \E user \in Staff : HandoffToHuman(c, user)
    <3>1. PICK user \in Staff : HandoffToHuman(c, user)
      BY <2>4
    <3>2. /\ call'[c].pc = "select" /\ call'[c].op = "handoffToHuman"
          /\ call'[c].ent = [e EXCEPT !.ai = FALSE, !.assignee = user]
      BY <1>3, <2>1, <3>1 DEF HandoffToHuman, BeginSave
    <3>3. /\ call'[c].ent.ai = FALSE /\ call'[c].ent.assignee = user
          /\ call'[c].ent.unread = e.unread
      BY <1>3, <2>1, <3>2 DEF Row
    <3>4. CallFresh(c)'
      BY <2>1, <2>2, <3>2, <3>3 DEF CallFresh, Whole
    <3> QED BY <1>9, <1>c, <2>2, <3>4
  <2>5. CASE ResumeAi(c)
    <3>1. /\ call'[c].pc = "select" /\ call'[c].op = "resumeAi"
          /\ call'[c].ent = [e EXCEPT !.ai = TRUE, !.assignee = None]
      BY <1>3, <2>1, <2>5 DEF ResumeAi, BeginSave
    <3>2. /\ call'[c].ent.ai = TRUE /\ call'[c].ent.assignee = None
          /\ call'[c].ent.unread = e.unread
      BY <1>3, <2>1, <3>1 DEF Row
    <3>3. CallFresh(c)'
      BY <2>1, <2>2, <3>1, <3>2 DEF CallFresh, Whole
    <3> QED BY <1>9, <1>c, <2>2, <3>3
  <2>6. CASE SendHumanMessage(c)
    <3>1. call'[c].pc = "send" /\ call'[c].op = "sendHumanMessage" /\ call'[c].ent = e
      BY <1>3, <2>1, <2>6 DEF SendHumanMessage
    <3>2. CallFresh(c)'
      BY <2>1, <2>2, <3>1 DEF CallFresh, SameOwner, Whole
    <3> QED BY <1>9, <1>c, <2>2, <3>2
  <2> QED BY <1>10, <2>3, <2>4, <2>5, <2>6 DEF StartCall
<1>11. CASE RejectHumanMessage(c) \/ WriteNote(c) \/ CallThrows(c)
  <2>1. Finish(c) /\ convo' = convo
    BY <1>11 DEF RejectHumanMessage, WriteNote, CallThrows, storeVars
  <2> QED BY <1>9, <1>a, <1>c, <2>1
<1>12. CASE SendHumanText(c)
  <2>1. h.pc = "send" /\ convo' = convo /\ (CallGoTo(c, "record") \/ Finish(c))
    BY <1>2, <1>12 DEF SendHumanText, CallAt
  <2>2. CASE CallGoTo(c, "record")
    <3>1. call'[c].pc = "record" /\ call'[c].op = h.op /\ call'[c].ent = h.ent
      BY <1>b, <2>2
    <3>2. h.op = "sendHumanMessage" /\ SameOwner(h.ent) /\ h.ent.unread = convo.unread
      BY <1>2, <1>3, <2>1 DEF CallFresh
    <3>3. CallFresh(c)'
      BY <2>1, <3>1, <3>2 DEF CallFresh, SameOwner, Whole
    <3> QED BY <1>9, <1>c, <2>1, <3>3
  <2> QED BY <1>9, <1>a, <1>c, <2>1, <2>2
<1>13. CASE RecordHumanText(c)
  <2>1. PICK n, e : n = CreatedAt /\ e = h.ent
    OBVIOUS
  <2>2. h.pc = "record" /\ convo' = convo
    BY <1>2, <1>13 DEF RecordHumanText, CallAt
  <2>3. call'[c] = [h EXCEPT !.pc = "select", !.ent.last = n]
    BY <1>2, <1>3, <1>13, <2>1 DEF RecordHumanText
  <2>4. /\ call'[c].pc = "select" /\ call'[c].op = h.op
        /\ call'[c].ent = [e EXCEPT !.last = n]
    BY <1>3, <2>1, <2>3 DEF Call
  <2>5. /\ call'[c].ent.ai = e.ai /\ call'[c].ent.assignee = e.assignee
        /\ call'[c].ent.unread = e.unread
    BY <1>3, <2>1, <2>4 DEF Row
  <2>6. h.op = "sendHumanMessage" /\ SameOwner(e) /\ e.unread = convo.unread
    BY <1>2, <1>3, <2>1, <2>2 DEF CallFresh
  <2>7. CallFresh(c)'
    BY <2>2, <2>4, <2>5, <2>6 DEF CallFresh, SameOwner, Whole
  <2> QED BY <1>9, <1>c, <2>2, <2>7
<1>14. CASE SelectConversation(c)
  <2>1. h.pc = "select" /\ convo' = convo
    BY <1>2, <1>14 DEF SelectConversation, CallAt, storeVars
  <2>2. PICK d : d = DirtyColumns(h.ent)
    OBVIOUS
  <2>3. call'[c] = [h EXCEPT !.pc = "update", !.dirty = d]
    BY <1>2, <1>3, <1>14, <2>2 DEF SelectConversation, SelectForSave
  <2>4. /\ call'[c].pc = "update" /\ call'[c].dirty = d /\ call'[c].ent = h.ent
        /\ call'[c].op = h.op
    BY <1>3, <2>3 DEF Call
  <2>5. Whole(call[c])'
    BY <2>1, <2>2, <2>4, SelectsAll DEF Whole
  <2>6. CallFresh(c)'
    BY <1>2, <1>3, <2>1, <2>4, <2>5 DEF CallFresh, SameOwner
  <2> QED BY <1>9, <1>c, <2>1, <2>6
<1>15. CASE UpdateConversation(c)
  <2>1. h.pc = "update" /\ Overwrite(h.ent, h.dirty) /\ (CallGoTo(c, "note") \/ Finish(c))
    BY <1>2, <1>15 DEF UpdateConversation, CallAt
  <2>2. convo'.ai = h.ent.ai /\ convo'.assignee = h.ent.assignee /\ convo'.unread = h.ent.unread
    BY <1>2, <1>3, <2>1, SavesAll DEF CallFresh, Whole
  <2>3. \/ SameOwner(h.ent) /\ h.ent.unread \in {convo.unread, 0}
        \/ h.ent.ai = FALSE /\ h.ent.assignee \in Staff /\ h.ent.unread = convo.unread
        \/ h.ent.ai = TRUE /\ h.ent.assignee = None /\ h.ent.unread = convo.unread
    BY <1>2, <1>3, <2>1 DEF CallFresh
  <2>4. ContractStep
    BY <2>2, <2>3 DEF SameOwner, Kept, ContractStep
  <2>5. CallFresh(c)'
    <3>1. CASE CallGoTo(c, "note")
      <4>1. call'[c].pc = "note"
        BY <1>b, <3>1
      <4> QED BY <4>1 DEF CallFresh, Whole
    <3> QED BY <1>a, <2>1, <3>1
  <2> QED BY <1>9, <2>4, <2>5
<1> QED BY <1>1, <1>10, <1>11, <1>12, <1>13, <1>14, <1>15 DEF CallStep

LEMMA SerialReply ==
  ASSUME TypeOK, SerialInv, MaxInFlight = 1, ReplyNext PROVE SerialInv' /\ ContractStep
<1>1. PICK m \in Inbounds :
        \/ CanStart /\ (ProcessAutoReply(m) \/ FallbackAutoReply(m))
        \/ ReplyStep(m)
        \/ GenerateReplyThrows(m)
        \/ ReplyThrows(m)
  BY DEF ReplyNext
<1>2. PICK h : h = attempt[m]
  OBVIOUS
<1>3. /\ attempt \in [Inbounds -> Attempt] /\ h \in Attempt /\ h.ent \in Row /\ convo \in Row
      /\ queue \in [Inbounds -> Job] /\ ReplyFresh(m)
  BY <1>2 DEF TypeOK, ReplyTypeOK, QueueTypeOK, StoreTypeOK, Attempt, SerialInv
<1>4. /\ \A r \in Requests : ~HookBusy(r)
      /\ \A c \in StaffCalls : ~CallBusy(c)
      /\ \A l \in Inbounds \ {m} : ~ReplyBusy(l)
  <2>1. CASE ReplyBusy(m)
    BY <2>1 DEF SerialInv, Alone
  <2>2. CASE ~ReplyBusy(m)
    <3>1. CanStart
      BY <1>1, <2>2 DEF ReplyBusy, ReplyStep, LoadConversation, SkipReply, ChooseReply, SkipFallback,
         SendAiText, RecordAiText, SelectForReply, UpdateForReply, GenerateReplyThrows, ReplyThrows,
         ReplyAt
    <3> QED BY <3>1, NobodyIsBusy DEF SerialInv
  <2> QED BY <2>1, <2>2
<1>5. "conversation" \in rows
  <2>1. CASE ReplyBusy(m)
    BY <2>1 DEF SerialInv, RowIsThere
  <2>2. CASE ~ReplyBusy(m)
    <3>1. ProcessAutoReply(m) \/ FallbackAutoReply(m)
      BY <1>1, <2>2 DEF ReplyBusy, ReplyStep, LoadConversation, SkipReply, ChooseReply, SkipFallback,
         SendAiText, RecordAiText, SelectForReply, UpdateForReply, GenerateReplyThrows, ReplyThrows,
         ReplyAt
    <3>2. queue[m].state # "absent"
      BY <3>1 DEF ProcessAutoReply, FallbackAutoReply
    <3> QED BY <3>2 DEF SerialInv, RowIsThere
  <2> QED BY <2>1, <2>2
<1>6. /\ \A l \in Inbounds \ {m} : attempt'[l] = attempt[l]
      /\ UNCHANGED <<rows, hook, call>>
  BY <1>1, <1>3 DEF ReplyNext, ProcessAutoReply, FallbackAutoReply, ReplyStep, LoadConversation,
     SkipReply, ChooseReply, SkipFallback, SendAiText, RecordAiText, SelectForReply, UpdateForReply,
     GenerateReplyThrows, ReplyThrows, Return, Throw, LeaveApi, ReplyGoTo, storeVars
<1>7. Alone'
  <2>1. /\ \A r \in Requests : ~HookBusy(r)'
        /\ \A c \in StaffCalls : ~CallBusy(c)'
        /\ \A l \in Inbounds \ {m} : ~ReplyBusy(l)'
    BY <1>4, <1>6 DEF HookBusy, CallBusy, ReplyBusy
  <2> QED BY <2>1 DEF Alone
<1>8. /\ \A r \in Requests : HookFresh(r)'
      /\ \A c \in StaffCalls : CallFresh(c)'
      /\ \A l \in Inbounds \ {m} : ReplyFresh(l)'
  <2>1. /\ \A r \in Requests : hook'[r].pc = "idle"
        /\ \A c \in StaffCalls : call'[c].pc \in {"ready", "done"}
        /\ \A l \in Inbounds \ {m} : attempt'[l].pc = "idle"
    BY <1>4, <1>6 DEF HookBusy, CallBusy, ReplyBusy
  <2> QED BY <2>1 DEF HookFresh, CallFresh, ReplyFresh, Whole
<1>9. ASSUME ReplyFresh(m)' PROVE SerialInv'
  <2>1. RowIsThere'
    BY <1>5, <1>6 DEF RowIsThere
  <2> QED BY <1>7, <1>8, <1>9, <2>1 DEF SerialInv
<1>a. ASSUME LeaveApi(m) PROVE ReplyFresh(m)'
  <2>1. attempt'[m].pc = "idle"
    BY <1>3, <1>a DEF LeaveApi, NoAttempt
  <2> QED BY <2>1 DEF ReplyFresh, Whole
<1>b. ASSUME NEW step, ReplyGoTo(m, step)
      PROVE  attempt'[m].pc = step /\ attempt'[m].plan = h.plan /\ attempt'[m].ent = h.ent
  BY <1>2, <1>3, <1>b DEF ReplyGoTo, Attempt
<1>c. ASSUME convo' = convo PROVE ContractStep
  BY <1>c DEF Kept, ContractStep
<1>d. ASSUME convo' = convo, LeaveApi(m) PROVE SerialInv' /\ ContractStep
  BY <1>9, <1>a, <1>c, <1>d
<1>10. CASE ProcessAutoReply(m)
  <2>1. attempt'[m].pc = "load" /\ convo' = convo
    BY <1>10, <1>b DEF ProcessAutoReply, storeVars
  <2>2. ReplyFresh(m)'
    BY <2>1 DEF ReplyFresh, Whole
  <2> QED BY <1>9, <1>c, <2>1, <2>2
<1>11. CASE FallbackAutoReply(m)
  <2>1. PICK e : e = convo
    OBVIOUS
  <2>2. convo' = convo /\ attempt'[m] = [h EXCEPT !.pc = "send", !.plan = "escalate", !.ent = e]
    BY <1>2, <1>3, <1>11, <2>1 DEF FallbackAutoReply, storeVars
  <2>3. attempt'[m].pc = "send" /\ attempt'[m].plan = "escalate" /\ attempt'[m].ent = e
    BY <1>3, <2>2 DEF Attempt
  <2>4. ReplyFresh(m)'
    BY <2>1, <2>2, <2>3 DEF ReplyFresh, Whole
  <2> QED BY <1>9, <1>c, <2>2, <2>4
<1>12. CASE LoadConversation(m)
  <2>1. convo' = convo
    BY <1>12 DEF LoadConversation, storeVars
  <2>2. CASE Return(m) \/ Throw(m)
    BY <1>d, <2>1, <2>2 DEF Return, Throw
  <2>3. CASE attempt' = [attempt EXCEPT ![m].pc = "route", ![m].ent = convo]
    <3>1. PICK e : e = convo
      OBVIOUS
    <3>2. attempt'[m] = [h EXCEPT !.pc = "route", !.ent = e]
      BY <1>2, <1>3, <2>3, <3>1
    <3>3. attempt'[m].pc = "route" /\ attempt'[m].ent = e
      BY <1>3, <3>2 DEF Attempt
    <3>4. ReplyFresh(m)'
      BY <2>1, <3>1, <3>3 DEF ReplyFresh, Whole
    <3> QED BY <1>9, <1>c, <2>1, <3>4
  <2> QED BY <1>12, <2>2, <2>3 DEF LoadConversation
<1>13. CASE SkipReply(m) \/ SkipFallback(m) \/ GenerateReplyThrows(m) \/ ReplyThrows(m)
  <2>1. convo' = convo /\ LeaveApi(m)
    BY <1>13 DEF SkipReply, SkipFallback, GenerateReplyThrows, ReplyThrows, Return, Throw, storeVars
  <2> QED BY <1>d, <2>1
<1>14. CASE ChooseReply(m)
  <2>1. PICK plan \in {"reply", "escalate"} :
          attempt' = [attempt EXCEPT ![m].pc = "send", ![m].plan = plan]
    BY <1>14 DEF ChooseReply
  <2>2. h.pc = "route" /\ convo' = convo
    BY <1>2, <1>14 DEF ChooseReply, ReplyAt, storeVars
  <2>3. attempt'[m] = [h EXCEPT !.pc = "send", !.plan = plan]
    BY <1>2, <1>3, <2>1
  <2>4. attempt'[m].pc = "send" /\ attempt'[m].plan = plan /\ attempt'[m].ent = h.ent
    BY <1>3, <2>3 DEF Attempt
  <2>5. h.ent.ai = convo.ai /\ h.ent.assignee = convo.assignee /\ h.ent.unread = convo.unread
    BY <1>2, <1>3, <2>2 DEF ReplyFresh
  <2>6. ReplyFresh(m)'
    BY <2>2, <2>4, <2>5 DEF ReplyFresh, Whole
  <2> QED BY <1>9, <1>c, <2>2, <2>6
<1>15. CASE SendAiText(m)
  <2>1. h.pc = "send" /\ convo' = convo
    BY <1>2, <1>15 DEF SendAiText, ReplyAt
  <2>2. CASE ReplyGoTo(m, "record")
    <3>1. attempt'[m].pc = "record" /\ attempt'[m].plan = h.plan /\ attempt'[m].ent = h.ent
      BY <1>b, <2>2
    <3>2. /\ h.ent.ai = convo.ai /\ h.ent.assignee = convo.assignee /\ h.ent.unread = convo.unread
          /\ h.plan # "pause"
      BY <1>2, <1>3, <2>1 DEF ReplyFresh
    <3>3. ReplyFresh(m)'
      BY <2>1, <3>1, <3>2 DEF ReplyFresh, Whole
    <3> QED BY <1>9, <1>c, <2>1, <3>3
  <2>3. CASE Throw(m)
    BY <1>d, <2>1, <2>3 DEF Throw
  <2> QED BY <1>15, <2>2, <2>3 DEF SendAiText
<1>16. CASE RecordAiText(m)
  <2>1. PICK n, e : n = CreatedAt /\ e = h.ent
    OBVIOUS
  <2>2. h.pc = "record" /\ convo' = convo
    BY <1>2, <1>16 DEF RecordAiText, ReplyAt
  <2>3. attempt'[m] = [h EXCEPT !.pc = "select", !.ent.last = n]
    BY <1>2, <1>3, <1>16, <2>1 DEF RecordAiText
  <2>4. /\ attempt'[m].pc = "select" /\ attempt'[m].plan = h.plan
        /\ attempt'[m].ent = [e EXCEPT !.last = n]
    BY <1>3, <2>1, <2>3 DEF Attempt
  <2>5. /\ attempt'[m].ent.ai = e.ai /\ attempt'[m].ent.assignee = e.assignee
        /\ attempt'[m].ent.unread = e.unread
    BY <1>3, <2>1, <2>4 DEF Row
  <2>6. /\ e.ai = convo.ai /\ e.assignee = convo.assignee /\ e.unread = convo.unread
        /\ h.plan # "pause"
    BY <1>2, <1>3, <2>1, <2>2 DEF ReplyFresh
  <2>7. ReplyFresh(m)'
    BY <2>2, <2>4, <2>5, <2>6 DEF ReplyFresh, Whole
  <2> QED BY <1>9, <1>c, <2>2, <2>7
<1>17. CASE SelectForReply(m)
  <2>1. h.pc = "select" /\ convo' = convo
    BY <1>2, <1>17 DEF SelectForReply, ReplyAt, storeVars
  <2>2. PICK d : d = DirtyColumns(h.ent)
    OBVIOUS
  <2>3. attempt'[m] = [h EXCEPT !.pc = "update", !.dirty = d]
    BY <1>2, <1>3, <1>17, <2>2 DEF SelectForReply, SelectForSave
  <2>4. /\ attempt'[m].pc = "update" /\ attempt'[m].dirty = d /\ attempt'[m].ent = h.ent
        /\ attempt'[m].plan = h.plan
    BY <1>3, <2>3 DEF Attempt
  <2>5. Whole(attempt[m])'
    BY <2>1, <2>2, <2>4, SelectsAll DEF Whole
  <2>6. ReplyFresh(m)'
    BY <1>2, <1>3, <2>1, <2>4, <2>5 DEF ReplyFresh
  <2> QED BY <1>9, <1>c, <2>1, <2>6
<1>18. CASE UpdateForReply(m)
  <2>1. h.pc = "update" /\ Overwrite(h.ent, h.dirty)
    BY <1>2, <1>18 DEF UpdateForReply, ReplyAt
  <2>2. convo'.ai = h.ent.ai /\ convo'.assignee = h.ent.assignee /\ convo'.unread = h.ent.unread
    BY <1>2, <1>3, <2>1, SavesAll DEF ReplyFresh, Whole
  <2>3. /\ h.ent.assignee = convo.assignee /\ h.ent.unread = convo.unread
        /\ h.ent.ai = convo.ai \/ h.ent.ai = FALSE
    BY <1>2, <1>3, <2>1 DEF ReplyFresh
  <2>4. ContractStep
    BY <2>2, <2>3 DEF Kept, ContractStep
  <2>5. CASE h.plan = "escalate"
    <3>1. PICK e : e = h.ent
      OBVIOUS
    <3>2. attempt'[m] = [h EXCEPT !.pc = "select", !.plan = "pause", !.ent.ai = FALSE]
      BY <1>2, <1>3, <1>18, <2>5 DEF UpdateForReply
    <3>3. /\ attempt'[m].pc = "select" /\ attempt'[m].plan = "pause"
          /\ attempt'[m].ent = [e EXCEPT !.ai = FALSE]
      BY <1>3, <3>1, <3>2 DEF Attempt
    <3>4. /\ attempt'[m].ent.ai = FALSE /\ attempt'[m].ent.assignee = e.assignee
          /\ attempt'[m].ent.unread = e.unread
      BY <1>3, <3>1, <3>3 DEF Row
    <3>5. ReplyFresh(m)'
      BY <2>2, <3>1, <3>3, <3>4 DEF ReplyFresh, Whole
    <3> QED BY <1>9, <2>4, <3>5
  <2>6. CASE h.plan # "escalate"
    <3>1. LeaveApi(m)
      BY <1>2, <1>18, <2>6 DEF UpdateForReply, Return
    <3> QED BY <1>9, <1>a, <2>4, <3>1
  <2> QED BY <2>5, <2>6
<1> QED BY <1>1, <1>10, <1>11, <1>12, <1>13, <1>14, <1>15, <1>16, <1>17, <1>18 DEF ReplyStep

LEMMA SerialCrash == ASSUME TypeOK, SerialInv, Crash PROVE SerialInv' /\ ContractStep
<1>1. /\ \A r \in Requests : hook'[r].pc = "idle"
      /\ \A m \in Inbounds : attempt'[m].pc = "idle"
      /\ UNCHANGED <<rows, convo>>
  BY DEF Crash, NoHook, NoAttempt
<1>2. \A c \in StaffCalls : call'[c].pc \in {"ready", "done"}
  BY DEF Crash, CallAt, NoCall
<1>3. \A m \in Inbounds : queue[m].state = "absent" => queue'[m].state = "absent"
  BY DEF Crash
<1>4. Alone' /\ RowIsThere'
  BY <1>1, <1>2, <1>3 DEF SerialInv, Alone, RowIsThere, HookBusy, CallBusy, ReplyBusy
<1>5. /\ \A r \in Requests : HookFresh(r)'
      /\ \A c \in StaffCalls : CallFresh(c)'
      /\ \A m \in Inbounds : ReplyFresh(m)'
  BY <1>1, <1>2 DEF HookFresh, CallFresh, ReplyFresh, Whole
<1> QED BY <1>1, <1>4, <1>5 DEF SerialInv, Kept, ContractStep

LEMMA SerialInit == Init => SerialInv
<1> SUFFICES ASSUME Init PROVE SerialInv
  OBVIOUS
<1>1. /\ \A r \in Requests : hook[r].pc = "idle"
      /\ \A m \in Inbounds : attempt[m].pc = "idle" /\ queue[m].state = "absent"
      /\ \A c \in StaffCalls : call[c].pc = "ready"
      /\ convo.ai = TRUE /\ convo.assignee = None /\ convo.unread = 0
  BY DEF Init, StoreInit, QueueInit, HookInit, CallInit, ReplyInit, NoHook, NoAttempt, NoCall, FreshRow
<1>2. Alone /\ RowIsThere
  BY <1>1 DEF Alone, RowIsThere, HookBusy, CallBusy, ReplyBusy
<1> QED BY <1>1, <1>2 DEF SerialInv, HookFresh, CallFresh, ReplyFresh, Whole

LEMMA SerialStep ==
  ASSUME MaxInFlight = 1
  PROVE  TypeOK /\ SerialInv /\ [Next]_vars => SerialInv' /\ ContractStep
<1> SUFFICES ASSUME TypeOK, SerialInv, [Next]_vars PROVE SerialInv' /\ ContractStep
  OBVIOUS
<1>1. CASE Next
  BY <1>1, SerialHook, SerialCall, SerialReply, SerialCrash DEF Next
<1>2. CASE UNCHANGED vars
  <2>1. UNCHANGED <<rows, convo, queue, hook, call, attempt>>
    BY <1>2 DEF vars, storeVars
  <2>2. Alone' /\ RowIsThere'
    BY <2>1 DEF SerialInv, Alone, RowIsThere, HookBusy, CallBusy, ReplyBusy
  <2>3. /\ \A r \in Requests : HookFresh(r)'
        /\ \A c \in StaffCalls : CallFresh(c)'
        /\ \A m \in Inbounds : ReplyFresh(m)'
    BY <2>1 DEF SerialInv, HookFresh, CallFresh, ReplyFresh, Whole, SameOwner
  <2> QED BY <2>1, <2>2, <2>3 DEF SerialInv, Kept, ContractStep
<1> QED BY <1>1, <1>2

(* Where handlers do not overlap, every step of every handler is a step of *)
(* the contract or none of it: only a resume gives the conversation back   *)
(* to the AI, only a hand-off or an escalation takes it away, only a       *)
(* message and markAsRead change the unread count, for any sets of         *)
(* messages, calls and users, with crashes and faults.                     *)
THEOREM SerialHandlersKeepTheContract ==
  ASSUME MaxInFlight = 1
  PROVE  Spec => ContractSpec
<1>1. Init => Contract!Init
  BY DEF Init, StoreInit, FreshRow, Contract!Init
<1>2. Init => TypeOK
  BY TypeInit
<1>3. TypeOK /\ SerialInv /\ [Next]_vars => SerialInv' /\ ContractStep
  BY SerialStep
<1>4. ContractStep => [Contract!Next]_<<convo.ai, convo.assignee, convo.unread>>
  BY DEF ContractStep, Kept, Contract!Next, Contract!Arrive, Contract!Read, Contract!Handoff,
     Contract!Resume, Contract!Escalate, Contract!owner
<1>5. TypeOK /\ [Next]_vars => TypeOK'
  BY TypeNext
<1>6. Init => SerialInv
  BY SerialInit
<1> QED BY <1>1, <1>2, <1>3, <1>4, <1>5, <1>6, PTL DEF Spec, ContractSpec, Contract!Spec
=============================================================================
