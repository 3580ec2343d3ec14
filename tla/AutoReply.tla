----------------------------- MODULE AutoReply -----------------------------
(***************************************************************************)
(* AiAutoReplyService as the ai-worker drives it: processAutoReply for     *)
(* each attempt of a job, fallbackAutoReply once the attempts are used up, *)
(* both sending through sendAiMessage.  What decides between the canned    *)
(* replies, the cached answer and the LLM does not matter here: any        *)
(* attempt that passes the guards may take any route, and a route either   *)
(* replies or also hands the conversation over to the staff.               *)
(***************************************************************************)
EXTENDS ReplyQueue

CONSTANT TextInbounds   \* the inbound messages of type 'text'

ASSUME ReplyAssumption == TextInbounds \subseteq Inbounds

VARIABLE attempt   \* per job: the auto-reply or fallback call in progress

ReplySteps == {"idle", "load", "route", "send", "record", "select", "update"}

(* "reply": sends and is done.  "escalate": sends, and then pauses the AI; *)
(* "pause": the second save of an escalation.                              *)
ReplyPlans == {"reply", "escalate", "pause"}

Attempt == [pc : ReplySteps, plan : ReplyPlans, ent : Row,
            dirty : SUBSET Columns]

NoAttempt == [pc |-> "idle", plan |-> "reply", ent |-> FreshRow, dirty |-> {}]

ReplyInit == attempt = [m \in Inbounds |-> NoAttempt]

ReplyTypeOK == attempt \in [Inbounds -> Attempt]

-----------------------------------------------------------------------------
ReplyAt(m, step) == attempt[m].pc = step
ReplyGoTo(m, step) == attempt' = [attempt EXCEPT ![m].pc = step]
LeaveApi(m) == attempt' = [attempt EXCEPT ![m] = NoAttempt]

(* The call returns, or throws back to the worker.                         *)
Return(m) ==
  /\ LeaveApi(m)
  /\ SetJob(m, IF queue[m].state = "fallback" THEN "failed" ELSE "completed")

Throw(m) ==
  /\ LeaveApi(m)
  /\ IF queue[m].state = "fallback" THEN SetJob(m, "failed")
                                    ELSE FailAttempt(m)

-----------------------------------------------------------------------------
(* The worker takes the job and calls POST /internal/ai/auto-reply.        *)
ProcessAutoReply(m) ==
  /\ queue[m].state = "waiting"
  /\ SetJob(m, "active")
  /\ ReplyGoTo(m, "load")
  /\ UNCHANGED storeVars

(* Mutant: no AI_HANDOFF_PAUSED guard.                                     *)
LoadConversationUnguarded(m) ==
  LET found == "conversation" \in rows /\ m \in StoredInbound
  IN  /\ ReplyAt(m, "load")
      /\ \/ /\ found => m \notin TextInbounds
            /\ Return(m)
         \/ /\ found /\ m \in TextInbounds
            /\ attempt' = [attempt EXCEPT ![m].pc = "route", ![m].ent = convo]
            /\ UNCHANGED queue
      /\ UNCHANGED storeVars

(* Conversation and inbound message are read.  A missing row or a message  *)
(* that is not a text ends the job; a paused conversation fails the        *)
(* attempt (AI_HANDOFF_PAUSED), to be tried again.                         *)
LoadConversation(m) ==
  LET found == "conversation" \in rows /\ m \in StoredInbound
  IN  /\ ReplyAt(m, "load")
      /\ \/ /\ found => convo.ai /\ m \notin TextInbounds
            /\ Return(m)
         \/ /\ found /\ ~convo.ai
            /\ Throw(m)
         \/ /\ found /\ convo.ai /\ m \in TextInbounds
            /\ attempt' = [attempt EXCEPT ![m].pc = "route", ![m].ent = convo]
            /\ UNCHANGED queue
      /\ UNCHANGED storeVars

(* aiEnabled is off, the channel is gone or disconnected, ...              *)
SkipReply(m) ==
  /\ ReplyAt(m, "route")
  /\ Return(m)
  /\ UNCHANGED storeVars

ChooseReply(m) ==
  /\ ReplyAt(m, "route")
  /\ \E plan \in {"reply", "escalate"} :
       attempt' = [attempt EXCEPT ![m].pc = "send", ![m].plan = plan]
  /\ UNCHANGED <<queue, storeVars>>

GenerateReplyThrows(m) ==
  /\ ReplyAt(m, "route")
  /\ Fault("llm")
  /\ Throw(m)
  /\ UNCHANGED <<rows, convo, message, accepted>>

(* The worker calls POST /internal/ai/auto-reply/fallback.                 *)
FallbackAutoReply(m) ==
  /\ queue[m].state = "exhausted"
  /\ SetJob(m, "fallback")
  /\ attempt' = [attempt EXCEPT ![m].pc = "send", ![m].plan = "escalate",
                                ![m].ent = convo]
  /\ UNCHANGED storeVars

(* Channel or contact missing, or the channel has no token.                *)
SkipFallback(m) ==
  /\ ReplyAt(m, "send")
  /\ queue[m].state = "fallback"
  /\ Return(m)
  /\ UNCHANGED storeVars

-----------------------------------------------------------------------------
(* sendAiMessage *)

(* Mutant: an error of the send is logged and the reply recorded anyway.   *)
SendAiTextOrLog(m) ==
  /\ ReplyAt(m, "send")
  /\ SendReturns(m) \/ SendThrows(m)
  /\ ReplyGoTo(m, "record")
  /\ UNCHANGED <<queue, rows, convo, message>>

SendAiText(m) ==
  /\ ReplyAt(m, "send")
  /\ \/ SendReturns(m) /\ ReplyGoTo(m, "record") /\ UNCHANGED queue
     \/ SendThrows(m) /\ Throw(m)
  /\ UNCHANGED <<rows, convo, message>>

RecordAiText(m) ==
  /\ ReplyAt(m, "record")
  /\ InsertMessage("out", m)
  /\ attempt' = [attempt EXCEPT ![m].pc = "select", ![m].ent.last = CreatedAt]
  /\ UNCHANGED <<queue, rows, convo, accepted, faults>>

(* Mutant: AI_HANDOFF_PAUSED is checked again after the send.              *)
SelectUnlessPaused(m) ==
  /\ ReplyAt(m, "select")
  /\ IF convo.ai
       THEN attempt' = [attempt EXCEPT ![m] = SelectForSave(@)] /\ UNCHANGED queue
       ELSE Throw(m)
  /\ UNCHANGED storeVars

SelectForReply(m) ==
  /\ ReplyAt(m, "select")
  /\ attempt' = [attempt EXCEPT ![m] = SelectForSave(@)]
  /\ UNCHANGED <<queue, storeVars>>

(* An escalation saves a second time, with the AI paused on the same       *)
(* entity.                                                                 *)
UpdateForReply(m) ==
  /\ ReplyAt(m, "update")
  /\ Overwrite(attempt[m].ent, attempt[m].dirty)
  /\ IF attempt[m].plan = "escalate"
       THEN /\ attempt' = [attempt EXCEPT ![m].pc = "select",
                                          ![m].plan = "pause",
                                          ![m].ent.ai = FALSE]
            /\ UNCHANGED queue
       ELSE Return(m)
  /\ UNCHANGED <<rows, message, accepted, faults>>

(* Any database await of the call rejects.                                 *)
ReplyThrows(m) ==
  /\ ~ReplyAt(m, "idle")
  /\ Fault("db")
  /\ Throw(m)
  /\ UNCHANGED <<rows, convo, message, accepted>>

-----------------------------------------------------------------------------
ReplyStep(m) ==
  \/ LoadConversation(m)
  \/ SkipReply(m)
  \/ ChooseReply(m)
  \/ SkipFallback(m)
  \/ SendAiText(m)
  \/ RecordAiText(m)
  \/ SelectForReply(m)
  \/ UpdateForReply(m)
=============================================================================
