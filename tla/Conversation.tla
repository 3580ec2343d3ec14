---------------------------- MODULE Conversation ----------------------------
(***************************************************************************)
(* One conversation with everything that works on it: webhook requests,    *)
(* staff requests and auto-reply calls in one API process, the BullMQ jobs *)
(* between ingestion and the ai-worker, and the faults that may hit them.  *)
(***************************************************************************)
EXTENDS WebhookIngest, StaffInbox, AutoReply

CONSTANT MaxInFlight   \* handlers the API process runs at the same time

ASSUME InFlightAssumption == MaxInFlight \in Nat \ {0}

vars == <<storeVars, queue, hook, acked, call, attempt>>

-----------------------------------------------------------------------------
Init == StoreInit /\ QueueInit /\ HookInit /\ CallInit /\ ReplyInit

InFlight ==
    Cardinality({r \in Requests : ~At(r, "idle")})
  + Cardinality({c \in StaffCalls : call[c].pc \notin {"ready", "done"}})
  + Cardinality({m \in Inbounds : ~ReplyAt(m, "idle")})

CanStart == InFlight < MaxInFlight

(* The API process dies and comes back: webhooks in progress get no 200,   *)
(* staff requests are cut off, and the worker sees its calls fail.         *)
Crash ==
  /\ Fault("crash")
  /\ hook' = [r \in Requests |-> NoHook]
  /\ call' = [c \in StaffCalls |->
                IF CallAt(c, "ready") THEN call[c]
                ELSE [NoCall EXCEPT !.pc = "done", !.op = call[c].op]]
  /\ attempt' = [m \in Inbounds |-> NoAttempt]
  /\ queue' = [m \in Inbounds |->
                 CASE queue[m].state = "active" ->
                        [state |-> IF queue[m].failures + 1 < MaxAttempts
                                     THEN "waiting" ELSE "exhausted",
                         failures |-> queue[m].failures + 1]
                   [] queue[m].state = "fallback" ->
                        [queue[m] EXCEPT !.state = "failed"]
                   [] OTHER -> queue[m]]
  /\ UNCHANGED <<rows, convo, message, accepted, acked>>

HookNext ==
  /\ \E r \in Requests :
       \/ CanStart /\ \E m \in Inbounds : ReceiveMetaWebhook(r, m)
       \/ HookStep(r)
       \/ IngestThrows(r)
  /\ UNCHANGED <<call, attempt>>

CallNext ==
  /\ \E c \in StaffCalls :
       \/ CanStart /\ StartCall(c)
       \/ CallStep(c)
       \/ CallThrows(c)
  /\ UNCHANGED <<queue, hook, acked, attempt>>

ReplyNext ==
  /\ \E m \in Inbounds :
       \/ CanStart /\ (ProcessAutoReply(m) \/ FallbackAutoReply(m))
       \/ ReplyStep(m)
       \/ GenerateReplyThrows(m)
       \/ ReplyThrows(m)
  /\ UNCHANGED <<hook, acked, call>>

Next == HookNext \/ CallNext \/ ReplyNext \/ Crash

Spec == Init /\ [][Next]_vars

(***************************************************************************)
(* A promise chain in the API process runs on until it settles (WF of each *)
(* handler's steps), the worker keeps taking jobs and makes the fallback   *)
(* call, and Meta goes on delivering a message until it gets a 200: its    *)
(* retries compete with other deliveries for a request slot, hence SF.     *)
(***************************************************************************)
Fairness ==
  /\ \A r \in Requests :
       WF_vars(HookStep(r) /\ UNCHANGED <<call, attempt>>)
  /\ \A c \in StaffCalls :
       WF_vars(CallStep(c) /\ UNCHANGED <<queue, hook, acked, attempt>>)
  /\ \A m \in Inbounds :
       /\ WF_vars(ReplyStep(m) /\ UNCHANGED <<hook, acked, call>>)
       /\ WF_vars(/\ CanStart /\ (ProcessAutoReply(m) \/ FallbackAutoReply(m))
                  /\ UNCHANGED <<hook, acked, call>>)
       /\ SF_vars(/\ m \notin acked /\ CanStart
                  /\ \E r \in Requests : ReceiveMetaWebhook(r, m)
                  /\ UNCHANGED <<call, attempt>>)

FairSpec == Spec /\ Fairness

-----------------------------------------------------------------------------
(* Every variable has its type.                                            *)
TypeOK == StoreTypeOK /\ QueueTypeOK /\ HookTypeOK /\ CallTypeOK /\ ReplyTypeOK

(* Saves that write back old counters can lose an increment, but the inbox *)
(* badge never shows more unread messages than the contact sent            *)
(* (ingestInboundMessage, markAsRead).                                     *)
UnreadNeverOvercounts == convo.unread <= Cardinality(StoredInbound)

(* The inbox shows every text WhatsApp accepted and no other, but for one  *)
(* per fault and the one whose handler is between sendText and the insert  *)
(* (sendAiMessage, sendHumanMessage).                                      *)
BeingRecorded(x) ==
  IF x \in Inbounds THEN ReplyAt(x, "record") ELSE CallAt(x, "record")

InboxMatchesPhone ==
  \A x \in Originators :
    LET recorded == Cardinality(OutRows(x))
        pending  == IF BeingRecorded(x) THEN 1 ELSE 0
    IN  /\ recorded + pending <= accepted[x]
        /\ accepted[x] <= recorded + pending + faults

(* Retries and the fallback together answer a message at most once, plus   *)
(* once for every fault: a second answer needs an attempt that failed      *)
(* after WhatsApp had accepted its text (processAutoReply).                *)
RepliesBoundedByFaults == \A m \in Inbounds : accepted[m] <= 1 + faults

(* A message Meta got its 200 for, and so will not deliver again, is in    *)
(* the message table (receiveMetaWebhook).                                 *)
AckedImpliesStored ==
  \A m \in acked : m \in StoredInbound \/ \E r \in Requests : hook[r].msg = m

(* A stored message has its auto-reply job or a handler on its way to add  *)
(* it, however deliveries and staff requests interleave, unless a step     *)
(* failed after the insert (ingestInboundMessage, enqueueAutoReply).       *)
StoredIsQueued ==
  faults = 0 =>
    \A m \in StoredInbound : queue[m].state # "absent" \/
      \E r \in Requests : hook[r].msg = m /\
        hook[r].pc \in {"select", "update", "lead", "enqueue"}

-----------------------------------------------------------------------------
(* Handlers whose entity says that the AI owns the conversation and who    *)
(* have not yet written it back.                                           *)
HookClaims(r) ==
  hook[r].pc \in {"insertMessage", "select", "update"} /\ hook[r].ent.ai
CallClaims(c) ==
  call[c].pc \in {"send", "record", "select", "update"} /\ call[c].ent.ai
ReplyClaims(m) ==
  attempt[m].pc \notin {"idle", "load"} /\ attempt[m].ent.ai

AiClaims ==
  \/ \E r \in Requests : HookClaims(r)
  \/ \E c \in StaffCalls : CallClaims(c)
  \/ \E m \in Inbounds : ReplyClaims(m)

TakenOver == "conversation" \in rows /\ ~convo.ai /\ ~AiClaims

BeginsResume ==
  \E c \in StaffCalls : CallAt(c, "ready") /\ call'[c].op = "resumeAi"

(* Once the handlers that read the row before a takeover have finished,    *)
(* the takeover holds until a member of the staff asks for the AI again,   *)
(* and the contact gets nothing from the AI but the text of a fallback     *)
(* call (handoffToHuman, the aiHandled guard of processAutoReply).         *)
TakeoverHolds ==
  [][TakenOver => /\ TakenOver' \/ BeginsResume
                  /\ \A m \in Inbounds :
                       accepted'[m] # accepted[m] => queue[m].state = "fallback"]_vars

(* A member of the staff can take over at any time and the flag stays down *)
(* until somebody resumes the AI (the comment on Conversation.aiHandled).  *)
ResumeWrites ==
  \E c \in StaffCalls : call[c].op = "resumeAi" /\ CallAt(c, "update")
                        /\ call'[c].pc = "note"

OnlyResumeReenablesAi == [][~convo.ai /\ convo'.ai => ResumeWrites]_vars

-----------------------------------------------------------------------------
(* Ingestion and queueing keep the promise of InboundOnce, whatever the    *)
(* interleaving and the faults.                                            *)
InboundRows ==
  {[id |-> i, msg |-> message[i].of] :
     i \in {j \in DOMAIN message : message[j].kind = "in"}}

Once == INSTANCE InboundOnce WITH
          stored <- InboundRows,
          enqueued <- {m \in Inbounds : queue[m].state # "absent"}

InboundOnceSpec == Once!Spec

(* Handlers that do not overlap keep the promise of ConversationContract.  *)
Contract == INSTANCE ConversationContract WITH
              ai <- convo.ai, assignee <- convo.assignee,
              unread <- convo.unread

ContractSpec == Contract!Spec

-----------------------------------------------------------------------------
(* Every job the webhook queues is answered, skipped, or ends with the     *)
(* fallback call (AiQueueService, AiInternalController).                   *)
EveryJobSettles ==
  \A m \in Inbounds : queue[m].state = "waiting" ~> Settled(m)

(* A message Meta delivers is stored in the end, whatever crashes.         *)
EveryInboundIsStored == \A m \in Inbounds : <>(m \in StoredInbound)
=============================================================================
