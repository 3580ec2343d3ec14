--------------------------- MODULE WebhookIngest ---------------------------
(***************************************************************************)
(* WhatsappService.receiveMetaWebhook / ingestInboundMessage: one webhook  *)
(* request per slot, one step per await.  A payload carries one message    *)
(* (the items of a batch are ingested one after the other, each in its own *)
(* try).  Whatever happens to a message that entered ingestInboundMessage, *)
(* the error is swallowed and Meta gets its 200; only a crash of the       *)
(* process leaves it without one.  Meta may deliver a message any number   *)
(* of times, also concurrently.                                            *)
(***************************************************************************)
EXTENDS ReplyQueue

CONSTANT Requests   \* webhook requests the API can have in progress

VARIABLES
  hook,    \* per request: where the handler is and what it holds
  acked    \* messages Meta got a 200 for

IngestSteps == {"idle", "dedupe", "findContact", "insertContact", "findConvo",
                "insertConvo", "insertMessage", "select", "update", "lead",
                "enqueue"}

Hook == [pc : IngestSteps, msg : Inbounds \cup {None}, ent : Row,
         dirty : SUBSET Columns]

NoHook == [pc |-> "idle", msg |-> None, ent |-> FreshRow, dirty |-> {}]

HookInit ==
  /\ hook = [r \in Requests |-> NoHook]
  /\ acked = {}

HookTypeOK ==
  /\ hook \in [Requests -> Hook]
  /\ \A r \in Requests : hook[r].pc # "idle" => hook[r].msg \in Inbounds
  /\ acked \subseteq Inbounds

-----------------------------------------------------------------------------
At(r, step) == hook[r].pc = step
GoTo(r, step) == hook' = [hook EXCEPT ![r].pc = step] /\ UNCHANGED acked
Hold(r, ent, step) ==
  hook' = [hook EXCEPT ![r].pc = step, ![r].ent = ent] /\ UNCHANGED acked

(* The handler is over, by return or by a swallowed throw: 200 to Meta.    *)
Acknowledge(r) ==
  /\ acked' = acked \cup {hook[r].msg}
  /\ hook' = [hook EXCEPT ![r] = NoHook]

(* Mutant: Meta gets its 200 before the message is worked on.              *)
ReceiveAndAnswer(r, m) ==
  /\ At(r, "idle")
  /\ hook' = [hook EXCEPT ![r].pc = "dedupe", ![r].msg = m]
  /\ acked' = acked \cup {m}
  /\ UNCHANGED <<queue, storeVars>>

ReceiveMetaWebhook(r, m) ==
  /\ At(r, "idle")
  /\ hook' = [hook EXCEPT ![r].pc = "dedupe", ![r].msg = m]
  /\ UNCHANGED <<acked, queue, storeVars>>

(* Mutant: a delivery is a duplicate as soon as another one is in work.    *)
FindExistingOrInWork(r) ==
  /\ At(r, "dedupe")
  /\ IF \/ hook[r].msg \in StoredInbound
        \/ \E q \in Requests \ {r} : hook[q].msg = hook[r].msg
       THEN Acknowledge(r) ELSE GoTo(r, "findContact")
  /\ UNCHANGED <<queue, storeVars>>

FindExisting(r) ==
  /\ At(r, "dedupe")
  /\ IF hook[r].msg \in StoredInbound THEN Acknowledge(r)
                                      ELSE GoTo(r, "findContact")
  /\ UNCHANGED <<queue, storeVars>>

FindContact(r) ==
  /\ At(r, "findContact")
  /\ GoTo(r, IF "contact" \in rows THEN "findConvo" ELSE "insertContact")
  /\ UNCHANGED <<queue, storeVars>>

(* phone_number is unique: a row inserted since the find makes this throw. *)
InsertContact(r) ==
  /\ At(r, "insertContact")
  /\ IF "contact" \in rows
       THEN Acknowledge(r) /\ UNCHANGED rows
       ELSE GoTo(r, "findConvo") /\ rows' = rows \cup {"contact"}
  /\ UNCHANGED <<queue, convo, message, accepted, faults>>

FindConversation(r) ==
  /\ At(r, "findConvo")
  /\ IF "conversation" \in rows THEN Hold(r, convo, "insertMessage")
                                ELSE GoTo(r, "insertConvo")
  /\ UNCHANGED <<queue, storeVars>>

(* (channel_id, contact_id) is unique.                                     *)
InsertConversation(r) ==
  /\ At(r, "insertConvo")
  /\ IF "conversation" \in rows
       THEN Acknowledge(r) /\ UNCHANGED <<rows, convo>>
       ELSE /\ Hold(r, FreshRow, "insertMessage")
            /\ rows' = rows \cup {"conversation"}
            /\ convo' = FreshRow
  /\ UNCHANGED <<queue, message, accepted, faults>>

(* Mutant: no unique index on external_id.                                 *)
InsertInboundTwice(r) ==
  /\ At(r, "insertMessage")
  /\ InsertMessage("in", hook[r].msg)
  /\ Hold(r, [hook[r].ent EXCEPT !.unread = @ + 1, !.last = CreatedAt], "select")
  /\ UNCHANGED <<queue, rows, convo, accepted, faults>>

(* Mutant: a new message gives the conversation back to the AI.            *)
InsertInboundReopens(r) ==
  /\ At(r, "insertMessage")
  /\ IF hook[r].msg \in StoredInbound
       THEN Acknowledge(r) /\ UNCHANGED message
       ELSE /\ InsertMessage("in", hook[r].msg)
            /\ Hold(r, [hook[r].ent EXCEPT !.unread = @ + 1, !.ai = TRUE,
                                           !.last = CreatedAt], "select")
  /\ UNCHANGED <<queue, rows, convo, accepted, faults>>

(* external_id is unique.  The counters are then set on the entity read    *)
(* before the insert.                                                      *)
InsertInbound(r) ==
  /\ At(r, "insertMessage")
  /\ IF hook[r].msg \in StoredInbound
       THEN Acknowledge(r) /\ UNCHANGED message
       ELSE /\ InsertMessage("in", hook[r].msg)
            /\ Hold(r, [hook[r].ent EXCEPT !.unread = @ + 1,
                                           !.last = CreatedAt], "select")
  /\ UNCHANGED <<queue, rows, convo, accepted, faults>>

SelectCounters(r) ==
  /\ At(r, "select")
  /\ hook' = [hook EXCEPT ![r] = SelectForSave(@)]
  /\ UNCHANGED <<acked, queue, storeVars>>

UpdateCounters(r) ==
  /\ At(r, "update")
  /\ Overwrite(hook[r].ent, hook[r].dirty)
  /\ GoTo(r, "lead")
  /\ UNCHANGED <<queue, rows, message, accepted, faults>>

(* Mutant: a message that makes no lead ends the handler.                  *)
CaptureLeadReturns(r) ==
  /\ At(r, "lead")
  /\ GoTo(r, "enqueue") \/ Acknowledge(r)
  /\ UNCHANGED <<queue, storeVars>>

(* The lead row itself is not part of this model; what matters here is     *)
(* that the call is outside the try below, so that its failure (see        *)
(* IngestThrows) skips the enqueue.                                        *)
CaptureLead(r) ==
  /\ At(r, "lead")
  /\ GoTo(r, "enqueue")
  /\ UNCHANGED <<queue, storeVars>>

EnqueueReply(r) ==
  /\ At(r, "enqueue")
  /\ EnqueueAutoReply(hook[r].msg)
  /\ Acknowledge(r)
  /\ UNCHANGED storeVars

(* Any await of the handler rejects, the queue's add included: the error   *)
(* is logged and the webhook still answers 200.                            *)
IngestThrows(r) ==
  /\ ~At(r, "idle")
  /\ Fault("db")
  /\ Acknowledge(r)
  /\ UNCHANGED <<queue, rows, convo, message, accepted>>

-----------------------------------------------------------------------------
HookStep(r) ==
  \/ FindExisting(r)
  \/ FindContact(r)
  \/ InsertContact(r)
  \/ FindConversation(r)
  \/ InsertConversation(r)
  \/ InsertInbound(r)
  \/ SelectCounters(r)
  \/ UpdateCounters(r)
  \/ CaptureLead(r)
  \/ EnqueueReply(r)
=============================================================================
