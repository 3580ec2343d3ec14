---------------------------- MODULE InboxRealtime ----------------------------
(***************************************************************************)
(* The inbox stream: the webhook and a manual send publish an event after  *)
(* they stored a message; Redis hands it to the connections subscribed at  *)
(* that moment and to nobody else; the stream passes it on to the browser, *)
(* which reads the inbox again.  The event says only that something        *)
(* happened, so events are counted.                                        *)
(***************************************************************************)
EXTENDS Naturals, FiniteSets

CONSTANT Deliveries   \* messages that a webhook or a manual send stores

ASSUME RealtimeAssumption == IsFiniteSet(Deliveries)

VARIABLES
  saved,      \* messages with a row
  inList,     \* messages their conversation shows: last message, unread count
  announced,  \* deliveries whose publish is over
  gone,       \* deliveries whose process stopped before it
  stream,     \* the stream's own Redis connection
  wire,       \* events under way to the browser
  view,       \* what the browser read last
  missed      \* not in the code: an event was lost since that reading

streamVars == <<saved, inList, announced, gone, stream, wire, view, missed>>
stores == <<saved, inList, announced, gone>>

StreamTypeOK ==
  /\ saved \subseteq Deliveries /\ inList \subseteq saved
  /\ announced \subseteq inList /\ gone \subseteq saved \ announced
  /\ stream \in {"closed", "subscribing", "open", "broken"}
  /\ wire \in 0..Cardinality(announced)
  /\ view \subseteq inList
  /\ missed \in BOOLEAN

StreamInit ==
  /\ saved = {} /\ inList = {} /\ announced = {} /\ gone = {}
  /\ stream = "closed" /\ wire = 0
  /\ view = {} /\ missed = FALSE

-----------------------------------------------------------------------------
SaveDelivery(d) ==
  /\ d \notin saved
  /\ saved' = saved \cup {d}
  /\ UNCHANGED <<inList, announced, gone, stream, wire, view, missed>>

SaveInList(d) ==
  /\ d \in saved \ (inList \cup gone)
  /\ inList' = inList \cup {d}
  /\ UNCHANGED <<saved, announced, gone, stream, wire, view, missed>>

(* Mutant: the event goes out before the conversation is saved.            *)
PublishEarly(d) ==
  /\ d \in saved \ (announced \cup gone)
  /\ announced' = announced \cup {d}
  /\ IF stream = "open" THEN wire' = wire + 1 /\ UNCHANGED missed
                        ELSE missed' = TRUE /\ UNCHANGED wire
  /\ UNCHANGED <<saved, inList, gone, stream, view>>

(* publishInboxActivity: whoever is subscribed gets it.                    *)
Publish(d) ==
  /\ d \in inList \ (announced \cup gone)
  /\ announced' = announced \cup {d}
  /\ IF stream = "open" THEN wire' = wire + 1 /\ UNCHANGED missed
                        ELSE missed' = TRUE /\ UNCHANGED wire
  /\ UNCHANGED <<saved, inList, gone, stream, view>>

(* A rejected publish is swallowed.                                        *)
PublishFails(d) ==
  /\ d \in inList \ (announced \cup gone)
  /\ announced' = announced \cup {d} /\ missed' = TRUE
  /\ UNCHANGED <<saved, inList, gone, stream, wire, view>>

(* The process stops between the saves and the event.  A redelivery of the *)
(* webhook finds the message and ends before it.                           *)
Die(d) ==
  /\ d \in saved \ (announced \cup gone)
  /\ gone' = gone \cup {d} /\ missed' = TRUE
  /\ UNCHANGED <<saved, inList, announced, stream, wire, view>>

-----------------------------------------------------------------------------
(* inboxActivityStream: duplicate, then SUBSCRIBE.                         *)
Open ==
  /\ stream = "closed"
  /\ stream' = "subscribing"
  /\ UNCHANGED <<stores, wire, view, missed>>

(* The SUBSCRIBE of the stream, or of ioredis when it is connected again.  *)
Subscribed ==
  /\ stream \in {"subscribing", "broken"}
  /\ stream' = "open"
  /\ UNCHANGED <<stores, wire, view, missed>>

(* The connection goes down, with the events that were on it.              *)
Break ==
  /\ stream = "open"
  /\ stream' = "broken"
  /\ wire' \in 0..wire
  /\ missed' = (missed \/ wire' < wire)
  /\ UNCHANGED <<stores, view>>

(* A rejected SUBSCRIBE, or the browser leaves.                            *)
Close ==
  /\ stream # "closed"
  /\ stream' = "closed" /\ wire' = 0
  /\ missed' = (missed \/ wire > 0)
  /\ UNCHANGED <<stores, view>>

(* The browser reads unread summary, list and messages: upon an event ...  *)
Hear ==
  /\ wire > 0
  /\ wire' = wire - 1
  /\ view' = inList /\ missed' = FALSE
  /\ UNCHANGED <<stores, stream>>

(* ... or when the page is loaded or its window comes to the front.        *)
Refetch ==
  /\ view' = inList /\ missed' = FALSE
  /\ UNCHANGED <<stores, stream, wire>>

StreamNext ==
  \/ \E d \in Deliveries :
       SaveDelivery(d) \/ SaveInList(d) \/ Publish(d) \/ PublishFails(d) \/ Die(d)
  \/ Open \/ Subscribed \/ Break \/ Close \/ Hear \/ Refetch

-----------------------------------------------------------------------------
(* What the inbox has and the browser does not show, once its delivery is  *)
(* over, has an event under way, or one that nobody got since the browser  *)
(* read last (publishInboxActivity after the saves, inboxActivityStream).  *)
StaleOnlyIfMissed ==
  inList \cap (announced \cup gone) \subseteq view \/ wire > 0 \/ missed
=============================================================================
