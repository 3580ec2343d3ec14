---------------------------- MODULE LeadCapture ----------------------------
(***************************************************************************)
(* The leads of one conversation and the contact they belong to: written   *)
(* by the webhook (contact name, captureLeadFromMessage), by LeadsService- *)
(* .update and by InboxService.updateContact.  Each finds an entity,       *)
(* awaits and saves the entity it found.                                   *)
(***************************************************************************)
EXTENDS Naturals, FiniteSets, FiniteSetsExt

CONSTANTS
  Signals,      \* stored messages whose text has a lead signal
  Clerks,       \* staff requests; each may be made again and again
  Names,
  MaxInFlight,  \* handlers at work at the same time
  MaxRenames,   \* bound on the names staff give
  Null

ASSUME LeadAssumption ==
  /\ IsFiniteSet(Signals) /\ IsFiniteSet(Clerks) /\ Signals \cap Clerks = {}
  /\ MaxInFlight \in Nat \ {0} /\ MaxRenames \in Nat
  /\ Null \notin Names

VARIABLES
  contact,   \* the contact's display_name; its notes and tags decide nothing
  lead,      \* the leads in the order of created_at
  capture,   \* per message: ingestInboundMessage
  clerk,     \* per staff request
  renames,   \* not in the code: names given so far
  synced,    \* not in the code: the contact's name is from a rename that synced alone
  reopened   \* not in the code: leads staff set back to new

leadVars == <<contact, lead, capture, clerk, renames, synced, reopened>>

MaybeName == Names \cup {Null}
Status == {"new", "closed"}   \* closed: contacted, qualified, won, lost
Rows == 1..Cardinality(Signals)
Lead == [status : Status, name : MaybeName]
Capture == [pc : {"waiting", "contact", "fill", "find", "save", "done"}, sender : MaybeName,
            ent : MaybeName, row : Rows \cup {0}, copy : Lead \cup {Null}]
Clerk == [pc : {"idle", "lead", "contact", "sync"}, ent : MaybeName,
          row : Rows \cup {0, 1}, copy : Lead \cup {Null}]

LeadTypeOK ==
  /\ contact \in MaybeName
  /\ lead \in [Rows -> Lead \cup {Null}]
  /\ capture \in [Signals -> Capture]
  /\ clerk \in [Clerks -> Clerk]
  /\ renames \in 0..MaxRenames /\ synced \in BOOLEAN /\ reopened \subseteq Rows

Idle == [pc |-> "idle", ent |-> Null, row |-> 0, copy |-> Null]

LeadInit ==
  /\ contact \in MaybeName
  /\ lead = [r \in Rows |-> Null]
  /\ capture \in [Signals -> [pc : {"waiting"}, sender : MaybeName, ent : {Null},
                           row : {0}, copy : {Null}]]
  /\ clerk = [w \in Clerks |-> Idle]
  /\ renames = 0 /\ synced = FALSE /\ reopened = {}

Leads == {r \in Rows : lead[r] # Null}
Open == {r \in Leads : lead[r].status = "new"}
InFlight == {m \in Signals : capture[m].pc \notin {"waiting", "done"}}
              \cup {w \in Clerks : clerk[w].pc # "idle"}
CanBegin == Cardinality(InFlight) < MaxInFlight

-----------------------------------------------------------------------------
Begin(m) ==
  /\ capture[m].pc = "waiting" /\ CanBegin
  /\ capture' = [capture EXCEPT ![m].pc = "contact"]
  /\ UNCHANGED <<contact, lead, clerk, renames, synced, reopened>>

(* The contact is found; a missing name is to be filled from the payload.  *)
FindContact(m) ==
  /\ capture[m].pc = "contact"
  /\ capture' = [capture EXCEPT ![m] =
       IF contact = Null /\ @.sender # Null
         THEN [@ EXCEPT !.pc = "fill", !.ent = capture[m].sender]
         ELSE [@ EXCEPT !.pc = "find", !.ent = contact]]
  /\ UNCHANGED <<contact, lead, clerk, renames, synced, reopened>>

FillName(m) ==
  /\ capture[m].pc = "fill"
  /\ contact' = capture[m].ent
  /\ synced' = FALSE
  /\ capture' = [capture EXCEPT ![m].pc = "find"]
  /\ UNCHANGED <<lead, clerk, renames, reopened>>

(* Mutant: every message is a lead of its own.                             *)
FindNoLead(m) ==
  /\ capture[m].pc = "find"
  /\ capture' = [capture EXCEPT ![m].pc = "save"]
  /\ UNCHANGED <<contact, lead, clerk, renames, synced, reopened>>

(* captureLeadFromMessage: the newest lead that is new.                    *)
FindLead(m) ==
  /\ capture[m].pc = "find"
  /\ capture' = [capture EXCEPT ![m] =
       IF Open = {} THEN [@ EXCEPT !.pc = "save"]
       ELSE [@ EXCEPT !.pc = "save", !.row = Max(Open), !.copy = lead[Max(Open)]]]
  /\ UNCHANGED <<contact, lead, clerk, renames, synced, reopened>>

(* Mutant: the sender's name is preferred to the contact's.                *)
SaveLeadBySender(m) ==
  /\ capture[m].pc = "save"
  /\ lead' = IF capture[m].row = 0
               THEN [lead EXCEPT ![Cardinality(Leads) + 1] =
                       [status |-> "new", name |-> capture[m].sender]]
               ELSE [lead EXCEPT ![capture[m].row] = capture[m].copy]
  /\ capture' = [capture EXCEPT ![m].pc = "done"]
  /\ UNCHANGED <<contact, clerk, renames, synced, reopened>>

(* Insert, or save of the entity, whose name is filled when it is missing; *)
(* latestMessage, budget, location and interest are left out.              *)
SaveLead(m) ==
  LET c == capture[m] IN
  /\ c.pc = "save"
  /\ lead' = IF c.row = 0
       THEN [lead EXCEPT ![Cardinality(Leads) + 1] = [status |-> "new", name |-> c.ent]]
       ELSE [lead EXCEPT ![c.row] =
               [c.copy EXCEPT !.name = IF @ = Null THEN c.ent ELSE @]]
  /\ capture' = [capture EXCEPT ![m].pc = "done"]
  /\ UNCHANGED <<contact, clerk, renames, synced, reopened>>

(* A rejected await; the message is stored and is not captured again.      *)
CaptureFails(m) ==
  /\ capture[m].pc \notin {"waiting", "done"}
  /\ capture' = [capture EXCEPT ![m].pc = "done"]
  /\ UNCHANGED <<contact, lead, clerk, renames, synced, reopened>>

-----------------------------------------------------------------------------
(* LeadsService.update: a status, or notes only.                           *)
FindLeadToUpdate(w) ==
  /\ clerk[w].pc = "idle" /\ CanBegin
  /\ \E r \in Leads, s \in Status \cup {Null} :
       clerk' = [clerk EXCEPT ![w] = [pc |-> "lead", ent |-> Null, row |-> r,
         copy |-> IF s = Null THEN lead[r] ELSE [lead[r] EXCEPT !.status = s]]]
  /\ UNCHANGED <<contact, lead, capture, renames, synced, reopened>>

UpdateLead(w) ==
  /\ clerk[w].pc = "lead"
  /\ lead' = [lead EXCEPT ![clerk[w].row] = clerk[w].copy]
  /\ reopened' = IF clerk[w].copy.status = "new" THEN reopened \cup {clerk[w].row} ELSE reopened
  /\ clerk' = [clerk EXCEPT ![w] = Idle]
  /\ UNCHANGED <<contact, capture, renames, synced>>

(* updateContact: a name, cleared by Null, or notes only.                  *)
FindContactToUpdate(w) ==
  /\ clerk[w].pc = "idle" /\ CanBegin
  /\ \/ /\ renames < MaxRenames
        /\ renames' = renames + 1
        /\ \E n \in MaybeName : clerk' = [clerk EXCEPT ![w] =
             [Idle EXCEPT !.pc = "contact", !.ent = n, !.row = 1]]
     \/ /\ clerk' = [clerk EXCEPT ![w] =
             [Idle EXCEPT !.pc = "contact", !.ent = contact]]
        /\ UNCHANGED renames
  /\ UNCHANGED <<contact, lead, capture, synced, reopened>>

(* row marks a request that gives a name.                                  *)
SaveContact(w) ==
  /\ clerk[w].pc = "contact"
  /\ contact' = clerk[w].ent
  /\ synced' = IF clerk[w].row = 1 THEN FALSE ELSE synced
  /\ clerk' = [clerk EXCEPT ![w] = IF @.row = 1 THEN [@ EXCEPT !.pc = "sync"] ELSE Idle]
  /\ UNCHANGED <<lead, capture, renames, reopened>>

(* One UPDATE of all leads of the contact.                                 *)
SyncLeads(w) ==
  /\ clerk[w].pc = "sync"
  /\ lead' = [r \in Rows |-> IF r \in Leads THEN [lead[r] EXCEPT !.name = clerk[w].ent]
                                            ELSE Null]
  /\ synced' = (InFlight = {w} /\ contact = clerk[w].ent)
  /\ clerk' = [clerk EXCEPT ![w] = Idle]
  /\ UNCHANGED <<contact, capture, renames, reopened>>

ClerkFails(w) ==
  /\ clerk[w].pc # "idle"
  /\ clerk' = [clerk EXCEPT ![w] = Idle]
  /\ UNCHANGED <<contact, lead, capture, renames, synced, reopened>>

-----------------------------------------------------------------------------
LeadNext ==
  \/ \E m \in Signals : \/ Begin(m) \/ FindContact(m) \/ FillName(m)
                     \/ FindLead(m) \/ SaveLead(m) \/ CaptureFails(m)
  \/ \E w \in Clerks : \/ FindLeadToUpdate(w) \/ UpdateLead(w) \/ FindContactToUpdate(w)
                       \/ SaveContact(w) \/ SyncLeads(w) \/ ClerkFails(w)

LeadSpec == LeadInit /\ [][LeadNext]_leadVars

-----------------------------------------------------------------------------
(* However many messages come, a conversation has no more open leads than  *)
(* handlers that overlapped, those staff opened again aside: checks, stale *)
(* saves and inserts included (captureLeadFromMessage).                    *)
OpenLeadsAreBounded == Cardinality(Open \ reopened) <= MaxInFlight

(* "Keep lead.name in sync with the canonical contact display name": once  *)
(* a rename has synced the leads, no other handler at work and the name    *)
(* still its own, every lead keeps the contact's name, those captured and  *)
(* updated afterwards included (updateContact, captureLeadFromMessage).    *)
NamesInSync ==
  synced => \A r \in Leads : lead[r].name = contact
=============================================================================
