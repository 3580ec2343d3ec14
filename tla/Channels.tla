------------------------------ MODULE Channels ------------------------------
(***************************************************************************)
(* The whatsapp_channel rows of all tenants: written by the OAuth          *)
(* onboarding and by disconnect, read and completed by the webhook, which  *)
(* looks a message's number up tenant by tenant.  Every writer finds an    *)
(* entity, awaits and saves the entity it found.  A number stands for its  *)
(* phone_number_id as well.                                                *)
(***************************************************************************)
EXTENDS Naturals, FiniteSets

CONSTANTS
  Tenants, Numbers,
  Rows,       \* ids of channel rows; their number bounds the runs
  Flows,      \* OAuth states handed out by initMetaConnect
  Callbacks,  \* onboarding callbacks at work at the same time
  Clerks,     \* disconnects at work at the same time
  Hooks,      \* webhook look-ups at work at the same time
  None

ASSUME ChannelsAssumption ==
  /\ IsFiniteSet(Rows) /\ IsFiniteSet(Callbacks)
  /\ None \notin Numbers \cup Rows \cup Flows \cup Tenants

VARIABLES
  row,        \* the channel rows; None when there is none
  oauth,      \* the Redis entry of a state and the code Meta gave for it
  callback, clerk, hook,
  misled      \* not in the code: rows whose discovery fell back on another number

vars == <<row, oauth, callback, clerk, hook, misled>>

Ids == Numbers \cup {None}
Channel == [tenant : Tenants, number : Numbers, metaId : Ids, connected : BOOLEAN]
ASSUME NoneIsNoChannel == None \notin Channel

Copy == [at : Rows \cup {None}, as : Channel \cup {None}]
NoCopy == [at |-> None, as |-> None]
OAuth == [tenant : Tenants \cup {None}, stored : BOOLEAN, spent : BOOLEAN]
Callback == [pc : {"idle", "delete", "authorize", "find", "save"}, flow : Flows \cup {None},
             number : Ids, metaId : Ids, copy : Copy]
Hook == [pc : {"idle", "list", "scan", "backfill", "routed", "dropped"}, id : Ids, display : Ids,
         rest : SUBSET Tenants, copy : Copy, known : SUBSET Tenants, skipped : SUBSET Tenants]

NoLookup == [pc |-> "idle", id |-> None, display |-> None, rest |-> {}, copy |-> NoCopy,
             known |-> {}, skipped |-> {}]

TypeOK ==
  /\ row \in [Rows -> Channel \cup {None}]
  /\ oauth \in [Flows -> OAuth]
  /\ callback \in [Callbacks -> Callback]
  /\ clerk \in [Clerks -> Copy]
  /\ hook \in [Hooks -> Hook]
  /\ misled \subseteq Rows

Init ==
  /\ row = [r \in Rows |-> None]
  /\ oauth = [f \in Flows |-> [tenant |-> None, stored |-> FALSE, spent |-> FALSE]]
  /\ callback = [k \in Callbacks |-> [pc |-> "idle", flow |-> None, number |-> None,
                                      metaId |-> None, copy |-> NoCopy]]
  /\ clerk = [w \in Clerks |-> NoCopy]
  /\ hook = [h \in Hooks |-> NoLookup]
  /\ misled = {}

Stored == {r \in Rows : row[r] # None}
RowsOf(t) == {r \in Stored : row[r].tenant = t}
RowsOfNumber(t, n) == {r \in RowsOf(t) : row[r].number = n}
Found(r) == [at |-> r, as |-> row[r]]

-----------------------------------------------------------------------------
(* initMetaConnect: a random state, for ten minutes.                       *)
InitConnect(f, t) ==
  /\ oauth[f].tenant = None
  /\ oauth' = [oauth EXCEPT ![f] = [tenant |-> t, stored |-> TRUE, spent |-> FALSE]]
  /\ UNCHANGED <<row, callback, clerk, hook, misled>>

ExpireState(f) ==
  /\ oauth[f].stored
  /\ oauth' = [oauth EXCEPT ![f].stored = FALSE]
  /\ UNCHANGED <<row, callback, clerk, hook, misled>>

(* GET; without the state the callback is rejected.  The number comes with *)
(* the callback and not from the state.                                    *)
GetState(k, f, n) ==
  /\ callback[k].pc = "idle"
  /\ oauth[f].stored
  /\ callback' = [callback EXCEPT ![k] = [pc |-> "delete", flow |-> f, number |-> n,
                                          metaId |-> None, copy |-> NoCopy]]
  /\ UNCHANGED <<row, oauth, clerk, hook, misled>>

DelState(k) ==
  /\ callback[k].pc = "delete"
  /\ oauth' = [oauth EXCEPT ![callback[k].flow].stored = FALSE]
  /\ callback' = [callback EXCEPT ![k].pc = "authorize"]
  /\ UNCHANGED <<row, clerk, hook, misled>>

(* Exchange of the code, which Meta accepts once, then /me: the id of the  *)
(* number, that of another number of the account, or none.                 *)
Authorize(k) ==
  /\ callback[k].pc = "authorize"
  /\ ~oauth[callback[k].flow].spent
  /\ oauth' = [oauth EXCEPT ![callback[k].flow].spent = TRUE]
  /\ \E i \in Ids : callback' = [callback EXCEPT ![k] = [@ EXCEPT !.pc = "find", !.metaId = i]]
  /\ UNCHANGED <<row, clerk, hook, misled>>

(* Mutant: only a connected channel counts as there.                       *)
FindConnectedChannel(k) ==
  /\ callback[k].pc = "find"
  /\ LET same == {r \in RowsOfNumber(oauth[callback[k].flow].tenant, callback[k].number) :
                    row[r].connected} IN
     \E c \in IF same = {} THEN {NoCopy} ELSE {Found(r) : r \in same} :
       callback' = [callback EXCEPT ![k] = [@ EXCEPT !.pc = "save", !.copy = c]]
  /\ UNCHANGED <<row, oauth, clerk, hook, misled>>

(* upsertConnectedChannel: any row of the number.                          *)
FindChannel(k) ==
  /\ callback[k].pc = "find"
  /\ LET same == RowsOfNumber(oauth[callback[k].flow].tenant, callback[k].number) IN
     \E c \in IF same = {} THEN {NoCopy} ELSE {Found(r) : r \in same} :
       callback' = [callback EXCEPT ![k] = [@ EXCEPT !.pc = "save", !.copy = c]]
  /\ UNCHANGED <<row, oauth, clerk, hook, misled>>

(* An insert, or a save of the entity with the id that is known.           *)
SaveChannel(k) ==
  LET c == callback[k]
      old == IF c.copy.at = None THEN None ELSE c.copy.as.metaId
  IN /\ c.pc = "save"
     /\ \E r \in IF c.copy.at = None THEN Rows \ Stored ELSE {c.copy.at} :
          /\ row' = [row EXCEPT ![r] =
               [tenant |-> oauth[c.flow].tenant, number |-> c.number,
                metaId |-> IF c.metaId = None THEN old ELSE c.metaId, connected |-> TRUE]]
          /\ misled' = IF c.metaId \in {None, c.number} THEN misled ELSE misled \cup {r}
     /\ callback' = [callback EXCEPT ![k].pc = "idle"]
     /\ UNCHANGED <<oauth, clerk, hook>>

(* A rejected await, the code that was used before among them.             *)
CallbackFails(k) ==
  /\ callback[k].pc # "idle"
  /\ callback' = [callback EXCEPT ![k].pc = "idle"]
  /\ UNCHANGED <<row, oauth, clerk, hook, misled>>

-----------------------------------------------------------------------------
(* disconnect *)
FindToDisconnect(w) ==
  /\ clerk[w] = NoCopy
  /\ \E r \in Stored : clerk' = [clerk EXCEPT ![w] = Found(r)]
  /\ UNCHANGED <<row, oauth, callback, hook, misled>>

(* Mutant: the row is replaced by the fields that disconnect sets.         *)
SaveDisconnectedOnly(w) ==
  /\ clerk[w] # NoCopy
  /\ row' = [row EXCEPT ![clerk[w].at] = [connected |-> FALSE]]
  /\ clerk' = [clerk EXCEPT ![w] = NoCopy]
  /\ UNCHANGED <<oauth, callback, hook, misled>>

SaveDisconnected(w) ==
  /\ clerk[w] # NoCopy
  /\ row' = [row EXCEPT ![clerk[w].at] = [clerk[w].as EXCEPT !.connected = FALSE]]
  /\ clerk' = [clerk EXCEPT ![w] = NoCopy]
  /\ UNCHANGED <<oauth, callback, hook, misled>>

DisconnectFails(w) ==
  /\ clerk[w] # NoCopy
  /\ clerk' = [clerk EXCEPT ![w] = NoCopy]
  /\ UNCHANGED <<row, oauth, callback, hook, misled>>

-----------------------------------------------------------------------------
(* Mutant: a row without an id takes any message that has one.             *)
MatchesMissing(r, id, display) ==
  \/ id # None /\ row[r].metaId \in {id, None}
  \/ display # None /\ row[r].number = display

(* By id or by the displayed number; the code's third way, an id equal to  *)
(* a number, compares different kinds of digits.                           *)
Matches(r, id, display) ==
  \/ id # None /\ row[r].metaId = id
  \/ display # None /\ row[r].number = display

(* A message to n, whose payload has the id, the displayed number or both. *)
BeginLookup(h) ==
  /\ hook[h].pc \in {"idle", "routed", "dropped"}
  /\ \E n \in Numbers : \E id, display \in {n, None} :
       /\ id # None \/ display # None
       /\ hook' = [hook EXCEPT ![h] =
            [pc |-> "list", id |-> id, display |-> display, rest |-> {},
             copy |-> NoCopy, skipped |-> {},
             known |-> {t \in Tenants : RowsOfNumber(t, display) # {}}]]
  /\ UNCHANGED <<row, oauth, callback, clerk, misled>>

(* The companies, from the system database.                                *)
ListTenants(h) ==
  /\ hook[h].pc = "list"
  /\ hook' = [hook EXCEPT ![h] = [@ EXCEPT !.pc = "scan", !.rest = Tenants]]
  /\ UNCHANGED <<row, oauth, callback, clerk, misled>>

(* That await is outside the try of the loop: its rejection ends the       *)
(* look-up, receiveMetaWebhook swallows it and answers 200.                *)
ListRejected(h) ==
  /\ hook[h].pc = "list"
  /\ hook' = [hook EXCEPT ![h] = NoLookup]
  /\ UNCHANGED <<row, oauth, callback, clerk, misled>>

(* The tenants in any order; the first match of a tenant's rows.           *)
ScanTenant(h, t) ==
  /\ hook[h].pc = "scan" /\ t \in hook[h].rest
  /\ LET found == {r \in RowsOf(t) : Matches(r, hook[h].id, hook[h].display)} IN
     \/ /\ found = {}
        /\ hook' = [hook EXCEPT ![h].rest = @ \ {t}]
     \/ \E r \in found :
          hook' = [hook EXCEPT ![h] =
            [@ EXCEPT !.pc = IF row[r].metaId = None /\ hook[h].id # None
                               THEN "backfill" ELSE "routed",
                      !.copy = Found(r), !.rest = {}, !.known = {}, !.skipped = {}]]
  /\ UNCHANGED <<row, oauth, callback, clerk, misled>>

(* Mutant: the first tenant that cannot be reached ends the loop.          *)
SkipTenantAndRest(h, t) ==
  /\ hook[h].pc = "scan" /\ t \in hook[h].rest
  /\ hook' = [hook EXCEPT ![h] = [@ EXCEPT !.rest = {}, !.skipped = hook[h].skipped \cup {t}]]
  /\ UNCHANGED <<row, oauth, callback, clerk, misled>>

(* A tenant whose database cannot be reached is passed over.               *)
SkipTenant(h, t) ==
  /\ hook[h].pc = "scan" /\ t \in hook[h].rest
  /\ hook' = [hook EXCEPT ![h] = [@ EXCEPT !.rest = hook[h].rest \ {t},
                                           !.skipped = hook[h].skipped \cup {t}]]
  /\ UNCHANGED <<row, oauth, callback, clerk, misled>>

NoTenantLeft(h) ==
  /\ hook[h].pc = "scan" /\ hook[h].rest = {}
  /\ hook' = [hook EXCEPT ![h].pc = "dropped"]
  /\ UNCHANGED <<row, oauth, callback, clerk, misled>>

Backfill(h) ==
  /\ hook[h].pc = "backfill"
  /\ row' = [row EXCEPT ![hook[h].copy.at] = [hook[h].copy.as EXCEPT !.metaId = hook[h].id]]
  /\ hook' = [hook EXCEPT ![h].pc = "routed"]
  /\ UNCHANGED <<oauth, callback, clerk, misled>>

(* The rejection is swallowed.                                             *)
BackfillFails(h) ==
  /\ hook[h].pc = "backfill"
  /\ hook' = [hook EXCEPT ![h].pc = "routed"]
  /\ UNCHANGED <<row, oauth, callback, clerk, misled>>

-----------------------------------------------------------------------------
CallbackNext(k) ==
  \/ \E f \in Flows, n \in Numbers : GetState(k, f, n)
  \/ DelState(k) \/ Authorize(k) \/ FindChannel(k) \/ SaveChannel(k) \/ CallbackFails(k)

HookNext(h) ==
  \/ BeginLookup(h) \/ ListTenants(h) \/ ListRejected(h) \/ NoTenantLeft(h) \/ Backfill(h) \/ BackfillFails(h)
  \/ \E t \in Tenants : ScanTenant(h, t) \/ SkipTenant(h, t)

Next ==
  \/ \E f \in Flows : ExpireState(f) \/ \E t \in Tenants : InitConnect(f, t)
  \/ \E k \in Callbacks : CallbackNext(k)
  \/ \E w \in Clerks : FindToDisconnect(w) \/ SaveDisconnected(w) \/ DisconnectFails(w)
  \/ \E h \in Hooks : HookNext(h)

Spec == Init /\ [][Next]_vars

-----------------------------------------------------------------------------
(* A look-up that comes to its end finds a channel for a message with a    *)
(* displayed number unless every tenant that had the number when it began  *)
(* could not be reached, whatever was saved meanwhile                      *)
(* (resolveTenantByInboundAddress).  Only a rejected list of tenants loses *)
(* such a message with all tenants in reach (ListRejected).                *)
KnownNumberIsRouted ==
  \A h \in Hooks : hook[h].pc = "dropped" => hook[h].known \subseteq hook[h].skipped

(* The channel that a message is routed to has the message's number,       *)
(* unless the discovery of that very row fell back on another number: no   *)
(* backfill and no save of an entity read before another's write gives a   *)
(* row an id under which it takes the messages of a number not its own.    *)
RoutedToItsNumber ==
  \A h \in Hooks : hook[h].pc \in {"backfill", "routed"} =>
    LET c == hook[h].copy IN c.as.number \in {hook[h].id, hook[h].display} \/ c.at \in misled

(* Callbacks that found no row of the number and will insert one.          *)
Inserting(t, n) ==
  {k \in Callbacks : /\ callback[k].pc = "save" /\ callback[k].copy.at = None
                     /\ oauth[callback[k].flow].tenant = t /\ callback[k].number = n}

(* upsertConnectedChannel finds, then inserts: a number never has more     *)
(* rows of a tenant, with those about to be inserted, than callbacks may   *)
(* overlap, however often it is disconnected and connected again.          *)
ChannelsAreBounded ==
  \A t \in Tenants, n \in Numbers :
    Cardinality(RowsOfNumber(t, n)) + Cardinality(Inserting(t, n)) <= Cardinality(Callbacks)

(* "Auto-discovery fills [the ids] if they match the onboarding number"    *)
(* (APP_FLOW_GUIDE.md:312): no row gets the id of another number.  The     *)
(* code does not do so.                                                    *)
DiscoveryFillsOwnId == \A r \in Stored : row[r].metaId \in {None, row[r].number}
=============================================================================
