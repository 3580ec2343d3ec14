--------------------------- MODULE ChannelsProofs ---------------------------
(***************************************************************************)
(* Channels, for every set of tenants, numbers, rows, states, callbacks,   *)
(* disconnects and look-ups, any number of them at work at the same time.  *)
(***************************************************************************)
EXTENDS Channels, FiniteSetTheorems, TLAPS

-----------------------------------------------------------------------------
(* The inductive invariant *)

(* An entity is a copy of a stored row, as old as it may be: its tenant    *)
(* and number are those of the row, and its id is no other number's unless *)
(* the row was misled.                                                     *)
IsCopy(c) ==
  /\ c.at \in Stored /\ c.as \in Channel
  /\ c.as.tenant = row[c.at].tenant /\ c.as.number = row[c.at].number
  /\ c.as.metaId \notin {None, c.as.number} => c.at \in misled

CallbackOK(c) ==
  c.pc # "idle" =>
    /\ c.flow \in Flows /\ oauth[c.flow].tenant # None /\ c.number # None
    /\ c.pc = "save" /\ c.copy.at # None =>
         /\ IsCopy(c.copy)
         /\ c.copy.as.tenant = oauth[c.flow].tenant /\ c.copy.as.number = c.number

(* The id and the number of a payload are of one number, and so is the     *)
(* channel found; the tenants that have the number keep it, and are still  *)
(* to come, but for those skipped.                                         *)
HookOK(h) ==
  /\ h.id = None \/ h.display = None \/ h.id = h.display
  /\ h.pc \in {"backfill", "routed"} =>
       IsCopy(h.copy) /\ (h.copy.as.number \in {h.id, h.display} \/ h.copy.at \in misled)
  /\ h.pc = "backfill" => h.id = h.copy.as.number
  /\ \A t \in h.known : RowsOfNumber(t, h.display) # {}
  /\ h.pc = "scan" => h.known \subseteq h.rest \cup h.skipped
  /\ h.pc = "dropped" => h.known \subseteq h.skipped

(* A row never carries the id of another number unless its own discovery   *)
(* fell back on one.                                                       *)
IdIsItsNumbers ==
  \A r \in Stored : row[r].metaId \notin {None, row[r].number} => r \in misled

StatesAreOwned == \A f \in Flows : oauth[f].stored => oauth[f].tenant # None
CallbacksHoldCopies == \A k \in Callbacks : CallbackOK(callback[k])
ClerksHoldCopies == \A w \in Clerks : clerk[w] # NoCopy => IsCopy(clerk[w])
HooksHoldCopies == \A h \in Hooks : HookOK(hook[h])

ChannelsInv ==
  /\ TypeOK
  /\ StatesAreOwned /\ CallbacksHoldCopies /\ ClerksHoldCopies /\ HooksHoldCopies
  /\ IdIsItsNumbers

-----------------------------------------------------------------------------
(* What other steps do to an entity: rows stay with their tenant and       *)
(* number, a state stays with its tenant.                                  *)
RowsStay ==
  /\ \A r \in Stored : /\ r \in Stored'
                       /\ row'[r].tenant = row[r].tenant /\ row'[r].number = row[r].number
  /\ misled \subseteq misled'

OwnersStay == \A f \in Flows : oauth[f].tenant # None => oauth'[f].tenant = oauth[f].tenant

LEMMA CopyStays == ASSUME RowsStay, NEW c, IsCopy(c) PROVE IsCopy(c)'
BY DEF RowsStay, IsCopy

LEMMA CallbackStays ==
  ASSUME RowsStay, OwnersStay, NEW c, CallbackOK(c) PROVE CallbackOK(c)'
BY CopyStays DEF CallbackOK, OwnersStay

LEMMA HookStays == ASSUME RowsStay, NEW h, HookOK(h) PROVE HookOK(h)'
<1>1. ASSUME NEW t \in h.known PROVE RowsOfNumber(t, h.display)' # {}
  <2>1. PICK r : r \in RowsOfNumber(t, h.display)
    BY DEF HookOK
  <2>2. r \in RowsOfNumber(t, h.display)'
    BY <2>1 DEF RowsOfNumber, RowsOf, RowsStay, Stored
  <2> QED BY <2>2
<1>2. h.copy.at \in misled => h.copy.at \in misled'
  BY DEF RowsStay
<1> QED BY <1>1, <1>2, CopyStays DEF HookOK

(* The part of the invariant that is about the actor's own records.        *)
LEMMA CallbackMoves ==
  ASSUME ChannelsInv, RowsStay, OwnersStay, NEW k \in Callbacks, NEW c \in Callback, CallbackOK(c)',
         callback' = [callback EXCEPT ![k] = c]
  PROVE  callback' \in [Callbacks -> Callback] /\ CallbacksHoldCopies'
<1>1. callback \in [Callbacks -> Callback]
  BY DEF ChannelsInv, TypeOK
<1>2. ASSUME NEW j \in Callbacks PROVE CallbackOK(callback[j])'
  <2>1. PICK d : d = callback'[j]
    OBVIOUS
  <2>2. CallbackOK(d)'
    <3>1. CASE j = k
      BY <1>1, <2>1, <3>1
    <3>2. CASE j # k
      <4>1. d = callback[j]
        BY <1>1, <2>1, <3>2
      <4>2. CallbackOK(d)
        BY <4>1 DEF ChannelsInv, CallbacksHoldCopies
      <4> QED BY <4>2, CallbackStays
    <3> QED BY <3>1, <3>2
  <2> QED BY <2>1, <2>2 DEF CallbackOK, IsCopy
<1> QED BY <1>1, <1>2 DEF CallbacksHoldCopies

LEMMA CallbacksWait ==
  ASSUME ChannelsInv, RowsStay, OwnersStay, callback' = callback
  PROVE  callback' \in [Callbacks -> Callback] /\ CallbacksHoldCopies'
<1>1. callback \in [Callbacks -> Callback]
  BY DEF ChannelsInv, TypeOK
<1>2. ASSUME NEW j \in Callbacks PROVE CallbackOK(callback[j])'
  <2>1. PICK d : d = callback[j]
    OBVIOUS
  <2>2. CallbackOK(d)'
    BY <2>1, CallbackStays DEF ChannelsInv, CallbacksHoldCopies
  <2> QED BY <2>1, <2>2 DEF CallbackOK, IsCopy
<1> QED BY <1>1, <1>2 DEF CallbacksHoldCopies

LEMMA ClerkMoves ==
  ASSUME ChannelsInv, RowsStay, NEW w \in Clerks, NEW c \in Copy, c # NoCopy => IsCopy(c)',
         clerk' = [clerk EXCEPT ![w] = c]
  PROVE  clerk' \in [Clerks -> Copy] /\ ClerksHoldCopies'
<1>1. clerk \in [Clerks -> Copy]
  BY DEF ChannelsInv, TypeOK
<1>2. ASSUME NEW v \in Clerks, clerk'[v] # NoCopy PROVE IsCopy(clerk[v])'
  <2>1. PICK d : d = clerk'[v]
    OBVIOUS
  <2>2. IsCopy(d)'
    <3>1. CASE v = w
      BY <1>1, <1>2, <2>1, <3>1
    <3>2. CASE v # w
      <4>1. d = clerk[v]
        BY <1>1, <2>1, <3>2
      <4>2. IsCopy(d)
        BY <1>2, <2>1, <4>1 DEF ChannelsInv, ClerksHoldCopies
      <4> QED BY <4>2, CopyStays
    <3> QED BY <3>1, <3>2
  <2> QED BY <2>1, <2>2 DEF IsCopy
<1>3. \A v \in Clerks : clerk'[v] # NoCopy => IsCopy(clerk[v])'
  BY <1>2
<1> QED BY <1>1, <1>3 DEF ClerksHoldCopies, NoCopy

LEMMA ClerksWait ==
  ASSUME ChannelsInv, RowsStay, clerk' = clerk
  PROVE  clerk' \in [Clerks -> Copy] /\ ClerksHoldCopies'
<1>1. ASSUME NEW v \in Clerks, clerk'[v] # NoCopy PROVE IsCopy(clerk[v])'
  <2>1. PICK d : d = clerk[v]
    OBVIOUS
  <2>2. IsCopy(d)'
    BY <1>1, <2>1, CopyStays DEF ChannelsInv, ClerksHoldCopies
  <2> QED BY <2>1, <2>2 DEF IsCopy
<1>2. \A v \in Clerks : clerk'[v] # NoCopy => IsCopy(clerk[v])'
  BY <1>1
<1> QED BY <1>2 DEF ClerksHoldCopies, NoCopy, ChannelsInv, TypeOK

LEMMA HookMoves ==
  ASSUME ChannelsInv, RowsStay, NEW h \in Hooks, NEW c \in Hook, HookOK(c)',
         hook' = [hook EXCEPT ![h] = c]
  PROVE  hook' \in [Hooks -> Hook] /\ HooksHoldCopies'
<1>1. hook \in [Hooks -> Hook]
  BY DEF ChannelsInv, TypeOK
<1>2. ASSUME NEW j \in Hooks PROVE HookOK(hook[j])'
  <2>1. PICK d : d = hook'[j]
    OBVIOUS
  <2>2. HookOK(d)'
    <3>1. CASE j = h
      BY <1>1, <2>1, <3>1
    <3>2. CASE j # h
      <4>1. d = hook[j]
        BY <1>1, <2>1, <3>2
      <4>2. HookOK(d)
        BY <4>1 DEF ChannelsInv, HooksHoldCopies
      <4> QED BY <4>2, HookStays
    <3> QED BY <3>1, <3>2
  <2> QED BY <2>1, <2>2 DEF HookOK, IsCopy
<1> QED BY <1>1, <1>2 DEF HooksHoldCopies

LEMMA HooksWait ==
  ASSUME ChannelsInv, RowsStay, hook' = hook
  PROVE  hook' \in [Hooks -> Hook] /\ HooksHoldCopies'
<1>1. ASSUME NEW j \in Hooks PROVE HookOK(hook[j])'
  <2>1. PICK d : d = hook[j]
    OBVIOUS
  <2>2. HookOK(d)'
    BY <2>1, HookStays DEF ChannelsInv, HooksHoldCopies
  <2> QED BY <2>1, <2>2 DEF HookOK, IsCopy
<1> QED BY <1>1 DEF HooksHoldCopies, ChannelsInv, TypeOK

-----------------------------------------------------------------------------
LEMMA ChannelsInvInit == Init => ChannelsInv
<1> SUFFICES ASSUME Init PROVE ChannelsInv
  OBVIOUS
<1> USE ChannelsAssumption, NoneIsNoChannel DEF Init
<1>1. NoCopy \in Copy
  BY DEF NoCopy, Copy
<1>2. TypeOK
  <2>1. row \in [Rows -> Channel \cup {None}] /\ misled \subseteq Rows
    OBVIOUS
  <2>2. oauth \in [Flows -> OAuth]
    BY DEF OAuth
  <2>3. callback \in [Callbacks -> Callback]
    BY <1>1 DEF Callback, Ids
  <2>4. clerk \in [Clerks -> Copy]
    BY <1>1
  <2>5. hook \in [Hooks -> Hook]
    BY <1>1 DEF NoLookup, Hook, Ids
  <2> HIDE DEF Init
  <2> QED BY <2>1, <2>2, <2>3, <2>4, <2>5 DEF TypeOK
<1>3. StatesAreOwned /\ CallbacksHoldCopies /\ ClerksHoldCopies /\ IdIsItsNumbers
  BY DEF StatesAreOwned, CallbacksHoldCopies, CallbackOK, ClerksHoldCopies, IdIsItsNumbers, Stored
<1>4. HooksHoldCopies
  BY DEF HooksHoldCopies, HookOK, NoLookup
<1> HIDE DEF Init
<1> QED BY <1>2, <1>3, <1>4 DEF ChannelsInv

(* Steps that touch no row.                                                *)
LEMMA RowsUntouched ==
  ASSUME ChannelsInv, UNCHANGED <<row, misled>>
  PROVE  /\ RowsStay /\ row' \in [Rows -> Channel \cup {None}] /\ misled' \subseteq Rows
         /\ IdIsItsNumbers'
BY DEF ChannelsInv, TypeOK, RowsStay, IdIsItsNumbers, Stored

LEMMA ExpireStateKeeps == ASSUME ChannelsInv, NEW f \in Flows, ExpireState(f) PROVE ChannelsInv'
<1> DEFINE rec == [oauth[f] EXCEPT !.stored = FALSE]
<1>1. /\ oauth' = [oauth EXCEPT ![f] = rec]
      /\ UNCHANGED <<row, callback, clerk, hook, misled>>
  BY DEF ExpireState
<1>2. oauth \in [Flows -> OAuth]
  BY DEF ChannelsInv, TypeOK
<1>3. rec \in OAuth /\ rec.tenant = oauth[f].tenant /\ ~rec.stored
  BY <1>2 DEF OAuth
<1> HIDE DEF rec
<1>4. oauth' \in [Flows -> OAuth] /\ OwnersStay /\ StatesAreOwned'
  BY <1>1, <1>2, <1>3 DEF OwnersStay, StatesAreOwned, ChannelsInv
<1> QED BY <1>1, <1>4, RowsUntouched, CallbacksWait, ClerksWait, HooksWait DEF ChannelsInv, TypeOK

LEMMA InitConnectKeeps ==
  ASSUME ChannelsInv, NEW f \in Flows, NEW t \in Tenants, InitConnect(f, t) PROVE ChannelsInv'
<1> DEFINE rec == [tenant |-> t, stored |-> TRUE, spent |-> FALSE]
<1>1. /\ oauth' = [oauth EXCEPT ![f] = rec] /\ oauth[f].tenant = None
      /\ UNCHANGED <<row, callback, clerk, hook, misled>>
  BY DEF InitConnect
<1>2. oauth \in [Flows -> OAuth]
  BY DEF ChannelsInv, TypeOK
<1>3. rec \in OAuth /\ rec.tenant = t /\ t # None
  BY ChannelsAssumption DEF OAuth
<1> HIDE DEF rec
<1>4. oauth' \in [Flows -> OAuth] /\ OwnersStay /\ StatesAreOwned'
  BY <1>1, <1>2, <1>3 DEF OwnersStay, StatesAreOwned, ChannelsInv
<1> QED BY <1>1, <1>4, RowsUntouched, CallbacksWait, ClerksWait, HooksWait DEF ChannelsInv, TypeOK

-----------------------------------------------------------------------------
LEMMA FoundIsCopy ==
  ASSUME ChannelsInv, NEW r \in Stored
  PROVE  Found(r) \in Copy /\ Found(r).at = r /\ Found(r).as = row[r] /\ IsCopy(Found(r))
<1>1. row[r] \in Channel /\ r \in Rows
  BY DEF ChannelsInv, TypeOK, Stored
<1>2. Found(r) \in Copy /\ Found(r).at = r /\ Found(r).as = row[r]
  BY <1>1 DEF Found, Copy
<1> QED BY <1>1, <1>2 DEF IsCopy, ChannelsInv, IdIsItsNumbers

(* A callback's step that leaves the rows and the states' tenants alone.   *)
LEMMA CallbackReads ==
  ASSUME ChannelsInv, UNCHANGED <<row, misled, clerk, hook>>,
         OwnersStay, StatesAreOwned', oauth' \in [Flows -> OAuth],
         NEW k \in Callbacks, NEW c \in Callback, CallbackOK(c)',
         callback' = [callback EXCEPT ![k] = c]
  PROVE  ChannelsInv'
BY RowsUntouched, CallbackMoves, ClerksWait, HooksWait DEF ChannelsInv, TypeOK

(* A save of an entity leaves the tenants and numbers of all rows alone.   *)
LEMMA SavedOverCopy ==
  ASSUME ChannelsInv, NEW c, IsCopy(c), NEW new \in Channel, misled \subseteq misled',
         new.tenant = c.as.tenant, new.number = c.as.number,
         row' = [row EXCEPT ![c.at] = new]
  PROVE  RowsStay /\ Stored' = Stored /\ row' \in [Rows -> Channel \cup {None}]
<1>1. row \in [Rows -> Channel \cup {None}] /\ new # None /\ c.at \in Rows
  BY NoneIsNoChannel DEF ChannelsInv, TypeOK, IsCopy, Stored
<1> QED BY <1>1 DEF RowsStay, Stored, IsCopy

LEMMA CallbackKeeps == ASSUME ChannelsInv, NEW k \in Callbacks, CallbackNext(k) PROVE ChannelsInv'
<1> DEFINE c == callback[k]
<1>a. /\ oauth \in [Flows -> OAuth] /\ callback \in [Callbacks -> Callback] /\ c \in Callback
      /\ row \in [Rows -> Channel \cup {None}] /\ misled \subseteq Rows
      /\ CallbackOK(c)
  BY DEF ChannelsInv, TypeOK, CallbacksHoldCopies
<1>b. c.copy \in Copy /\ c.number \in Ids /\ c.metaId \in Ids
  BY <1>a DEF Callback
<1>o. oauth' = oauth => oauth' \in [Flows -> OAuth] /\ OwnersStay /\ StatesAreOwned'
  BY <1>a DEF OwnersStay, StatesAreOwned, ChannelsInv
<1>1. ASSUME NEW f \in Flows, NEW n \in Numbers, GetState(k, f, n) PROVE ChannelsInv'
  <2> DEFINE rec == [pc |-> "delete", flow |-> f, number |-> n, metaId |-> None, copy |-> NoCopy]
  <2>1. /\ callback' = [callback EXCEPT ![k] = rec] /\ oauth[f].stored
        /\ UNCHANGED <<row, oauth, clerk, hook, misled>>
    BY <1>1 DEF GetState
  <2>2. rec \in Callback
    BY DEF Callback, Ids, NoCopy, Copy
  <2>3. CallbackOK(rec)'
    BY <2>1, ChannelsAssumption DEF CallbackOK, StatesAreOwned, ChannelsInv
  <2> HIDE DEF rec
  <2> QED BY <1>o, <2>1, <2>2, <2>3, CallbackReads
<1>2. CASE DelState(k)
  <2>0. PICK rec, state : /\ rec = [c EXCEPT !.pc = "authorize"]
                          /\ state = [oauth[c.flow] EXCEPT !.stored = FALSE]
    OBVIOUS
  <2>1. /\ callback' = [callback EXCEPT ![k] = rec] /\ c.pc = "delete"
        /\ oauth' = [oauth EXCEPT ![c.flow] = state]
        /\ UNCHANGED <<row, clerk, hook, misled>>
    BY <1>2, <2>0 DEF DelState
  <2>2. rec \in Callback /\ rec.flow = c.flow /\ rec.number = c.number /\ rec.pc = "authorize"
    BY <1>a, <2>0 DEF Callback
  <2>3. c.flow \in Flows
    BY <1>a, <2>1 DEF CallbackOK
  <2>4. state \in OAuth /\ state.tenant = oauth[c.flow].tenant /\ ~state.stored
    BY <1>a, <2>0, <2>3 DEF OAuth
  <2>5. oauth' \in [Flows -> OAuth] /\ OwnersStay /\ StatesAreOwned'
    BY <1>a, <2>1, <2>3, <2>4 DEF OwnersStay, StatesAreOwned, ChannelsInv
  <2>6. CallbackOK(rec)'
    BY <1>a, <2>1, <2>2, <2>5 DEF CallbackOK, OwnersStay
  <2> QED BY <2>1, <2>2, <2>5, <2>6, CallbackReads
<1>3. CASE Authorize(k)
  <2>0. PICK i \in Ids : callback' = [callback EXCEPT ![k] = [c EXCEPT !.pc = "find", !.metaId = i]]
    BY <1>3 DEF Authorize
  <2>1. PICK rec, state : /\ rec = [c EXCEPT !.pc = "find", !.metaId = i]
                          /\ state = [oauth[c.flow] EXCEPT !.spent = TRUE]
    OBVIOUS
  <2>2. /\ callback' = [callback EXCEPT ![k] = rec] /\ c.pc = "authorize"
        /\ oauth' = [oauth EXCEPT ![c.flow] = state]
        /\ UNCHANGED <<row, clerk, hook, misled>>
    BY <1>3, <2>0, <2>1 DEF Authorize
  <2>3. rec \in Callback /\ rec.flow = c.flow /\ rec.number = c.number /\ rec.pc = "find"
    BY <1>a, <2>1 DEF Callback
  <2>4. c.flow \in Flows
    BY <1>a, <2>2 DEF CallbackOK
  <2>5. state \in OAuth /\ state.tenant = oauth[c.flow].tenant /\ (state.stored => oauth[c.flow].stored)
    BY <1>a, <2>1, <2>4 DEF OAuth
  <2>6. oauth' \in [Flows -> OAuth] /\ OwnersStay /\ StatesAreOwned'
    BY <1>a, <2>2, <2>4, <2>5 DEF OwnersStay, StatesAreOwned, ChannelsInv
  <2>7. CallbackOK(rec)'
    BY <1>a, <2>2, <2>3, <2>6 DEF CallbackOK, OwnersStay
  <2> QED BY <2>2, <2>3, <2>6, <2>7, CallbackReads
<1>4. CASE FindChannel(k)
  <2> DEFINE same == RowsOfNumber(oauth[c.flow].tenant, c.number)
  <2>0. PICK found \in Copy :
          /\ callback' = [callback EXCEPT ![k] = [c EXCEPT !.pc = "save", !.copy = found]]
          /\ found.at # None =>
               IsCopy(found) /\ found.as.tenant = oauth[c.flow].tenant /\ found.as.number = c.number
    <3>1. PICK found \in IF same = {} THEN {NoCopy} ELSE {Found(r) : r \in same} :
            callback' = [callback EXCEPT ![k] = [c EXCEPT !.pc = "save", !.copy = found]]
      BY <1>4 DEF FindChannel
    <3>2. /\ found \in Copy
          /\ found.at # None =>
               IsCopy(found) /\ found.as.tenant = oauth[c.flow].tenant /\ found.as.number = c.number
      <4>1. CASE found = NoCopy
        BY <4>1 DEF NoCopy, Copy
      <4>2. CASE found # NoCopy
        <5>1. PICK r \in same : found = Found(r)
          BY <4>2
        <5>2. r \in Stored /\ row[r].tenant = oauth[c.flow].tenant /\ row[r].number = c.number
          BY DEF RowsOf, RowsOfNumber
        <5> QED BY <5>1, <5>2, FoundIsCopy
      <4> QED BY <4>1, <4>2
    <3> QED BY <3>1, <3>2, Zenon
  <2>1. PICK rec : rec = [c EXCEPT !.pc = "save", !.copy = found]
    OBVIOUS
  <2>2. /\ callback' = [callback EXCEPT ![k] = rec] /\ c.pc = "find"
        /\ UNCHANGED <<row, oauth, clerk, hook, misled>>
    BY <1>4, <2>0, <2>1 DEF FindChannel
  <2>3. /\ rec \in Callback /\ rec.flow = c.flow /\ rec.number = c.number /\ rec.pc = "save"
        /\ rec.copy = found
    BY <1>a, <2>1 DEF Callback
  <2>4. CallbackOK(rec)'
    <3>1. IsCopy(found) => IsCopy(found)'
      BY <2>2, RowsUntouched, CopyStays
    <3> QED BY <1>a, <2>0, <2>2, <2>3, <3>1 DEF CallbackOK
  <2> QED BY <1>o, <2>2, <2>3, <2>4, CallbackReads
<1>5. CASE SaveChannel(k)
  <2>0. PICK rec : rec = [c EXCEPT !.pc = "idle"]
    OBVIOUS
  <2>1. /\ callback' = [callback EXCEPT ![k] = rec] /\ c.pc = "save"
        /\ UNCHANGED <<oauth, clerk, hook>>
    BY <1>5, <2>0 DEF SaveChannel
  <2>2. rec \in Callback /\ rec.pc = "idle"
    BY <1>a, <2>0 DEF Callback
  <2> DEFINE fresh == c.copy.at = None
  <2>3. PICK r, new :
          /\ r \in IF fresh THEN Rows \ Stored ELSE {c.copy.at}
          /\ new = [tenant |-> oauth[c.flow].tenant, number |-> c.number,
                    metaId |-> IF c.metaId # None THEN c.metaId
                               ELSE IF fresh THEN None ELSE c.copy.as.metaId,
                    connected |-> TRUE]
          /\ row' = [row EXCEPT ![r] = new]
          /\ misled' = IF c.metaId \in {None, c.number} THEN misled ELSE misled \cup {r}
    BY <1>5 DEF SaveChannel
  <2>4. /\ c.flow \in Flows /\ oauth[c.flow].tenant \in Tenants /\ c.number \in Numbers
        /\ ~fresh => /\ IsCopy(c.copy)
                     /\ c.copy.as.tenant = oauth[c.flow].tenant /\ c.copy.as.number = c.number
    BY <1>a, <1>b, <2>1 DEF CallbackOK, OAuth, Ids
  <2>5. new \in Channel /\ new.tenant = oauth[c.flow].tenant /\ new.number = c.number
    BY <1>b, <2>3, <2>4 DEF Channel, IsCopy, Ids
  <2>6. new # None /\ r \in Rows
    BY <2>3, <2>4, <2>5, NoneIsNoChannel DEF IsCopy, Stored
  <2>7. row' \in [Rows -> Channel \cup {None}] /\ misled' \subseteq Rows
    BY <1>a, <2>3, <2>5, <2>6
  <2>8. RowsStay
    BY <1>a, <2>3, <2>4, <2>5, <2>6 DEF RowsStay, Stored, IsCopy
  <2>9. new.metaId \notin {None, new.number} => r \in misled'
    BY <2>3, <2>4, <2>5 DEF IsCopy
  <2>10. IdIsItsNumbers'
    BY <1>a, <2>3, <2>6, <2>8, <2>9 DEF IdIsItsNumbers, ChannelsInv, Stored, RowsStay
  <2>11. CallbackOK(rec)'
    BY <2>2 DEF CallbackOK
  <2> QED BY <1>o, <2>1, <2>2, <2>7, <2>8, <2>10, <2>11, CallbackMoves, ClerksWait, HooksWait
          DEF ChannelsInv, TypeOK
<1>6. CASE CallbackFails(k)
  <2>0. PICK rec : rec = [c EXCEPT !.pc = "idle"]
    OBVIOUS
  <2>1. /\ callback' = [callback EXCEPT ![k] = rec]
        /\ UNCHANGED <<row, oauth, clerk, hook, misled>>
    BY <1>6, <2>0 DEF CallbackFails
  <2>2. rec \in Callback /\ rec.pc = "idle"
    BY <1>a, <2>0 DEF Callback
  <2>3. CallbackOK(rec)'
    BY <2>2 DEF CallbackOK
  <2> QED BY <1>o, <2>1, <2>2, <2>3, CallbackReads
<1> QED BY <1>1, <1>2, <1>3, <1>4, <1>5, <1>6 DEF CallbackNext

-----------------------------------------------------------------------------
LEMMA ClerkKeeps ==
  ASSUME ChannelsInv, NEW w \in Clerks,
         FindToDisconnect(w) \/ SaveDisconnected(w) \/ DisconnectFails(w)
  PROVE  ChannelsInv'
<1>a. /\ row \in [Rows -> Channel \cup {None}] /\ misled \subseteq Rows
      /\ clerk \in [Clerks -> Copy] /\ oauth \in [Flows -> OAuth]
      /\ clerk[w] # NoCopy => IsCopy(clerk[w])
  BY DEF ChannelsInv, TypeOK, ClerksHoldCopies
<1>b. NoCopy \in Copy
  BY DEF NoCopy, Copy
<1>o. oauth' = oauth => oauth' \in [Flows -> OAuth] /\ OwnersStay /\ StatesAreOwned'
  BY <1>a DEF OwnersStay, StatesAreOwned, ChannelsInv
<1>1. CASE FindToDisconnect(w)
  <2>1. PICK r, c : r \in Stored /\ c = Found(r) /\ clerk' = [clerk EXCEPT ![w] = c]
    BY <1>1 DEF FindToDisconnect
  <2>2. UNCHANGED <<row, oauth, callback, hook, misled>>
    BY <1>1 DEF FindToDisconnect
  <2>3. c \in Copy /\ IsCopy(c)
    BY <2>1, FoundIsCopy
  <2>4. IsCopy(c)'
    BY <2>2, <2>3, RowsUntouched, CopyStays
  <2> QED BY <1>o, <2>1, <2>2, <2>3, <2>4, RowsUntouched, CallbacksWait, ClerkMoves, HooksWait
          DEF ChannelsInv, TypeOK
<1>2. CASE SaveDisconnected(w)
  <2>1. PICK r, new : /\ r = clerk[w].at
                      /\ new = [clerk[w].as EXCEPT !.connected = FALSE]
    OBVIOUS
  <2>2. /\ row' = [row EXCEPT ![r] = new] /\ clerk[w] # NoCopy
        /\ clerk' = [clerk EXCEPT ![w] = NoCopy]
        /\ UNCHANGED <<oauth, callback, hook, misled>>
    BY <1>2, <2>1 DEF SaveDisconnected
  <2>3. IsCopy(clerk[w])
    BY <1>a, <2>2
  <2>4. /\ new \in Channel /\ new.tenant = clerk[w].as.tenant /\ new.number = clerk[w].as.number
        /\ new.metaId = clerk[w].as.metaId
    BY <2>1, <2>3 DEF Channel, IsCopy
  <2>5. new # None /\ r \in Rows
    BY <2>1, <2>3, <2>4, NoneIsNoChannel DEF IsCopy, Stored
  <2>6. row' \in [Rows -> Channel \cup {None}] /\ RowsStay
    BY <2>1, <2>2, <2>3, <2>4, SavedOverCopy
  <2>8. IdIsItsNumbers'
    BY <1>a, <2>1, <2>2, <2>3, <2>4, <2>5, <2>6
       DEF IdIsItsNumbers, ChannelsInv, Stored, RowsStay, IsCopy
  <2> QED BY <1>a, <1>b, <1>o, <2>2, <2>6, <2>8, CallbacksWait, ClerkMoves, HooksWait
          DEF ChannelsInv, TypeOK
<1>3. CASE DisconnectFails(w)
  <2>1. clerk' = [clerk EXCEPT ![w] = NoCopy] /\ UNCHANGED <<row, oauth, callback, hook, misled>>
    BY <1>3 DEF DisconnectFails
  <2> QED BY <1>b, <1>o, <2>1, RowsUntouched, CallbacksWait, ClerkMoves, HooksWait
          DEF ChannelsInv, TypeOK
<1> QED BY <1>1, <1>2, <1>3

-----------------------------------------------------------------------------
(* A look-up's step that leaves the rows alone.                            *)
LEMMA HookReads ==
  ASSUME ChannelsInv, UNCHANGED <<row, misled, oauth, callback, clerk>>,
         NEW h \in Hooks, NEW c \in Hook, HookOK(c), hook' = [hook EXCEPT ![h] = c]
  PROVE  ChannelsInv'
<1>1. oauth' \in [Flows -> OAuth] /\ OwnersStay /\ StatesAreOwned'
  BY DEF OwnersStay, StatesAreOwned, ChannelsInv, TypeOK
<1>2. RowsStay /\ HookOK(c)'
  BY RowsUntouched, HookStays
<1> QED BY <1>1, <1>2, RowsUntouched, CallbacksWait, ClerksWait, HookMoves DEF ChannelsInv, TypeOK

LEMMA HookKeeps == ASSUME ChannelsInv, NEW h \in Hooks, HookNext(h) PROVE ChannelsInv'
<1> DEFINE c == hook[h]
<1>a. /\ row \in [Rows -> Channel \cup {None}] /\ misled \subseteq Rows
      /\ hook \in [Hooks -> Hook] /\ c \in Hook /\ HookOK(c)
  BY DEF ChannelsInv, TypeOK, HooksHoldCopies
<1>b. c.copy \in Copy /\ c.id \in Ids /\ c.display \in Ids
  BY <1>a DEF Hook
<1>1. CASE BeginLookup(h)
  <2>1. PICK id, display, rec :
          /\ id \in Ids /\ display \in Ids
          /\ id = None \/ display = None \/ id = display
          /\ hook' = [hook EXCEPT ![h] = rec]
          /\ rec = [pc |-> "list", id |-> id, display |-> display, rest |-> {},
                    copy |-> NoCopy, skipped |-> {},
                    known |-> {t \in Tenants : RowsOfNumber(t, display) # {}}]
    <3>1. PICK n \in Numbers : \E id, display \in {n, None} :
            /\ id # None \/ display # None
            /\ hook' = [hook EXCEPT ![h] =
                 [pc |-> "list", id |-> id, display |-> display, rest |-> {},
                  copy |-> NoCopy, skipped |-> {},
                  known |-> {t \in Tenants : RowsOfNumber(t, display) # {}}]]
      BY <1>1 DEF BeginLookup
    <3>2. \A id, display \in {n, None} :
            id \in Ids /\ display \in Ids /\ (id = None \/ display = None \/ id = display)
      BY DEF Ids
    <3> QED BY <3>1, <3>2, Zenon
  <2>2. rec \in Hook
    BY <2>1 DEF Hook, Ids, NoCopy, Copy
  <2>3. HookOK(rec)
    BY <2>1 DEF HookOK
  <2>4. UNCHANGED <<row, oauth, callback, clerk, misled>>
    BY <1>1 DEF BeginLookup
  <2> QED BY <2>1, <2>2, <2>3, <2>4, HookReads
<1>2. ASSUME NEW t \in Tenants, ScanTenant(h, t) PROVE ChannelsInv'
  <2> DEFINE found == {r \in RowsOf(t) : Matches(r, c.id, c.display)}
  <2>0. c.pc = "scan" /\ UNCHANGED <<row, oauth, callback, clerk, misled>>
    BY <1>2 DEF ScanTenant
  <2>1. CASE found = {} /\ hook' = [hook EXCEPT ![h].rest = @ \ {t}]
    <3>1. PICK rec : rec = [c EXCEPT !.rest = c.rest \ {t}]
      OBVIOUS
    <3>2. hook' = [hook EXCEPT ![h] = rec]
      BY <2>1, <3>1
    <3>3. /\ rec \in Hook /\ rec.pc = "scan" /\ rec.rest = c.rest \ {t}
          /\ rec.id = c.id /\ rec.display = c.display
          /\ rec.known = c.known /\ rec.skipped = c.skipped
      BY <1>a, <2>0, <3>1 DEF Hook
    <3>4. t \notin c.known
      <4>1. SUFFICES ASSUME t \in c.known PROVE FALSE
        OBVIOUS
      <4>2. PICK r \in RowsOf(t) : row[r].number = c.display
        BY <1>a, <4>1 DEF HookOK, RowsOfNumber
      <4>3. row[r].number # None
        BY <1>a, ChannelsAssumption DEF RowsOf, Stored, Channel
      <4> QED BY <2>1, <4>2, <4>3 DEF Matches
    <3>5. HookOK(rec)
      BY <1>a, <2>0, <3>3, <3>4 DEF HookOK
    <3> QED BY <2>0, <3>2, <3>3, <3>5, HookReads
  <2>2. CASE ~(found = {} /\ hook' = [hook EXCEPT ![h].rest = @ \ {t}])
    <3>1. PICK r \in found : hook' = [hook EXCEPT ![h] =
              [c EXCEPT !.pc = IF row[r].metaId = None /\ c.id # None THEN "backfill" ELSE "routed",
                        !.copy = Found(r), !.rest = {}, !.known = {}, !.skipped = {}]]
      BY <1>2, <2>2 DEF ScanTenant
    <3>2. PICK step, entity, rec :
            /\ step = IF row[r].metaId = None /\ c.id # None THEN "backfill" ELSE "routed"
            /\ entity = Found(r)
            /\ rec = [c EXCEPT !.pc = step, !.copy = entity,
                               !.rest = {}, !.known = {}, !.skipped = {}]
      OBVIOUS
    <3>3. hook' = [hook EXCEPT ![h] = rec]
      BY <3>1, <3>2
    <3>4. r \in Stored /\ entity \in Copy /\ IsCopy(entity) /\ entity.as = row[r]
      BY <3>1, <3>2, FoundIsCopy DEF RowsOf
    <3>5. step \in {"backfill", "routed"}
      BY <3>2
    <3>6. /\ rec \in Hook /\ rec.pc = step /\ rec.copy = entity
          /\ rec.id = c.id /\ rec.display = c.display /\ rec.known = {}
      BY <1>a, <3>2, <3>4, <3>5 DEF Hook
    <3>7. step = "backfill" => c.id = row[r].number
      BY <1>a, <3>1, <3>2 DEF Matches, HookOK
    <3>8. entity.at = r /\ (row[r].number \in {c.id, c.display} \/ r \in misled)
      <4>1. entity.at = r
        BY <3>2, <3>4, FoundIsCopy
      <4>2. CASE row[r].number = c.display
        BY <4>1, <4>2
      <4>3. CASE c.id # None /\ row[r].metaId = c.id
        BY <3>4, <4>1, <4>3 DEF IsCopy
      <4> QED BY <3>1, <4>2, <4>3, <4>1 DEF Matches
    <3>9. HookOK(rec)
      BY <1>a, <3>4, <3>5, <3>6, <3>7, <3>8 DEF HookOK
    <3> QED BY <2>0, <3>3, <3>6, <3>9, HookReads
  <2> QED BY <2>1, <2>2
<1>3. ASSUME NEW t \in Tenants, SkipTenant(h, t) PROVE ChannelsInv'
  <2>1. PICK rec : rec = [c EXCEPT !.rest = c.rest \ {t}, !.skipped = c.skipped \cup {t}]
    OBVIOUS
  <2>2. /\ hook' = [hook EXCEPT ![h] = rec] /\ c.pc = "scan"
        /\ UNCHANGED <<row, oauth, callback, clerk, misled>>
    BY <1>3, <2>1 DEF SkipTenant
  <2>3. /\ rec \in Hook /\ rec.pc = "scan"
        /\ rec.rest = c.rest \ {t} /\ rec.skipped = c.skipped \cup {t}
        /\ rec.id = c.id /\ rec.display = c.display /\ rec.known = c.known
    BY <1>a, <2>1, <2>2 DEF Hook
  <2>4. HookOK(rec)
    BY <1>a, <2>2, <2>3 DEF HookOK
  <2> QED BY <2>2, <2>3, <2>4, HookReads
(* The steps that only move on.                                            *)
<1>4. ASSUME NEW step \in {"routed", "dropped"}, hook' = [hook EXCEPT ![h].pc = step],
             step = "dropped" => c.pc = "scan" /\ c.rest = {},
             step = "routed" => c.pc = "backfill"
      PROVE  \E rec \in Hook : HookOK(rec) /\ hook' = [hook EXCEPT ![h] = rec]
  <2>1. PICK rec : rec = [c EXCEPT !.pc = step]
    OBVIOUS
  <2>2. /\ rec \in Hook /\ rec.pc = step
        /\ rec.id = c.id /\ rec.display = c.display
        /\ rec.known = c.known /\ rec.skipped = c.skipped /\ rec.copy = c.copy
    BY <1>a, <2>1 DEF Hook
  <2>3. HookOK(rec)
    BY <1>a, <1>4, <2>2 DEF HookOK
  <2> QED BY <1>4, <2>1, <2>2, <2>3
<1>5. CASE NoTenantLeft(h) \/ BackfillFails(h)
  <2>1. PICK step \in {"routed", "dropped"} :
          /\ hook' = [hook EXCEPT ![h].pc = step]
          /\ step = "dropped" => c.pc = "scan" /\ c.rest = {}
          /\ step = "routed" => c.pc = "backfill"
    <3>1. CASE NoTenantLeft(h)
      <4>1. hook' = [hook EXCEPT ![h].pc = "dropped"] /\ c.pc = "scan" /\ c.rest = {}
        BY <3>1 DEF NoTenantLeft
      <4>2. "routed" # "dropped"
        OBVIOUS
      <4> QED BY <4>1, <4>2, Zenon
    <3>2. CASE BackfillFails(h)
      <4>1. hook' = [hook EXCEPT ![h].pc = "routed"] /\ c.pc = "backfill"
        BY <3>2 DEF BackfillFails
      <4>2. "routed" # "dropped"
        OBVIOUS
      <4> QED BY <4>1, <4>2, Zenon
    <3> QED BY <1>5, <3>1, <3>2
  <2>2. UNCHANGED <<row, oauth, callback, clerk, misled>>
    BY <1>5 DEF NoTenantLeft, BackfillFails
  <2> QED BY <1>4, <2>1, <2>2, HookReads
<1>6. CASE Backfill(h)
  <2>1. PICK r, new : r = c.copy.at /\ new = [c.copy.as EXCEPT !.metaId = c.id]
    OBVIOUS
  <2>2. /\ row' = [row EXCEPT ![r] = new] /\ c.pc = "backfill"
        /\ hook' = [hook EXCEPT ![h].pc = "routed"]
        /\ UNCHANGED <<oauth, callback, clerk, misled>>
    BY <1>6, <2>1 DEF Backfill
  <2>3. IsCopy(c.copy) /\ c.id = c.copy.as.number
    BY <1>a, <2>2 DEF HookOK
  <2>4. /\ new \in Channel /\ new.tenant = c.copy.as.tenant /\ new.number = c.copy.as.number
        /\ new.metaId = new.number
    BY <1>b, <2>1, <2>3 DEF Channel, IsCopy
  <2>5. new # None /\ r \in Rows
    BY <2>1, <2>3, <2>4, NoneIsNoChannel DEF IsCopy, Stored
  <2>6. row' \in [Rows -> Channel \cup {None}] /\ RowsStay
    BY <2>1, <2>2, <2>3, <2>4, SavedOverCopy
  <2>8. IdIsItsNumbers'
    BY <1>a, <2>1, <2>2, <2>3, <2>4, <2>5, <2>6
       DEF IdIsItsNumbers, ChannelsInv, Stored, RowsStay, IsCopy
  <2>9. PICK rec \in Hook : HookOK(rec) /\ hook' = [hook EXCEPT ![h] = rec]
    <3>1. PICK step \in {"routed", "dropped"} : step = "routed"
      OBVIOUS
    <3>2. hook' = [hook EXCEPT ![h].pc = step] /\ (step = "routed" => c.pc = "backfill")
      BY <2>2, <3>1
    <3>3. step # "dropped"
      BY <3>1
    <3> QED BY <1>4, <3>2, <3>3
  <2>10. HookOK(rec)'
    BY <2>6, <2>9, HookStays
  <2>11. oauth' \in [Flows -> OAuth] /\ OwnersStay /\ StatesAreOwned'
    BY <2>2 DEF OwnersStay, StatesAreOwned, ChannelsInv, TypeOK
  <2> QED BY <1>a, <2>2, <2>6, <2>8, <2>9, <2>10, <2>11, CallbacksWait, ClerksWait, HookMoves
          DEF ChannelsInv, TypeOK
<1>7. CASE ListTenants(h)
  <2>1. PICK rec : rec = [c EXCEPT !.pc = "scan", !.rest = Tenants]
    OBVIOUS
  <2>2. /\ hook' = [hook EXCEPT ![h] = rec] /\ c.pc = "list"
        /\ UNCHANGED <<row, oauth, callback, clerk, misled>>
    BY <1>7, <2>1 DEF ListTenants
  <2>3. /\ rec \in Hook /\ rec.pc = "scan" /\ rec.rest = Tenants /\ rec.known \subseteq Tenants
        /\ rec.id = c.id /\ rec.display = c.display /\ rec.known = c.known
    BY <1>a, <2>1 DEF Hook
  <2>4. HookOK(rec)
    BY <1>a, <2>2, <2>3 DEF HookOK
  <2> QED BY <2>2, <2>3, <2>4, HookReads
<1>8. CASE ListRejected(h)
  <2>1. NoLookup \in Hook /\ HookOK(NoLookup)
    BY DEF NoLookup, Hook, Ids, NoCopy, Copy, HookOK
  <2>2. hook' = [hook EXCEPT ![h] = NoLookup] /\ UNCHANGED <<row, oauth, callback, clerk, misled>>
    BY <1>8 DEF ListRejected
  <2> QED BY <2>1, <2>2, HookReads
<1> QED BY <1>1, <1>2, <1>3, <1>5, <1>6, <1>7, <1>8 DEF HookNext

-----------------------------------------------------------------------------
LEMMA ChannelsInvNext == ChannelsInv /\ [Next]_vars => ChannelsInv'
<1> SUFFICES ASSUME ChannelsInv, [Next]_vars PROVE ChannelsInv'
  OBVIOUS
<1>1. CASE UNCHANGED vars
  <2>1. /\ UNCHANGED <<row, oauth, callback, clerk, hook, misled>>
        /\ oauth' \in [Flows -> OAuth] /\ OwnersStay /\ StatesAreOwned'
    BY <1>1 DEF vars, OwnersStay, StatesAreOwned, ChannelsInv, TypeOK
  <2> QED BY <2>1, RowsUntouched, CallbacksWait, ClerksWait, HooksWait DEF ChannelsInv, TypeOK
<1> QED BY <1>1, ExpireStateKeeps, InitConnectKeeps, CallbackKeeps, ClerkKeeps, HookKeeps DEF Next

LEMMA ChannelsInvariant == Spec => []ChannelsInv
BY ChannelsInvInit, ChannelsInvNext, PTL DEF Spec

(* Every variable has its type: a stale save writes a whole channel.       *)
THEOREM ChannelTypes == Spec => []TypeOK
<1>1. ChannelsInv => TypeOK
  BY DEF ChannelsInv
<1> QED BY <1>1, ChannelsInvariant, PTL

(* However many callbacks, disconnects and webhooks overlap, and however   *)
(* old the entities are that they save, the channel a message goes to has  *)
(* the message's number, unless that row's own discovery fell back on      *)
(* another number (resolveTenantByInboundAddress).                         *)
THEOREM MessagesReachTheirNumber == Spec => []RoutedToItsNumber
<1>1. ChannelsInv => RoutedToItsNumber
  BY DEF ChannelsInv, HooksHoldCopies, HookOK, RoutedToItsNumber
<1> QED BY <1>1, ChannelsInvariant, PTL

(* A look-up that comes to its end drops a message with a displayed number *)
(* that some tenant has only if that tenant could not be reached, whatever *)
(* is saved while the look-up goes from tenant to tenant; a rejected list  *)
(* of tenants ends it before (resolveTenantByInboundAddress).              *)
THEOREM KnownNumbersAreRouted == Spec => []KnownNumberIsRouted
<1>1. ChannelsInv => KnownNumberIsRouted
  BY DEF ChannelsInv, HooksHoldCopies, HookOK, KnownNumberIsRouted
<1> QED BY <1>1, ChannelsInvariant, PTL

-----------------------------------------------------------------------------
(* How many rows a number has *)

LEMMA SetsAreFinite ==
  ASSUME NEW t, NEW n
  PROVE  IsFiniteSet(RowsOfNumber(t, n)) /\ IsFiniteSet(Inserting(t, n))
<1>1. RowsOfNumber(t, n) \subseteq Rows /\ Inserting(t, n) \subseteq Callbacks
  BY DEF RowsOfNumber, RowsOf, Stored, Inserting
<1> QED BY <1>1, FS_Subset, ChannelsAssumption DEF ChannelsAssumption

(* Steps after which no number has a row or a pending insert more.         *)
LEMMA NoMoreStaysBounded ==
  ASSUME ChannelsAreBounded,
         \A t \in Tenants, n \in Numbers :
           /\ RowsOfNumber(t, n)' \subseteq RowsOfNumber(t, n)
           /\ Inserting(t, n)' \subseteq Inserting(t, n)
  PROVE  ChannelsAreBounded'
<1> SUFFICES ASSUME NEW t \in Tenants, NEW n \in Numbers
             PROVE  Cardinality(RowsOfNumber(t, n)') + Cardinality(Inserting(t, n)')
                      <= Cardinality(Callbacks)
  BY DEF ChannelsAreBounded
<1>1. /\ Cardinality(RowsOfNumber(t, n)') <= Cardinality(RowsOfNumber(t, n))
      /\ Cardinality(Inserting(t, n)') <= Cardinality(Inserting(t, n))
      /\ Cardinality(RowsOfNumber(t, n)') \in Nat /\ Cardinality(RowsOfNumber(t, n)) \in Nat
      /\ Cardinality(Inserting(t, n)') \in Nat /\ Cardinality(Inserting(t, n)) \in Nat
  BY SetsAreFinite, FS_Subset, FS_CardinalityType
<1>2. Cardinality(Callbacks) \in Nat
  BY ChannelsAssumption, FS_CardinalityType DEF ChannelsAssumption
<1> QED BY <1>1, <1>2 DEF ChannelsAreBounded

LEMMA RowsKeepTheirNumber ==
  ASSUME RowsStay, Stored' = Stored, NEW t, NEW n
  PROVE  RowsOfNumber(t, n)' = RowsOfNumber(t, n)
BY DEF RowsStay, RowsOfNumber, RowsOf, Stored

(* A find that returns nothing saw no row of the number, an insert turns   *)
(* one pending insert into one row.                                        *)
LEMMA FindStaysBounded ==
  ASSUME ChannelsInv, ChannelsAreBounded, NEW k \in Callbacks, FindChannel(k)
  PROVE  ChannelsAreBounded'
<1> DEFINE c == callback[k]
           owner == oauth[c.flow].tenant
<1>1. /\ callback \in [Callbacks -> Callback] /\ c.pc = "find"
      /\ UNCHANGED <<row, oauth, clerk, hook, misled>>
  BY DEF ChannelsInv, TypeOK, FindChannel
<1>2. PICK rec : callback' = [callback EXCEPT ![k] = rec]
  BY DEF FindChannel
<1>3. /\ rec.flow = c.flow /\ rec.number = c.number
      /\ rec.copy.at = None => RowsOfNumber(owner, c.number) = {}
  <2>1. PICK found \in IF RowsOfNumber(owner, c.number) = {} THEN {NoCopy}
                       ELSE {Found(r) : r \in RowsOfNumber(owner, c.number)} :
          callback' = [callback EXCEPT ![k] = [c EXCEPT !.pc = "save", !.copy = found]]
    BY DEF FindChannel
  <2>2. PICK next : next = [c EXCEPT !.pc = "save", !.copy = found]
    OBVIOUS
  <2>3. rec = next
    BY <1>1, <1>2, <2>1, <2>2
  <2>4. /\ next.flow = c.flow /\ next.number = c.number /\ next.copy = found
    BY <1>1, <2>2 DEF Callback
  <2>5. found.at = None => RowsOfNumber(owner, c.number) = {}
    <3>1. SUFFICES ASSUME RowsOfNumber(owner, c.number) # {} PROVE found.at # None
      OBVIOUS
    <3>2. PICK r \in RowsOfNumber(owner, c.number) : found = Found(r)
      BY <2>1, <3>1
    <3> QED BY <3>2, FoundIsCopy, ChannelsAssumption
            DEF RowsOfNumber, RowsOf, Stored, ChannelsAssumption
  <2> QED BY <2>3, <2>4, <2>5
<1>4. SUFFICES ASSUME NEW t \in Tenants, NEW n \in Numbers
               PROVE  Cardinality(RowsOfNumber(t, n)') + Cardinality(Inserting(t, n)')
                        <= Cardinality(Callbacks)
  BY DEF ChannelsAreBounded
<1>5. RowsOfNumber(t, n)' = RowsOfNumber(t, n)
  BY <1>1 DEF RowsOfNumber, RowsOf, Stored
<1>6. Cardinality(Callbacks) \in Nat
  BY ChannelsAssumption, FS_CardinalityType DEF ChannelsAssumption
<1>7. CASE rec.copy.at = None /\ t = owner /\ n = c.number
  <2>1. Cardinality(RowsOfNumber(t, n)') = 0
    BY <1>3, <1>5, <1>7, FS_EmptySet
  <2>2. Inserting(t, n)' \subseteq Callbacks
    BY DEF Inserting
  <2>3. /\ Cardinality(Inserting(t, n)') <= Cardinality(Callbacks)
        /\ Cardinality(Inserting(t, n)') \in Nat
    BY <2>2, FS_Subset, FS_CardinalityType, ChannelsAssumption DEF ChannelsAssumption
  <2> QED BY <1>6, <2>1, <2>3
<1>8. CASE ~(rec.copy.at = None /\ t = owner /\ n = c.number)
  <2>1. Inserting(t, n)' \subseteq Inserting(t, n)
    BY <1>1, <1>2, <1>3, <1>8 DEF Inserting
  <2>2. Cardinality(Inserting(t, n)') <= Cardinality(Inserting(t, n))
    BY <2>1, SetsAreFinite, FS_Subset
  <2>3. /\ Cardinality(Inserting(t, n)') \in Nat /\ Cardinality(Inserting(t, n)) \in Nat
        /\ Cardinality(RowsOfNumber(t, n)) \in Nat
    BY <2>1, SetsAreFinite, FS_Subset, FS_CardinalityType
  <2> QED BY <1>5, <1>6, <2>2, <2>3 DEF ChannelsAreBounded
<1> QED BY <1>7, <1>8

LEMMA SaveStaysBounded ==
  ASSUME ChannelsInv, ChannelsAreBounded, NEW k \in Callbacks, SaveChannel(k)
  PROVE  ChannelsAreBounded'
<1> DEFINE c == callback[k]
           owner == oauth[c.flow].tenant
           insert == c.copy.at = None
<1>1. /\ callback \in [Callbacks -> Callback] /\ oauth \in [Flows -> OAuth]
      /\ row \in [Rows -> Channel \cup {None}]
      /\ c \in Callback /\ CallbackOK(c) /\ c.pc = "save"
      /\ UNCHANGED <<oauth, clerk, hook>>
  BY DEF ChannelsInv, TypeOK, CallbacksHoldCopies, SaveChannel
<1>2. PICK rec : rec = [c EXCEPT !.pc = "idle"]
  OBVIOUS
<1>3. callback' = [callback EXCEPT ![k] = rec] /\ rec.pc = "idle"
  BY <1>1, <1>2 DEF SaveChannel, Callback
<1>4. PICK r, new :
        /\ r \in IF insert THEN Rows \ Stored ELSE {c.copy.at}
        /\ new = [tenant |-> owner, number |-> c.number,
                  metaId |-> IF c.metaId # None THEN c.metaId
                             ELSE IF insert THEN None ELSE c.copy.as.metaId,
                  connected |-> TRUE]
        /\ row' = [row EXCEPT ![r] = new]
        /\ misled' = IF c.metaId \in {None, c.number} THEN misled ELSE misled \cup {r}
  BY DEF SaveChannel
<1>5. /\ owner \in Tenants /\ c.number \in Numbers /\ c.metaId \in Ids /\ c.copy \in Copy
      /\ ~insert => /\ IsCopy(c.copy)
                    /\ c.copy.as.tenant = owner /\ c.copy.as.number = c.number
  BY <1>1 DEF CallbackOK, OAuth, Ids, Callback
<1>6. new \in Channel /\ new.tenant = owner /\ new.number = c.number /\ new # None
  <2>1. new \in Channel /\ new.tenant = owner /\ new.number = c.number
    BY <1>4, <1>5 DEF Channel, IsCopy, Ids
  <2> QED BY <2>1, NoneIsNoChannel
<1>7. \A t, n : Inserting(t, n)' \subseteq Inserting(t, n) \ {k}
  BY <1>1, <1>3 DEF Inserting
<1>8. CASE ~insert
  <2>1. \A t, n : RowsOfNumber(t, n)' = RowsOfNumber(t, n)
    BY <1>4, <1>5, <1>6, <1>8, SavedOverCopy, RowsKeepTheirNumber
  <2> QED BY <1>7, <2>1, NoMoreStaysBounded
<1>9. CASE insert
  <2> SUFFICES ASSUME NEW t \in Tenants, NEW n \in Numbers
               PROVE  Cardinality(RowsOfNumber(t, n)') + Cardinality(Inserting(t, n)')
                        <= Cardinality(Callbacks)
    BY DEF ChannelsAreBounded
  <2> DEFINE there == RowsOfNumber(t, n)
             coming == Inserting(t, n)
  <2>1. Stored' = Stored \cup {r} /\ r \in Rows \ Stored
        /\ \A q \in Stored : row'[q] = row[q]
    BY <1>1, <1>4, <1>6, <1>9 DEF Stored
  <2>2. row'[r] = new
    BY <1>1, <1>4, <2>1
  <2>3. /\ IsFiniteSet(there) /\ IsFiniteSet(coming)
        /\ Cardinality(there) \in Nat /\ Cardinality(coming) \in Nat
        /\ Cardinality(Callbacks) \in Nat
        /\ Cardinality(there) + Cardinality(coming) <= Cardinality(Callbacks)
    BY SetsAreFinite, FS_CardinalityType, ChannelsAssumption DEF ChannelsAssumption, ChannelsAreBounded
  <2>4. CASE t = owner /\ n = c.number
    <3>1. k \in coming
      BY <1>1, <1>9, <2>4 DEF Inserting
    <3>2. Cardinality(coming \ {k}) = Cardinality(coming) - 1
      BY <2>3, <3>1, FS_RemoveElement
    <3>3. there' = there \cup {r} /\ r \notin there
      BY <1>6, <2>1, <2>2, <2>4 DEF RowsOfNumber, RowsOf
    <3>4. Cardinality(there \cup {r}) = Cardinality(there) + 1
      BY <2>3, <3>3, FS_AddElement
    <3>5. /\ Cardinality(coming') <= Cardinality(coming \ {k}) /\ Cardinality(coming') \in Nat
      BY <1>7, <2>3, SetsAreFinite, FS_Subset, FS_RemoveElement, FS_CardinalityType
    <3> QED BY <2>3, <3>2, <3>3, <3>4, <3>5
  <2>5. CASE ~(t = owner /\ n = c.number)
    <3>1. there' \subseteq there /\ coming' \subseteq coming
      BY <1>6, <1>7, <2>1, <2>2, <2>5 DEF RowsOfNumber, RowsOf
    <3>2. /\ Cardinality(there') <= Cardinality(there) /\ Cardinality(there') \in Nat
          /\ Cardinality(coming') <= Cardinality(coming) /\ Cardinality(coming') \in Nat
      BY <2>3, <3>1, FS_Subset, FS_CardinalityType
    <3> QED BY <2>3, <3>2
  <2> QED BY <2>4, <2>5
<1> QED BY <1>8, <1>9

(* The other steps: entities and states keep their row, tenant and number. *)
LEMMA RestStaysBounded ==
  ASSUME ChannelsInv, ChannelsAreBounded,
         \A t, n : RowsOfNumber(t, n)' = RowsOfNumber(t, n),
         OwnersStay,
         \A k \in Callbacks :
           \/ callback'[k] = callback[k]
           \/ callback'[k].pc # "save"
  PROVE  ChannelsAreBounded'
<1>1. ASSUME NEW t, NEW n PROVE Inserting(t, n)' \subseteq Inserting(t, n)
  <2> SUFFICES ASSUME NEW k \in Inserting(t, n)' PROVE k \in Inserting(t, n)
    OBVIOUS
  <2>1. callback'[k] = callback[k] /\ k \in Callbacks /\ callback[k].pc = "save"
    BY DEF Inserting
  <2>2. callback[k].flow \in Flows /\ oauth[callback[k].flow].tenant # None
    BY <2>1 DEF ChannelsInv, CallbacksHoldCopies, CallbackOK
  <2>3. oauth'[callback[k].flow].tenant = oauth[callback[k].flow].tenant
    BY <2>2 DEF OwnersStay
  <2> QED BY <2>1, <2>3 DEF Inserting
<1> QED BY <1>1, NoMoreStaysBounded

LEMMA ChannelsBoundedNext == ChannelsInv /\ ChannelsAreBounded /\ [Next]_vars => ChannelsAreBounded'
<1> SUFFICES ASSUME ChannelsInv, ChannelsAreBounded, [Next]_vars PROVE ChannelsAreBounded'
  OBVIOUS
<1>a. callback \in [Callbacks -> Callback] /\ oauth \in [Flows -> OAuth]
  BY DEF ChannelsInv, TypeOK
<1>r. UNCHANGED row => \A t, n : RowsOfNumber(t, n)' = RowsOfNumber(t, n)
  BY DEF RowsOfNumber, RowsOf, Stored
<1>1. ASSUME UNCHANGED <<row, callback>>, OwnersStay PROVE ChannelsAreBounded'
  BY <1>r, <1>1, RestStaysBounded
<1>2. CASE UNCHANGED vars
  BY <1>1, <1>2 DEF vars, OwnersStay
<1>3. ASSUME NEW f \in Flows, ExpireState(f) \/ \E t \in Tenants : InitConnect(f, t)
      PROVE  ChannelsAreBounded'
  BY <1>a, <1>1, <1>3 DEF ExpireState, InitConnect, OwnersStay, OAuth
<1>4. ASSUME NEW k \in Callbacks, CallbackNext(k) PROVE ChannelsAreBounded'
  <2>1. ASSUME UNCHANGED row, OwnersStay,
               NEW c, callback' = [callback EXCEPT ![k] = c], c.pc # "save"
        PROVE  ChannelsAreBounded'
    BY <1>a, <1>r, <2>1, RestStaysBounded
  <2>2. ASSUME NEW f \in Flows, NEW n \in Numbers, GetState(k, f, n) PROVE ChannelsAreBounded'
    <3>1. PICK rec : /\ rec = [pc |-> "delete", flow |-> f, number |-> n, metaId |-> None, copy |-> NoCopy]
                     /\ callback' = [callback EXCEPT ![k] = rec]
      BY <2>2 DEF GetState
    <3>2. rec.pc = "delete" /\ UNCHANGED <<row, oauth>>
      BY <2>2, <3>1 DEF GetState
    <3> QED BY <2>1, <3>1, <3>2 DEF OwnersStay
  <2>3. CASE DelState(k) \/ Authorize(k) \/ CallbackFails(k)
    <3>1. UNCHANGED row /\ OwnersStay
      <4> DEFINE flow == callback[k].flow
      <4>1. PICK spent, kept : /\ spent = [oauth[flow] EXCEPT !.spent = TRUE]
                               /\ kept = [oauth[flow] EXCEPT !.stored = FALSE]
        OBVIOUS
      <4>2. /\ UNCHANGED row
            /\ \/ oauth' = [oauth EXCEPT ![flow] = spent]
               \/ oauth' = [oauth EXCEPT ![flow] = kept]
               \/ oauth' = oauth
        BY <2>3, <4>1 DEF DelState, Authorize, CallbackFails
      <4>3. flow \in Flows => spent.tenant = oauth[flow].tenant /\ kept.tenant = oauth[flow].tenant
        BY <1>a, <4>1 DEF OAuth
      <4> QED BY <1>a, <4>2, <4>3 DEF OwnersStay
    <3>2. PICK c : callback' = [callback EXCEPT ![k] = c] /\ c.pc # "save"
      <4> DEFINE Moved(c) == callback' = [callback EXCEPT ![k] = c] /\ c.pc # "save"
      <4>1. CASE DelState(k)
        <5>1. PICK c : c = [callback[k] EXCEPT !.pc = "authorize"]
          OBVIOUS
        <5>2. callback' = [callback EXCEPT ![k] = c] /\ c.pc = "authorize"
          BY <1>a, <4>1, <5>1 DEF DelState, Callback
        <5>3. Moved(c)
          BY <5>2
        <5> QED BY <5>3
      <4>2. CASE Authorize(k)
        <5>1. PICK i : callback' = [callback EXCEPT ![k] = [callback[k] EXCEPT !.pc = "find", !.metaId = i]]
          BY <4>2 DEF Authorize
        <5>2. PICK c : c = [callback[k] EXCEPT !.pc = "find", !.metaId = i]
          OBVIOUS
        <5>3. callback' = [callback EXCEPT ![k] = c] /\ c.pc = "find"
          BY <1>a, <5>1, <5>2 DEF Callback
        <5>4. Moved(c)
          BY <5>3
        <5> QED BY <5>4
      <4>3. CASE CallbackFails(k)
        <5>1. PICK c : c = [callback[k] EXCEPT !.pc = "idle"]
          OBVIOUS
        <5>2. callback' = [callback EXCEPT ![k] = c] /\ c.pc = "idle"
          BY <1>a, <4>3, <5>1 DEF CallbackFails, Callback
        <5>3. Moved(c)
          BY <5>2
        <5> QED BY <5>3
      <4> QED BY <2>3, <4>1, <4>2, <4>3
    <3> QED BY <2>1, <3>1, <3>2
  <2> QED BY <1>4, <2>2, <2>3, FindStaysBounded, SaveStaysBounded DEF CallbackNext
<1>5. ASSUME NEW c, IsCopy(c), NEW new \in Channel, new.tenant = c.as.tenant, new.number = c.as.number,
             row' = [row EXCEPT ![c.at] = new], UNCHANGED <<oauth, callback, misled>>
      PROVE  ChannelsAreBounded'
  <2>1. \A t, n : RowsOfNumber(t, n)' = RowsOfNumber(t, n)
    BY <1>5, SavedOverCopy, RowsKeepTheirNumber
  <2> QED BY <1>5, <2>1, RestStaysBounded DEF OwnersStay
<1>6. ASSUME NEW w \in Clerks, FindToDisconnect(w) \/ SaveDisconnected(w) \/ DisconnectFails(w)
      PROVE  ChannelsAreBounded'
  <2>1. CASE SaveDisconnected(w)
    <3>1. PICK new : new = [clerk[w].as EXCEPT !.connected = FALSE]
      OBVIOUS
    <3>2. /\ row' = [row EXCEPT ![clerk[w].at] = new] /\ UNCHANGED <<oauth, callback, misled>>
          /\ IsCopy(clerk[w])
      BY <2>1, <3>1 DEF SaveDisconnected, ChannelsInv, ClerksHoldCopies
    <3>3. new \in Channel /\ new.tenant = clerk[w].as.tenant /\ new.number = clerk[w].as.number
      BY <3>1, <3>2 DEF Channel, IsCopy
    <3> QED BY <1>5, <3>2, <3>3
  <2>2. CASE FindToDisconnect(w) \/ DisconnectFails(w)
    BY <1>1, <2>2 DEF FindToDisconnect, DisconnectFails, OwnersStay
  <2> QED BY <1>6, <2>1, <2>2
<1>7. ASSUME NEW h \in Hooks, HookNext(h) PROVE ChannelsAreBounded'
  <2>1. CASE Backfill(h)
    <3>1. PICK new : new = [hook[h].copy.as EXCEPT !.metaId = hook[h].id]
      OBVIOUS
    <3>2. /\ row' = [row EXCEPT ![hook[h].copy.at] = new] /\ UNCHANGED <<oauth, callback, misled>>
          /\ IsCopy(hook[h].copy) /\ hook[h].id \in Ids
      BY <2>1, <3>1 DEF Backfill, ChannelsInv, HooksHoldCopies, HookOK, TypeOK, Hook
    <3>3. /\ new \in Channel /\ new.tenant = hook[h].copy.as.tenant
          /\ new.number = hook[h].copy.as.number
      BY <3>1, <3>2 DEF Channel, IsCopy
    <3> QED BY <1>5, <3>2, <3>3
  <2>2. CASE BeginLookup(h) \/ ListTenants(h) \/ ListRejected(h) \/ NoTenantLeft(h) \/ BackfillFails(h)
             \/ \E t \in Tenants : ScanTenant(h, t) \/ SkipTenant(h, t)
    BY <1>1, <2>2 DEF BeginLookup, ListTenants, ListRejected, NoTenantLeft, BackfillFails,
                      ScanTenant, SkipTenant, OwnersStay
  <2> QED BY <1>7, <2>1, <2>2 DEF HookNext
<1> QED BY <1>2, <1>3, <1>4, <1>6, <1>7 DEF Next

(* find, then insert, without an index: a number has no more rows of a     *)
(* tenant, with those about to be inserted, than callbacks may overlap,    *)
(* for every number of them and however often it is disconnected and       *)
(* connected again (upsertConnectedChannel).                               *)
THEOREM ChannelsStayFew == Spec => []ChannelsAreBounded
<1>1. Init => ChannelsAreBounded
  <2> SUFFICES ASSUME Init, NEW t \in Tenants, NEW n \in Numbers
               PROVE  Cardinality(RowsOfNumber(t, n)) + Cardinality(Inserting(t, n))
                        <= Cardinality(Callbacks)
    BY DEF ChannelsAreBounded
  <2>1. RowsOfNumber(t, n) = {} /\ Inserting(t, n) = {}
    BY DEF Init, RowsOfNumber, RowsOf, Stored, Inserting
  <2>2. Cardinality(Callbacks) \in Nat
    BY ChannelsAssumption, FS_CardinalityType DEF ChannelsAssumption
  <2> QED BY <2>1, <2>2, FS_EmptySet
<1> QED BY <1>1, ChannelsInvariant, ChannelsBoundedNext, PTL DEF Spec
=============================================================================
