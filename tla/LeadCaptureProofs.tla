------------------------- MODULE LeadCaptureProofs -------------------------
(***************************************************************************)
(* LeadCapture, for every set of messages, staff requests and names, and   *)
(* any number of handlers that overlap and fail.                           *)
(***************************************************************************)
EXTENDS LeadCapture, FiniteSetTheorems, TLAPS

-----------------------------------------------------------------------------
(* The inductive invariant *)

(* A row comes with the entity that was found.  While the names are in     *)
(* sync, the entities that handlers will write carry the contact's name,   *)
(* and no staff request is between its two writes.                         *)
CaptureOK(m) ==
  /\ capture[m].pc = "waiting" => capture[m].row = 0
  /\ capture[m].row # 0 => capture[m].copy \in Lead
  /\ synced /\ capture[m].pc \in {"find", "save"} => capture[m].ent = contact
  /\ synced /\ capture[m].row # 0 => capture[m].pc = "done" \/ capture[m].copy.name = contact

ClerkOK(w) ==
  /\ clerk[w].pc = "lead" => clerk[w].row \in Rows /\ clerk[w].copy \in Lead
  /\ synced => /\ clerk[w].pc = "lead" => clerk[w].copy.name = contact
               /\ clerk[w].pc = "contact" => clerk[w].row = 1 \/ clerk[w].ent = contact
               /\ clerk[w].pc # "sync"

CapturesHoldTheirs == \A m \in Signals : CaptureOK(m)
ClerksHoldTheirs == \A w \in Clerks : ClerkOK(w)

(* The leads that are open or that a handler that found them open will     *)
(* write as open, and the handlers that found none and will insert one.    *)
Claimed == {r \in Rows : \E m \in Signals : capture[m].pc = "save" /\ capture[m].row = r}
Inserters == {m \in Signals : capture[m].pc = "save" /\ capture[m].row = 0}
Reach == (Open \cup Claimed) \ reopened

FewAtWork == Cardinality(InFlight) <= MaxInFlight
FewOpen == Cardinality(Reach) + Cardinality(Inserters) <= MaxInFlight

LeadInv ==
  /\ LeadTypeOK /\ CapturesHoldTheirs /\ ClerksHoldTheirs
  /\ FewAtWork /\ FewOpen /\ NamesInSync

Others ==
  /\ LeadTypeOK /\ CapturesHoldTheirs /\ ClerksHoldTheirs
  /\ FewAtWork /\ NamesInSync

-----------------------------------------------------------------------------
(* The newest of the leads: a bounded set of numbers has a greatest one.   *)
LEMMA SmallestExists ==
  ASSUME NEW T, T \subseteq Nat, T # {}
  PROVE  \E x \in T : \A y \in T : x <= y
<1>1. PICK R : IsWellFoundedOn(R, Nat) /\ \A a, b \in Nat : <<a, b>> \in R <=> a < b
  <2>1. \A a, b \in Nat : <<a, b>> \in OpToRel(<, Nat) <=> a < b
    BY DEF OpToRel
  <2> QED BY <2>1, NatLessThanWellFounded, Zenon
<1>2. PICK x \in T : \A y \in T : ~ (<<y, x>> \in R)
  <2>1. IsWellFoundedOn(R, Nat)
    BY <1>1
  <2> QED BY <2>1, WFMin
<1>3. ASSUME NEW y \in T PROVE x <= y
  <2>1. y \in Nat /\ x \in Nat /\ ~ (y < x)
    BY <1>1, <1>2
  <2> QED BY <2>1
<1> QED BY <1>3

LEMMA GreatestRow ==
  ASSUME NEW S, S \subseteq Rows, S # {}
  PROVE  Max(S) \in S
<1> DEFINE Above == {u \in Nat : \A y \in S : y <= u}
<1>1. PICK n \in Nat : S \subseteq 1..n
  BY LeadAssumption, FS_CardinalityType DEF Rows
<1>2. n \in Above
  BY <1>1
<1>3. PICK u \in Above : \A v \in Above : u <= v
  <2>1. Above \subseteq Nat /\ Above # {}
    BY <1>2
  <2> HIDE DEF Above
  <2> QED BY <2>1, SmallestExists
<1>4. u \in S
  <2> SUFFICES ASSUME u \notin S PROVE FALSE
    OBVIOUS
  <2>1. PICK y \in S : TRUE
    OBVIOUS
  <2>2. u - 1 \in Nat /\ \A z \in S : z <= u - 1
    BY <1>1, <2>1
  <2>3. u - 1 \in Above
    BY <2>2
  <2> QED BY <2>3, <1>3
<1>5. \E x \in S : \A y \in S : x >= y
  BY <1>1, <1>4
<1> QED BY <1>5 DEF Max

-----------------------------------------------------------------------------
(* Records *)
LEMMA CapturePc ==
  ASSUME NEW e \in Capture, NEW s \in {"waiting", "contact", "fill", "find", "save", "done"},
         NEW c, c = [e EXCEPT !.pc = s]
  PROVE  /\ c \in Capture /\ c.pc = s
         /\ c.sender = e.sender /\ c.ent = e.ent /\ c.row = e.row /\ c.copy = e.copy
BY DEF Capture

LEMMA IdleType == Idle \in Clerk /\ Idle.pc = "idle"
BY DEF Idle, Clerk, MaybeName

LEMMA RowsAreNumbers == IsFiniteSet(Rows) /\ 0 \notin Rows
<1>1. Cardinality(Signals) \in Nat
  BY LeadAssumption, FS_CardinalityType
<1> QED BY <1>1, FS_Interval DEF Rows

-----------------------------------------------------------------------------
(* Handlers at work *)
LEMMA InFlightIsFinite == IsFiniteSet(InFlight) /\ Cardinality(InFlight) \in Nat
<1>1. InFlight \subseteq Signals \cup Clerks
  BY DEF InFlight
<1>2. IsFiniteSet(Signals \cup Clerks)
  BY LeadAssumption, FS_Union
<1> QED BY <1>1, <1>2, FS_Subset, FS_CardinalityType

LEMMA WorkGrows ==
  ASSUME FewAtWork, NEW x, InFlight' \subseteq InFlight \cup {x}, x \in InFlight \/ CanBegin
  PROVE  FewAtWork'
<1>1. CASE x \in InFlight
  <2>1. InFlight' \subseteq InFlight
    BY <1>1
  <2>2. Cardinality(InFlight') <= Cardinality(InFlight) /\ Cardinality(InFlight') \in Nat
    BY <2>1, InFlightIsFinite, FS_Subset, FS_CardinalityType
  <2> QED BY <2>2, InFlightIsFinite, LeadAssumption DEF FewAtWork
<1>2. CASE x \notin InFlight
  <2>1. /\ IsFiniteSet(InFlight \cup {x})
        /\ Cardinality(InFlight \cup {x}) = Cardinality(InFlight) + 1
    BY <1>2, InFlightIsFinite, FS_AddElement
  <2>2. Cardinality(InFlight') <= Cardinality(InFlight) + 1 /\ Cardinality(InFlight') \in Nat
    BY <2>1, FS_Subset, FS_CardinalityType
  <2>3. Cardinality(InFlight) < MaxInFlight
    BY <1>2 DEF CanBegin
  <2> QED BY <2>2, <2>3, InFlightIsFinite, LeadAssumption DEF FewAtWork
<1> QED BY <1>1, <1>2

-----------------------------------------------------------------------------
(* A step of one handler keeps what is said of the others.                 *)
LEMMA CaptureStep ==
  ASSUME Others, NEW m \in Signals, NEW c \in Capture, capture' = [capture EXCEPT ![m] = c],
         capture[m].pc \notin {"waiting", "done"} \/ CanBegin,
         clerk' = clerk, renames' = renames, reopened' = reopened,
         contact' \in MaybeName, synced' \in BOOLEAN,
         synced' => synced /\ contact' = contact,
         lead' \in [Rows -> Lead \cup {Null}],
         synced' => \A r \in Rows : lead'[r] # Null => lead'[r].name = contact,
         CaptureOK(m)'
  PROVE  Others'
<1>1. \A n \in Signals : capture'[n] = IF n = m THEN c ELSE capture[n]
  BY DEF Others, LeadTypeOK
<1>2. LeadTypeOK'
  <2>1. capture' \in [Signals -> Capture]
    BY DEF Others, LeadTypeOK
  <2> QED BY <2>1 DEF Others, LeadTypeOK
<1>3. CapturesHoldTheirs'
  <2> SUFFICES ASSUME NEW n \in Signals, n # m PROVE CaptureOK(n)'
    BY DEF CapturesHoldTheirs
  <2>1. CaptureOK(n) /\ capture'[n] = capture[n]
    BY <1>1 DEF Others, CapturesHoldTheirs
  <2> QED BY <2>1 DEF CaptureOK
<1>4. ClerksHoldTheirs'
  BY DEF Others, ClerksHoldTheirs, ClerkOK
<1>5. FewAtWork'
  <2>1. InFlight' \subseteq InFlight \cup {m}
    BY <1>1 DEF InFlight
  <2>2. m \in InFlight \/ CanBegin
    BY DEF InFlight
  <2> QED BY <2>1, <2>2, WorkGrows DEF Others
<1>6. NamesInSync'
  BY DEF NamesInSync, Leads
<1> QED BY <1>2, <1>3, <1>4, <1>5, <1>6 DEF Others

LEMMA ClerkStep ==
  ASSUME Others, NEW w \in Clerks, NEW k \in Clerk, clerk' = [clerk EXCEPT ![w] = k],
         clerk[w].pc # "idle" \/ CanBegin,
         capture' = capture, renames' \in 0..MaxRenames, reopened' \subseteq Rows,
         contact' \in MaybeName, synced' \in BOOLEAN,
         synced' => synced /\ contact' = contact,
         lead' \in [Rows -> Lead \cup {Null}],
         synced' => \A r \in Rows : lead'[r] # Null => lead'[r].name = contact,
         ClerkOK(w)'
  PROVE  Others'
<1>1. \A v \in Clerks : clerk'[v] = IF v = w THEN k ELSE clerk[v]
  BY DEF Others, LeadTypeOK
<1>2. LeadTypeOK'
  <2>1. clerk' \in [Clerks -> Clerk]
    BY DEF Others, LeadTypeOK
  <2> QED BY <2>1 DEF Others, LeadTypeOK
<1>3. ClerksHoldTheirs'
  <2> SUFFICES ASSUME NEW v \in Clerks, v # w PROVE ClerkOK(v)'
    BY DEF ClerksHoldTheirs
  <2>1. ClerkOK(v) /\ clerk'[v] = clerk[v]
    BY <1>1 DEF Others, ClerksHoldTheirs
  <2> QED BY <2>1 DEF ClerkOK
<1>4. CapturesHoldTheirs'
  BY DEF Others, CapturesHoldTheirs, CaptureOK
<1>5. FewAtWork'
  <2>1. InFlight' \subseteq InFlight \cup {w}
    BY <1>1 DEF InFlight
  <2>2. w \in InFlight \/ CanBegin
    BY DEF InFlight
  <2> QED BY <2>1, <2>2, WorkGrows DEF Others
<1>6. NamesInSync'
  BY DEF NamesInSync, Leads
<1> QED BY <1>2, <1>3, <1>4, <1>5, <1>6 DEF Others

LEMMA CaptureFacts ==
  ASSUME Others, NEW m \in Signals
  PROVE  /\ capture[m] \in Capture /\ CaptureOK(m)
         /\ capture[m].sender \in MaybeName /\ capture[m].ent \in MaybeName
         /\ capture[m].row \in Rows \cup {0} /\ capture[m].copy \in Lead \cup {Null}
         /\ contact \in MaybeName /\ lead \in [Rows -> Lead \cup {Null}]
         /\ synced => \A r \in Rows : lead[r] # Null => lead[r].name = contact
BY DEF Others, LeadTypeOK, Capture, CapturesHoldTheirs, NamesInSync, Leads

LEMMA SameNames ==
  ASSUME Others, lead' = lead
  PROVE  /\ lead' \in [Rows -> Lead \cup {Null}]
         /\ synced => \A r \in Rows : lead'[r] # Null => lead'[r].name = contact
BY DEF Others, LeadTypeOK, NamesInSync, Leads

(* The webhook *)
LEMMA BeginStep == ASSUME Others, NEW m \in Signals, Begin(m) PROVE Others'
<1>1. PICK c : c = [capture[m] EXCEPT !.pc = "contact"]
  OBVIOUS
<1>2. /\ c \in Capture /\ c.pc = "contact"
      /\ c.row = capture[m].row /\ c.copy = capture[m].copy
  BY <1>1, CaptureFacts, CapturePc
<1>3. /\ capture' = [capture EXCEPT ![m] = c] /\ capture[m].pc = "waiting" /\ CanBegin
      /\ UNCHANGED <<contact, lead, clerk, renames, synced, reopened>>
  BY <1>1 DEF Begin
<1>4. CaptureOK(m)'
  <2>1. capture'[m] = c
    BY <1>3 DEF Others, LeadTypeOK
  <2> QED BY <1>2, <1>3, <2>1, CaptureFacts DEF CaptureOK
<1>5. contact \in MaybeName /\ synced \in BOOLEAN
  BY DEF Others, LeadTypeOK
<1> QED BY <1>2, <1>3, <1>4, <1>5, SameNames, CaptureStep

LEMMA FindContactStep == ASSUME Others, NEW m \in Signals, FindContact(m) PROVE Others'
<1>1. /\ capture[m].pc = "contact"
      /\ UNCHANGED <<contact, lead, clerk, renames, synced, reopened>>
  BY DEF FindContact
<1>2. contact \in MaybeName /\ synced \in BOOLEAN
  BY DEF Others, LeadTypeOK
<1>3. CASE contact = Null /\ capture[m].sender # Null
  <2> PICK e \in Capture, n \in MaybeName : e = capture[m] /\ n = capture[m].sender
    BY CaptureFacts
  <2>1. PICK c : c = [e EXCEPT !.pc = "fill", !.ent = n]
    OBVIOUS
  <2>2. /\ c \in Capture /\ c.pc = "fill" /\ c.row = e.row /\ c.copy = e.copy
    BY <2>1 DEF Capture
  <2>3. capture' = [capture EXCEPT ![m] = c]
    BY <1>3, <2>1 DEF FindContact
  <2>4. CaptureOK(m)'
    <3>1. capture'[m] = c
      BY <2>3 DEF Others, LeadTypeOK
    <3> QED BY <1>1, <2>2, <3>1, CaptureFacts DEF CaptureOK
  <2> QED BY <1>1, <1>2, <2>2, <2>3, <2>4, SameNames, CaptureStep
<1>4. CASE ~ (contact = Null /\ capture[m].sender # Null)
  <2> PICK e \in Capture, n \in MaybeName : e = capture[m] /\ n = contact
    BY CaptureFacts
  <2>1. PICK c : c = [e EXCEPT !.pc = "find", !.ent = n]
    OBVIOUS
  <2>2. /\ c \in Capture /\ c.pc = "find" /\ c.ent = contact
        /\ c.row = e.row /\ c.copy = e.copy
    BY <2>1 DEF Capture
  <2>3. capture' = [capture EXCEPT ![m] = c]
    BY <1>4, <2>1 DEF FindContact
  <2>4. CaptureOK(m)'
    <3>1. capture'[m] = c
      BY <2>3 DEF Others, LeadTypeOK
    <3> QED BY <1>1, <2>2, <3>1, CaptureFacts DEF CaptureOK
  <2> QED BY <1>1, <1>2, <2>2, <2>3, <2>4, SameNames, CaptureStep
<1> QED BY <1>3, <1>4

LEMMA FillNameStep == ASSUME Others, NEW m \in Signals, FillName(m) PROVE Others'
<1>1. PICK c : c = [capture[m] EXCEPT !.pc = "find"]
  OBVIOUS
<1>2. /\ c \in Capture /\ c.pc = "find"
      /\ c.row = capture[m].row /\ c.copy = capture[m].copy
  BY <1>1, CaptureFacts, CapturePc
<1>3. /\ capture' = [capture EXCEPT ![m] = c] /\ capture[m].pc = "fill"
      /\ contact' = capture[m].ent /\ synced' = FALSE
      /\ UNCHANGED <<lead, clerk, renames, reopened>>
  BY <1>1 DEF FillName
<1>4. CaptureOK(m)'
  <2>1. capture'[m] = c
    BY <1>3 DEF Others, LeadTypeOK
  <2> QED BY <1>2, <1>3, <2>1, CaptureFacts DEF CaptureOK
<1> QED BY <1>2, <1>3, <1>4, SameNames, CaptureFacts, CaptureStep

(* What is found is a lead that is there.                                  *)
LEMMA NewestOpen ==
  ASSUME Others, Open # {}
  PROVE  Max(Open) \in Open /\ Max(Open) \in Rows /\ lead[Max(Open)] \in Lead /\ lead[Max(Open)] # Null
<1>1. Open \subseteq Rows
  BY DEF Open, Leads
<1>2. Max(Open) \in Open
  BY <1>1, GreatestRow
<1> QED BY <1>1, <1>2 DEF Others, LeadTypeOK, Open, Leads

LEMMA FindLeadStep == ASSUME Others, NEW m \in Signals, FindLead(m) PROVE Others'
<1>1. /\ capture[m].pc = "find"
      /\ UNCHANGED <<contact, lead, clerk, renames, synced, reopened>>
  BY DEF FindLead
<1>2. contact \in MaybeName /\ synced \in BOOLEAN
  BY DEF Others, LeadTypeOK
<1>3. CASE Open = {}
  <2>1. PICK c : c = [capture[m] EXCEPT !.pc = "save"]
    OBVIOUS
  <2>2. /\ c \in Capture /\ c.pc = "save" /\ c.ent = capture[m].ent
        /\ c.row = capture[m].row /\ c.copy = capture[m].copy
    BY <2>1, CaptureFacts, CapturePc
  <2>3. capture' = [capture EXCEPT ![m] = c]
    BY <1>3, <2>1 DEF FindLead
  <2>4. CaptureOK(m)'
    <3>1. capture'[m] = c
      BY <2>3 DEF Others, LeadTypeOK
    <3> QED BY <1>1, <2>2, <3>1, CaptureFacts DEF CaptureOK
  <2> QED BY <1>1, <1>2, <2>2, <2>3, <2>4, SameNames, CaptureStep
<1>4. CASE Open # {}
  <2> PICK e \in Capture : e = capture[m]
    BY CaptureFacts
  <2>1. PICK r, l : r = Max(Open) /\ l = lead[r]
    OBVIOUS
  <2>2. r \in Rows /\ l \in Lead /\ l # Null
    BY <1>4, <2>1, NewestOpen
  <2>3. PICK c : c = [e EXCEPT !.pc = "save", !.row = r, !.copy = l]
    OBVIOUS
  <2>4. c \in Capture /\ c.pc = "save" /\ c.ent = e.ent /\ c.row = r /\ c.copy = l
    BY <2>2, <2>3 DEF Capture
  <2>5. capture' = [capture EXCEPT ![m] = c]
    BY <1>4, <2>1, <2>3 DEF FindLead
  <2>6. CaptureOK(m)'
    <3>1. capture'[m] = c
      BY <2>5 DEF Others, LeadTypeOK
    <3> QED BY <1>1, <2>1, <2>2, <2>4, <3>1, CaptureFacts DEF CaptureOK
  <2> QED BY <1>1, <1>2, <2>4, <2>5, <2>6, SameNames, CaptureStep
<1> QED BY <1>3, <1>4

(* What is written carries the contact's name when the entity did.         *)
LEMMA SavedLead ==
  ASSUME Others, NEW m \in Signals, SaveLead(m)
  PROVE  \E r \in Nat, l \in Lead :
           /\ lead' = [lead EXCEPT ![r] = l]
           /\ r = IF capture[m].row = 0 THEN Cardinality(Leads) + 1 ELSE capture[m].row
           /\ synced => l.name = contact
<1>1. capture[m].pc = "save"
  BY DEF SaveLead
<1>2. Cardinality(Leads) \in Nat
  <2>1. Leads \subseteq Rows
    BY DEF Leads
  <2> QED BY <2>1, RowsAreNumbers, FS_Subset, FS_CardinalityType
<1>3. CASE capture[m].row = 0
  <2>1. PICK l : l = [status |-> "new", name |-> capture[m].ent]
    OBVIOUS
  <2>2. l \in Lead /\ l.name = capture[m].ent
    BY <2>1, CaptureFacts DEF Lead, Status
  <2>3. lead' = [lead EXCEPT ![Cardinality(Leads) + 1] = l]
    BY <1>3, <2>1 DEF SaveLead
  <2>4. synced => l.name = contact
    BY <1>1, <2>2, CaptureFacts DEF CaptureOK
  <2>5. PICK r \in Nat : r = Cardinality(Leads) + 1
    BY <1>2
  <2> QED BY <1>3, <2>2, <2>3, <2>4, <2>5
<1>4. CASE capture[m].row # 0
  <2>1. PICK k \in Lead : k = capture[m].copy
    BY <1>4, CaptureFacts DEF CaptureOK
  <2>2. PICK n : n = IF k.name = Null THEN capture[m].ent ELSE k.name
    OBVIOUS
  <2>3. n \in MaybeName
    BY <2>2, CaptureFacts DEF Lead
  <2>4. PICK l : l = [k EXCEPT !.name = n]
    OBVIOUS
  <2>5. l \in Lead /\ l.name = n
    BY <2>3, <2>4 DEF Lead
  <2>6. l = [capture[m].copy EXCEPT !.name = IF @ = Null THEN capture[m].ent ELSE @]
    BY <2>1, <2>2, <2>4
  <2>7. lead' = [lead EXCEPT ![capture[m].row] = l]
    BY <1>4, <2>6 DEF SaveLead
  <2>8. synced => l.name = contact
    BY <1>1, <1>4, <2>1, <2>2, <2>5, CaptureFacts DEF CaptureOK
  <2>9. capture[m].row \in Nat
    BY CaptureFacts DEF Rows
  <2> QED BY <1>4, <2>5, <2>7, <2>8, <2>9
<1> QED BY <1>3, <1>4

LEMMA SaveLeadStep == ASSUME Others, NEW m \in Signals, SaveLead(m) PROVE Others'
<1>1. PICK c : c = [capture[m] EXCEPT !.pc = "done"]
  OBVIOUS
<1>2. /\ c \in Capture /\ c.pc = "done"
      /\ c.row = capture[m].row /\ c.copy = capture[m].copy
  BY <1>1, CaptureFacts, CapturePc
<1>3. /\ capture' = [capture EXCEPT ![m] = c] /\ capture[m].pc = "save"
      /\ UNCHANGED <<contact, clerk, renames, synced, reopened>>
  BY <1>1 DEF SaveLead
<1>4. PICK r \in Nat, l \in Lead : lead' = [lead EXCEPT ![r] = l] /\ (synced => l.name = contact)
  BY SavedLead
<1>5. /\ lead' \in [Rows -> Lead \cup {Null}]
      /\ synced => \A x \in Rows : lead'[x] # Null => lead'[x].name = contact
  BY <1>4, CaptureFacts
<1>6. CaptureOK(m)'
  <2>1. capture'[m] = c
    BY <1>3 DEF Others, LeadTypeOK
  <2> QED BY <1>2, <1>3, <2>1, CaptureFacts DEF CaptureOK
<1>7. contact \in MaybeName /\ synced \in BOOLEAN
  BY DEF Others, LeadTypeOK
<1> QED BY <1>2, <1>3, <1>5, <1>6, <1>7, CaptureStep

LEMMA CaptureFailsStep == ASSUME Others, NEW m \in Signals, CaptureFails(m) PROVE Others'
<1>1. PICK c : c = [capture[m] EXCEPT !.pc = "done"]
  OBVIOUS
<1>2. /\ c \in Capture /\ c.pc = "done"
      /\ c.row = capture[m].row /\ c.copy = capture[m].copy
  BY <1>1, CaptureFacts, CapturePc
<1>3. /\ capture' = [capture EXCEPT ![m] = c] /\ capture[m].pc \notin {"waiting", "done"}
      /\ UNCHANGED <<contact, lead, clerk, renames, synced, reopened>>
  BY <1>1 DEF CaptureFails
<1>4. CaptureOK(m)'
  <2>1. capture'[m] = c
    BY <1>3 DEF Others, LeadTypeOK
  <2> QED BY <1>2, <1>3, <2>1, CaptureFacts DEF CaptureOK
<1>5. contact \in MaybeName /\ synced \in BOOLEAN
  BY DEF Others, LeadTypeOK
<1> QED BY <1>2, <1>3, <1>4, <1>5, SameNames, CaptureStep

(* Staff *)
LEMMA ClerkFacts ==
  ASSUME Others, NEW w \in Clerks
  PROVE  /\ clerk[w] \in Clerk /\ ClerkOK(w) /\ clerk[w].ent \in MaybeName
         /\ contact \in MaybeName /\ synced \in BOOLEAN /\ reopened \subseteq Rows
         /\ renames \in 0..MaxRenames /\ lead \in [Rows -> Lead \cup {Null}]
         /\ synced => \A r \in Rows : lead[r] # Null => lead[r].name = contact
BY DEF Others, LeadTypeOK, Clerk, ClerksHoldTheirs, NamesInSync, Leads

(* The request ends.                                                       *)
LEMMA IdleIsOK ==
  ASSUME Others, NEW w \in Clerks, clerk' = [clerk EXCEPT ![w] = Idle]
  PROVE  ClerkOK(w)'
<1>1. clerk'[w] = Idle
  BY DEF Others, LeadTypeOK
<1> QED BY <1>1, IdleType DEF ClerkOK

LEMMA FindLeadToUpdateStep ==
  ASSUME Others, NEW w \in Clerks, FindLeadToUpdate(w) PROVE Others'
<1>1. /\ clerk[w].pc = "idle" /\ CanBegin
      /\ UNCHANGED <<contact, lead, capture, renames, synced, reopened>>
  BY DEF FindLeadToUpdate
<1>2. PICK r \in Leads, s \in Status \cup {Null} :
        clerk' = [clerk EXCEPT ![w] = [pc |-> "lead", ent |-> Null, row |-> r,
          copy |-> IF s = Null THEN lead[r] ELSE [lead[r] EXCEPT !.status = s]]]
  BY DEF FindLeadToUpdate
<1>3. r \in Rows /\ lead[r] \in Lead /\ (synced => lead[r].name = contact)
  BY ClerkFacts DEF Leads
<1>4. PICK l : l = IF s = Null THEN lead[r] ELSE [lead[r] EXCEPT !.status = s]
  OBVIOUS
<1>5. l \in Lead /\ l.name = lead[r].name
  <2>1. PICK x \in Lead : x = lead[r]
    BY <1>3
  <2>2. CASE s = Null
    BY <1>3, <1>4, <2>2
  <2>3. CASE s # Null
    BY <1>4, <2>1, <2>3 DEF Lead
  <2> QED BY <2>2, <2>3
<1>6. PICK k : k = [pc |-> "lead", ent |-> Null, row |-> r, copy |-> l]
  OBVIOUS
<1>7. k \in Clerk /\ k.pc = "lead" /\ k.row = r /\ k.copy = l
  BY <1>3, <1>5, <1>6 DEF Clerk, MaybeName
<1>8. clerk' = [clerk EXCEPT ![w] = k]
  BY <1>2, <1>4, <1>6
<1>9. ClerkOK(w)'
  <2>1. clerk'[w] = k
    BY <1>8 DEF Others, LeadTypeOK
  <2> QED BY <1>1, <1>3, <1>5, <1>7, <2>1 DEF ClerkOK
<1> QED BY <1>1, <1>7, <1>8, <1>9, SameNames, ClerkFacts, ClerkStep

LEMMA UpdateLeadStep == ASSUME Others, NEW w \in Clerks, UpdateLead(w) PROVE Others'
<1>1. /\ clerk[w].pc = "lead" /\ clerk' = [clerk EXCEPT ![w] = Idle]
      /\ lead' = [lead EXCEPT ![clerk[w].row] = clerk[w].copy]
      /\ reopened' \subseteq reopened \cup {clerk[w].row}
      /\ UNCHANGED <<contact, capture, renames, synced>>
  BY DEF UpdateLead
<1>2. PICK r \in Rows, l \in Lead : /\ r = clerk[w].row /\ l = clerk[w].copy
                                    /\ synced => l.name = contact
  BY <1>1, ClerkFacts DEF ClerkOK
<1>3. lead' = [lead EXCEPT ![r] = l]
  BY <1>1, <1>2
<1>4. /\ lead' \in [Rows -> Lead \cup {Null}]
      /\ synced => \A x \in Rows : lead'[x] # Null => lead'[x].name = contact
  BY <1>2, <1>3, ClerkFacts
<1>5. reopened' \subseteq Rows
  BY <1>1, <1>2, ClerkFacts
<1> QED BY <1>1, <1>4, <1>5, IdleType, IdleIsOK, ClerkFacts, ClerkStep

LEMMA FindContactToUpdateStep ==
  ASSUME Others, NEW w \in Clerks, FindContactToUpdate(w) PROVE Others'
<1>1. /\ clerk[w].pc = "idle" /\ CanBegin
      /\ UNCHANGED <<contact, lead, capture, synced, reopened>>
  BY DEF FindContactToUpdate
<1>2. ASSUME NEW n \in MaybeName, renames < MaxRenames, renames' = renames + 1,
             clerk' = [clerk EXCEPT ![w] = [Idle EXCEPT !.pc = "contact", !.ent = n, !.row = 1]]
      PROVE  Others'
  <2>1. PICK k : k = [Idle EXCEPT !.pc = "contact", !.ent = n, !.row = 1]
    OBVIOUS
  <2>2. k \in Clerk /\ k.pc = "contact" /\ k.row = 1
    BY <2>1 DEF Idle, Clerk
  <2>3. clerk' = [clerk EXCEPT ![w] = k]
    BY <1>2, <2>1
  <2>4. ClerkOK(w)'
    <3>1. clerk'[w] = k
      BY <2>3 DEF Others, LeadTypeOK
    <3> QED BY <2>2, <3>1 DEF ClerkOK
  <2>5. renames' \in 0..MaxRenames
    BY <1>2, ClerkFacts, LeadAssumption
  <2> QED BY <1>1, <2>2, <2>3, <2>4, <2>5, SameNames, ClerkFacts, ClerkStep
<1>3. ASSUME clerk' = [clerk EXCEPT ![w] = [Idle EXCEPT !.pc = "contact", !.ent = contact]],
             renames' = renames
      PROVE  Others'
  <2>1. PICK n, k : n \in MaybeName /\ n = contact /\ k = [Idle EXCEPT !.pc = "contact", !.ent = n]
    BY ClerkFacts
  <2>2. k \in Clerk /\ k.pc = "contact" /\ k.ent = contact
    BY <2>1 DEF Idle, Clerk
  <2>3. clerk' = [clerk EXCEPT ![w] = k]
    BY <1>3, <2>1
  <2>4. ClerkOK(w)'
    <3>1. clerk'[w] = k
      BY <2>3 DEF Others, LeadTypeOK
    <3> QED BY <1>1, <2>2, <3>1 DEF ClerkOK
  <2>5. renames' \in 0..MaxRenames
    BY <1>3, ClerkFacts
  <2> QED BY <1>1, <2>2, <2>3, <2>4, <2>5, SameNames, ClerkFacts, ClerkStep
<1> QED BY <1>2, <1>3 DEF FindContactToUpdate

LEMMA SaveContactStep == ASSUME Others, NEW w \in Clerks, SaveContact(w) PROVE Others'
<1>1. /\ clerk[w].pc = "contact" /\ contact' = clerk[w].ent
      /\ UNCHANGED <<lead, capture, renames, reopened>>
  BY DEF SaveContact
<1>2. CASE clerk[w].row = 1
  <2>1. PICK k : k = [clerk[w] EXCEPT !.pc = "sync"]
    OBVIOUS
  <2>2. k \in Clerk /\ k.pc = "sync"
    BY <2>1, ClerkFacts DEF Clerk
  <2>3. clerk' = [clerk EXCEPT ![w] = k] /\ synced' = FALSE
    BY <1>2, <2>1 DEF SaveContact
  <2>4. ClerkOK(w)'
    <3>1. clerk'[w] = k
      BY <2>3 DEF Others, LeadTypeOK
    <3> QED BY <2>2, <2>3, <3>1 DEF ClerkOK
  <2> QED BY <1>1, <2>2, <2>3, <2>4, SameNames, ClerkFacts, ClerkStep
<1>3. CASE clerk[w].row # 1
  <2>1. clerk' = [clerk EXCEPT ![w] = Idle] /\ synced' = synced
    BY <1>3 DEF SaveContact
  <2>2. synced => contact' = contact
    BY <1>1, <1>3, ClerkFacts DEF ClerkOK
  <2> QED BY <1>1, <2>1, <2>2, IdleType, IdleIsOK, SameNames, ClerkFacts, ClerkStep
<1> QED BY <1>2, <1>3

LEMMA ClerkFailsStep == ASSUME Others, NEW w \in Clerks, ClerkFails(w) PROVE Others'
<1>1. /\ clerk[w].pc # "idle" /\ clerk' = [clerk EXCEPT ![w] = Idle]
      /\ UNCHANGED <<contact, lead, capture, renames, synced, reopened>>
  BY DEF ClerkFails
<1> QED BY <1>1, IdleType, IdleIsOK, SameNames, ClerkFacts, ClerkStep

(* Only a request that is alone syncs for good: every other handler begins *)
(* after it and finds its name.                                            *)
LEMMA SyncedLeads ==
  ASSUME Others, NEW w \in Clerks, SyncLeads(w)
  PROVE  /\ lead' \in [Rows -> Lead \cup {Null}]
         /\ \A r \in Rows : /\ lead'[r] # Null => lead'[r].name = clerk[w].ent
                            /\ lead'[r] # Null => lead[r] # Null /\ lead'[r].status = lead[r].status
<1>1. PICK n \in MaybeName : n = clerk[w].ent
  BY ClerkFacts
<1>2. \A l \in Lead : LET x == [l EXCEPT !.name = n]
                      IN  x \in Lead /\ x.name = n /\ x.status = l.status
  BY DEF Lead
<1>3. lead' = [r \in Rows |-> IF r \in Leads THEN [lead[r] EXCEPT !.name = n] ELSE Null]
  BY <1>1 DEF SyncLeads
<1>4. \A r \in Rows : r \in Leads <=> lead[r] # Null
  BY DEF Leads
<1>5. \A r \in Leads : lead[r] \in Lead
  BY ClerkFacts DEF Leads
<1>6. ASSUME NEW r \in Rows
      PROVE  /\ lead'[r] \in Lead \cup {Null}
             /\ lead'[r] # Null => lead'[r].name = n
             /\ lead'[r] # Null => lead[r] # Null /\ lead'[r].status = lead[r].status
  <2>1. CASE r \in Leads
    <3>1. PICK l \in Lead : l = lead[r]
      BY <1>5, <2>1
    <3>2. PICK x : x = [l EXCEPT !.name = n]
      OBVIOUS
    <3>3. x \in Lead /\ x.name = n /\ x.status = l.status
      BY <3>2 DEF Lead
    <3>4. lead'[r] = x
      BY <1>3, <2>1, <3>1, <3>2
    <3> QED BY <1>4, <2>1, <3>1, <3>3, <3>4
  <2>2. CASE r \notin Leads
    BY <1>3, <2>2
  <2> QED BY <2>1, <2>2
<1>7. lead' = [r \in Rows |-> lead'[r]]
  BY <1>3
<1> QED BY <1>1, <1>6, <1>7

LEMMA SyncLeadsStep == ASSUME Others, NEW w \in Clerks, SyncLeads(w) PROVE Others'
<1>1. /\ clerk[w].pc = "sync" /\ clerk' = [clerk EXCEPT ![w] = Idle]
      /\ synced' = (InFlight = {w} /\ contact = clerk[w].ent)
      /\ UNCHANGED <<contact, capture, renames, reopened>>
  BY DEF SyncLeads
<1>2. \A v \in Clerks : clerk'[v] = IF v = w THEN Idle ELSE clerk[v]
  BY <1>1 DEF Others, LeadTypeOK
<1>3. LeadTypeOK'
  <2>1. clerk' \in [Clerks -> Clerk]
    BY <1>1, IdleType DEF Others, LeadTypeOK
  <2> QED BY <1>1, <2>1, SyncedLeads DEF Others, LeadTypeOK
<1>4. CapturesHoldTheirs'
  <2> SUFFICES ASSUME NEW m \in Signals PROVE CaptureOK(m)'
    BY DEF CapturesHoldTheirs
  <2>1. CASE synced'
    <3>1. capture[m].pc \in {"waiting", "done"}
      <4>1. m \notin InFlight
        BY <1>1, <2>1, LeadAssumption
      <4> QED BY <4>1 DEF InFlight
    <3> QED BY <1>1, <2>1, <3>1, CaptureFacts DEF CaptureOK
  <2>2. CASE ~synced'
    BY <1>1, <2>2, CaptureFacts DEF CaptureOK
  <2> QED BY <2>1, <2>2
<1>5. ClerksHoldTheirs'
  <2> SUFFICES ASSUME NEW v \in Clerks, v # w PROVE ClerkOK(v)'
    BY <1>1, IdleIsOK DEF ClerksHoldTheirs
  <2>1. clerk'[v] = clerk[v] /\ ClerkOK(v)
    BY <1>2, ClerkFacts
  <2>2. CASE synced'
    <3>1. clerk[v].pc = "idle"
      BY <1>1, <2>2 DEF InFlight
    <3> QED BY <2>1, <3>1 DEF ClerkOK
  <2>3. CASE ~synced'
    BY <2>1, <2>3 DEF ClerkOK
  <2> QED BY <2>2, <2>3
<1>6. FewAtWork'
  <2>1. InFlight' \subseteq InFlight \cup {w} /\ w \in InFlight
    BY <1>1, <1>2 DEF InFlight
  <2> QED BY <2>1, WorkGrows DEF Others
<1>7. NamesInSync'
  BY <1>1, SyncedLeads DEF NamesInSync, Leads
<1> QED BY <1>3, <1>4, <1>5, <1>6, <1>7 DEF Others

-----------------------------------------------------------------------------
(* How many leads are open.                                                *)
LEMMA CountsAreFinite ==
  /\ IsFiniteSet(Reach) /\ IsFiniteSet(Inserters)
  /\ Cardinality(Reach) \in Nat /\ Cardinality(Inserters) \in Nat
<1>1. Reach \subseteq Rows /\ Inserters \subseteq Signals
  BY DEF Reach, Open, Leads, Claimed, Inserters
<1> QED BY <1>1, RowsAreNumbers, LeadAssumption, FS_Subset, FS_CardinalityType

LEMMA FewerOpen ==
  ASSUME FewOpen, Reach' \subseteq Reach, Inserters' \subseteq Inserters
  PROVE  FewOpen'
<1>1. /\ Cardinality(Reach') <= Cardinality(Reach) /\ Cardinality(Reach') \in Nat
      /\ Cardinality(Inserters') <= Cardinality(Inserters) /\ Cardinality(Inserters') \in Nat
  BY CountsAreFinite, FS_Subset, FS_CardinalityType
<1> QED BY <1>1, CountsAreFinite, LeadAssumption DEF FewOpen

(* A step that neither finds nor writes a lead.                            *)
LEMMA OpenElsewhere ==
  ASSUME Others, FewOpen, NEW m \in Signals, NEW c, c.pc # "save",
         capture' = [capture EXCEPT ![m] = c], lead' = lead, reopened' = reopened
  PROVE  FewOpen'
<1>1. \A n \in Signals : capture'[n] = IF n = m THEN c ELSE capture[n]
  BY DEF Others, LeadTypeOK
<1>2. Claimed' \subseteq Claimed /\ Inserters' \subseteq Inserters
  BY <1>1 DEF Claimed, Inserters
<1>3. Open' = Open
  BY DEF Open, Leads
<1> QED BY <1>2, <1>3, FewerOpen DEF Reach

(* Who finds no lead is one of the handlers at work, and so are those that *)
(* will write the others.                                                  *)
LEMMA OpenFindLead ==
  ASSUME Others, Others', FewOpen, NEW m \in Signals, FindLead(m) PROVE FewOpen'
<1>1. capture[m].pc = "find" /\ lead' = lead /\ reopened' = reopened /\ clerk' = clerk
  BY DEF FindLead
<1>2. Open' = Open
  BY <1>1 DEF Open, Leads
<1>3. CASE Open # {}
  <2> PICK e \in Capture : e = capture[m]
    BY CaptureFacts
  <2>1. PICK r, l : r = Max(Open) /\ l = lead[r]
    OBVIOUS
  <2>2. r \in Open /\ r \in Rows
    BY <1>3, <2>1, NewestOpen
  <2>3. PICK c : c = [e EXCEPT !.pc = "save", !.row = r, !.copy = l]
    OBVIOUS
  <2>4. c.pc = "save" /\ c.row = r
    BY <2>3 DEF Capture
  <2>5. capture' = [capture EXCEPT ![m] = c]
    BY <1>3, <2>1, <2>3 DEF FindLead
  <2>6. \A n \in Signals : capture'[n] = IF n = m THEN c ELSE capture[n]
    BY <2>5 DEF Others, LeadTypeOK
  <2>7. Claimed' \subseteq Claimed \cup {r} /\ Inserters' \subseteq Inserters
    BY <2>2, <2>4, <2>6, RowsAreNumbers DEF Claimed, Inserters
  <2> QED BY <1>1, <1>2, <2>2, <2>7, FewerOpen DEF Reach
<1>4. CASE Open = {}
  <2> DEFINE Savers == {n \in Signals : capture'[n].pc = "save"}
             Theirs == Savers \ Inserters'
             saver == [r \in Reach' |-> CHOOSE n \in Theirs : capture'[n].row = r]
  <2>1. IsFiniteSet(Savers) /\ IsFiniteSet(Theirs)
    <3>1. Savers \subseteq Signals /\ Theirs \subseteq Signals
      OBVIOUS
    <3> QED BY <3>1, LeadAssumption, FS_Subset
  <2>2. ASSUME NEW r \in Reach' PROVE \E n \in Theirs : capture'[n].row = r
    <3>1. r \in Claimed' /\ r \in Rows
      BY <1>2, <1>4 DEF Reach, Claimed
    <3>2. PICK n \in Signals : capture'[n].pc = "save" /\ capture'[n].row = r
      BY <3>1 DEF Claimed
    <3>3. n \in Theirs
      BY <3>1, <3>2, RowsAreNumbers DEF Inserters
    <3> QED BY <3>2, <3>3
  <2>3. saver \in Injection(Reach', Theirs)
    <3>1. \A r \in Reach' : saver[r] \in Theirs /\ capture'[saver[r]].row = r
      BY <2>2
    <3>2. saver \in [Reach' -> Theirs]
      BY <3>1
    <3> HIDE DEF saver, Theirs
    <3>3. \A a, b \in Reach' : saver[a] = saver[b] => a = b
      BY <3>1
    <3> QED BY <3>2, <3>3 DEF Injection, IsInjective
  <2>4. Cardinality(Reach') <= Cardinality(Theirs)
    <3> HIDE DEF saver, Theirs
    <3> QED BY <2>1, <2>3, FS_Injection
  <2>5. Inserters' \subseteq Savers
    BY DEF Inserters
  <2>6. /\ Cardinality(Theirs) = Cardinality(Savers) - Cardinality(Savers \cap Inserters')
        /\ Cardinality(Savers \cap Inserters') = Cardinality(Inserters')
    <3>1. Savers \cap Inserters' = Inserters'
      BY <2>5
    <3>2. Cardinality(Savers \ Inserters') = Cardinality(Savers) - Cardinality(Savers \cap Inserters')
      <4> HIDE DEF Savers
      <4> QED BY <2>1, FS_Difference
    <3> QED BY <3>1, <3>2
  <2>7. Savers \subseteq InFlight'
    BY DEF InFlight
  <2>8. Cardinality(Savers) <= MaxInFlight /\ Cardinality(Savers) \in Nat
    <3>1. /\ IsFiniteSet(InFlight') /\ Cardinality(InFlight') \in Nat
          /\ Cardinality(InFlight') <= MaxInFlight
      <4>1. InFlight' \subseteq Signals \cup Clerks
        BY DEF InFlight
      <4>2. IsFiniteSet(Signals \cup Clerks)
        BY LeadAssumption, FS_Union
      <4> QED BY <4>1, <4>2, FS_Subset, FS_CardinalityType DEF Others, FewAtWork
    <3>2. Cardinality(Savers) <= Cardinality(InFlight') /\ Cardinality(Savers) \in Nat
      <4> HIDE DEF Savers
      <4> QED BY <2>1, <2>7, <3>1, FS_Subset, FS_CardinalityType
    <3> QED BY <3>1, <3>2, LeadAssumption
  <2>9. Cardinality(Inserters') \in Nat /\ Cardinality(Reach') \in Nat
    <3>1. IsFiniteSet(Inserters')
      BY <2>1, <2>5, FS_Subset
    <3>2. Reach' \subseteq Rows
      BY DEF Reach, Open, Leads, Claimed
    <3> QED BY <3>1, <3>2, RowsAreNumbers, FS_Subset, FS_CardinalityType
  <2> HIDE DEF saver, Theirs, Savers
  <2> QED BY <2>4, <2>6, <2>8, <2>9, LeadAssumption DEF FewOpen
<1> QED BY <1>3, <1>4

LEMMA OpenSaveLead ==
  ASSUME Others, FewOpen, NEW m \in Signals, SaveLead(m) PROVE FewOpen'
<1>1. PICK c : c = [capture[m] EXCEPT !.pc = "done"]
  OBVIOUS
<1>2. c.pc = "done"
  BY <1>1, CaptureFacts, CapturePc
<1>3. capture' = [capture EXCEPT ![m] = c] /\ capture[m].pc = "save" /\ reopened' = reopened
  BY <1>1 DEF SaveLead
<1>4. \A n \in Signals : capture'[n] = IF n = m THEN c ELSE capture[n]
  BY <1>3 DEF Others, LeadTypeOK
<1>5. Claimed' \subseteq Claimed /\ Inserters' = Inserters \ {m}
  BY <1>2, <1>4 DEF Claimed, Inserters
<1>6. PICK r \in Nat, l \in Lead :
        /\ lead' = [lead EXCEPT ![r] = l]
        /\ r = IF capture[m].row = 0 THEN Cardinality(Leads) + 1 ELSE capture[m].row
  BY SavedLead
<1>7. Open' \subseteq Open \cup {r}
  BY <1>6, CaptureFacts DEF Open, Leads
<1>8. CASE capture[m].row = 0
  <2>1. m \in Inserters
    BY <1>3, <1>8 DEF Inserters
  <2>2. Cardinality(Inserters') = Cardinality(Inserters) - 1
    BY <1>5, <2>1, CountsAreFinite, FS_RemoveElement
  <2>3. Reach' \subseteq Reach \cup {r}
    BY <1>3, <1>5, <1>7 DEF Reach
  <2>4. /\ IsFiniteSet(Reach \cup {r})
        /\ Cardinality(Reach \cup {r}) <= Cardinality(Reach) + 1
        /\ Cardinality(Reach \cup {r}) \in Nat
    <3>1. /\ IsFiniteSet(Reach \cup {r})
          /\ Cardinality(Reach \cup {r}) =
               IF r \in Reach THEN Cardinality(Reach) ELSE Cardinality(Reach) + 1
      BY CountsAreFinite, FS_AddElement
    <3> QED BY <3>1, CountsAreFinite
  <2>5. /\ Cardinality(Reach') <= Cardinality(Reach \cup {r})
        /\ Cardinality(Reach') \in Nat
    BY <2>3, <2>4, FS_Subset, FS_CardinalityType
  <2> QED BY <2>2, <2>4, <2>5, CountsAreFinite, LeadAssumption DEF FewOpen
<1>9. CASE capture[m].row # 0
  <2>1. r \in Claimed
    BY <1>3, <1>6, <1>9, CaptureFacts DEF Claimed
  <2>2. Reach' \subseteq Reach
    BY <1>3, <1>5, <1>7, <2>1 DEF Reach
  <2> QED BY <1>5, <2>2, FewerOpen
<1> QED BY <1>8, <1>9

LEMMA OpenCapture ==
  ASSUME Others, Others', FewOpen, NEW m \in Signals,
         Begin(m) \/ FindContact(m) \/ FillName(m) \/ FindLead(m) \/ SaveLead(m) \/ CaptureFails(m)
  PROVE  FewOpen'
<1> PICK e \in Capture : e = capture[m]
  BY CaptureFacts
<1>1. CASE Begin(m)
  <2>1. PICK c : c = [e EXCEPT !.pc = "contact"]
    OBVIOUS
  <2>2. c.pc # "save"
    BY <2>1 DEF Capture
  <2>3. capture' = [capture EXCEPT ![m] = c] /\ lead' = lead /\ reopened' = reopened
    BY <1>1, <2>1 DEF Begin
  <2> QED BY <2>2, <2>3, OpenElsewhere
<1>2. CASE FindContact(m)
  <2>1. PICK n, c : c = [e EXCEPT !.pc = "fill", !.ent = n] /\ n = e.sender
    OBVIOUS
  <2>2. PICK x, d : d = [e EXCEPT !.pc = "find", !.ent = x] /\ x = contact
    OBVIOUS
  <2>3. c.pc # "save" /\ d.pc # "save"
    BY <2>1, <2>2 DEF Capture
  <2>4. /\ lead' = lead /\ reopened' = reopened
        /\ capture' = [capture EXCEPT ![m] = c] \/ capture' = [capture EXCEPT ![m] = d]
    BY <1>2, <2>1, <2>2 DEF FindContact
  <2> QED BY <2>3, <2>4, OpenElsewhere
<1>3. CASE FillName(m)
  <2>1. PICK c : c = [e EXCEPT !.pc = "find"]
    OBVIOUS
  <2>2. c.pc # "save"
    BY <2>1 DEF Capture
  <2>3. capture' = [capture EXCEPT ![m] = c] /\ lead' = lead /\ reopened' = reopened
    BY <1>3, <2>1 DEF FillName
  <2> QED BY <2>2, <2>3, OpenElsewhere
<1>4. CASE CaptureFails(m)
  <2>1. PICK c : c = [e EXCEPT !.pc = "done"]
    OBVIOUS
  <2>2. c.pc # "save"
    BY <2>1 DEF Capture
  <2>3. capture' = [capture EXCEPT ![m] = c] /\ lead' = lead /\ reopened' = reopened
    BY <1>4, <2>1 DEF CaptureFails
  <2> QED BY <2>2, <2>3, OpenElsewhere
<1> QED BY <1>1, <1>2, <1>3, <1>4, OpenFindLead, OpenSaveLead

(* Staff open a lead only by reopening it.                                 *)
LEMMA OpenClerk ==
  ASSUME Others, FewOpen, NEW w \in Clerks,
         \/ FindLeadToUpdate(w) \/ UpdateLead(w) \/ FindContactToUpdate(w)
         \/ SaveContact(w) \/ SyncLeads(w) \/ ClerkFails(w)
  PROVE  FewOpen'
<1>1. capture' = capture
  BY DEF FindLeadToUpdate, UpdateLead, FindContactToUpdate, SaveContact, SyncLeads, ClerkFails
<1>2. Claimed' = Claimed /\ Inserters' = Inserters
  BY <1>1 DEF Claimed, Inserters
<1>3. CASE lead' = lead /\ reopened' = reopened
  BY <1>2, <1>3, FewerOpen DEF Reach, Open, Leads
<1>4. CASE UpdateLead(w)
  <2>1. PICK r, l : /\ r = clerk[w].row /\ l = clerk[w].copy
                    /\ lead' = [lead EXCEPT ![r] = l]
                    /\ reopened' = IF l.status = "new" THEN reopened \cup {r} ELSE reopened
    BY <1>4 DEF UpdateLead
  <2>2. Open' \ reopened' \subseteq Open \ reopened /\ reopened \subseteq reopened'
    BY <2>1, ClerkFacts DEF Open, Leads
  <2> QED BY <1>2, <2>2, FewerOpen DEF Reach
<1>5. CASE SyncLeads(w)
  <2>1. Open' \subseteq Open
    BY <1>5, SyncedLeads DEF Open, Leads
  <2>2. reopened' = reopened
    BY <1>5 DEF SyncLeads
  <2> QED BY <1>2, <2>1, <2>2, FewerOpen DEF Reach
<1> QED BY <1>3, <1>4, <1>5 DEF FindLeadToUpdate, FindContactToUpdate, SaveContact, ClerkFails

-----------------------------------------------------------------------------
LEMMA LeadStarts == LeadInit => LeadInv
<1> SUFFICES ASSUME LeadInit PROVE LeadInv
  OBVIOUS
<1>1. \A m \in Signals : /\ capture[m] \in Capture /\ capture[m].pc = "waiting"
                      /\ capture[m].row = 0
  BY DEF LeadInit, Capture, MaybeName
<1>2. \A w \in Clerks : clerk[w] = Idle
  BY DEF LeadInit
<1>3. \A r \in Rows : lead[r] = Null
  BY DEF LeadInit
<1>4. LeadTypeOK
  <2>1. capture \in [Signals -> Capture]
    <3>1. [pc : {"waiting"}, sender : MaybeName, ent : {Null}, row : {0}, copy : {Null}]
            \subseteq Capture
      BY DEF Capture, MaybeName
    <3> QED BY <3>1 DEF LeadInit
  <2>2. clerk \in [Clerks -> Clerk] /\ lead \in [Rows -> Lead \cup {Null}]
    BY IdleType DEF LeadInit
  <2>3. contact \in MaybeName /\ synced \in BOOLEAN /\ reopened \subseteq Rows
    BY DEF LeadInit
  <2>4. renames \in 0..MaxRenames
    BY LeadAssumption DEF LeadInit
  <2> QED BY <2>1, <2>2, <2>3, <2>4 DEF LeadTypeOK
<1>5. CapturesHoldTheirs /\ ClerksHoldTheirs
  BY <1>1, <1>2, IdleType DEF CapturesHoldTheirs, CaptureOK, ClerksHoldTheirs, ClerkOK, LeadInit
<1>6. InFlight = {} /\ Reach = {} /\ Inserters = {}
  BY <1>1, <1>2, <1>3, IdleType DEF InFlight, Reach, Open, Leads, Claimed, Inserters
<1>7. Cardinality({}) = 0
  BY FS_EmptySet
<1>8. FewAtWork /\ FewOpen
  BY <1>6, <1>7, LeadAssumption DEF FewAtWork, FewOpen
<1>9. NamesInSync
  BY DEF LeadInit, NamesInSync
<1> QED BY <1>4, <1>5, <1>8, <1>9 DEF LeadInv

LEMMA LeadStep == LeadInv /\ [LeadNext]_leadVars => LeadInv'
<1> SUFFICES ASSUME LeadInv, [LeadNext]_leadVars PROVE LeadInv'
  OBVIOUS
<1>1. Others /\ FewOpen
  BY DEF LeadInv, Others
<1>2. SUFFICES Others' /\ FewOpen'
  BY DEF LeadInv, Others
<1>3. CASE UNCHANGED leadVars
  <2>1. LeadTypeOK' /\ NamesInSync'
    BY <1>1, <1>3 DEF leadVars, Others, LeadTypeOK, NamesInSync, Leads
  <2>2. CapturesHoldTheirs' /\ ClerksHoldTheirs'
    BY <1>1, <1>3 DEF leadVars, Others, CapturesHoldTheirs, CaptureOK, ClerksHoldTheirs, ClerkOK
  <2>3. FewAtWork' /\ FewOpen'
    BY <1>1, <1>3 DEF leadVars, Others, FewAtWork, InFlight, FewOpen, Reach, Open, Leads, Claimed, Inserters
  <2> QED BY <2>1, <2>2, <2>3 DEF Others
<1>4. ASSUME NEW m \in Signals,
             \/ Begin(m) \/ FindContact(m) \/ FillName(m)
             \/ FindLead(m) \/ SaveLead(m) \/ CaptureFails(m)
      PROVE  Others' /\ FewOpen'
  <2>1. Others'
    BY <1>1, <1>4, BeginStep, FindContactStep, FillNameStep, FindLeadStep, SaveLeadStep,
       CaptureFailsStep
  <2> QED BY <1>1, <1>4, <2>1, OpenCapture
<1>5. ASSUME NEW w \in Clerks,
             \/ FindLeadToUpdate(w) \/ UpdateLead(w) \/ FindContactToUpdate(w)
             \/ SaveContact(w) \/ SyncLeads(w) \/ ClerkFails(w)
      PROVE  Others' /\ FewOpen'
  <2>1. Others'
    BY <1>1, <1>5, FindLeadToUpdateStep, UpdateLeadStep, FindContactToUpdateStep,
       SaveContactStep, SyncLeadsStep, ClerkFailsStep
  <2> QED BY <1>1, <1>5, <2>1, OpenClerk
<1> QED BY <1>3, <1>4, <1>5 DEF LeadNext

LEMMA LeadInductive == LeadSpec => []LeadInv
BY LeadStarts, LeadStep, PTL DEF LeadSpec

(* Every variable keeps its type: what captureLeadFromMessage finds is a   *)
(* lead that is there, and an insert is one of the conversation's.         *)
THEOREM LeadTypes == LeadSpec => []LeadTypeOK
<1>1. LeadInv => LeadTypeOK
  BY DEF LeadInv
<1> QED BY <1>1, LeadInductive, PTL

(* Messages, however many come, fail and overlap, open at most as many     *)
(* leads of a conversation as handlers were at work at a time              *)
(* (captureLeadFromMessage; LeadsService.update).                          *)
THEOREM LeadsStayFew == LeadSpec => []OpenLeadsAreBounded
<1>1. LeadInv => OpenLeadsAreBounded
  <2> SUFFICES ASSUME LeadInv PROVE Cardinality(Open \ reopened) <= MaxInFlight
    BY DEF OpenLeadsAreBounded
  <2>1. Open \ reopened \subseteq Reach
    BY DEF Reach
  <2>2. /\ Cardinality(Open \ reopened) <= Cardinality(Reach)
        /\ Cardinality(Open \ reopened) \in Nat
    BY <2>1, CountsAreFinite, FS_Subset, FS_CardinalityType
  <2> QED BY <2>2, CountsAreFinite, LeadAssumption DEF LeadInv, FewOpen
<1> QED BY <1>1, LeadInductive, PTL

(* Once a rename has synced the leads alone, they keep the contact's name, *)
(* whoever reads and writes them afterwards (InboxService.updateContact).  *)
THEOREM NamesStayInSync == LeadSpec => []NamesInSync
<1>1. LeadInv => NamesInSync
  BY DEF LeadInv
<1> QED BY <1>1, LeadInductive, PTL
=============================================================================
