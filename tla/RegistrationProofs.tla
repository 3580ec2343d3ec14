------------------------- MODULE RegistrationProofs -------------------------
(***************************************************************************)
(* Registration, for every set of calls, logins and e-mails, every number  *)
(* of slugs and every sequence of faults.                                  *)
(***************************************************************************)
EXTENDS Registration, FiniteSetTheorems, TLAPS

-----------------------------------------------------------------------------
(* A login that has begun holds an account that a call inserted.           *)
LoginsHoldAccounts ==
  \A l \in Logins : IF login[l].pc = "idle" THEN login[l].account = Nobody
                                             ELSE login[l].account \in Calls

LEMMA RegistrationTypeInit == RegInit => RegTypeOK /\ LoginsHoldAccounts
<1> SUFFICES ASSUME RegInit PROVE RegTypeOK /\ LoginsHoldAccounts
  OBVIOUS
<1> USE RegistrationAssumption DEF RegInit
<1>1. 0 \in Slugs /\ "email" \in CallSteps /\ "idle" \in LoginSteps
  BY DEF Slugs, CallSteps, LoginSteps
<1>2. [made |-> FALSE, profiles |-> {}] \in Schema
  BY DEF Schema
<1>3. [pc |-> "idle", account |-> Nobody, early |-> FALSE] \in Login
  BY <1>1 DEF Login
<1>4. [pc : {"email"}, email : Emails, slug : {0}] \subseteq Call
  BY <1>1 DEF Call
<1>5. call \in [Calls -> Call]
  BY <1>4
<1>6. schemas \in [Slugs -> Schema]
  BY <1>2
<1>7. login \in [Logins -> Login]
  BY <1>3
<1>8. LoginsHoldAccounts
  BY DEF LoginsHoldAccounts
<1>9. /\ tenants \subseteq Calls /\ companies \subseteq Calls /\ accounts \subseteq Calls
      /\ faults \in 0..MaxFaults
  OBVIOUS
<1> HIDE DEF RegInit
<1> QED BY <1>5, <1>6, <1>7, <1>8, <1>9 DEF RegTypeOK

(* The assignments to the records.                                         *)
LEMMA SchemaTypes ==
  ASSUME NEW schema \in Schema
  PROVE  /\ [schema EXCEPT !.made = TRUE] \in Schema
         /\ \A request \in Calls \cup Logins :
               [schema EXCEPT !.profiles = schema.profiles \cup {request}] \in Schema
BY DEF Schema

LEMMA CallTypes ==
  ASSUME NEW rec \in Call
  PROVE  /\ \A step \in CallSteps : [rec EXCEPT !.pc = step] \in Call
         /\ \A s \in Slugs : [rec EXCEPT !.slug = s] \in Call
BY DEF Call

LEMMA LoginTypes ==
  ASSUME NEW rec \in Login, NEW step \in LoginSteps
  PROVE  /\ [rec EXCEPT !.pc = step] \in Login
         /\ \A c \in Calls : [rec EXCEPT !.pc = step, !.account = c] \in Login
         /\ \A early \in BOOLEAN : [rec EXCEPT !.pc = step, !.early = early] \in Login
BY DEF Login

LEMMA RegistrationTypeNext ==
  RegTypeOK /\ LoginsHoldAccounts /\ [RegNext]_regVars => RegTypeOK' /\ LoginsHoldAccounts'
<1> SUFFICES ASSUME RegTypeOK, LoginsHoldAccounts, [RegNext]_regVars
             PROVE  RegTypeOK' /\ LoginsHoldAccounts'
  OBVIOUS
<1> USE RegistrationAssumption DEF RegTypeOK, LoginsHoldAccounts, rows
<1>f. ASSUME NEW kind, Fault(kind) PROVE faults' \in 0..MaxFaults
  BY <1>f DEF Fault
<1>g. ASSUME NEW c \in Calls, NEW step \in CallSteps, Goto(c, step)
      PROVE  call' \in [Calls -> Call]
  <2>1. [call[c] EXCEPT !.pc = step] \in Call
    BY <1>g, CallTypes DEF Call
  <2> QED BY <1>g, <2>1 DEF Goto
<1>p. ASSUME NEW s \in Slugs, NEW request \in Calls \cup Logins, AddProfile(s, request)
      PROVE  schemas' \in [Slugs -> Schema]
  <2>1. [schemas[s] EXCEPT !.profiles = schemas[s].profiles \cup {request}] \in Schema
    BY SchemaTypes
  <2> QED BY <1>p, <2>1 DEF AddProfile
<1>m. ASSUME NEW s \in Slugs, schemas' = [schemas EXCEPT ![s].made = TRUE]
      PROVE  schemas' \in [Slugs -> Schema]
  <2>1. [schemas[s] EXCEPT !.made = TRUE] \in Schema
    BY SchemaTypes
  <2> QED BY <1>m, <2>1
<1>l. ASSUME NEW l \in Logins, NEW rec \in Login, rec.pc # "idle", rec.account \in Calls,
             login' = [login EXCEPT ![l] = rec]
      PROVE  login' \in [Logins -> Login] /\ LoginsHoldAccounts'
  BY <1>l
<1>1. ASSUME NEW c \in Calls, CallNext(c) PROVE RegTypeOK' /\ LoginsHoldAccounts'
  <2> USE DEF CallSteps
  <2>0. call[c].slug \in Slugs
    BY DEF Call
  <2>1. CASE FindAccount(c)
    BY <2>1, <1>g DEF FindAccount
  <2>2. CASE TrySlug(c)
    <3>1. CASE SlugTaken(call[c].slug)
      <4>1. call[c].slug + 1 \in Slugs
        BY <2>2, <3>1 DEF TrySlug, Slugs, Call
      <4>2. [call[c] EXCEPT !.slug = call[c].slug + 1] \in Call
        <5>1. \A s \in Slugs : [call[c] EXCEPT !.slug = s] \in Call
          BY CallTypes
        <5> QED BY <4>1, <5>1, Zenon
      <4> QED BY <2>2, <3>1, <4>2 DEF TrySlug
    <3>2. CASE ~SlugTaken(call[c].slug)
      BY <2>2, <3>2, <1>g DEF TrySlug
    <3> QED BY <3>1, <3>2
  <2>3. CASE Commit(c)
    BY <2>3, <1>g DEF Commit
  <2>4. CASE CommitFails(c)
    BY <2>4, <1>f, <1>g DEF CommitFails
  <2>5. CASE CreateSchema(c)
    BY <2>5, <1>g, <1>m, <2>0 DEF CreateSchema
  <2>6. CASE CreateSchemaFails(c)
    BY <2>6, <1>f, <1>g, <1>m, <2>0 DEF CreateSchemaFails
  <2>7. CASE CountProfiles(c)
    BY <2>7, <1>g DEF CountProfiles
  <2>8. CASE SeedProfile(c)
    BY <2>8, <1>g, <1>p, <2>0 DEF SeedProfile
  <2>9. CASE SeedFails(c)
    BY <2>9, <1>f, <1>g DEF SeedFails
  <2>10. CASE SeedAnswerLost(c)
    BY <2>10, <1>f, <1>g, <1>p, <2>0 DEF SeedAnswerLost
  <2>11. CASE DropAccount(c) \/ DropCompany(c) \/ DropTenant(c)
    BY <2>11, <1>g DEF DropAccount, DropCompany, DropTenant
  <2>12. CASE DropFails(c)
    BY <2>12, <1>f, <1>g DEF DropFails
  <2>13. CASE CompleteRegistration(c)
    BY <2>13, <1>g DEF CompleteRegistration
  <2>14. CASE CompleteRegistrationFails(c)
    BY <2>14, <1>f, <1>g DEF CompleteRegistrationFails
  <2> QED BY <1>1, <2>1, <2>2, <2>3, <2>4, <2>5, <2>6, <2>7, <2>8, <2>9, <2>10, <2>11, <2>12,
             <2>13, <2>14 DEF CallNext
<1>2. ASSUME NEW l \in Logins, LoginNext(l) PROVE RegTypeOK' /\ LoginsHoldAccounts'
  <2>0. /\ login[l] \in Login
        /\ login[l].pc \in LoginSteps /\ login[l].early \in BOOLEAN
        /\ login[l].pc # "idle" => login[l].account \in Calls
    BY DEF Login
  <2> DEFINE Lands == \E rec \in Login : /\ rec.pc # "idle" /\ rec.account \in Calls
                                         /\ login' = [login EXCEPT ![l] = rec]
  <2>l. ASSUME Lands PROVE login' \in [Logins -> Login] /\ LoginsHoldAccounts'
    BY <1>l, <2>l
  <2>m. ASSUME NEW step \in LoginSteps \ {"idle"}, login' = [login EXCEPT ![l].pc = step],
               login[l].pc # "idle"
        PROVE  Lands
    <3>1. [login[l] EXCEPT !.pc = step] \in Login
      BY LoginTypes DEF Login
    <3>2. [login[l] EXCEPT !.pc = step].account = login[l].account
      BY <2>0 DEF Login
    <3>3. [login[l] EXCEPT !.pc = step].pc # "idle"
      BY <2>0, <2>m DEF Login
    <3> QED BY <2>0, <2>m, <3>1, <3>2, <3>3
  <2> USE DEF LoginSteps
  <2> HIDE DEF Lands
  <2>1. CASE FindLoginAccount(l)
    <3>1. PICK c \in accounts : login' = [login EXCEPT ![l] = [@ EXCEPT !.pc = "tenant", !.account = c]]
      BY <2>1 DEF FindLoginAccount
    <3> DEFINE rec == [login[l] EXCEPT !.pc = "tenant", !.account = c]
    <3>2. rec \in Login
      BY <2>0, LoginTypes
    <3>3. rec.pc # "idle" /\ rec.account \in Calls
      BY <2>0 DEF Login
    <3>4. login' = [login EXCEPT ![l] = rec]
      BY <3>1
    <3> HIDE DEF rec
    <3> QED BY <2>1, <2>l, <3>2, <3>3, <3>4 DEF FindLoginAccount, Lands
  <2>2. CASE FindTenant(l)
    BY <2>2, <2>l, <2>m DEF FindTenant
  <2>3. CASE SaveAccount(l)
    BY <2>0, <2>3, <2>l, <2>m DEF SaveAccount
  <2>4. CASE CompleteLogin(l)
    BY <2>4, <2>l, <2>m DEF CompleteLogin
  <2>5. CASE FindProfile(l)
    <3>1. PICK step \in {"placeholder", "shown"}, early \in BOOLEAN :
            login' = [login EXCEPT ![l] = [@ EXCEPT !.pc = step, !.early = early]]
      BY <2>5 DEF FindProfile
    <3> DEFINE rec == [login[l] EXCEPT !.pc = step, !.early = early]
    <3>2. login[l].account \in Calls
      BY <2>0, <2>5 DEF FindProfile
    <3>3. rec \in Login
      BY <2>0, <3>2, LoginTypes
    <3>4. rec.pc # "idle" /\ rec.account \in Calls
      BY <2>0, <3>2 DEF Login
    <3>5. login' = [login EXCEPT ![l] = rec]
      BY <3>1
    <3> HIDE DEF rec
    <3> QED BY <2>5, <2>l, <3>3, <3>4, <3>5 DEF FindProfile, Lands
  <2>6. CASE InsertPlaceholder(l)
    <3>1. call[login[l].account].slug \in Slugs
      BY <2>0, <2>6 DEF InsertPlaceholder, Call
    <3>2. schemas' \in [Slugs -> Schema]
      BY <2>6, <3>1, <1>p DEF InsertPlaceholder
    <3> QED BY <2>6, <2>l, <2>m, <3>2 DEF InsertPlaceholder
  <2> QED BY <1>2, <2>1, <2>2, <2>3, <2>4, <2>5, <2>6 DEF LoginNext
<1>3. CASE Crash
  <2> USE <1>3 DEF Crash
  <2>1. ASSUME NEW c \in Calls PROVE call'[c] \in Call
    BY CallTypes DEF CallSteps
  <2>2. ASSUME NEW l \in Logins PROVE login'[l] \in Login
    BY LoginTypes DEF LoginSteps
  <2>3. ASSUME NEW l \in Logins
        PROVE  IF login'[l].pc = "idle" THEN login'[l].account = Nobody ELSE login'[l].account \in Calls
    <3>1. CASE login[l].pc \in {"idle", "done", "shown", "refused"}
      BY <3>1
    <3>2. CASE login[l].pc \notin {"idle", "done", "shown", "refused"}
      <4>1. LET rec == [login[l] EXCEPT !.pc = "refused"]
            IN  rec.pc # "idle" /\ rec.account = login[l].account
        BY DEF Login
      <4> QED BY <3>2, <4>1
    <3> QED BY <3>1, <3>2
  <2>4. call' \in [Calls -> Call] /\ login' \in [Logins -> Login]
    BY <2>1, <2>2
  <2> QED BY <2>3, <2>4, <1>f
<1>4. CASE UNCHANGED regVars
  BY <1>4 DEF regVars
<1> QED BY <1>1, <1>2, <1>3, <1>4 DEF RegNext

-----------------------------------------------------------------------------
(* The accounts that logins have read.                                     *)
Read == {login[l].account : l \in Logins}

(* Nothing is there before the commit, and nothing is missing once the     *)
(* schema stands, as long as the clean-up has not begun.                   *)
RowsFollowTheCall ==
  \A c \in Calls :
    /\ call[c].pc \in {"email", "slug", "commit"} =>
         c \notin tenants /\ c \notin companies /\ c \notin accounts /\ c \notin Read
    /\ call[c].pc \in {"create", "count", "seed", "session", "done"} =>
         c \in tenants /\ c \in companies /\ c \in accounts
    /\ call[c].pc \in {"count", "seed", "session", "done"} => schemas[call[c].slug].made
    /\ call[c].pc \in {"session", "done"} => schemas[call[c].slug].profiles # {}

SlugsAreUnique ==
  /\ \A c, d \in tenants : call[c].slug = call[d].slug => c = d
  /\ \A c, d \in companies : call[c].slug = call[d].slug => c = d

(* A schema holds at most one seeded profile, of a call for its slug, and  *)
(* none as long as a call is about to seed it.                             *)
OneSeedPerSchema ==
  /\ \A s \in Slugs : \A p, q \in schemas[s].profiles \ Logins : p = q
  /\ \A s \in Slugs : \A p \in schemas[s].profiles \ Logins :
       call[p].slug = s /\ call[p].pc \notin {"email", "slug", "commit"}
  /\ \A c \in Calls : call[c].pc = "seed" => schemas[call[c].slug].profiles \subseteq Logins

(* A login inserts only a placeholder it looked for early.                 *)
PlaceholdersAreEarly ==
  /\ \A l \in Logins : login[l].pc = "placeholder" => login[l].early
  /\ \A s \in Slugs : \A l \in schemas[s].profiles \cap Logins :
       login[l].pc = "shown" /\ login[l].early

(* What the faults so far account for: a call is undone for the fault that *)
(* began its clean-up, and keeps rows for a delete that was rejected.      *)
Left == tenants \cup companies \cup (accounts \ Read)
Undone == {c \in Calls : \/ call[c].pc \in {"dropAccount", "dropCompany", "dropTenant"}
                         \/ call[c].pc = "failed" /\ c \in Left}
Kept == {c \in Calls : \/ call[c].pc \in {"dropCompany", "dropTenant"} /\ c \in accounts \ Read
                       \/ call[c].pc = "dropTenant" /\ c \in companies
                       \/ call[c].pc = "failed" /\ c \in Left}
FaultsCoverTheDebt == Cardinality(Undone) + Cardinality(Kept) <= faults

-----------------------------------------------------------------------------
(* What the assignments do, point by point.                                *)
LEMMA GotoEffect ==
  ASSUME RegTypeOK, NEW c \in Calls, NEW step \in CallSteps, Goto(c, step)
  PROVE  \A d \in Calls : /\ call'[d].slug = call[d].slug /\ call'[d].email = call[d].email
                          /\ call'[d].pc = IF d = c THEN step ELSE call[d].pc
<1>1. \A d \in Calls : call'[d] = IF d = c THEN [call[c] EXCEPT !.pc = step] ELSE call[d]
  BY DEF Goto, RegTypeOK
<1>2. LET rec == [call[c] EXCEPT !.pc = step] IN
      rec.pc = step /\ rec.slug = call[c].slug /\ rec.email = call[c].email
  BY DEF RegTypeOK, Call
<1> QED BY <1>1, <1>2

LEMMA AddProfileEffect ==
  ASSUME RegTypeOK, NEW s \in Slugs, NEW request, AddProfile(s, request)
  PROVE  /\ \A t \in Slugs \ {s} : schemas'[t] = schemas[t]
         /\ schemas'[s].profiles = schemas[s].profiles \cup {request}
         /\ schemas[s].made => schemas'[s].made
<1> DEFINE schema == [schemas[s] EXCEPT !.profiles = schemas[s].profiles \cup {request}]
<1>1. schemas'[s] = schema /\ \A t \in Slugs \ {s} : schemas'[t] = schemas[t]
  BY DEF AddProfile, RegTypeOK
<1>2. /\ schema.profiles = schemas[s].profiles \cup {request}
      /\ schemas[s].made => schema.made
  BY DEF RegTypeOK, Schema
<1> HIDE DEF schema
<1> QED BY <1>1, <1>2

LEMMA MadeEffect ==
  ASSUME RegTypeOK, NEW s \in Slugs, schemas' = [schemas EXCEPT ![s].made = TRUE]
  PROVE  /\ \A t \in Slugs \ {s} : schemas'[t] = schemas[t]
         /\ schemas'[s].profiles = schemas[s].profiles
         /\ schemas'[s].made
<1> DEFINE schema == [schemas[s] EXCEPT !.made = TRUE]
<1>1. schemas'[s] = schema /\ \A t \in Slugs \ {s} : schemas'[t] = schemas[t]
  BY DEF RegTypeOK
<1>2. schema.made /\ schema.profiles = schemas[s].profiles
  BY DEF RegTypeOK, Schema
<1> HIDE DEF schema
<1> QED BY <1>1, <1>2

LEMMA LoginMoveEffect ==
  ASSUME RegTypeOK, NEW l \in Logins, NEW step \in LoginSteps, login' = [login EXCEPT ![l].pc = step]
  PROVE  /\ \A k \in Logins : /\ login'[k].account = login[k].account
                              /\ login'[k].early = login[k].early
                              /\ login'[k].pc = IF k = l THEN step ELSE login[k].pc
         /\ Read' = Read
<1> DEFINE rec == [login[l] EXCEPT !.pc = step]
<1>1. \A k \in Logins : login'[k] = IF k = l THEN rec ELSE login[k]
  BY DEF RegTypeOK
<1>2. rec.pc = step /\ rec.account = login[l].account /\ rec.early = login[l].early
  BY DEF RegTypeOK, Login
<1> HIDE DEF rec
<1>3. \A k \in Logins : login'[k].account = login[k].account
  BY <1>1, <1>2
<1>4. Read' = Read
  BY <1>3 DEF Read
<1>5. ASSUME NEW k \in Logins PROVE login'[k].early = login[k].early
  <2>1. CASE k = l
    BY <1>1, <1>2, <2>1, Zenon
  <2>2. CASE k # l
    BY <1>1, <2>2, Zenon
  <2> QED BY <2>1, <2>2
<1>6. \A k \in Logins : login'[k].pc = IF k = l THEN step ELSE login[k].pc
  BY <1>1, <1>2
<1> QED BY <1>3, <1>4, <1>5, <1>6, Zenon

-----------------------------------------------------------------------------
RegistrationParts ==
  RowsFollowTheCall /\ SlugsAreUnique /\ OneSeedPerSchema /\ PlaceholdersAreEarly

LEMMA RegistrationPartsInit == RegInit => RegistrationParts
<1> SUFFICES ASSUME RegInit PROVE RegistrationParts
  OBVIOUS
<1> USE RegistrationAssumption DEF RegInit
<1>1. \A c \in Calls : call[c].pc = "email"
  OBVIOUS
<1>2. \A c \in Calls : c \notin Read
  BY DEF Read
<1>3. RowsFollowTheCall
  BY <1>1, <1>2 DEF RowsFollowTheCall
<1>4. SlugsAreUnique
  BY DEF SlugsAreUnique
<1>5. OneSeedPerSchema
  BY <1>1 DEF OneSeedPerSchema
<1>6. PlaceholdersAreEarly
  BY DEF PlaceholdersAreEarly
<1> HIDE DEF RegInit
<1> QED BY <1>3, <1>4, <1>5, <1>6 DEF RegistrationParts

LEMMA RegistrationPartsCall ==
  ASSUME RegTypeOK, RegistrationParts, NEW c \in Calls, CallNext(c)
  PROVE  RegistrationParts'
<1>a. /\ \A d \in Calls : call[d].slug \in Slugs
      /\ tenants \subseteq Calls /\ companies \subseteq Calls /\ accounts \subseteq Calls
      /\ \A s \in Slugs : schemas[s].profiles \subseteq Calls \cup Logins
      /\ Calls \cap Logins = {}
  BY RegistrationAssumption DEF RegTypeOK, Call, Schema
<1>b. login' = login /\ Read' = Read
  BY DEF CallNext, FindAccount, TrySlug, Commit, CommitFails, CreateSchema, CreateSchemaFails,
         CountProfiles, SeedProfile, SeedFails, SeedAnswerLost, DropAccount, DropCompany,
         DropTenant, DropFails, CompleteRegistration, CompleteRegistrationFails, Read
<1> DEFINE Steps(step) == \A d \in Calls : /\ call'[d].slug = call[d].slug
                                           /\ call'[d].pc = IF d = c THEN step ELSE call[d].pc
<1>g. ASSUME NEW step \in CallSteps, Goto(c, step) PROVE Steps(step)
  BY <1>g, GotoEffect
<1> USE <1>a, <1>b DEF RegistrationParts, RowsFollowTheCall, SlugsAreUnique, OneSeedPerSchema,
     PlaceholdersAreEarly
<1>1. CASE FindAccount(c)
  <2>1. Steps("failed") \/ Steps("slug")
    BY <1>1, <1>g DEF FindAccount, CallSteps
  <2> QED BY <1>1, <2>1 DEF FindAccount, rows
<1>2. CASE TrySlug(c)
  <2>1. CASE ~SlugTaken(call[c].slug)
    BY <1>2, <2>1, <1>g DEF TrySlug, CallSteps, rows
  <2>2. CASE SlugTaken(call[c].slug)
    <3>1. \A d \in Calls : d # c => call'[d] = call[d]
      BY <1>2, <2>2 DEF TrySlug, RegTypeOK
    <3>2. call[c].pc = "slug" /\ call'[c].pc = "slug"
      BY <1>2, <2>2 DEF TrySlug, RegTypeOK, Call
    <3>3. UNCHANGED <<rows, schemas>>
      BY <1>2 DEF TrySlug
    <3> QED BY <3>1, <3>2, <3>3 DEF rows
  <2> QED BY <2>1, <2>2
<1>3. CASE Commit(c)
  <2>1. CASE SlugTaken(call[c].slug) \/ SchemaTaken(call[c].slug) \/ EmailTaken(call[c].email)
    <3>1. Steps("failed")
      BY <1>3, <2>1, <1>g DEF Commit, CallSteps
    <3> QED BY <1>3, <2>1, <3>1 DEF Commit, rows
  <2>2. CASE ~(SlugTaken(call[c].slug) \/ SchemaTaken(call[c].slug) \/ EmailTaken(call[c].email))
    <3>1. Steps("create")
      BY <1>3, <2>2, <1>g DEF Commit, CallSteps
    <3> QED BY <1>3, <2>2, <3>1 DEF Commit, SlugTaken, SchemaTaken
  <2> QED BY <2>1, <2>2
<1>4. CASE CommitFails(c)
  BY <1>4, <1>g DEF CommitFails, CallSteps, rows
<1>5. CASE CreateSchema(c)
  <2>1. Steps("count")
    BY <1>5, <1>g DEF CreateSchema, CallSteps
  <2>2. /\ \A t \in Slugs \ {call[c].slug} : schemas'[t] = schemas[t]
        /\ schemas'[call[c].slug].profiles = schemas[call[c].slug].profiles
        /\ schemas'[call[c].slug].made
    BY <1>5, MadeEffect DEF CreateSchema
  <2>3. call[c].pc = "create" /\ UNCHANGED rows
    BY <1>5 DEF CreateSchema
  <2> QED BY <2>1, <2>2, <2>3 DEF rows
<1>6. CASE CreateSchemaFails(c)
  <2>1. Steps("dropAccount")
    BY <1>6, <1>g DEF CreateSchemaFails, CallSteps
  <2> QED BY <1>6, <2>1, MadeEffect DEF CreateSchemaFails, rows
<1>7. CASE CountProfiles(c)
  <2>1. CASE schemas[call[c].slug].profiles = {}
    <3>1. Steps("seed")
      BY <1>7, <2>1, <1>g DEF CountProfiles, CallSteps
    <3> QED BY <1>7, <2>1, <3>1 DEF CountProfiles, rows
  <2>2. CASE schemas[call[c].slug].profiles # {}
    <3>1. Steps("session")
      BY <1>7, <2>2, <1>g DEF CountProfiles, CallSteps
    <3> QED BY <1>7, <2>2, <3>1 DEF CountProfiles, rows
  <2> QED BY <2>1, <2>2
<1>8. CASE SeedProfile(c)
  <2>1. Steps("session")
    BY <1>8, <1>g DEF SeedProfile, CallSteps
  <2>2. /\ \A t \in Slugs \ {call[c].slug} : schemas'[t] = schemas[t]
        /\ schemas'[call[c].slug].profiles = schemas[call[c].slug].profiles \cup {c}
        /\ schemas[call[c].slug].made => schemas'[call[c].slug].made
    <3>1. AddProfile(call[c].slug, c)
      BY <1>8 DEF SeedProfile
    <3> QED BY <1>a, <3>1, AddProfileEffect, Zenon
  <2>3. call[c].pc = "seed" /\ UNCHANGED rows
    BY <1>8 DEF SeedProfile
  <2> QED BY <2>1, <2>2, <2>3 DEF rows
<1>9. CASE SeedFails(c)
  <2>1. Steps("dropAccount")
    BY <1>9, <1>g DEF SeedFails, CallSteps
  <2> QED BY <1>9, <2>1 DEF SeedFails, rows
<1>10. CASE SeedAnswerLost(c)
  <2>1. Steps("dropAccount")
    BY <1>10, <1>g DEF SeedAnswerLost, CallSteps
  <2>2. /\ \A t \in Slugs \ {call[c].slug} : schemas'[t] = schemas[t]
        /\ schemas'[call[c].slug].profiles = schemas[call[c].slug].profiles \cup {c}
        /\ schemas[call[c].slug].made => schemas'[call[c].slug].made
    <3>1. AddProfile(call[c].slug, c)
      BY <1>10 DEF SeedAnswerLost
    <3> QED BY <1>a, <3>1, AddProfileEffect, Zenon
  <2>3. call[c].pc = "seed" /\ UNCHANGED rows
    BY <1>10 DEF SeedAnswerLost
  <2> QED BY <2>1, <2>2, <2>3 DEF rows
<1>11. CASE DropAccount(c) \/ DropCompany(c) \/ DropTenant(c)
  <2>1. PICK step \in {"dropCompany", "dropTenant", "failed"} : Goto(c, step)
    BY <1>11 DEF DropAccount, DropCompany, DropTenant
  <2>2. Steps(step)
    BY <2>1, <1>g DEF CallSteps
  <2> QED BY <1>11, <2>2 DEF DropAccount, DropCompany, DropTenant, rows
<1>12. CASE DropFails(c)
  <2>1. PICK step \in {"dropCompany", "dropTenant", "failed"} : Goto(c, step)
    BY <1>12 DEF DropFails
  <2>2. Steps(step)
    BY <2>1, <1>g DEF CallSteps
  <2> QED BY <1>12, <2>2 DEF DropFails, rows
<1>13. CASE CompleteRegistration(c) \/ CompleteRegistrationFails(c)
  <2>1. PICK step \in {"done", "lost"} : Goto(c, step)
    BY <1>13 DEF CompleteRegistration, CompleteRegistrationFails
  <2>2. Steps(step)
    BY <2>1, <1>g DEF CallSteps
  <2> QED BY <1>13, <2>2 DEF CompleteRegistration, CompleteRegistrationFails, rows
<1> QED BY <1>1, <1>2, <1>3, <1>4, <1>5, <1>6, <1>7, <1>8, <1>9, <1>10, <1>11, <1>12, <1>13
        DEF CallNext

LEMMA RegistrationPartsLogin ==
  ASSUME RegTypeOK, LoginsHoldAccounts, RegistrationParts, NEW l \in Logins, LoginNext(l)
  PROVE  RegistrationParts'
<1>a. /\ \A d \in Calls : call[d].slug \in Slugs
      /\ tenants \subseteq Calls /\ companies \subseteq Calls /\ accounts \subseteq Calls
      /\ \A s \in Slugs : schemas[s].profiles \subseteq Calls \cup Logins
      /\ Calls \cap Logins = {}
      /\ login[l].pc # "idle" => login[l].account \in Calls /\ login[l].account \in Read
  BY RegistrationAssumption DEF RegTypeOK, Call, Schema, Read, LoginsHoldAccounts
<1>b. UNCHANGED <<tenants, companies, call>>
  BY DEF LoginNext, FindLoginAccount, FindTenant, SaveAccount, CompleteLogin, FindProfile,
         InsertPlaceholder, rows
<1> DEFINE Steps(step) == /\ Read' = Read
                          /\ \A k \in Logins : /\ login'[k].early = login[k].early
                                               /\ login'[k].pc = IF k = l THEN step ELSE login[k].pc
<1>m. ASSUME NEW step \in LoginSteps, login' = [login EXCEPT ![l].pc = step] PROVE Steps(step)
  BY <1>m, LoginMoveEffect
<1> USE <1>a, <1>b DEF RegistrationParts, RowsFollowTheCall, SlugsAreUnique, OneSeedPerSchema,
     PlaceholdersAreEarly
<1>1. CASE FindLoginAccount(l)
  <2>1. PICK c \in accounts : login' = [login EXCEPT ![l] = [@ EXCEPT !.pc = "tenant", !.account = c]]
    BY <1>1 DEF FindLoginAccount
  <2> DEFINE rec == [login[l] EXCEPT !.pc = "tenant", !.account = c]
  <2>2. login'[l] = rec /\ \A k \in Logins \ {l} : login'[k] = login[k]
    BY <2>1 DEF RegTypeOK
  <2>3. rec.pc = "tenant" /\ rec.account = c
    BY DEF RegTypeOK, Login
  <2> HIDE DEF rec
  <2>4. Read' \subseteq Read \cup {c}
    BY <2>2, <2>3 DEF Read
  <2>5. login[l].pc = "idle" /\ UNCHANGED <<accounts, schemas>>
    BY <1>1 DEF FindLoginAccount, rows
  <2> QED BY <2>2, <2>3, <2>4, <2>5
<1>2. CASE FindTenant(l)
  <2>1. PICK step \in {"save", "refused"} : login' = [login EXCEPT ![l].pc = step]
    BY <1>2 DEF FindTenant
  <2>2. Steps(step)
    <3>1. step \in LoginSteps
      BY DEF LoginSteps
    <3> QED BY <2>1, <3>1, <1>m, Zenon
  <2>3. login[l].pc = "tenant" /\ UNCHANGED <<accounts, schemas>>
    BY <1>2 DEF FindTenant, rows
  <2> QED BY <2>2, <2>3
<1>3. CASE SaveAccount(l)
  <2>1. PICK step \in {"session", "refused"} : login' = [login EXCEPT ![l].pc = step]
    BY <1>3 DEF SaveAccount
  <2>2. Steps(step)
    <3>1. step \in LoginSteps
      BY DEF LoginSteps
    <3> QED BY <2>1, <3>1, <1>m, Zenon
  <2>3. /\ login[l].pc = "save" /\ UNCHANGED schemas
        /\ accounts \subseteq accounts' /\ accounts' \subseteq accounts \cup Read
    BY <1>3 DEF SaveAccount
  <2> QED BY <2>2, <2>3
<1>4. CASE CompleteLogin(l)
  <2>1. Steps("done")
    BY <1>4, <1>m DEF CompleteLogin, LoginSteps
  <2> QED BY <1>4, <2>1 DEF CompleteLogin, rows
<1>5. CASE FindProfile(l)
  <2> DEFINE c == login[l].account
  <2>0. PICK step \in {"placeholder", "shown"}, early \in BOOLEAN :
          /\ login' = [login EXCEPT ![l] = [@ EXCEPT !.pc = step, !.early = early]]
          /\ step = "placeholder" => schemas[call[c].slug].profiles = {}
          /\ call[c].pc # "done" => early
    BY <1>5 DEF FindProfile
  <2> DEFINE rec == [login[l] EXCEPT !.pc = step, !.early = early]
  <2>1. login'[l] = rec /\ \A k \in Logins \ {l} : login'[k] = login[k]
    BY <2>0 DEF RegTypeOK
  <2>2. rec.pc = step /\ rec.account = c /\ (early => rec.early)
    BY DEF RegTypeOK, Login
  <2> HIDE DEF rec
  <2>3. Read' = Read
    BY <2>1, <2>2 DEF Read
  <2>4. login[l].pc = "done" /\ UNCHANGED <<accounts, schemas>>
    BY <1>5 DEF FindProfile, rows
  <2>5. step = "placeholder" => early
    BY <2>0, <2>4
  <2> QED BY <2>1, <2>2, <2>3, <2>4, <2>5
<1>6. CASE InsertPlaceholder(l)
  <2> DEFINE s == call[login[l].account].slug
  <2>1. Steps("shown")
    BY <1>6, <1>m DEF InsertPlaceholder, LoginSteps
  <2>2. login[l].pc = "placeholder" /\ s \in Slugs /\ UNCHANGED accounts
    BY <1>6 DEF InsertPlaceholder, rows
  <2>3. /\ \A t \in Slugs \ {s} : schemas'[t] = schemas[t]
        /\ schemas'[s].profiles = schemas[s].profiles \cup {l}
        /\ schemas[s].made => schemas'[s].made
    <3>1. AddProfile(s, l)
      BY <1>6 DEF InsertPlaceholder
    <3> QED BY <2>2, <3>1, AddProfileEffect, Zenon
  <2> QED BY <2>1, <2>2, <2>3
<1> QED BY <1>1, <1>2, <1>3, <1>4, <1>5, <1>6 DEF LoginNext

LEMMA CrashEffect ==
  ASSUME RegTypeOK, Crash
  PROVE  /\ \A c \in Calls : /\ call'[c].slug = call[c].slug
                             /\ call'[c].pc = call[c].pc \/ call'[c].pc = "lost"
         /\ \A l \in Logins : \/ login'[l] = login[l]
                              \/ /\ login'[l].pc = "refused" /\ login'[l].account = login[l].account
                                 /\ login[l].pc # "shown"
         /\ Read' = Read
<1> USE DEF Crash
<1>1. ASSUME NEW c \in Calls
      PROVE  /\ call'[c].slug = call[c].slug
             /\ call'[c].pc = call[c].pc \/ call'[c].pc = "lost"
  <2>1. [call[c] EXCEPT !.pc = "lost"].slug = call[c].slug /\ [call[c] EXCEPT !.pc = "lost"].pc = "lost"
    BY DEF RegTypeOK, Call
  <2> QED BY <2>1
<1>2. ASSUME NEW l \in Logins
      PROVE  \/ login'[l] = login[l]
             \/ /\ login'[l].pc = "refused" /\ login'[l].account = login[l].account
                /\ login[l].pc # "shown"
  <2>1. LET rec == [login[l] EXCEPT !.pc = "refused"]
        IN  rec.pc = "refused" /\ rec.account = login[l].account
    BY DEF RegTypeOK, Login
  <2> QED BY <2>1
<1>3. Read' = Read
  <2>1. \A l \in Logins : login'[l].account = login[l].account
    BY <1>2
  <2> QED BY <2>1 DEF Read
<1> QED BY <1>1, <1>2, <1>3

LEMMA RegistrationPartsCrash ==
  ASSUME RegTypeOK, RegistrationParts, Crash
  PROVE  RegistrationParts'
<1>1. UNCHANGED <<tenants, companies, accounts, schemas>>
  BY DEF Crash, rows
<1>2. /\ tenants \subseteq Calls /\ companies \subseteq Calls /\ accounts \subseteq Calls
      /\ \A s \in Slugs : schemas[s].profiles \subseteq Calls \cup Logins
  BY DEF RegTypeOK, Schema
<1> QED BY <1>1, <1>2, CrashEffect DEF RegistrationParts, RowsFollowTheCall, SlugsAreUnique,
        OneSeedPerSchema, PlaceholdersAreEarly

-----------------------------------------------------------------------------
(* A step adds nothing to be accounted for, or one thing and a fault.      *)
Accounted == \/ Undone' \subseteq Undone /\ Kept' \subseteq Kept
             \/ /\ faults' = faults + 1
                /\ \E c \in Calls : \/ Undone' \subseteq Undone \cup {c} /\ Kept' \subseteq Kept
                                    \/ Undone' \subseteq Undone /\ Kept' \subseteq Kept \cup {c}

LEMMA CallIsAccounted ==
  ASSUME RegTypeOK, RegistrationParts, NEW c \in Calls, CallNext(c)
  PROVE  Accounted
<1>a. tenants \subseteq Calls /\ companies \subseteq Calls /\ accounts \subseteq Calls
  BY DEF RegTypeOK
<1>b. Read' = Read
  BY DEF CallNext, FindAccount, TrySlug, Commit, CommitFails, CreateSchema, CreateSchemaFails,
         CountProfiles, SeedProfile, SeedFails, SeedAnswerLost, DropAccount, DropCompany,
         DropTenant, DropFails, CompleteRegistration, CompleteRegistrationFails, Read
<1>c. call[c].pc \in {"email", "slug", "commit"} => c \notin Left
  BY DEF RegistrationParts, RowsFollowTheCall, Left
<1> DEFINE Steps(step) == \A d \in Calls : call'[d].pc = IF d = c THEN step ELSE call[d].pc
<1>g. ASSUME NEW step \in CallSteps, Goto(c, step) PROVE Steps(step)
  BY <1>g, GotoEffect
<1> USE <1>a, <1>b DEF Undone, Kept, Left
<1>1. CASE TrySlug(c)
  <2>1. CASE ~SlugTaken(call[c].slug)
    BY <1>1, <2>1, <1>g DEF TrySlug, CallSteps, rows, Accounted
  <2>2. CASE SlugTaken(call[c].slug)
    <3>1. \A d \in Calls : call'[d].pc = call[d].pc
      BY <1>1, <2>2 DEF TrySlug, RegTypeOK, Call
    <3>2. UNCHANGED rows
      BY <1>1 DEF TrySlug
    <3> QED BY <3>1, <3>2 DEF rows, Accounted
  <2> QED BY <2>1, <2>2
(* The steps of a registration that goes on, or ends without rows.         *)
<1>2. CASE FindAccount(c) \/ CommitFails(c) \/ CreateSchema(c) \/ CountProfiles(c) \/ SeedProfile(c)
           \/ CompleteRegistration(c) \/ CompleteRegistrationFails(c)
  <2>1. PICK step \in {"slug", "failed", "count", "seed", "session", "done", "lost"} :
          /\ Goto(c, step)
          /\ step = "failed" => call[c].pc \in {"email", "commit"}
    BY <1>2 DEF FindAccount, CommitFails, CreateSchema, CountProfiles, SeedProfile,
       CompleteRegistration, CompleteRegistrationFails
  <2>2. Steps(step)
    <3>1. step \in CallSteps
      BY DEF CallSteps
    <3> QED BY <2>1, <3>1, <1>g, Zenon
  <2>3. UNCHANGED rows
    BY <1>2 DEF FindAccount, CommitFails, CreateSchema, CountProfiles, SeedProfile,
       CompleteRegistration, CompleteRegistrationFails
  <2> QED BY <2>1, <2>2, <2>3, <1>c DEF rows, Accounted
<1>3. CASE Commit(c)
  <2>1. CASE SlugTaken(call[c].slug) \/ SchemaTaken(call[c].slug) \/ EmailTaken(call[c].email)
    <3>1. Steps("failed")
      BY <1>3, <2>1, <1>g DEF Commit, CallSteps
    <3> QED BY <1>3, <2>1, <3>1, <1>c DEF Commit, rows, Accounted
  <2>2. CASE ~(SlugTaken(call[c].slug) \/ SchemaTaken(call[c].slug) \/ EmailTaken(call[c].email))
    <3>1. Steps("create")
      BY <1>3, <2>2, <1>g DEF Commit, CallSteps
    <3> QED BY <1>3, <2>2, <3>1 DEF Commit, Accounted
  <2> QED BY <2>1, <2>2
<1>4. CASE CreateSchemaFails(c) \/ SeedFails(c) \/ SeedAnswerLost(c)
  <2>1. Steps("dropAccount")
    BY <1>4, <1>g DEF CreateSchemaFails, SeedFails, SeedAnswerLost, CallSteps
  <2>2. UNCHANGED rows /\ faults' = faults + 1
    BY <1>4 DEF CreateSchemaFails, SeedFails, SeedAnswerLost, Fault
  <2>3. Undone' \subseteq Undone \cup {c} /\ Kept' \subseteq Kept
    BY <2>1, <2>2 DEF rows
  <2> QED BY <2>2, <2>3 DEF Accounted
<1>5. CASE DropAccount(c)
  <2>1. Steps("dropCompany")
    BY <1>5, <1>g DEF DropAccount, CallSteps
  <2> QED BY <1>5, <2>1 DEF DropAccount, Accounted
<1>6. CASE DropCompany(c)
  <2>1. Steps("dropTenant")
    BY <1>6, <1>g DEF DropCompany, CallSteps
  <2> QED BY <1>6, <2>1 DEF DropCompany, Accounted
<1>7. CASE DropTenant(c)
  <2>1. Steps("failed")
    BY <1>7, <1>g DEF DropTenant, CallSteps
  <2> QED BY <1>7, <2>1 DEF DropTenant, Accounted
(* A rejected delete pays for what it leaves.                              *)
<1>8. CASE DropFails(c)
  <2>1. PICK step \in {"dropCompany", "dropTenant", "failed"} :
          Goto(c, step) /\ call[c].pc \in {"dropAccount", "dropCompany", "dropTenant"}
    BY <1>8 DEF DropFails
  <2>2. Steps(step)
    <3>1. step \in CallSteps
      BY DEF CallSteps
    <3> QED BY <2>1, <3>1, <1>g, Zenon
  <2>3. UNCHANGED rows /\ faults' = faults + 1
    BY <1>8 DEF DropFails, Fault
  <2>4. Undone' \subseteq Undone /\ Kept' \subseteq Kept \cup {c}
    BY <2>1, <2>2, <2>3 DEF rows
  <2> QED BY <2>3, <2>4 DEF Accounted
<1> QED BY <1>1, <1>2, <1>3, <1>4, <1>5, <1>6, <1>7, <1>8 DEF CallNext

(* A login only writes back an account that it has read; a restart lets go *)
(* of the clean-ups.                                                       *)
LEMMA LoginIsAccounted ==
  ASSUME RegTypeOK, LoginsHoldAccounts, NEW l \in Logins, LoginNext(l)
  PROVE  Accounted
<1>1. /\ UNCHANGED <<tenants, companies, call>>
      /\ accounts' \subseteq accounts \cup {login[l].account}
      /\ accounts' # accounts => login[l].pc # "idle"
  BY DEF LoginNext, FindLoginAccount, FindTenant, SaveAccount, CompleteLogin, FindProfile,
         InsertPlaceholder, rows
<1>2. Read \cap Calls \subseteq Read'
  <2>1. \A k \in Logins : login[k].account \in Calls => login'[k].account = login[k].account
    <3>1. CASE FindLoginAccount(l)
      <4>1. login[l].account \notin Calls
        BY <3>1, RegistrationAssumption DEF FindLoginAccount, LoginsHoldAccounts
      <4>2. \A k \in Logins \ {l} : login'[k] = login[k]
        BY <3>1 DEF FindLoginAccount, RegTypeOK
      <4> QED BY <4>1, <4>2
    <3>2. CASE FindProfile(l)
      <4>1. PICK step \in LoginSteps, early \in BOOLEAN :
              login' = [login EXCEPT ![l] = [@ EXCEPT !.pc = step, !.early = early]]
        BY <3>2 DEF FindProfile, LoginSteps
      <4> DEFINE rec == [login[l] EXCEPT !.pc = step, !.early = early]
      <4>2. login'[l] = rec /\ \A k \in Logins \ {l} : login'[k] = login[k]
        BY <4>1 DEF RegTypeOK
      <4>3. rec.account = login[l].account
        BY DEF RegTypeOK, Login
      <4> HIDE DEF rec
      <4> QED BY <4>2, <4>3
    <3>3. CASE ~FindLoginAccount(l) /\ ~FindProfile(l)
      <4>1. PICK step \in LoginSteps : login' = [login EXCEPT ![l].pc = step]
        BY <3>3 DEF LoginNext, FindTenant, SaveAccount, CompleteLogin, InsertPlaceholder, LoginSteps
      <4> QED BY <4>1, LoginMoveEffect
    <3> QED BY <3>1, <3>2, <3>3
  <2> QED BY <2>1 DEF Read
<1>3. accounts' \ Read' \subseteq accounts \ Read
  <2>1. accounts \subseteq Calls
    BY DEF RegTypeOK
  <2>2. accounts' # accounts => login[l].account \in Calls /\ login[l].account \in Read
    BY <1>1 DEF LoginsHoldAccounts, Read
  <2> QED BY <1>1, <1>2, <2>1, <2>2
<1> QED BY <1>1, <1>3 DEF Accounted, Undone, Kept, Left

LEMMA CrashIsAccounted == ASSUME RegTypeOK, Crash PROVE Accounted
<1>1. UNCHANGED rows
  BY DEF Crash
<1>2. Read' = Read /\ \A c \in Calls : call'[c].pc = call[c].pc \/ call'[c].pc = "lost"
  BY CrashEffect
<1> QED BY <1>1, <1>2 DEF rows, Accounted, Undone, Kept, Left

LEMMA DebtIsFinite ==
  /\ IsFiniteSet(Undone) /\ Cardinality(Undone) \in Nat
  /\ IsFiniteSet(Kept) /\ Cardinality(Kept) \in Nat
<1>1. Undone \subseteq Calls /\ Kept \subseteq Calls
  BY DEF Undone, Kept
<1> QED BY <1>1, RegistrationAssumption, FS_Subset, FS_CardinalityType

LEMMA DebtIsFiniteNext ==
  /\ IsFiniteSet(Undone') /\ Cardinality(Undone') \in Nat
  /\ IsFiniteSet(Kept') /\ Cardinality(Kept') \in Nat
<1>1. Undone' \subseteq Calls /\ Kept' \subseteq Calls
  BY DEF Undone, Kept
<1> QED BY <1>1, RegistrationAssumption, FS_Subset, FS_CardinalityType

LEMMA FaultsCoverTheDebtNext ==
  ASSUME faults \in Nat, FaultsCoverTheDebt, Accounted, faults' \in {faults, faults + 1}
  PROVE  FaultsCoverTheDebt'
<1>1. ASSUME NEW S, NEW T, IsFiniteSet(T), S \subseteq T PROVE Cardinality(S) <= Cardinality(T)
  BY <1>1, FS_Subset
<1>2. ASSUME NEW S, NEW T, NEW c, IsFiniteSet(T), S \subseteq T \cup {c}
      PROVE  Cardinality(S) <= Cardinality(T) + 1
  <2>1. /\ IsFiniteSet(T \cup {c}) /\ Cardinality(T) \in Nat
        /\ Cardinality(T \cup {c}) <= Cardinality(T) + 1
    BY <1>2, FS_AddElement, FS_CardinalityType
  <2>2. Cardinality(S) <= Cardinality(T \cup {c})
    BY <1>1, <1>2, <2>1
  <2>3. Cardinality(S) \in Nat /\ Cardinality(T \cup {c}) \in Nat
    BY <1>2, <2>1, FS_Subset, FS_CardinalityType
  <2> QED BY <2>1, <2>2, <2>3
<1>3. PICK u \in Nat, k \in Nat, v \in Nat, w \in Nat :
        /\ u = Cardinality(Undone) /\ k = Cardinality(Kept)
        /\ v = Cardinality(Undone') /\ w = Cardinality(Kept')
  BY DebtIsFinite, DebtIsFiniteNext
<1>4. u + k <= faults
  BY <1>3 DEF FaultsCoverTheDebt
<1>5. v + w <= faults'
  <2>1. CASE Undone' \subseteq Undone /\ Kept' \subseteq Kept
    <3>1. v <= u /\ w <= k
      BY <2>1, <1>1, <1>3, DebtIsFinite
    <3> QED BY <3>1, <1>4
  <2>2. ASSUME faults' = faults + 1, NEW c \in Calls, Undone' \subseteq Undone \cup {c}, Kept' \subseteq Kept
        PROVE  v + w <= faults'
    <3>1. v <= u + 1 /\ w <= k
      BY <2>2, <1>1, <1>2, <1>3, DebtIsFinite
    <3> QED BY <2>2, <3>1, <1>4
  <2>3. ASSUME faults' = faults + 1, NEW c \in Calls, Undone' \subseteq Undone, Kept' \subseteq Kept \cup {c}
        PROVE  v + w <= faults'
    <3>1. v <= u /\ w <= k + 1
      BY <2>3, <1>1, <1>2, <1>3, DebtIsFinite
    <3> QED BY <2>3, <3>1, <1>4
  <2> QED BY <2>1, <2>2, <2>3 DEF Accounted
<1> QED BY <1>3, <1>5 DEF FaultsCoverTheDebt

-----------------------------------------------------------------------------
RegistrationInv == RegTypeOK /\ LoginsHoldAccounts /\ RegistrationParts /\ FaultsCoverTheDebt

LEMMA RegistrationInvInit == RegInit => RegistrationInv
<1> SUFFICES ASSUME RegInit PROVE FaultsCoverTheDebt
  BY RegistrationTypeInit, RegistrationPartsInit DEF RegistrationInv
<1>1. Undone = {} /\ Kept = {}
  BY DEF RegInit, Undone, Kept
<1> QED BY <1>1, FS_EmptySet DEF FaultsCoverTheDebt, RegInit

LEMMA RegistrationInvNext == RegistrationInv /\ [RegNext]_regVars => RegistrationInv'
<1> SUFFICES ASSUME RegistrationInv, [RegNext]_regVars PROVE RegistrationParts' /\ FaultsCoverTheDebt'
  BY RegistrationTypeNext DEF RegistrationInv
<1> USE DEF RegistrationInv
<1>1. faults \in Nat /\ faults' \in {faults, faults + 1}
  <2>1. faults \in Nat
    BY DEF RegTypeOK
  <2>2. ASSUME NEW c \in Calls, CallNext(c) PROVE faults' \in {faults, faults + 1}
    BY <2>2 DEF Fault, CallNext, FindAccount, TrySlug, Commit, CommitFails, CreateSchema,
       CreateSchemaFails, CountProfiles, SeedProfile, SeedFails, SeedAnswerLost, DropAccount,
       DropCompany, DropTenant, DropFails, CompleteRegistration, CompleteRegistrationFails
  <2>3. ASSUME NEW l \in Logins, LoginNext(l) PROVE faults' = faults
    BY <2>3 DEF LoginNext, FindLoginAccount, FindTenant, SaveAccount, CompleteLogin, FindProfile,
       InsertPlaceholder
  <2> QED BY <2>1, <2>2, <2>3 DEF RegNext, regVars, Crash, Fault
<1>2. ASSUME NEW c \in Calls, CallNext(c) PROVE RegistrationParts' /\ FaultsCoverTheDebt'
  BY <1>1, <1>2, RegistrationPartsCall, CallIsAccounted, FaultsCoverTheDebtNext
<1>3. ASSUME NEW l \in Logins, LoginNext(l) PROVE RegistrationParts' /\ FaultsCoverTheDebt'
  BY <1>1, <1>3, RegistrationPartsLogin, LoginIsAccounted, FaultsCoverTheDebtNext
<1>4. CASE Crash
  BY <1>1, <1>4, RegistrationPartsCrash, CrashIsAccounted, FaultsCoverTheDebtNext
<1>5. CASE UNCHANGED regVars
  BY <1>5 DEF regVars, RegistrationParts, RowsFollowTheCall, SlugsAreUnique, OneSeedPerSchema,
     PlaceholdersAreEarly, FaultsCoverTheDebt, Undone, Kept, Left, Read
<1> QED BY <1>2, <1>3, <1>4, <1>5 DEF RegNext

LEMMA RegistrationInvariant == RegSpec => []RegistrationInv
BY RegistrationInvInit, RegistrationInvNext, PTL DEF RegSpec

(* Every variable has its type, whatever the requests, the database and    *)
(* the process do.                                                         *)
THEOREM RegistrationTypes == RegSpec => []RegTypeOK
<1>1. RegistrationInv => RegTypeOK
  BY DEF RegistrationInv
<1> QED BY <1>1, RegistrationInvariant, PTL

(* A registration that was answered has all its rows, its schema and a     *)
(* profile, whatever other registrations, logins and faults did (register).*)
THEOREM RegistrationIsComplete == RegSpec => []RegisteredIsComplete
<1>1. RegistrationInv => RegisteredIsComplete
  BY DEF RegistrationInv, RegistrationParts, RowsFollowTheCall, RegisteredIsComplete
<1> QED BY <1>1, RegistrationInvariant, PTL

(* The slug of a tenant is the slug of no other tenant or company, so the  *)
(* schema of a registered tenant holds one seeded profile, its own or that *)
(* of an undone registration, and any number of early placeholders         *)
(* (findUniqueTenantSlug, bootstrapTenantSchema, getProfile).              *)
THEOREM RegistrationProfiles == RegSpec => []ProfilesAreOwn
<1>1. RegistrationInv => ProfilesAreOwn
  <2> SUFFICES ASSUME RegistrationInv, NEW c \in Calls, call[c].pc = "done"
               PROVE  LET P == schemas[call[c].slug].profiles IN
                      /\ Cardinality(P \ Logins) <= 1
                      /\ \A p \in P : IF p \in Logins THEN login[p].early
                                                      ELSE p = c \/ p \notin tenants \cup companies
    BY DEF ProfilesAreOwn
  <2> DEFINE P == schemas[call[c].slug].profiles
  <2> USE DEF RegistrationInv, RegistrationParts
  <2>1. call[c].slug \in Slugs /\ c \in tenants /\ c \in companies
    BY DEF RegTypeOK, Call, RowsFollowTheCall
  <2>2. Cardinality(P \ Logins) <= 1
    <3>1. \A p, q \in P \ Logins : p = q
      BY <2>1 DEF OneSeedPerSchema
    <3>2. CASE P \ Logins = {}
      BY <3>2, FS_EmptySet
    <3>3. ASSUME NEW p \in P \ Logins PROVE Cardinality(P \ Logins) = 1
      <4>1. P \ Logins = {p}
        BY <3>1, <3>3
      <4> QED BY <4>1, FS_Singleton
    <3> QED BY <3>2, <3>3
  <2>3. ASSUME NEW p \in P
        PROVE  IF p \in Logins THEN login[p].early ELSE p = c \/ p \notin tenants \cup companies
    BY <2>1 DEF OneSeedPerSchema, PlaceholdersAreEarly, SlugsAreUnique
  <2> QED BY <2>2, <2>3
<1> QED BY <1>1, RegistrationInvariant, PTL

(* For a registration that failed to leave a row behind, two things must   *)
(* have gone wrong: what it failed on and the delete that was to undo it   *)
(* (the catch of register).                                                *)
THEOREM RegistrationLeavesNothing == RegSpec => []FailedLeavesNothing
<1>1. RegistrationInv => FailedLeavesNothing
  <2> SUFFICES ASSUME RegistrationInv PROVE FailedLeavesNothing
    OBVIOUS
  <2> DEFINE S == {c \in Left : call[c].pc = "failed"}
             n == Cardinality(S)
             u == Cardinality(Undone)
             k == Cardinality(Kept)
  <2>1. S \subseteq Undone /\ S \subseteq Kept
    BY DEF RegistrationInv, RegTypeOK, Left, Undone, Kept
  <2>2. n \in Nat /\ u \in Nat /\ k \in Nat /\ n <= u /\ n <= k
    BY <2>1, DebtIsFinite, FS_Subset, FS_CardinalityType
  <2>3. u + k <= faults /\ faults \in Nat
    BY DEF RegistrationInv, FaultsCoverTheDebt, RegTypeOK
  <2>4. 2 * n <= faults
    <3> HIDE DEF n, u, k
    <3> QED BY <2>2, <2>3
  <2> QED BY <2>4 DEF FailedLeavesNothing, Left, Read
<1> QED BY <1>1, RegistrationInvariant, PTL
=============================================================================
