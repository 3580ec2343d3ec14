---------------------------- MODULE Registration ----------------------------
(***************************************************************************)
(* AuthService.register and login.  A registration writes tenant, company  *)
(* and account in one transaction of the system database, then creates the *)
(* tenant's schema in another database, and undoes the former by deletes   *)
(* when the latter fails.  The first page after a login is the profile,    *)
(* BusinessService.getProfile, which inserts a placeholder where it finds  *)
(* none.  Every step is one await.  A tenant is named by the call that     *)
(* registered it, a profile row by the request that inserted it; all calls *)
(* want the same base slug, which becomes <base>, <base>_1, ... : slugs    *)
(* 0, 1, ...                                                               *)
(***************************************************************************)
EXTENDS Naturals, FiniteSets

CONSTANTS
  Calls,      \* register requests
  Logins,     \* login requests
  Emails,
  MaxSlug,    \* slugs tried; the 51st attempt of the code is out of reach
  FaultKinds, \* which faults happen: "crash", "db", "lost", "delete"
  MaxFaults,  \* bound on their number
  Nobody

ASSUME RegistrationAssumption ==
  /\ IsFiniteSet(Calls) /\ MaxSlug \in Nat /\ MaxFaults \in Nat
  /\ Nobody \notin Calls /\ Calls \cap Logins = {}

Slugs == 0..MaxSlug

VARIABLES
  tenants, companies, accounts,  \* rows, by the call that inserted them
  schemas,   \* the tenant database: the schemas and their profile rows
  call,      \* register
  login,     \* login, then getProfile; early is not in the code: it looked for
             \* the profile before the registration was answered
  faults

rows == <<tenants, companies, accounts>>
regVars == <<tenants, companies, accounts, schemas, call, login, faults>>

CallSteps == {"email", "slug", "commit", "create", "count", "seed", "session",
              "dropAccount", "dropCompany", "dropTenant", "done", "failed", "lost"}

LoginSteps == {"idle", "tenant", "save", "session", "done", "placeholder", "shown", "refused"}

Schema == [made : BOOLEAN, profiles : SUBSET (Calls \cup Logins)]
Call == [pc : CallSteps, email : Emails, slug : Slugs]
Login == [pc : LoginSteps, account : Calls \cup {Nobody}, early : BOOLEAN]

RegTypeOK ==
  /\ tenants \subseteq Calls /\ companies \subseteq Calls /\ accounts \subseteq Calls
  /\ schemas \in [Slugs -> Schema]
  /\ call \in [Calls -> Call]
  /\ login \in [Logins -> Login]
  /\ faults \in 0..MaxFaults

RegInit ==
  /\ tenants = {} /\ companies = {} /\ accounts = {}
  /\ schemas = [s \in Slugs |-> [made |-> FALSE, profiles |-> {}]]
  /\ call \in [Calls -> [pc : {"email"}, email : Emails, slug : {0}]]
  /\ login = [l \in Logins |-> [pc |-> "idle", account |-> Nobody, early |-> FALSE]]
  /\ faults = 0

Goto(c, step) == call' = [call EXCEPT ![c].pc = step]
Fault(kind) == kind \in FaultKinds /\ faults < MaxFaults /\ faults' = faults + 1

EmailTaken(e) == \E d \in accounts : call[d].email = e
SlugTaken(s) == \E d \in tenants : call[d].slug = s
SchemaTaken(s) == \E d \in companies : call[d].slug = s

-----------------------------------------------------------------------------
FindAccount(c) ==
  /\ call[c].pc = "email"
  /\ Goto(c, IF EmailTaken(call[c].email) THEN "failed" ELSE "slug")
  /\ UNCHANGED <<rows, schemas, login, faults>>

(* findUniqueTenantSlug: one look-up per candidate.                        *)
TrySlug(c) ==
  /\ call[c].pc = "slug"
  /\ IF SlugTaken(call[c].slug)
       THEN /\ call[c].slug < MaxSlug
            /\ call' = [call EXCEPT ![c].slug = @ + 1]
       ELSE Goto(c, "commit")
  /\ UNCHANGED <<rows, schemas, login, faults>>

(* The transaction; its three unique indexes decide at the commit.         *)
Commit(c) ==
  /\ call[c].pc = "commit"
  /\ IF SlugTaken(call[c].slug) \/ SchemaTaken(call[c].slug) \/ EmailTaken(call[c].email)
       THEN Goto(c, "failed") /\ UNCHANGED rows
       ELSE /\ tenants' = tenants \cup {c}
            /\ companies' = companies \cup {c}
            /\ accounts' = accounts \cup {c}
            /\ Goto(c, "create")
  /\ UNCHANGED <<schemas, login, faults>>

CommitFails(c) ==
  /\ call[c].pc = "commit"
  /\ Fault("db")
  /\ Goto(c, "failed")
  /\ UNCHANGED <<rows, schemas, login>>

-----------------------------------------------------------------------------
(* bootstrapTenantSchema: CREATE SCHEMA IF NOT EXISTS, then synchronize.   *)
CreateSchema(c) ==
  /\ call[c].pc = "create"
  /\ schemas' = [schemas EXCEPT ![call[c].slug].made = TRUE]
  /\ Goto(c, "count")
  /\ UNCHANGED <<rows, login, faults>>

(* With or without the schema.                                             *)
CreateSchemaFails(c) ==
  /\ call[c].pc = "create"
  /\ Fault("db")
  /\ \/ UNCHANGED schemas
     \/ schemas' = [schemas EXCEPT ![call[c].slug].made = TRUE]
  /\ Goto(c, "dropAccount")
  /\ UNCHANGED <<rows, login>>

(* Mutant: the seed does not ask whether there is a profile.               *)
CountProfilesNever(c) ==
  /\ call[c].pc = "count"
  /\ Goto(c, "seed")
  /\ UNCHANGED <<rows, schemas, login, faults>>

CountProfiles(c) ==
  /\ call[c].pc = "count"
  /\ Goto(c, IF schemas[call[c].slug].profiles = {} THEN "seed" ELSE "session")
  /\ UNCHANGED <<rows, schemas, login, faults>>

AddProfile(s, request) == schemas' = [schemas EXCEPT ![s].profiles = @ \cup {request}]

SeedProfile(c) ==
  /\ call[c].pc = "seed"
  /\ AddProfile(call[c].slug, c)
  /\ Goto(c, "session")
  /\ UNCHANGED <<rows, login, faults>>

(* Mutant: a failed seed does not fail the registration.                   *)
SeedIgnored(c) ==
  /\ call[c].pc \in {"count", "seed"}
  /\ Fault("db")
  /\ Goto(c, "session")
  /\ UNCHANGED <<rows, schemas, login>>

SeedFails(c) ==
  /\ call[c].pc \in {"count", "seed"}
  /\ Fault("db")
  /\ Goto(c, "dropAccount")
  /\ UNCHANGED <<rows, schemas, login>>

(* The row is in, the answer is not.                                       *)
SeedAnswerLost(c) ==
  /\ call[c].pc = "seed"
  /\ Fault("lost")
  /\ AddProfile(call[c].slug, c)
  /\ Goto(c, "dropAccount")
  /\ UNCHANGED <<rows, login>>

-----------------------------------------------------------------------------
DropAccount(c) ==
  /\ call[c].pc = "dropAccount"
  /\ accounts' = accounts \ {c}
  /\ Goto(c, "dropCompany")
  /\ UNCHANGED <<tenants, companies, schemas, login, faults>>

(* Mutant: the clean-up ends with the company.                             *)
DropCompanyLast(c) ==
  /\ call[c].pc = "dropCompany"
  /\ companies' = companies \ {c}
  /\ Goto(c, "failed")
  /\ UNCHANGED <<tenants, accounts, schemas, login, faults>>

DropCompany(c) ==
  /\ call[c].pc = "dropCompany"
  /\ companies' = companies \ {c}
  /\ Goto(c, "dropTenant")
  /\ UNCHANGED <<tenants, accounts, schemas, login, faults>>

(* The foreign key of the company cascades.                                *)
DropTenant(c) ==
  /\ call[c].pc = "dropTenant"
  /\ tenants' = tenants \ {c} /\ companies' = companies \ {c}
  /\ Goto(c, "failed")
  /\ UNCHANGED <<accounts, schemas, login, faults>>

(* A rejected delete is swallowed.                                         *)
DropFails(c) ==
  /\ Fault("delete")
  /\ \/ call[c].pc = "dropAccount" /\ Goto(c, "dropCompany")
     \/ call[c].pc = "dropCompany" /\ Goto(c, "dropTenant")
     \/ call[c].pc = "dropTenant" /\ Goto(c, "failed")
  /\ UNCHANGED <<rows, schemas, login>>

(* completeLogin: the Redis session; without it the tenant stays.          *)
CompleteRegistration(c) ==
  /\ call[c].pc = "session"
  /\ Goto(c, "done")
  /\ UNCHANGED <<rows, schemas, login, faults>>

CompleteRegistrationFails(c) ==
  /\ call[c].pc = "session"
  /\ Fault("db")
  /\ Goto(c, "lost")
  /\ UNCHANGED <<rows, schemas, login>>

-----------------------------------------------------------------------------
FindLoginAccount(l) ==
  /\ login[l].pc = "idle"
  /\ \E c \in accounts : login' = [login EXCEPT ![l] = [@ EXCEPT !.pc = "tenant", !.account = c]]
  /\ UNCHANGED <<rows, schemas, call, faults>>

(* The tenant and its company, two look-ups taken as one step.             *)
FindTenant(l) ==
  /\ login[l].pc = "tenant"
  /\ login' = [login EXCEPT ![l].pc = IF login[l].account \in tenants \cap companies
                                        THEN "save" ELSE "refused"]
  /\ UNCHANGED <<rows, schemas, call, faults>>

(* lastLoginAt: save inserts an entity whose row has gone.                 *)
SaveAccount(l) ==
  /\ login[l].pc = "save"
  /\ LET c == login[l].account IN
     IF c \in accounts \/ ~EmailTaken(call[c].email)
       THEN accounts' = accounts \cup {c} /\ login' = [login EXCEPT ![l].pc = "session"]
       ELSE login' = [login EXCEPT ![l].pc = "refused"] /\ UNCHANGED accounts
  /\ UNCHANGED <<tenants, companies, schemas, call, faults>>

CompleteLogin(l) ==
  /\ login[l].pc = "session"
  /\ login' = [login EXCEPT ![l].pc = "done"]
  /\ UNCHANGED <<rows, schemas, call, faults>>

(* getProfile: the company tells the schema; a schema without tables       *)
(* rejects the query.                                                      *)
FindProfile(l) ==
  LET c == login[l].account  schema == schemas[call[c].slug] IN
  /\ login[l].pc = "done"
  /\ c \in companies /\ schema.made
  /\ login' = [login EXCEPT ![l] =
                  [@ EXCEPT !.pc = IF schema.profiles = {} THEN "placeholder" ELSE "shown",
                            !.early = call[c].pc # "done"]]
  /\ UNCHANGED <<rows, schemas, call, faults>>

InsertPlaceholder(l) ==
  /\ login[l].pc = "placeholder"
  /\ AddProfile(call[login[l].account].slug, l)
  /\ login' = [login EXCEPT ![l].pc = "shown"]
  /\ UNCHANGED <<rows, call, faults>>

(* The process restarts: every request in progress is gone.                *)
Crash ==
  /\ Fault("crash")
  /\ call' = [c \in Calls |-> IF call[c].pc \in {"email", "done", "failed", "lost"}
                                THEN call[c] ELSE [call[c] EXCEPT !.pc = "lost"]]
  /\ login' = [l \in Logins |-> IF login[l].pc \in {"idle", "done", "shown", "refused"}
                                  THEN login[l] ELSE [login[l] EXCEPT !.pc = "refused"]]
  /\ UNCHANGED <<rows, schemas>>

-----------------------------------------------------------------------------
CallNext(c) ==
  \/ FindAccount(c) \/ TrySlug(c) \/ Commit(c) \/ CommitFails(c)
  \/ CreateSchema(c) \/ CreateSchemaFails(c)
  \/ CountProfiles(c) \/ SeedProfile(c) \/ SeedFails(c) \/ SeedAnswerLost(c)
  \/ DropAccount(c) \/ DropCompany(c) \/ DropTenant(c) \/ DropFails(c)
  \/ CompleteRegistration(c) \/ CompleteRegistrationFails(c)

LoginNext(l) ==
  \/ FindLoginAccount(l) \/ FindTenant(l) \/ SaveAccount(l) \/ CompleteLogin(l)
  \/ FindProfile(l) \/ InsertPlaceholder(l)

RegNext ==
  \/ \E c \in Calls : CallNext(c)
  \/ \E l \in Logins : LoginNext(l)
  \/ Crash

RegSpec == RegInit /\ [][RegNext]_regVars

-----------------------------------------------------------------------------
(* A registration that was answered has all its rows, its schema and a     *)
(* profile, whatever failed or was undone around it.                       *)
RegisteredIsComplete ==
  \A c \in Calls : call[c].pc = "done" =>
    /\ c \in tenants /\ c \in companies /\ c \in accounts
    /\ schemas[call[c].slug].made /\ schemas[call[c].slug].profiles # {}

(* "the system tx is rolled back and no orphan rows remain": a             *)
(* registration that failed leaves a row behind only when a delete of its  *)
(* clean-up was rejected too, or an account that a login had read before   *)
(* it was deleted and saved afterwards (register, login).                  *)
FailedLeavesNothing ==
  LET read == {login[l].account : l \in Logins}
      left == tenants \cup companies \cup (accounts \ read)
  IN 2 * Cardinality({c \in left : call[c].pc = "failed"}) <= faults

(* "Single row per tenant": a registered tenant has at most one seeded     *)
(* profile, its own or one of a registration that was undone; any other    *)
(* row is a placeholder of a login that looked before the registration of  *)
(* its account was answered (register, getProfile).                        *)
ProfilesAreOwn ==
  \A c \in Calls : call[c].pc = "done" =>
    LET P == schemas[call[c].slug].profiles IN
    /\ Cardinality(P \ Logins) <= 1
    /\ \A p \in P : IF p \in Logins THEN login[p].early
                                      ELSE p = c \/ p \notin tenants \cup companies
=============================================================================
