----------------------------- MODULE TenantPool -----------------------------
(***************************************************************************)
(* TenantConnectionService: a map from a tenant schema (cacheKey: host,    *)
(* port, database and schema name) to a TypeORM DataSource, filled by the  *)
(* first request of a tenant and by the bootstrap of a new one, emptied by *)
(* the shutdown hook.  The map is read before the await of initialize and  *)
(* written after it.                                                       *)
(***************************************************************************)
EXTENDS Naturals, FiniteSets

CONSTANTS
  Keys,         \* cache keys, one per tenant
  Calls,        \* requests at work at the same time
  DataSources,  \* DataSource objects; their number bounds the runs
  MaxBoots,     \* bound on the bootstraps of a key
  None

ASSUME PoolAssumption ==
  /\ IsFiniteSet(Calls) /\ IsFiniteSet(DataSources)
  /\ MaxBoots \in Nat
  /\ None \notin DataSources

VARIABLES
  pool,     \* the map
  ds,       \* every DataSource created: its key and its state
  call,     \* getDataSourceForCompany, bootstrapTenantSchema, then the use
  boots,    \* bootstraps begun per key; not in the code, bounds them
  closing   \* onModuleDestroy

poolVars == <<pool, ds, call, boots, closing>>

(* "failed": destroy was rejected; TypeORM leaves it initialised.          *)
DsState == {"unused", "opening", "open", "ending", "closed", "failed"}
Call == [pc : {"idle", "admin", "opening", "using"}, key : Keys,
         ds : DataSources \cup {None}]
Source == [key : Keys, state : DsState]
Shutdown == [pc : {"up", "closing", "down"}, visited : SUBSET Keys,
             ds : DataSources \cup {None}]

(* DataSource.isInitialized stays true until destroy has disconnected.     *)
IsInitialized(d) == d # None /\ ds[d].state \in {"open", "ending", "failed"}
DsOf(k) == {d \in DataSources : ds[d].key = k /\ ds[d].state \notin {"unused", "closed"}}

PoolTypeOK ==
  /\ pool \in [Keys -> DataSources \cup {None}]
  /\ ds \in [DataSources -> Source]
  /\ call \in [Calls -> Call]
  /\ boots \in [Keys -> 0..MaxBoots]
  /\ closing \in Shutdown

PoolInit ==
  /\ pool = [k \in Keys |-> None]
  /\ ds \in [DataSources -> [key : Keys, state : {"unused"}]]
  /\ call \in [Calls -> {p \in Call : p.pc = "idle" /\ p.ds = None}]
  /\ boots = [k \in Keys |-> 0]
  /\ closing = [pc |-> "up", visited |-> {}, ds |-> None]

-----------------------------------------------------------------------------
(* new DataSource(...) and the start of its initialize.                    *)
Construct(c, k) ==
  \E d \in DataSources :
    /\ ds[d].state = "unused"
    /\ ds' = [ds EXCEPT ![d] = [key |-> k, state |-> "opening"]]
    /\ call' = [call EXCEPT ![c] = [pc |-> "opening", key |-> k, ds |-> d]]

(* Between the look-up and the construction there is no await.             *)
GetCached(c, k) ==
  /\ call[c].pc = "idle"
  /\ IsInitialized(pool[k])
  /\ call' = [call EXCEPT ![c] = [pc |-> "using", key |-> k, ds |-> pool[k]]]
  /\ UNCHANGED <<pool, ds, boots, closing>>

GetUncached(c, k) ==
  /\ call[c].pc = "idle"
  /\ ~IsInitialized(pool[k])
  /\ Construct(c, k)
  /\ UNCHANGED <<pool, boots, closing>>

(* Called after register committed the rows of the tenant; a registration  *)
(* whose seed failed leaves the entry behind and the next one repeats it.  *)
BeginBootstrap(c, k) ==
  /\ call[c].pc = "idle"
  /\ boots[k] < MaxBoots
  /\ boots' = [boots EXCEPT ![k] = @ + 1]
  /\ call' = [call EXCEPT ![c] = [pc |-> "admin", key |-> k, ds |-> None]]
  /\ UNCHANGED <<pool, ds, closing>>

(* CREATE SCHEMA on a connection that is destroyed whatever happens.       *)
CreateSchema(c) ==
  /\ call[c].pc = "admin"
  /\ Construct(c, call[c].key)
  /\ UNCHANGED <<pool, boots, closing>>

(* Mutant: a DataSource that is replaced in the map is destroyed.          *)
OpenedReplacing(c) ==
  /\ call[c].pc = "opening"
  /\ ds' = [d \in DataSources |->
              IF d = call[c].ds THEN [ds[d] EXCEPT !.state = "open"]
              ELSE IF d = pool[call[c].key] THEN [ds[d] EXCEPT !.state = "closed"]
              ELSE ds[d]]
  /\ pool' = [pool EXCEPT ![call[c].key] = call[c].ds]
  /\ call' = [call EXCEPT ![c].pc = "using"]
  /\ UNCHANGED <<boots, closing>>

(* Mutant: the map is written by the bootstrap only.                       *)
OpenedUncached(c) ==
  /\ call[c].pc = "opening"
  /\ ds' = [ds EXCEPT ![call[c].ds].state = "open"]
  /\ call' = [call EXCEPT ![c].pc = "using"]
  /\ UNCHANGED <<pool, boots, closing>>

Opened(c) ==
  /\ call[c].pc = "opening"
  /\ ds' = [ds EXCEPT ![call[c].ds].state = "open"]
  /\ pool' = [pool EXCEPT ![call[c].key] = call[c].ds]
  /\ call' = [call EXCEPT ![c].pc = "using"]
  /\ UNCHANGED <<boots, closing>>

(* Mutant: a DataSource that failed to connect is never disconnected.      *)
OpenFailsMarked(c) ==
  /\ call[c].pc \in {"admin", "opening"}
  /\ ds' = [d \in DataSources |-> IF d = call[c].ds
                                    THEN [ds[d] EXCEPT !.state = "error"] ELSE ds[d]]
  /\ call' = [call EXCEPT ![c] = [@ EXCEPT !.pc = "idle", !.ds = None]]
  /\ UNCHANGED <<pool, boots, closing>>

(* A rejected initialize has disconnected; a rejected CREATE SCHEMA ends   *)
(* the call before there is a DataSource.                                  *)
OpenFails(c) ==
  /\ call[c].pc \in {"admin", "opening"}
  /\ ds' = [d \in DataSources |-> IF d = call[c].ds
                                    THEN [ds[d] EXCEPT !.state = "closed"] ELSE ds[d]]
  /\ call' = [call EXCEPT ![c] = [@ EXCEPT !.pc = "idle", !.ds = None]]
  /\ UNCHANGED <<pool, boots, closing>>

(* The request that asked for the DataSource ends.                         *)
Release(c) ==
  /\ call[c].pc = "using"
  /\ call' = [call EXCEPT ![c] = [@ EXCEPT !.pc = "idle", !.ds = None]]
  /\ UNCHANGED <<pool, ds, boots, closing>>

-----------------------------------------------------------------------------
(* onModuleDestroy runs before the HTTP server closes, so requests go on.  *)
(* The iterator is live: keys inserted during an await are visited, a      *)
(* value replaced after its visit is not visited again.  The map's order   *)
(* is left open; only initialised DataSources are ever in it.              *)
VisitNext(dss, visited) ==
  LET rest == {k \in Keys : pool[k] # None /\ k \notin visited} IN
  \/ /\ rest = {}
     /\ closing' = [pc |-> "down", visited |-> visited, ds |-> None]
     /\ pool' = [k \in Keys |-> None]
     /\ ds' = dss
  \/ \E k \in rest :
       /\ closing' = [pc |-> "closing", visited |-> visited \cup {k}, ds |-> pool[k]]
       /\ ds' = [dss EXCEPT ![pool[k]].state = "ending"]
       /\ UNCHANGED pool

BeginShutdown ==
  /\ closing.pc = "up"
  /\ VisitNext(ds, {})
  /\ UNCHANGED <<call, boots>>

Closed ==
  /\ closing.ds # None
  /\ VisitNext([ds EXCEPT ![closing.ds].state = "closed"], closing.visited)
  /\ UNCHANGED <<call, boots>>

(* Mutant: a DataSource that could not be closed is tried again.           *)
CloseRetried ==
  /\ closing.ds # None
  /\ VisitNext([ds EXCEPT ![closing.ds].state = "failed"],
               {k \in closing.visited : pool[k] # closing.ds})
  /\ UNCHANGED <<call, boots>>

(* The error is logged and the loop goes on.                               *)
CloseFails ==
  /\ closing.ds # None
  /\ VisitNext([ds EXCEPT ![closing.ds].state = "failed"], closing.visited)
  /\ UNCHANGED <<call, boots>>

-----------------------------------------------------------------------------
CallNext(c) ==
  \/ \E k \in Keys : GetCached(c, k) \/ GetUncached(c, k) \/ BeginBootstrap(c, k)
  \/ CreateSchema(c)
  \/ Opened(c)
  \/ OpenFails(c)
  \/ Release(c)

CloseStep == Closed \/ CloseFails

PoolNext == (\E c \in Calls : CallNext(c)) \/ BeginShutdown \/ CloseStep

PoolSpec == PoolInit /\ [][PoolNext]_poolVars

(* The hook awaits one destroy after the other; each settles.              *)
FairPoolSpec == PoolSpec /\ WF_poolVars(CloseStep)

-----------------------------------------------------------------------------
(* Until the shutdown a request that was given a DataSource can use it,    *)
(* although other requests replace the map's entry (getDataSourceFor-      *)
(* Company, bootstrapTenantSchema).                                        *)
NoUseAfterClose ==
  closing.pc = "up" => \A c \in Calls : call[c].pc = "using" => ds[call[c].ds].state = "open"

(* Before the shutdown a schema has at most as many DataSources as there   *)
(* are concurrent requests and bootstraps of it, however many requests     *)
(* come and fail: entries are found again once there is one.               *)
PoolsAreBounded ==
  closing.pc = "up" =>
    \A k \in Keys : Cardinality(DsOf(k)) <= Cardinality(Calls) + boots[k]

(* onModuleDestroy ends although requests fill the map while it iterates   *)
(* and although a destroy may fail.                                        *)
ShutdownFinishes == closing.pc = "closing" ~> closing.pc = "down"
=============================================================================
