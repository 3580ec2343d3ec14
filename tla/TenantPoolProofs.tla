-------------------------- MODULE TenantPoolProofs --------------------------
(***************************************************************************)
(* TenantPool, for every set of tenants, requests and DataSources, any     *)
(* number of failures, and a shutdown at any moment.                       *)
(***************************************************************************)
EXTENDS TenantPool, FiniteSetTheorems, TLAPS

-----------------------------------------------------------------------------
(* Type correctness.  The loop of onModuleDestroy holds the DataSource it  *)
(* waits for, so every update of ds is of a member.                        *)
LEMMA VisitTypes ==
  ASSUME PoolTypeOK, NEW dss \in [DataSources -> Source],
         NEW visited \in SUBSET Keys, VisitNext(dss, visited)
  PROVE  /\ pool' \in [Keys -> DataSources \cup {None}]
         /\ ds' \in [DataSources -> Source]
         /\ closing' \in Shutdown
         /\ closing'.pc # "up"
<1> DEFINE rest == {k \in Keys : pool[k] # None /\ k \notin visited}
<1>1. CASE /\ closing' = [pc |-> "down", visited |-> visited, ds |-> None]
           /\ pool' = [k \in Keys |-> None] /\ ds' = dss
  BY <1>1 DEF Shutdown
<1>2. ASSUME NEW k \in rest,
             closing' = [pc |-> "closing", visited |-> visited \cup {k}, ds |-> pool[k]],
             ds' = [dss EXCEPT ![pool[k]].state = "ending"], pool' = pool
      PROVE  /\ pool' \in [Keys -> DataSources \cup {None}]
             /\ ds' \in [DataSources -> Source]
             /\ closing' \in Shutdown
             /\ closing'.pc # "up"
  <2>1. k \in Keys /\ pool[k] \in DataSources \cup {None}
    BY DEF PoolTypeOK
  <2>2. visited \cup {k} \in SUBSET Keys
    BY <2>1
  <2>3. closing' \in Shutdown /\ closing'.pc # "up"
    BY <1>2, <2>1, <2>2 DEF Shutdown
  <2>4. ds' \in [DataSources -> Source]
    BY <1>2 DEF Source, DsState
  <2> QED BY <1>2, <2>3, <2>4 DEF PoolTypeOK
<1> QED BY <1>1, <1>2 DEF VisitNext

(* What a call of the pool may do to the rest of the state.                *)
LEMMA ConstructTypes ==
  ASSUME PoolTypeOK, NEW c \in Calls, NEW k \in Keys, Construct(c, k)
  PROVE  /\ ds' \in [DataSources -> Source]
         /\ call' \in [Calls -> Call]
<1>1. PICK d \in DataSources :
        /\ ds' = [ds EXCEPT ![d] = [key |-> k, state |-> "opening"]]
        /\ call' = [call EXCEPT ![c] = [pc |-> "opening", key |-> k, ds |-> d]]
  BY DEF Construct
<1>2. /\ [key |-> k, state |-> "opening"] \in Source
      /\ [pc |-> "opening", key |-> k, ds |-> d] \in Call
  BY DEF Source, DsState, Call
<1> QED BY <1>1, <1>2 DEF PoolTypeOK

LEMMA TypeCall == ASSUME PoolTypeOK, NEW c \in Calls, CallNext(c) PROVE PoolTypeOK' /\ closing' = closing
<1> USE DEF PoolTypeOK
<1>1. ASSUME NEW k \in Keys, GetCached(c, k) PROVE PoolTypeOK' /\ closing' = closing
  <2>1. [pc |-> "using", key |-> k, ds |-> pool[k]] \in Call
    BY DEF Call
  <2> QED BY <1>1, <2>1 DEF GetCached
<1>2. ASSUME NEW k \in Keys, GetUncached(c, k) PROVE PoolTypeOK' /\ closing' = closing
  BY <1>2, ConstructTypes DEF GetUncached
<1>3. ASSUME NEW k \in Keys, BeginBootstrap(c, k) PROVE PoolTypeOK' /\ closing' = closing
  <2>1. [pc |-> "admin", key |-> k, ds |-> None] \in Call
    BY DEF Call
  <2>2. boots' \in [Keys -> 0..MaxBoots]
    BY <1>3, PoolAssumption DEF BeginBootstrap
  <2> QED BY <1>3, <2>1, <2>2 DEF BeginBootstrap
<1>4. CASE CreateSchema(c)
  <2>1. call[c].key \in Keys
    BY DEF Call
  <2> QED BY <1>4, <2>1, ConstructTypes DEF CreateSchema
<1>5. CASE Opened(c)
  <2>1. call[c] \in Call /\ call[c].ds \in DataSources \cup {None}
    BY DEF Call
  <2>2. call' \in [Calls -> Call]
    BY <1>5, <2>1 DEF Opened, Call
  <2>3. ds' \in [DataSources -> Source]
    BY <1>5 DEF Opened, Source, DsState
  <2> QED BY <1>5, <2>1, <2>2, <2>3 DEF Opened
<1>6. CASE OpenFails(c)
  <2>1. PICK p : p = [call[c] EXCEPT !.pc = "idle", !.ds = None]
    OBVIOUS
  <2>2. p \in Call
    BY <2>1 DEF Call
  <2>3. \A d \in DataSources : [ds[d] EXCEPT !.state = "closed"] \in Source
    BY DEF Source, DsState
  <2>4. call' = [call EXCEPT ![c] = p]
    BY <1>6, <2>1 DEF OpenFails
  <2>5. \A d \in DataSources : ds'[d] \in Source
    BY <1>6, <2>3 DEF OpenFails
  <2> QED BY <1>6, <2>2, <2>4, <2>5 DEF OpenFails
<1>7. CASE Release(c)
  <2>1. PICK p : p = [call[c] EXCEPT !.pc = "idle", !.ds = None]
    OBVIOUS
  <2>2. p \in Call
    BY <2>1 DEF Call
  <2>3. call' = [call EXCEPT ![c] = p]
    BY <1>7, <2>1 DEF Release
  <2> QED BY <1>7, <2>2, <2>3 DEF Release
<1> QED BY <1>1, <1>2, <1>3, <1>4, <1>5, <1>6, <1>7 DEF CallNext

LEMMA TypeShutdown ==
  ASSUME PoolTypeOK, BeginShutdown \/ CloseStep PROVE PoolTypeOK' /\ closing'.pc # "up"
<1> DEFINE Closing(s) == [ds EXCEPT ![closing.ds].state = s]
<1>1. \A s \in {"closed", "failed"} : Closing(s) \in [DataSources -> Source]
  BY DEF PoolTypeOK, Source, DsState
<1>2. closing.visited \in SUBSET Keys
  BY DEF PoolTypeOK, Shutdown
<1> HIDE DEF Closing
<1>3. CASE BeginShutdown
  <2>1. ds \in [DataSources -> Source] /\ {} \in SUBSET Keys
    BY DEF PoolTypeOK
  <2>2. VisitNext(ds, {}) /\ call' = call /\ boots' = boots
    BY <1>3 DEF BeginShutdown
  <2> QED BY <2>1, <2>2, VisitTypes DEF PoolTypeOK
<1>4. CASE Closed
  <2>1. VisitNext(Closing("closed"), closing.visited) /\ call' = call /\ boots' = boots
    BY <1>4 DEF Closed, Closing
  <2> QED BY <1>1, <1>2, <2>1, VisitTypes DEF PoolTypeOK
<1>5. CASE CloseFails
  <2>1. VisitNext(Closing("failed"), closing.visited) /\ call' = call /\ boots' = boots
    BY <1>5 DEF CloseFails, Closing
  <2> QED BY <1>1, <1>2, <2>1, VisitTypes DEF PoolTypeOK
<1> QED BY <1>3, <1>4, <1>5 DEF CloseStep

LEMMA TypeInit == PoolInit => PoolTypeOK
<1> SUFFICES ASSUME PoolInit PROVE PoolTypeOK
  OBVIOUS
<1>1. call \in [Calls -> Call]
  BY DEF PoolInit
<1>2. ds \in [DataSources -> Source]
  BY DEF PoolInit, Source, DsState
<1>3. closing \in Shutdown
  BY DEF PoolInit, Shutdown
<1>4. boots \in [Keys -> 0..MaxBoots] /\ pool \in [Keys -> DataSources \cup {None}]
  BY PoolAssumption DEF PoolInit
<1> QED BY <1>1, <1>2, <1>3, <1>4 DEF PoolTypeOK

LEMMA TypeNext == PoolTypeOK /\ [PoolNext]_poolVars => PoolTypeOK'
<1> SUFFICES ASSUME PoolTypeOK, [PoolNext]_poolVars PROVE PoolTypeOK'
  OBVIOUS
<1>1. CASE UNCHANGED poolVars
  BY <1>1 DEF poolVars, PoolTypeOK
<1> QED BY <1>1, TypeCall, TypeShutdown DEF PoolNext

(* Every variable keeps its type, whatever the shutdown hook meets: the    *)
(* DataSource it awaits is one of the map's (onModuleDestroy).             *)
THEOREM PoolTypes == PoolSpec => []PoolTypeOK
BY TypeInit, TypeNext, PTL DEF PoolSpec

-----------------------------------------------------------------------------
(* Before the shutdown.  What is in the map is open and of its key; a call *)
(* that waits for a DataSource is the only one to wait for it; a DataSource*)
(* opens only while a call waits for it; none is open for a key that has   *)
(* no entry.                                                               *)
EntriesAreOpen ==
  \A k \in Keys : pool[k] # None => ds[pool[k]].key = k /\ ds[pool[k]].state = "open"

CallOK(c) ==
  /\ call[c].pc = "admin" => call[c].ds = None
  /\ call[c].pc = "opening" => /\ call[c].ds # None
                               /\ ds[call[c].ds].key = call[c].key
                               /\ ds[call[c].ds].state = "opening"
  /\ call[c].pc = "using" => call[c].ds # None /\ ds[call[c].ds].state = "open"

CallsHoldTheirs == \A c \in Calls : CallOK(c)

NoneOpensTwice ==
  \A b, c \in Calls :
    call[b].pc = "opening" /\ call[c].pc = "opening" /\ call[b].ds = call[c].ds => b = c

SourceOK(d) ==
  /\ ds[d].state \in {"unused", "opening", "open", "closed"}
  /\ ds[d].state = "opening" => \E c \in Calls : call[c].pc = "opening" /\ call[c].ds = d
  /\ ds[d].state = "open" => pool[ds[d].key] # None

SourcesAreKnown == \A d \in DataSources : SourceOK(d)

(* An entry that is there is used by every request that comes after it;    *)
(* only bootstraps that have yet to construct their DataSource add to it.  *)
Admins(k) == {c \in Calls : call[c].pc = "admin" /\ call[c].key = k}
Openers(k) == {c \in Calls : call[c].pc = "opening" /\ call[c].key = k}

EntryBounds(k) ==
  pool[k] # None =>
    Cardinality(DsOf(k)) + Cardinality(Admins(k)) <= Cardinality(Calls) + boots[k]

Structure == EntriesAreOpen /\ CallsHoldTheirs /\ NoneOpensTwice /\ SourcesAreKnown
UpInv == Structure /\ \A k \in Keys : EntryBounds(k)

PoolInv == PoolTypeOK /\ (closing.pc = "up" => UpInv)

-----------------------------------------------------------------------------
(* The steps of a call, one record at a time.                              *)
LEMMA CallMoves ==
  ASSUME PoolTypeOK, NEW c \in Calls, NEW p, call' = [call EXCEPT ![c] = p]
  PROVE  \A b \in Calls : call'[b] = IF b = c THEN p ELSE call[b]
BY DEF PoolTypeOK

LEMMA StructureConstruct ==
  ASSUME PoolTypeOK, Structure, NEW c \in Calls, NEW k \in Keys, Construct(c, k), pool' = pool,
         call[c].pc \in {"idle", "admin"}
  PROVE  Structure'
<1>1. PICK d \in DataSources :
        /\ ds[d].state = "unused"
        /\ ds' = [ds EXCEPT ![d] = [key |-> k, state |-> "opening"]]
        /\ call' = [call EXCEPT ![c] = [pc |-> "opening", key |-> k, ds |-> d]]
  BY DEF Construct
<1>2. PICK p, e : /\ p = [pc |-> "opening", key |-> k, ds |-> d]
                  /\ e = [key |-> k, state |-> "opening"]
  OBVIOUS
<1>3. /\ p.pc = "opening" /\ p.key = k /\ p.ds = d
      /\ e.key = k /\ e.state = "opening"
  BY <1>2
<1>4. \A b \in Calls : call'[b] = IF b = c THEN p ELSE call[b]
  <2>1. call' = [call EXCEPT ![c] = p]
    BY <1>1, <1>2
  <2> QED BY <2>1, CallMoves
<1>5. \A x \in DataSources : ds'[x] = IF x = d THEN e ELSE ds[x]
  BY <1>1, <1>2 DEF PoolTypeOK
<1>6. /\ \A b \in Calls : call[b].ds \in DataSources \cup {None}
      /\ \A j \in Keys : pool[j] \in DataSources \cup {None}
      /\ \A x \in DataSources : ds[x].key \in Keys
  BY DEF PoolTypeOK, Call, Source
<1>7. EntriesAreOpen'
  BY <1>1, <1>5, <1>6 DEF Structure, EntriesAreOpen
<1>8. CallsHoldTheirs'
  <2> SUFFICES ASSUME NEW b \in Calls PROVE CallOK(b)'
    BY DEF CallsHoldTheirs
  <2>1. CASE b = c
    BY <2>1, <1>3, <1>4, <1>5, PoolAssumption DEF CallOK
  <2>2. CASE b # c
    BY <2>2, <1>1, <1>4, <1>5, <1>6 DEF CallOK, Structure, CallsHoldTheirs
  <2> QED BY <2>1, <2>2
<1>9. NoneOpensTwice'
  BY <1>1, <1>3, <1>4, <1>6 DEF Structure, NoneOpensTwice, CallsHoldTheirs, CallOK
<1>10. SourcesAreKnown'
  <2> SUFFICES ASSUME NEW x \in DataSources PROVE SourceOK(x)'
    BY DEF SourcesAreKnown
  <2>1. CASE x = d
    BY <2>1, <1>3, <1>4, <1>5 DEF SourceOK
  <2>2. CASE x # d
    BY <2>2, <1>4, <1>5 DEF SourceOK, Structure, SourcesAreKnown
  <2> QED BY <2>1, <2>2
<1> QED BY <1>7, <1>8, <1>9, <1>10 DEF Structure

(* A step that leaves the map and the DataSources alone, of a call that    *)
(* neither was nor is waiting for a DataSource.                            *)
LEMMA StructureRest ==
  ASSUME PoolTypeOK, Structure, NEW c \in Calls, NEW p, call' = [call EXCEPT ![c] = p],
         pool' = pool, ds' = ds, call[c].pc # "opening", p.pc # "opening", CallOK(c)'
  PROVE  Structure'
<1>1. \A b \in Calls : call'[b] = IF b = c THEN p ELSE call[b]
  BY CallMoves
<1>2. EntriesAreOpen'
  BY DEF Structure, EntriesAreOpen
<1>3. CallsHoldTheirs'
  BY <1>1 DEF Structure, CallsHoldTheirs, CallOK
<1>4. NoneOpensTwice'
  BY <1>1 DEF Structure, NoneOpensTwice
<1>5. SourcesAreKnown'
  <2> SUFFICES ASSUME NEW x \in DataSources PROVE SourceOK(x)'
    BY DEF SourcesAreKnown
  <2> QED BY <1>1 DEF SourceOK, Structure, SourcesAreKnown
<1> QED BY <1>2, <1>3, <1>4, <1>5 DEF Structure

LEMMA StructureOpened ==
  ASSUME PoolTypeOK, Structure, NEW c \in Calls, Opened(c)
  PROVE  Structure'
<1>1. PICK d, k, p, e : /\ d = call[c].ds /\ k = call[c].key
                        /\ p = [call[c] EXCEPT !.pc = "using"]
                        /\ e = [ds[d] EXCEPT !.state = "open"]
  OBVIOUS
<1>2. /\ d \in DataSources /\ k \in Keys /\ ds[d].key = k /\ ds[d].state = "opening"
      /\ call[c].pc = "opening"
  BY <1>1 DEF Opened, PoolTypeOK, Call, Structure, CallsHoldTheirs, CallOK
<1>3. p.pc = "using" /\ p.ds = d /\ e.key = k /\ e.state = "open"
  BY <1>1, <1>2 DEF PoolTypeOK, Call, Source
<1>4. \A b \in Calls : call'[b] = IF b = c THEN p ELSE call[b]
  <2>1. call' = [call EXCEPT ![c] = p]
    BY <1>1 DEF Opened
  <2> QED BY <2>1, CallMoves
<1>5. \A x \in DataSources : ds'[x] = IF x = d THEN e ELSE ds[x]
  BY <1>1 DEF Opened, PoolTypeOK
<1>6. \A j \in Keys : pool'[j] = IF j = k THEN d ELSE pool[j]
  BY <1>1 DEF Opened, PoolTypeOK
<1>7. /\ \A b \in Calls : call[b].ds \in DataSources \cup {None}
      /\ \A j \in Keys : pool[j] \in DataSources \cup {None}
      /\ \A x \in DataSources : ds[x].key \in Keys
  BY DEF PoolTypeOK, Call, Source
<1>8. EntriesAreOpen'
  BY <1>2, <1>3, <1>5, <1>6, <1>7 DEF Structure, EntriesAreOpen
<1>9. CallsHoldTheirs'
  <2> SUFFICES ASSUME NEW b \in Calls PROVE CallOK(b)'
    BY DEF CallsHoldTheirs
  <2>1. CASE b = c
    BY <2>1, <1>2, <1>3, <1>4, <1>5, PoolAssumption DEF CallOK
  <2>2. CASE b # c
    <3>1. call'[b] = call[b] /\ CallOK(b)
      BY <2>2, <1>4 DEF Structure, CallsHoldTheirs
    <3>2. call[b].pc = "opening" => call[b].ds # d
      BY <2>2, <1>1, <1>2 DEF Structure, NoneOpensTwice
    <3> QED BY <3>1, <3>2, <1>2, <1>3, <1>5, <1>7 DEF CallOK
  <2> QED BY <2>1, <2>2
<1>10. NoneOpensTwice'
  BY <1>3, <1>4 DEF Structure, NoneOpensTwice
<1>11. SourcesAreKnown'
  <2> SUFFICES ASSUME NEW x \in DataSources PROVE SourceOK(x)'
    BY DEF SourcesAreKnown
  <2>1. CASE x = d
    BY <2>1, <1>2, <1>3, <1>5, <1>6, PoolAssumption DEF SourceOK
  <2>2. CASE x # d
    <3>1. ds'[x] = ds[x] /\ SourceOK(x)
      BY <2>2, <1>5 DEF Structure, SourcesAreKnown
    <3>2. \A b \in Calls : call[b].pc = "opening" /\ call[b].ds = x => call'[b] = call[b]
      BY <2>2, <1>1, <1>4
    <3>3. \A j \in Keys : pool[j] # None => pool'[j] # None
      BY <1>2, <1>6, PoolAssumption
    <3> QED BY <3>1, <3>2, <3>3, <1>7 DEF SourceOK
  <2> QED BY <2>1, <2>2
<1> QED BY <1>8, <1>9, <1>10, <1>11 DEF Structure

LEMMA StructureOpenFails ==
  ASSUME PoolTypeOK, Structure, NEW c \in Calls, OpenFails(c)
  PROVE  Structure'
<1>1. PICK p : p = [call[c] EXCEPT !.pc = "idle", !.ds = None]
  OBVIOUS
<1>2. p.pc = "idle"
  BY <1>1 DEF PoolTypeOK, Call
<1>3. \A b \in Calls : call'[b] = IF b = c THEN p ELSE call[b]
  <2>1. call' = [call EXCEPT ![c] = p]
    BY <1>1 DEF OpenFails
  <2> QED BY <2>1, CallMoves
<1>4. pool' = pool /\ call[c].pc \in {"admin", "opening"}
  BY DEF OpenFails
<1>5. CASE call[c].ds = None
  <2>1. \A x \in DataSources : ds'[x] = ds[x]
    BY <1>5, PoolAssumption DEF OpenFails
  <2>2. ds' = ds
    BY <2>1 DEF OpenFails, PoolTypeOK
  <2>3. call[c].pc = "admin"
    BY <1>4, <1>5 DEF Structure, CallsHoldTheirs, CallOK
  <2>4. CallOK(c)'
    BY <1>2, <1>3 DEF CallOK
  <2>5. call' = [call EXCEPT ![c] = p]
    BY <1>1 DEF OpenFails
  <2> QED BY <1>2, <1>4, <2>2, <2>3, <2>4, <2>5, StructureRest
<1>6. CASE call[c].ds # None
  <2>1. PICK d \in DataSources : d = call[c].ds
    BY <1>6 DEF PoolTypeOK, Call
  <2>2. call[c].pc = "opening" /\ ds[d].state = "opening"
    BY <1>4, <1>6, <2>1 DEF Structure, CallsHoldTheirs, CallOK
  <2>3. PICK e : e = [ds[d] EXCEPT !.state = "closed"]
    OBVIOUS
  <2>4. e.state = "closed" /\ e.key = ds[d].key
    BY <2>3 DEF PoolTypeOK, Source
  <2>5. \A x \in DataSources : ds'[x] = IF x = d THEN e ELSE ds[x]
    BY <2>1, <2>3 DEF OpenFails
  <2>6. /\ \A b \in Calls : call[b].ds \in DataSources \cup {None}
        /\ \A j \in Keys : pool[j] \in DataSources \cup {None}
    BY DEF PoolTypeOK, Call
  <2>7. EntriesAreOpen'
    BY <1>4, <2>2, <2>5, <2>6 DEF Structure, EntriesAreOpen
  <2>8. CallsHoldTheirs'
    <3> SUFFICES ASSUME NEW b \in Calls PROVE CallOK(b)'
      BY DEF CallsHoldTheirs
    <3>1. CASE b = c
      BY <3>1, <1>2, <1>3 DEF CallOK
    <3>2. CASE b # c
      <4>1. call'[b] = call[b] /\ CallOK(b)
        BY <3>2, <1>3 DEF Structure, CallsHoldTheirs
      <4>2. call[b].pc = "opening" => call[b].ds # d
        BY <3>2, <2>1, <2>2 DEF Structure, NoneOpensTwice
      <4> QED BY <4>1, <4>2, <2>2, <2>5, <2>6 DEF CallOK
    <3> QED BY <3>1, <3>2
  <2>9. NoneOpensTwice'
    BY <1>2, <1>3 DEF Structure, NoneOpensTwice
  <2>10. SourcesAreKnown'
    <3> SUFFICES ASSUME NEW x \in DataSources PROVE SourceOK(x)'
      BY DEF SourcesAreKnown
    <3>1. CASE x = d
      BY <3>1, <2>4, <2>5 DEF SourceOK
    <3>2. CASE x # d
      <4>1. ds'[x] = ds[x] /\ SourceOK(x)
        BY <3>2, <2>5 DEF Structure, SourcesAreKnown
      <4>2. \A b \in Calls : call[b].ds = x => call'[b] = call[b]
        BY <3>2, <1>3, <2>1
      <4> QED BY <1>4, <4>1, <4>2 DEF SourceOK
    <3> QED BY <3>1, <3>2
  <2> QED BY <2>7, <2>8, <2>9, <2>10 DEF Structure
<1> QED BY <1>5, <1>6

LEMMA StructureCall ==
  ASSUME PoolTypeOK, Structure, NEW c \in Calls, CallNext(c) PROVE Structure'
<1>1. ASSUME NEW k \in Keys, GetCached(c, k) PROVE Structure'
  <2>1. PICK p : p = [pc |-> "using", key |-> k, ds |-> pool[k]]
    OBVIOUS
  <2>2. p.pc = "using" /\ p.ds = pool[k]
    BY <2>1
  <2>3. call' = [call EXCEPT ![c] = p] /\ pool' = pool /\ ds' = ds /\ call[c].pc = "idle"
    BY <1>1, <2>1 DEF GetCached
  <2>4. pool[k] # None /\ ds[pool[k]].state = "open"
    BY <1>1 DEF GetCached, IsInitialized, Structure, EntriesAreOpen
  <2>5. CallOK(c)'
    <3>1. call'[c] = p
      BY <2>3 DEF PoolTypeOK
    <3> QED BY <2>2, <2>3, <2>4, <3>1 DEF CallOK
  <2> QED BY <2>2, <2>3, <2>5, StructureRest
<1>2. ASSUME NEW k \in Keys, GetUncached(c, k) PROVE Structure'
  BY <1>2, StructureConstruct DEF GetUncached
<1>3. ASSUME NEW k \in Keys, BeginBootstrap(c, k) PROVE Structure'
  <2>1. PICK p : p = [pc |-> "admin", key |-> k, ds |-> None]
    OBVIOUS
  <2>2. p.pc = "admin" /\ p.ds = None
    BY <2>1
  <2>3. call' = [call EXCEPT ![c] = p] /\ pool' = pool /\ ds' = ds /\ call[c].pc = "idle"
    BY <1>3, <2>1 DEF BeginBootstrap
  <2>4. CallOK(c)'
    <3>1. call'[c] = p
      BY <2>3 DEF PoolTypeOK
    <3> QED BY <2>2, <3>1 DEF CallOK
  <2> QED BY <2>2, <2>3, <2>4, StructureRest
<1>4. CASE CreateSchema(c)
  <2>1. call[c].key \in Keys
    BY DEF PoolTypeOK, Call
  <2> QED BY <1>4, <2>1, StructureConstruct DEF CreateSchema
<1>5. CASE Release(c)
  <2>1. PICK p : p = [call[c] EXCEPT !.pc = "idle", !.ds = None]
    OBVIOUS
  <2>2. p.pc = "idle"
    BY <2>1 DEF PoolTypeOK, Call
  <2>3. call' = [call EXCEPT ![c] = p] /\ pool' = pool /\ ds' = ds /\ call[c].pc = "using"
    BY <1>5, <2>1 DEF Release
  <2>4. CallOK(c)'
    <3>1. call'[c] = p
      BY <2>3 DEF PoolTypeOK
    <3> QED BY <2>2, <3>1 DEF CallOK
  <2> QED BY <2>2, <2>3, <2>4, StructureRest
<1> QED BY <1>1, <1>2, <1>3, <1>4, <1>5, StructureOpened, StructureOpenFails DEF CallNext

-----------------------------------------------------------------------------
(* How many DataSources a key has.                                         *)
LEMMA CountsAreFinite ==
  ASSUME NEW k \in Keys
  PROVE  /\ IsFiniteSet(DsOf(k)) /\ IsFiniteSet(Admins(k)) /\ IsFiniteSet(Openers(k))
         /\ Cardinality(DsOf(k)) \in Nat /\ Cardinality(Admins(k)) \in Nat
         /\ Cardinality(Calls) \in Nat
<1>1. DsOf(k) \subseteq DataSources /\ Admins(k) \subseteq Calls /\ Openers(k) \subseteq Calls
  BY DEF DsOf, Admins, Openers
<1> QED BY <1>1, PoolAssumption, FS_Subset, FS_CardinalityType

(* A key without an entry has at most one DataSource per call.             *)
LEMMA OpenersAreEnough ==
  ASSUME PoolTypeOK, Structure, NEW k \in Keys, pool[k] = None
  PROVE  Cardinality(DsOf(k)) + Cardinality(Admins(k)) <= Cardinality(Calls)
<1> DEFINE caller == [d \in DsOf(k) |-> CHOOSE c \in Openers(k) : call[c].ds = d]
<1>1. ASSUME NEW d \in DsOf(k) PROVE \E c \in Openers(k) : call[c].ds = d
  <2>1. d \in DataSources /\ ds[d].key = k /\ ds[d].state = "opening"
    BY DEF DsOf, Structure, SourcesAreKnown, SourceOK
  <2>2. PICK c \in Calls : call[c].pc = "opening" /\ call[c].ds = d
    BY <2>1 DEF Structure, SourcesAreKnown, SourceOK
  <2>3. c \in Openers(k)
    BY <2>1, <2>2 DEF Openers, Structure, CallsHoldTheirs, CallOK
  <2> QED BY <2>2, <2>3
<1>2. caller \in Injection(DsOf(k), Openers(k))
  <2>1. \A d \in DsOf(k) : caller[d] \in Openers(k) /\ call[caller[d]].ds = d
    BY <1>1
  <2>2. caller \in [DsOf(k) -> Openers(k)]
    BY <2>1
  <2> HIDE DEF caller
  <2>3. \A a, b \in DsOf(k) : caller[a] = caller[b] => a = b
    BY <2>1
  <2> QED BY <2>2, <2>3 DEF Injection, IsInjective
<1>3. Cardinality(DsOf(k)) <= Cardinality(Openers(k))
  BY <1>2, CountsAreFinite, FS_Injection
<1>4. Cardinality(Openers(k) \cup Admins(k)) =
        Cardinality(Openers(k)) + Cardinality(Admins(k)) - Cardinality(Openers(k) \cap Admins(k))
  BY CountsAreFinite, FS_Union
<1>5. Cardinality(Openers(k) \cap Admins(k)) = 0
  <2>1. Openers(k) \cap Admins(k) = {}
    BY DEF Openers, Admins
  <2> QED BY <2>1, FS_EmptySet
<1>6. Cardinality(Openers(k) \cup Admins(k)) <= Cardinality(Calls)
  <2>1. Openers(k) \cup Admins(k) \subseteq Calls
    BY DEF Openers, Admins
  <2> QED BY <2>1, PoolAssumption, FS_Subset
<1>7. Cardinality(Openers(k)) \in Nat
  BY CountsAreFinite, FS_CardinalityType
<1> QED BY <1>3, <1>4, <1>5, <1>6, <1>7, CountsAreFinite

(* The bound stays with a key that had an entry before, when no more is    *)
(* constructed than bootstraps were begun.                                 *)
LEMMA BoundStays ==
  ASSUME PoolTypeOK, PoolTypeOK', NEW k \in Keys, EntryBounds(k), pool[k] # None,
         boots'[k] = boots[k],
         Cardinality(DsOf(k)') + Cardinality(Admins(k)') <= Cardinality(DsOf(k)) + Cardinality(Admins(k))
  PROVE  EntryBounds(k)'
<1>1. /\ Cardinality(DsOf(k)') \in Nat /\ Cardinality(Admins(k)') \in Nat
      /\ Cardinality(DsOf(k)) \in Nat /\ Cardinality(Admins(k)) \in Nat
      /\ Cardinality(Calls) \in Nat /\ boots[k] \in Nat
  <2>1. DsOf(k)' \subseteq DataSources /\ Admins(k)' \subseteq Calls
    BY DEF DsOf, Admins
  <2>2. boots[k] \in Nat
    BY PoolAssumption DEF PoolTypeOK
  <2> QED BY <2>1, <2>2, PoolAssumption, FS_Subset, FS_CardinalityType, CountsAreFinite
<1> QED BY <1>1 DEF EntryBounds

LEMMA BoundShrinks ==
  ASSUME PoolTypeOK, PoolTypeOK', NEW k \in Keys, EntryBounds(k), pool[k] # None,
         boots'[k] = boots[k], DsOf(k)' \subseteq DsOf(k), Admins(k)' \subseteq Admins(k)
  PROVE  EntryBounds(k)'
<1>1. /\ Cardinality(DsOf(k)') \in Nat /\ Cardinality(Admins(k)') \in Nat
      /\ Cardinality(DsOf(k)') <= Cardinality(DsOf(k))
      /\ Cardinality(Admins(k)') <= Cardinality(Admins(k))
  BY CountsAreFinite, FS_Subset, FS_CardinalityType
<1>2. Cardinality(DsOf(k)') + Cardinality(Admins(k)') <= Cardinality(DsOf(k)) + Cardinality(Admins(k))
  BY <1>1, CountsAreFinite
<1> QED BY <1>2, BoundStays

(* A new DataSource of one key is none of another.                         *)
LEMMA ConstructCounts ==
  ASSUME PoolTypeOK, NEW c \in Calls, NEW j \in Keys, Construct(c, j),
         call[c].pc \in {"idle", "admin"}
  PROVE  /\ \A k \in Keys \ {j} : DsOf(k)' \subseteq DsOf(k)
         /\ \E d \in DataSources : d \notin DsOf(j) /\ DsOf(j)' = DsOf(j) \cup {d}
         /\ \A k \in Keys : Admins(k)' = Admins(k) \ {c}
<1>1. PICK d \in DataSources :
        /\ ds[d].state = "unused"
        /\ ds' = [ds EXCEPT ![d] = [key |-> j, state |-> "opening"]]
        /\ call' = [call EXCEPT ![c] = [pc |-> "opening", key |-> j, ds |-> d]]
  BY DEF Construct
<1>2. PICK p, e : /\ p = [pc |-> "opening", key |-> j, ds |-> d]
                  /\ e = [key |-> j, state |-> "opening"]
  OBVIOUS
<1>3. p.pc = "opening" /\ e.key = j /\ e.state = "opening"
  BY <1>2
<1>4. \A b \in Calls : call'[b] = IF b = c THEN p ELSE call[b]
  BY <1>1, <1>2 DEF PoolTypeOK
<1>5. \A x \in DataSources : ds'[x] = IF x = d THEN e ELSE ds[x]
  BY <1>1, <1>2 DEF PoolTypeOK
<1>6. \A k \in Keys : DsOf(k)' = DsOf(k) \cup ({d} \cap {x \in {d} : k = j})
  BY <1>1, <1>3, <1>5 DEF DsOf
<1>7. \A k \in Keys \ {j} : DsOf(k)' \subseteq DsOf(k)
  BY <1>6
<1>8. d \notin DsOf(j) /\ DsOf(j)' = DsOf(j) \cup {d}
  BY <1>1, <1>6 DEF DsOf
<1>9. \A k \in Keys : Admins(k)' = Admins(k) \ {c}
  BY <1>3, <1>4 DEF Admins
<1> QED BY <1>7, <1>8, <1>9

LEMMA OpenedCounts ==
  ASSUME PoolTypeOK, Structure, NEW c \in Calls, Opened(c), NEW k \in Keys
  PROVE  DsOf(k)' \subseteq DsOf(k)
<1>1. PICK d, e : d = call[c].ds /\ e = [ds[d] EXCEPT !.state = "open"]
  OBVIOUS
<1>2. d \in DataSources /\ ds[d].state = "opening"
  BY <1>1 DEF Opened, PoolTypeOK, Call, Structure, CallsHoldTheirs, CallOK
<1>3. e.key = ds[d].key
  BY <1>1, <1>2 DEF PoolTypeOK, Source
<1>4. \A x \in DataSources : ds'[x] = IF x = d THEN e ELSE ds[x]
  BY <1>1 DEF Opened, PoolTypeOK
<1> QED BY <1>2, <1>3, <1>4 DEF DsOf

LEMMA BoundOfStep ==
  ASSUME PoolTypeOK, PoolTypeOK', Structure, NEW c \in Calls, CallNext(c),
         NEW k \in Keys, EntryBounds(k), pool[k] # None
  PROVE  EntryBounds(k)'
<1>1. ASSUME NEW j \in Keys, GetCached(c, j) PROVE EntryBounds(k)'
  <2>1. PICK p : p = [pc |-> "using", key |-> j, ds |-> pool[j]]
    OBVIOUS
  <2>2. p.pc = "using"
    BY <2>1
  <2>3. call' = [call EXCEPT ![c] = p] /\ ds' = ds /\ boots' = boots
    BY <1>1, <2>1 DEF GetCached
  <2>4. Admins(k)' \subseteq Admins(k) /\ DsOf(k)' = DsOf(k)
    BY <2>2, <2>3 DEF Admins, DsOf, PoolTypeOK
  <2> QED BY <2>3, <2>4, BoundShrinks
<1>2. ASSUME NEW j \in Keys, GetUncached(c, j) PROVE EntryBounds(k)'
  <2>1. j # k
    <3>1. ds[pool[k]].state = "open"
      BY DEF Structure, EntriesAreOpen
    <3> QED BY <1>2, <3>1 DEF GetUncached, IsInitialized
  <2>2. Construct(c, j) /\ boots' = boots /\ call[c].pc = "idle"
    BY <1>2 DEF GetUncached
  <2>3. DsOf(k)' \subseteq DsOf(k) /\ Admins(k)' \subseteq Admins(k)
    BY <2>1, <2>2, ConstructCounts
  <2> QED BY <2>2, <2>3, BoundShrinks
<1>3. ASSUME NEW j \in Keys, BeginBootstrap(c, j) PROVE EntryBounds(k)'
  <2>1. PICK p : p = [pc |-> "admin", key |-> j, ds |-> None]
    OBVIOUS
  <2>2. p.pc = "admin" /\ p.key = j
    BY <2>1
  <2>3. /\ call' = [call EXCEPT ![c] = p] /\ ds' = ds /\ call[c].pc = "idle"
        /\ boots' = [boots EXCEPT ![j] = @ + 1]
    BY <1>3, <2>1 DEF BeginBootstrap
  <2>4. DsOf(k)' = DsOf(k)
    BY <2>3 DEF DsOf
  <2>5. CASE j # k
    <3>1. Admins(k)' \subseteq Admins(k) /\ boots'[k] = boots[k]
      BY <2>2, <2>3, <2>5 DEF Admins, PoolTypeOK
    <3> QED BY <2>4, <3>1, BoundShrinks
  <2>6. CASE j = k
    <3>1. Admins(k)' = Admins(k) \cup {c} /\ c \notin Admins(k)
      BY <2>2, <2>3, <2>6 DEF Admins, PoolTypeOK
    <3>2. Cardinality(Admins(k)') = Cardinality(Admins(k)) + 1
      BY <3>1, CountsAreFinite, FS_AddElement
    <3>3. boots'[k] = boots[k] + 1 /\ boots[k] \in Nat
      BY <2>3, <2>6, PoolAssumption DEF PoolTypeOK
    <3> QED BY <2>4, <3>2, <3>3, CountsAreFinite DEF EntryBounds
  <2> QED BY <2>5, <2>6
<1>4. CASE CreateSchema(c)
  <2>1. PICK j \in Keys : j = call[c].key
    BY DEF PoolTypeOK, Call
  <2>2. Construct(c, j) /\ boots' = boots /\ call[c].pc = "admin"
    BY <1>4, <2>1 DEF CreateSchema
  <2>3. CASE j # k
    <3>1. DsOf(k)' \subseteq DsOf(k) /\ Admins(k)' \subseteq Admins(k)
      BY <2>2, <2>3, ConstructCounts
    <3> QED BY <2>2, <3>1, BoundShrinks
  <2>4. CASE j = k
    <3>1. PICK d \in DataSources : d \notin DsOf(k) /\ DsOf(k)' = DsOf(k) \cup {d}
      BY <2>2, <2>4, ConstructCounts
    <3>2. Admins(k)' = Admins(k) \ {c} /\ c \in Admins(k)
      BY <2>1, <2>2, <2>4, ConstructCounts DEF Admins
    <3>3. Cardinality(DsOf(k)') = Cardinality(DsOf(k)) + 1
      BY <3>1, CountsAreFinite, FS_AddElement
    <3>4. Cardinality(Admins(k)') = Cardinality(Admins(k)) - 1
      BY <3>2, CountsAreFinite, FS_RemoveElement
    <3>5. Cardinality(DsOf(k)') + Cardinality(Admins(k)') = Cardinality(DsOf(k)) + Cardinality(Admins(k))
      BY <3>3, <3>4, CountsAreFinite
    <3>6. Cardinality(DsOf(k)') + Cardinality(Admins(k)') <= Cardinality(DsOf(k)) + Cardinality(Admins(k))
      BY <3>5, CountsAreFinite
    <3> QED BY <2>2, <3>6, BoundStays
  <2> QED BY <2>3, <2>4
<1>5. CASE Opened(c)
  <2>1. PICK p : p = [call[c] EXCEPT !.pc = "using"]
    OBVIOUS
  <2>2. p.pc = "using"
    BY <2>1 DEF PoolTypeOK, Call
  <2>3. call' = [call EXCEPT ![c] = p] /\ boots' = boots
    BY <1>5, <2>1 DEF Opened
  <2>4. Admins(k)' \subseteq Admins(k)
    BY <2>2, <2>3 DEF Admins, PoolTypeOK
  <2>5. DsOf(k)' \subseteq DsOf(k)
    BY <1>5, OpenedCounts
  <2> QED BY <2>3, <2>4, <2>5, BoundShrinks
<1>6. CASE OpenFails(c)
  <2>1. PICK p : p = [call[c] EXCEPT !.pc = "idle", !.ds = None]
    OBVIOUS
  <2>2. p.pc = "idle"
    BY <2>1 DEF PoolTypeOK, Call
  <2>3. call' = [call EXCEPT ![c] = p] /\ boots' = boots
    BY <1>6, <2>1 DEF OpenFails
  <2>4. Admins(k)' \subseteq Admins(k)
    BY <2>2, <2>3 DEF Admins, PoolTypeOK
  <2>5. \A e \in Source : [e EXCEPT !.state = "closed"].state = "closed"
    BY DEF Source
  <2>6. \A d \in DataSources : ds'[d].state = "closed" \/ ds'[d] = ds[d]
    BY <1>6, <2>5 DEF OpenFails, PoolTypeOK
  <2>7. DsOf(k)' \subseteq DsOf(k)
    BY <2>6 DEF DsOf
  <2> QED BY <2>3, <2>4, <2>7, BoundShrinks
<1>7. CASE Release(c)
  <2>1. PICK p : p = [call[c] EXCEPT !.pc = "idle", !.ds = None]
    OBVIOUS
  <2>2. p.pc = "idle"
    BY <2>1 DEF PoolTypeOK, Call
  <2>3. call' = [call EXCEPT ![c] = p] /\ boots' = boots /\ ds' = ds
    BY <1>7, <2>1 DEF Release
  <2>4. Admins(k)' \subseteq Admins(k) /\ DsOf(k)' = DsOf(k)
    BY <2>2, <2>3 DEF Admins, DsOf, PoolTypeOK
  <2> QED BY <2>3, <2>4, BoundShrinks
<1> QED BY <1>1, <1>2, <1>3, <1>4, <1>5, <1>6, <1>7 DEF CallNext

LEMMA BoundCall ==
  ASSUME PoolTypeOK, PoolTypeOK', Structure, Structure', NEW c \in Calls, CallNext(c),
         NEW k \in Keys, EntryBounds(k)
  PROVE  EntryBounds(k)'
<1>1. CASE pool[k] # None
  BY <1>1, BoundOfStep
<1>2. CASE pool[k] = None /\ pool'[k] = None
  BY <1>2 DEF EntryBounds
<1>3. CASE pool[k] = None /\ pool'[k] # None
  <2>1. Opened(c)
    BY <1>3 DEF CallNext, GetCached, GetUncached, BeginBootstrap, CreateSchema, OpenFails, Release
  <2>2. DsOf(k)' \subseteq DsOf(k)
    BY <2>1, OpenedCounts
  <2>3. PICK p : p = [call[c] EXCEPT !.pc = "using"]
    OBVIOUS
  <2>4. p.pc = "using"
    BY <2>3 DEF PoolTypeOK, Call
  <2>5. call' = [call EXCEPT ![c] = p] /\ boots' = boots
    BY <2>1, <2>3 DEF Opened
  <2>6. Admins(k)' \subseteq Admins(k)
    BY <2>4, <2>5 DEF Admins, PoolTypeOK
  <2>7. /\ Cardinality(DsOf(k)') <= Cardinality(DsOf(k)) /\ Cardinality(DsOf(k)') \in Nat
        /\ Cardinality(Admins(k)') <= Cardinality(Admins(k)) /\ Cardinality(Admins(k)') \in Nat
    BY <2>2, <2>6, CountsAreFinite, FS_Subset, FS_CardinalityType
  <2>8. Cardinality(DsOf(k)) + Cardinality(Admins(k)) <= Cardinality(Calls)
    BY <1>3, OpenersAreEnough
  <2>9. boots'[k] \in Nat
    BY PoolAssumption DEF PoolTypeOK
  <2> QED BY <2>7, <2>8, <2>9, CountsAreFinite DEF EntryBounds
<1> QED BY <1>1, <1>2, <1>3

-----------------------------------------------------------------------------
LEMMA PoolStarts == PoolInit => PoolInv
<1> SUFFICES ASSUME PoolInit PROVE PoolInv
  OBVIOUS
<1>1. PoolTypeOK
  BY TypeInit
<1>2. /\ \A c \in Calls : call[c].pc = "idle"
      /\ \A d \in DataSources : ds[d].state = "unused"
      /\ \A k \in Keys : pool[k] = None
  BY DEF PoolInit
<1>3. Structure
  BY <1>2 DEF Structure, EntriesAreOpen, CallsHoldTheirs, CallOK, NoneOpensTwice,
              SourcesAreKnown, SourceOK
<1>4. \A k \in Keys : EntryBounds(k)
  BY <1>2 DEF EntryBounds
<1> QED BY <1>1, <1>3, <1>4 DEF PoolInv, UpInv

LEMMA PoolStep == PoolInv /\ [PoolNext]_poolVars => PoolInv'
<1> SUFFICES ASSUME PoolInv, [PoolNext]_poolVars PROVE PoolInv'
  OBVIOUS
<1>1. PoolTypeOK /\ PoolTypeOK'
  BY TypeNext DEF PoolInv
<1>2. SUFFICES ASSUME closing'.pc = "up" PROVE UpInv'
  BY <1>1 DEF PoolInv
<1>3. CASE UNCHANGED poolVars
  BY <1>1, <1>2, <1>3 DEF PoolInv, UpInv, Structure, EntriesAreOpen, CallsHoldTheirs, CallOK,
     NoneOpensTwice, SourcesAreKnown, SourceOK, EntryBounds, DsOf, Admins, poolVars
<1>4. ASSUME NEW c \in Calls, CallNext(c) PROVE UpInv'
  <2>1. UpInv
    BY <1>1, <1>2, <1>4, TypeCall DEF PoolInv
  <2>2. Structure'
    BY <1>1, <1>4, <2>1, StructureCall DEF UpInv
  <2> QED BY <1>1, <1>4, <2>1, <2>2, BoundCall DEF UpInv
<1> QED BY <1>1, <1>2, <1>3, <1>4, TypeShutdown DEF PoolNext

LEMMA PoolInductive == PoolSpec => []PoolInv
BY PoolStarts, PoolStep, PTL DEF PoolSpec

(* Until the shutdown no request holds a closed DataSource, although other *)
(* requests and bootstraps replace the entry it was given                  *)
(* (getDataSourceForCompany, bootstrapTenantSchema).                       *)
THEOREM RequestsKeepTheirs == PoolSpec => []NoUseAfterClose
<1>1. PoolInv => NoUseAfterClose
  BY DEF PoolInv, UpInv, Structure, CallsHoldTheirs, CallOK, NoUseAfterClose
<1> QED BY <1>1, PoolInductive, PTL

(* However many requests come, fail and overlap, a schema has no more      *)
(* DataSources than there are calls at a time and bootstraps of it.        *)
THEOREM PoolsStayBounded == PoolSpec => []PoolsAreBounded
<1>1. PoolInv => PoolsAreBounded
  <2> SUFFICES ASSUME PoolInv, closing.pc = "up", NEW k \in Keys
               PROVE  Cardinality(DsOf(k)) <= Cardinality(Calls) + boots[k]
    BY DEF PoolsAreBounded
  <2>1. PoolTypeOK /\ Structure /\ EntryBounds(k) /\ boots[k] \in Nat
    BY PoolAssumption DEF PoolInv, UpInv, PoolTypeOK
  <2>2. CASE pool[k] = None
    BY <2>1, <2>2, OpenersAreEnough, CountsAreFinite
  <2>3. CASE pool[k] # None
    BY <2>1, <2>3, CountsAreFinite DEF EntryBounds
  <2> QED BY <2>2, <2>3
<1> QED BY <1>1, PoolInductive, PTL
=============================================================================
