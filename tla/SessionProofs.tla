---------------------------- MODULE SessionProofs ----------------------------
(***************************************************************************)
(* The kill switch of the session store, for any number of sessions,       *)
(* requests and ticks, and every pair of TTLs with AccessTtl <= SessionTtl.*)
(***************************************************************************)
EXTENDS Sessions, TLAPS

LEMMA SessionTypeInit == SessionInit => SessionTypeOK
BY DEF SessionInit, SessionTypeOK, Sweep

LEMMA SessionTypeNext == SessionTypeOK /\ [SessionNext]_sessionVars => SessionTypeOK'
<1> SUFFICES ASSUME SessionTypeOK, [SessionNext]_sessionVars PROVE SessionTypeOK'
  OBVIOUS
<1> USE TtlAssumption DEF SessionTypeOK
<1>0. IndexMembers \subseteq Sids
  BY DEF IndexMembers
<1>a. ASSUME NEW r \in Requests, NEW step \in {"idle", "get", "touch", "find", "erase"},
             RequestGoto(r, step)
      PROVE  request' \in [Requests -> Request]
  BY <1>a DEF RequestGoto, Request
<1>1. ASSUME NEW s \in Sids, Create(s) PROVE SessionTypeOK'
  <2>1. sweep' \in [Sweeps -> Sweep]
    BY <1>1 DEF Create, NoteLogin, Sweep
  <2> QED BY <1>0, <1>1, <2>1 DEF Create
<1>2. ASSUME NEW r \in Requests, NEW s \in Sids, NEW op \in {"use", "logout"},
             BeginRequest(r, s, op)
      PROVE  SessionTypeOK'
  BY <1>2 DEF BeginRequest, Request
<1>3. ASSUME NEW r \in Requests, GetSession(r) \/ RequestFails(r) PROVE SessionTypeOK'
  BY <1>3, <1>a DEF GetSession, RequestFails
<1>4. ASSUME NEW r \in Requests, Touch(r) PROVE SessionTypeOK'
  <2>1. request' \in [Requests -> Request]
    BY <1>4, <1>a DEF Touch, AfterTouch
  <2>2. sess' \in [Sids -> Nat]
    BY <1>4 DEF Touch, Request
  <2> QED BY <1>4, <2>1, <2>2 DEF Touch
<1>5. ASSUME NEW r \in Requests, FindSession(r) PROVE SessionTypeOK'
  <2> DEFINE q == [[request[r] EXCEPT !.pc = "erase"] EXCEPT !.found = Live(request[r].sid)]
  <2>1. Live(request[r].sid) \in BOOLEAN
    BY DEF Live
  <2>2. request[r] \in Request
    OBVIOUS
  <2>3. q \in Request
    BY <2>1, <2>2 DEF Request
  <2>4. request' = [request EXCEPT ![r] = q]
    BY <1>5 DEF FindSession
  <2> QED BY <1>5, <2>3, <2>4 DEF FindSession
<1>6. ASSUME NEW r \in Requests, Destroy(r) PROVE SessionTypeOK'
  <2>1. request' \in [Requests -> Request]
    BY <1>6, <1>a DEF Destroy
  <2>2. index' \in [sids : SUBSET Sids, exp : Nat]
    BY <1>6 DEF Destroy
  <2>3. sess' \in [Sids -> Nat]
    BY <1>6 DEF Destroy, Request
  <2> QED BY <1>6, <2>1, <2>2, <2>3 DEF Destroy
<1>7. ASSUME NEW d \in Sweeps, ListSessions(d) PROVE SessionTypeOK'
  BY <1>0, <1>7 DEF ListSessions, Sweep
<1>8. ASSUME NEW d \in Sweeps, DestroyAll(d) PROVE SessionTypeOK'
  BY <1>8 DEF DestroyAll, Sweep
<1>9. ASSUME NEW d \in Sweeps, SweepFails(d) PROVE SessionTypeOK'
  BY <1>9 DEF SweepFails, Sweep
<1>10. CASE Tick
  BY <1>10 DEF Tick
<1>11. CASE UNCHANGED sessionVars
  BY <1>11 DEF sessionVars
<1> QED
  BY <1>1, <1>2, <1>3, <1>4, <1>5, <1>6, <1>7, <1>8, <1>9, <1>10, <1>11
  DEF SessionNext, RequestNext, SweepNext

(* Every variable has its type.                                            *)
THEOREM SessionTypes == SessionSpec => []SessionTypeOK
BY SessionTypeInit, SessionTypeNext, PTL DEF SessionSpec

-----------------------------------------------------------------------------
(* Only a login makes a session usable; a touch keeps it so.               *)
LEMMA NotRevived ==
  ASSUME SessionTypeOK, [SessionNext]_sessionVars, NEW s \in Sids, token[s] # 0
  PROVE  token'[s] = token[s] /\ (Usable(s)' => Usable(s))
<1> USE TtlAssumption DEF SessionTypeOK, Usable, Live
<1>1. ASSUME NEW t \in Sids, Create(t) PROVE token'[s] = token[s] /\ (Usable(s)' => Usable(s))
  BY <1>1 DEF Create
<1>2. ASSUME NEW r \in Requests, RequestNext(r)
      PROVE  token'[s] = token[s] /\ (Usable(s)' => Usable(s))
  <2>1. now' = now /\ token' = token
    BY <1>2 DEF RequestNext, BeginRequest, GetSession, Touch, FindSession, Destroy,
       RequestFails
  <2>2. CASE UNCHANGED sess
    BY <2>1, <2>2
  <2>3. CASE Touch(r)
    <3>1. request[r].sid \in Sids
      BY DEF Request
    <3> QED BY <2>1, <2>3, <3>1 DEF Touch
  <2>4. CASE Destroy(r)
    BY <2>1, <2>4 DEF Destroy
  <2> QED BY <1>2, <2>2, <2>3, <2>4 DEF RequestNext, BeginRequest, GetSession,
             FindSession, RequestFails
<1>3. ASSUME NEW d \in Sweeps, SweepNext(d)
      PROVE  token'[s] = token[s] /\ (Usable(s)' => Usable(s))
  BY <1>3 DEF SweepNext, ListSessions, DestroyAll, SweepFails
<1>4. CASE Tick
  BY <1>4 DEF Tick
<1>5. CASE UNCHANGED sessionVars
  BY <1>5 DEF sessionVars
<1> QED BY <1>1, <1>2, <1>3, <1>4, <1>5 DEF SessionNext

(* A session that has ended never works again, whatever requests and       *)
(* sweeps are in progress.                                                 *)
THEOREM EndedStaysEnded == SessionSpec => NoResurrection
<1>1. SessionTypeOK /\ [SessionNext]_sessionVars
        => [\A s \in Sids : token[s] # 0 /\ ~Usable(s) => ~Usable(s)']_sessionVars
  BY NotRevived
<1> QED BY <1>1, SessionTypes, PTL DEF SessionSpec, NoResurrection

-----------------------------------------------------------------------------
(* The set knows every usable session that no sweep has missed, and        *)
(* outlives its token, although touches never extend the set's expiry.     *)
SetCoversUsable ==
  \A s \in Sids : Usable(s) /\ s \notin Missed =>
    s \in index.sids /\ token[s] <= index.exp

(* A sweep between its SMEMBERS and its MULTI: what it does not have was   *)
(* created since, or missed before.                                        *)
SweepKnows(d) ==
  sweep[d].pc = "erase" =>
    /\ \A s \in Sids : Usable(s) => s \in sweep[d].listed \cup sweep[d].during \cup Missed
    /\ \A s \in sweep[d].before : Usable(s) => s \in sweep[d].listed \cup Missed

SweepInv ==
  /\ SessionTypeOK
  /\ \A s \in Sids : token[s] <= now + AccessTtl
  /\ SetCoversUsable
  /\ \A d \in Sweeps : \A s \in sweep[d].before \cup sweep[d].during : token[s] # 0
  /\ \A d \in Sweeps : SweepKnows(d)
  /\ LogoutEverywhere

LEMMA SweepInit == SessionInit => SweepInv
<1>1. SessionInit => SessionTypeOK
  BY SessionTypeInit
<1>2. ASSUME SessionInit, NEW s \in Sids PROVE ~Usable(s)
  <2>1. now = 0 /\ sess[s] = 0
    BY <1>2 DEF SessionInit
  <2> QED BY <2>1 DEF Usable, Live
<1> QED BY <1>1, <1>2, TtlAssumption
        DEF SessionInit, SweepInv, SetCoversUsable, SweepKnows, LogoutEverywhere

(* A step that changes no sweep, makes no session usable and keeps in the  *)
(* set what is usable.                                                     *)
LEMMA SweepUntouched ==
  ASSUME SweepInv, SessionTypeOK', sweep' = sweep,
         \A s \in Sids : token'[s] = token[s] /\ (Usable(s)' => Usable(s)), now' >= now,
         SetCoversUsable'
  PROVE  SweepInv'
<1>1. Missed' = Missed
  BY DEF Missed
<1>2. \A d \in Sweeps : \A s \in sweep[d].before \cup sweep[d].during : s \in Sids
  BY DEF SweepInv, SessionTypeOK, Sweep
<1>3. \A s \in Sids : token'[s] <= now' + AccessTtl
  BY TtlAssumption DEF SweepInv, SessionTypeOK
<1>4. ASSUME NEW d \in Sweeps PROVE SweepKnows(d)'
  BY <1>1, <1>2 DEF SweepKnows, SweepInv
<1>5. LogoutEverywhere'
  BY <1>1, <1>2 DEF SweepInv, LogoutEverywhere
<1> QED BY <1>2, <1>3, <1>4, <1>5 DEF SweepInv

LEMMA CreateKeepsSweeps == ASSUME SweepInv, SessionTypeOK', NEW t \in Sids, Create(t) PROVE SweepInv'
<1> USE TtlAssumption
<1>0. /\ now \in Nat /\ sess \in [Sids -> Nat] /\ token \in [Sids -> Nat]
      /\ index \in [sids : SUBSET Sids, exp : Nat] /\ sweep \in [Sweeps -> Sweep]
      /\ \A s \in Sids : token[s] <= now + AccessTtl
  BY DEF SessionTypeOK, SweepInv
<1>1. /\ token[t] = 0 /\ now' = now
      /\ \A s \in Sids \ {t} : token'[s] = token[s] /\ (Usable(s)' <=> Usable(s))
      /\ token'[t] = now + AccessTtl /\ token'[t] # 0
  BY <1>0 DEF Create, Usable, Live
<1>2. \A d \in Sweeps : /\ sweep'[d].pc = sweep[d].pc /\ sweep'[d].listed = sweep[d].listed
                        /\ sweep'[d].before = sweep[d].before
                        /\ sweep'[d].during = IF sweep[d].pc = "erase"
                             THEN sweep[d].during \cup {t} ELSE sweep[d].during
  BY <1>0 DEF Create, NoteLogin, Sweep
<1>3. Missed' = Missed
  BY <1>2 DEF Missed
<1>4. \A d \in Sweeps : t \notin sweep[d].before \cup sweep[d].during
  BY <1>1 DEF SweepInv
<1>5. SetCoversUsable'
  <2> SUFFICES ASSUME NEW s \in Sids, Usable(s)', s \notin Missed
               PROVE  s \in index'.sids /\ token'[s] <= index'.exp
    BY <1>3 DEF SetCoversUsable
  <2>1. CASE s = t
    BY <1>0, <1>1, <2>1 DEF Create
  <2>2. CASE s # t
    <3>1. Usable(s) /\ token'[s] = token[s] /\ now < token[s]
      BY <1>0, <1>1, <2>2 DEF Usable
    <3>2. s \in index.sids /\ now < index.exp
      BY <1>0, <3>1 DEF SetCoversUsable, SweepInv
    <3> QED BY <1>0, <3>1, <3>2 DEF Create, IndexMembers
  <2> QED BY <2>1, <2>2
<1>6. \A s \in Sids : token'[s] <= now' + AccessTtl
  BY <1>0, <1>1
<1>7. ASSUME NEW d \in Sweeps, NEW s \in sweep'[d].before \cup sweep'[d].during
      PROVE  token'[s] # 0
  <2>1. s = t \/ (s \in sweep[d].before \cup sweep[d].during /\ s \in Sids)
    BY <1>0, <1>2 DEF Sweep
  <2>2. CASE s = t
    BY <1>1, <2>2
  <2>3. CASE s # t
    BY <1>1, <2>1, <2>3 DEF SweepInv
  <2> QED BY <2>2, <2>3
<1>8. ASSUME NEW d \in Sweeps PROVE SweepKnows(d)'
  <2>0. SUFFICES ASSUME sweep[d].pc = "erase" PROVE SweepKnows(d)'
    BY <1>2 DEF SweepKnows
  <2>1. sweep[d].before \subseteq Sids \ {t} /\ sweep'[d].during = sweep[d].during \cup {t}
    BY <1>0, <1>2, <1>4, <2>0 DEF Sweep
  <2>2. \A s \in Sids \ {t} :
          Usable(s)' => s \in sweep[d].listed \cup sweep[d].during \cup Missed
    BY <1>1, <2>0 DEF SweepKnows, SweepInv
  <2>3. \A s \in sweep[d].before : Usable(s)' => s \in sweep[d].listed \cup Missed
    BY <1>1, <2>0, <2>1 DEF SweepKnows, SweepInv
  <2> QED BY <1>2, <1>3, <2>1, <2>2, <2>3 DEF SweepKnows
<1>9. LogoutEverywhere'
  <2>1. \A d \in Sweeps : sweep[d].before \subseteq Sids
    BY <1>0 DEF Sweep
  <2> QED BY <1>1, <1>2, <1>3, <1>4, <2>1 DEF LogoutEverywhere, SweepInv
<1> QED BY <1>5, <1>6, <1>7, <1>8, <1>9 DEF SweepInv

LEMMA RequestKeepsSweeps ==
  ASSUME SweepInv, SessionTypeOK', [SessionNext]_sessionVars, NEW r \in Requests, RequestNext(r) PROVE SweepInv'
<1> USE TtlAssumption
<1>0. /\ now \in Nat /\ sess \in [Sids -> Nat] /\ token \in [Sids -> Nat]
      /\ index \in [sids : SUBSET Sids, exp : Nat] /\ request \in [Requests -> Request]
      /\ SessionTypeOK
  BY DEF SessionTypeOK, SweepInv
<1>1. now' = now /\ token' = token /\ sweep' = sweep
  BY DEF RequestNext, BeginRequest, GetSession, Touch, FindSession, Destroy, RequestFails
<1>2. Missed' = Missed
  BY <1>1 DEF Missed
<1>3. \A s \in Sids : token'[s] = token[s] /\ (Usable(s)' => Usable(s))
  <2>1. ASSUME NEW s \in Sids, Usable(s)' PROVE token[s] # 0
    BY <1>0, <1>1, <2>1 DEF Usable
  <2> QED BY <1>0, <1>1, <2>1, NotRevived
<1>4. CASE index' = index
  BY <1>0, <1>1, <1>2, <1>3, <1>4, SweepUntouched DEF SetCoversUsable, SweepInv
<1>5. CASE Destroy(r)
  <2>1. PICK t \in Sids : t = request[r].sid
    BY <1>0 DEF Request
  <2>2. ~Usable(t)'
    <3>1. sess'[t] = 0
      BY <1>0, <1>5, <2>1 DEF Destroy
    <3> QED BY <1>0, <1>1, <3>1 DEF Usable, Live
  <2>3. /\ index'.exp = index.exp
        /\ \A s \in Sids : s # t /\ s \in index.sids => s \in index'.sids
    BY <1>0, <1>5, <2>1 DEF Destroy
  <2>4. SetCoversUsable'
    BY <1>1, <1>2, <1>3, <2>2, <2>3 DEF SetCoversUsable, SweepInv
  <2> QED BY <1>0, <1>1, <1>3, <2>4, SweepUntouched
<1> QED BY <1>4, <1>5 DEF RequestNext, BeginRequest, GetSession, Touch, FindSession, RequestFails

LEMMA ListKeepsSweeps == ASSUME SweepInv, SessionTypeOK', NEW d \in Sweeps, ListSessions(d) PROVE SweepInv'
<1>0. /\ now \in Nat /\ sess \in [Sids -> Nat] /\ token \in [Sids -> Nat]
      /\ index \in [sids : SUBSET Sids, exp : Nat] /\ sweep \in [Sweeps -> Sweep]
  BY DEF SessionTypeOK, SweepInv
<1>1. /\ sweep[d].pc = "ready" /\ sweep'[d].before = {s \in Sids : Usable(s)}
      /\ sweep'[d].listed = IndexMembers /\ sweep'[d].during = {}
      /\ sweep'[d].pc = IF IndexMembers = {} THEN "done" ELSE "erase"
      /\ \A e \in Sweeps \ {d} : sweep'[e] = sweep[e]
      /\ UNCHANGED <<now, sess, token, index>>
  BY <1>0 DEF ListSessions
<1>2. Missed' = Missed
  BY <1>1 DEF Missed
<1>3. \A s \in Sids : Usable(s)' = Usable(s)
  BY <1>1 DEF Usable, Live
<1>4. {s \in Sids : Usable(s)} \subseteq IndexMembers \cup Missed
  BY <1>0 DEF SetCoversUsable, IndexMembers, Usable, SweepInv
<1>5. SetCoversUsable'
  BY <1>1, <1>2, <1>3 DEF SetCoversUsable, SweepInv
<1>6. \A s \in Sids : Usable(s) => token[s] # 0
  BY <1>0 DEF Usable
<1>7. \A e \in Sweeps : \A s \in sweep'[e].before \cup sweep'[e].during : token'[s] # 0
  BY <1>1, <1>6 DEF SweepInv
<1>8. \A e \in Sweeps : sweep[e].before \subseteq Sids
  BY <1>0 DEF Sweep
<1>9. ASSUME NEW e \in Sweeps PROVE SweepKnows(e)'
  <2>1. CASE e = d
    BY <1>1, <1>2, <1>3, <1>4, <2>1 DEF SweepKnows
  <2>2. CASE e # d
    BY <1>1, <1>2, <1>3, <1>8, <2>2 DEF SweepKnows, SweepInv
  <2> QED BY <2>1, <2>2
<1>10. LogoutEverywhere'
  <2> SUFFICES ASSUME NEW e \in Sweeps, sweep'[e].pc = "done", NEW s \in sweep'[e].before, Usable(s)'
               PROVE  s \in Missed
    BY <1>2 DEF LogoutEverywhere
  <2>1. CASE e = d
    BY <1>1, <1>4, <2>1
  <2>2. CASE e # d
    BY <1>1, <1>3, <1>8, <2>2 DEF LogoutEverywhere, SweepInv
  <2> QED BY <2>1, <2>2
<1> QED BY <1>1, <1>5, <1>7, <1>9, <1>10 DEF SweepInv

LEMMA DestroyAllKeepsSweeps ==
  ASSUME SweepInv, SessionTypeOK', NEW d \in Sweeps, DestroyAll(d) PROVE SweepInv'
<1>0. /\ now \in Nat /\ sess \in [Sids -> Nat] /\ token \in [Sids -> Nat]
      /\ index \in [sids : SUBSET Sids, exp : Nat] /\ sweep \in [Sweeps -> Sweep]
  BY DEF SessionTypeOK, SweepInv
<1>1. /\ sweep[d].pc = "erase" /\ now' = now /\ token' = token
      /\ sess' = [s \in Sids |-> IF s \in sweep[d].listed THEN 0 ELSE sess[s]]
      /\ sweep' = [sweep EXCEPT ![d].pc = "done", ![d].listed = {}]
  BY DEF DestroyAll
<1>2. /\ sweep'[d].pc = "done" /\ sweep'[d].before = sweep[d].before
      /\ sweep'[d].during = sweep[d].during
      /\ \A e \in Sweeps \ {d} : sweep'[e] = sweep[e]
  BY <1>0, <1>1 DEF Sweep
<1>3. Missed' = Missed \cup sweep[d].during
  <2>1. sweep[d].during \subseteq Sids
    BY <1>0 DEF Sweep
  <2>2. \A s \in Sids : s \in Missed' <=> s \in Missed \/ s \in sweep[d].during
    BY <1>1, <1>2 DEF Missed
  <2>3. Missed \subseteq Sids /\ Missed' \subseteq Sids
    BY DEF Missed
  <2> QED BY <2>1, <2>2, <2>3
<1>4. \A s \in Sids : Usable(s)' => Usable(s) /\ s \notin sweep[d].listed
  BY <1>0, <1>1 DEF Usable, Live
<1>5. \A s \in Sids : Usable(s)' => s \in Missed'
  BY <1>1, <1>3, <1>4 DEF SweepInv, SweepKnows
<1>6. \A e \in Sweeps : sweep[e].before \subseteq Sids
  BY <1>0 DEF Sweep
<1>7. SetCoversUsable'
  BY <1>5 DEF SetCoversUsable
<1>8. \A e \in Sweeps : \A s \in sweep'[e].before \cup sweep'[e].during : token'[s] # 0
  BY <1>1, <1>2 DEF SweepInv
<1>9. \A e \in Sweeps : SweepKnows(e)'
  BY <1>2, <1>5, <1>6 DEF SweepKnows
<1>10. LogoutEverywhere'
  BY <1>2, <1>5, <1>6 DEF LogoutEverywhere
<1> QED BY <1>1, <1>7, <1>8, <1>9, <1>10 DEF SweepInv

LEMMA FailKeepsSweeps == ASSUME SweepInv, SessionTypeOK', NEW d \in Sweeps, SweepFails(d) PROVE SweepInv'
<1>0. sweep \in [Sweeps -> Sweep]
  BY DEF SessionTypeOK, SweepInv
<1>1. /\ sweep[d].pc # "done" /\ sweep'[d].pc = "failed"
      /\ sweep'[d].before = {} /\ sweep'[d].during = {}
      /\ \A e \in Sweeps \ {d} : sweep'[e] = sweep[e]
      /\ UNCHANGED <<now, sess, token, index>>
  BY <1>0 DEF SweepFails
<1>2. Missed' = Missed
  BY <1>1 DEF Missed
<1>3. \A s \in Sids : Usable(s)' = Usable(s)
  BY <1>1 DEF Usable, Live
<1>4. \A e \in Sweeps : sweep[e].before \subseteq Sids
  BY <1>0 DEF Sweep
<1>5. SetCoversUsable' /\ \A e \in Sweeps : SweepKnows(e)'
  BY <1>1, <1>2, <1>3, <1>4 DEF SetCoversUsable, SweepKnows, SweepInv
<1>6. LogoutEverywhere'
  BY <1>1, <1>2, <1>3, <1>4 DEF LogoutEverywhere, SweepInv
<1> QED BY <1>1, <1>5, <1>6 DEF SweepInv

LEMMA SweepStep == SweepInv /\ [SessionNext]_sessionVars => SweepInv'
<1> SUFFICES ASSUME SweepInv, [SessionNext]_sessionVars PROVE SweepInv'
  OBVIOUS
<1>0. SessionTypeOK /\ SessionTypeOK'
  BY SessionTypeNext DEF SweepInv
<1>1. CASE Tick
  <2>1. \A s \in Sids : Usable(s)' => Usable(s)
    BY <1>0, <1>1 DEF SessionTypeOK, Tick, Usable, Live
  <2>2. SetCoversUsable'
    BY <1>1, <2>1 DEF Tick, SetCoversUsable, Missed, SweepInv
  <2> QED BY <1>0, <1>1, <2>1, <2>2, SweepUntouched DEF Tick, SessionTypeOK
<1>2. CASE UNCHANGED sessionVars
  BY <1>0, <1>2, SweepUntouched DEF sessionVars, SetCoversUsable, Usable, Live, Missed, SweepInv, SessionTypeOK
<1> QED BY <1>0, <1>1, <1>2, CreateKeepsSweeps, RequestKeepsSweeps, ListKeepsSweeps,
           DestroyAllKeepsSweeps, FailKeepsSweeps DEF SessionNext, SweepNext

(* However many calls of destroyAllForUser overlap or follow one another,  *)
(* each has ended, when it returns, every session that could be used when  *)
(* it began, but for the logins that an earlier or overlapping one missed  *)
(* between its SMEMBERS and its MULTI.                                     *)
THEOREM SweepReachesAll == SessionSpec => []LogoutEverywhere
<1>1. SweepInv => LogoutEverywhere
  BY DEF SweepInv
<1> QED BY <1>1, SweepInit, SweepStep, PTL DEF SessionSpec
=============================================================================
