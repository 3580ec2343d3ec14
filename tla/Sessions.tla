------------------------------ MODULE Sessions ------------------------------
(***************************************************************************)
(* SessionService and JwtStrategy for the sessions of one user.  A login   *)
(* writes sess:<sid> and adds the sid to the set sess:user:<id>, both with *)
(* the session TTL; requests slide the TTL of the former only.  The JWT of *)
(* a session has a TTL of its own and is never renewed.  Time is Redis and *)
(* JWT time in one coarse clock; a key is absent from its expiry on.       *)
(***************************************************************************)
EXTENDS Naturals

CONSTANTS
  Sids,        \* session ids (uuid: each is created once)
  Requests,    \* authenticated requests in progress at the same time
  Sweeps,      \* calls of destroyAllForUser
  SessionTtl,  \* SESSION_TTL
  AccessTtl,   \* JWT_ACCESS_TTL
  MaxTime      \* bound on the clock

(* The defaults are 15m and 7d; nothing in the configuration enforces it.  *)
ASSUME TtlAssumption ==
  /\ AccessTtl \in Nat \ {0} /\ SessionTtl \in Nat
  /\ AccessTtl <= SessionTtl
  /\ MaxTime \in Nat

VARIABLES
  now,
  sess,     \* expiry of sess:<sid>; 0 when there is no key
  token,    \* expiry of the session's JWT; 0 before the login
  index,    \* sess:user:<id>: its members and its expiry
  request,  \* JwtStrategy.validate and, for a logout, destroy
  sweep     \* destroyAllForUser

sessionVars == <<now, sess, token, index, request, sweep>>

Request == [pc : {"idle", "get", "touch", "find", "erase"}, sid : Sids,
            op : {"use", "logout"}, found : BOOLEAN]

(* Not in the code, the property speaks of them: before, the sessions that *)
(* were usable when the sweep listed the set; during, the logins between   *)
(* its SMEMBERS and its MULTI.                                             *)
Sweep == [pc : {"ready", "erase", "done", "failed"}, listed : SUBSET Sids,
          before : SUBSET Sids, during : SUBSET Sids]

Live(s) == now < sess[s]
Usable(s) == Live(s) /\ now < token[s]
IndexMembers == IF now < index.exp THEN index.sids ELSE {}

SessionTypeOK ==
  /\ now \in Nat
  /\ sess \in [Sids -> Nat]
  /\ token \in [Sids -> Nat]
  /\ index \in [sids : SUBSET Sids, exp : Nat]
  /\ request \in [Requests -> Request]
  /\ sweep \in [Sweeps -> Sweep]

SessionInit ==
  /\ now = 0
  /\ sess = [s \in Sids |-> 0]
  /\ token = [s \in Sids |-> 0]
  /\ index = [sids |-> {}, exp |-> 0]
  /\ request \in [Requests -> {q \in Request : q.pc = "idle" /\ q.op = "use" /\ ~q.found}]
  /\ sweep = [d \in Sweeps |-> [pc |-> "ready", listed |-> {}, before |-> {}, during |-> {}]]

-----------------------------------------------------------------------------
NoteLogin(s) ==
  sweep' = [d \in Sweeps |-> IF sweep[d].pc = "erase"
                               THEN [sweep[d] EXCEPT !.during = @ \cup {s}] ELSE sweep[d]]

(* Mutant: the set keeps the expiry of the first login (EXPIRE NX).        *)
CreateKeepingExpiry(s) ==
  /\ token[s] = 0
  /\ sess' = [sess EXCEPT ![s] = now + SessionTtl]
  /\ token' = [token EXCEPT ![s] = now + AccessTtl]
  /\ index' = IF now < index.exp THEN [index EXCEPT !.sids = @ \cup {s}]
              ELSE [sids |-> {s}, exp |-> now + SessionTtl]
  /\ NoteLogin(s)
  /\ UNCHANGED <<now, request>>

(* create is one MULTI; the JWT is signed right after it, within a tick.   *)
Create(s) ==
  /\ token[s] = 0
  /\ sess' = [sess EXCEPT ![s] = now + SessionTtl]
  /\ token' = [token EXCEPT ![s] = now + AccessTtl]
  /\ index' = [sids |-> IndexMembers \cup {s}, exp |-> now + SessionTtl]
  /\ NoteLogin(s)
  /\ UNCHANGED <<now, request>>

-----------------------------------------------------------------------------
RequestGoto(r, step) == request' = [request EXCEPT ![r].pc = step]

(* Passport has checked signature and expiry when validate is called.      *)
BeginRequest(r, s, op) ==
  /\ request[r].pc = "idle"
  /\ now < token[s]
  /\ request' = [request EXCEPT ![r] = [pc |-> "get", sid |-> s, op |-> op,
                                        found |-> FALSE]]
  /\ UNCHANGED <<now, sess, token, index, sweep>>

(* No key: 401.                                                            *)
GetSession(r) ==
  /\ request[r].pc = "get"
  /\ RequestGoto(r, IF Live(request[r].sid) THEN "touch" ELSE "idle")
  /\ UNCHANGED <<now, sess, token, index, sweep>>

AfterTouch(r) == RequestGoto(r, IF request[r].op = "logout" THEN "find" ELSE "idle")

(* Mutant: touch writes the session again instead of expiring its key.     *)
TouchBySet(r) ==
  /\ request[r].pc = "touch"
  /\ sess' = [sess EXCEPT ![request[r].sid] = now + SessionTtl]
  /\ AfterTouch(r)
  /\ UNCHANGED <<now, token, index, sweep>>

(* EXPIRE does nothing to a key that has gone since the GET.               *)
Touch(r) ==
  /\ request[r].pc = "touch"
  /\ sess' = IF Live(request[r].sid)
               THEN [sess EXCEPT ![request[r].sid] = now + SessionTtl]
               ELSE sess
  /\ AfterTouch(r)
  /\ UNCHANGED <<now, token, index, sweep>>

(* destroy: GET, then DEL and (if the payload was there) SREM in a MULTI.  *)
FindSession(r) ==
  /\ request[r].pc = "find"
  /\ request' = [request EXCEPT ![r].pc = "erase",
                                ![r].found = Live(request[r].sid)]
  /\ UNCHANGED <<now, sess, token, index, sweep>>

Destroy(r) ==
  /\ request[r].pc = "erase"
  /\ sess' = [sess EXCEPT ![request[r].sid] = 0]
  /\ index' = IF request[r].found
                THEN [index EXCEPT !.sids = @ \ {request[r].sid}] ELSE index
  /\ RequestGoto(r, "idle")
  /\ UNCHANGED <<now, token, sweep>>

(* Redis rejects a command, or the process dies.                           *)
RequestFails(r) ==
  /\ request[r].pc # "idle"
  /\ RequestGoto(r, "idle")
  /\ UNCHANGED <<now, sess, token, index, sweep>>

-----------------------------------------------------------------------------
(* destroyAllForUser: SMEMBERS, then one MULTI.                            *)
ListSessions(d) ==
  /\ sweep[d].pc = "ready"
  /\ sweep' = [sweep EXCEPT ![d] =
                 [pc     |-> IF IndexMembers = {} THEN "done" ELSE "erase",
                  listed |-> IndexMembers,
                  before |-> {s \in Sids : Usable(s)}, during |-> {}]]
  /\ UNCHANGED <<now, sess, token, index, request>>

(* Mutant: the set is expired into the past instead of deleted.            *)
DestroyAllByExpiring(d) ==
  /\ sweep[d].pc = "erase"
  /\ sess' = [s \in Sids |-> IF s \in sweep[d].listed THEN 0 ELSE sess[s]]
  /\ index' = [sids |-> {}, exp |-> now - 1]
  /\ sweep' = [sweep EXCEPT ![d].pc = "done", ![d].listed = {}]
  /\ UNCHANGED <<now, token, request>>

DestroyAll(d) ==
  /\ sweep[d].pc = "erase"
  /\ sess' = [s \in Sids |-> IF s \in sweep[d].listed THEN 0 ELSE sess[s]]
  /\ index' = [sids |-> {}, exp |-> 0]
  /\ sweep' = [sweep EXCEPT ![d].pc = "done", ![d].listed = {}]
  /\ UNCHANGED <<now, token, request>>

SweepFails(d) ==
  /\ sweep[d].pc \in {"ready", "erase"}
  /\ sweep' = [sweep EXCEPT ![d] = [pc |-> "failed", listed |-> {}, before |-> {}, during |-> {}]]
  /\ UNCHANGED <<now, sess, token, index, request>>

Tick ==
  /\ now < MaxTime
  /\ now' = now + 1
  /\ UNCHANGED <<sess, token, index, request, sweep>>

-----------------------------------------------------------------------------
RequestNext(r) ==
  \/ \E s \in Sids, op \in {"use", "logout"} : BeginRequest(r, s, op)
  \/ GetSession(r)
  \/ Touch(r)
  \/ FindSession(r)
  \/ Destroy(r)
  \/ RequestFails(r)

SweepNext(d) == ListSessions(d) \/ DestroyAll(d) \/ SweepFails(d)

SessionNext ==
  \/ \E s \in Sids : Create(s)
  \/ \E r \in Requests : RequestNext(r)
  \/ \E d \in Sweeps : SweepNext(d)
  \/ Tick

SessionSpec == SessionInit /\ [][SessionNext]_sessionVars

-----------------------------------------------------------------------------
(* A session that has ended, by logout, by a sweep or by expiry, never     *)
(* works again, although requests that saw it alive still touch it         *)
(* (JwtStrategy.validate, touch).                                          *)
NoResurrection ==
  [][\A s \in Sids : token[s] # 0 /\ ~Usable(s) => ~Usable(s)']_sessionVars

(* The logins that a finished sweep took out of the set without ending     *)
(* them.                                                                   *)
Missed == {s \in Sids : \E d \in Sweeps : sweep[d].pc = "done" /\ s \in sweep[d].during}

(* When destroyAllForUser has returned, no session that could be used when *)
(* it began can be used any more, for any number of sweeps that overlap or *)
(* follow one another, but for the logins that an earlier or overlapping   *)
(* sweep has missed.                                                       *)
LogoutEverywhere ==
  \A d \in Sweeps : sweep[d].pc = "done" =>
    \A s \in sweep[d].before : Usable(s) => s \in Missed

(* "Logout everywhere - used after password change or log out all devices" *)
(* (the comment of destroyAllForUser), without that exception: the code    *)
(* does not do so.                                                         *)
LogoutReachesAll ==
  \A d \in Sweeps : sweep[d].pc = "done" => \A s \in sweep[d].before : ~Usable(s)
=============================================================================
