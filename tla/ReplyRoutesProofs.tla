------------------------- MODULE ReplyRoutesProofs -------------------------
(***************************************************************************)
(* ReplyRoutes, for every set of conversations, messages, questions and    *)
(* kinds of text, any number of attempts and workers, any life of a cached *)
(* answer.                                                                 *)
(***************************************************************************)
EXTENDS ReplyRoutes, FiniteSetTheorems, TLAPS

-----------------------------------------------------------------------------
(* The inductive invariant *)

(* The part p of an answer's basis is as it was edited last, or was read   *)
(* no later than t, which is at most d after the edit.                     *)
Fresh(basis, p, t, d) == basis[p] = edited[p] \/ t <= edited[p] + d

(* What has not been asked yet is not answered.                            *)
Open(s) ==
  s # None => /\ s.step = "ask_product" => s.product = None
              /\ s.step \in {"ask_product", "ask_variant"} => s.variant = None
              /\ s.step # "ask_address" => s.qty = None

(* What an attempt knows: an order without later answers, and content as   *)
(* old as the attempt, or as the answer it found in the cache.             *)
AttemptOK(a) ==
  /\ a.pc # "failed" => a.tries < MaxTries
  /\ Open(a.read)
  /\ a.pc = "store" => a.of \in Convos
  /\ a.pc \notin {"waiting", "done", "failed"} => a.began <= now /\ now <= a.began + 1
  /\ a.pc \in {"route", "scope", "lookup", "generate", "store"} => Fresh(a.basis, "profile", a.began, 0)
  /\ a.pc \in {"scope", "lookup", "generate", "store"} => Fresh(a.basis, "kb", a.began, 0)
  /\ a.pc = "send" /\ a.text = "answer" => \A p \in Parts : Fresh(a.basis, p, a.began, Ttl)

AnswerOK(e) ==
  e # None => e.since <= now /\ \A p \in Parts : Fresh(e.basis, p, e.since, 1)

AttemptsAreOK == \A m \in Msgs : AttemptOK(attempt[m])
CacheIsOK == \A q \in Questions : AnswerOK(cache[q])
OrdersAreOpen == \A c \in Convos : Open(order[c])

(* Attempts of a conversation at the same time know of each other; one     *)
(* that is alone read the order as it still is, unless it expired.         *)
OverlapsAreNoted ==
  \A n, k \in Msgs : n # k /\ ~AtRest(n) /\ ~AtRest(k) /\ Of(n) = Of(k) => n \in beside
ReadsAreCurrent ==
  \A n \in Msgs : At(n, "step") /\ n \notin beside => order[Of(n)] \in {attempt[n].read, None}

(* OneAnswerPerTry, of the orders that were read as well.                  *)
AnswersAreTried ==
  \A m \in Msgs :
    /\ \A c \in Convos : Cardinality(Given(order[c], m)) <= Written(m)
    /\ \A n \in Msgs : Cardinality(Given(attempt[n].read, m)) <= Written(m)

OrderInv == OrdersAreOpen /\ OverlapsAreNoted /\ ReadsAreCurrent /\ AnswersAreTried

(* The attempts, as <<message, number>>, that are past their route: each   *)
(* bumps one counter at most.                                              *)
Tries == Msgs \X (0..(MaxTries - 1))
Spent ==
  {u \in Tries : \/ u[2] < attempt[u[1]].tries
                 \/ u[2] = attempt[u[1]].tries /\ attempt[u[1]].pc \notin {"waiting", "route"}}

CountersAreSpent ==
  \A c \in Convos, x \in Counters : counter[c][x] <= Cardinality(Spent)

DirectedAreCounted ==
  \A c \in Convos, x \in Counters :
    /\ Cardinality(directed[c][x]) <= counter[c][x]
    /\ Cardinality(directed[c][x]) <= 2

RoutesInv ==
  /\ RouteTypeOK /\ AttemptsAreOK /\ CacheIsOK /\ OrderInv
  /\ CountersAreSpent /\ DirectedAreCounted

-----------------------------------------------------------------------------
(* Attempts past their route                                               *)
Bound == MaxTries * Cardinality(Msgs)

LEMMA TriesAreFinite ==
  /\ IsFiniteSet(Tries) /\ Cardinality(Tries) = Bound /\ Bound \in Nat
<1>1. IsFiniteSet(0..(MaxTries - 1)) /\ Cardinality(0..(MaxTries - 1)) = MaxTries
  BY RoutesAssumption, FS_Interval
<1>2. /\ IsFiniteSet(Msgs) /\ Cardinality(Msgs) \in Nat /\ MaxTries \in Nat
  BY RoutesAssumption, FS_CardinalityType
<1>3. /\ IsFiniteSet(Tries)
      /\ Cardinality(Tries) = Cardinality(Msgs) * Cardinality(0..(MaxTries - 1))
  BY <1>1, <1>2, FS_Product DEF Tries
<1>4. \A i, j \in Nat : i * j = j * i /\ i * j \in Nat
  OBVIOUS
<1> QED BY <1>1, <1>2, <1>3, <1>4 DEF Bound

LEMMA SpentIsFinite ==
  IsFiniteSet(Spent) /\ Cardinality(Spent) \in Nat /\ Cardinality(Spent) <= Bound
<1>1. Spent \subseteq Tries
  BY DEF Spent
<1> QED BY <1>1, TriesAreFinite, FS_Subset, FS_CardinalityType

(* Attempts are not taken back: a new record of a message is of the same   *)
(* attempt, further on, or of the next.                                    *)
GoesOn(old, new) ==
  \/ /\ new.tries = old.tries
     /\ old.pc \in {"waiting", "route"} \/ new.pc \notin {"waiting", "route"}
     /\ old.pc \in {"send", "record", "done"} => new.pc \in {"send", "record", "done"}
  \/ new.tries = old.tries + 1

(* A step that neither begins an attempt nor reads an order.               *)
Quiet(old, new) ==
  /\ old.pc \notin {"waiting", "done", "failed"}
  /\ new.pc # "step" /\ new.read \in {old.read, None}

LEMMA SpentGrows ==
  ASSUME RouteTypeOK, NEW m \in Msgs, NEW a \in Attempt, GoesOn(attempt[m], a),
         attempt' = [attempt EXCEPT ![m] = a]
  PROVE  /\ Spent \subseteq Spent' /\ IsFiniteSet(Spent')
         /\ Cardinality(Spent') \in Nat /\ Cardinality(Spent) <= Cardinality(Spent')
         /\ Cardinality(Spent') <= Bound
<1>1. \A n \in Msgs : attempt'[n] = IF n = m THEN a ELSE attempt[n]
  BY DEF RouteTypeOK
<1>2. \A n \in Msgs : attempt[n].tries \in Nat
  BY RoutesAssumption DEF RouteTypeOK, Attempt
<1>3. Spent \subseteq Spent'
  <2> SUFFICES ASSUME NEW u \in Spent PROVE u \in Spent'
    OBVIOUS
  <2>1. u \in Tries /\ u[1] \in Msgs /\ u[2] \in 0..(MaxTries - 1)
    BY DEF Spent, Tries
  <2>2. PICK n, t : n = u[1] /\ t = u[2]
    OBVIOUS
  <2>3. t \in Nat /\ n \in Msgs
    BY <2>1, <2>2, RoutesAssumption
  <2>4. \/ t < attempt[n].tries
        \/ t = attempt[n].tries /\ attempt[n].pc \notin {"waiting", "route"}
    BY <2>2 DEF Spent
  <2>5. \/ t < attempt'[n].tries
        \/ t = attempt'[n].tries /\ attempt'[n].pc \notin {"waiting", "route"}
    BY <1>1, <1>2, <2>3, <2>4 DEF GoesOn
  <2> QED BY <2>1, <2>2, <2>5 DEF Spent
<1>4. Spent' \subseteq Tries
  BY DEF Spent, Tries
<1>5. /\ IsFiniteSet(Spent') /\ Cardinality(Spent') \in Nat /\ Cardinality(Spent') <= Bound
  BY <1>4, TriesAreFinite, FS_Subset, FS_CardinalityType
<1> QED BY <1>3, <1>5, FS_Subset

(* The step that bumps a counter is the one that spends the attempt.       *)
LEMMA RouteSpends ==
  ASSUME RouteTypeOK, NEW m \in Msgs, NEW a \in Attempt, attempt' = [attempt EXCEPT ![m] = a],
         attempt[m].pc = "route", a.pc \notin {"waiting", "route"},
         a.tries = attempt[m].tries, a.tries < MaxTries
  PROVE  Cardinality(Spent) + 1 <= Cardinality(Spent')
<1>1. \A n \in Msgs : attempt'[n] = IF n = m THEN a ELSE attempt[n]
  BY DEF RouteTypeOK
<1>2. /\ Spent \subseteq Spent' /\ IsFiniteSet(Spent')
  BY SpentGrows DEF GoesOn
<1>3. a.tries \in 0..(MaxTries - 1)
  BY RoutesAssumption DEF Attempt
<1>4. PICK u : u = <<m, a.tries>>
  OBVIOUS
<1>5. u \in Tries /\ u[1] = m /\ u[2] = a.tries
  BY <1>3, <1>4 DEF Tries
<1>6. u \in Spent' /\ u \notin Spent
  BY <1>1, <1>3, <1>5 DEF Spent
<1>7. Cardinality(Spent \cup {u}) = Cardinality(Spent) + 1
  BY <1>6, SpentIsFinite, FS_AddElement
<1>8. Spent \cup {u} \subseteq Spent'
  BY <1>2, <1>6
<1> QED BY <1>2, <1>7, <1>8, FS_Subset

-----------------------------------------------------------------------------
(* One attempt                                                             *)
LEMMA AttemptMoves ==
  ASSUME RouteTypeOK, AttemptsAreOK, NEW m \in Msgs, NEW a \in Attempt, AttemptOK(a)',
         attempt' = [attempt EXCEPT ![m] = a], now' = now, edited' = edited
  PROVE  attempt' \in [Msgs -> Attempt] /\ AttemptsAreOK'
<1>1. attempt' \in [Msgs -> Attempt]
  BY DEF RouteTypeOK
<1>2. ASSUME NEW n \in Msgs PROVE AttemptOK(attempt[n])'
  <2>1. PICK b : b = attempt'[n]
    OBVIOUS
  <2>2. CASE n = m
    <3>1. b = a
      BY <2>1, <2>2 DEF RouteTypeOK
    <3> QED BY <2>1, <3>1 DEF AttemptOK, Fresh
  <2>3. CASE n # m
    <3>1. b = attempt[n]
      BY <2>1, <2>3 DEF RouteTypeOK
    <3>2. AttemptOK(b)
      BY <3>1 DEF AttemptsAreOK
    <3> QED BY <2>1, <3>2 DEF AttemptOK, Fresh
  <2> QED BY <2>2, <2>3
<1> QED BY <1>1, <1>2 DEF AttemptsAreOK

LEMMA Attempts ==
  ASSUME RouteTypeOK, NEW m \in Msgs
  PROVE  /\ attempt[m].tries \in Nat /\ attempt[m].read \in Order \cup {None}
         /\ Of(m) \in Convos /\ order[Of(m)] \in Order \cup {None}
         /\ Written(m) \in Nat
BY RoutesAssumption DEF RouteTypeOK, Attempt, Of, Written

LEMMA GivenIsFinite ==
  ASSUME NEW s, NEW m \in Msgs
  PROVE  /\ Given(s, m) \subseteq Fields /\ IsFiniteSet(Given(s, m))
         /\ Cardinality(Given(s, m)) \in Nat
         /\ s = None => Cardinality(Given(s, m)) = 0
<1>1. IsFiniteSet({"product"}) /\ IsFiniteSet({"variant"}) /\ IsFiniteSet({"qty"})
  BY FS_Singleton
<1>2. IsFiniteSet({"product"} \cup {"variant"})
  BY <1>1, FS_Union
<1>3. IsFiniteSet(({"product"} \cup {"variant"}) \cup {"qty"})
  BY <1>1, <1>2, FS_Union
<1>4. Fields = ({"product"} \cup {"variant"}) \cup {"qty"}
  BY DEF Fields
<1>5. Given(s, m) \subseteq Fields
  BY DEF Given
<1>6. s = None => Given(s, m) = {}
  BY DEF Given
<1> QED BY <1>3, <1>4, <1>5, <1>6, FS_Subset, FS_CardinalityType, FS_EmptySet

(* A message has written no less than before.                              *)
LEMMA WrittenGrows ==
  ASSUME RouteTypeOK, NEW m \in Msgs, NEW a \in Attempt, GoesOn(attempt[m], a),
         attempt' = [attempt EXCEPT ![m] = a]
  PROVE  \A k \in Msgs : Written(k)' \in Nat /\ Written(k) <= Written(k)'
<1>1. a.tries \in Nat
  BY RoutesAssumption DEF Attempt
<1> SUFFICES ASSUME NEW k \in Msgs PROVE Written(k)' \in Nat /\ Written(k) <= Written(k)'
  OBVIOUS
<1>2. PICK o, n : o = attempt[k] /\ n = attempt'[k]
  OBVIOUS
<1>3. o.tries \in Nat
  BY <1>2, Attempts
<1>4. CASE k = m
  <2>1. n = a
    BY <1>2, <1>4 DEF RouteTypeOK
  <2>2. n.tries \in Nat /\ GoesOn(o, n)
    BY <1>1, <1>2, <1>4, <2>1
  <2> QED BY <1>2, <1>3, <2>2 DEF Written, GoesOn
<1>5. CASE k # m
  BY <1>2, <1>3, <1>5 DEF RouteTypeOK, Written
<1> QED BY <1>4, <1>5

(* A step of an attempt that leaves the counters alone.                    *)
LEMMA AttemptStep ==
  ASSUME RoutesInv, NEW m \in Msgs, NEW a \in Attempt, AttemptOK(a)', GoesOn(attempt[m], a),
         attempt' = [attempt EXCEPT ![m] = a],
         now' = now, edited' = edited, said' = said, counter' = counter, directed' = directed,
         order' \in [Convos -> Order \cup {None}], beside' \subseteq Msgs, OrderInv',
         cache' \in [Questions -> Answer \cup {None}], CacheIsOK'
  PROVE  RoutesInv'
<1>1. attempt' \in [Msgs -> Attempt] /\ AttemptsAreOK'
  BY AttemptMoves DEF RoutesInv
<1>2. RouteTypeOK'
  BY <1>1 DEF RoutesInv, RouteTypeOK
<1>3. CountersAreSpent'
  <2> SUFFICES ASSUME NEW c \in Convos, NEW x \in Counters
               PROVE  counter[c][x] <= Cardinality(Spent')
    BY DEF CountersAreSpent
  <2>1. counter[c][x] \in Nat /\ counter[c][x] <= Cardinality(Spent)
    BY TriesAreFinite DEF RoutesInv, RouteTypeOK, CountersAreSpent, Bound
  <2>2. Cardinality(Spent) <= Cardinality(Spent') /\ Cardinality(Spent') \in Nat
    BY SpentGrows DEF RoutesInv
  <2> QED BY <2>1, <2>2, SpentIsFinite
<1>4. DirectedAreCounted'
  BY DEF RoutesInv, DirectedAreCounted
<1> QED BY <1>1, <1>2, <1>3, <1>4 DEF RoutesInv

(* Neither an order nor what was read of one has more answers.             *)
LEMMA SameAnswers ==
  ASSUME RoutesInv, NEW m \in Msgs, NEW a \in Attempt, GoesOn(attempt[m], a), order' = order,
         attempt' = [attempt EXCEPT ![m] = a], a.read \in {attempt[m].read, None}
  PROVE  AnswersAreTried'
<1>0. \A n \in Msgs : attempt'[n] = IF n = m THEN a ELSE attempt[n]
  BY DEF RoutesInv, RouteTypeOK
<1> SUFFICES ASSUME NEW k \in Msgs
             PROVE  /\ \A c \in Convos : Cardinality(Given(order[c], k)) <= Written(k)'
                    /\ \A n \in Msgs : Cardinality(Given(attempt'[n].read, k)) <= Written(k)'
  BY DEF AnswersAreTried, Given
<1>1. Written(k) \in Nat /\ Written(k)' \in Nat /\ Written(k) <= Written(k)'
  BY Attempts, WrittenGrows DEF RoutesInv
<1>2. ASSUME NEW s, Cardinality(Given(s, k)) <= Written(k) PROVE Cardinality(Given(s, k)) <= Written(k)'
  BY <1>1, <1>2, GivenIsFinite
<1>3. ASSUME NEW n \in Msgs PROVE Cardinality(Given(attempt'[n].read, k)) <= Written(k)'
  <2>1. attempt'[n].read \in {attempt[n].read, None}
    BY <1>0
  <2>2. CASE attempt'[n].read = None
    BY <1>1, <2>2, GivenIsFinite
  <2>3. CASE attempt'[n].read = attempt[n].read
    BY <1>2, <2>3 DEF RoutesInv, OrderInv, AnswersAreTried
  <2> QED BY <2>1, <2>2, <2>3
<1> QED BY <1>2, <1>3 DEF RoutesInv, OrderInv, AnswersAreTried

(* What is known of the orders, through a step that leaves them alone.     *)
LEMMA QuietOrders ==
  ASSUME RoutesInv, NEW m \in Msgs, NEW a \in Attempt, GoesOn(attempt[m], a), Quiet(attempt[m], a),
         attempt' = [attempt EXCEPT ![m] = a], said' = said, order' = order,
         \/ beside' = beside
         \/ beside' = beside \ {m} /\ a.pc \in {"waiting", "done", "failed"}
  PROVE  OrderInv' /\ beside' \subseteq Msgs /\ order' \in [Convos -> Order \cup {None}]
<1>1. \A n \in Msgs : attempt'[n] = IF n = m THEN a ELSE attempt[n]
  BY DEF RoutesInv, RouteTypeOK
<1>2. OrdersAreOpen'
  BY DEF RoutesInv, OrderInv, OrdersAreOpen, Open
<1>3. OverlapsAreNoted'
  BY <1>1 DEF RoutesInv, OrderInv, OverlapsAreNoted, Quiet, AtRest, Of
<1>4. ReadsAreCurrent'
  <2> SUFFICES ASSUME NEW n \in Msgs, attempt'[n].pc = "step", n \notin beside'
               PROVE  order[said[n].convo] \in {attempt'[n].read, None}
    BY DEF ReadsAreCurrent, At, Of
  <2>1. n # m
    BY <1>1 DEF Quiet
  <2>2. attempt[n].pc = "step" /\ attempt'[n].read = attempt[n].read /\ n \notin beside
    BY <1>1, <2>1
  <2> QED BY <2>2 DEF RoutesInv, OrderInv, ReadsAreCurrent, At, Of
<1>5. AnswersAreTried'
  BY SameAnswers DEF Quiet
<1> QED BY <1>2, <1>3, <1>4, <1>5 DEF RoutesInv, OrderInv, RouteTypeOK

LEMMA QuietStep ==
  ASSUME RoutesInv, NEW m \in Msgs, NEW a \in Attempt, AttemptOK(a)',
         GoesOn(attempt[m], a), Quiet(attempt[m], a), attempt' = [attempt EXCEPT ![m] = a],
         UNCHANGED <<said, order, counter, directed, content>>,
         \/ beside' = beside
         \/ beside' = beside \ {m} /\ a.pc \in {"waiting", "done", "failed"},
         cache' \in [Questions -> Answer \cup {None}], CacheIsOK'
  PROVE  RoutesInv'
<1>1. /\ said' = said /\ order' = order /\ counter' = counter /\ directed' = directed
      /\ now' = now /\ edited' = edited
  BY DEF content
<1>2. OrderInv' /\ beside' \subseteq Msgs /\ order' \in [Convos -> Order \cup {None}]
  BY <1>1, QuietOrders
<1> QED BY <1>1, <1>2, AttemptStep

LEMMA Facts ==
  ASSUME RoutesInv, NEW m \in Msgs
  PROVE  /\ attempt[m] \in Attempt /\ AttemptOK(attempt[m])
         /\ said[m].convo \in Convos /\ said[m].asks \in Questions
         /\ now \in Times \ {0} /\ edited \in [Parts -> Times]
         /\ order \in [Convos -> Order \cup {None}] /\ OrderInv /\ OrdersAreOpen
         /\ cache \in [Questions -> Answer \cup {None}] /\ CacheIsOK
         /\ Open(order[said[m].convo]) /\ AnswerOK(cache[said[m].asks])
         /\ order[said[m].convo] \in Order \cup {None}
         /\ cache[said[m].asks] \in Answer \cup {None}
BY DEF RoutesInv, RouteTypeOK, AttemptsAreOK, OrderInv, OrdersAreOpen, CacheIsOK

LEMMA Stays ==
  ASSUME RoutesInv, UNCHANGED <<cache, content>>
  PROVE  /\ cache' \in [Questions -> Answer \cup {None}] /\ CacheIsOK'
         /\ now' = now /\ edited' = edited
BY DEF RoutesInv, RouteTypeOK, CacheIsOK, AnswerOK, Fresh, content

(* Replies that are not answers.                                           *)
LEMMA ReplyMoves ==
  ASSUME RoutesInv, NEW m \in Msgs, NEW text \in Texts \ {"answer"}, Reply(m, text),
         attempt[m].pc \in {"route", "step"}, now' = now, edited' = edited
  PROVE  \E a \in Attempt : /\ attempt' = [attempt EXCEPT ![m] = a] /\ AttemptOK(a)'
                             /\ GoesOn(attempt[m], a) /\ a.tries = attempt[m].tries
                             /\ a.pc = "send" /\ a.tries < MaxTries
                             /\ a.read = attempt[m].read
<1>1. PICK e \in Attempt : e = attempt[m] /\ AttemptOK(e)
  BY Facts
<1>2. PICK a : a = [e EXCEPT !.pc = "send", !.text = text]
  OBVIOUS
<1>3. /\ a \in Attempt /\ a.pc = "send" /\ a.text = text /\ a.tries = e.tries
      /\ a.read = e.read /\ a.began = e.began
  BY <1>2 DEF Attempt
<1>4. attempt' = [attempt EXCEPT ![m] = a]
  BY <1>1, <1>2 DEF Reply
<1>5. AttemptOK(a)' /\ a.tries < MaxTries
  BY <1>1, <1>3 DEF AttemptOK
<1> QED BY <1>1, <1>3, <1>4, <1>5 DEF GoesOn

(* An attempt that begins beside others of the conversation is noted with  *)
(* them.                                                                   *)
LEMMA StartOrders ==
  ASSUME RoutesInv, NEW m \in Msgs, Start(m), NEW a \in Attempt, GoesOn(attempt[m], a),
         attempt' = [attempt EXCEPT ![m] = a], a.pc = "route", a.read = attempt[m].read
  PROVE  OrderInv' /\ beside' \subseteq Msgs /\ order' \in [Convos -> Order \cup {None}]
<1>1. \A n \in Msgs : attempt'[n] = IF n = m THEN a ELSE attempt[n]
  BY DEF RoutesInv, RouteTypeOK
<1>2. said' = said /\ order' = order /\ attempt[m].pc = "waiting"
  BY DEF Start, At
<1>3. PICK others : others = {n \in Msgs : ~AtRest(n) /\ Of(n) = Of(m)}
  OBVIOUS
<1>4. beside' = IF others = {} THEN beside ELSE beside \cup others \cup {m}
  BY <1>3 DEF Start
<1>5. beside' \subseteq Msgs /\ beside \subseteq beside'
  BY <1>3, <1>4 DEF RoutesInv, RouteTypeOK
<1>6. OrdersAreOpen'
  BY <1>2 DEF RoutesInv, OrderInv, OrdersAreOpen, Open
<1>7. OverlapsAreNoted'
  <2> SUFFICES ASSUME NEW n \in Msgs, NEW k \in Msgs, n # k, ~AtRest(n)', ~AtRest(k)', Of(n) = Of(k)
               PROVE  n \in beside'
    BY <1>2 DEF OverlapsAreNoted, Of
  <2>1. CASE n # m /\ k # m
    <3>1. ~AtRest(n) /\ ~AtRest(k)
      BY <1>1, <2>1 DEF AtRest
    <3> QED BY <1>5, <3>1 DEF RoutesInv, OrderInv, OverlapsAreNoted
  <2>2. CASE n = m
    <3>1. k \in others
      BY <1>1, <1>3, <2>2 DEF AtRest
    <3> QED BY <1>4, <2>2, <3>1
  <2>3. CASE k = m
    <3>1. n \in others
      BY <1>1, <1>3, <2>3 DEF AtRest
    <3> QED BY <1>4, <3>1
  <2> QED BY <2>1, <2>2, <2>3
<1>8. ReadsAreCurrent'
  <2> SUFFICES ASSUME NEW n \in Msgs, attempt'[n].pc = "step", n \notin beside'
               PROVE  order[said[n].convo] \in {attempt'[n].read, None}
    BY <1>2 DEF ReadsAreCurrent, At, Of
  <2>1. attempt[n].pc = "step" /\ attempt'[n].read = attempt[n].read /\ n \notin beside
    BY <1>1, <1>5
  <2> QED BY <2>1 DEF RoutesInv, OrderInv, ReadsAreCurrent, At, Of
<1>9. AnswersAreTried'
  BY <1>1, <1>2, SameAnswers
<1> QED BY <1>2, <1>5, <1>6, <1>7, <1>8, <1>9 DEF RoutesInv, OrderInv, RouteTypeOK

LEMMA StartStep == ASSUME RoutesInv, NEW m \in Msgs, Start(m) PROVE RoutesInv'
<1>1. PICK e \in Attempt : e = attempt[m] /\ AttemptOK(e)
  BY Facts
<1>2. PICK b : b = [e.basis EXCEPT !["profile"] = edited["profile"]]
  OBVIOUS
<1>3. b \in [Parts -> Times] /\ b["profile"] = edited["profile"]
  BY <1>2, Facts DEF Attempt, Parts
<1>4. PICK t : t = now
  OBVIOUS
<1>5. PICK a : a = [e EXCEPT !.pc = "route", !.began = t, !.basis = b]
  OBVIOUS
<1>6. t \in Times /\ t \in Nat
  BY <1>4, Facts, RoutesAssumption DEF Times
<1>7. /\ a \in Attempt /\ a.pc = "route" /\ a.began = t /\ a.basis = b
      /\ a.tries = e.tries /\ a.read = e.read /\ a.text = e.text
  BY <1>3, <1>5, <1>6 DEF Attempt
<1>8. e.pc = "waiting" /\ UNCHANGED <<said, order, counter, cache, directed, content>>
  BY <1>1 DEF Start, At
<1>9. attempt' = [attempt EXCEPT ![m] = a]
  <2>1. a = [e EXCEPT !.pc = "route", !.began = now, !.basis["profile"] = edited["profile"]]
    BY <1>2, <1>4, <1>5
  <2> QED BY <1>1, <2>1 DEF Start
<1>10. AttemptOK(a)'
  BY <1>1, <1>3, <1>4, <1>6, <1>7, <1>8 DEF AttemptOK, Fresh, content
<1>11. GoesOn(attempt[m], a)
  BY <1>1, <1>7, <1>8 DEF GoesOn
<1>12. OrderInv' /\ beside' \subseteq Msgs /\ order' \in [Convos -> Order \cup {None}]
  BY <1>1, <1>7, <1>8, <1>9, <1>11, StartOrders
<1> QED BY <1>8, <1>9, <1>7, <1>10, <1>11, <1>12, Stays, AttemptStep DEF content

LEMMA GreetStep == ASSUME RoutesInv, NEW m \in Msgs, Greet(m) \/ Escalate(m) PROVE RoutesInv'
<1>1. /\ attempt[m].pc = "route" /\ (Reply(m, "greet") \/ Reply(m, "handover"))
      /\ UNCHANGED <<said, order, counter, cache, directed, beside, content>>
  BY DEF Greet, Escalate, At
<1>2. PICK a \in Attempt : /\ attempt' = [attempt EXCEPT ![m] = a] /\ AttemptOK(a)'
                           /\ GoesOn(attempt[m], a) /\ a.pc = "send" /\ a.read = attempt[m].read
  BY <1>1, ReplyMoves DEF Texts, content
<1> QED BY <1>1, <1>2, Stays, QuietStep DEF Quiet

LEMMA GetOrderStateStep == ASSUME RoutesInv, NEW m \in Msgs, GetOrderState(m) PROVE RoutesInv'
<1>1. PICK e \in Attempt : e = attempt[m] /\ AttemptOK(e)
  BY Facts
<1>2. PICK o \in Order \cup {None} : o = order[said[m].convo] /\ Open(o)
  BY Facts
<1>3. PICK a : a = [e EXCEPT !.pc = "step", !.read = o]
  OBVIOUS
<1>4. /\ a \in Attempt /\ a.pc = "step" /\ a.read = o /\ a.tries = e.tries
      /\ a.text = e.text /\ a.began = e.began
  BY <1>3 DEF Attempt
<1>5. /\ e.pc = "route" /\ UNCHANGED <<said, order, counter, cache, directed, beside, content>>
      /\ attempt' = [attempt EXCEPT ![m] = a]
  BY <1>1, <1>2, <1>3 DEF GetOrderState, At, Of
<1>6. AttemptOK(a)'
  BY <1>1, <1>2, <1>4, <1>5 DEF AttemptOK, content
<1>7. GoesOn(attempt[m], a)
  BY <1>1, <1>4, <1>5 DEF GoesOn
<1>8. \A n \in Msgs : attempt'[n] = IF n = m THEN a ELSE attempt[n]
  BY <1>5 DEF RoutesInv, RouteTypeOK
<1>9. OverlapsAreNoted'
  BY <1>1, <1>4, <1>5, <1>8 DEF RoutesInv, OrderInv, OverlapsAreNoted, AtRest, Of
<1>10. ReadsAreCurrent'
  BY <1>2, <1>4, <1>5, <1>8 DEF RoutesInv, OrderInv, ReadsAreCurrent, At, Of
<1>11. AnswersAreTried'
  <2> SUFFICES ASSUME NEW k \in Msgs
               PROVE  /\ \A c \in Convos : Cardinality(Given(order[c], k)) <= Written(k)'
                      /\ \A n \in Msgs : Cardinality(Given(attempt'[n].read, k)) <= Written(k)'
    BY <1>5 DEF AnswersAreTried, Given
  <2>1. Written(k) \in Nat /\ Written(k)' \in Nat /\ Written(k) <= Written(k)'
    BY <1>4, <1>5, <1>7, Attempts, WrittenGrows DEF RoutesInv
  <2>2. ASSUME NEW s, Cardinality(Given(s, k)) <= Written(k) PROVE Cardinality(Given(s, k)) <= Written(k)'
    BY <2>1, <2>2, GivenIsFinite
  <2>3. \A c \in Convos : Cardinality(Given(order[c], k)) <= Written(k)'
    BY <2>2 DEF RoutesInv, OrderInv, AnswersAreTried
  <2>4. ASSUME NEW n \in Msgs PROVE Cardinality(Given(attempt'[n].read, k)) <= Written(k)'
    <3>1. CASE n = m
      BY <1>2, <1>4, <1>8, <2>3, <3>1, Facts
    <3>2. CASE n # m
      BY <1>8, <2>2, <3>2 DEF RoutesInv, OrderInv, AnswersAreTried
    <3> QED BY <3>1, <3>2
  <2> QED BY <2>3, <2>4
<1>12. OrderInv' /\ beside' \subseteq Msgs /\ order' \in [Convos -> Order \cup {None}]
  BY <1>5, <1>9, <1>10, <1>11 DEF RoutesInv, OrderInv, OrdersAreOpen, Open, RouteTypeOK
<1> QED BY <1>4, <1>5, <1>6, <1>7, <1>12, Stays, AttemptStep DEF content

(* What the state machine of an order makes of one: it answers the next    *)
(* question and keeps the answers it has; nothing is left only of one that *)
(* asked for the address.                                                  *)
Follows(m, s, next) ==
  /\ next \in Order \cup {None} /\ Open(next)
  /\ \A n \in Msgs : Cardinality(Given(next, n)) <= Cardinality(Given(s, n)) + (IF n = m THEN 1 ELSE 0)
  /\ s # None => IF next = None THEN s.step = "ask_address"
                  ELSE \A f \in Fields : s[f] \in {None, next[f]}

LEMMA OneMoreAnswer ==
  ASSUME NEW m \in Msgs, NEW s, NEW next, NEW f,
         Given(next, m) \subseteq Given(s, m) \cup {f},
         \A n \in Msgs : n # m => Given(next, n) \subseteq Given(s, n)
  PROVE  \A n \in Msgs : Cardinality(Given(next, n)) <= Cardinality(Given(s, n)) + (IF n = m THEN 1 ELSE 0)
<1> SUFFICES ASSUME NEW n \in Msgs
             PROVE  Cardinality(Given(next, n)) <= Cardinality(Given(s, n)) + (IF n = m THEN 1 ELSE 0)
  OBVIOUS
<1>1. PICK g, h : g = Given(s, n) /\ h = Given(next, n)
  OBVIOUS
<1>2. IsFiniteSet(g) /\ Cardinality(g) \in Nat /\ Cardinality(h) \in Nat
  BY <1>1, GivenIsFinite
<1>3. CASE n # m
  <2>1. h \subseteq g
    BY <1>1, <1>3
  <2>2. Cardinality(h) <= Cardinality(g)
    BY <1>2, <2>1, FS_Subset
  <2> QED BY <1>1, <1>2, <1>3, <2>2
<1>4. CASE n = m
  <2>1. h \subseteq g \cup {f}
    BY <1>1, <1>4
  <2>2. IsFiniteSet(g \cup {f}) /\ Cardinality(g \cup {f}) <= Cardinality(g) + 1
    <3>1. PICK k : k = g \cup {f}
      OBVIOUS
    <3>2. IsFiniteSet(k) /\ (k = g \/ Cardinality(k) = Cardinality(g) + 1)
      BY <1>2, <3>1, FS_AddElement
    <3>3. Cardinality(k) <= Cardinality(g) + 1
      BY <1>2, <3>2
    <3> QED BY <3>1, <3>2, <3>3
  <2>3. Cardinality(h) <= Cardinality(g \cup {f}) /\ Cardinality(g \cup {f}) \in Nat
    BY <2>1, <2>2, FS_Subset, FS_CardinalityType
  <2> QED BY <1>1, <1>2, <1>4, <2>2, <2>3
<1> QED BY <1>3, <1>4

LEMMA NextOrdersFollow ==
  ASSUME NEW m \in Msgs, NEW s \in Order \cup {None}, Open(s), NEW next \in NextOrders(m, s)
  PROVE  Follows(m, s, next)
<1>1. None \notin Msgs /\ None \notin Order
  BY RoutesAssumption, NoneIsNoOrder
<1>2. CASE s = None
  <2>1. next = Asking("ask_product", None, None, None)
    BY <1>2 DEF NextOrders
  <2>2. /\ next \in Order /\ next.step = "ask_product"
        /\ next.product = None /\ next.variant = None /\ next.qty = None
    BY <2>1 DEF Asking, Order
  <2>3. \A n \in Msgs : Given(next, n) = {}
    BY <1>1, <2>1 DEF Given, Fields, Asking
  <2> QED BY <1>1, <1>2, <2>2, <2>3, OneMoreAnswer DEF Follows, Open
<1>3. CASE s \in Order /\ s.step = "ask_product"
  <2>1. next = Asking("ask_variant", m, None, None)
    BY <1>1, <1>3 DEF NextOrders
  <2>2. /\ next \in Order /\ next.step = "ask_variant"
        /\ next.product = m /\ next.variant = None /\ next.qty = None
    BY <2>1 DEF Asking, Order
  <2>3. \A n \in Msgs : Given(next, n) \subseteq IF n = m THEN {"product"} ELSE {}
    BY <1>1, <2>1 DEF Given, Fields, Asking
  <2>4. s["product"] = None /\ s["variant"] = None /\ s["qty"] = None
    BY <1>1, <1>3 DEF Open, Order
  <2>5. \A n \in Msgs : Cardinality(Given(next, n)) <= Cardinality(Given(s, n)) + (IF n = m THEN 1 ELSE 0)
    BY <2>3, OneMoreAnswer
  <2> QED BY <1>1, <2>2, <2>4, <2>5 DEF Follows, Open, Fields
<1>4. CASE s \in Order /\ s.step = "ask_variant"
  <2>1. next = [s EXCEPT !.step = "ask_qty", !.variant = m]
    BY <1>1, <1>4 DEF NextOrders
  <2>2. /\ next \in Order /\ next.step = "ask_qty" /\ next.variant = m
        /\ next.product = s.product /\ next.qty = s.qty
    BY <1>4, <2>1 DEF Order
  <2>3. s.variant = None /\ s.qty = None
    BY <1>1, <1>4 DEF Open
  <2>4. \A n \in Msgs : Given(next, n) \subseteq Given(s, n) \cup (IF n = m THEN {"variant"} ELSE {})
    BY <1>1, <1>4, <2>2 DEF Given, Fields, Order
  <2>5. \A n \in Msgs : Cardinality(Given(next, n)) <= Cardinality(Given(s, n)) + (IF n = m THEN 1 ELSE 0)
    BY <2>4, OneMoreAnswer
  <2>6. \A f \in Fields : s[f] \in {None, next[f]}
    BY <1>4, <2>2, <2>3 DEF Fields, Order
  <2> QED BY <1>1, <2>2, <2>3, <2>5, <2>6 DEF Follows, Open
<1>5. CASE s \in Order /\ s.step = "ask_qty"
  <2>1. PICK qty \in {m, None} : next = [s EXCEPT !.step = "ask_address", !.qty = qty]
    BY <1>1, <1>5 DEF NextOrders
  <2>2. /\ next \in Order /\ next.step = "ask_address" /\ next.variant = s.variant
        /\ next.product = s.product /\ next.qty = qty
    BY <1>5, <2>1 DEF Order
  <2>3. s.qty = None
    BY <1>1, <1>5 DEF Open
  <2>4. \A n \in Msgs : Given(next, n) \subseteq Given(s, n) \cup (IF n = m THEN {"qty"} ELSE {})
    BY <1>1, <1>5, <2>2 DEF Given, Fields, Order
  <2>5. \A n \in Msgs : Cardinality(Given(next, n)) <= Cardinality(Given(s, n)) + (IF n = m THEN 1 ELSE 0)
    BY <2>4, OneMoreAnswer
  <2>6. \A f \in Fields : s[f] \in {None, next[f]}
    BY <1>5, <2>2, <2>3 DEF Fields, Order
  <2> QED BY <1>1, <2>2, <2>5, <2>6 DEF Follows, Open
<1>6. CASE s \in Order /\ s.step = "ask_address"
  <2>1. next = None \/ next = s
    BY <1>1, <1>6 DEF NextOrders
  <2>2. CASE next = s
    <3>1. \A n \in Msgs : Given(next, n) = Given(s, n)
      BY <2>2
    <3>2. \A n \in Msgs : Cardinality(Given(next, n)) <= Cardinality(Given(s, n)) + (IF n = m THEN 1 ELSE 0)
      BY <3>1, OneMoreAnswer
    <3> QED BY <1>1, <1>6, <2>2, <3>2 DEF Follows
  <2>3. CASE next = None
    <3>1. \A n \in Msgs : Given(next, n) = {}
      BY <2>3 DEF Given
    <3>2. \A n \in Msgs : Cardinality(Given(next, n)) <= Cardinality(Given(s, n)) + (IF n = m THEN 1 ELSE 0)
      BY <3>1, OneMoreAnswer
    <3> QED BY <1>6, <2>3, <3>2 DEF Follows, Open
  <2> QED BY <2>1, <2>2, <2>3
<1> QED BY <1>2, <1>3, <1>4, <1>5, <1>6 DEF Order

LEMMA SetOrderStateOrders ==
  ASSUME RoutesInv, NEW m \in Msgs, NEW a \in Attempt, NEW next, Follows(m, attempt[m].read, next),
         attempt' = [attempt EXCEPT ![m] = a], attempt[m].pc = "step", a.pc = "send",
         a.tries = attempt[m].tries, a.read = attempt[m].read, said' = said, beside' = beside,
         order' = [order EXCEPT ![Of(m)] = next]
  PROVE  OrderInv' /\ beside' \subseteq Msgs /\ order' \in [Convos -> Order \cup {None}]
<1>1. \A n \in Msgs : attempt'[n] = IF n = m THEN a ELSE attempt[n]
  BY DEF RoutesInv, RouteTypeOK
<1>2. Of(m) \in Convos /\ \A c \in Convos : order'[c] = IF c = Of(m) THEN next ELSE order[c]
  BY Facts DEF Of
<1>3. order' \in [Convos -> Order \cup {None}] /\ beside' \subseteq Msgs
  BY DEF RoutesInv, RouteTypeOK, Follows
<1>4. OrdersAreOpen'
  <2>1. ASSUME NEW c \in Convos PROVE Open(order'[c])
    BY <1>2, Facts DEF OrdersAreOpen, Follows
  <2> QED BY <2>1 DEF OrdersAreOpen, Open
<1>5. OverlapsAreNoted'
  BY <1>1 DEF RoutesInv, OrderInv, OverlapsAreNoted, AtRest, Of
<1>6. ReadsAreCurrent'
  <2> SUFFICES ASSUME NEW n \in Msgs, attempt'[n].pc = "step", n \notin beside
               PROVE  order'[said[n].convo] \in {attempt'[n].read, None}
    BY DEF ReadsAreCurrent, At, Of
  <2>1. n # m /\ attempt[n].pc = "step" /\ attempt'[n].read = attempt[n].read
    BY <1>1
  <2>2. said[n].convo # said[m].convo
    BY <2>1 DEF RoutesInv, OrderInv, OverlapsAreNoted, AtRest, Of
  <2>3. order'[said[n].convo] = order[said[n].convo]
    BY <1>2, <2>2, Facts DEF Of
  <2> QED BY <2>1, <2>3 DEF RoutesInv, OrderInv, ReadsAreCurrent, At, Of
<1>7. AnswersAreTried'
  <2> SUFFICES ASSUME NEW k \in Msgs
               PROVE  /\ \A c \in Convos : Cardinality(Given(order'[c], k)) <= Written(k)'
                      /\ \A n \in Msgs : Cardinality(Given(attempt'[n].read, k)) <= Written(k)'
    BY DEF AnswersAreTried, Given
  <2>1. Written(k) \in Nat /\ attempt[k].tries \in Nat
    BY Attempts DEF RoutesInv
  <2>2. Written(k)' = Written(k) + (IF k = m THEN 1 ELSE 0)
    BY <1>1, <2>1 DEF Written
  <2>3. ASSUME NEW s, Cardinality(Given(s, k)) <= Written(k) PROVE Cardinality(Given(s, k)) <= Written(k)'
    BY <2>1, <2>2, <2>3, GivenIsFinite
  <2>4. \A n \in Msgs : Cardinality(Given(attempt'[n].read, k)) <= Written(k)'
    BY <1>1, <2>3 DEF RoutesInv, OrderInv, AnswersAreTried
  <2>5. Cardinality(Given(next, k)) <= Written(k)'
    <3>1. Cardinality(Given(attempt[m].read, k)) <= Written(k)
      BY DEF RoutesInv, OrderInv, AnswersAreTried
    <3>2. Cardinality(Given(next, k)) <= Cardinality(Given(attempt[m].read, k)) + (IF k = m THEN 1 ELSE 0)
      BY DEF Follows
    <3>3. Cardinality(Given(next, k)) \in Nat /\ Cardinality(Given(attempt[m].read, k)) \in Nat
      BY GivenIsFinite
    <3> QED BY <2>1, <2>2, <3>1, <3>2, <3>3
  <2>6. \A c \in Convos : Cardinality(Given(order'[c], k)) <= Written(k)'
    BY <1>2, <2>3, <2>5 DEF RoutesInv, OrderInv, AnswersAreTried
  <2> QED BY <2>4, <2>6
<1> QED BY <1>3, <1>4, <1>5, <1>6, <1>7 DEF OrderInv

LEMMA SetOrderStateStep == ASSUME RoutesInv, NEW m \in Msgs, SetOrderState(m) PROVE RoutesInv'
<1>1. PICK s \in Order \cup {None} : s = attempt[m].read /\ Open(s)
  BY Facts DEF Attempt, AttemptOK
<1>2. attempt[m].pc = "step" /\ UNCHANGED <<said, counter, cache, directed, beside, content>>
  BY DEF SetOrderState, At
<1>3. PICK next \in NextOrders(m, s) :
        \/ order' = [order EXCEPT ![Of(m)] = next] /\ Reply(m, OrderText(next))
        \/ order' = order /\ Reply(m, "continue")
  BY <1>1 DEF SetOrderState
<1>4. Follows(m, s, next)
  BY <1>1, <1>3, NextOrdersFollow
<1>5. CASE order' = [order EXCEPT ![Of(m)] = next] /\ Reply(m, OrderText(next))
  <2>1. PICK text \in Texts \ {"answer"} : Reply(m, text)
    BY <1>5 DEF OrderText, Texts, OrderTexts
  <2>2. PICK a \in Attempt : /\ attempt' = [attempt EXCEPT ![m] = a] /\ AttemptOK(a)'
                             /\ GoesOn(attempt[m], a) /\ a.tries = attempt[m].tries
                             /\ a.pc = "send" /\ a.read = attempt[m].read
    BY <1>2, <2>1, ReplyMoves DEF content
  <2>3. OrderInv' /\ beside' \subseteq Msgs /\ order' \in [Convos -> Order \cup {None}]
    BY <1>1, <1>2, <1>4, <1>5, <2>2, SetOrderStateOrders
  <2> QED BY <1>2, <2>2, <2>3, Stays, AttemptStep DEF content
<1>6. CASE order' = order /\ Reply(m, "continue")
  <2>1. PICK a \in Attempt : /\ attempt' = [attempt EXCEPT ![m] = a] /\ AttemptOK(a)'
                             /\ GoesOn(attempt[m], a) /\ a.pc = "send" /\ a.read = attempt[m].read
    BY <1>2, <1>6, ReplyMoves DEF content, Texts, OrderTexts
  <2> QED BY <1>2, <1>6, <2>1, Stays, QuietStep DEF Quiet
<1> QED BY <1>3, <1>5, <1>6

-----------------------------------------------------------------------------
(* Answers and what they are made of                                       *)
LEMMA ReadKnowledgeStep == ASSUME RoutesInv, NEW m \in Msgs, ReadKnowledge(m) PROVE RoutesInv'
<1>1. PICK e \in Attempt : e = attempt[m] /\ AttemptOK(e)
  BY Facts
<1>2. PICK b : b = [e.basis EXCEPT !["kb"] = edited["kb"]]
  OBVIOUS
<1>3. b \in [Parts -> Times] /\ b["kb"] = edited["kb"] /\ b["profile"] = e.basis["profile"]
  BY <1>2, Facts DEF Attempt, Parts
<1>4. PICK a : a = [e EXCEPT !.pc = "scope", !.basis = b]
  OBVIOUS
<1>5. /\ a \in Attempt /\ a.pc = "scope" /\ a.began = e.began /\ a.basis = b
      /\ a.tries = e.tries /\ a.read = e.read /\ a.text = e.text
  BY <1>3, <1>4 DEF Attempt
<1>6. e.pc = "route" /\ UNCHANGED <<said, order, counter, cache, directed, beside, content>>
  BY <1>1 DEF ReadKnowledge, At
<1>7. attempt' = [attempt EXCEPT ![m] = a]
  <2>1. a = [e EXCEPT !.pc = "scope", !.basis["kb"] = edited["kb"]]
    BY <1>2, <1>4
  <2> QED BY <1>1, <2>1 DEF ReadKnowledge
<1>8. AttemptOK(a)'
  BY <1>1, <1>3, <1>5, <1>6 DEF AttemptOK, Fresh, content
<1> QED BY <1>1, <1>5, <1>6, <1>7, <1>8, Stays, QuietStep DEF GoesOn, Quiet

LEMMA AttemptPc ==
  ASSUME NEW e \in Attempt, NEW s \in {"lookup", "send", "record"}, NEW a, a = [e EXCEPT !.pc = s]
  PROVE  /\ a \in Attempt /\ a.pc = s /\ a.tries = e.tries /\ a.read = e.read /\ a.text = e.text
         /\ a.of = e.of /\ a.began = e.began /\ a.basis = e.basis
BY DEF Attempt

(* An answer found within its life was stored by an attempt that began at  *)
(* most two ticks and that life ago.                                       *)
LEMMA GetCachedAnswerStep ==
  ASSUME RoutesInv, NEW m \in Msgs, GetCachedAnswer(m) PROVE RoutesInv'
<1>1. PICK e \in Attempt : e = attempt[m] /\ AttemptOK(e)
  BY Facts
<1>2. PICK kept \in Answer \cup {None} : kept = cache[said[m].asks] /\ AnswerOK(kept)
  BY Facts
<1>3. e.pc = "lookup" /\ UNCHANGED <<said, order, counter, cache, directed, beside, content>>
  BY <1>1 DEF GetCachedAnswer, At
<1>4. now \in Nat /\ Ttl \in Nat /\ e.began \in Nat /\ \A p \in Parts : edited[p] \in Nat
  BY Facts, RoutesAssumption DEF Times, Attempt
<1>5. CASE kept # None /\ now < kept.since + Ttl
  <2>1. PICK o, b : o = kept.of /\ b = kept.basis
    OBVIOUS
  <2>2. /\ o \in Convos /\ b \in [Parts -> Times] /\ kept.since \in Nat
        /\ \A p \in Parts : b[p] = edited[p] \/ kept.since <= edited[p] + 1
    BY <1>2, <1>5, <2>1, RoutesAssumption DEF Answer, Times, AnswerOK, Fresh
  <2>3. PICK a : a = [e EXCEPT !.pc = "send", !.text = "answer", !.of = o, !.basis = b]
    OBVIOUS
  <2>4. /\ a \in Attempt /\ a.pc = "send" /\ a.text = "answer" /\ a.basis = b
        /\ a.began = e.began /\ a.tries = e.tries /\ a.read = e.read
    BY <2>2, <2>3 DEF Attempt, Texts
  <2>5. attempt' = [attempt EXCEPT ![m] = a]
    BY <1>1, <1>2, <1>5, <2>1, <2>3 DEF GetCachedAnswer
  <2>6. \A p \in Parts : b[p] = edited[p] \/ e.began <= edited[p] + Ttl
    <3> SUFFICES ASSUME NEW p \in Parts, kept.since <= edited[p] + 1
                 PROVE  e.began <= edited[p] + Ttl
      BY <2>2
    <3>1. e.began <= now
      BY <1>1, <1>3 DEF AttemptOK
    <3> QED BY <1>4, <1>5, <2>2, <3>1
  <2>7. AttemptOK(a)'
    BY <1>1, <1>3, <2>4, <2>6 DEF AttemptOK, Fresh, content
  <2> QED BY <1>1, <1>3, <2>4, <2>5, <2>7, Stays, QuietStep DEF GoesOn, Quiet
<1>6. CASE ~ (kept # None /\ now < kept.since + Ttl)
  <2>1. PICK a : a = [e EXCEPT !.pc = "generate", !.text = "answer"]
    OBVIOUS
  <2>2. /\ a \in Attempt /\ a.pc = "generate" /\ a.text = "answer" /\ a.basis = e.basis
        /\ a.began = e.began /\ a.tries = e.tries /\ a.read = e.read
    BY <2>1 DEF Attempt, Texts
  <2>3. attempt' = [attempt EXCEPT ![m] = a]
    BY <1>1, <1>2, <1>6, <2>1 DEF GetCachedAnswer
  <2>4. AttemptOK(a)'
    BY <1>1, <1>3, <2>2 DEF AttemptOK, Fresh, content
  <2> QED BY <1>1, <1>3, <2>2, <2>3, <2>4, Stays, QuietStep DEF GoesOn, Quiet
<1> QED BY <1>5, <1>6

LEMMA GenerateReplyStep == ASSUME RoutesInv, NEW m \in Msgs, GenerateReply(m) PROVE RoutesInv'
<1>1. PICK e \in Attempt, o \in Convos : e = attempt[m] /\ o = Of(m) /\ AttemptOK(e)
  BY Facts DEF Of
<1>2. PICK a : a = [e EXCEPT !.pc = "store", !.of = o]
  OBVIOUS
<1>3. /\ a \in Attempt /\ a.pc = "store" /\ a.of = o /\ a.basis = e.basis /\ a.text = e.text
      /\ a.began = e.began /\ a.tries = e.tries /\ a.read = e.read
  BY <1>2 DEF Attempt
<1>4. /\ e.pc = "generate" /\ UNCHANGED <<said, order, counter, cache, directed, beside, content>>
      /\ attempt' = [attempt EXCEPT ![m] = a]
  BY <1>1, <1>2 DEF GenerateReply, At
<1>5. AttemptOK(a)'
  BY <1>1, <1>3, <1>4 DEF AttemptOK, Fresh, content
<1> QED BY <1>1, <1>3, <1>4, <1>5, Stays, QuietStep DEF GoesOn, Quiet

LEMMA SetCachedAnswerStep ==
  ASSUME RoutesInv, NEW m \in Msgs, SetCachedAnswer(m) PROVE RoutesInv'
<1>1. PICK e \in Attempt : e = attempt[m] /\ AttemptOK(e)
  BY Facts
<1>2. PICK a, k : /\ a = [e EXCEPT !.pc = "send"]
                  /\ k = [of |-> e.of, basis |-> e.basis, since |-> now]
  OBVIOUS
<1>3. /\ a \in Attempt /\ a.pc = "send" /\ a.basis = e.basis /\ a.text = e.text
      /\ a.began = e.began /\ a.tries = e.tries /\ a.read = e.read
  BY <1>2, AttemptPc
<1>4. /\ e.pc = "store" /\ UNCHANGED <<said, order, counter, directed, beside, content>>
      /\ attempt' = [attempt EXCEPT ![m] = a]
      /\ cache' = [cache EXCEPT ![said[m].asks] = k]
  BY <1>1, <1>2 DEF SetCachedAnswer, At
<1>5. now \in Nat /\ Ttl \in Nat /\ e.began \in Nat /\ \A p \in Parts : edited[p] \in Nat
  BY Facts, RoutesAssumption DEF Times, Attempt
<1>6. /\ \A p \in Parts : e.basis[p] = edited[p] \/ e.began <= edited[p]
      /\ e.began <= now /\ now <= e.began + 1
  BY <1>1, <1>4, <1>5 DEF AttemptOK, Fresh, Parts
<1>7. AttemptOK(a)'
  <2>1. \A p \in Parts : e.basis[p] = edited[p] \/ e.began <= edited[p] + Ttl
    BY <1>5, <1>6
  <2> QED BY <1>1, <1>3, <1>4, <2>1 DEF AttemptOK, Fresh, content
<1>8. k \in Answer /\ k.since = now /\ k.basis = e.basis
  BY <1>1, <1>2, <1>4, Facts DEF Answer, Attempt, AttemptOK
<1>9. AnswerOK(k)'
  <2>1. \A p \in Parts : e.basis[p] = edited[p] \/ now <= edited[p] + 1
    BY <1>5, <1>6
  <2> QED BY <1>4, <1>5, <1>8, <2>1 DEF AnswerOK, Fresh, content
<1>10. cache' \in [Questions -> Answer \cup {None}]
  BY <1>4, <1>8, Facts
<1>11. CacheIsOK'
  <2> SUFFICES ASSUME NEW q \in Questions PROVE AnswerOK(cache[q])'
    BY DEF CacheIsOK
  <2>1. PICK j : j = cache'[q]
    OBVIOUS
  <2>2. CASE q = said[m].asks
    <3>1. j = k
      BY <1>4, <2>1, <2>2, Facts
    <3> QED BY <1>9, <2>1, <3>1 DEF AnswerOK, Fresh
  <2>3. CASE q # said[m].asks
    <3>1. j = cache[q] /\ AnswerOK(j)
      BY <1>4, <2>1, <2>3, Facts DEF CacheIsOK
    <3> QED BY <1>4, <2>1, <3>1 DEF AnswerOK, Fresh, content
  <2> QED BY <2>2, <2>3
<1>12. order' \in [Convos -> Order \cup {None}] /\ OrdersAreOpen'
  BY <1>4, Facts DEF OrdersAreOpen
<1> QED BY <1>1, <1>3, <1>4, <1>7, <1>10, <1>11, <1>12, QuietStep DEF GoesOn, Quiet, content

LEMMA SendStep == ASSUME RoutesInv, NEW m \in Msgs, Send(m) PROVE RoutesInv'
<1>1. PICK e \in Attempt : e = attempt[m] /\ AttemptOK(e)
  BY Facts
<1>2. PICK a : a = [e EXCEPT !.pc = "record"]
  OBVIOUS
<1>3. /\ a \in Attempt /\ a.pc = "record" /\ a.basis = e.basis /\ a.text = e.text
      /\ a.began = e.began /\ a.tries = e.tries /\ a.read = e.read
  BY <1>2, AttemptPc
<1>4. /\ e.pc = "send" /\ UNCHANGED <<said, order, counter, cache, directed, beside, content>>
      /\ attempt' = [attempt EXCEPT ![m] = a]
  BY <1>1, <1>2 DEF Send, At
<1>5. AttemptOK(a)'
  BY <1>1, <1>3, <1>4 DEF AttemptOK, content
<1> QED BY <1>1, <1>3, <1>4, <1>5, Stays, QuietStep DEF GoesOn, Quiet

LEMMA WaitingType ==
  /\ Waiting \in Attempt /\ Waiting.pc = "waiting" /\ Waiting.tries = 0
  /\ Waiting.read = None /\ Waiting.text = None
<1>1. 0 \in Times /\ 0 \in 0..MaxTries
  BY RoutesAssumption DEF Times
<1>2. [p \in Parts |-> 0] \in [Parts -> Times]
  BY <1>1
<1> QED BY <1>1, <1>2 DEF Waiting, Attempt

(* An attempt that ends, in one way or the other, leaves nothing behind.   *)
EndOf(s, n) == [Waiting EXCEPT !.pc = s, !.tries = n]

LEMMA Ended ==
  ASSUME NEW n \in 0..MaxTries, NEW s \in {"waiting", "done", "failed"}, s # "failed" => n < MaxTries
  PROVE  /\ EndOf(s, n) \in Attempt /\ EndOf(s, n).pc = s /\ EndOf(s, n).tries = n
         /\ EndOf(s, n).read = None /\ AttemptOK(EndOf(s, n))'
<1>0. PICK a : a = EndOf(s, n)
  OBVIOUS
<1>1. /\ a \in Attempt /\ a.pc = s /\ a.tries = n /\ a.read = None /\ a.text = None
  BY <1>0, WaitingType DEF Attempt, EndOf
<1>2. None # "answer"
  BY NoneIsNoOrder DEF Texts, OrderTexts
<1>3. AttemptOK(a)'
  BY <1>1, <1>2 DEF AttemptOK, Open
<1> QED BY <1>0, <1>1, <1>3

LEMMA RecordStep == ASSUME RoutesInv, NEW m \in Msgs, Record(m) PROVE RoutesInv'
<1>1. PICK e \in Attempt : e = attempt[m] /\ AttemptOK(e)
  BY Facts
<1>2. PICK n, s, a : n = e.tries /\ s = "done" /\ a = EndOf(s, n)
  OBVIOUS
<1>3. /\ e.pc = "record" /\ UNCHANGED <<said, order, counter, cache, directed, content>>
      /\ attempt' = [attempt EXCEPT ![m] = a] /\ beside' = beside \ {m}
  BY <1>1, <1>2 DEF Record, At, EndOf
<1>4. n \in 0..MaxTries /\ n < MaxTries
  BY <1>1, <1>2, <1>3 DEF Attempt, AttemptOK
<1>5. a \in Attempt /\ a.pc = "done" /\ a.tries = n /\ a.read = None /\ AttemptOK(a)'
  <2>1. n \in 0..MaxTries /\ s \in {"waiting", "done", "failed"} /\ (s # "failed" => n < MaxTries)
    BY <1>2, <1>4
  <2> QED BY <1>2, <2>1, Ended
<1>6. GoesOn(attempt[m], a) /\ Quiet(attempt[m], a)
  BY <1>1, <1>2, <1>3, <1>5 DEF GoesOn, Quiet
<1> QED BY <1>3, <1>5, <1>6, Stays, QuietStep

LEMMA AttemptFailsStep == ASSUME RoutesInv, NEW m \in Msgs, AttemptFails(m) PROVE RoutesInv'
<1>1. PICK e \in Attempt : e = attempt[m] /\ AttemptOK(e)
  BY Facts
<1>2. PICK n, s, a : /\ n = e.tries + 1
                     /\ s = IF e.tries + 1 < MaxTries THEN "waiting" ELSE "failed"
                     /\ a = EndOf(s, n)
  OBVIOUS
<1>3. e.pc \notin {"waiting", "done", "failed"}
  BY <1>1 DEF AttemptFails, AtRest
<1>4. UNCHANGED <<said, order, counter, cache, directed, content>> /\ beside' = beside \ {m}
  BY DEF AttemptFails
<1>5. attempt' = [attempt EXCEPT ![m] = a]
  <2>1. a = [Waiting EXCEPT !.tries = e.tries + 1,
                            !.pc = IF e.tries + 1 < MaxTries THEN "waiting" ELSE "failed"]
    BY <1>2 DEF Waiting, EndOf
  <2> QED BY <1>1, <2>1 DEF AttemptFails
<1>6. n \in 0..MaxTries /\ s \in {"waiting", "done", "failed"} /\ (s # "failed" => n < MaxTries)
  BY <1>1, <1>2, <1>3, RoutesAssumption DEF Attempt, AttemptOK
<1>7. a \in Attempt /\ a.pc = s /\ a.tries = n /\ a.read = None /\ AttemptOK(a)'
  <2>1. /\ n \in 0..MaxTries
        /\ s \in {"waiting", "done", "failed"}
        /\ s # "failed" => n < MaxTries
    BY <1>6
  <2> QED BY <1>2, <2>1, Ended
<1>8. GoesOn(attempt[m], a) /\ Quiet(attempt[m], a)
  BY <1>1, <1>2, <1>3, <1>6, <1>7 DEF GoesOn, Quiet
<1> QED BY <1>4, <1>5, <1>6, <1>7, <1>8, Stays, QuietStep

-----------------------------------------------------------------------------
(* Counters                                                                *)
LEMMA CounterTypes ==
  ASSUME RoutesInv, NEW c \in Convos, NEW x \in Counters
  PROVE  /\ counter[c] \in [Counters -> 0..Bound] /\ counter[c][x] \in 0..Bound
         /\ directed[c] \in [Counters -> SUBSET Msgs] /\ directed[c][x] \in SUBSET Msgs
         /\ IsFiniteSet(directed[c][x]) /\ Cardinality(directed[c][x]) \in Nat
<1>1. /\ counter[c] \in [Counters -> 0..Bound] /\ counter[c][x] \in 0..Bound
      /\ directed[c] \in [Counters -> SUBSET Msgs] /\ directed[c][x] \in SUBSET Msgs
  BY DEF RoutesInv, RouteTypeOK, Bound
<1> QED BY <1>1, RoutesAssumption, FS_Subset, FS_CardinalityType

(* One message is directed by a bump, and none from the third on.          *)
LEMMA BumpCounterStep == ASSUME RoutesInv, NEW m \in Msgs, BumpCounter(m) PROVE RoutesInv'
<1>1. PICK c \in Convos, x \in Counters : c = Of(m) /\ x = CounterOf(m)
  BY Facts DEF Of, CounterOf, Counters
<1>2. PICK n : n = counter[c][x] + 1
  OBVIOUS
<1>3. n \in Nat /\ counter[c][x] = n - 1 /\ counter[c][x] \in Nat
  BY <1>2, CounterTypes, TriesAreFinite
<1>4. /\ attempt[m].pc = "route" /\ UNCHANGED <<said, order, cache, beside, content>>
      /\ counter' = [counter EXCEPT ![c][x] = n]
      /\ Reply(m, IF n >= 3 THEN "default" ELSE "direction")
      /\ directed' = IF n >= 3 THEN directed ELSE [directed EXCEPT ![c][x] = @ \cup {m}]
  BY <1>1, <1>2 DEF BumpCounter, At
<1>5. PICK a \in Attempt : /\ attempt' = [attempt EXCEPT ![m] = a] /\ AttemptOK(a)'
                           /\ GoesOn(attempt[m], a) /\ a.tries = attempt[m].tries
                           /\ a.pc = "send" /\ a.tries < MaxTries /\ a.read = attempt[m].read
  <2>1. PICK text \in {"default", "direction"} : Reply(m, text)
    BY <1>4
  <2>2. text \in Texts \ {"answer"} /\ text # "confirm"
    BY <2>1 DEF Texts, OrderTexts
  <2> QED BY <1>4, <2>1, <2>2, ReplyMoves DEF content
<1>6. /\ Cardinality(Spent) + 1 <= Cardinality(Spent') /\ Cardinality(Spent') \in Nat
      /\ Cardinality(Spent') <= Bound
  BY <1>4, <1>5, RouteSpends, SpentGrows DEF RoutesInv
<1>7. \A d \in Convos, y \in Counters :
        counter'[d][y] = IF d = c /\ y = x THEN n ELSE counter[d][y]
  BY <1>4 DEF RoutesInv, RouteTypeOK
<1>8. CountersAreSpent'
  <2> SUFFICES ASSUME NEW d \in Convos, NEW y \in Counters
               PROVE  counter'[d][y] <= Cardinality(Spent')
    BY DEF CountersAreSpent
  <2>1. counter[d][y] \in Nat /\ counter[d][y] <= Cardinality(Spent)
    BY CounterTypes, TriesAreFinite DEF RoutesInv, CountersAreSpent
  <2>2. counter[c][x] <= Cardinality(Spent)
    BY DEF RoutesInv, CountersAreSpent
  <2> QED BY <1>3, <1>6, <1>7, <2>1, <2>2, SpentIsFinite
<1>9. counter' \in [Convos -> [Counters -> 0..Bound]]
  <2>1. n \in 0..Bound
    <3>1. n <= Cardinality(Spent')
      BY <1>7, <1>8 DEF CountersAreSpent
    <3> QED BY <1>3, <1>6, <3>1, TriesAreFinite
  <2>2. PICK f : f = [counter[c] EXCEPT ![x] = n]
    OBVIOUS
  <2>3. f \in [Counters -> 0..Bound]
    BY <2>1, <2>2, CounterTypes
  <2>4. counter' = [counter EXCEPT ![c] = f]
    BY <1>4, <2>2
  <2> QED BY <2>3, <2>4 DEF RoutesInv, RouteTypeOK, Bound
<1>10. \A d \in Convos, y \in Counters :
         directed'[d][y] = IF d = c /\ y = x /\ ~ (n >= 3) THEN directed[d][y] \cup {m} ELSE directed[d][y]
  BY <1>4 DEF RoutesInv, RouteTypeOK
<1>11. directed' \in [Convos -> [Counters -> SUBSET Msgs]]
  <2>1. CASE n >= 3
    BY <1>4, <2>1 DEF RoutesInv, RouteTypeOK
  <2>2. CASE ~ (n >= 3)
    <3>1. PICK f : f = [directed[c] EXCEPT ![x] = @ \cup {m}]
      OBVIOUS
    <3>2. f \in [Counters -> SUBSET Msgs]
      BY <3>1, CounterTypes
    <3>3. directed' = [directed EXCEPT ![c] = f]
      BY <1>4, <2>2, <3>1
    <3> QED BY <3>2, <3>3 DEF RoutesInv, RouteTypeOK
  <2> QED BY <2>1, <2>2
<1>12. DirectedAreCounted'
  <2> SUFFICES ASSUME NEW d \in Convos, NEW y \in Counters
               PROVE  /\ Cardinality(directed'[d][y]) <= counter'[d][y]
                      /\ Cardinality(directed'[d][y]) <= 2
    BY DEF DirectedAreCounted
  <2>1. /\ Cardinality(directed[d][y]) <= counter[d][y] /\ Cardinality(directed[d][y]) <= 2
        /\ IsFiniteSet(directed[d][y]) /\ Cardinality(directed[d][y]) \in Nat
    BY CounterTypes DEF RoutesInv, DirectedAreCounted
  <2>2. CASE d = c /\ y = x /\ ~ (n >= 3)
    <3>1. Cardinality(directed[d][y] \cup {m}) =
            IF m \in directed[d][y] THEN Cardinality(directed[d][y])
                                    ELSE Cardinality(directed[d][y]) + 1
      BY <2>1, FS_AddElement
    <3>2. directed'[d][y] = directed[d][y] \cup {m} /\ counter'[d][y] = n
      BY <1>7, <1>10, <2>2
    <3>3. counter[d][y] = n - 1
      BY <1>3, <2>2
    <3> QED BY <1>3, <2>1, <2>2, <3>1, <3>2, <3>3
  <2>3. CASE d = c /\ y = x /\ n >= 3
    <3>1. directed'[d][y] = directed[d][y] /\ counter'[d][y] = n /\ counter[d][y] = n - 1
      BY <1>3, <1>7, <1>10, <2>3
    <3> QED BY <1>3, <2>1, <3>1
  <2>4. CASE ~ (d = c /\ y = x)
    <3>1. directed'[d][y] = directed[d][y] /\ counter'[d][y] = counter[d][y]
      BY <1>7, <1>10, <2>4
    <3> QED BY <2>1, <3>1
  <2> QED BY <2>2, <2>3, <2>4
<1>13. attempt' \in [Msgs -> Attempt] /\ AttemptsAreOK'
  BY <1>4, <1>5, AttemptMoves DEF RoutesInv, content
<1>14. RouteTypeOK'
  BY <1>4, <1>9, <1>11, <1>13, Stays DEF RoutesInv, RouteTypeOK, Bound
<1>15. OrderInv'
  <2>1. Quiet(attempt[m], a) /\ said' = said /\ order' = order /\ beside' = beside
    BY <1>4, <1>5 DEF Quiet
  <2> QED BY <1>5, <2>1, QuietOrders
<1> QED BY <1>4, <1>8, <1>12, <1>13, <1>14, <1>15, Stays DEF RoutesInv

(* The counters of a conversation that are set back, with what was         *)
(* directed since.                                                         *)
LEMMA CountersReset ==
  ASSUME RoutesInv, counter' \in [Convos -> [Counters -> Nat]],
         \A d \in Convos, y \in Counters :
           \/ counter'[d][y] = counter[d][y] /\ directed'[d][y] = directed[d][y]
           \/ counter'[d][y] = 0 /\ directed'[d][y] = {},
         Cardinality(Spent) <= Cardinality(Spent'), Cardinality(Spent') \in Nat
  PROVE  /\ counter' \in [Convos -> [Counters -> 0..Bound]]
         /\ CountersAreSpent' /\ DirectedAreCounted'
<1>1. ASSUME NEW d \in Convos, NEW y \in Counters
      PROVE  /\ counter'[d][y] \in 0..Bound
             /\ counter'[d][y] <= Cardinality(Spent')
             /\ Cardinality(directed'[d][y]) <= counter'[d][y]
             /\ Cardinality(directed'[d][y]) <= 2
  <2>1. /\ counter[d][y] \in 0..Bound /\ counter[d][y] <= Cardinality(Spent)
        /\ Cardinality(directed[d][y]) <= counter[d][y] /\ Cardinality(directed[d][y]) <= 2
    BY CounterTypes DEF RoutesInv, CountersAreSpent, DirectedAreCounted
  <2>2. CASE counter'[d][y] = counter[d][y] /\ directed'[d][y] = directed[d][y]
    BY <2>1, <2>2, SpentIsFinite, TriesAreFinite
  <2>3. CASE counter'[d][y] = 0 /\ directed'[d][y] = {}
    <3>1. Cardinality(directed'[d][y]) = 0
      BY <2>3, FS_EmptySet, Zenon
    <3> QED BY <2>3, <3>1, TriesAreFinite
  <2> QED BY <1>1, <2>2, <2>3
<1>2. counter' \in [Convos -> [Counters -> 0..Bound]]
  <2> SUFFICES ASSUME NEW d \in Convos PROVE counter'[d] \in [Counters -> 0..Bound]
    OBVIOUS
  <2> QED BY <1>1
<1> QED BY <1>1, <1>2 DEF CountersAreSpent, DirectedAreCounted

LEMMA ResetScopeCountersStep ==
  ASSUME RoutesInv, NEW m \in Msgs, ResetScopeCounters(m) PROVE RoutesInv'
<1>1. PICK e \in Attempt : e = attempt[m] /\ AttemptOK(e)
  BY Facts
<1>2. PICK a : a = [e EXCEPT !.pc = "lookup"]
  OBVIOUS
<1>3. /\ a \in Attempt /\ a.pc = "lookup" /\ a.basis = e.basis /\ a.text = e.text
      /\ a.began = e.began /\ a.tries = e.tries /\ a.read = e.read
  BY <1>2, AttemptPc
<1>4. /\ e.pc = "scope" /\ UNCHANGED <<said, order, cache, beside, content>>
      /\ attempt' = [attempt EXCEPT ![m] = a]
  BY <1>1, <1>2 DEF ResetScopeCounters, At
<1>5. AttemptOK(a)'
  BY <1>1, <1>3, <1>4 DEF AttemptOK, Fresh, content
<1>6. attempt' \in [Msgs -> Attempt] /\ AttemptsAreOK'
  BY <1>3, <1>4, <1>5, AttemptMoves DEF RoutesInv, content
<1>7. Cardinality(Spent) <= Cardinality(Spent') /\ Cardinality(Spent') \in Nat
  BY <1>1, <1>3, <1>4, SpentGrows DEF RoutesInv, GoesOn
<1>8. PICK c, f, g : /\ c \in Convos /\ c = Of(m) /\ f = [x \in Counters |-> 0]
                     /\ g = [x \in Counters |-> {}]
  BY Facts DEF Of
<1>9. /\ counter' = [counter EXCEPT ![c] = f] /\ directed' = [directed EXCEPT ![c] = g]
  BY <1>8 DEF ResetScopeCounters
<1>10. /\ counter' \in [Convos -> [Counters -> 0..Bound]]
       /\ directed' \in [Convos -> [Counters -> SUBSET Msgs]]
       /\ CountersAreSpent' /\ DirectedAreCounted'
  <2>1. /\ f \in [Counters -> Nat] /\ g \in [Counters -> SUBSET Msgs]
        /\ \A y \in Counters : f[y] = 0 /\ g[y] = {}
    BY <1>8
  <2>2. /\ counter' \in [Convos -> [Counters -> Nat]]
        /\ directed' \in [Convos -> [Counters -> SUBSET Msgs]]
    <3>1. counter' \in [Convos -> [Counters -> Nat]]
      BY <1>8, <1>9, <2>1, TriesAreFinite DEF RoutesInv, RouteTypeOK, Bound
    <3>2. directed' \in [Convos -> [Counters -> SUBSET Msgs]]
      BY <1>8, <1>9, <2>1 DEF RoutesInv, RouteTypeOK
    <3> QED BY <3>1, <3>2
  <2>3. \A d \in Convos, y \in Counters :
          \/ counter'[d][y] = counter[d][y] /\ directed'[d][y] = directed[d][y]
          \/ counter'[d][y] = 0 /\ directed'[d][y] = {}
    <3>1. \A d \in Convos : /\ counter'[d] = IF d = c THEN f ELSE counter[d]
                            /\ directed'[d] = IF d = c THEN g ELSE directed[d]
      BY <1>9 DEF RoutesInv, RouteTypeOK
    <3> QED BY <2>1, <3>1
  <2> QED BY <1>7, <2>2, <2>3, CountersReset
<1>11. OrderInv'
  <2>1. GoesOn(attempt[m], a) /\ Quiet(attempt[m], a)
    BY <1>1, <1>3, <1>4 DEF GoesOn, Quiet
  <2> QED BY <1>3, <1>4, <2>1, QuietOrders
<1>12. RouteTypeOK'
  BY <1>4, <1>6, <1>10, Stays DEF RoutesInv, RouteTypeOK, Bound
<1> QED BY <1>4, <1>6, <1>10, <1>11, <1>12, Stays DEF RoutesInv

(* OrderInv speaks of nothing else.                                        *)
LEMMA OrdersStay ==
  ASSUME RoutesInv, said' = said, order' = order, attempt' = attempt, beside' = beside
  PROVE  OrderInv'
<1>1. OrdersAreOpen' /\ OverlapsAreNoted' /\ ReadsAreCurrent'
  BY DEF RoutesInv, OrderInv, OrdersAreOpen, Open, OverlapsAreNoted, ReadsAreCurrent, AtRest, At, Of
<1>2. AnswersAreTried'
  BY DEF RoutesInv, OrderInv, AnswersAreTried, Given, Written
<1> QED BY <1>1, <1>2 DEF OrderInv

LEMMA AttemptsStay ==
  ASSUME RoutesInv, attempt' = attempt, now' = now, edited' = edited
  PROVE  /\ AttemptsAreOK' /\ Spent' = Spent
         /\ Cardinality(Spent) <= Cardinality(Spent') /\ Cardinality(Spent') \in Nat
<1>1. AttemptsAreOK'
  BY DEF RoutesInv, AttemptsAreOK, AttemptOK, Fresh
<1>2. Spent' = Spent
  BY DEF Spent
<1> QED BY <1>1, <1>2, SpentIsFinite

LEMMA ExpireStep == ASSUME RoutesInv, Expire PROVE RoutesInv'
<1>1. ASSUME NEW c \in Convos, ExpireOrder(c) PROVE RoutesInv'
  <2>1. /\ order' = [order EXCEPT ![c] = None]
        /\ UNCHANGED <<said, counter, cache, attempt, directed, beside, content>>
    BY <1>1 DEF ExpireOrder
  <2>2. AttemptsAreOK' /\ Spent' = Spent
    BY <2>1, AttemptsStay DEF content
  <2>3. order' \in [Convos -> Order \cup {None}] /\ \A d \in Convos : order'[d] \in {order[d], None}
    BY <2>1 DEF RoutesInv, RouteTypeOK
  <2>6. OrderInv'
    <3>1. OrdersAreOpen'
      BY <2>3 DEF RoutesInv, OrderInv, OrdersAreOpen, Open
    <3>2. OverlapsAreNoted'
      BY <2>1 DEF RoutesInv, OrderInv, OverlapsAreNoted, AtRest, Of
    <3>3. ReadsAreCurrent'
      <4> SUFFICES ASSUME NEW n \in Msgs, attempt[n].pc = "step", n \notin beside
                   PROVE  order'[said[n].convo] \in {attempt[n].read, None}
        BY <2>1 DEF ReadsAreCurrent, At, Of
      <4>1. order[said[n].convo] \in {attempt[n].read, None}
        BY DEF RoutesInv, OrderInv, ReadsAreCurrent, At, Of
      <4> QED BY <2>3, <4>1, Facts
    <3>4. AnswersAreTried'
      <4> SUFFICES ASSUME NEW k \in Msgs
                   PROVE  /\ \A d \in Convos : Cardinality(Given(order'[d], k)) <= Written(k)
                          /\ \A n \in Msgs : Cardinality(Given(attempt[n].read, k)) <= Written(k)
        BY <2>1 DEF AnswersAreTried, Given, Written
      <4>1. \A d \in Convos : Cardinality(Given(order[d], k)) <= Written(k)
        BY DEF RoutesInv, OrderInv, AnswersAreTried
      <4>2. Written(k) \in Nat /\ Cardinality(Given(None, k)) <= Written(k)
        BY Attempts, GivenIsFinite DEF RoutesInv
      <4> QED BY <2>3, <4>1, <4>2 DEF RoutesInv, OrderInv, AnswersAreTried
    <3> QED BY <3>1, <3>2, <3>3, <3>4 DEF OrderInv
  <2>4. RouteTypeOK'
    BY <2>1, <2>3 DEF RoutesInv, RouteTypeOK, content
  <2>5. CacheIsOK' /\ CountersAreSpent' /\ DirectedAreCounted'
    BY <2>1, <2>2 DEF RoutesInv, CacheIsOK, AnswerOK, Fresh, content, CountersAreSpent, DirectedAreCounted
  <2> QED BY <2>2, <2>4, <2>5, <2>6 DEF RoutesInv
<1>2. ASSUME NEW c \in Convos, NEW x \in Counters, ExpireCounter(c, x) PROVE RoutesInv'
  <2>1. /\ counter' = [counter EXCEPT ![c][x] = 0] /\ directed' = [directed EXCEPT ![c][x] = {}]
        /\ UNCHANGED <<said, order, cache, attempt, beside, content>>
    BY <1>2 DEF ExpireCounter
  <2>2. PICK f, g : f = [counter[c] EXCEPT ![x] = 0] /\ g = [directed[c] EXCEPT ![x] = {}]
    OBVIOUS
  <2>3. counter' = [counter EXCEPT ![c] = f] /\ directed' = [directed EXCEPT ![c] = g]
    BY <2>1, <2>2
  <2>4. /\ f \in [Counters -> Nat] /\ g \in [Counters -> SUBSET Msgs]
        /\ \A y \in Counters : \/ f[y] = counter[c][y] /\ g[y] = directed[c][y]
                               \/ f[y] = 0 /\ g[y] = {}
    BY <2>2, CounterTypes, TriesAreFinite
  <2>5. AttemptsAreOK' /\ Cardinality(Spent) <= Cardinality(Spent') /\ Cardinality(Spent') \in Nat
    BY <2>1, AttemptsStay DEF content
  <2>6. /\ counter' \in [Convos -> [Counters -> 0..Bound]]
        /\ directed' \in [Convos -> [Counters -> SUBSET Msgs]]
        /\ CountersAreSpent' /\ DirectedAreCounted'
    <3>1. /\ counter' \in [Convos -> [Counters -> Nat]]
          /\ directed' \in [Convos -> [Counters -> SUBSET Msgs]]
      BY <2>3, <2>4, TriesAreFinite DEF RoutesInv, RouteTypeOK, Bound
    <3>2. \A d \in Convos, y \in Counters :
            \/ counter'[d][y] = counter[d][y] /\ directed'[d][y] = directed[d][y]
            \/ counter'[d][y] = 0 /\ directed'[d][y] = {}
      BY <2>3, <2>4 DEF RoutesInv, RouteTypeOK
    <3> QED BY <2>5, <3>1, <3>2, CountersReset
  <2>7. RouteTypeOK'
    BY <2>1, <2>6, Stays DEF RoutesInv, RouteTypeOK, Bound
  <2> QED BY <2>1, <2>5, <2>6, <2>7, Stays, OrdersStay DEF RoutesInv
<1> QED BY <1>1, <1>2 DEF Expire

(* An attempt at work began in this tick, so that it is one tick old after *)
(* it.                                                                     *)
LEMMA TickStep == ASSUME RoutesInv, Tick PROVE RoutesInv'
<1>1. /\ now \in Nat /\ now' = now + 1 /\ now' \in Times \ {0}
      /\ UNCHANGED <<said, order, counter, cache, attempt, directed, beside, edited>>
  BY RoutesAssumption DEF RoutesInv, RouteTypeOK, Tick, Times
<1>2. AttemptsAreOK'
  <2> SUFFICES ASSUME NEW m \in Msgs PROVE AttemptOK(attempt[m])'
    BY DEF AttemptsAreOK
  <2>1. PICK e \in Attempt : e = attempt[m] /\ AttemptOK(e)
    BY Facts
  <2>2. e.pc \notin {"waiting", "done", "failed"} => e.began = now
    BY <2>1 DEF Tick, AtRest
  <2>3. AttemptOK(e)'
    BY <1>1, <2>1, <2>2 DEF AttemptOK, Fresh
  <2> QED BY <1>1, <2>1, <2>3
<1>3. CacheIsOK'
  <2> SUFFICES ASSUME NEW q \in Questions PROVE AnswerOK(cache[q])'
    BY DEF CacheIsOK
  <2>1. cache[q] # None => cache[q].since \in Nat
    BY DEF RoutesInv, RouteTypeOK, Answer, Times
  <2> QED BY <1>1, <2>1 DEF RoutesInv, CacheIsOK, AnswerOK, Fresh
<1>4. RouteTypeOK'
  BY <1>1 DEF RoutesInv, RouteTypeOK
<1>5. CountersAreSpent' /\ DirectedAreCounted' /\ OrderInv'
  BY <1>1, OrdersStay DEF RoutesInv, CountersAreSpent, DirectedAreCounted, Spent
<1> QED BY <1>2, <1>3, <1>4, <1>5 DEF RoutesInv

(* What is older than the edit was read no later than it.                  *)
LEMMA EditStep == ASSUME RoutesInv, NEW part \in Parts, Edit(part) PROVE RoutesInv'
<1>1. /\ now \in Times /\ now \in Nat /\ edited' = [edited EXCEPT ![part] = now]
      /\ UNCHANGED <<said, order, counter, cache, attempt, directed, beside, now>>
  BY DEF RoutesInv, RouteTypeOK, Edit, Times
<1>2. edited' \in [Parts -> Times] /\ \A p \in Parts : edited'[p] = IF p = part THEN now ELSE edited[p]
  BY <1>1 DEF RoutesInv, RouteTypeOK
<1>3. ASSUME NEW basis, NEW p \in Parts, NEW t \in Nat, NEW d \in Nat, t <= now, Fresh(basis, p, t, d)
      PROVE  Fresh(basis, p, t, d)'
  <2>1. CASE p = part
    BY <1>1, <1>2, <1>3, <2>1 DEF Fresh
  <2>2. CASE p # part
    BY <1>1, <1>2, <1>3, <2>2 DEF Fresh
  <2> QED BY <2>1, <2>2
<1>4. Ttl \in Nat /\ "profile" \in Parts /\ "kb" \in Parts
  BY RoutesAssumption DEF Parts
<1>5. AttemptsAreOK'
  <2> SUFFICES ASSUME NEW m \in Msgs PROVE AttemptOK(attempt[m])'
    BY DEF AttemptsAreOK
  <2>1. PICK e \in Attempt : e = attempt[m] /\ AttemptOK(e)
    BY Facts
  <2>2. e.began \in Nat /\ (e.pc \notin {"waiting", "done", "failed"} => e.began <= now)
    BY <2>1 DEF Attempt, AttemptOK, Times
  <2>3. e.pc \in {"route", "scope", "lookup", "generate", "store"} => Fresh(e.basis, "profile", e.began, 0)'
    BY <1>3, <1>4, <2>1, <2>2 DEF AttemptOK
  <2>4. e.pc \in {"scope", "lookup", "generate", "store"} => Fresh(e.basis, "kb", e.began, 0)'
    BY <1>3, <1>4, <2>1, <2>2 DEF AttemptOK
  <2>5. e.pc = "send" /\ e.text = "answer" => \A p \in Parts : Fresh(e.basis, p, e.began, Ttl)'
    BY <1>3, <1>4, <2>1, <2>2 DEF AttemptOK
  <2>6. AttemptOK(e)'
    BY <1>1, <2>1, <2>3, <2>4, <2>5 DEF AttemptOK
  <2> QED BY <1>1, <2>1, <2>6
<1>6. CacheIsOK'
  <2> SUFFICES ASSUME NEW q \in Questions, cache[q] # None
               PROVE  cache[q].since <= now /\ \A p \in Parts : Fresh(cache[q].basis, p, cache[q].since, 1)'
    BY <1>1 DEF CacheIsOK, AnswerOK
  <2>1. cache[q].since \in Nat /\ cache[q].since <= now
        /\ \A p \in Parts : Fresh(cache[q].basis, p, cache[q].since, 1)
    BY DEF RoutesInv, RouteTypeOK, Answer, Times, CacheIsOK, AnswerOK
  <2>2. PICK e : e = cache[q]
    OBVIOUS
  <2>3. PICK basis, t : t \in Nat /\ basis = e.basis /\ t = e.since
    BY <2>1, <2>2
  <2>4. \A p \in Parts : Fresh(basis, p, t, 1)'
    BY <1>3, <2>1, <2>2, <2>3
  <2>5. \A p \in Parts : Fresh(e.basis, p, e.since, 1)'
    BY <2>3, <2>4
  <2> QED BY <1>1, <2>1, <2>2, <2>5
<1>7. RouteTypeOK'
  BY <1>1, <1>2 DEF RoutesInv, RouteTypeOK
<1>8. CountersAreSpent' /\ DirectedAreCounted' /\ OrderInv'
  BY <1>1, OrdersStay DEF RoutesInv, CountersAreSpent, DirectedAreCounted, Spent
<1> QED BY <1>5, <1>6, <1>7, <1>8 DEF RoutesInv

-----------------------------------------------------------------------------
LEMMA RoutesInit == RouteInit => RoutesInv
<1> SUFFICES ASSUME RouteInit PROVE RoutesInv
  OBVIOUS
<1>1. 0 \in 0..Bound /\ 0 < MaxTries /\ 1 \in Times \ {0} /\ 0 \in Times
  BY TriesAreFinite, RoutesAssumption DEF Times
<1>2. counter \in [Convos -> [Counters -> 0..Bound]]
  BY <1>1 DEF RouteInit
<1>3. /\ said \in [Msgs -> [convo : Convos, kind : Kinds, asks : Questions]]
      /\ order \in [Convos -> Order \cup {None}] /\ cache \in [Questions -> Answer \cup {None}]
      /\ directed \in [Convos -> [Counters -> SUBSET Msgs]]
  BY DEF RouteInit
<1>4. attempt \in [Msgs -> Attempt]
  BY WaitingType DEF RouteInit
<1>5. now \in Times \ {0} /\ edited \in [Parts -> Times]
  BY <1>1 DEF RouteInit
<1>6. RouteTypeOK
  BY <1>2, <1>3, <1>4, <1>5 DEF RouteInit, RouteTypeOK, Bound
<1>7. AttemptsAreOK
  <2>1. None # "answer"
    BY NoneIsNoOrder DEF Texts, OrderTexts
  <2>2. AttemptOK(Waiting)
    BY <1>1, <2>1, WaitingType DEF AttemptOK, Open
  <2> QED BY <2>2 DEF RouteInit, AttemptsAreOK
<1>8. CacheIsOK /\ OrderInv
  <2>1. \A m \in Msgs : AtRest(m) /\ ~At(m, "step") /\ attempt[m].read = None
    BY WaitingType DEF RouteInit, AtRest, At
  <2>2. \A k \in Msgs : 0 <= Written(k) /\ Cardinality(Given(None, k)) = 0
    BY <1>6, Attempts, GivenIsFinite
  <2>3. AnswersAreTried
    BY <2>1, <2>2 DEF RouteInit, AnswersAreTried
  <2> QED BY <2>1, <2>3 DEF RouteInit, CacheIsOK, AnswerOK, OrderInv, OrdersAreOpen, Open,
                            OverlapsAreNoted, ReadsAreCurrent
<1>9. CountersAreSpent
  BY SpentIsFinite DEF RouteInit, CountersAreSpent
<1>10. DirectedAreCounted
  BY FS_EmptySet DEF RouteInit, DirectedAreCounted
<1> QED BY <1>6, <1>7, <1>8, <1>9, <1>10 DEF RoutesInv

LEMMA RoutesNext == RoutesInv /\ [RouteNext]_routeVars => RoutesInv'
<1> SUFFICES ASSUME RoutesInv, [RouteNext]_routeVars PROVE RoutesInv'
  OBVIOUS
<1>1. ASSUME NEW m \in Msgs, Start(m) PROVE RoutesInv'
  BY <1>1, StartStep
<1>2. ASSUME NEW m \in Msgs, Route(m) PROVE RoutesInv'
  BY <1>2, GreetStep, BumpCounterStep, GetOrderStateStep, SetOrderStateStep, ReadKnowledgeStep,
     ResetScopeCountersStep, GetCachedAnswerStep, GenerateReplyStep, SetCachedAnswerStep DEF Route
<1>3. ASSUME NEW m \in Msgs, Send(m) \/ Record(m) \/ AttemptFails(m) PROVE RoutesInv'
  BY <1>3, SendStep, RecordStep, AttemptFailsStep
<1>4. ASSUME Expire PROVE RoutesInv'
  BY <1>4, ExpireStep
<1>5. ASSUME Tick PROVE RoutesInv'
  BY <1>5, TickStep
<1>6. ASSUME UpdateProfile \/ EditKnowledge PROVE RoutesInv'
  BY <1>6, EditStep DEF UpdateProfile, EditKnowledge, Parts
<1>7. CASE UNCHANGED routeVars
  <2>1. UNCHANGED <<said, order, counter, cache, attempt, directed, beside, now, edited>>
    BY <1>7 DEF routeVars, content
  <2>2. RouteTypeOK'
    BY <2>1 DEF RoutesInv, RouteTypeOK
  <2>3. AttemptsAreOK' /\ CacheIsOK'
    BY <2>1 DEF RoutesInv, AttemptsAreOK, AttemptOK, CacheIsOK, AnswerOK, Fresh
  <2>4. CountersAreSpent' /\ DirectedAreCounted' /\ OrderInv'
    BY <2>1, OrdersStay DEF RoutesInv, CountersAreSpent, DirectedAreCounted, Spent
  <2> QED BY <2>2, <2>3, <2>4 DEF RoutesInv
<1> QED BY <1>1, <1>2, <1>3, <1>4, <1>5, <1>6, <1>7 DEF RouteNext

(* The step that leaves "step" for "send" is the attempt's own.            *)
LEMMA StepIsWritten ==
  ASSUME RoutesInv, RouteNext, NEW m \in Msgs, At(m, "step"), At(m, "send")'
  PROVE  SetOrderState(m)
<1>1. attempt[m].pc = "step" /\ attempt'[m].pc = "send" /\ attempt' # attempt
  BY DEF At
<1>2. ASSUME NEW n \in Msgs, Start(n) \/ Route(n) \/ Send(n) \/ Record(n) \/ AttemptFails(n)
      PROVE  SetOrderState(m)
  <2>1. ASSUME n # m PROVE FALSE
    <3>1. \E a : attempt' = [attempt EXCEPT ![n] = a]
      BY <1>2 DEF Start, Route, Greet, Escalate, BumpCounter, GetOrderState, SetOrderState, Reply,
                  ReadKnowledge, ResetScopeCounters, GetCachedAnswer, GenerateReply, SetCachedAnswer,
                  Send, Record, AttemptFails
    <3>2. attempt'[m] = attempt[m]
      BY <2>1, <3>1 DEF RoutesInv, RouteTypeOK
    <3> QED BY <1>1, <3>2
  <2>2. Start(m) \/ Route(m) \/ Send(m) \/ Record(m) \/ AttemptFails(m)
    BY <1>2, <2>1
  <2>3. ~Start(m) /\ ~Send(m) /\ ~Record(m)
    BY <1>1 DEF Start, Send, Record, At
  <2>4. ~AttemptFails(m)
    <3> SUFFICES ASSUME AttemptFails(m) PROVE FALSE
      OBVIOUS
    <3>1. PICK i, s : /\ s \in {"waiting", "failed"}
                      /\ attempt' = [attempt EXCEPT ![m] = [Waiting EXCEPT !.tries = i, !.pc = s]]
      BY DEF AttemptFails
    <3>2. attempt'[m] = [Waiting EXCEPT !.tries = i, !.pc = s]
      BY <3>1 DEF RoutesInv, RouteTypeOK
    <3>3. attempt'[m].pc = s
      BY <3>2 DEF Waiting
    <3> QED BY <1>1, <3>1, <3>3
  <2>5. Route(m) => SetOrderState(m)
    BY <1>1 DEF Route, Greet, Escalate, BumpCounter, GetOrderState, ReadKnowledge,
                ResetScopeCounters, GetCachedAnswer, GenerateReply, SetCachedAnswer, At
  <2> QED BY <2>2, <2>3, <2>4, <2>5
<1>3. ~Expire /\ ~Tick /\ ~UpdateProfile /\ ~EditKnowledge
  BY <1>1 DEF Expire, ExpireOrder, ExpireCounter, Tick, UpdateProfile, EditKnowledge, Edit
<1> QED BY <1>2, <1>3 DEF RouteNext

LEMMA RoutesInductive == RouteSpec => []RoutesInv
<1> QED BY RoutesInit, RoutesNext, PTL DEF RouteSpec

(* Every attempt, order, counter and cached answer has its shape, and the  *)
(* counters stay within the attempts that the queue allows.                *)
THEOREM RoutesTypes == RouteSpec => []RouteTypeOK
<1>1. RoutesInv => RouteTypeOK
  BY DEF RoutesInv
<1> QED BY <1>1, RoutesInductive, PTL

(* A message answers no more questions of an order than it was attempted,  *)
(* however attempts overlap, fail and are repeated and whenever the state  *)
(* in Redis expires: a state is written that was made of one read before,  *)
(* and a message has written no less since.                                *)
THEOREM OneAnswerForATry == RouteSpec => []OneAnswerPerTry
<1>1. RoutesInv => OneAnswerPerTry
  BY DEF RoutesInv, OrderInv, AnswersAreTried, OneAnswerPerTry
<1> QED BY <1>1, RoutesInductive, PTL

(* Only an attempt that overlapped another of the conversation replaces an *)
(* answer or ends an order early: one that was alone finds the order as it *)
(* read it, or expired.                                                    *)
THEOREM AloneNothingIsLost == RouteSpec => AnswersStay
<1>1. RoutesInv /\ [RouteNext]_routeVars => [KeepsAnswers]_routeVars
  <2> SUFFICES ASSUME RoutesInv, RouteNext, NEW m \in Msgs, At(m, "step"), At(m, "send")', m \notin beside,
                      order[Of(m)] # None
               PROVE  IF order'[Of(m)] = None THEN order[Of(m)].step = "ask_address"
                      ELSE \A f \in Fields : order[Of(m)][f] \in {None, order'[Of(m)][f]}
    BY DEF KeepsAnswers
  <2>1. SetOrderState(m)
    BY StepIsWritten
  <2>2. PICK s \in Order : s = order[Of(m)] /\ s = attempt[m].read /\ Open(s)
    BY Facts DEF RoutesInv, OrderInv, ReadsAreCurrent, OrdersAreOpen, Of
  <2>3. PICK next \in NextOrders(m, s) : next = order'[Of(m)]
    BY <2>1, <2>2, Facts DEF SetOrderState, Of
  <2>4. s # None
    BY <2>2
  <2> QED BY <2>2, <2>3, <2>4, NextOrdersFollow DEF Follows
<1> QED BY <1>1, RoutesInductive, PTL DEF RouteSpec, AnswersStay

(* Between two resets of a counter at most two messages get a reply that   *)
(* directs the customer.                                                   *)
THEOREM FewAreDirected == RouteSpec => []AtMostTwoDirected
<1>1. RoutesInv => AtMostTwoDirected
  BY DEF RoutesInv, DirectedAreCounted, AtMostTwoDirected
<1> QED BY <1>1, RoutesInductive, PTL

(* An edit is in every answer that is sent a cached answer's life and two  *)
(* ticks after it: an answer is made of content as old as its attempt or   *)
(* as a cached answer that was itself made by an attempt, never of one     *)
(* that was handed on twice.                                               *)
THEOREM EditsReachCustomers == RouteSpec => []EditsComeThrough
<1>1. RoutesInv => EditsComeThrough
  <2> SUFFICES ASSUME RoutesInv, NEW m \in Msgs, NEW p \in Parts, attempt[m].pc = "send",
                      attempt[m].text = "answer", now >= edited[p] + Ttl + 2
               PROVE  attempt[m].basis[p] = edited[p]
    BY DEF EditsComeThrough, At
  <2>1. /\ attempt[m].began \in Nat /\ now \in Nat /\ edited[p] \in Nat /\ Ttl \in Nat
    BY RoutesAssumption DEF RoutesInv, RouteTypeOK, Attempt, Times
  <2>2. /\ now <= attempt[m].began + 1
        /\ Fresh(attempt[m].basis, p, attempt[m].began, Ttl)
    BY DEF RoutesInv, AttemptsAreOK, AttemptOK
  <2> QED BY <2>1, <2>2 DEF Fresh
<1> QED BY <1>1, RoutesInductive, PTL
=============================================================================
