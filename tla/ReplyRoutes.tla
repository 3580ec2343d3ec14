---------------------------- MODULE ReplyRoutes ----------------------------
(***************************************************************************)
(* The routes of processAutoReply that AutoReply leaves open: how a text   *)
(* message is classified and answered, with the state the routes keep in   *)
(* Redis: the step of an order, two counters per conversation and a cache  *)
(* of generated answers, and with the profile and the knowledge base that  *)
(* the answers are made of.  A message is tried again when any step of its *)
(* attempt fails; what the attempt wrote to Redis stays.                   *)
(***************************************************************************)
EXTENDS Naturals, FiniteSets

CONSTANTS
  Convos, Msgs, Questions,
  Kinds,      \* the kinds of text the customers of a run write
  MaxTries,   \* attempts of a job
  Workers,    \* attempts at work at the same time
  Ttl,        \* life of a cached answer, in ticks
  MaxTime,    \* bound on the clock
  None

ASSUME RoutesAssumption ==
  /\ IsFiniteSet(Msgs) /\ MaxTries \in Nat \ {0} /\ Workers \in Nat \ {0}
  /\ Ttl \in Nat /\ MaxTime \in Nat \ {0}
  /\ None \notin Msgs \cup Convos
  /\ Kinds \subseteq {"greeting", "injection", "sensitive", "offscope", "remark",
                      "order", "orderAddress", "question"}

VARIABLES
  said,      \* per message: its conversation, its kind, the question it asks
  order,     \* ai:order of a conversation; None when absent or expired
  counter,   \* ai:counter, offscope and nonscope
  cache,     \* ai:faqcache: the history and the content an answer was made of
  attempt,   \* per message
  directed,  \* not in the code: messages directed since the counter was reset
  beside,    \* not in the code: messages whose attempt overlaps another of the conversation
  now,
  edited     \* when the profile and the knowledge base were edited; 0: never

content == <<now, edited>>
routeVars == <<said, order, counter, cache, attempt, directed, beside, now, edited>>

Parts == {"profile", "kb"}
Times == 0..MaxTime
Counters == {"offscope", "nonscope"}
OrderTexts == {"askProduct", "askVariant", "askQty", "askAddress", "confirm", "continue"}
Texts == OrderTexts \cup {"greet", "handover", "direction", "default", "answer"}

(* An answer is the message that gave it.                                  *)
Fields == {"product", "variant", "qty"}
Order == [step : {"ask_product", "ask_variant", "ask_qty", "ask_address"},
          product : Msgs \cup {None}, variant : Msgs \cup {None}, qty : Msgs \cup {None}]

Attempt == [pc : {"waiting", "route", "scope", "step", "lookup", "generate",
                  "store", "send", "record", "done", "failed"},
            tries : 0..MaxTries, read : Order \cup {None}, text : Texts \cup {None},
            of : Convos \cup {None}, began : Times, basis : [Parts -> Times]]
Answer == [of : Convos, basis : [Parts -> Times], since : Times]

ASSUME NoneIsNoOrder == None \notin Order \cup Texts

RouteTypeOK ==
  /\ said \in [Msgs -> [convo : Convos, kind : Kinds, asks : Questions]]
  /\ order \in [Convos -> Order \cup {None}]
  /\ counter \in [Convos -> [Counters -> 0..(MaxTries * Cardinality(Msgs))]]
  /\ cache \in [Questions -> Answer \cup {None}]
  /\ attempt \in [Msgs -> Attempt]
  /\ directed \in [Convos -> [Counters -> SUBSET Msgs]]
  /\ beside \subseteq Msgs
  /\ now \in Times \ {0}
  /\ edited \in [Parts -> Times]

Waiting == [pc |-> "waiting", tries |-> 0, read |-> None, text |-> None, of |-> None,
            began |-> 0, basis |-> [p \in Parts |-> 0]]

RouteInit ==
  /\ said \in [Msgs -> [convo : Convos, kind : Kinds, asks : Questions]]
  /\ order = [c \in Convos |-> None]
  /\ counter = [c \in Convos |-> [x \in Counters |-> 0]]
  /\ cache = [q \in Questions |-> None]
  /\ attempt = [m \in Msgs |-> Waiting]
  /\ directed = [c \in Convos |-> [x \in Counters |-> {}]]
  /\ beside = {}
  /\ now = 1
  /\ edited = [p \in Parts |-> 0]

Of(m) == said[m].convo
At(m, step) == attempt[m].pc = step
AtRest(m) == attempt[m].pc \in {"waiting", "done", "failed"}
Reply(m, text) == attempt' = [attempt EXCEPT ![m] = [@ EXCEPT !.pc = "send", !.text = text]]

-----------------------------------------------------------------------------
(* The rows it needs are read, the profile among them.                     *)
Start(m) ==
  /\ At(m, "waiting")
  /\ Cardinality({n \in Msgs : ~AtRest(n)}) < Workers
  /\ attempt' = [attempt EXCEPT ![m] = [@ EXCEPT !.pc = "route", !.began = now,
                                                !.basis["profile"] = edited["profile"]]]
  /\ LET others == {n \in Msgs : ~AtRest(n) /\ Of(n) = Of(m)} IN
     beside' = IF others = {} THEN beside ELSE beside \cup others \cup {m}
  /\ UNCHANGED <<said, order, counter, cache, directed, content>>

Greet(m) ==
  /\ At(m, "route") /\ said[m].kind = "greeting"
  /\ Reply(m, "greet")
  /\ UNCHANGED <<said, order, counter, cache, directed, beside, content>>

Escalate(m) ==
  /\ At(m, "route") /\ said[m].kind = "sensitive"
  /\ Reply(m, "handover")
  /\ UNCHANGED <<said, order, counter, cache, directed, beside, content>>

Directs(m) == said[m].kind \in {"injection", "offscope", "remark"}
CounterOf(m) == IF said[m].kind = "remark" THEN "nonscope" ELSE "offscope"

(* Mutant: the default reply starts the count again.                       *)
BumpCounterWrapping(m) ==
  LET c == Of(m)  x == CounterOf(m)  n == counter[c][x] + 1 IN
  /\ At(m, "route") /\ Directs(m)
  /\ counter' = [counter EXCEPT ![c][x] = IF n >= 3 THEN 0 ELSE n]
  /\ Reply(m, IF n >= 3 THEN "default" ELSE "direction")
  /\ directed' = IF n >= 3 THEN directed ELSE [directed EXCEPT ![c][x] = @ \cup {m}]
  /\ UNCHANGED <<said, order, cache, beside, content>>

(* bumpCounter: INCR, atomic.  From the third on the reply is the default  *)
(* one; before, one that directs the customer to the business.             *)
BumpCounter(m) ==
  LET c == Of(m)  x == CounterOf(m)  n == counter[c][x] + 1 IN
  /\ At(m, "route") /\ Directs(m)
  /\ counter' = [counter EXCEPT ![c][x] = n]
  /\ Reply(m, IF n >= 3 THEN "default" ELSE "direction")
  /\ directed' = IF n >= 3 THEN directed ELSE [directed EXCEPT ![c][x] = @ \cup {m}]
  /\ UNCHANGED <<said, order, cache, beside, content>>

(* After six hours without a bump.                                         *)
ExpireCounter(c, x) ==
  /\ counter[c][x] > 0
  /\ counter' = [counter EXCEPT ![c][x] = 0]
  /\ directed' = [directed EXCEPT ![c][x] = {}]
  /\ UNCHANGED <<said, order, cache, attempt, beside, content>>

-----------------------------------------------------------------------------
GetOrderState(m) ==
  /\ At(m, "route") /\ said[m].kind \in {"order", "orderAddress"}
  /\ attempt' = [attempt EXCEPT ![m] = [@ EXCEPT !.pc = "step", !.read = order[Of(m)]]]
  /\ UNCHANGED <<said, order, counter, cache, directed, beside, content>>

Asking(step, product, variant, qty) ==
  [step |-> step, product |-> product, variant |-> variant, qty |-> qty]

(* Mutant: the answers given so far are not carried over.                  *)
NextOrdersForgetting(m, s) ==
  IF s = None THEN {Asking("ask_product", None, None, None)}
  ELSE CASE s.step = "ask_product" -> {Asking("ask_variant", m, None, None)}
         [] s.step = "ask_variant" -> {Asking("ask_qty", None, m, None)}
         [] s.step = "ask_qty" -> {Asking("ask_address", None, None, qty) : qty \in {m, None}}
         [] OTHER -> {IF said[m].kind = "orderAddress" THEN None ELSE s}

(* Mutant: the message that names the product is taken for the variant     *)
(* too.                                                                    *)
NextOrdersAtOnce(m, s) ==
  IF s = None THEN {Asking("ask_product", None, None, None)}
  ELSE CASE s.step = "ask_product" -> {Asking("ask_qty", m, m, None)}
         [] s.step = "ask_variant" -> {[s EXCEPT !.step = "ask_qty", !.variant = m]}
         [] s.step = "ask_qty" -> {[s EXCEPT !.step = "ask_address", !.qty = qty] : qty \in {m, None}}
         [] OTHER -> {IF said[m].kind = "orderAddress" THEN None ELSE s}

(* The state after the message, None when the order is complete.  A text   *)
(* without a number leaves the quantity open.                              *)
NextOrders(m, s) ==
  IF s = None THEN {Asking("ask_product", None, None, None)}
  ELSE CASE s.step = "ask_product" -> {Asking("ask_variant", m, None, None)}
         [] s.step = "ask_variant" -> {[s EXCEPT !.step = "ask_qty", !.variant = m]}
         [] s.step = "ask_qty" -> {[s EXCEPT !.step = "ask_address", !.qty = qty] : qty \in {m, None}}
         [] OTHER -> {IF said[m].kind = "orderAddress" THEN None ELSE s}

OrderText(next) ==
  IF next = None THEN "confirm"
  ELSE CASE next.step = "ask_product" -> "askProduct"
         [] next.step = "ask_variant" -> "askVariant"
         [] next.step = "ask_qty" -> "askQty"
         [] OTHER -> "askAddress"

(* SET or DEL of the state that was read, then the question that fits.     *)
SetOrderState(m) ==
  /\ At(m, "step")
  /\ \E next \in NextOrders(m, attempt[m].read) :
       \/ /\ next # attempt[m].read
          /\ order' = [order EXCEPT ![Of(m)] = next]
          /\ Reply(m, OrderText(next))
       \/ /\ next = attempt[m].read
          /\ Reply(m, "continue")
          /\ UNCHANGED order
  /\ UNCHANGED <<said, counter, cache, directed, beside, content>>

(* Two hours after its last SET.                                           *)
ExpireOrder(c) ==
  /\ order[c] # None
  /\ order' = [order EXCEPT ![c] = None]
  /\ UNCHANGED <<said, counter, cache, attempt, directed, beside, content>>

-----------------------------------------------------------------------------
ReadKnowledge(m) ==
  /\ At(m, "route") /\ said[m].kind = "question"
  /\ attempt' = [attempt EXCEPT ![m] = [@ EXCEPT !.pc = "scope",
                                                !.basis["kb"] = edited["kb"]]]
  /\ UNCHANGED <<said, order, counter, cache, directed, beside, content>>

(* A question ends both counts.                                            *)
ResetScopeCounters(m) ==
  /\ At(m, "scope")
  /\ counter' = [counter EXCEPT ![Of(m)] = [x \in Counters |-> 0]]
  /\ directed' = [directed EXCEPT ![Of(m)] = [x \in Counters |-> {}]]
  /\ attempt' = [attempt EXCEPT ![m].pc = "lookup"]
  /\ UNCHANGED <<said, order, cache, beside, content>>

(* Mutant: an answer that is used lives on.                                *)
GetCachedAnswerSliding(m) ==
  /\ At(m, "lookup")
  /\ LET q == said[m].asks  kept == cache[q] IN
     IF kept # None /\ now < kept.since + Ttl
       THEN /\ attempt' = [attempt EXCEPT ![m] = [@ EXCEPT
                 !.pc = "send", !.text = "answer", !.of = kept.of, !.basis = kept.basis]]
            /\ cache' = [cache EXCEPT ![q].since = now]
       ELSE attempt' = [attempt EXCEPT ![m].pc = "generate", ![m].text = "answer"]
            /\ UNCHANGED cache
  /\ UNCHANGED <<said, order, counter, directed, beside, content>>

(* GET of a key that was SET for a day.                                    *)
GetCachedAnswer(m) ==
  /\ At(m, "lookup")
  /\ LET kept == cache[said[m].asks] IN
     IF kept # None /\ now < kept.since + Ttl
       THEN attempt' = [attempt EXCEPT ![m] = [@ EXCEPT
              !.pc = "send", !.text = "answer", !.of = kept.of, !.basis = kept.basis]]
       ELSE attempt' = [attempt EXCEPT ![m] = [@ EXCEPT !.pc = "generate", !.text = "answer"]]
  /\ UNCHANGED <<said, order, counter, cache, directed, beside, content>>

(* The prompt holds the history of the conversation, the profile and the   *)
(* knowledge base as they were read.                                       *)
GenerateReply(m) ==
  /\ At(m, "generate")
  /\ attempt' = [attempt EXCEPT ![m] = [@ EXCEPT !.pc = "store", !.of = Of(m)]]
  /\ UNCHANGED <<said, order, counter, cache, directed, beside, content>>

SetCachedAnswer(m) ==
  /\ At(m, "store")
  /\ cache' = [cache EXCEPT ![said[m].asks] =
                 [of |-> attempt[m].of, basis |-> attempt[m].basis, since |-> now]]
  /\ attempt' = [attempt EXCEPT ![m].pc = "send"]
  /\ UNCHANGED <<said, order, counter, directed, beside, content>>

-----------------------------------------------------------------------------
(* Bound: time passes only where all customers ask questions, as nothing   *)
(* else is told by the clock, and no attempt goes on for two ticks.        *)
OnlyQuestions == \A m \in Msgs : said[m].kind = "question"

Tick ==
  /\ OnlyQuestions /\ now < MaxTime
  /\ \A m \in Msgs : AtRest(m) \/ attempt[m].began = now
  /\ now' = now + 1
  /\ UNCHANGED <<said, order, counter, cache, attempt, directed, beside, edited>>

(* Bound: one edit, as the property is about one at a time.                *)
Edit(part) ==
  /\ OnlyQuestions /\ \A p \in Parts : edited[p] = 0
  /\ edited' = [edited EXCEPT ![part] = now]
  /\ UNCHANGED <<said, order, counter, cache, attempt, directed, beside, now>>

(* BusinessService.updateProfile                                           *)
UpdateProfile == Edit("profile")

(* KnowledgeBaseService.create, update, remove                             *)
EditKnowledge == Edit("kb")

-----------------------------------------------------------------------------
Send(m) ==
  /\ At(m, "send")
  /\ attempt' = [attempt EXCEPT ![m].pc = "record"]
  /\ UNCHANGED <<said, order, counter, cache, directed, beside, content>>

Record(m) ==
  /\ At(m, "record")
  /\ attempt' = [attempt EXCEPT ![m] = [Waiting EXCEPT !.pc = "done", !.tries = attempt[m].tries]]
  /\ beside' = beside \ {m}
  /\ UNCHANGED <<said, order, counter, cache, directed, content>>

(* Mutant: the attempts are counted from zero.                             *)
AttemptFailsOnceMore(m) ==
  /\ ~AtRest(m)
  /\ attempt' = [attempt EXCEPT ![m] =
       [Waiting EXCEPT !.tries = attempt[m].tries + 1,
                       !.pc = IF attempt[m].tries < MaxTries THEN "waiting" ELSE "failed"]]
  /\ beside' = beside \ {m}
  /\ UNCHANGED <<said, order, counter, cache, directed, content>>

(* Redis, the LLM, Meta or the database rejects: the worker tries again,   *)
(* up to MaxTries.                                                         *)
AttemptFails(m) ==
  /\ ~AtRest(m)
  /\ attempt' = [attempt EXCEPT ![m] =
       [Waiting EXCEPT !.tries = attempt[m].tries + 1,
                       !.pc = IF attempt[m].tries + 1 < MaxTries THEN "waiting" ELSE "failed"]]
  /\ beside' = beside \ {m}
  /\ UNCHANGED <<said, order, counter, cache, directed, content>>

-----------------------------------------------------------------------------
Route(m) ==
  \/ Greet(m) \/ Escalate(m) \/ BumpCounter(m)
  \/ GetOrderState(m) \/ SetOrderState(m)
  \/ ReadKnowledge(m) \/ ResetScopeCounters(m) \/ GetCachedAnswer(m) \/ GenerateReply(m) \/ SetCachedAnswer(m)

Expire ==
  \E c \in Convos : ExpireOrder(c) \/ \E x \in Counters : ExpireCounter(c, x)

RouteNext ==
  \/ \E m \in Msgs : Start(m) \/ Route(m) \/ Send(m) \/ Record(m) \/ AttemptFails(m)
  \/ Expire \/ Tick \/ UpdateProfile \/ EditKnowledge

RouteSpec == RouteInit /\ [][RouteNext]_routeVars

-----------------------------------------------------------------------------
(* The attempts of a message that may have written the order.              *)
Written(m) == attempt[m].tries + (IF attempt[m].pc \in {"send", "record", "done"} THEN 1 ELSE 0)
Given(s, m) == IF s = None THEN {} ELSE {f \in Fields : s[f] = m}

(* A message answers as many questions of an order as it was attempted: it *)
(* answers two only when it is tried again after the SET of the first (the *)
(* retry finds the order moved on by its own earlier attempt), although a  *)
(* state may be written long after it was read.                            *)
OneAnswerPerTry ==
  \A c \in Convos, m \in Msgs : Cardinality(Given(order[c], m)) <= Written(m)

KeepsAnswers ==
  \A m \in Msgs : At(m, "step") /\ At(m, "send")' /\ m \notin beside =>
    LET old == order[Of(m)]  new == order'[Of(m)] IN
    old # None => IF new = None THEN old.step = "ask_address"
                  ELSE \A f \in Fields : old[f] \in {None, new[f]}

(* An answer that an order has is replaced, and an order ended before its  *)
(* last step, only by an attempt that overlapped another of the            *)
(* conversation (GET, then SET) or by its expiry.                          *)
AnswersStay == [][KeepsAnswers]_routeVars

(* "state tetap aman, balasan tetap mengarahkan ke data order": while an   *)
(* order runs a text that asks nothing is answered with the next question  *)
(* of the order.                                                           *)
OrderIsPursued ==
  \A m \in Msgs : At(m, "send") /\ said[m].kind \in {"remark", "offscope"} /\ order[Of(m)] # None
    => attempt[m].text \in OrderTexts

(* "Setelah 3x ... default CS": between two resets of a counter at most    *)
(* two messages get a reply that directs the customer, however attempts    *)
(* overlap and are repeated (bumpCounter).                                 *)
AtMostTwoDirected ==
  \A c \in Convos, x \in Counters : Cardinality(directed[c][x]) <= 2

(* An edit of the profile or of the knowledge base is in every answer that *)
(* is sent later than a cached answer's life and two attempts after it:    *)
(* no answer is handed on from attempt to attempt beyond that              *)
(* (setCachedCanonicalAnswer).                                             *)
EditsComeThrough ==
  \A m \in Msgs, p \in Parts :
    At(m, "send") /\ attempt[m].text = "answer" /\ now >= edited[p] + Ttl + 2 =>
      attempt[m].basis[p] = edited[p]
=============================================================================
