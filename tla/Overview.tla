------------------------------ MODULE Overview ------------------------------
(***************************************************************************)
(* AnalyticsService.overview: counts of the messages of a rolling window,  *)
(* each a query of its own, sent together and answered in any order while  *)
(* messages are stored, then the time to the first reply per conversation. *)
(* A conversation has any number of messages of any author: retries, the   *)
(* fallback and people add replies as they like.                           *)
(***************************************************************************)
EXTENDS Naturals, Sequences, FiniteSets, FiniteSetsExt

CONSTANTS
  Threads,      \* conversations
  Window,       \* safeDays, in ticks
  MaxMessages,  \* bound on the messages stored
  Horizon       \* bound on the clock

ASSUME OverviewAssumption ==
  IsFiniteSet(Threads) /\ Window \in Nat /\ MaxMessages \in Nat /\ Horizon \in Nat \ {0}

Repliers == {"ai", "human", "system"}
Queries == {"total", "inbound", "outbound", "ai", "human"}
Unread == MaxMessages + 1   \* no answer yet

VARIABLES
  tick,
  messages,   \* the rows, in the order they were stored in
  overview    \* the request; known, not in the code: the rows when it began

overviewVars == <<tick, messages, overview>>

Message == [thread : Threads, at : 1..Horizon, author : {"contact"} \cup Repliers]
Request == [pc : {"new", "counting", "averaging", "done"}, since : 0..Horizon,
            known : 0..MaxMessages, got : [Queries -> 0..Unread],
            waits : UNION {[T -> 1..Horizon] : T \in SUBSET Threads}]

OverviewTypeOK ==
  /\ tick \in 1..Horizon
  /\ messages \in Seq(Message) /\ Len(messages) <= MaxMessages
  /\ overview \in Request

OverviewInit ==
  /\ tick = 1
  /\ messages = <<>>
  /\ overview = [pc |-> "new", since |-> 0, known |-> 0,
                 got |-> [q \in Queries |-> Unread], waits |-> [t \in {} |-> 0]]

-----------------------------------------------------------------------------
Store(t, author) ==
  /\ Len(messages) < MaxMessages
  /\ messages' = Append(messages, [thread |-> t, at |-> tick, author |-> author])
  /\ UNCHANGED <<tick, overview>>

StoreInbound(t) == Store(t, "contact")
StoreReply(t, author) == author \in Repliers /\ Store(t, author)

PassTick ==
  /\ tick < Horizon
  /\ tick' = tick + 1
  /\ UNCHANGED <<messages, overview>>

-----------------------------------------------------------------------------
BeginOverview ==
  /\ overview.pc = "new"
  /\ overview' = [overview EXCEPT !.pc = "counting", !.known = Len(messages),
                                  !.since = IF tick > Window THEN tick - Window ELSE 0]
  /\ UNCHANGED <<tick, messages>>

Recent(since) == {i \in DOMAIN messages : messages[i].at >= since}

Selects(q, m) ==
  CASE q = "total" -> TRUE
    [] q = "inbound" -> m.author = "contact"
    [] q = "outbound" -> m.author # "contact"
    [] OTHER -> m.author = q

Counted(q, since) == {i \in Recent(since) : Selects(q, messages[i])}

(* Mutant: the outbound messages are counted without the window.           *)
CountAllOutbound(q, since) ==
  Cardinality(Counted(q, IF q = "outbound" THEN 0 ELSE since))

Count(q, since) == Cardinality(Counted(q, since))

AnswerQuery(q) ==
  /\ overview.pc = "counting" /\ overview.got[q] = Unread
  /\ overview' = [overview EXCEPT !.got[q] = Count(q, overview.since)]
  /\ UNCHANGED <<tick, messages>>

(* Promise.all has all its answers.                                        *)
AllCounted ==
  /\ overview.pc = "counting" /\ \A q \in Queries : overview.got[q] # Unread
  /\ overview' = [overview EXCEPT !.pc = "averaging"]
  /\ UNCHANGED <<tick, messages>>

TimesOf(t, authors, since) ==
  {messages[i].at : i \in {j \in Recent(since) : /\ messages[j].thread = t
                                                 /\ messages[j].author \in authors}}

(* The inner join of first_in and first_out, where first_out is later.     *)
Waits(since) ==
  LET Asks(t) == TimesOf(t, {"contact"}, since)
      Replies(t) == TimesOf(t, {"ai", "human"}, since)
      Answered == {t \in Threads : /\ Asks(t) # {} /\ Replies(t) # {}
                                   /\ Min(Replies(t)) > Min(Asks(t))}
  IN [t \in Answered |-> Min(Replies(t)) - Min(Asks(t))]

AverageWaits ==
  /\ overview.pc = "averaging"
  /\ overview' = [overview EXCEPT !.pc = "done", !.waits = Waits(overview.since)]
  /\ UNCHANGED <<tick, messages>>

(* Bound: nothing after the answer matters.                                *)
OverviewNext ==
  \/ /\ overview.pc # "done"
     /\ \E t \in Threads : StoreInbound(t) \/ \E a \in Repliers : StoreReply(t, a)
  \/ overview.pc # "done" /\ PassTick
  \/ BeginOverview \/ AllCounted \/ AverageWaits
  \/ \E q \in Queries : AnswerQuery(q)

-----------------------------------------------------------------------------
(* The numbers of one answer agree up to the messages stored while they    *)
(* were made: the total is the inbound and the outbound messages, those of *)
(* the AI and of people are among the outbound ones, and a conversation    *)
(* with a time to the first reply has an inbound message and a reply that  *)
(* were counted (overview).  Nothing bounds the AI's by the inbound ones:  *)
(* a coverage above 100 % is legal.                                        *)
OverviewAddsUp ==
  LET got == overview.got
      fresh == Len(messages) - overview.known
      answered == Cardinality(DOMAIN overview.waits)
  IN overview.pc = "done" =>
       /\ got["total"] <= got["inbound"] + got["outbound"] + fresh
       /\ got["inbound"] + got["outbound"] <= got["total"] + fresh
       /\ got["ai"] + got["human"] <= got["outbound"] + fresh
       /\ answered <= got["inbound"] + fresh
       /\ answered <= got["ai"] + got["human"] + fresh
=============================================================================
