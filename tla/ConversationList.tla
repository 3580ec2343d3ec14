-------------------------- MODULE ConversationList --------------------------
(***************************************************************************)
(* InboxService.listConversations: a client reads the list page by page,   *)
(* by last_message_at, newest first, while messages move conversations up, *)
(* stale saves move them down (see ConversationStore) and filters change   *)
(* their answer.  A search joins other tables, for which TypeORM's take    *)
(* first selects the ids of a page and then, by a second query with the    *)
(* same conditions, its rows.  last_message_at is written from a Date, so  *)
(* the cursor is exact; 0 stands for NULL, which sorts last and compares   *)
(* as -infinity.                                                           *)
(***************************************************************************)
EXTENDS Naturals, FiniteSets

CONSTANTS
  Convos,   \* conversation ids, in the order of their uuids
  Limit,    \* page size after clampLimit
  MaxMs     \* bound on the clock of the messages, in milliseconds

ASSUME ListAssumption ==
  /\ Convos \subseteq Nat /\ IsFiniteSet(Convos) /\ Convos # {}
  /\ Limit \in Nat \ {0} /\ MaxMs \in Nat \ {0}

VARIABLES
  ms,
  lastMessageAt,
  matches,   \* the conversations that the search and the filters select
  lister     \* a client that follows nextCursor to the end

listVars == <<ms, lastMessageAt, matches, lister>>

(* quiet, moved, torn and listed are not in the code: the conversations    *)
(* that matched at the first page and have not changed since, those a      *)
(* stale save moved down, whether one changed between its id and its row,  *)
(* and how often each was listed (2: or more).                             *)
Lister == [pc : {"new", "more", "end"}, at : 0..MaxMs, id : Convos,
           search : BOOLEAN, ids : SUBSET Convos, torn : BOOLEAN,
           quiet : SUBSET Convos, moved : SUBSET Convos, listed : [Convos -> 0..2]]

ListTypeOK ==
  /\ ms \in 1..MaxMs
  /\ lastMessageAt \in [Convos -> 0..MaxMs]
  /\ matches \subseteq Convos
  /\ lister \in Lister

ListInit ==
  /\ ms \in 1..MaxMs
  /\ lastMessageAt \in [Convos -> 0..ms]
  /\ matches \in SUBSET Convos
  /\ lister \in [pc : {"new"}, at : {0}, id : {CHOOSE i \in Convos : TRUE},
                 search : BOOLEAN, ids : {{}}, torn : {FALSE},
                 quiet : {{}}, moved : {{}}, listed : {[i \in Convos |-> 0]}]

-----------------------------------------------------------------------------
Touched(i) == [lister EXCEPT !.quiet = @ \ {i}, !.torn = @ \/ i \in lister.ids]

(* A message in the conversation, in the millisecond of the last one or in *)
(* a later one; it may also change the filter's answer.                    *)
Bump(i) ==
  /\ ms' \in {ms, ms + 1} /\ ms' <= MaxMs
  /\ lastMessageAt' = [lastMessageAt EXCEPT ![i] = ms']
  /\ matches' \in {matches \cup {i}, matches \ {i}}
  /\ lister' = Touched(i)

(* A save of an entity read before the last message.                       *)
SaveStale(i) ==
  /\ \E t \in 0..MaxMs : t < lastMessageAt[i] /\ lastMessageAt' = [lastMessageAt EXCEPT ![i] = t]
  /\ lister' = [Touched(i) EXCEPT !.moved = @ \cup {i}]
  /\ UNCHANGED <<ms, matches>>

(* markAsRead, handoff, resume, a renamed contact.                         *)
ChangeMatch(i) ==
  /\ matches' = IF i \in matches THEN matches \ {i} ELSE matches \cup {i}
  /\ lister' = Touched(i)
  /\ UNCHANGED <<ms, lastMessageAt>>

-----------------------------------------------------------------------------
(* ORDER BY last_message_at DESC NULLS LAST, id DESC                       *)
Before(i, j) ==
  lastMessageAt[i] > lastMessageAt[j] \/ (lastMessageAt[i] = lastMessageAt[j] /\ i > j)
Top(n, S) == {i \in S : Cardinality({j \in S : Before(j, i)}) < n}
BottomOf(P) == CHOOSE i \in P : \A j \in P \ {i} : Before(j, i)

Listed(P) == [i \in Convos |-> IF i \in P /\ lister.listed[i] < 2
                                 THEN lister.listed[i] + 1 ELSE lister.listed[i]]

(* LIMIT limit + 1 tells whether there is more; the rest is the page, and  *)
(* its last row the cursor.                                                *)
AfterListPage(S) ==
  LET P == Top(Limit, S) IN
  IF Cardinality(S) > Limit
    THEN [lister EXCEPT !.pc = "more", !.at = lastMessageAt[BottomOf(P)], !.id = BottomOf(P),
                        !.listed = Listed(P), !.ids = {}]
    ELSE [lister EXCEPT !.pc = "end", !.listed = Listed(P), !.ids = {}]

FirstListPage ==
  /\ lister.pc = "new" /\ ~lister.search
  /\ lister' = [AfterListPage(matches) EXCEPT !.quiet = matches]
  /\ UNCHANGED <<ms, lastMessageAt, matches>>

(* Mutant: the row comparison without COALESCE, NULL for a NULL operand.   *)
ListedAfterNonNull(at, id) ==
  {i \in matches : at # 0 /\ lastMessageAt[i] # 0 /\
                   (lastMessageAt[i] < at \/ (lastMessageAt[i] = at /\ i < id))}

(* Mutant: time alone, inclusive.                                          *)
ListedAfterInclusive(at, id) == {i \in matches : lastMessageAt[i] <= at}

(* (last_message_at, id) < (at, id), with the filters applied.             *)
ListedAfter(at, id) ==
  {i \in matches : lastMessageAt[i] < at \/ (lastMessageAt[i] = at /\ i < id)}

NextListPage ==
  /\ lister.pc = "more" /\ ~lister.search
  /\ lister' = AfterListPage(ListedAfter(lister.at, lister.id))
  /\ UNCHANGED <<ms, lastMessageAt, matches>>

Selected == IF lister.pc = "new" THEN matches ELSE ListedAfter(lister.at, lister.id)

SearchIds ==
  /\ lister.search /\ lister.pc # "end" /\ lister.ids = {}
  /\ lister' = IF Selected = {} THEN AfterListPage({})
               ELSE [lister EXCEPT !.ids = Top(Limit + 1, Selected),
                                   !.quiet = IF lister.pc = "new" THEN matches ELSE @]
  /\ UNCHANGED <<ms, lastMessageAt, matches>>

(* Rows that were selected and still are; fewer than LIMIT + 1 are taken   *)
(* for the last page.                                                      *)
SearchRows ==
  /\ lister.ids # {}
  /\ lister' = AfterListPage(Selected \cap lister.ids)
  /\ UNCHANGED <<ms, lastMessageAt, matches>>

(* Bound: what happens before the first query is in the initial state, and *)
(* nothing after the last one matters.                                     *)
ListNext ==
  \/ /\ lister.pc = "more" \/ lister.ids # {}
     /\ \E i \in Convos : Bump(i) \/ SaveStale(i) \/ ChangeMatch(i)
  \/ FirstListPage \/ NextListPage \/ SearchIds \/ SearchRows

-----------------------------------------------------------------------------
(* At the end a conversation that matched throughout and did not change    *)
(* has been listed, whatever moved around it and whether or not it has a   *)
(* last message, unless a search was cut short, or led past it, by one     *)
(* that changed between its id and its row (listConversations).            *)
QuietIsListed ==
  lister.pc = "end" /\ ~lister.torn => \A i \in lister.quiet : lister.listed[i] > 0

(* No conversation is listed twice unless a stale save moved it down: a    *)
(* new message moves it up, out of the pages still to come.                *)
ListedOnce == \A i \in Convos : lister.listed[i] > 1 => i \in lister.moved
=============================================================================
