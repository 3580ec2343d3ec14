--------------------------- MODULE MessageHistory ---------------------------
(***************************************************************************)
(* InboxService.getMessages: a client reads the history of a conversation  *)
(* page by page, newest first, while messages arrive.  A row keeps the     *)
(* microseconds of its created_at; a JavaScript Date, and so the cursor,   *)
(* keeps milliseconds.  One millisecond is MsTicks units of the clock.     *)
(***************************************************************************)
EXTENDS Naturals, FiniteSets

CONSTANTS
  Ids,      \* message ids; random uuids, so their order is not that of time
  Take,     \* page size after clampLimit
  MsTicks,  \* clock units in a millisecond
  MaxTime   \* bound on the clock

ASSUME HistoryAssumption ==
  /\ Ids \subseteq Nat /\ IsFiniteSet(Ids) /\ Ids # {}
  /\ Take \in Nat \ {0} /\ MsTicks \in Nat \ {0} /\ MaxTime \in Nat

VARIABLES
  now,
  rows,     \* created_at of each message; 0 when there is no row
  reader    \* a client that follows nextCursor, or nextOffset, to the end

historyVars == <<now, rows, reader>>

Cursor == [at : Nat, id : Ids]

(* atStart, seen and edges are not in the code: the rows there were when   *)
(* the first page was read, how often a row was delivered (2: or more), and*)
(* the rows whose cursor was sent back.                                    *)
Reader == [pc : {"new", "more", "end"}, mode : {"cursor", "offset"},
           at : Nat, id : Ids, offset : Nat, atStart : SUBSET Ids, seen : [Ids -> 0..2],
           edges : SUBSET Ids]

Stored == {i \in Ids : rows[i] # 0}
Ms(t) == t - (t % MsTicks)

(* ORDER BY created_at DESC, id DESC                                       *)
Newer(i, j) == rows[i] > rows[j] \/ (rows[i] = rows[j] /\ i > j)
Rank(S, i) == Cardinality({j \in S : Newer(j, i)})

HistoryTypeOK ==
  /\ now \in Nat \ {0}
  /\ rows \in [Ids -> Nat]
  /\ reader \in Reader

HistoryInit ==
  /\ now = 1
  /\ rows = [i \in Ids |-> 0]
  /\ reader \in [pc : {"new"}, mode : {"cursor", "offset"}, at : {0},
                 id : {CHOOSE i \in Ids : TRUE}, offset : {0}, atStart : {{}},
                 seen : {[i \in Ids |-> 0]}, edges : {{}}]

-----------------------------------------------------------------------------
(* DEFAULT now(), in the order of the inserts.                             *)
InsertMessage(i) ==
  /\ rows[i] = 0
  /\ rows' = [rows EXCEPT ![i] = now]
  /\ UNCHANGED <<now, reader>>

Tick ==
  /\ now < MaxTime
  /\ now' = now + 1
  /\ UNCHANGED <<rows, reader>>

-----------------------------------------------------------------------------
(* LIMIT take + 1 tells whether there is more; the rest is the page.       *)
Page(S, skip) == {i \in S : skip <= Rank(S, i) /\ Rank(S, i) < skip + Take}
HasMore(S, skip) == Cardinality(S) > skip + Take
Oldest(P) == CHOOSE i \in P : \A j \in P \ {i} : Newer(j, i)

Delivered(seen, P) ==
  [i \in Ids |-> IF i \in P /\ seen[i] < 2 THEN seen[i] + 1 ELSE seen[i]]

(* Mutant: the last page leaves no cursor and a null continuation.         *)
AfterPageNull(S, skip) ==
  LET P == Page(S, skip) IN
  IF HasMore(S, skip)
    THEN [reader EXCEPT !.pc = "more", !.at = Ms(rows[Oldest(P)]), !.id = Oldest(P),
                        !.offset = skip + Take, !.seen = Delivered(@, P),
                        !.edges = @ \cup {Oldest(P)}]
    ELSE [reader EXCEPT !.pc = "null", !.seen = Delivered(@, P)]

(* What the client holds after the rows S were cut to a page.  The last    *)
(* page carries neither nextCursor nor nextOffset.                         *)
AfterPage(S, skip) ==
  LET P == Page(S, skip) IN
  IF HasMore(S, skip)
    THEN [reader EXCEPT !.pc = "more", !.at = Ms(rows[Oldest(P)]), !.id = Oldest(P),
                        !.offset = skip + Take, !.seen = Delivered(@, P),
                        !.edges = @ \cup {Oldest(P)}]
    ELSE [reader EXCEPT !.pc = "end", !.seen = Delivered(@, P)]

(* The first page has no cursor; the client then follows nextCursor to the *)
(* end, or nextOffset.                                                     *)
FirstPage ==
  /\ reader.pc = "new"
  /\ reader' = [AfterPage(Stored, 0) EXCEPT !.atStart = Stored]
  /\ UNCHANGED <<now, rows>>

(* Mutant: the whole millisecond of the cursor is read again.              *)
OlderThanWithMs(at, id) == {i \in Stored : rows[i] < at + MsTicks}

OlderThan(at, id) == {i \in Stored : rows[i] < at \/ (rows[i] = at /\ i < id)}

NextPage ==
  /\ reader.pc = "more" /\ reader.mode = "cursor"
  /\ reader' = AfterPage(OlderThan(reader.at, reader.id), 0)
  /\ UNCHANGED <<now, rows>>

(* Mutant: nextOffset counts the extra row of the limit.                   *)
NextOffsetPageExtra ==
  /\ reader.pc = "more" /\ reader.mode = "offset"
  /\ reader' = AfterPage(Stored, reader.offset + 1)
  /\ UNCHANGED <<now, rows>>

NextOffsetPage ==
  /\ reader.pc = "more" /\ reader.mode = "offset"
  /\ reader' = AfterPage(Stored, reader.offset)
  /\ UNCHANGED <<now, rows>>

-----------------------------------------------------------------------------
HistoryNext ==
  (\E i \in Ids : InsertMessage(i)) \/ Tick \/ FirstPage \/ NextPage \/ NextOffsetPage

-----------------------------------------------------------------------------
(* Following nextCursor never delivers a message twice, whatever arrives   *)
(* between two pages and however timestamps collide (getMessages, keyset). *)
NothingTwice == reader.mode = "cursor" => \A i \in Ids : reader.seen[i] <= 1

(* At the end a client has every message there was at the start, except    *)
(* that the cursor may jump over one stored in the same millisecond as the *)
(* oldest message of a page; offsets, which repeat messages when others    *)
(* arrive, lose none (getMessages).                                        *)
SkipsOnlyWithinMs ==
  reader.pc = "end" =>
    \A i \in reader.atStart : reader.seen[i] > 0 \/
      (reader.mode = "cursor" /\ \E e \in reader.edges : Ms(rows[e]) = Ms(rows[i]))

(* A client that follows nextCursor comes to the end, however fast         *)
(* messages arrive.                                                        *)
HistoryEnds == reader.pc = "more" /\ reader.mode = "cursor" ~> reader.pc = "end"
=============================================================================
