-------------------------- MODULE InboxReadsProofs --------------------------
(***************************************************************************)
(* InboxReads, for every set of messages, conversations and deliveries,    *)
(* any page size and any fineness of the clock.                            *)
(***************************************************************************)
EXTENDS InboxReads, FiniteSetTheorems, TLAPS

(***************************************************************************)
(* Pages of an ordered set                                                 *)
(***************************************************************************)
StrictOrder(R, S) ==
  /\ \A i \in S : <<i, i>> \notin R
  /\ \A i, j \in S : i # j => <<i, j>> \in R \/ <<j, i>> \in R
  /\ \A i, j, k \in S : <<i, j>> \in R /\ <<j, k>> \in R => <<i, k>> \in R

Above(R, S, i) == {j \in S : <<j, i>> \in R}
RankIn(R, S, i) == Cardinality(Above(R, S, i))
First(R, S, n) == {i \in S : RankIn(R, S, i) < n}

LEMMA SmallestExists ==
  ASSUME NEW T, T \subseteq Nat, T # {}
  PROVE  \E x \in T : \A y \in T : x <= y
<1>1. PICK R : IsWellFoundedOn(R, Nat) /\ \A a, b \in Nat : <<a, b>> \in R <=> a < b
  <2>1. \A a, b \in Nat : <<a, b>> \in OpToRel(<, Nat) <=> a < b
    BY DEF OpToRel
  <2> QED BY <2>1, NatLessThanWellFounded, Zenon
<1>2. PICK x \in T : \A y \in T : ~ (<<y, x>> \in R)
  <2>1. IsWellFoundedOn(R, Nat)
    BY <1>1
  <2> QED BY <2>1, WFMin
<1>3. ASSUME NEW y \in T PROVE x <= y
  <2>1. y \in Nat /\ x \in Nat /\ ~ (y < x)
    BY <1>1, <1>2
  <2> QED BY <2>1
<1> QED BY <1>3

LEMMA RankOrders ==
  ASSUME NEW S, IsFiniteSet(S), NEW R, StrictOrder(R, S)
  PROVE  /\ \A i \in S : RankIn(R, S, i) \in Nat /\ RankIn(R, S, i) < Cardinality(S)
         /\ \A i, j \in S : <<i, j>> \in R <=> RankIn(R, S, i) < RankIn(R, S, j)
<1>1. ASSUME NEW i \in S
      PROVE  /\ IsFiniteSet(Above(R, S, i)) /\ RankIn(R, S, i) \in Nat
             /\ RankIn(R, S, i) < Cardinality(S)
  <2>1. Above(R, S, i) \subseteq S /\ i \notin Above(R, S, i)
    BY DEF Above, StrictOrder
  <2>2. /\ IsFiniteSet(Above(R, S, i)) /\ RankIn(R, S, i) \in Nat /\ Cardinality(S) \in Nat
        /\ RankIn(R, S, i) <= Cardinality(S)
        /\ RankIn(R, S, i) = Cardinality(S) => Above(R, S, i) = S
    BY <2>1, FS_Subset, FS_CardinalityType DEF RankIn
  <2> QED BY <2>1, <2>2
<1>2. ASSUME NEW i \in S, NEW j \in S, <<i, j>> \in R
      PROVE  RankIn(R, S, i) < RankIn(R, S, j)
  <2>1. Above(R, S, i) \subseteq Above(R, S, j) /\ i \in Above(R, S, j) \ Above(R, S, i)
    BY <1>2 DEF Above, StrictOrder
  <2>2. /\ RankIn(R, S, i) <= RankIn(R, S, j)
        /\ RankIn(R, S, i) = RankIn(R, S, j) => Above(R, S, i) = Above(R, S, j)
    BY <1>1, <2>1, FS_Subset DEF RankIn
  <2> QED BY <1>1, <2>1, <2>2
<1>3. ASSUME NEW i \in S, NEW j \in S, RankIn(R, S, i) < RankIn(R, S, j)
      PROVE  <<i, j>> \in R
  <2>1. i # j /\ ~ (RankIn(R, S, j) < RankIn(R, S, i))
    BY <1>1, <1>3
  <2>2. <<j, i>> \notin R
    BY <1>2, <2>1
  <2> QED BY <2>1, <2>2 DEF StrictOrder
<1> QED BY <1>1, <1>2, <1>3

(* The first n of an ordered set are n, if there are as many.  (Else there *)
(* is a smallest n for which they are not.)                                *)
LEMMA FirstAreMany ==
  ASSUME NEW S, IsFiniteSet(S), NEW R, StrictOrder(R, S), NEW n \in Nat, n <= Cardinality(S)
  PROVE  Cardinality(First(R, S, n)) = n
<1> DEFINE Odd == {m \in Nat : m <= Cardinality(S) /\ Cardinality(First(R, S, m)) # m}
<1> SUFFICES ASSUME Odd # {} PROVE FALSE
  OBVIOUS
<1>1. PICK m \in Odd : \A k \in Odd : m <= k
  <2>1. Odd \subseteq Nat
    OBVIOUS
  <2> HIDE DEF Odd
  <2> QED BY <2>1, SmallestExists
<1>2. m \in Nat /\ m <= Cardinality(S) /\ Cardinality(First(R, S, m)) # m
  OBVIOUS
<1>3. m # 0
  <2>1. First(R, S, 0) = {}
    BY RankOrders DEF First
  <2> QED BY <1>2, <2>1, FS_EmptySet
<1>4. PICK k \in Nat : m = k + 1
  BY <1>2, <1>3
<1>5. k < Cardinality(S) /\ Cardinality(First(R, S, k)) = k
  <2>1. Cardinality(S) \in Nat
    BY FS_CardinalityType
  <2>2. k \notin Odd /\ k <= Cardinality(S) /\ k < Cardinality(S)
    BY <1>1, <1>2, <1>4, <2>1
  <2> QED BY <2>2
<1> HIDE DEF Odd
<1>6. First(R, S, k) \subseteq S /\ IsFiniteSet(First(R, S, k)) /\ Cardinality(S) \in Nat
  BY FS_Subset, FS_CardinalityType DEF First
<1>7. PICK r \in {RankIn(R, S, i) : i \in S \ First(R, S, k)} :
        \A q \in {RankIn(R, S, i) : i \in S \ First(R, S, k)} : r <= q
  <2>1. S # First(R, S, k)
    BY <1>5
  <2>2. {RankIn(R, S, i) : i \in S \ First(R, S, k)} # {}
    BY <1>6, <2>1
  <2>3. {RankIn(R, S, i) : i \in S \ First(R, S, k)} \subseteq Nat
    BY RankOrders
  <2> QED BY <2>2, <2>3, SmallestExists
<1>8. PICK x \in S \ First(R, S, k) :
        \A y \in S \ First(R, S, k) : RankIn(R, S, x) <= RankIn(R, S, y)
  BY <1>7
<1>9. \A y \in S : RankIn(R, S, y) \in Nat
  BY RankOrders
<1>10. RankIn(R, S, x) >= k
  BY <1>8, <1>9 DEF First
<1>11. Above(R, S, x) = First(R, S, k)
  <2>1. ASSUME NEW y \in S, <<y, x>> \in R PROVE y \in First(R, S, k)
    <3>1. RankIn(R, S, y) < RankIn(R, S, x)
      BY <2>1, RankOrders
    <3> QED BY <1>8, <1>9, <3>1
  <2>2. ASSUME NEW y \in First(R, S, k) PROVE <<y, x>> \in R
    <3>1. y \in S /\ RankIn(R, S, y) < k
      BY DEF First
    <3>2. RankIn(R, S, y) < RankIn(R, S, x)
      BY <1>8, <1>9, <1>10, <3>1
    <3> QED BY <1>8, <3>1, <3>2, RankOrders
  <2> QED BY <1>6, <2>1, <2>2 DEF Above
<1>12. RankIn(R, S, x) = k
  BY <1>5, <1>11 DEF RankIn
<1>13. First(R, S, m) = First(R, S, k) \cup {x}
  <2>1. ASSUME NEW y \in S, RankIn(R, S, y) < k + 1, y # x PROVE RankIn(R, S, y) < k
    <3>1. CASE <<y, x>> \in R
      BY <1>12, <3>1, RankOrders
    <3>2. CASE <<x, y>> \in R
      <4>1. k < RankIn(R, S, y)
        BY <1>12, <3>2, RankOrders
      <4> QED BY <1>9, <2>1, <4>1
    <3> QED BY <2>1, <3>1, <3>2 DEF StrictOrder
  <2>2. \A y \in S : RankIn(R, S, y) < k => RankIn(R, S, y) < k + 1
    BY <1>9
  <2> QED BY <1>4, <1>12, <2>1, <2>2 DEF First
<1>14. Cardinality(First(R, S, k) \cup {x}) = Cardinality(First(R, S, k)) + 1
  BY <1>6, FS_AddElement
<1> QED BY <1>2, <1>4, <1>5, <1>13, <1>14

LEMMA RankExists ==
  ASSUME NEW S, IsFiniteSet(S), NEW R, StrictOrder(R, S), NEW n \in Nat, n < Cardinality(S)
  PROVE  \E x \in S : RankIn(R, S, x) = n
<1>1. Cardinality(S) \in Nat /\ n + 1 \in Nat /\ n <= Cardinality(S) /\ n + 1 <= Cardinality(S)
  BY FS_CardinalityType
<1>2. Cardinality(First(R, S, n)) = n /\ Cardinality(First(R, S, n + 1)) = n + 1
  BY <1>1, FirstAreMany
<1>3. First(R, S, n + 1) # First(R, S, n)
  BY <1>2
<1>4. \A x \in S : RankIn(R, S, x) \in Nat
  BY RankOrders
<1>5. \A x \in S : RankIn(R, S, x) < n => RankIn(R, S, x) < n + 1
  BY <1>4
<1>6. PICK x \in S : RankIn(R, S, x) < n + 1 /\ ~ (RankIn(R, S, x) < n)
  BY <1>3, <1>5 DEF First
<1> QED BY <1>4, <1>6

(***************************************************************************)
(* The stream of events                                                    *)
(***************************************************************************)
StreamInv == StreamTypeOK /\ StaleOnlyIfMissed

LEMMA AnnouncedIsFinite ==
  ASSUME StreamTypeOK
  PROVE  IsFiniteSet(announced) /\ Cardinality(announced) \in Nat /\ wire \in Nat
<1>1. announced \subseteq Deliveries
  BY DEF StreamTypeOK
<1>2. IsFiniteSet(announced) /\ Cardinality(announced) \in Nat
  BY <1>1, RealtimeAssumption, FS_Subset, FS_CardinalityType
<1> QED BY <1>2 DEF StreamTypeOK

(* One more announced, and possibly one more event on the wire.            *)
LEMMA AnnounceTypes ==
  ASSUME StreamInv, NEW d \in inList \ (announced \cup gone), announced' = announced \cup {d},
         wire' \in {wire, wire + 1}, missed' \in BOOLEAN, UNCHANGED <<saved, inList, gone, stream, view>>
  PROVE  StreamTypeOK'
<1>1. Cardinality(announced') = Cardinality(announced) + 1
  <2>1. d \notin announced
    OBVIOUS
  <2> QED BY <2>1, AnnouncedIsFinite, FS_AddElement DEF StreamInv
<1>2. wire' \in 0..Cardinality(announced')
  BY <1>1, AnnouncedIsFinite DEF StreamInv, StreamTypeOK
<1> QED BY <1>2 DEF StreamInv, StreamTypeOK

LEMMA StreamStep == ASSUME StreamInv, StreamNext PROVE StreamInv'
<1>0. wire \in Nat /\ Cardinality(announced) \in Nat
  BY AnnouncedIsFinite DEF StreamInv
<1>1. ASSUME NEW d \in Deliveries, SaveDelivery(d) PROVE StreamInv'
  BY <1>1 DEF StreamInv, StreamTypeOK, StaleOnlyIfMissed, SaveDelivery
<1>2. ASSUME NEW d \in Deliveries, SaveInList(d) PROVE StreamInv'
  BY <1>2 DEF StreamInv, StreamTypeOK, StaleOnlyIfMissed, SaveInList
<1>3. ASSUME NEW d \in Deliveries, Publish(d) PROVE StreamInv'
  <2>1. StreamTypeOK'
    <3>1. wire' \in {wire, wire + 1}
      BY <1>3 DEF Publish
    <3>2. missed' \in BOOLEAN
      BY <1>3 DEF Publish, StreamInv, StreamTypeOK
    <3>3. /\ d \in inList \ (announced \cup gone) /\ announced' = announced \cup {d}
          /\ UNCHANGED <<saved, inList, gone, stream, view>>
      BY <1>3 DEF Publish
    <3> QED BY <3>1, <3>2, <3>3, AnnounceTypes
  <2>2. StaleOnlyIfMissed'
    BY <1>0, <1>3 DEF Publish, StaleOnlyIfMissed
  <2> QED BY <2>1, <2>2 DEF StreamInv
<1>4. ASSUME NEW d \in Deliveries, PublishFails(d) PROVE StreamInv'
  <2>1. StreamTypeOK'
    BY <1>4, AnnounceTypes DEF PublishFails
  <2>2. StaleOnlyIfMissed'
    BY <1>4 DEF PublishFails, StaleOnlyIfMissed
  <2> QED BY <2>1, <2>2 DEF StreamInv
<1>5. ASSUME NEW d \in Deliveries, Die(d) PROVE StreamInv'
  BY <1>5 DEF StreamInv, StreamTypeOK, StaleOnlyIfMissed, Die
<1>6. ASSUME Open \/ Subscribed PROVE StreamInv'
  BY <1>6 DEF StreamInv, StreamTypeOK, StaleOnlyIfMissed, Open, Subscribed, stores
<1>7. ASSUME Break PROVE StreamInv'
  <2>1. /\ wire' \in 0..wire /\ missed' = (missed \/ wire' < wire) /\ stream' = "broken"
        /\ UNCHANGED <<saved, inList, announced, gone, view>>
    BY <1>7 DEF Break, stores
  <2>2. StreamTypeOK'
    <3>1. wire' \in 0..Cardinality(announced)
      BY <1>0, <2>1 DEF StreamInv, StreamTypeOK
    <3>2. missed' \in BOOLEAN
      BY <2>1
    <3> QED BY <2>1, <3>1, <3>2 DEF StreamInv, StreamTypeOK
  <2>3. wire > 0 => wire' > 0 \/ missed'
    <3>1. wire' < wire => missed' = TRUE
      BY <2>1, Zenon
    <3>2. wire' \in Nat
      BY <1>0, <2>1
    <3> QED BY <1>0, <3>1, <3>2
  <2>4. missed => missed'
    BY <2>1
  <2> QED BY <2>1, <2>2, <2>3, <2>4 DEF StreamInv, StaleOnlyIfMissed
<1>8. ASSUME Close PROVE StreamInv'
  <2>1. /\ wire' = 0 /\ missed' = (missed \/ wire > 0) /\ stream' = "closed"
        /\ UNCHANGED <<saved, inList, announced, gone, view>>
    BY <1>8 DEF Close, stores
  <2>2. StreamTypeOK'
    <3>1. wire' \in 0..Cardinality(announced)
      BY <1>0, <2>1
    <3>2. missed' \in BOOLEAN
      BY <2>1, Zenon
    <3> QED BY <2>1, <3>1, <3>2 DEF StreamInv, StreamTypeOK
  <2>3. (wire > 0 => missed' = TRUE) /\ (missed = TRUE => missed' = TRUE)
    BY <2>1, Zenon
  <2> QED BY <2>1, <2>2, <2>3 DEF StreamInv, StaleOnlyIfMissed
<1>9. ASSUME Hear \/ Refetch PROVE StreamInv'
  <2>1. /\ view' = inList /\ missed' = FALSE /\ wire' \in {wire, wire - 1} /\ (wire' = wire \/ wire > 0)
        /\ UNCHANGED <<saved, inList, announced, gone, stream>>
    <3>1. CASE Hear
      BY <3>1 DEF Hear, stores
    <3>2. CASE Refetch
      BY <3>2 DEF Refetch, stores
    <3> QED BY <1>9, <3>1, <3>2
  <2>2. StreamTypeOK'
    <3>1. wire \in 0..Cardinality(announced)
      BY DEF StreamInv, StreamTypeOK
    <3>2. wire' \in 0..Cardinality(announced)
      BY <1>0, <2>1, <3>1
    <3> QED BY <2>1, <3>2 DEF StreamInv, StreamTypeOK
  <2> QED BY <2>1, <2>2 DEF StreamInv, StaleOnlyIfMissed
<1> QED BY <1>1, <1>2, <1>3, <1>4, <1>5, <1>6, <1>7, <1>8, <1>9 DEF StreamNext

LEMMA StreamStarts == ASSUME StreamInit PROVE StreamInv
<1>1. 0 \in 0..Cardinality({})
  BY FS_EmptySet
<1> QED BY <1>1 DEF StreamInit, StreamInv, StreamTypeOK, StaleOnlyIfMissed

LEMMA StreamStays == ASSUME StreamInv, UNCHANGED streamVars PROVE StreamInv'
BY DEF StreamInv, StreamTypeOK, StaleOnlyIfMissed, streamVars

(***************************************************************************)
(* The history of a conversation                                           *)
(***************************************************************************)
NewerIn(S) == {p \in S \X S : Newer(p[1], p[2])}

LEMMA NewerOrders ==
  ASSUME HistoryTypeOK, NEW S, S \subseteq Ids
  PROVE  /\ IsFiniteSet(S) /\ StrictOrder(NewerIn(S), S)
         /\ \A i \in S : RankIn(NewerIn(S), S, i) = Rank(S, i)
         /\ \A i, j \in S : <<i, j>> \in NewerIn(S) <=> Newer(i, j)
<1>1. \A i \in S : i \in Nat /\ rows[i] \in Nat
  BY HistoryAssumption DEF HistoryTypeOK
<1>2. \A i, j \in S : <<i, j>> \in NewerIn(S) <=> Newer(i, j)
  BY DEF NewerIn
<1>3. StrictOrder(NewerIn(S), S)
  BY <1>1, <1>2 DEF StrictOrder, Newer
<1>4. IsFiniteSet(S)
  BY HistoryAssumption, FS_Subset
<1>5. ASSUME NEW i \in S PROVE RankIn(NewerIn(S), S, i) = Rank(S, i)
  <2>1. Above(NewerIn(S), S, i) = {j \in S : Newer(j, i)}
    BY <1>2 DEF Above
  <2> QED BY <2>1 DEF RankIn, Rank
<1> QED BY <1>2, <1>3, <1>4, <1>5

LEMMA RankIsNat ==
  ASSUME HistoryTypeOK, NEW S, S \subseteq Ids
  PROVE  /\ Cardinality(S) \in Nat
         /\ \A i \in S : Rank(S, i) \in Nat /\ Rank(S, i) < Cardinality(S)
         /\ \A i, j \in S : Newer(i, j) <=> Rank(S, i) < Rank(S, j)
<1>1. Cardinality(S) \in Nat
  BY NewerOrders, FS_CardinalityType
<1>2. PICK R : R = NewerIn(S)
  OBVIOUS
<1>3. /\ IsFiniteSet(S) /\ StrictOrder(R, S) /\ \A i \in S : RankIn(R, S, i) = Rank(S, i)
      /\ \A i, j \in S : <<i, j>> \in R <=> Newer(i, j)
  BY <1>2, NewerOrders
<1>4. /\ \A i \in S : RankIn(R, S, i) \in Nat /\ RankIn(R, S, i) < Cardinality(S)
      /\ \A i, j \in S : <<i, j>> \in R <=> RankIn(R, S, i) < RankIn(R, S, j)
  BY <1>3, RankOrders
<1> QED BY <1>1, <1>3, <1>4

(* A page that is not the last ends with its oldest row, and the rows that *)
(* it leaves are older; the last page leaves none.                         *)
LEMMA PageEnds ==
  ASSUME HistoryTypeOK, NEW S, S \subseteq Ids, NEW skip \in Nat
  PROVE  /\ HasMore(S, skip) =>
              LET o == Oldest(Page(S, skip)) IN
              /\ o \in Page(S, skip) /\ o \in S
              /\ \A i \in Page(S, skip) : i = o \/ Newer(i, o)
              /\ \A i \in S \ Page(S, skip) : Rank(S, i) < skip \/ Newer(o, i)
         /\ ~ HasMore(S, skip) => \A i \in S \ Page(S, skip) : Rank(S, i) < skip
<1>1. Take \in Nat \ {0} /\ skip + Take \in Nat /\ skip + Take - 1 \in Nat
  BY HistoryAssumption
<1>2. ASSUME HasMore(S, skip)
      PROVE  LET o == Oldest(Page(S, skip)) IN
              /\ o \in Page(S, skip) /\ o \in S
              /\ \A i \in Page(S, skip) : i = o \/ Newer(i, o)
              /\ \A i \in S \ Page(S, skip) : Rank(S, i) < skip \/ Newer(o, i)
  <2>1. PICK n \in Nat : n = skip + Take - 1
    BY <1>1
  <2>2. n < Cardinality(S)
    BY <1>1, <1>2, <2>1, RankIsNat DEF HasMore
  <2>3. PICK x \in S : Rank(S, x) = n
    <3>1. PICK R : R = NewerIn(S)
      OBVIOUS
    <3>2. PICK x \in S : RankIn(R, S, x) = n
      BY <2>2, <3>1, NewerOrders, RankExists
    <3> QED BY <3>1, <3>2, NewerOrders
  <2>4. x \in Page(S, skip)
    BY <1>1, <2>1, <2>3 DEF Page
  <2>5. \A j \in Page(S, skip) \ {x} : Newer(j, x)
    <3> SUFFICES ASSUME NEW j \in Page(S, skip) \ {x} PROVE Newer(j, x)
      OBVIOUS
    <3>1. j \in S /\ Rank(S, j) <= n
      <4>1. j \in S /\ Rank(S, j) < skip + Take
        BY DEF Page
      <4>2. Rank(S, j) \in Nat
        BY <4>1, RankIsNat
      <4> QED BY <1>1, <2>1, <4>1, <4>2
    <3>2. ~ Newer(x, j)
      BY <2>3, <3>1, RankIsNat
    <3>3. j \in Nat /\ x \in Nat /\ rows[j] \in Nat /\ rows[x] \in Nat
      BY <3>1, HistoryAssumption DEF HistoryTypeOK
    <3> QED BY <3>2, <3>3 DEF Newer
  <2>6. PICK o : o = Oldest(Page(S, skip))
    OBVIOUS
  <2>7. o \in Page(S, skip) /\ \A j \in Page(S, skip) \ {o} : Newer(j, o)
    BY <2>4, <2>5, <2>6 DEF Oldest
  <2>8. o = x
    <3>1. ASSUME o # x PROVE FALSE
      <4>1. Newer(x, o) /\ Newer(o, x)
        BY <2>4, <2>5, <2>7, <3>1
      <4>2. o \in S
        BY <2>7 DEF Page
      <4> QED BY <4>1, <4>2, RankIsNat
    <3> QED BY <3>1
  <2>9. ASSUME NEW i \in S, i \notin Page(S, skip) PROVE Rank(S, i) < skip \/ Newer(x, i)
    <3>1. Rank(S, i) \in Nat /\ (Rank(S, i) < skip \/ Rank(S, i) > n)
      BY <1>1, <2>1, <2>9, RankIsNat DEF Page
    <3> QED BY <2>3, <3>1, RankIsNat
  <2> QED BY <2>4, <2>5, <2>6, <2>8, <2>9
<1>3. ASSUME ~ HasMore(S, skip), NEW i \in S, i \notin Page(S, skip)
      PROVE  Rank(S, i) < skip
  <2>1. Rank(S, i) \in Nat /\ Cardinality(S) \in Nat /\ Rank(S, i) < Cardinality(S)
    BY RankIsNat
  <2>2. Cardinality(S) <= skip + Take
    BY <1>1, <1>3, <2>1 DEF HasMore
  <2> QED BY <1>1, <1>3, <2>1, <2>2 DEF Page
<1> QED BY <1>2, <1>3

(* Of two times, the second within the millisecond of the first.           *)
LEMMA MsFacts ==
  ASSUME NEW t \in Nat, NEW u \in Nat
  PROVE  /\ Ms(t) \in Nat /\ Ms(t) <= t
         /\ u <= t /\ Ms(t) <= u => Ms(u) = Ms(t)
<1>1. MsTicks \in Nat /\ MsTicks > 0
  BY HistoryAssumption
<1>2. PICK n \in Nat : n = MsTicks /\ n > 0
  BY <1>1
<1>3. /\ t % n \in 0..(n - 1) /\ u % n \in 0..(n - 1)
      /\ t = n * (t \div n) + (t % n) /\ u = n * (u \div n) + (u % n)
      /\ t \div n \in Nat /\ u \div n \in Nat
  <2>1. ASSUME NEW v \in Nat PROVE v % n \in 0..(n - 1)
    BY <1>2
  <2>2. ASSUME NEW v \in Nat PROVE v = n * (v \div n) + (v % n)
    BY <1>2
  <2>3. ASSUME NEW v \in Nat PROVE v \div n \in Nat
    BY <1>2
  <2> QED BY <2>1, <2>2, <2>3
<1>4. PICK a, b, c, d : a = t \div n /\ b = t % n /\ c = u \div n /\ d = u % n
  OBVIOUS
<1>5. /\ a \in Nat /\ c \in Nat /\ b \in Nat /\ d \in Nat /\ b < n /\ d < n
      /\ t = n * a + b /\ u = n * c + d
  BY <1>2, <1>3, <1>4
<1>6. Ms(t) = t - b /\ Ms(u) = u - d
  BY <1>2, <1>4 DEF Ms
<1>7. n * a \in Nat /\ n * c \in Nat /\ (a > c => n * a >= n * c + n) /\ (a < c => n * c >= n * a + n)
  <2>1. \A x, y, z \in Nat : x > y => z * x >= z * y + z
    OBVIOUS
  <2>2. \A x, y \in Nat : x * y \in Nat
    OBVIOUS
  <2> QED BY <1>5, <2>1, <2>2
<1>8. Ms(t) = n * a /\ Ms(u) = n * c
  BY <1>5, <1>6, <1>7
<1>9. ASSUME u <= t, Ms(t) <= u PROVE a = c
  <2>1. n * a <= n * c + d /\ n * c + d <= n * a + b
    BY <1>5, <1>8, <1>9
  <2>2. ~ (a > c) /\ ~ (a < c)
    BY <1>5, <1>7, <2>1
  <2> QED BY <1>5, <2>2
<1> QED BY <1>5, <1>7, <1>8, <1>9

-----------------------------------------------------------------------------
(* A client that follows the cursor has seen nothing beyond it, and what   *)
(* it missed shares the millisecond of a row whose cursor it sent; one     *)
(* that follows the offset has what it missed at the offset or after it.   *)
Jumped(r, i) == \E e \in r.edges : Ms(rows[e]) = Ms(rows[i])

ReaderOK(r) ==
  /\ r.atStart \subseteq Stored /\ r.edges \subseteq Stored
  /\ \A i \in Ids : r.seen[i] > 0 => i \in Stored
  /\ r.pc = "new" => \A i \in Ids : r.seen[i] = 0
  /\ r.mode = "cursor" => \A i \in Ids : r.seen[i] <= 1
  /\ r.pc = "more" /\ r.mode = "cursor" =>
       /\ \A i \in OlderThan(r.at, r.id) : r.seen[i] = 0
       /\ \A i \in r.atStart : r.seen[i] > 0 \/ i \in OlderThan(r.at, r.id) \/ Jumped(r, i)
  /\ r.pc = "more" /\ r.mode = "offset" =>
       \A i \in r.atStart : r.seen[i] > 0 \/ r.offset <= Rank(Stored, i)
  /\ r.pc = "end" =>
       \A i \in r.atStart : r.seen[i] > 0 \/ (r.mode = "cursor" /\ Jumped(r, i))

HistoryInv == HistoryTypeOK /\ ReaderOK(reader)

LEMMA HistoryFacts ==
  ASSUME HistoryTypeOK
  PROVE  /\ reader \in Reader /\ now \in Nat \ {0}
         /\ Stored \subseteq Ids /\ \A i \in Ids : rows[i] \in Nat /\ i \in Nat
         /\ \A i \in Ids : reader.seen[i] \in 0..2
BY HistoryAssumption DEF HistoryTypeOK, Stored, Reader

(* The cursor of a row, against the rows older than it.                    *)
LEMMA CursorOfRow ==
  ASSUME HistoryTypeOK, NEW o \in Stored, NEW i \in Stored
  PROVE  /\ i \in OlderThan(Ms(rows[o]), o) => Newer(o, i)
         /\ Newer(o, i) => i \in OlderThan(Ms(rows[o]), o) \/ Ms(rows[i]) = Ms(rows[o])
<1>1. /\ o \in Nat /\ i \in Nat /\ rows[o] \in Nat /\ rows[i] \in Nat
  BY HistoryFacts
<1>2. PICK t, u, m : t = rows[o] /\ u = rows[i] /\ m = Ms(t)
  OBVIOUS
<1>3. m \in Nat /\ m <= t /\ (u <= t /\ m <= u => Ms(u) = m)
  BY <1>1, <1>2, MsFacts
<1>4. i \in OlderThan(m, o) <=> u < m \/ (u = m /\ i < o)
  BY <1>2 DEF OlderThan
<1>5. Newer(o, i) <=> t > u \/ (t = u /\ o > i)
  BY <1>2 DEF Newer
<1>6. i \in OlderThan(m, o) => Newer(o, i)
  BY <1>1, <1>2, <1>3, <1>4, <1>5
<1>7. Newer(o, i) => i \in OlderThan(m, o) \/ Ms(u) = m
  BY <1>1, <1>2, <1>3, <1>4, <1>5
<1> QED BY <1>2, <1>6, <1>7

LEMMA OlderIsClosed ==
  ASSUME HistoryTypeOK, NEW at \in Nat, NEW id \in Ids,
         NEW o \in OlderThan(at, id), NEW i \in Stored, Newer(o, i)
  PROVE  i \in OlderThan(at, id)
<1>1. /\ o \in Stored /\ id \in Nat /\ o \in Nat /\ i \in Nat /\ rows[o] \in Nat /\ rows[i] \in Nat
  BY HistoryFacts DEF OlderThan
<1>2. rows[o] < at \/ (rows[o] = at /\ o < id)
  BY DEF OlderThan
<1>3. rows[i] < at \/ (rows[i] = at /\ i < id)
  BY <1>1, <1>2 DEF Newer
<1> QED BY <1>3 DEF OlderThan

(* What the client holds after a page, and after the first one.            *)
Paged(S, skip, A) == [AfterPage(S, skip) EXCEPT !.atStart = A]

PagedOK(r, S, skip, A) ==
  /\ r \in Reader /\ r.mode = reader.mode /\ r.atStart = A
  /\ \A i \in Ids : r.seen[i] = IF i \in Page(S, skip) /\ reader.seen[i] < 2
                                  THEN reader.seen[i] + 1 ELSE reader.seen[i]
  /\ HasMore(S, skip) =>
       /\ r.pc = "more" /\ r.id = Oldest(Page(S, skip)) /\ r.at = Ms(rows[r.id])
       /\ r.offset = skip + Take /\ r.edges = reader.edges \cup {r.id}
  /\ ~ HasMore(S, skip) => r.pc = "end" /\ r.edges = reader.edges

LEMMA AfterPageFacts ==
  ASSUME HistoryTypeOK, NEW S, S \subseteq Stored, NEW skip \in Nat, NEW A, A \subseteq Ids,
         NEW r, r = Paged(S, skip, A)
  PROVE  PagedOK(r, S, skip, A)
<1>1. PICK e, d : e = reader /\ d = Delivered(e.seen, Page(S, skip))
  OBVIOUS
<1>2. e \in Reader /\ S \subseteq Ids
  BY <1>1, HistoryFacts
<1>3. \A i \in Ids : e.seen[i] \in 0..2
  BY <1>1, HistoryFacts
<1>4. /\ d \in [Ids -> 0..2]
      /\ \A i \in Ids : d[i] = IF i \in Page(S, skip) /\ e.seen[i] < 2 THEN e.seen[i] + 1 ELSE e.seen[i]
  BY <1>1, <1>3 DEF Delivered
<1>5. CASE HasMore(S, skip)
  <2>1. PICK o, t, k, E : /\ o = Oldest(Page(S, skip)) /\ t = Ms(rows[o]) /\ k = skip + Take
                         /\ E = e.edges \cup {o}
    OBVIOUS
  <2>2. o \in S /\ o \in Ids
    BY <1>2, <1>5, <2>1, PageEnds
  <2>3. t \in Nat /\ k \in Nat /\ E \in SUBSET Ids
    BY <1>2, <2>1, <2>2, HistoryFacts, HistoryAssumption, MsFacts DEF Reader
  <2>4. AfterPage(S, skip) = [e EXCEPT !.pc = "more", !.at = t, !.id = o, !.offset = k,
                                      !.seen = d, !.edges = E]
    BY <1>1, <1>2, <1>5, <2>1 DEF AfterPage, Reader
  <2>5. r = [e EXCEPT !.pc = "more", !.at = t, !.id = o, !.offset = k, !.seen = d, !.edges = E,
                      !.atStart = A]
    BY <1>2, <2>4 DEF Reader, Paged
  <2>6. /\ r \in Reader /\ r.mode = e.mode /\ r.atStart = A /\ r.seen = d /\ r.pc = "more"
        /\ r.id = o /\ r.at = t /\ r.offset = k /\ r.edges = E
    BY <1>2, <1>4, <2>2, <2>3, <2>5 DEF Reader
  <2> QED BY <1>1, <1>4, <1>5, <2>1, <2>6 DEF PagedOK
<1>6. CASE ~ HasMore(S, skip)
  <2>1. AfterPage(S, skip) = [e EXCEPT !.pc = "end", !.seen = d]
    BY <1>1, <1>2, <1>6 DEF AfterPage, Reader
  <2>2. r = [e EXCEPT !.pc = "end", !.seen = d, !.atStart = A]
    BY <1>2, <2>1 DEF Reader, Paged
  <2>3. /\ r \in Reader /\ r.mode = e.mode /\ r.atStart = A /\ r.seen = d /\ r.pc = "end"
        /\ r.edges = e.edges
    BY <1>2, <1>4, <2>2 DEF Reader
  <2> QED BY <1>1, <1>4, <1>6, <2>3 DEF PagedOK
<1> QED BY <1>5, <1>6

(* A page by cursor: S is what is older than the cursor, or everything.    *)
LEMMA CursorPageOK ==
  ASSUME HistoryInv, reader.mode = "cursor", NEW S, S \subseteq Stored,
         \A i \in S : reader.seen[i] = 0,
         \A o \in S, i \in Stored : Newer(o, i) => i \in S,
         NEW A \in SUBSET Stored,
         \A i \in A : reader.seen[i] > 0 \/ i \in S \/ Jumped(reader, i),
         NEW r, r = Paged(S, 0, A)
  PROVE  r \in Reader /\ ReaderOK(r)
<1>1. PICK P, s : P = Page(S, 0) /\ s = reader.seen
  OBVIOUS
<1>2. /\ P \subseteq S /\ S \subseteq Stored /\ Stored \subseteq Ids /\ A \in SUBSET Ids
      /\ \A i \in Ids : s[i] \in 0..2
  BY <1>1, HistoryFacts DEF Page, HistoryInv
<1>3. /\ r \in Reader /\ r.mode = "cursor" /\ r.atStart = A
      /\ \A i \in Ids : r.seen[i] = IF i \in P /\ s[i] < 2 THEN s[i] + 1 ELSE s[i]
      /\ HasMore(S, 0) => /\ r.pc = "more" /\ r.id = Oldest(P) /\ r.at = Ms(rows[r.id])
                          /\ r.edges = reader.edges \cup {r.id}
      /\ ~ HasMore(S, 0) => r.pc = "end" /\ r.edges = reader.edges
  <2>1. HistoryTypeOK /\ S \subseteq Stored /\ 0 \in Nat
    BY DEF HistoryInv
  <2>2. PagedOK(r, S, 0, A)
    BY <1>2, <2>1, AfterPageFacts
  <2> QED BY <1>1, <2>2 DEF PagedOK
<1>4. \A i \in P : s[i] = 0 /\ r.seen[i] = 1
  BY <1>1, <1>2, <1>3
<1>5. \A i \in Ids : s[i] > 0 => i \in Stored /\ r.seen[i] > 0
  BY <1>1, <1>2, <1>3 DEF HistoryInv, ReaderOK
<1>6. \A i \in Ids : (r.seen[i] > 0 => i \in Stored) /\ r.seen[i] <= 1
  <2> SUFFICES ASSUME NEW i \in Ids PROVE (r.seen[i] > 0 => i \in Stored) /\ r.seen[i] <= 1
    OBVIOUS
  <2>1. CASE i \in P
    BY <1>2, <1>4, <2>1
  <2>2. CASE i \notin P
    BY <1>1, <1>3, <2>2 DEF HistoryInv, ReaderOK
  <2> QED BY <2>1, <2>2
<1>7. \A i \in S : Rank(S, i) \in Nat /\ ~ (Rank(S, i) < 0)
  BY <1>2, RankIsNat DEF HistoryInv
<1>8. CASE HasMore(S, 0)
  <2>1. PICK o : o = Oldest(P)
    OBVIOUS
  <2>2. /\ o \in P /\ o \in S /\ \A i \in P : i = o \/ Newer(i, o)
        /\ \A i \in S \ P : Newer(o, i)
    BY <1>1, <1>2, <1>7, <1>8, <2>1, PageEnds DEF HistoryInv
  <2>3. /\ r.pc = "more" /\ r.id = o /\ r.at = Ms(rows[o]) /\ r.edges = reader.edges \cup {o}
    BY <1>3, <1>8, <2>1
  <2>4. r.edges \subseteq Stored
    BY <1>2, <2>2, <2>3 DEF HistoryInv, ReaderOK
  <2>5. ASSUME NEW i \in OlderThan(r.at, r.id) PROVE r.seen[i] = 0
    <3>1. i \in Stored /\ i \in Ids
      BY <1>2 DEF OlderThan
    <3>2. Newer(o, i)
      BY <1>2, <2>2, <2>3, <3>1, CursorOfRow DEF HistoryInv
    <3>3. i \in S
      BY <2>2, <3>1, <3>2
    <3>4. i \notin P
      <4>1. ~ (i = o) /\ ~ Newer(i, o)
        BY <1>2, <2>2, <3>1, <3>2, HistoryFacts DEF HistoryInv, Newer
      <4> QED BY <2>2, <4>1
    <3> QED BY <1>1, <1>3, <3>1, <3>3, <3>4
  <2>6. ASSUME NEW i \in A
        PROVE  r.seen[i] > 0 \/ i \in OlderThan(r.at, r.id) \/ Jumped(r, i)
    <3>1. i \in Stored /\ i \in Ids
      BY <1>2
    <3>2. CASE s[i] > 0
      BY <1>5, <3>1, <3>2
    <3>3. CASE Jumped(reader, i)
      BY <2>3, <3>3 DEF Jumped
    <3>4. CASE i \in S
      <4>1. CASE i \in P
        BY <1>4, <4>1
      <4>2. CASE i \notin P
        <5>1. i \in OlderThan(r.at, r.id) \/ Ms(rows[i]) = Ms(rows[o])
          BY <1>2, <2>2, <2>3, <3>1, <3>4, <4>2, CursorOfRow DEF HistoryInv
        <5> QED BY <2>3, <5>1 DEF Jumped
      <4> QED BY <4>1, <4>2
    <3> QED BY <1>1, <3>2, <3>3, <3>4
  <2> QED BY <1>2, <1>3, <1>6, <2>3, <2>4, <2>5, <2>6 DEF ReaderOK
<1>9. CASE ~ HasMore(S, 0)
  <2>1. r.pc = "end" /\ r.edges = reader.edges
    BY <1>3, <1>9
  <2>2. \A i \in S : i \in P
    BY <1>1, <1>2, <1>7, <1>9, PageEnds DEF HistoryInv
  <2>3. ASSUME NEW i \in A PROVE r.seen[i] > 0 \/ Jumped(r, i)
    <3>1. CASE i \in S
      BY <1>4, <2>2, <3>1
    <3>2. CASE s[i] > 0
      BY <1>2, <1>5, <3>2
    <3>3. CASE Jumped(reader, i)
      BY <2>1, <3>3 DEF Jumped
    <3> QED BY <1>1, <3>1, <3>2, <3>3
  <2>4. r.edges \subseteq Stored
    BY <2>1 DEF HistoryInv, ReaderOK
  <2> QED BY <1>2, <1>3, <1>6, <2>1, <2>3, <2>4 DEF ReaderOK
<1> QED BY <1>3, <1>8, <1>9

(* A page by offset.                                                       *)
LEMMA OffsetPageOK ==
  ASSUME HistoryInv, reader.mode = "offset", NEW skip \in Nat, NEW A \in SUBSET Stored,
         \A i \in A : reader.seen[i] > 0 \/ skip <= Rank(Stored, i),
         NEW r, r = Paged(Stored, skip, A)
  PROVE  r \in Reader /\ ReaderOK(r)
<1>1. PICK P, s : P = Page(Stored, skip) /\ s = reader.seen
  OBVIOUS
<1>2. /\ P \subseteq Stored /\ Stored \subseteq Ids /\ A \in SUBSET Ids
      /\ \A i \in Ids : s[i] \in 0..2
  BY <1>1, HistoryFacts DEF Page, HistoryInv
<1>3. /\ r \in Reader /\ r.mode = "offset" /\ r.atStart = A
      /\ \A i \in Ids : r.seen[i] = IF i \in P /\ s[i] < 2 THEN s[i] + 1 ELSE s[i]
      /\ HasMore(Stored, skip) => /\ r.pc = "more" /\ r.id = Oldest(P) /\ r.offset = skip + Take
                                  /\ r.edges = reader.edges \cup {r.id}
      /\ ~ HasMore(Stored, skip) => r.pc = "end" /\ r.edges = reader.edges
  <2>1. HistoryTypeOK /\ Stored \subseteq Stored /\ skip \in Nat
    BY DEF HistoryInv
  <2>2. PagedOK(r, Stored, skip, A)
    BY <1>2, <2>1, AfterPageFacts
  <2> QED BY <1>1, <2>2 DEF PagedOK
<1>4. \A i \in Ids : i \in P \/ s[i] > 0 => r.seen[i] > 0
  BY <1>2, <1>3
<1>5. \A i \in Ids : r.seen[i] > 0 => i \in Stored
  <2> SUFFICES ASSUME NEW i \in Ids, r.seen[i] > 0 PROVE i \in Stored
    OBVIOUS
  <2>1. CASE i \in P
    BY <1>2, <2>1
  <2>2. CASE i \notin P
    BY <1>1, <1>3, <2>2 DEF HistoryInv, ReaderOK
  <2> QED BY <2>1, <2>2
<1>6. \A i \in Stored : Rank(Stored, i) \in Nat
  BY <1>2, RankIsNat DEF HistoryInv
<1>7. CASE HasMore(Stored, skip)
  <2>1. r.edges \subseteq Stored
    <3>1. Oldest(P) \in Stored
      BY <1>1, <1>2, <1>7, PageEnds DEF HistoryInv
    <3> QED BY <1>3, <1>7, <3>1 DEF HistoryInv, ReaderOK
  <2>2. ASSUME NEW i \in A PROVE r.seen[i] > 0 \/ r.offset <= Rank(Stored, i)
    <3>1. CASE s[i] > 0 \/ i \in P
      BY <1>2, <1>4, <3>1
    <3>2. CASE ~ (s[i] > 0) /\ i \notin P
      <4>1. skip <= Rank(Stored, i) /\ i \in Stored
        BY <1>1, <3>2
      <4>2. ~ (Rank(Stored, i) < skip + Take)
        BY <1>1, <3>2, <4>1 DEF Page
      <4> QED BY <1>3, <1>6, <1>7, <4>1, <4>2, HistoryAssumption
    <3> QED BY <3>1, <3>2
  <2> QED BY <1>2, <1>3, <1>5, <1>7, <2>1, <2>2 DEF ReaderOK
<1>8. CASE ~ HasMore(Stored, skip)
  <2>1. r.edges \subseteq Stored
    BY <1>3, <1>8 DEF HistoryInv, ReaderOK
  <2>2. ASSUME NEW i \in A PROVE r.seen[i] > 0
    <3>1. CASE s[i] > 0
      BY <1>2, <1>4, <3>1
    <3>2. CASE ~ (s[i] > 0)
      <4>1. skip <= Rank(Stored, i) /\ i \in Stored
        BY <1>1, <3>2
      <4>2. ~ (Rank(Stored, i) < skip)
        BY <1>6, <4>1
      <4>3. i \in P
        BY <1>1, <1>2, <1>8, <4>1, <4>2, PageEnds DEF HistoryInv
      <4> QED BY <1>2, <1>4, <4>3
    <3> QED BY <3>1, <3>2
  <2> QED BY <1>2, <1>3, <1>5, <1>8, <2>1, <2>2 DEF ReaderOK
<1> QED BY <1>3, <1>7, <1>8

-----------------------------------------------------------------------------
LEMMA ReaderMoves ==
  ASSUME HistoryInv, UNCHANGED <<now, rows>>, NEW r \in Reader, ReaderOK(r), reader' = r
  PROVE  HistoryInv'
<1>1. HistoryTypeOK'
  BY DEF HistoryInv, HistoryTypeOK
<1>2. ReaderOK(r)'
  BY DEF ReaderOK, Jumped, OlderThan, Stored, Rank, Newer
<1> QED BY <1>1, <1>2 DEF HistoryInv

LEMMA FirstPageStep == ASSUME HistoryInv, FirstPage PROVE HistoryInv'
<1>1. reader.pc = "new" /\ UNCHANGED <<now, rows>> /\ Stored \subseteq Ids
  BY HistoryFacts DEF FirstPage, HistoryInv
<1>2. \A i \in Stored : reader.seen[i] = 0
  BY <1>1 DEF HistoryInv, ReaderOK
<1>3. PICK r : r = Paged(Stored, 0, Stored)
  OBVIOUS
<1>4. reader.mode \in {"cursor", "offset"}
  BY HistoryFacts DEF HistoryInv, Reader
<1>5. r \in Reader /\ ReaderOK(r)
  <2>1. CASE reader.mode = "cursor"
    BY <1>2, <1>3, <2>1, CursorPageOK
  <2>2. CASE reader.mode = "offset"
    <3>1. \A i \in Stored : 0 <= Rank(Stored, i)
      BY <1>1, RankIsNat DEF HistoryInv
    <3> QED BY <1>3, <2>2, <3>1, OffsetPageOK
  <2> QED BY <1>4, <2>1, <2>2
<1>6. reader' = r
  BY <1>3 DEF FirstPage, Paged
<1> QED BY <1>1, <1>5, <1>6, ReaderMoves

LEMMA NextPageStep == ASSUME HistoryInv, NextPage \/ NextOffsetPage PROVE HistoryInv'
<1>1. /\ reader.pc = "more" /\ UNCHANGED <<now, rows>> /\ Stored \subseteq Ids
      /\ reader \in Reader /\ reader.atStart \in SUBSET Stored /\ reader.atStart \in SUBSET Ids
  BY HistoryFacts DEF NextPage, NextOffsetPage, HistoryInv, ReaderOK, Reader
<1>2. ASSUME NEW S, S \subseteq Stored, NEW skip \in Nat
      PROVE  AfterPage(S, skip) = Paged(S, skip, reader.atStart)
  BY <1>1 DEF AfterPage, Reader, Paged
<1>3. CASE NextPage
  <2>1. PICK S : S = OlderThan(reader.at, reader.id)
    OBVIOUS
  <2>2. reader.mode = "cursor" /\ reader' = AfterPage(S, 0)
    BY <1>3, <2>1 DEF NextPage
  <2>3. S \subseteq Stored /\ \A i \in S : reader.seen[i] = 0
    BY <1>1, <2>1, <2>2 DEF HistoryInv, ReaderOK, OlderThan
  <2>4. \A o \in S, i \in Stored : Newer(o, i) => i \in S
    BY <1>1, <2>1, OlderIsClosed DEF HistoryInv, Reader
  <2>5. \A i \in reader.atStart : reader.seen[i] > 0 \/ i \in S \/ Jumped(reader, i)
    BY <1>1, <2>1, <2>2 DEF HistoryInv, ReaderOK
  <2>6. PICK r : r = Paged(S, 0, reader.atStart)
    OBVIOUS
  <2>7. r \in Reader /\ ReaderOK(r)
    BY <1>1, <2>2, <2>3, <2>4, <2>5, <2>6, CursorPageOK
  <2> QED BY <1>1, <1>2, <2>2, <2>3, <2>6, <2>7, ReaderMoves
<1>4. CASE NextOffsetPage
  <2>1. PICK skip \in Nat : skip = reader.offset
    BY <1>1 DEF Reader
  <2>2. reader.mode = "offset" /\ reader' = AfterPage(Stored, skip)
    BY <1>4, <2>1 DEF NextOffsetPage
  <2>3. \A i \in reader.atStart : reader.seen[i] > 0 \/ skip <= Rank(Stored, i)
    BY <1>1, <2>1, <2>2 DEF HistoryInv, ReaderOK
  <2>4. PICK r : r = Paged(Stored, skip, reader.atStart)
    OBVIOUS
  <2>5. r \in Reader /\ ReaderOK(r)
    BY <1>1, <2>1, <2>2, <2>3, <2>4, OffsetPageOK
  <2> QED BY <1>1, <1>2, <2>2, <2>4, <2>5, ReaderMoves
<1> QED BY <1>3, <1>4

LEMMA InsertMessageStep ==
  ASSUME HistoryInv, NEW k \in Ids, InsertMessage(k) PROVE HistoryInv'
<1>1. /\ rows[k] = 0 /\ rows' = [rows EXCEPT ![k] = now] /\ UNCHANGED <<now, reader>>
      /\ rows \in [Ids -> Nat] /\ now \in Nat \ {0} /\ Stored \subseteq Ids
  BY DEF InsertMessage, HistoryInv, HistoryTypeOK, Stored
<1>2. \A i \in Ids : rows'[i] = IF i = k THEN now ELSE rows[i]
  BY <1>1
<1>3. HistoryTypeOK'
  BY <1>1 DEF HistoryInv, HistoryTypeOK
<1>4. k \notin Stored /\ Stored' = Stored \cup {k} /\ \A i \in Stored : rows'[i] = rows[i]
  BY <1>1, <1>2 DEF Stored
<1>5. PICK r \in Reader : r = reader /\ ReaderOK(r)
  BY HistoryFacts DEF HistoryInv
<1>6. r.seen[k] = 0
  <2>1. r.seen[k] \in 0..2 /\ ~ (r.seen[k] > 0)
    BY <1>4, <1>5 DEF Reader, ReaderOK
  <2> QED BY <2>1
<1>7. \A at, id : \A i \in Stored : i \in OlderThan(at, id) <=> i \in OlderThan(at, id)'
  BY <1>4 DEF OlderThan
<1>8. \A at, id : \A i \in OlderThan(at, id)' : i \in OlderThan(at, id) \/ i = k
  BY <1>4 DEF OlderThan
<1>9. \A i \in Stored : Jumped(r, i) => Jumped(r, i)'
  BY <1>4, <1>5 DEF Jumped, ReaderOK
<1>10. ASSUME NEW i \in Stored
       PROVE  Rank(Stored, i) \in Nat /\ Rank(Stored, i)' \in Nat /\ Rank(Stored, i) <= Rank(Stored, i)'
  <2>1. {j \in Stored : Newer(j, i)} \subseteq {j \in Stored' : Newer(j, i)'}
    BY <1>4 DEF Newer
  <2>2. {j \in Stored' : Newer(j, i)'} \subseteq Ids
    BY <1>1, <1>4
  <2> QED BY <2>1, <2>2, HistoryAssumption, FS_Subset, FS_CardinalityType DEF Rank
<1>11. ReaderOK(r)'
  <2>1. /\ r.atStart \subseteq Stored /\ r.edges \subseteq Stored
        /\ \A i \in Ids : r.seen[i] > 0 => i \in Stored
    BY <1>5 DEF ReaderOK
  <2>2. r.pc = "more" /\ r.mode = "cursor" => \A i \in OlderThan(r.at, r.id)' : r.seen[i] = 0
    BY <1>5, <1>6, <1>8 DEF ReaderOK
  <2>3. r.pc = "more" /\ r.mode = "cursor" =>
          \A i \in r.atStart : r.seen[i] > 0 \/ i \in OlderThan(r.at, r.id)' \/ Jumped(r, i)'
    BY <1>5, <1>7, <1>9, <2>1 DEF ReaderOK
  <2>4. r.pc = "more" /\ r.mode = "offset" =>
          \A i \in r.atStart : r.seen[i] > 0 \/ r.offset <= Rank(Stored, i)'
    <3> SUFFICES ASSUME r.pc = "more", r.mode = "offset", NEW i \in r.atStart, ~ (r.seen[i] > 0)
                 PROVE  r.offset <= Rank(Stored, i)'
      OBVIOUS
    <3>1. r.offset <= Rank(Stored, i) /\ r.offset \in Nat
      BY <1>5 DEF ReaderOK, Reader
    <3> QED BY <1>10, <2>1, <3>1
  <2>5. r.pc = "end" => \A i \in r.atStart : r.seen[i] > 0 \/ (r.mode = "cursor" /\ Jumped(r, i)')
    BY <1>5, <1>9, <2>1 DEF ReaderOK
  <2>6. /\ r.pc = "new" => \A i \in Ids : r.seen[i] = 0
        /\ r.mode = "cursor" => \A i \in Ids : r.seen[i] <= 1
    BY <1>5 DEF ReaderOK
  <2>7. /\ r.atStart \subseteq Stored' /\ r.edges \subseteq Stored'
        /\ \A i \in Ids : r.seen[i] > 0 => i \in Stored'
    BY <1>4, <2>1
  <2> QED BY <2>2, <2>3, <2>4, <2>5, <2>6, <2>7 DEF ReaderOK
<1> QED BY <1>1, <1>3, <1>5, <1>11 DEF HistoryInv

LEMMA HistoryStep == ASSUME HistoryInv, HistoryNext PROVE HistoryInv'
<1>1. ASSUME Tick PROVE HistoryInv'
  <2>1. HistoryTypeOK'
    BY <1>1 DEF Tick, HistoryInv, HistoryTypeOK
  <2>2. ReaderOK(reader)'
    BY <1>1 DEF Tick, HistoryInv, ReaderOK, Jumped, OlderThan, Stored, Rank, Newer
  <2> QED BY <2>1, <2>2 DEF HistoryInv
<1> QED BY <1>1, InsertMessageStep, FirstPageStep, NextPageStep DEF HistoryNext

LEMMA HistoryStays == ASSUME HistoryInv, UNCHANGED historyVars PROVE HistoryInv'
BY DEF historyVars, HistoryInv, HistoryTypeOK, ReaderOK, Jumped, OlderThan, Stored, Rank, Newer

LEMMA HistoryStarts == ASSUME HistoryInit PROVE HistoryInv
<1>1. /\ reader \in Reader /\ reader.pc = "new" /\ reader.atStart = {} /\ reader.edges = {}
      /\ reader.seen = [i \in Ids |-> 0]
  BY HistoryAssumption DEF HistoryInit, Reader
<1>2. HistoryTypeOK
  BY <1>1 DEF HistoryInit, HistoryTypeOK
<1> QED BY <1>1, <1>2 DEF HistoryInv, ReaderOK

(***************************************************************************)
(* The list of conversations                                               *)
(***************************************************************************)
BeforeIn(S) == {p \in S \X S : Before(p[1], p[2])}

LEMMA ListFacts ==
  ASSUME ListTypeOK
  PROVE  /\ lister \in Lister /\ matches \subseteq Convos /\ Limit \in Nat \ {0}
         /\ \A i \in Convos : /\ i \in Nat /\ lastMessageAt[i] \in 0..MaxMs /\ lastMessageAt[i] \in Nat
                              /\ lister.listed[i] \in 0..2
         /\ ms \in Nat /\ MaxMs \in Nat
BY ListAssumption DEF ListTypeOK, Lister

LEMMA BeforeOrders ==
  ASSUME ListTypeOK, NEW S, S \subseteq Convos
  PROVE  /\ IsFiniteSet(S) /\ StrictOrder(BeforeIn(S), S)
         /\ \A n : Top(n, S) = First(BeforeIn(S), S, n)
         /\ \A i, j \in S : <<i, j>> \in BeforeIn(S) <=> Before(i, j)
<1>1. \A i \in S : i \in Nat /\ lastMessageAt[i] \in Nat
  BY ListFacts
<1>2. \A i, j \in S : <<i, j>> \in BeforeIn(S) <=> Before(i, j)
  BY DEF BeforeIn
<1>3. StrictOrder(BeforeIn(S), S)
  BY <1>1, <1>2 DEF StrictOrder, Before
<1>4. IsFiniteSet(S)
  BY ListAssumption, FS_Subset
<1>5. \A i \in S : Above(BeforeIn(S), S, i) = {j \in S : Before(j, i)}
  BY <1>2 DEF Above
<1>6. \A n : Top(n, S) = First(BeforeIn(S), S, n)
  BY <1>5 DEF Top, First, RankIn
<1> QED BY <1>2, <1>3, <1>4, <1>6

(* The first n conversations, and the others.                              *)
LEMMA TopIsFirst ==
  ASSUME ListTypeOK, NEW S, S \subseteq Convos, NEW n \in Nat
  PROVE  /\ Cardinality(S) \in Nat
         /\ n <= Cardinality(S) => Cardinality(Top(n, S)) = n
         /\ Cardinality(S) <= n => Top(n, S) = S
         /\ \A i \in S \ Top(n, S), j \in Top(n, S) : Before(j, i)
<1>1. PICK R : R = BeforeIn(S)
  OBVIOUS
<1>2. /\ IsFiniteSet(S) /\ StrictOrder(R, S) /\ Top(n, S) = First(R, S, n)
      /\ \A i, j \in S : <<i, j>> \in R <=> Before(i, j)
  BY <1>1, BeforeOrders
<1>3. /\ \A i \in S : RankIn(R, S, i) \in Nat /\ RankIn(R, S, i) < Cardinality(S)
      /\ \A i, j \in S : <<i, j>> \in R <=> RankIn(R, S, i) < RankIn(R, S, j)
      /\ Cardinality(S) \in Nat
  BY <1>2, RankOrders, FS_CardinalityType
<1>4. n <= Cardinality(S) => Cardinality(Top(n, S)) = n
  BY <1>2, FirstAreMany
<1>5. Cardinality(S) <= n => Top(n, S) = S
  BY <1>2, <1>3 DEF First
<1>6. ASSUME NEW i \in S \ Top(n, S), NEW j \in Top(n, S) PROVE Before(j, i)
  <2>1. j \in S /\ RankIn(R, S, j) < n /\ ~ (RankIn(R, S, i) < n)
    BY <1>2 DEF First
  <2>2. RankIn(R, S, j) < RankIn(R, S, i)
    BY <1>3, <2>1
  <2> QED BY <1>2, <1>3, <2>1, <2>2
<1> QED BY <1>3, <1>4, <1>5, <1>6

LEMMA TailIsLast ==
  ASSUME ListTypeOK, NEW S, S \subseteq Convos, Limit < Cardinality(S)
  PROVE  LET t == BottomOf(Top(Limit, S)) IN
         /\ t \in Top(Limit, S) /\ t \in S
         /\ \A i \in Top(Limit, S) : i = t \/ Before(i, t)
         /\ \A i \in S \ Top(Limit, S) : Before(t, i)
<1>1. PICK R, n : R = BeforeIn(S) /\ n = Limit - 1
  OBVIOUS
<1>2. /\ IsFiniteSet(S) /\ StrictOrder(R, S) /\ Top(Limit, S) = First(R, S, Limit)
      /\ \A i, j \in S : <<i, j>> \in R <=> Before(i, j)
  BY <1>1, BeforeOrders
<1>3. /\ \A i \in S : RankIn(R, S, i) \in Nat
      /\ \A i, j \in S : <<i, j>> \in R <=> RankIn(R, S, i) < RankIn(R, S, j)
  BY <1>2, RankOrders
<1>4. n \in Nat /\ Limit = n + 1 /\ Limit \in Nat /\ Cardinality(S) \in Nat /\ n < Cardinality(S)
  BY <1>1, <1>2, ListAssumption, FS_CardinalityType
<1>5. PICK x \in S : RankIn(R, S, x) = n
  BY <1>2, <1>4, RankExists
<1>6. x \in Top(Limit, S)
  BY <1>2, <1>4, <1>5 DEF First
<1>7. \A j \in Top(Limit, S) \ {x} : Before(j, x)
  <2> SUFFICES ASSUME NEW j \in Top(Limit, S) \ {x} PROVE Before(j, x)
    OBVIOUS
  <2>1. j \in S /\ RankIn(R, S, j) < Limit
    BY <1>2 DEF First
  <2>2. RankIn(R, S, j) <= n
    BY <1>3, <1>4, <2>1
  <2>3. <<x, j>> \notin R
    BY <1>3, <1>4, <1>5, <2>1, <2>2
  <2>4. <<j, x>> \in R
    BY <1>2, <2>1, <2>3 DEF StrictOrder
  <2> QED BY <1>2, <2>1, <2>4
<1>8. PICK t : t = BottomOf(Top(Limit, S))
  OBVIOUS
<1>9. t \in Top(Limit, S) /\ \A j \in Top(Limit, S) \ {t} : Before(j, t)
  BY <1>6, <1>7, <1>8 DEF BottomOf
<1>10. t = x
  <2>1. ASSUME t # x PROVE FALSE
    <3>1. Before(x, t) /\ Before(t, x) /\ t \in S
      BY <1>2, <1>6, <1>7, <1>9, <2>1 DEF First
    <3>2. RankIn(R, S, x) < RankIn(R, S, t) /\ RankIn(R, S, t) < RankIn(R, S, x)
      BY <1>2, <1>3, <3>1
    <3> QED BY <1>3, <3>1, <3>2
  <2> QED BY <2>1
<1>11. \A i \in S \ Top(Limit, S) : Before(x, i)
  BY <1>4, <1>6, TopIsFirst
<1> QED BY <1>6, <1>7, <1>8, <1>10, <1>11

-----------------------------------------------------------------------------
(* What was listed is not behind the cursor, unless a stale save moved it; *)
(* what is quiet was listed, is in the page at work or is behind it.       *)
Past(at, id, i) == lastMessageAt[i] < at \/ (lastMessageAt[i] = at /\ i < id)

SelectedBy(l) == IF l.pc = "new" THEN matches ELSE ListedAfter(l.at, l.id)

Coming(l, i) ==
  \/ l.listed[i] > 0 \/ i \in l.ids
  \/ /\ i \in SelectedBy(l)
     /\ l.ids # {} => Cardinality(l.ids) = Limit + 1 /\ \A j \in l.ids : Before(j, i)

ListerOK(l) ==
  /\ l.quiet \subseteq matches
  /\ l.pc = "new" => \A i \in Convos : l.listed[i] = 0
  /\ \A i \in Convos : l.listed[i] > 1 => i \in l.moved
  /\ l.pc = "more" => \A i \in Convos : l.listed[i] > 0 /\ Past(l.at, l.id, i) => i \in l.moved
  /\ l.pc = "end" => l.ids = {}
  /\ l.pc = "new" /\ l.ids = {} => l.quiet = {}
  /\ ~l.torn /\ l.pc # "end" => l.ids \subseteq SelectedBy(l) /\ \A i \in l.quiet : Coming(l, i)
  /\ ~l.torn /\ l.pc = "end" => \A i \in l.quiet : l.listed[i] > 0

ListInv ==
  /\ ListTypeOK /\ ListerOK(lister)
  /\ \A i \in Convos : lastMessageAt[i] <= ms

LEMMA PastIsAfter ==
  ASSUME ListTypeOK, NEW o \in Convos, NEW i \in Convos
  PROVE  /\ Past(lastMessageAt[o], o, i) <=> Before(o, i)
         /\ \A at \in Nat, id \in Nat : Past(at, id, o) /\ Before(o, i) => Past(at, id, i)
<1>1. o \in Nat /\ i \in Nat /\ lastMessageAt[o] \in Nat /\ lastMessageAt[i] \in Nat
  BY ListFacts
<1> QED BY <1>1 DEF Past, Before

ListPaged(S, Q) == [AfterListPage(S) EXCEPT !.quiet = Q]

ListPagedOK(r, S, Q) ==
  /\ r \in Lister /\ r.quiet = Q /\ r.moved = lister.moved /\ r.torn = lister.torn /\ r.ids = {}
  /\ \A i \in Convos : r.listed[i] = IF i \in Top(Limit, S) /\ lister.listed[i] < 2
                                       THEN lister.listed[i] + 1 ELSE lister.listed[i]
  /\ Limit < Cardinality(S) =>
       r.pc = "more" /\ r.id = BottomOf(Top(Limit, S)) /\ r.at = lastMessageAt[r.id]
  /\ ~ (Limit < Cardinality(S)) => r.pc = "end"

LEMMA ListPageFacts ==
  ASSUME ListTypeOK, NEW S, S \subseteq Convos, NEW Q, Q \subseteq Convos, NEW r, r = ListPaged(S, Q)
  PROVE  ListPagedOK(r, S, Q)
<1>1. PICK e, d : e = lister /\ d = Listed(Top(Limit, S))
  OBVIOUS
<1>2. e \in Lister /\ \A i \in Convos : e.listed[i] \in 0..2
  BY <1>1, ListFacts
<1>3. /\ d \in [Convos -> 0..2]
      /\ \A i \in Convos : d[i] = IF i \in Top(Limit, S) /\ e.listed[i] < 2
                                    THEN e.listed[i] + 1 ELSE e.listed[i]
  BY <1>1, <1>2 DEF Listed
<1>4. Limit \in Nat /\ Cardinality(S) \in Nat /\ (Cardinality(S) > Limit <=> Limit < Cardinality(S))
  BY ListAssumption, TopIsFirst
<1>5. CASE Limit < Cardinality(S)
  <2>1. PICK t, u : t = BottomOf(Top(Limit, S)) /\ u = lastMessageAt[t]
    OBVIOUS
  <2>2. t \in Convos /\ u \in 0..MaxMs
    BY <1>5, <2>1, TailIsLast, ListFacts
  <2>3. AfterListPage(S) = [e EXCEPT !.pc = "more", !.at = u, !.id = t, !.listed = d, !.ids = {}]
    BY <1>1, <1>4, <1>5, <2>1 DEF AfterListPage
  <2>4. r = [e EXCEPT !.pc = "more", !.at = u, !.id = t, !.listed = d, !.ids = {}, !.quiet = Q]
    BY <1>2, <2>3 DEF Lister, ListPaged
  <2>5. /\ r \in Lister /\ r.quiet = Q /\ r.moved = e.moved /\ r.torn = e.torn /\ r.ids = {}
        /\ r.listed = d /\ r.pc = "more" /\ r.id = t /\ r.at = u
    BY <1>2, <1>3, <2>2, <2>4 DEF Lister
  <2> QED BY <1>1, <1>3, <1>5, <2>1, <2>5 DEF ListPagedOK
<1>6. CASE ~ (Limit < Cardinality(S))
  <2>1. AfterListPage(S) = [e EXCEPT !.pc = "end", !.listed = d, !.ids = {}]
    BY <1>1, <1>4, <1>6 DEF AfterListPage
  <2>2. r = [e EXCEPT !.pc = "end", !.listed = d, !.ids = {}, !.quiet = Q]
    BY <1>2, <2>1 DEF Lister, ListPaged
  <2>3. /\ r \in Lister /\ r.quiet = Q /\ r.moved = e.moved /\ r.torn = e.torn /\ r.ids = {}
        /\ r.listed = d /\ r.pc = "end"
    BY <1>2, <1>3, <2>2 DEF Lister
  <2> QED BY <1>1, <1>3, <1>6, <2>3 DEF ListPagedOK
<1> QED BY <1>5, <1>6

(* A page: S are rows that are selected; what is quiet is among them, or   *)
(* after all of them and then there are more than a page holds.            *)
LEMMA ListPageOK ==
  ASSUME ListInv, lister.pc # "end", NEW S, S \subseteq SelectedBy(lister), NEW Q, Q \subseteq matches,
         ~lister.torn => \A i \in Q :
           \/ lister.listed[i] > 0 \/ i \in S
           \/ Limit < Cardinality(S) /\ \A j \in S : Before(j, i),
         NEW r, r = ListPaged(S, Q)
  PROVE  r \in Lister /\ ListerOK(r)
<1>1. PICK P, l : P = Top(Limit, S) /\ l = lister
  OBVIOUS
<1>2. /\ ListTypeOK /\ l \in Lister /\ ListerOK(l) /\ matches \subseteq Convos
      /\ \A i \in Convos : i \in Nat /\ l.listed[i] \in 0..2
  BY <1>1, ListFacts DEF ListInv
<1>3. S \subseteq Convos /\ S \subseteq matches /\ P \subseteq S /\ Q \subseteq Convos
  BY <1>1, <1>2 DEF SelectedBy, ListedAfter, Top
<1>4. ListPagedOK(r, S, Q)
  BY <1>2, <1>3, ListPageFacts
<1>5. /\ r \in Lister /\ r.quiet = Q /\ r.moved = l.moved /\ r.torn = l.torn /\ r.ids = {}
      /\ \A i \in Convos : r.listed[i] = IF i \in P /\ l.listed[i] < 2
                                           THEN l.listed[i] + 1 ELSE l.listed[i]
      /\ Limit < Cardinality(S) => r.pc = "more" /\ r.id = BottomOf(P) /\ r.at = lastMessageAt[r.id]
      /\ ~ (Limit < Cardinality(S)) => r.pc = "end"
  BY <1>1, <1>4 DEF ListPagedOK
<1>6. l.pc \in {"new", "more"} /\ l.at \in Nat /\ l.id \in Nat /\ l.id \in Convos
  <2>1. l.pc \in {"new", "more", "end"} /\ l.at \in 0..MaxMs /\ l.id \in Convos
    BY <1>2 DEF Lister
  <2>2. MaxMs \in Nat /\ Convos \subseteq Nat
    BY ListAssumption
  <2>3. l.at \in Nat
    BY <2>1, <2>2
  <2>4. l.id \in Nat
    BY <2>1, <2>2
  <2> QED BY <1>1, <2>1, <2>3, <2>4
<1>7. \A i \in S : l.listed[i] > 0 => i \in l.moved
  <2>1. CASE l.pc = "new"
    BY <1>2, <1>3, <2>1 DEF ListerOK
  <2>2. CASE l.pc = "more"
    <3>1. \A i \in S : Past(l.at, l.id, i)
      BY <1>1, <2>2 DEF SelectedBy, ListedAfter, Past
    <3> QED BY <1>2, <1>3, <2>2, <3>1 DEF ListerOK
  <2> QED BY <1>6, <2>1, <2>2
<1>8. \A i \in Convos : r.listed[i] > 1 => i \in r.moved
  <2> SUFFICES ASSUME NEW i \in Convos, r.listed[i] > 1 PROVE i \in l.moved
    BY <1>5
  <2>1. CASE l.listed[i] > 1
    BY <1>2, <2>1 DEF ListerOK
  <2>2. CASE ~ (l.listed[i] > 1)
    <3>1. i \in P /\ l.listed[i] > 0
      BY <1>2, <1>5, <2>2
    <3> QED BY <1>3, <1>7, <3>1
  <2> QED BY <2>1, <2>2
<1>9. \A i \in Convos : i \in P \/ l.listed[i] > 0 => r.listed[i] > 0
  BY <1>2, <1>5
<1>10. CASE Limit < Cardinality(S)
  <2>1. PICK t : t = BottomOf(P)
    OBVIOUS
  <2>2. /\ t \in P /\ t \in Convos /\ \A i \in P : i = t \/ Before(i, t)
        /\ \A i \in S \ P : Before(t, i)
    BY <1>1, <1>2, <1>3, <1>10, <2>1, TailIsLast
  <2>3. r.pc = "more" /\ r.id = t /\ r.at = lastMessageAt[t]
    BY <1>5, <1>10, <2>1
  <2>4. ASSUME NEW i \in Convos, r.listed[i] > 0, Past(r.at, r.id, i) PROVE i \in r.moved
    <3>1. Before(t, i)
      BY <1>2, <2>2, <2>3, <2>4, PastIsAfter
    <3>2. i \notin P
      <4>1. ~ (i = t) /\ ~ Before(i, t)
        BY <1>2, <2>2, <3>1, ListFacts DEF Before
      <4> QED BY <2>2, <4>1
    <3>3. l.listed[i] > 0
      BY <1>5, <2>4, <3>2
    <3>4. l.pc = "more"
      BY <1>2, <1>6, <3>3 DEF ListerOK
    <3>5. Past(l.at, l.id, t)
      BY <1>1, <1>3, <2>2, <3>4 DEF SelectedBy, ListedAfter, Past
    <3>6. Past(l.at, l.id, i)
      BY <1>2, <1>6, <2>2, <3>1, <3>5, PastIsAfter
    <3> QED BY <1>2, <1>5, <3>3, <3>4, <3>6 DEF ListerOK
  <2>5. ASSUME ~r.torn, NEW i \in Q PROVE Coming(r, i)
    <3>1. i \in matches /\ i \in Convos
      BY <1>2
    <3>2. Before(t, i) => i \in SelectedBy(r)
      <4>1. Before(t, i) => Past(r.at, r.id, i)
        BY <1>2, <2>2, <2>3, <3>1, PastIsAfter
      <4> QED BY <2>3, <3>1, <4>1 DEF SelectedBy, ListedAfter, Past
    <3>3. l.listed[i] > 0 \/ i \in S \/ \A j \in S : Before(j, i)
      BY <1>1, <1>5, <2>5
    <3>4. r.listed[i] > 0 \/ Before(t, i)
      BY <1>3, <1>9, <2>2, <3>1, <3>3
    <3> QED BY <1>5, <3>2, <3>4 DEF Coming
  <2> QED BY <1>5, <1>8, <2>3, <2>4, <2>5 DEF ListerOK
<1>11. CASE ~ (Limit < Cardinality(S))
  <2>1. P = S
    <3>1. Limit \in Nat /\ Cardinality(S) \in Nat
      BY <1>2, <1>3, ListAssumption, TopIsFirst
    <3>2. Cardinality(S) <= Limit
      BY <1>11, <3>1
    <3> QED BY <1>1, <1>2, <1>3, <3>1, <3>2, TopIsFirst
  <2>2. ASSUME ~r.torn, NEW i \in Q PROVE r.listed[i] > 0
    <3>1. l.listed[i] > 0 \/ i \in S
      BY <1>1, <1>5, <1>11, <2>2
    <3> QED BY <1>3, <1>9, <2>1, <3>1
  <2> QED BY <1>5, <1>8, <1>11, <2>2 DEF ListerOK
<1> QED BY <1>5, <1>10, <1>11

LEMMA ListerMoves ==
  ASSUME ListInv, UNCHANGED <<ms, lastMessageAt, matches>>, lister' \in Lister,
         NEW r, lister' = r, ListerOK(r)
  PROVE  ListInv'
<1>1. ListTypeOK'
  BY DEF ListInv, ListTypeOK
<1>2. ListerOK(lister')
  OBVIOUS
<1>3. ListerOK(lister)'
  BY <1>2 DEF ListerOK, Coming, SelectedBy, ListedAfter, Past, Before
<1> QED BY <1>1, <1>3 DEF ListInv

LEMMA QueriedPage ==
  ASSUME ListTypeOK, NEW S
  PROVE  AfterListPage(S) = ListPaged(S, lister.quiet)
<1>1. PICK e, a, b, c : /\ e = lister /\ a = lastMessageAt[BottomOf(Top(Limit, S))]
                        /\ b = BottomOf(Top(Limit, S)) /\ c = Listed(Top(Limit, S))
  OBVIOUS
<1>2. e \in Lister
  BY <1>1, ListFacts
<1>3. CASE Cardinality(S) > Limit
  <2>1. AfterListPage(S) = [e EXCEPT !.pc = "more", !.at = a, !.id = b, !.listed = c, !.ids = {}]
    BY <1>1, <1>3 DEF AfterListPage
  <2> QED BY <1>1, <1>2, <2>1 DEF ListPaged, Lister
<1>4. CASE ~ (Cardinality(S) > Limit)
  <2>1. AfterListPage(S) = [e EXCEPT !.pc = "end", !.listed = c, !.ids = {}]
    BY <1>1, <1>4 DEF AfterListPage
  <2> QED BY <1>1, <1>2, <2>1 DEF ListPaged, Lister
<1> QED BY <1>3, <1>4

LEMMA ListPageStep ==
  ASSUME ListInv, FirstListPage \/ NextListPage
  PROVE  ListInv'
<1>1. CASE FirstListPage
  <2>1. PICK r : r = ListPaged(matches, matches)
    OBVIOUS
  <2>2. lister.pc = "new" /\ lister' = r /\ UNCHANGED <<ms, lastMessageAt, matches>>
    BY <1>1, <2>1 DEF FirstListPage, ListPaged
  <2>3. matches \subseteq SelectedBy(lister)
    BY <2>2 DEF SelectedBy
  <2>4. r \in Lister /\ ListerOK(r)
    BY <2>1, <2>2, <2>3, ListPageOK
  <2> QED BY <2>2, <2>4, ListerMoves
<1>2. CASE NextListPage
  <2>1. PICK S, Q, r : S = ListedAfter(lister.at, lister.id) /\ Q = lister.quiet /\ r = ListPaged(S, Q)
    OBVIOUS
  <2>2. lister.pc = "more" /\ lister' = r /\ UNCHANGED <<ms, lastMessageAt, matches>>
    BY <1>2, <2>1, QueriedPage DEF NextListPage, ListInv
  <2>3. S = SelectedBy(lister)
    BY <2>1, <2>2 DEF SelectedBy
  <2>4. /\ Q \subseteq matches
        /\ ~lister.torn => lister.ids \subseteq S /\ \A i \in Q : Coming(lister, i)
    BY <2>1, <2>2, <2>3 DEF ListInv, ListerOK
  <2>5. ~lister.torn => \A i \in Q : lister.listed[i] > 0 \/ i \in S
    BY <2>3, <2>4 DEF Coming
  <2>6. r \in Lister /\ ListerOK(r)
    BY <2>1, <2>2, <2>3, <2>4, <2>5, ListPageOK
  <2> QED BY <2>2, <2>6, ListerMoves
<1> QED BY <1>1, <1>2

LEMMA SearchIdsStep == ASSUME ListInv, SearchIds PROVE ListInv'
<1>1. PICK l, S, P : l = lister /\ S = SelectedBy(lister) /\ P = Top(Limit + 1, S)
  OBVIOUS
<1>2. /\ ListTypeOK /\ l \in Lister /\ ListerOK(l) /\ matches \subseteq Convos /\ l.pc # "end" /\ l.ids = {}
      /\ Limit \in Nat /\ Limit + 1 \in Nat /\ S = Selected
  BY <1>1, ListFacts, ListAssumption DEF ListInv, SearchIds, Selected, SelectedBy
<1>3. S \subseteq matches /\ S \subseteq Convos /\ P \subseteq S
  BY <1>1, <1>2 DEF SelectedBy, ListedAfter, Top
<1>4. UNCHANGED <<ms, lastMessageAt, matches>>
  BY DEF SearchIds
<1>5. CASE S = {}
  <2>1. PICK Q, r : Q = l.quiet /\ r = ListPaged(S, Q)
    OBVIOUS
  <2>2. lister' = r
    BY <1>1, <1>2, <1>5, <2>1, QueriedPage DEF SearchIds
  <2>3. Q \subseteq matches /\ (~l.torn => \A i \in Q : l.listed[i] > 0)
    BY <1>1, <1>2, <1>5, <2>1 DEF ListerOK, Coming
  <2>4. r \in Lister /\ ListerOK(r)
    BY <1>1, <1>2, <2>1, <2>3, ListPageOK
  <2> QED BY <1>4, <2>2, <2>4, ListerMoves
<1>6. CASE S # {}
  <2>1. PICK Q, r : /\ Q = IF l.pc = "new" THEN matches ELSE l.quiet
                    /\ r = [l EXCEPT !.ids = P, !.quiet = Q]
    OBVIOUS
  <2>2. lister' = r
    BY <1>1, <1>2, <1>6, <2>1 DEF SearchIds
  <2>3. Q \subseteq matches /\ Q \subseteq Convos /\ P \subseteq Convos
    BY <1>2, <1>3, <2>1 DEF ListerOK
  <2>4. /\ r \in Lister /\ r.ids = P /\ r.quiet = Q /\ r.pc = l.pc /\ r.at = l.at /\ r.id = l.id
        /\ r.listed = l.listed /\ r.moved = l.moved /\ r.torn = l.torn
    BY <1>2, <2>1, <2>3 DEF Lister
  <2>5. SelectedBy(r) = S
    BY <1>1, <2>4 DEF SelectedBy
  <2>6. /\ Cardinality(S) \in Nat
        /\ Limit + 1 <= Cardinality(S) => Cardinality(P) = Limit + 1
        /\ Cardinality(S) <= Limit + 1 => P = S
        /\ \A i \in S \ P, j \in P : Before(j, i)
    BY <1>1, <1>2, <1>3, TopIsFirst
  <2>7. P # {}
    <3>1. CASE Limit + 1 <= Cardinality(S)
      BY <1>2, <2>6, <3>1, FS_EmptySet
    <3>2. CASE ~ (Limit + 1 <= Cardinality(S))
      BY <1>2, <1>6, <2>6, <3>2
    <3> QED BY <3>1, <3>2
  <2>8. \A i \in S : Coming(r, i)
    <3> SUFFICES ASSUME NEW i \in S, i \notin P PROVE Coming(r, i)
      BY <2>4 DEF Coming
    <3>1. Cardinality(P) = Limit + 1
      BY <1>2, <2>6
    <3> QED BY <2>4, <2>5, <2>6, <3>1 DEF Coming
  <2>9. ASSUME ~l.torn, NEW i \in Q PROVE Coming(r, i)
    <3>1. CASE l.pc = "new"
      BY <1>1, <2>1, <2>8, <3>1 DEF SelectedBy
    <3>2. CASE l.pc # "new"
      <4>1. Coming(l, i)
        BY <1>2, <2>1, <2>9, <3>2 DEF ListerOK
      <4>2. l.listed[i] > 0 \/ i \in S
        BY <1>1, <1>2, <4>1 DEF Coming
      <4> QED BY <2>4, <2>8, <4>2 DEF Coming
    <3> QED BY <3>1, <3>2
  <2>10. l.pc = "more" => \A i \in Convos : l.listed[i] > 0 /\ Past(l.at, l.id, i) => i \in l.moved
    BY <1>2 DEF ListerOK
  <2>11. ListerOK(r)
    BY <1>2, <1>3, <2>3, <2>4, <2>5, <2>7, <2>9, <2>10 DEF ListerOK
  <2> QED BY <1>4, <2>2, <2>4, <2>11, ListerMoves
<1> QED BY <1>5, <1>6

LEMMA SearchRowsStep == ASSUME ListInv, SearchRows PROVE ListInv'
<1>1. PICK l, S, Q, r : /\ l = lister /\ S = Selected \cap l.ids /\ Q = l.quiet
                        /\ r = ListPaged(S, Q)
  OBVIOUS
<1>2. /\ ListTypeOK /\ l \in Lister /\ ListerOK(l) /\ l.ids # {} /\ Limit \in Nat
      /\ Selected = SelectedBy(l)
  BY <1>1, ListFacts, ListAssumption DEF ListInv, SearchRows, Selected, SelectedBy
<1>3. lister' = r /\ UNCHANGED <<ms, lastMessageAt, matches>>
  BY <1>1, <1>2, QueriedPage DEF SearchRows
<1>4. l.pc # "end" /\ Q \subseteq matches /\ S \subseteq SelectedBy(l)
  BY <1>1, <1>2 DEF ListerOK
<1>5. ASSUME ~l.torn, NEW i \in Q
      PROVE  \/ l.listed[i] > 0 \/ i \in S
             \/ Limit < Cardinality(S) /\ \A j \in S : Before(j, i)
  <2>1. l.ids \subseteq Selected /\ Coming(l, i)
    BY <1>1, <1>2, <1>4, <1>5 DEF ListerOK
  <2>2. S = l.ids
    BY <1>1, <2>1
  <2>3. Limit < Limit + 1
    BY <1>2
  <2> QED BY <1>2, <2>1, <2>2, <2>3 DEF Coming
<1>6. r \in Lister /\ ListerOK(r)
  BY <1>1, <1>2, <1>4, <1>5, ListPageOK
<1> QED BY <1>3, <1>6, ListerMoves

(* Conversation k changes: it is not quiet any more, and it does not come  *)
(* behind the cursor unless a stale save moves it.                         *)
Touch(k) ==
  /\ lister' \in Lister /\ lister'.pc = lister.pc /\ lister'.at = lister.at /\ lister'.id = lister.id
  /\ lister'.ids = lister.ids /\ lister'.listed = lister.listed
  /\ lister'.quiet = lister.quiet \ {k} /\ lister.moved \subseteq lister'.moved
  /\ ~lister'.torn => ~lister.torn /\ k \notin lister.ids
  /\ ListTypeOK'
  /\ \A i \in Convos \ {k} : lastMessageAt'[i] = lastMessageAt[i] /\ (i \in matches' <=> i \in matches)
  /\ \A i \in Convos : lastMessageAt'[i] <= ms'
  /\ \/ k \in lister'.moved
     \/ \A at, id \in Nat : Past(at, id, k)' => Past(at, id, k)

LEMMA TouchStep ==
  ASSUME ListInv, NEW k \in Convos, lister.pc = "more" \/ lister.ids # {}, Touch(k)
  PROVE  ListInv'
<1>1. PICK l, q : l = lister /\ q = lister'
  OBVIOUS
<1>2. /\ ListTypeOK /\ l \in Lister /\ q \in Lister /\ ListerOK(l) /\ matches \subseteq Convos
      /\ l.pc # "end"
  BY <1>1, ListFacts DEF ListInv, Touch, ListerOK
<1>3. /\ q.pc = l.pc /\ q.at = l.at /\ q.id = l.id /\ q.ids = l.ids /\ q.listed = l.listed
      /\ q.quiet = l.quiet \ {k} /\ l.moved \subseteq q.moved
      /\ ~q.torn => ~l.torn /\ k \notin l.ids
  BY <1>1 DEF Touch
<1>4. l.at \in Nat /\ l.id \in Nat /\ l.ids \subseteq Convos /\ l.quiet \subseteq matches
  <2>1. l.at \in 0..MaxMs /\ l.id \in Convos /\ l.ids \subseteq Convos
    BY <1>2 DEF Lister
  <2>2. MaxMs \in Nat /\ Convos \subseteq Nat
    BY ListAssumption
  <2>3. l.at \in Nat
    BY <2>1, <2>2
  <2>4. l.id \in Nat
    BY <2>1, <2>2
  <2>5. l.quiet \subseteq matches
    BY <1>2 DEF ListerOK
  <2> QED BY <2>1, <2>3, <2>4, <2>5
<1>5. \A i \in Convos \ {k} : /\ (i \in matches' <=> i \in matches)
                             /\ (Past(l.at, l.id, i)' <=> Past(l.at, l.id, i))
  <2> SUFFICES ASSUME NEW i \in Convos \ {k}
               PROVE (i \in matches' <=> i \in matches) /\ (Past(l.at, l.id, i)' <=> Past(l.at, l.id, i))
    OBVIOUS
  <2>1. lastMessageAt'[i] = lastMessageAt[i] /\ (i \in matches' <=> i \in matches)
    BY DEF Touch
  <2> QED BY <2>1 DEF Past
<1>6. \A i, j \in Convos \ {k} : Before(j, i)' <=> Before(j, i)
  <2> SUFFICES ASSUME NEW i \in Convos \ {k}, NEW j \in Convos \ {k}
               PROVE  Before(j, i)' <=> Before(j, i)
    OBVIOUS
  <2>1. lastMessageAt'[i] = lastMessageAt[i] /\ lastMessageAt'[j] = lastMessageAt[j]
    BY DEF Touch
  <2> QED BY <2>1 DEF Before
<1>7. \A i \in Convos \ {k} : i \in SelectedBy(q)' <=> i \in SelectedBy(l)
  BY <1>3, <1>5 DEF SelectedBy, ListedAfter, Past
<1>8. q.quiet \subseteq matches'
  BY <1>2, <1>3, <1>4, <1>5
<1>9. \A i \in Convos : q.listed[i] > 1 => i \in q.moved
  BY <1>2, <1>3 DEF ListerOK
<1>10. ASSUME q.pc = "more", NEW i \in Convos, q.listed[i] > 0, Past(q.at, q.id, i)'
       PROVE  i \in q.moved
  <2>1. Past(l.at, l.id, i)'
    BY <1>3, <1>10
  <2>2. i \in q.moved \/ Past(l.at, l.id, i)
    <3>1. CASE i = k
      BY <1>1, <1>4, <2>1, <3>1 DEF Touch
    <3>2. CASE i # k
      BY <1>5, <2>1, <3>2
    <3> QED BY <3>1, <3>2
  <2> QED BY <1>2, <1>3, <1>10, <2>2 DEF ListerOK
<1>11. ASSUME ~q.torn PROVE q.ids \subseteq SelectedBy(q)'
  <2>1. l.ids \subseteq SelectedBy(l) /\ k \notin l.ids
    BY <1>2, <1>3, <1>11 DEF ListerOK
  <2> QED BY <1>3, <1>4, <1>7, <2>1
<1>12. ASSUME ~q.torn, NEW i \in q.quiet PROVE Coming(q, i)'
  <2>1. /\ Coming(l, i) /\ k \notin l.ids /\ i # k /\ i \in Convos
    BY <1>2, <1>3, <1>4, <1>12 DEF ListerOK
  <2>2. CASE l.listed[i] > 0 \/ i \in l.ids
    BY <1>3, <2>2 DEF Coming
  <2>3. CASE ~ (l.listed[i] > 0 \/ i \in l.ids)
    <3>1. /\ i \in SelectedBy(l)
          /\ l.ids # {} => Cardinality(l.ids) = Limit + 1 /\ \A j \in l.ids : Before(j, i)
      BY <2>1, <2>3 DEF Coming
    <3>2. i \in SelectedBy(q)'
      BY <1>7, <2>1, <3>1
    <3>3. \A j \in l.ids : Before(j, i) => Before(j, i)'
      BY <1>4, <1>6, <2>1
    <3> QED BY <1>3, <3>1, <3>2, <3>3 DEF Coming
  <2> QED BY <2>2, <2>3
<1>13. /\ q.pc = "new" => \A i \in Convos : q.listed[i] = 0
       /\ q.pc = "end" => q.ids = {}
       /\ q.pc = "new" /\ q.ids = {} => q.quiet = {}
       /\ q.pc # "end"
  BY <1>2, <1>3 DEF ListerOK
<1>14. ListerOK(q)'
  BY <1>8, <1>9, <1>10, <1>11, <1>12, <1>13 DEF ListerOK
<1>15. ListerOK(lister)'
  BY <1>1, <1>14 DEF ListerOK, Coming, SelectedBy, ListedAfter, Past, Before
<1> QED BY <1>15 DEF ListInv, Touch

LEMMA TouchedFacts ==
  ASSUME ListTypeOK, NEW k \in Convos, NEW q, q = Touched(k)
  PROVE  /\ q \in Lister /\ q.pc = lister.pc /\ q.at = lister.at /\ q.id = lister.id
         /\ q.search = lister.search /\ q.ids = lister.ids /\ q.listed = lister.listed
         /\ q.quiet = lister.quiet \ {k} /\ q.moved = lister.moved
         /\ ~q.torn => ~lister.torn /\ k \notin lister.ids
<1>1. PICK l, b : l = lister /\ b = (lister.torn \/ k \in lister.ids)
  OBVIOUS
<1>2. l \in Lister /\ b \in BOOLEAN
  BY <1>1, ListFacts
<1>3. q = [l EXCEPT !.quiet = l.quiet \ {k}, !.torn = b]
  BY <1>1 DEF Touched
<1>4. /\ q \in Lister /\ q.pc = l.pc /\ q.at = l.at /\ q.id = l.id
      /\ q.search = l.search /\ q.ids = l.ids /\ q.listed = l.listed
      /\ q.quiet = l.quiet \ {k} /\ q.moved = l.moved /\ q.torn = b
  BY <1>2, <1>3 DEF Lister
<1> QED BY <1>1, <1>4

LEMMA BumpStep ==
  ASSUME ListInv, NEW k \in Convos, lister.pc = "more" \/ lister.ids # {}, Bump(k)
  PROVE  ListInv'
<1>1. /\ ListTypeOK /\ ms \in 1..MaxMs /\ MaxMs \in Nat /\ lastMessageAt \in [Convos -> 0..MaxMs]
      /\ matches \subseteq Convos /\ \A i \in Convos : lastMessageAt[i] <= ms
  BY ListFacts DEF ListInv, ListTypeOK
<1>2. /\ ms' \in {ms, ms + 1} /\ ms' <= MaxMs
      /\ lastMessageAt' = [lastMessageAt EXCEPT ![k] = ms']
      /\ matches' \in {matches \cup {k}, matches \ {k}} /\ lister' = Touched(k)
  BY DEF Bump
<1>3. ms \in Nat /\ ms' \in 1..MaxMs /\ ms' \in 0..MaxMs /\ ms <= ms' /\ ms' \in Nat
  BY <1>1, <1>2
<1>4. lastMessageAt' \in [Convos -> 0..MaxMs]
  BY <1>1, <1>2, <1>3
<1>5. \A i \in Convos : lastMessageAt'[i] = IF i = k THEN ms' ELSE lastMessageAt[i]
  BY <1>1, <1>2
<1>6. /\ lister' \in Lister /\ lister'.pc = lister.pc /\ lister'.at = lister.at /\ lister'.id = lister.id
      /\ lister'.ids = lister.ids /\ lister'.listed = lister.listed
      /\ lister'.quiet = lister.quiet \ {k} /\ lister'.moved = lister.moved
      /\ ~lister'.torn => ~lister.torn /\ k \notin lister.ids
  BY <1>1, <1>2, TouchedFacts
<1>7. ListTypeOK'
  BY <1>1, <1>2, <1>3, <1>4, <1>6 DEF ListTypeOK
<1>8. \A i \in Convos : lastMessageAt[i] \in Nat
  BY <1>1
<1>9. \A i \in Convos : lastMessageAt'[i] <= ms'
  BY <1>1, <1>3, <1>5, <1>8
<1>10. ASSUME NEW at \in Nat, NEW id \in Nat, Past(at, id, k)' PROVE Past(at, id, k)
  <2>1. ms' < at \/ (ms' = at /\ k < id)
    BY <1>5, <1>10 DEF Past
  <2>2. lastMessageAt[k] \in Nat /\ lastMessageAt[k] <= ms
    BY <1>1, <1>8
  <2> QED BY <1>3, <2>1, <2>2 DEF Past
<1>11. \A i \in Convos \ {k} : lastMessageAt'[i] = lastMessageAt[i] /\ (i \in matches' <=> i \in matches)
  BY <1>2, <1>5
<1>12. Touch(k)
  BY <1>6, <1>7, <1>9, <1>10, <1>11 DEF Touch
<1> QED BY <1>12, TouchStep

LEMMA SaveStaleStep ==
  ASSUME ListInv, NEW k \in Convos, lister.pc = "more" \/ lister.ids # {}, SaveStale(k)
  PROVE  ListInv'
<1>1. /\ ListTypeOK /\ ms \in Nat /\ MaxMs \in Nat /\ lastMessageAt \in [Convos -> 0..MaxMs]
      /\ matches \subseteq Convos /\ \A i \in Convos : lastMessageAt[i] <= ms
  BY ListFacts DEF ListInv, ListTypeOK
<1>2. PICK t \in 0..MaxMs : t < lastMessageAt[k] /\ lastMessageAt' = [lastMessageAt EXCEPT ![k] = t]
  BY DEF SaveStale
<1>3. PICK q : q = Touched(k)
  OBVIOUS
<1>4. lister' = [q EXCEPT !.moved = q.moved \cup {k}] /\ UNCHANGED <<ms, matches>>
  BY <1>3 DEF SaveStale
<1>5. /\ q \in Lister /\ q.pc = lister.pc /\ q.at = lister.at /\ q.id = lister.id
      /\ q.ids = lister.ids /\ q.listed = lister.listed
      /\ q.quiet = lister.quiet \ {k} /\ q.moved = lister.moved
      /\ ~q.torn => ~lister.torn /\ k \notin lister.ids
  BY <1>1, <1>3, TouchedFacts
<1>6. PICK r : r = lister'
  OBVIOUS
<1>7. /\ r \in Lister /\ r.pc = q.pc /\ r.at = q.at /\ r.id = q.id /\ r.ids = q.ids
      /\ r.listed = q.listed /\ r.quiet = q.quiet /\ r.moved = q.moved \cup {k} /\ r.torn = q.torn
  BY <1>4, <1>5, <1>6 DEF Lister
<1>8. lastMessageAt' \in [Convos -> 0..MaxMs]
  BY <1>1, <1>2
<1>9. \A i \in Convos : lastMessageAt'[i] = IF i = k THEN t ELSE lastMessageAt[i]
  BY <1>1, <1>2
<1>10. \A i \in Convos : lastMessageAt'[i] <= ms'
  <2>1. t \in Nat /\ lastMessageAt[k] \in Nat /\ lastMessageAt[k] <= ms
    BY <1>1
  <2>2. t <= ms
    BY <1>1, <1>2, <2>1
  <2> QED BY <1>1, <1>4, <1>9, <2>2
<1>11. ListTypeOK'
  BY <1>1, <1>4, <1>6, <1>7, <1>8 DEF ListTypeOK
<1>12. \A i \in Convos \ {k} : lastMessageAt'[i] = lastMessageAt[i] /\ (i \in matches' <=> i \in matches)
  BY <1>4, <1>9
<1>13. Touch(k)
  BY <1>5, <1>6, <1>7, <1>10, <1>11, <1>12 DEF Touch
<1> QED BY <1>13, TouchStep

LEMMA ChangeMatchStep ==
  ASSUME ListInv, NEW k \in Convos, lister.pc = "more" \/ lister.ids # {}, ChangeMatch(k)
  PROVE  ListInv'
<1>1. ListTypeOK /\ matches \subseteq Convos /\ \A i \in Convos : lastMessageAt[i] <= ms
  BY ListFacts DEF ListInv
<1>2. /\ matches' \subseteq Convos /\ \A i \in Convos \ {k} : i \in matches' <=> i \in matches
      /\ lister' = Touched(k) /\ UNCHANGED <<ms, lastMessageAt>>
  BY <1>1 DEF ChangeMatch
<1>3. /\ lister' \in Lister /\ lister'.pc = lister.pc /\ lister'.at = lister.at /\ lister'.id = lister.id
      /\ lister'.ids = lister.ids /\ lister'.listed = lister.listed
      /\ lister'.quiet = lister.quiet \ {k} /\ lister'.moved = lister.moved
      /\ ~lister'.torn => ~lister.torn /\ k \notin lister.ids
  BY <1>1, <1>2, TouchedFacts
<1>4. ListTypeOK'
  BY <1>1, <1>2, <1>3 DEF ListTypeOK
<1>5. \A at, id \in Nat : Past(at, id, k)' => Past(at, id, k)
  BY <1>2 DEF Past
<1>6. Touch(k)
  BY <1>1, <1>2, <1>3, <1>4, <1>5 DEF Touch
<1> QED BY <1>6, TouchStep

LEMMA ListStep == ASSUME ListInv, ListNext PROVE ListInv'
BY ListPageStep, SearchIdsStep, SearchRowsStep, BumpStep, SaveStaleStep, ChangeMatchStep DEF ListNext

LEMMA ListStays == ASSUME ListInv, UNCHANGED listVars PROVE ListInv'
<1>1. UNCHANGED <<ms, lastMessageAt, matches, lister>>
  BY DEF listVars
<1> QED BY <1>1 DEF ListInv, ListTypeOK, ListerOK, Coming, SelectedBy, ListedAfter, Past, Before

LEMMA ListStarts == ASSUME ListInit PROVE ListInv
<1>1. (CHOOSE i \in Convos : TRUE) \in Convos
  BY ListAssumption
<1>2. MaxMs \in Nat /\ ms \in 1..MaxMs /\ lastMessageAt \in [Convos -> 0..ms] /\ matches \subseteq Convos
  BY ListAssumption DEF ListInit
<1>3. /\ lister.pc = "new" /\ lister.at = 0 /\ lister.id \in Convos /\ lister.search \in BOOLEAN
      /\ lister.ids = {} /\ lister.torn = FALSE /\ lister.quiet = {} /\ lister.moved = {}
      /\ lister.listed = [i \in Convos |-> 0] /\ lister \in Lister
  <2>1. PICK c : c = CHOOSE i \in Convos : TRUE
    OBVIOUS
  <2>2. lister \in [pc : {"new"}, at : {0}, id : {c}, search : BOOLEAN, ids : {{}}, torn : {FALSE},
                    quiet : {{}}, moved : {{}}, listed : {[i \in Convos |-> 0]}]
    BY <2>1 DEF ListInit
  <2>3. c \in Convos /\ 0 \in 0..MaxMs
    BY <1>1, <1>2, <2>1
  <2>4. /\ lister.pc = "new" /\ lister.at = 0 /\ lister.id = c /\ lister.search \in BOOLEAN
        /\ lister.ids = {} /\ lister.torn = FALSE /\ lister.quiet = {} /\ lister.moved = {}
        /\ lister.listed = [i \in Convos |-> 0]
    BY <2>2
  <2>5. [i \in Convos |-> 0] \in [Convos -> 0..2]
    OBVIOUS
  <2>6. PICK z : z = [i \in Convos |-> 0]
    OBVIOUS
  <2>7. lister = [pc |-> "new", at |-> 0, id |-> c, search |-> lister.search, ids |-> {},
                  torn |-> FALSE, quiet |-> {}, moved |-> {}, listed |-> z]
    BY <2>2, <2>4, <2>6
  <2>8. lister \in Lister
    BY <2>3, <2>4, <2>5, <2>6, <2>7 DEF Lister
  <2> QED BY <2>3, <2>4, <2>8
<1>4. lastMessageAt \in [Convos -> 0..MaxMs] /\ \A i \in Convos : lastMessageAt[i] <= ms
  <2>1. \A t \in 0..ms : t \in 0..MaxMs /\ t <= ms
    BY <1>2
  <2> QED BY <1>2, <2>1
<1>5. ListTypeOK
  BY <1>2, <1>3, <1>4 DEF ListTypeOK
<1>6. ListerOK(lister)
  BY <1>3 DEF ListerOK
<1> QED BY <1>4, <1>5, <1>6 DEF ListInv

(***************************************************************************)
(* The overview                                                            *)
(***************************************************************************)
LEMMA MinFacts ==
  ASSUME NEW S, S \subseteq Nat, S # {}
  PROVE  Min(S) \in S /\ \A y \in S : Min(S) <= y
BY SmallestExists DEF Min

(* What a query selects among the rows that were there when the request    *)
(* began: an answer is never less than that, and never more than what it   *)
(* would select now.                                                       *)
Known(q, o) == {i \in Counted(q, o.since) : i <= o.known}

Hears(t, qs, since) ==
  \E q \in qs : \E i \in Counted(q, since) : messages[i].thread = t

OverviewOK(o) ==
  /\ o.known <= Len(messages)
  /\ \A q \in Queries : o.got[q] # Unread =>
       /\ Cardinality(Known(q, o)) <= o.got[q]
       /\ o.got[q] <= Cardinality(Counted(q, o.since))
  /\ o.pc = "new" => \A q \in Queries : o.got[q] = Unread
  /\ o.pc \in {"averaging", "done"} => \A q \in Queries : o.got[q] # Unread
  /\ o.pc = "done" => \A t \in DOMAIN o.waits :
       Hears(t, {"inbound"}, o.since) /\ Hears(t, {"ai", "human"}, o.since)

OverviewInv == OverviewTypeOK /\ OverviewOK(overview)

LEMMA OverviewFacts ==
  ASSUME OverviewTypeOK
  PROVE  /\ tick \in Nat /\ tick \in 1..Horizon /\ Horizon \in Nat /\ Window \in Nat
         /\ MaxMessages \in Nat /\ Unread \in Nat /\ Unread = MaxMessages + 1
         /\ messages \in Seq(Message) /\ Len(messages) \in Nat /\ Len(messages) <= MaxMessages
         /\ DOMAIN messages = 1..Len(messages)
         /\ overview \in Request
         /\ \A i \in 1..Len(messages) :
              /\ messages[i] \in Message /\ messages[i].at \in 1..Horizon /\ messages[i].at \in Nat
              /\ messages[i].thread \in Threads
              /\ messages[i].author \in {"contact", "ai", "human", "system"}
<1>1. /\ Horizon \in Nat /\ Window \in Nat /\ tick \in 1..Horizon /\ messages \in Seq(Message)
      /\ overview \in Request /\ MaxMessages \in Nat /\ Len(messages) <= MaxMessages
  BY OverviewAssumption DEF OverviewTypeOK
<1>2. Len(messages) \in Nat /\ DOMAIN messages = 1..Len(messages)
  BY <1>1
<1>3. ASSUME NEW i \in 1..Len(messages)
      PROVE  /\ messages[i] \in Message /\ messages[i].at \in 1..Horizon /\ messages[i].at \in Nat
             /\ messages[i].thread \in Threads
             /\ messages[i].author \in {"contact", "ai", "human", "system"}
  <2>1. messages[i] \in Message
    BY <1>1, <1>2
  <2>2. messages[i].at \in 1..Horizon
    BY <2>1 DEF Message
  <2> QED BY <1>1, <2>1, <2>2 DEF Message, Repliers
<1> QED BY <1>1, <1>2, <1>3 DEF Unread

LEMMA SelectedAreFinite ==
  ASSUME OverviewTypeOK, NEW S, S \subseteq 1..Len(messages)
  PROVE  IsFiniteSet(S) /\ Cardinality(S) \in Nat /\ Cardinality(S) <= Len(messages)
<1>1. Len(messages) \in Nat
  BY OverviewFacts
<1>2. IsFiniteSet(1..Len(messages)) /\ Cardinality(1..Len(messages)) = Len(messages)
  BY <1>1, FS_Interval
<1> QED BY <1>1, <1>2, FS_Subset, FS_CardinalityType

LEMMA SelectedAreRows ==
  ASSUME OverviewTypeOK
  PROVE  \A q, since : Counted(q, since) \subseteq 1..Len(messages)
BY OverviewFacts DEF Counted, Recent

(* A message stored adds to what a query selects, not to what was known.   *)
LEMMA StoreStep ==
  ASSUME OverviewInv, overview.pc # "done", NEW t \in Threads,
         NEW author \in {"contact"} \cup Repliers, Store(t, author)
  PROVE  OverviewInv'
<1>1. PICK o, m : o = overview /\ m = [thread |-> t, at |-> tick, author |-> author]
  OBVIOUS
<1>2. /\ OverviewTypeOK /\ OverviewOK(o) /\ o \in Request /\ o.pc # "done" /\ tick \in 1..Horizon
      /\ messages \in Seq(Message) /\ Len(messages) \in Nat /\ MaxMessages \in Nat
  BY <1>1, OverviewFacts DEF OverviewInv
<1>3. /\ Len(messages) < MaxMessages /\ messages' = Append(messages, m)
      /\ UNCHANGED tick /\ overview' = o
  BY <1>1 DEF Store
<1>4. m \in Message
  BY <1>1, <1>2 DEF Message
<1>5. /\ messages' \in Seq(Message) /\ Len(messages') = Len(messages) + 1
      /\ \A i \in 1..Len(messages) : messages'[i] = messages[i]
      /\ DOMAIN messages = 1..Len(messages) /\ DOMAIN messages' = 1..Len(messages')
  BY <1>2, <1>3, <1>4
<1>6. OverviewTypeOK'
  BY <1>2, <1>3, <1>5 DEF OverviewTypeOK
<1>7. ASSUME NEW q, NEW since
      PROVE  /\ Counted(q, since) \subseteq Counted(q, since)'
             /\ \A i \in Counted(q, since)' : i <= Len(messages) => i \in Counted(q, since)
  BY <1>2, <1>5 DEF Counted, Recent, Selects
<1>8. o.known \in Nat /\ o.known <= Len(messages)
  BY <1>2 DEF Request, OverviewOK
<1>9. ASSUME NEW q \in Queries, o.got[q] # Unread
      PROVE  /\ Cardinality(Known(q, o)') <= o.got[q]
             /\ o.got[q] <= Cardinality(Counted(q, o.since)')
  <2>1. PICK S, T : S = Counted(q, o.since) /\ T = Counted(q, o.since)'
    OBVIOUS
  <2>2. S \subseteq T /\ S \subseteq 1..Len(messages) /\ T \subseteq 1..Len(messages')
    <3>1. S \subseteq T
      BY <1>7, <2>1
    <3>2. S \subseteq 1..Len(messages)
      BY <1>2, <2>1, SelectedAreRows
    <3>3. T \subseteq 1..Len(messages')
      BY <1>5, <2>1 DEF Counted, Recent
    <3> QED BY <3>1, <3>2, <3>3
  <2>3. IsFiniteSet(1..Len(messages')) /\ IsFiniteSet(T)
    <3>1. PICK n : n = Len(messages')
      OBVIOUS
    <3>2. 1 \in Int /\ n \in Int
      BY <1>2, <1>5, <3>1
    <3>3. IsFiniteSet(1..n)
      BY <3>2, FS_Interval
    <3> QED BY <2>2, <3>1, <3>3, FS_Subset
  <2>4. /\ Cardinality(S) <= Cardinality(T) /\ Cardinality(S) \in Nat /\ Cardinality(T) \in Nat
    BY <2>2, <2>3, FS_Subset, FS_CardinalityType
  <2>5. Known(q, o)' = Known(q, o)
    <3>1. Known(q, o) \subseteq Known(q, o)'
      BY <1>7 DEF Known
    <3>2. ASSUME NEW i \in Known(q, o)' PROVE i \in Known(q, o)
      <4>1. i \in Counted(q, o.since)' /\ i <= o.known /\ i \in Nat
        BY <1>5, <2>1, <2>2 DEF Known
      <4>2. i <= Len(messages)
        BY <1>2, <1>8, <4>1
      <4> QED BY <1>7, <4>1, <4>2 DEF Known
    <3> QED BY <3>1, <3>2
  <2>6. Cardinality(Known(q, o)) <= o.got[q] /\ o.got[q] <= Cardinality(S)
    BY <1>2, <1>9, <2>1 DEF OverviewOK
  <2>7. o.got[q] \in Nat
    <3>1. o.got \in [Queries -> 0..Unread] /\ Unread \in Nat
      BY <1>2, OverviewFacts DEF Request
    <3> QED BY <3>1
  <2> QED BY <2>1, <2>4, <2>5, <2>6, <2>7
<1>10. OverviewOK(o)'
  BY <1>2, <1>5, <1>8, <1>9 DEF OverviewOK, Unread
<1>11. OverviewOK(overview)'
  BY <1>3, <1>10 DEF OverviewOK, Known, Hears, Unread
<1> QED BY <1>6, <1>11 DEF OverviewInv

(* A step of the request itself, which stores nothing.                     *)
LEMMA RequestMoves ==
  ASSUME OverviewInv, UNCHANGED messages, tick' \in 1..Horizon,
         NEW p, overview' = p, p \in Request, OverviewOK(p)
  PROVE  OverviewInv'
<1>1. OverviewTypeOK'
  BY DEF OverviewInv, OverviewTypeOK
<1>2. \A q, since : Counted(q, since)' = Counted(q, since)
  BY DEF Counted, Recent
<1>3. /\ \A q : Known(q, p)' = Known(q, p)
      /\ \A t, qs, since : Hears(t, qs, since)' = Hears(t, qs, since)
  BY <1>2 DEF Known, Hears
<1>4. OverviewOK(p)'
  BY <1>2, <1>3 DEF OverviewOK, Unread
<1>5. OverviewOK(overview)'
  BY <1>4 DEF OverviewOK, Known, Hears, Unread
<1> QED BY <1>1, <1>5 DEF OverviewInv

LEMMA TimesOrder ==
  ASSUME OverviewTypeOK, NEW t, NEW authors, NEW since
  PROVE  TimesOf(t, authors, since) \subseteq 1..Horizon /\ TimesOf(t, authors, since) \subseteq Nat
BY OverviewFacts DEF TimesOf, Recent

LEMMA WaitsFacts ==
  ASSUME OverviewTypeOK, NEW since
  PROVE  /\ Waits(since) \in UNION {[T -> 1..Horizon] : T \in SUBSET Threads}
         /\ \A t \in DOMAIN Waits(since) :
              Hears(t, {"inbound"}, since) /\ Hears(t, {"ai", "human"}, since)
<1> DEFINE Asks(t) == TimesOf(t, {"contact"}, since)
           Replies(t) == TimesOf(t, {"ai", "human"}, since)
<1>1. PICK T : T = {t \in Threads : /\ Asks(t) # {} /\ Replies(t) # {}
                                    /\ Min(Replies(t)) > Min(Asks(t))}
  OBVIOUS
<1>2. ASSUME NEW t \in T PROVE Min(Replies(t)) - Min(Asks(t)) \in 1..Horizon
  <2>1. PICK a, r : a = Min(Asks(t)) /\ r = Min(Replies(t))
    OBVIOUS
  <2>2. Asks(t) # {} /\ Replies(t) # {} /\ r > a
    BY <1>1, <2>1
  <2>3. a \in 1..Horizon /\ r \in 1..Horizon
    BY <2>1, <2>2, TimesOrder, MinFacts
  <2>4. Horizon \in Nat
    BY OverviewFacts
  <2>5. r - a \in 1..Horizon
    BY <2>2, <2>3, <2>4
  <2> QED BY <2>1, <2>5
<1>3. Waits(since) = [t \in T |-> Min(Replies(t)) - Min(Asks(t))]
  BY <1>1 DEF Waits
<1>4. Waits(since) \in [T -> 1..Horizon] /\ DOMAIN Waits(since) = T
  BY <1>2, <1>3
<1>5. ASSUME NEW t \in T PROVE Hears(t, {"inbound"}, since) /\ Hears(t, {"ai", "human"}, since)
  <2>1. Asks(t) # {} /\ Replies(t) # {}
    BY <1>1
  <2>2. PICK i \in Recent(since) : messages[i].thread = t /\ messages[i].author = "contact"
    BY <2>1 DEF TimesOf
  <2>3. i \in Counted("inbound", since)
    BY <2>2 DEF Counted, Selects
  <2>4. PICK j \in Recent(since) : messages[j].thread = t /\ messages[j].author \in {"ai", "human"}
    BY <2>1 DEF TimesOf
  <2>5. j \in Counted("ai", since) \/ j \in Counted("human", since)
    BY <2>4 DEF Counted, Selects
  <2> QED BY <2>2, <2>3, <2>4, <2>5 DEF Hears
<1> QED BY <1>1, <1>4, <1>5

LEMMA PassTickStep == ASSUME OverviewInv, PassTick PROVE OverviewInv'
<1>1. PICK p : p = overview
  OBVIOUS
<1>2. OverviewOK(p) /\ p \in Request /\ tick \in 1..Horizon /\ Horizon \in Nat
  BY <1>1, OverviewFacts DEF OverviewInv
<1>3. tick < Horizon /\ tick' = tick + 1 /\ UNCHANGED messages /\ overview' = p
  BY <1>1 DEF PassTick
<1>4. tick' \in 1..Horizon
  BY <1>2, <1>3
<1> QED BY <1>2, <1>3, <1>4, RequestMoves

LEMMA BeginOverviewStep == ASSUME OverviewInv, BeginOverview PROVE OverviewInv'
<1>1. PICK o, s, n : /\ o = overview /\ s = (IF tick > Window THEN tick - Window ELSE 0)
                     /\ n = Len(messages)
  OBVIOUS
<1>2. /\ OverviewTypeOK /\ OverviewOK(o) /\ o \in Request /\ tick \in 1..Horizon /\ tick \in Nat
      /\ Horizon \in Nat /\ Window \in Nat /\ MaxMessages \in Nat /\ o.pc = "new"
      /\ n \in Nat /\ n <= MaxMessages
  BY <1>1, OverviewFacts DEF OverviewInv, BeginOverview
<1>3. PICK p : p = [o EXCEPT !.pc = "counting", !.known = n, !.since = s]
  OBVIOUS
<1>4. overview' = p /\ UNCHANGED <<tick, messages>>
  BY <1>1, <1>3 DEF BeginOverview
<1>5. s \in 0..Horizon /\ n \in 0..MaxMessages
  BY <1>1, <1>2
<1>6. p \in Request /\ p.pc = "counting" /\ p.known = n /\ p.got = o.got
  BY <1>2, <1>3, <1>5 DEF Request
<1>7. \A q \in Queries : p.got[q] = Unread
  BY <1>2, <1>6 DEF OverviewOK
<1>8. OverviewOK(p)
  BY <1>1, <1>2, <1>6, <1>7 DEF OverviewOK
<1> QED BY <1>2, <1>4, <1>6, <1>8, RequestMoves

LEMMA AnswerQueryStep ==
  ASSUME OverviewInv, NEW q \in Queries, AnswerQuery(q) PROVE OverviewInv'
<1>1. PICK o, c : o = overview /\ c = Cardinality(Counted(q, o.since))
  OBVIOUS
<1>2. /\ OverviewTypeOK /\ OverviewOK(o) /\ o \in Request /\ tick \in 1..Horizon /\ o.pc = "counting"
      /\ MaxMessages \in Nat /\ Unread = MaxMessages + 1 /\ Len(messages) \in Nat
      /\ Len(messages) <= MaxMessages
  BY <1>1, OverviewFacts DEF OverviewInv, AnswerQuery
<1>3. PICK p, g : g = [o.got EXCEPT ![q] = c] /\ p = [o EXCEPT !.got = g]
  OBVIOUS
<1>4. overview' = p /\ UNCHANGED <<tick, messages>>
  BY <1>1, <1>3 DEF AnswerQuery, Count
<1>5. c \in Nat /\ c <= Len(messages)
  BY <1>1, <1>2, SelectedAreRows, SelectedAreFinite
<1>6. c \in 0..Unread /\ c # Unread
  BY <1>2, <1>5
<1>7. o.got \in [Queries -> 0..Unread]
  BY <1>2 DEF Request
<1>8. g \in [Queries -> 0..Unread] /\ g[q] = c /\ \A r \in Queries \ {q} : g[r] = o.got[r]
  BY <1>3, <1>6, <1>7
<1>9. p \in Request /\ p.pc = "counting" /\ p.known = o.known /\ p.got = g /\ p.since = o.since
  BY <1>2, <1>3, <1>8 DEF Request
<1>10. ASSUME NEW r \in Queries, g[r] # Unread
       PROVE  Cardinality(Known(r, p)) <= g[r] /\ g[r] <= Cardinality(Counted(r, p.since))
  <2>1. CASE r = q
    <3>1. /\ Known(q, p) \subseteq Counted(q, o.since)
          /\ Counted(q, o.since) \subseteq 1..Len(messages)
      BY <1>2, <1>9, SelectedAreRows DEF Known
    <3>2. Cardinality(Known(q, p)) <= c
      BY <1>1, <1>2, <3>1, SelectedAreFinite, FS_Subset
    <3> QED BY <1>1, <1>5, <1>8, <1>9, <2>1, <3>2
  <2>2. CASE r # q
    <3>1. Known(r, p) = Known(r, o)
      BY <1>9 DEF Known
    <3> QED BY <1>2, <1>8, <1>9, <1>10, <2>2, <3>1 DEF OverviewOK
  <2> QED BY <2>1, <2>2
<1>11. OverviewOK(p)
  BY <1>2, <1>9, <1>10 DEF OverviewOK
<1> QED BY <1>2, <1>4, <1>9, <1>11, RequestMoves

LEMMA AverageStep == ASSUME OverviewInv, AllCounted \/ AverageWaits PROVE OverviewInv'
<1>1. PICK o, w : o = overview /\ w = Waits(o.since)
  OBVIOUS
<1>2. OverviewTypeOK /\ OverviewOK(o) /\ o \in Request /\ tick \in 1..Horizon
  BY <1>1, OverviewFacts DEF OverviewInv
<1>3. CASE AllCounted
  <2>1. PICK p : p = [o EXCEPT !.pc = "averaging"]
    OBVIOUS
  <2>2. overview' = p /\ UNCHANGED <<tick, messages>> /\ \A q \in Queries : o.got[q] # Unread
    BY <1>1, <1>3, <2>1 DEF AllCounted
  <2>3. /\ p \in Request /\ p.pc = "averaging" /\ p.known = o.known /\ p.got = o.got
        /\ p.since = o.since
    BY <1>2, <2>1 DEF Request
  <2>4. OverviewOK(p)
    BY <1>2, <2>2, <2>3 DEF OverviewOK, Known
  <2> QED BY <1>2, <2>2, <2>3, <2>4, RequestMoves
<1>4. CASE AverageWaits
  <2>1. PICK p : p = [o EXCEPT !.pc = "done", !.waits = w]
    OBVIOUS
  <2>2. overview' = p /\ UNCHANGED <<tick, messages>> /\ o.pc = "averaging"
    BY <1>1, <1>4, <2>1 DEF AverageWaits
  <2>3. w \in UNION {[T -> 1..Horizon] : T \in SUBSET Threads}
    BY <1>1, <1>2, WaitsFacts
  <2>4. PICK W : W = UNION {[T -> 1..Horizon] : T \in SUBSET Threads}
    OBVIOUS
  <2>5. Request = [pc : {"new", "counting", "averaging", "done"}, since : 0..Horizon,
                   known : 0..MaxMessages, got : [Queries -> 0..Unread], waits : W]
    BY <2>4 DEF Request
  <2>6. /\ p \in Request /\ p.pc = "done" /\ p.known = o.known /\ p.got = o.got
        /\ p.since = o.since /\ p.waits = w
    BY <1>2, <2>1, <2>3, <2>4, <2>5
  <2>7. \A t \in DOMAIN w : Hears(t, {"inbound"}, o.since) /\ Hears(t, {"ai", "human"}, o.since)
    BY <1>1, <1>2, WaitsFacts
  <2>8. OverviewOK(p)
    BY <1>2, <2>2, <2>6, <2>7 DEF OverviewOK, Known
  <2> QED BY <1>2, <2>2, <2>6, <2>8, RequestMoves
<1> QED BY <1>3, <1>4

LEMMA OverviewStep == ASSUME OverviewInv, OverviewNext PROVE OverviewInv'
<1>1. CASE /\ overview.pc # "done"
           /\ \E t \in Threads : StoreInbound(t) \/ \E a \in Repliers : StoreReply(t, a)
  BY <1>1, StoreStep DEF StoreInbound, StoreReply
<1>2. CASE PassTick
  BY <1>2, PassTickStep
<1>3. CASE BeginOverview
  BY <1>3, BeginOverviewStep
<1>4. CASE AllCounted \/ AverageWaits
  BY <1>4, AverageStep
<1>5. CASE \E q \in Queries : AnswerQuery(q)
  BY <1>5, AnswerQueryStep
<1> QED BY <1>1, <1>2, <1>3, <1>4, <1>5 DEF OverviewNext

LEMMA OverviewStays == ASSUME OverviewInv, UNCHANGED overviewVars PROVE OverviewInv'
<1>1. PICK p : p = overview
  OBVIOUS
<1>2. OverviewOK(p) /\ p \in Request /\ tick \in 1..Horizon
  BY <1>1, OverviewFacts DEF OverviewInv
<1>3. UNCHANGED tick /\ UNCHANGED messages /\ overview' = p
  BY <1>1 DEF overviewVars
<1>4. tick' \in 1..Horizon
  BY <1>2, <1>3
<1> QED BY <1>2, <1>3, <1>4, RequestMoves

LEMMA OverviewStarts == ASSUME OverviewInit PROVE OverviewInv
<1>1. Horizon \in Nat \ {0} /\ MaxMessages \in Nat /\ Unread \in Nat
  BY OverviewAssumption DEF Unread
<1>2. tick \in 1..Horizon /\ 0 \in 0..Horizon /\ 0 \in 0..MaxMessages
  BY <1>1 DEF OverviewInit
<1>3. messages \in Seq(Message) /\ Len(messages) = 0 /\ Len(messages) <= MaxMessages
  BY <1>1 DEF OverviewInit
<1>4. PICK g, w, o : /\ g = [q \in Queries |-> Unread] /\ w = [t \in {} |-> 0]
                     /\ o = [pc |-> "new", since |-> 0, known |-> 0, got |-> g, waits |-> w]
  OBVIOUS
<1>5. overview = o
  BY <1>4 DEF OverviewInit
<1>6. g \in [Queries -> 0..Unread] /\ \A q \in Queries : g[q] = Unread
  BY <1>1, <1>4
<1>7. PICK W : W = UNION {[T -> 1..Horizon] : T \in SUBSET Threads}
  OBVIOUS
<1>8. w \in W
  <2>1. w \in [{} -> 1..Horizon]
    BY <1>4
  <2> QED BY <1>7, <2>1
<1>9. Request = [pc : {"new", "counting", "averaging", "done"}, since : 0..Horizon,
                 known : 0..MaxMessages, got : [Queries -> 0..Unread], waits : W]
  BY <1>7 DEF Request
<1>10. o \in Request
  BY <1>2, <1>4, <1>6, <1>8, <1>9
<1>11. OverviewTypeOK
  BY <1>2, <1>3, <1>5, <1>10 DEF OverviewTypeOK
<1>12. OverviewOK(o)
  BY <1>3, <1>4, <1>6 DEF OverviewOK
<1> QED BY <1>5, <1>11, <1>12 DEF OverviewInv

LEMMA ThreeSets ==
  ASSUME NEW A, NEW B, NEW C, IsFiniteSet(A), IsFiniteSet(B), IsFiniteSet(C),
         NEW S, S \subseteq A \cup B \cup C
  PROVE  /\ Cardinality(S) <= Cardinality(A) + Cardinality(B) + Cardinality(C)
         /\ Cardinality(S) \in Nat
<1>1. /\ IsFiniteSet(A \cup B)
      /\ Cardinality(A \cup B) = Cardinality(A) + Cardinality(B) - Cardinality(A \cap B)
  BY FS_Union
<1>2. /\ IsFiniteSet((A \cup B) \cup C)
      /\ Cardinality((A \cup B) \cup C) =
           Cardinality(A \cup B) + Cardinality(C) - Cardinality((A \cup B) \cap C)
  BY <1>1, FS_Union
<1>3. IsFiniteSet(A \cap B) /\ IsFiniteSet((A \cup B) \cap C)
  BY <1>1, FS_Subset
<1>4. /\ Cardinality(A) \in Nat /\ Cardinality(B) \in Nat /\ Cardinality(C) \in Nat
      /\ Cardinality(A \cap B) \in Nat /\ Cardinality((A \cup B) \cap C) \in Nat
  BY <1>3, FS_CardinalityType
<1>5. Cardinality(S) <= Cardinality((A \cup B) \cup C) /\ Cardinality(S) \in Nat
  BY <1>2, FS_Subset, FS_CardinalityType
<1> QED BY <1>1, <1>2, <1>4, <1>5

(* Each conversation that a set of rows speaks of has a row of its own.    *)
LEMMA ThreadsAreFew ==
  ASSUME OverviewTypeOK, NEW T, NEW R, R \subseteq 1..Len(messages),
         \A t \in T : \E i \in R : messages[i].thread = t
  PROVE  Cardinality(T) <= Cardinality(R) /\ Cardinality(T) \in Nat
<1>1. IsFiniteSet(R)
  BY SelectedAreFinite
<1>2. PICK f : f = [t \in T |-> CHOOSE i \in R : messages[i].thread = t]
  OBVIOUS
<1>3. \A t \in T : f[t] \in R /\ messages[f[t]].thread = t
  BY <1>2
<1>4. f \in Injection(T, R)
  BY <1>2, <1>3 DEF Injection, IsInjective
<1>5. IsFiniteSet(T) /\ Cardinality(T) <= Cardinality(R)
  BY <1>1, <1>4, FS_Injection
<1> QED BY <1>5, FS_CardinalityType

LEMMA AddsUp == ASSUME OverviewInv PROVE OverviewAddsUp
<1> SUFFICES ASSUME overview.pc = "done" PROVE OverviewAddsUp
  BY DEF OverviewAddsUp
<1>1. PICK g, since, k, n, D : /\ g = overview.got /\ since = overview.since /\ k = overview.known
                               /\ n = Len(messages) /\ D = DOMAIN overview.waits
  OBVIOUS
<1>2. /\ OverviewTypeOK /\ OverviewOK(overview) /\ overview \in Request
      /\ n \in Nat /\ k \in Nat /\ k <= n /\ g \in [Queries -> 0..Unread] /\ Unread \in Nat
  <2>1. OverviewTypeOK /\ OverviewOK(overview) /\ overview \in Request
    BY OverviewFacts DEF OverviewInv
  <2>2. k \in 0..MaxMessages /\ k <= n /\ g \in [Queries -> 0..Unread]
    BY <1>1, <2>1 DEF Request, OverviewOK
  <2> QED BY <1>1, <2>1, <2>2, OverviewFacts
<1>3. PICK F : F = (k + 1)..n
  OBVIOUS
<1>4. IsFiniteSet(F) /\ Cardinality(F) = n - k
  <2>1. n \in Nat /\ k \in Nat /\ k <= n /\ k + 1 \in Int /\ n \in Int
    BY <1>2
  <2>2. IsFiniteSet(F) /\ Cardinality(F) = IF k + 1 > n THEN 0 ELSE n - (k + 1) + 1
    BY <1>3, <2>1, FS_Interval
  <2> QED BY <2>1, <2>2
<1>5. PICK S, K : /\ S = [q \in Queries |-> Counted(q, since)]
                  /\ K = [q \in Queries |-> Known(q, overview)]
  OBVIOUS
<1>6. ASSUME NEW q \in Queries
      PROVE  /\ S[q] \subseteq 1..n /\ K[q] \subseteq S[q] /\ S[q] \subseteq K[q] \cup F
             /\ IsFiniteSet(S[q]) /\ IsFiniteSet(K[q])
             /\ Cardinality(S[q]) \in Nat /\ Cardinality(K[q]) \in Nat
             /\ g[q] \in Nat /\ Cardinality(K[q]) <= g[q] /\ g[q] <= Cardinality(S[q])
  <2>1. S[q] = Counted(q, since) /\ K[q] = {i \in Counted(q, since) : i <= k}
    BY <1>1, <1>5 DEF Known
  <2>2. S[q] \subseteq 1..n /\ K[q] \subseteq S[q]
    BY <1>1, <1>2, <2>1, SelectedAreRows
  <2>3. S[q] \subseteq K[q] \cup F
    <3> SUFFICES ASSUME NEW i \in S[q], ~ (i <= k) PROVE i \in F
      BY <2>1
    <3>1. i \in 1..n
      BY <2>2
    <3> QED BY <1>2, <1>3, <3>1
  <2>4. /\ IsFiniteSet(S[q]) /\ IsFiniteSet(K[q])
        /\ Cardinality(S[q]) \in Nat /\ Cardinality(K[q]) \in Nat
    BY <1>1, <1>2, <2>2, SelectedAreFinite, FS_Subset, FS_CardinalityType
  <2>5. Cardinality(K[q]) <= g[q] /\ g[q] <= Cardinality(S[q])
    BY <1>1, <1>2, <1>5 DEF OverviewOK
  <2>6. g[q] \in Nat
    BY <1>2
  <2> QED BY <2>2, <2>3, <2>4, <2>5, <2>6
<1>7. PICK T, I, O, A, H : /\ T = S["total"] /\ I = S["inbound"] /\ O = S["outbound"]
                           /\ A = S["ai"] /\ H = S["human"]
  OBVIOUS
<1>8. "total" \in Queries /\ "inbound" \in Queries /\ "outbound" \in Queries
      /\ "ai" \in Queries /\ "human" \in Queries
  BY DEF Queries
<1>9. T = I \cup O /\ I \cap O = {} /\ A \cup H \subseteq O /\ A \cap H = {}
  BY <1>5, <1>7, <1>8 DEF Counted, Selects
<1>10. /\ Cardinality(I \cup O) = Cardinality(I) + Cardinality(O)
       /\ Cardinality(A \cup H) = Cardinality(A) + Cardinality(H)
  <2>1. Cardinality({}) = 0
    BY FS_EmptySet
  <2>2. /\ Cardinality(I \cup O) = Cardinality(I) + Cardinality(O) - Cardinality({})
        /\ Cardinality(A \cup H) = Cardinality(A) + Cardinality(H) - Cardinality({})
    BY <1>6, <1>7, <1>8, <1>9, FS_Union
  <2> QED BY <1>6, <1>7, <1>8, <2>1, <2>2
<1>11. PICK f : f = Cardinality(F)
  OBVIOUS
<1>12. f \in Nat /\ f = n - k /\ IsFiniteSet({}) /\ Cardinality({}) = 0
  BY <1>2, <1>4, <1>11, FS_EmptySet
<1>13. /\ Cardinality(T) <= Cardinality(K["inbound"]) + Cardinality(K["outbound"]) + f
       /\ Cardinality(T) <= Cardinality(K["total"]) + Cardinality({}) + f
       /\ Cardinality(O) <= Cardinality(K["outbound"]) + Cardinality({}) + f
       /\ Cardinality(I) <= Cardinality(K["inbound"]) + Cardinality({}) + f
       /\ Cardinality(A \cup H) <= Cardinality(K["ai"]) + Cardinality(K["human"]) + f
  BY <1>4, <1>6, <1>7, <1>8, <1>9, <1>11, <1>12, ThreeSets
<1>14. Cardinality(A \cup H) <= Cardinality(O) /\ Cardinality(T) = Cardinality(I) + Cardinality(O)
  BY <1>6, <1>7, <1>8, <1>9, <1>10, FS_Subset
<1>15. Cardinality(D) <= Cardinality(I) /\ Cardinality(D) <= Cardinality(A \cup H)
       /\ Cardinality(D) \in Nat
  <2>1. \A t \in D : Hears(t, {"inbound"}, since) /\ Hears(t, {"ai", "human"}, since)
    BY <1>1, <1>2 DEF OverviewOK
  <2>2. /\ \A t \in D : \E i \in I : messages[i].thread = t
        /\ \A t \in D : \E i \in A \cup H : messages[i].thread = t
    BY <1>5, <1>7, <1>8, <2>1 DEF Hears
  <2>3. I \subseteq 1..Len(messages) /\ A \cup H \subseteq 1..Len(messages)
    BY <1>1, <1>6, <1>7, <1>8
  <2> QED BY <1>2, <2>2, <2>3, ThreadsAreFew
<1>16. /\ g["total"] <= g["inbound"] + g["outbound"] + f
       /\ g["inbound"] + g["outbound"] <= g["total"] + f
       /\ g["ai"] + g["human"] <= g["outbound"] + f
       /\ Cardinality(D) <= g["inbound"] + f
       /\ Cardinality(D) <= g["ai"] + g["human"] + f
  BY <1>6, <1>7, <1>8, <1>10, <1>12, <1>13, <1>14, <1>15
<1> QED BY <1>1, <1>11, <1>12, <1>16 DEF OverviewAddsUp

(***************************************************************************)
(* The surfaces together                                                   *)
(***************************************************************************)
InboxInv == HistoryInv /\ ListInv /\ StreamInv /\ OverviewInv

LEMMA InboxStarts == InboxInit => InboxInv
BY HistoryStarts, ListStarts, StreamStarts, OverviewStarts DEF InboxInit, InboxInv

LEMMA InboxSteps == InboxInv /\ [InboxNext]_inboxVars => InboxInv'
<1> SUFFICES ASSUME InboxInv, [InboxNext]_inboxVars PROVE InboxInv'
  OBVIOUS
<1>1. HistoryInv /\ ListInv /\ StreamInv /\ OverviewInv
  BY DEF InboxInv
<1>2. CASE HistoryNext /\ UNCHANGED <<listVars, streamVars, overviewVars>>
  BY <1>1, <1>2, HistoryStep, ListStays, StreamStays, OverviewStays DEF InboxInv
<1>3. CASE ListNext /\ UNCHANGED <<historyVars, streamVars, overviewVars>>
  BY <1>1, <1>3, HistoryStays, ListStep, StreamStays, OverviewStays DEF InboxInv
<1>4. CASE StreamNext /\ UNCHANGED <<historyVars, listVars, overviewVars>>
  BY <1>1, <1>4, HistoryStays, ListStays, StreamStep, OverviewStays DEF InboxInv
<1>5. CASE OverviewNext /\ UNCHANGED <<historyVars, listVars, streamVars>>
  BY <1>1, <1>5, HistoryStays, ListStays, StreamStays, OverviewStep DEF InboxInv
<1>6. CASE UNCHANGED inboxVars
  <2>1. UNCHANGED historyVars /\ UNCHANGED listVars /\ UNCHANGED streamVars /\ UNCHANGED overviewVars
    BY <1>6 DEF inboxVars
  <2> QED BY <1>1, <2>1, HistoryStays, ListStays, StreamStays, OverviewStays DEF InboxInv
<1> QED BY <1>2, <1>3, <1>4, <1>5, <1>6 DEF InboxNext

LEMMA InboxInvariant == InboxSpec => []InboxInv
<1>1. InboxInit => InboxInv
  BY InboxStarts
<1>2. InboxInv /\ [InboxNext]_inboxVars => InboxInv'
  BY InboxSteps
<1> QED BY <1>1, <1>2, PTL DEF InboxSpec

-----------------------------------------------------------------------------
(* The variables of the four surfaces keep their types, whatever the       *)
(* sizes of the pages and the length of the window.                        *)
THEOREM InboxReadTypes == InboxSpec => []InboxTypeOK
<1>1. InboxInv => InboxTypeOK
  BY DEF InboxInv, HistoryInv, ListInv, StreamInv, OverviewInv, InboxTypeOK
<1> QED BY <1>1, InboxInvariant, PTL

(* A client that follows the history's cursor gets no message twice, for   *)
(* any number of messages stored meanwhile (getMessages, nextCursor).      *)
THEOREM NothingComesTwice == InboxSpec => []NothingTwice
<1>1. InboxInv => NothingTwice
  BY DEF InboxInv, HistoryInv, ReaderOK, NothingTwice
<1> QED BY <1>1, InboxInvariant, PTL

(* It misses only messages of the millisecond of a row whose cursor it     *)
(* sent; a client that sends offsets misses none (getMessages).            *)
THEOREM CursorSkipsOnlyWithinMs == InboxSpec => []SkipsOnlyWithinMs
<1>1. InboxInv => SkipsOnlyWithinMs
  BY DEF InboxInv, HistoryInv, ReaderOK, Jumped, SkipsOnlyWithinMs
<1> QED BY <1>1, InboxInvariant, PTL

(* A conversation that matched throughout and did not change is listed,    *)
(* for any set of conversations, any page size and any moves of the others *)
(* (listConversations).                                                    *)
THEOREM QuietConversationsAreListed == InboxSpec => []QuietIsListed
<1>1. InboxInv => QuietIsListed
  BY DEF InboxInv, ListInv, ListerOK, QuietIsListed
<1> QED BY <1>1, InboxInvariant, PTL

(* A conversation is listed twice only when a stale save moved it down     *)
(* (listConversations).                                                    *)
THEOREM ConversationsAreListedOnce == InboxSpec => []ListedOnce
<1>1. InboxInv => ListedOnce
  BY DEF InboxInv, ListInv, ListerOK, ListedOnce
<1> QED BY <1>1, InboxInvariant, PTL

(* The browser shows what the inbox has, unless an event is under way or   *)
(* was published while nobody listened (publishInboxActivity,              *)
(* inboxActivityStream).                                                   *)
THEOREM BrowserIsToldOrKnows == InboxSpec => []StaleOnlyIfMissed
<1>1. InboxInv => StaleOnlyIfMissed
  BY DEF InboxInv, StreamInv
<1> QED BY <1>1, InboxInvariant, PTL

(* The numbers of an overview agree up to the messages stored while they   *)
(* were made, for any number of messages of any authors, in any number of  *)
(* conversations, and any order of the answers (overview).                 *)
THEOREM CountsAddUp == InboxSpec => []OverviewAddsUp
<1>1. InboxInv => OverviewAddsUp
  BY AddsUp DEF InboxInv
<1> QED BY <1>1, InboxInvariant, PTL
=============================================================================
