---------------------------- MODULE ListingProofs ----------------------------
(***************************************************************************)
(* Proofs about Listing, for every table, every sequence of lists and all  *)
(* writes in between.                                                      *)
(***************************************************************************)
EXTENDS Listing, FiniteSetTheorems, FunctionTheorems, TLAPS

LEMMA ModSmall ==
    ASSUME NEW m \in Nat, NEW n \in Nat, n < m
    PROVE  n % m = n
OBVIOUS

LEMMA WrapType ==
    ASSUME NEW n \in Int, NEW half \in Nat \ {0}
    PROVE  Wrap(n, half) \in -half..half - 1
<1>1. (n + half) % (2 * half) \in 0..2 * half - 1
    OBVIOUS
<1>2. QED BY <1>1 DEF Wrap

LEMMA WrapSmall ==
    ASSUME NEW half \in Nat, NEW n \in Nat, n < half
    PROVE  Wrap(n, half) = n
<1>1. (n + half) % (2 * half) = n + half
    BY ModSmall
<1>2. QED BY <1>1 DEF Wrap

LEMMA TimesMonotone ==
    ASSUME NEW a \in Nat, NEW b \in Nat, NEW c \in Nat, NEW d \in Nat, a < b, c <= d
    PROVE  a * c < b * d \/ a * c = 0
<1>1. a * c <= a * d
    OBVIOUS
<1>2. CASE d = 0
    BY <1>2
<1>3. CASE d > 0
    <2>1. (a + 1) * d <= b * d
        OBVIOUS
    <2>2. a * d + d <= b * d
        BY <2>1
    <2>3. a * c \in Nat /\ a * d \in Nat /\ b * d \in Nat
        OBVIOUS
    <2>4. QED BY <1>1, <1>3, <2>2, <2>3
<1>4. QED BY <1>2, <1>3
\* Every set of naturals that has an element has a least one.
LEMMA LeastNatural ==
    ASSUME NEW T \in SUBSET Nat, T # {}
    PROVE  \E x \in T : \A y \in T : x <= y
<1> DEFINE R == {ss \in Nat \X Nat : ss[1] < ss[2]}
<1>1. IsWellFoundedOn(R, Nat)
    BY NatLessThanWellFounded DEF OpToRel
<1> HIDE DEF R
<1>2. PICK x \in T : \A y \in T : ~(<<y, x>> \in R)
    BY <1>1, WFMin
<1>3. ASSUME NEW y \in T PROVE x <= y
    <2>1. x \in Nat /\ y \in Nat /\ <<y, x>> \in Nat \X Nat
        OBVIOUS
    <2>2. ~(y < x)
        BY <1>2, <2>1 DEF R
    <2>3. QED BY <2>1, <2>2
<1>4. QED BY <1>3
-----------------------------------------------------------------------------
LEMMA RowFinite == IsFiniteSet(Row) /\ Cardinality(Row) \in Nat
BY ListingAssumption, FS_CardinalityType

LEMMA TotalType ==
    ASSUME NEW rows \in SUBSET Row
    PROVE  IsFiniteSet(rows) /\ Cardinality(rows) \in 0..Cardinality(Row)
BY RowFinite, FS_Subset, FS_CardinalityType

\* The position of a row, in a table and from one table to another.
LEMMA RankType ==
    ASSUME NEW M \in SUBSET Row, NEW r
    PROVE  Rank(r, M) \in Nat
<1>1. {x \in M : x < r} \in SUBSET Row
    OBVIOUS
<1>2. QED BY <1>1, TotalType DEF Rank

LEMMA RankGrows ==
    ASSUME NEW M \in SUBSET Row, NEW N \in SUBSET Row, NEW r,
           \A x \in M : x < r => x \in N
    PROVE  Rank(r, M) <= Rank(r, N)
<1>1. {x \in N : x < r} \in SUBSET Row /\ {x \in M : x < r} \in SUBSET {x \in N : x < r}
    OBVIOUS
<1>2. QED BY <1>1, TotalType, FS_Subset DEF Rank

LEMMA RankBelow ==
    ASSUME NEW M \in SUBSET Row, NEW r \in M
    PROVE  Rank(r, M) < Cardinality(M)
<1> DEFINE B == {x \in M : x < r}
<1>1. B \in SUBSET (M \ {r}) /\ IsFiniteSet(M) /\ Cardinality(M) \in Int
    BY TotalType, ListingAssumption
<1>2. IsFiniteSet(M \ {r}) /\ Cardinality(M \ {r}) = Cardinality(M) - 1
    BY <1>1, FS_RemoveElement
<1>3. Cardinality(B) <= Cardinality(M) - 1
    BY <1>1, <1>2, FS_Subset
<1>4. Rank(r, M) = Cardinality(B) /\ Rank(r, M) \in Nat
    BY RankType DEF Rank
<1> HIDE DEF B
<1>5. QED BY <1>1, <1>3, <1>4

LEMMA RankOrders ==
    ASSUME NEW M \in SUBSET Row, NEW a \in M, NEW b \in M, a < b
    PROVE  Rank(a, M) < Rank(b, M)
<1> DEFINE B == {x \in M : x < b}
<1>1. a \in B /\ B \in SUBSET Row
    OBVIOUS
<1>2. {x \in B : x < a} = {x \in M : x < a}
    <2>1. \A x \in M : x \in Int /\ a \in Int /\ b \in Int
        BY ListingAssumption
    <2>2. \A x \in M : x < a => x < b
        BY <2>1
    <2>3. QED BY <2>2
<1>3. Rank(a, B) = Rank(a, M) /\ Cardinality(B) = Rank(b, M)
    BY <1>2 DEF Rank
<1> HIDE DEF B
<1>4. QED BY <1>1, <1>3, RankBelow

\* The positions are those from 0 to the last one, so a page is as long as its
\* limit, or as what is left of the table after the offset.
Shortened(left, size) == IF left < 0 THEN 0 ELSE IF left < size THEN left ELSE size

LEMMA RankBijection ==
    ASSUME NEW M \in SUBSET Row
    PROVE  [r \in M |-> Rank(r, M)] \in Bijection(M, 0..Cardinality(M) - 1)
<1> DEFINE f == [r \in M |-> Rank(r, M)]
           N == 0..Cardinality(M) - 1
<1>1. IsFiniteSet(M) /\ Cardinality(M) \in Nat
    BY TotalType, RowFinite
<1>2. IsFiniteSet(N) /\ Cardinality(N) = Cardinality(M)
    BY <1>1, FS_Interval
<1>3. f \in [M -> N]
    <2> SUFFICES ASSUME NEW r \in M PROVE Rank(r, M) \in N
        OBVIOUS
    <2>1. QED BY <1>1, RankType, RankBelow
<1>4. ASSUME NEW a \in M, NEW b \in M, f[a] = f[b] PROVE a = b
    <2>1. a \in Int /\ b \in Int /\ Rank(a, M) = Rank(b, M) /\ Rank(a, M) \in Nat
        BY <1>4, ListingAssumption, RankType
    <2>2. ~(a < b) /\ ~(b < a)
        BY <2>1, RankOrders
    <2>3. QED BY <2>1, <2>2
<1> HIDE DEF f, N
<1>5. f \in Injection(M, N)
    BY <1>3, <1>4, Fun_IsInj
<1>6. f \in Surjection(M, N)
    BY <1>2, <1>5, FS_Injection
<1>7. f \in Bijection(M, N)
    BY <1>5, <1>6, Fun_IsBij
<1>8. QED BY <1>7 DEF f, N

LEMMA PageLength ==
    ASSUME NEW M \in SUBSET Row, NEW first \in Nat, NEW size \in Nat,
           NEW page, page = {r \in M : Rank(r, M) \in first..first + size - 1}
    PROVE  Cardinality(page) = Shortened(Cardinality(M) - first, size)
<1> DEFINE k == Cardinality(M)
           last == IF first + size < k THEN first + size - 1 ELSE k - 1
           f == [r \in M |-> Rank(r, M)]
           g == [r \in page |-> Rank(r, M)]
<1>1. k \in Nat /\ IsFiniteSet(M) /\ last \in Int
    BY TotalType, RowFinite
<1>2. \A r \in M : Rank(r, M) \in Nat /\ Rank(r, M) < k
    BY RankType, RankBelow
<1>3. f \in Bijection(M, 0..k - 1)
    BY RankBijection
<1>4. \A a, b \in M : f[a] = f[b] => a = b
    BY <1>3, Fun_BijectionProperties
<1>5. \A i \in 0..k - 1 : \E r \in M : f[r] = i
    <2> DEFINE N == 0..k - 1
    <2>1. f \in Bijection(M, N)
        BY <1>3
    <2> HIDE DEF f, N
    <2>2. \A i \in N : \E r \in M : f[r] = i
        BY <2>1, Fun_BijectionProperties
    <2>3. QED BY <2>2 DEF N
<1>6. page \subseteq M /\ \A r \in M : r \in page <=> Rank(r, M) \in first..last
    BY <1>1, <1>2
<1>7. first..last \subseteq 0..k - 1
    BY <1>1
<1> HIDE DEF k, last
<1>8. g \in [page -> first..last]
    BY <1>6
<1>9. \A a, b \in page : g[a] = g[b] => a = b
    BY <1>4, <1>6
<1>10. ASSUME NEW i \in first..last PROVE \E r \in page : g[r] = i
    <2>1. PICK r \in M : f[r] = i
        BY <1>5, <1>7
    <2>2. r \in page /\ g[r] = i
        BY <1>6, <2>1
    <2>3. QED BY <2>2
<1> HIDE DEF f, g
<1>11. g \in Bijection(page, first..last)
    BY <1>8, <1>9, <1>10, Fun_IsBij
<1>12. ExistsBijection(page, first..last)
    BY <1>11, Fun_ExistsBij
<1>13. IsFiniteSet(page)
    BY <1>1, <1>6, FS_Subset
<1>14. Cardinality(page) = Cardinality(first..last)
    BY <1>12, <1>13, FS_Bijection
<1>15. Cardinality(first..last) = IF first > last THEN 0 ELSE last - first + 1
    BY <1>1, FS_Interval
<1>16. (IF first > last THEN 0 ELSE last - first + 1) = Shortened(k - first, size)
    BY <1>1 DEF Shortened, last
<1>17. QED BY <1>14, <1>15, <1>16 DEF k
-----------------------------------------------------------------------------
\* A row that is deleted does not come back.
TablesOK ==
    \A i, j, k \in 1..Now : i <= j /\ j <= k => tables[i] \cap tables[k] \subseteq tables[j]

\* The rows are a page of what a state of the table has for the query.
PageOf(rows, at, q) == rows \in Pages(Matching(tables[at], q), q)

\* The request under way is one of the script's, has counted what a state of the
\* table has for it, and has read a page of a state no earlier than those of the
\* answers before it.
RequestOK ==
    /\ Len(replies) <= Len(script)
    /\ pc # "idle" =>
          /\ Asks
          /\ counted.at # 0 =>
                counted.total = Cardinality(Matching(tables[counted.at], Asked))
    /\ pc = "fetched" =>
          /\ fetched.at \in 1..Now
          /\ PageOf(fetched.rows, fetched.at, Asked)
          /\ \A i \in Answered : replies[i].fetch <= fetched.at

\* So has every answer given, whose numbers are the int32 of what they stand for.
ReplyOK(reply, q) ==
    /\ reply.fetch \in 1..Now /\ reply.count \in 0..Now
    /\ PageOf(reply.rows, reply.fetch, q)
    /\ reply.page = Wrap(Page(q), Int32)
    /\ reply.size = Wrap(Cardinality(reply.rows), Int32)
    /\ reply.count # 0 =>
          reply.total = Wrap(Cardinality(Matching(tables[reply.count], q)), Int32)

RepliesOK ==
    \A i \in Answered :
        /\ ReplyOK(replies[i], script[i])
        /\ \A j \in Answered : j <= i => replies[j].fetch <= replies[i].fetch

IInv == TypeOK /\ TablesOK /\ RequestOK /\ RepliesOK

LEMMA AtoiType == ASSUME NEW v \in Number, v # None PROVE Atoi(v) \in Int
<1>1. CASE v = Garbage
    BY <1>1 DEF Atoi
<1>2. CASE v # Garbage
    <2>1. v \in Int
        BY <1>2 DEF Number
    <2>2. QED BY <1>2, <2>1, ListingAssumption DEF Atoi
<1>3. QED BY <1>1, <1>2

LEMMA SizeType == ASSUME NEW q \in Queries PROVE Size(q) \in 0..MaxListSize
<1> DEFINE n == IF q.size = None THEN DefaultSize ELSE Atoi(q.size)
<1>1. q.size \in Number
    BY DEF Queries
<1>2. n \in Int
    BY <1>1, AtoiType, ListingAssumption
<1>3. Size(q) = IF n > MaxListSize \/ n < 0 THEN MaxListSize ELSE n
    BY DEF Size
<1> HIDE DEF n
<1>4. QED BY <1>2, <1>3, ListingAssumption

LEMMA PageType == ASSUME NEW q \in Queries PROVE Page(q) \in Int
<1>1. q.page \in Number
    BY DEF Queries
<1>2. QED BY <1>1, AtoiType DEF Page

LEMMA SkippedType == ASSUME NEW q \in Queries PROVE Skipped(q) \in Nat
<1>1. (Page(q) - 1) * Size(q) \in Int
    BY PageType, SizeType, ListingAssumption
<1>2. Int64 \in Nat \ {0}
    BY ListingAssumption, WidthAssumption
<1>3. Offset(q) \in Int
    BY <1>1, <1>2, WrapType DEF Offset
<1>4. QED BY <1>3 DEF Skipped

\* The offset of a page whose number an int32 holds has not overflowed.
LEMMA OffsetExact ==
    ASSUME NEW q \in Queries, q.page \in Int, q.page >= 1, q.page < Int32
    PROVE  Page(q) = q.page /\ Skipped(q) = (q.page - 1) * Size(q)
<1>1. Page(q) = q.page
    BY ListingAssumption, WidthAssumption DEF Page, Atoi
<1>2. q.page - 1 \in Nat /\ Size(q) \in Nat /\ Size(q) <= MaxListSize
    BY SizeType, ListingAssumption
<1>3. (q.page - 1) * Size(q) \in Nat
    BY <1>2
<1>4. (q.page - 1) * Size(q) < Int32 * MaxListSize \/ (q.page - 1) * Size(q) = 0
    BY <1>2, TimesMonotone, ListingAssumption
<1>5. Int32 * MaxListSize \in Nat
    BY ListingAssumption
<1>6. (q.page - 1) * Size(q) < Int64
    BY <1>3, <1>4, <1>5, WidthAssumption, ListingAssumption
<1>7. Offset(q) = (q.page - 1) * Size(q)
    BY <1>1, <1>3, <1>6, WrapSmall, ListingAssumption DEF Offset
<1>8. QED
    BY <1>1, <1>3, <1>7 DEF Skipped

\* A page is as long as its limit or as what is left, in whatever order.
LEMMA PagesLength ==
    ASSUME NEW q \in Queries, NEW M \in SUBSET Row, NEW page \in Pages(M, q)
    PROVE  /\ page \subseteq M
           /\ Cardinality(page) = Shortened(Cardinality(M) - Skipped(q), Size(q))
<1>1. Skipped(q) \in Nat /\ Size(q) \in Nat
    BY SkippedType, SizeType, ListingAssumption
<1>2. CASE q.order = "id asc"
    <2>1. page = {r \in M : Rank(r, M) \in Skipped(q)..Skipped(q) + Size(q) - 1}
        BY <1>2 DEF Pages
    <2>2. QED BY <1>1, <2>1, PageLength
<1>3. CASE q.order # "id asc"
    BY <1>3 DEF Pages, AnyPages, Shortened
<1>4. QED BY <1>2, <1>3

LEMMA NoPage ==
    ASSUME NEW q \in Queries, Size(q) = 0, NEW M \in SUBSET Row
    PROVE  {} \in Pages(M, q)
<1>1. Skipped(q) \in Nat
    BY SkippedType
<1>2. CASE q.order = "id asc"
    <2>1. {r \in M : Rank(r, M) \in Skipped(q)..Skipped(q) + Size(q) - 1} = {}
        BY <1>1
    <2>2. QED BY <1>2, <2>1 DEF Pages
<1>3. CASE q.order # "id asc"
    <2>1. Cardinality({}) = 0 /\ Cardinality(M) - Skipped(q) \in Int
        BY <1>1, FS_EmptySet, TotalType, RowFinite
    <2>2. QED BY <1>3, <2>1 DEF Pages, AnyPages
<1>4. QED BY <1>2, <1>3
-----------------------------------------------------------------------------
LEMMA AskedType == ASSUME TypeOK, Asks PROVE Asked \in Queries
BY ListingAssumption DEF TypeOK, Asks, Asked

LEMMA TableType ==
    ASSUME TypeOK, NEW i \in 1..Now
    PROVE  tables[i] \in SUBSET Row /\ \A q : Matching(tables[i], q) \in SUBSET Row
BY DEF TypeOK, Now, Matching

LEMMA AnsweredType ==
    ASSUME TypeOK, RequestOK, NEW i \in Answered
    PROVE  script[i] \in Queries
<1>1. script \in Seq(Queries) /\ Len(replies) \in Nat
    BY ListingAssumption DEF TypeOK
<1>2. i \in 1..Len(replies) /\ Len(replies) <= Len(script)
    BY DEF RequestOK, Answered
<1>3. QED BY <1>1, <1>2

\* What an answer adds keeps the answers before it.
LEMMA AnswerKeeps ==
    ASSUME TypeOK, RepliesOK, NEW reply \in Reply, Answer(reply),
           UNCHANGED <<tables, script>>,
           reply.code = 200 =>
               /\ ReplyOK(reply, Asked)
               /\ \A j \in Answered : replies[j].fetch <= reply.fetch
    PROVE  RepliesOK'
<1>1. replies \in Seq(Reply) /\ replies' = Append(replies, reply)
    BY DEF TypeOK, Answer
<1>2. ASSUME NEW i \in Answered'
      PROVE  \/ i \in Answered /\ i <= Len(replies) /\ replies'[i] = replies[i]
             \/ i = Len(replies) + 1 /\ replies'[i] = reply /\ reply.code = 200
    BY <1>1 DEF Answered
<1>3. Len(replies) \in Nat /\ Answered \subseteq Nat
    BY <1>1 DEF Answered
<1>4. ASSUME NEW i \in Answered' PROVE ReplyOK(replies[i], script[i])'
    <2>1. CASE i \in Answered /\ replies'[i] = replies[i]
        BY <2>1 DEF RepliesOK, ReplyOK, PageOf, Now
    <2>2. CASE i = Len(replies) + 1 /\ replies'[i] = reply /\ reply.code = 200
        BY <2>2 DEF Asked, ReplyOK, PageOf, Now
    <2>3. QED BY <1>2, <2>1, <2>2
<1>5. ASSUME NEW i \in Answered', NEW j \in Answered', j <= i
      PROVE  replies'[j].fetch <= replies'[i].fetch
    <2>1. CASE i \in Answered /\ i <= Len(replies) /\ replies'[i] = replies[i]
        BY <1>2, <1>3, <1>5, <2>1 DEF RepliesOK
    <2>2. CASE i = Len(replies) + 1 /\ replies'[i] = reply /\ reply.code = 200
        <3>1. reply.fetch \in Int
            BY <2>2 DEF ReplyOK
        <3>2. QED BY <1>2, <2>2, <3>1
    <2>3. QED BY <1>2, <2>1, <2>2
<1>6. QED BY <1>4, <1>5 DEF RepliesOK

LEMMA AnswerTypes ==
    ASSUME TypeOK, TablesOK, NEW reply \in Reply, Answer(reply),
           UNCHANGED <<tables, script, counted, fetched>>, faults' \in 0..MaxFaults
    PROVE  TypeOK' /\ TablesOK'
BY DEF TypeOK, TablesOK, Answer, Now

LEMMA AnswerEnds ==
    ASSUME TypeOK, RequestOK, Asks, NEW reply, Answer(reply), UNCHANGED script
    PROVE  RequestOK'
<1>1. Len(replies') = Len(replies) + 1 /\ pc' = "idle"
    BY DEF TypeOK, Answer
<1>2. Len(replies) \in Nat /\ Len(script) \in Nat
    BY ListingAssumption DEF TypeOK
<1>3. QED BY <1>1, <1>2 DEF RequestOK, Asks

LEMMA InitIInv == Init => IInv
<1> SUFFICES ASSUME Init PROVE IInv
    OBVIOUS
<1>1. TypeOK
    BY RowFinite, ListingAssumption DEF Init, TypeOK, Now
<1>2. RequestOK
    BY ListingAssumption DEF Init, RequestOK
<1>3. RepliesOK
    BY DEF Init, RepliesOK, Answered
<1>4. TablesOK
    BY DEF Init, TablesOK, Now
<1>5. QED BY <1>1, <1>2, <1>3, <1>4 DEF IInv

LEMMA BadRequestStep == IInv /\ BadRequest => IInv'
<1> SUFFICES ASSUME IInv, BadRequest PROVE IInv'
    OBVIOUS
<1> DEFINE reply == [code |-> 400]
<1>1. reply \in Reply /\ reply.code # 200
    BY DEF Reply
<1>2. TypeOK /\ TablesOK /\ RequestOK /\ RepliesOK /\ Asks /\ Answer(reply)
    BY DEF IInv, BadRequest
<1>3. UNCHANGED <<tables, script, counted, fetched, faults>>
    BY DEF BadRequest
<1> HIDE DEF reply
<1>4. TypeOK' /\ TablesOK'
    BY <1>1, <1>2, <1>3, AnswerTypes DEF TypeOK
<1>5. RequestOK'
    BY <1>1, <1>2, <1>3, AnswerEnds
<1>6. RepliesOK'
    BY <1>1, <1>2, <1>3, AnswerKeeps
<1>7. QED BY <1>4, <1>5, <1>6 DEF IInv

LEMMA FetchFailsStep == IInv /\ FetchFails => IInv'
<1> SUFFICES ASSUME IInv, FetchFails PROVE IInv'
    OBVIOUS
<1> DEFINE reply == [code |-> 500]
<1>1. reply \in Reply /\ reply.code # 200
    BY DEF Reply
<1>2. TypeOK /\ TablesOK /\ RequestOK /\ RepliesOK /\ Asks /\ Answer(reply)
    BY DEF IInv, FetchFails, RequestOK
<1>3. UNCHANGED <<tables, script, counted, fetched>> /\ faults' \in 0..MaxFaults
    BY ListingAssumption DEF FetchFails, Fault, IInv, TypeOK
<1> HIDE DEF reply
<1>4. TypeOK' /\ TablesOK'
    BY <1>1, <1>2, <1>3, AnswerTypes
<1>5. RequestOK'
    BY <1>1, <1>2, <1>3, AnswerEnds
<1>6. RepliesOK'
    BY <1>1, <1>2, <1>3, AnswerKeeps
<1>7. QED BY <1>4, <1>5, <1>6 DEF IInv

LEMMA PanicStep == IInv /\ Panic => IInv'
<1> SUFFICES ASSUME IInv, Panic PROVE IInv'
    OBVIOUS
<1> DEFINE reply == [code |-> 0]
<1>1. reply \in Reply /\ reply.code # 200
    BY DEF Reply
<1>2. TypeOK /\ TablesOK /\ RequestOK /\ RepliesOK /\ Asks /\ Answer(reply)
    BY DEF IInv, Panic, RequestOK
<1>3. UNCHANGED <<tables, script, counted, fetched, faults>>
    BY DEF Panic
<1> HIDE DEF reply
<1>4. TypeOK' /\ TablesOK'
    BY <1>1, <1>2, <1>3, AnswerTypes DEF TypeOK
<1>5. RequestOK'
    BY <1>1, <1>2, <1>3, AnswerEnds
<1>6. RepliesOK'
    BY <1>1, <1>2, <1>3, AnswerKeeps
<1>7. QED BY <1>4, <1>5, <1>6 DEF IInv

LEMMA PresentStep == IInv /\ Present => IInv'
<1> SUFFICES ASSUME IInv, Present PROVE IInv'
    OBVIOUS
<1> DEFINE reply == [code |-> 200,
                     page |-> Wrap(Page(Asked), Int32),
                     size |-> Wrap(Cardinality(fetched.rows), Int32),
                     total |-> Wrap(counted.total, Int32),
                     rows |-> fetched.rows,
                     count |-> counted.at, fetch |-> fetched.at]
<1>1. /\ TypeOK /\ TablesOK /\ RequestOK /\ RepliesOK
      /\ Asks /\ pc = "fetched" /\ Answer(reply)
    BY DEF IInv, Present, RequestOK
<1>2. reply \in Reply
    <2>1. Wrap(Page(Asked), Int32) \in -Int32..Int32 - 1
        BY <1>1, AskedType, PageType, WrapType, ListingAssumption
    <2>2. /\ fetched.rows \in SUBSET Row
          /\ counted.total \in 0..Cardinality(Row)
          /\ counted.at \in Nat /\ fetched.at \in Nat
        BY <1>1 DEF TypeOK, Now
    <2>3. Cardinality(fetched.rows) \in Int
        BY <2>2, TotalType
    <2>4. counted.total \in Int
        BY <2>2
    <2>5. /\ Wrap(Cardinality(fetched.rows), Int32) \in -Int32..Int32 - 1
          /\ Wrap(counted.total, Int32) \in -Int32..Int32 - 1
        BY <2>3, <2>4, WrapType, ListingAssumption
    <2>6. QED BY <2>1, <2>2, <2>5 DEF Reply
<1>3. UNCHANGED <<tables, script, counted, fetched, faults>>
    BY DEF Present
<1>4. ReplyOK(reply, Asked) /\ \A j \in Answered : replies[j].fetch <= reply.fetch
    BY <1>1 DEF RequestOK, ReplyOK, TypeOK
<1> HIDE DEF reply
<1>5. TypeOK' /\ TablesOK'
    BY <1>1, <1>2, <1>3, AnswerTypes DEF TypeOK
<1>6. RequestOK'
    BY <1>1, <1>2, <1>3, AnswerEnds
<1>7. RepliesOK'
    BY <1>1, <1>2, <1>3, <1>4, AnswerKeeps
<1>8. QED BY <1>5, <1>6, <1>7 DEF IInv

\* The state of the table now is no earlier than that of any answer.
LEMMA NowIsLast ==
    ASSUME RepliesOK
    PROVE  \A i \in Answered : replies[i].fetch <= Now
BY DEF RepliesOK, ReplyOK

LEMMA CountStep == IInv /\ Count => IInv'
<1> SUFFICES ASSUME IInv, Count PROVE IInv'
    OBVIOUS
<1>1. TypeOK /\ TablesOK /\ RequestOK /\ RepliesOK /\ Asks
    BY DEF IInv, Count
<1>2. /\ UNCHANGED <<tables, script, replies>>
      /\ fetched' = [rows |-> {}, at |-> Now]
      /\ pc' = IF Size(Asked) = 0 THEN "fetched" ELSE "counted"
    BY DEF Count
<1>3. Table \in SUBSET Row /\ Now \in Nat \ {0} /\ Table = tables[Now]
    BY <1>1 DEF TypeOK, Now, Table
<1>4. \/ counted' = [total |-> Cardinality(Matching(Table, Asked)), at |-> Now]
      \/ counted' = [total |-> 0, at |-> 0]
    BY DEF Count
<1>5. TypeOK'
    <2>1. counted' \in [total : 0..Cardinality(Row), at : 0..Now]
        <3>1. Cardinality(Matching(Table, Asked)) \in 0..Cardinality(Row)
            BY <1>3, TotalType DEF Matching
        <3>2. QED BY <1>3, <1>4, <3>1, RowFinite
    <2>2. faults' \in 0..MaxFaults
        BY <1>1, ListingAssumption DEF Count, Fault, TypeOK
    <2>3. fetched' \in [rows : SUBSET Row, at : 0..Now]
        BY <1>2, <1>3
    <2>4. QED BY <1>1, <1>2, <2>1, <2>2, <2>3 DEF TypeOK, Now
<1>6. RequestOK'
    <2>1. /\ Len(replies)' = Len(replies) /\ script' = script /\ Now' = Now /\ Asks'
          /\ Asked' = Asked /\ Answered' = Answered
        BY <1>1, <1>2 DEF Asks, Now, Asked, Answered
    <2>2. fetched'.at = Now /\ fetched'.rows = {}
        BY <1>2
    <2>3. Size(Asked) = 0 => PageOf({}, Now, Asked)
        BY <1>1, <1>3, AskedType, NoPage DEF PageOf, Matching
    <2>4. counted'.at # 0 => counted'.total = Cardinality(Matching(tables[counted'.at], Asked))
        BY <1>3, <1>4
    <2>5. \A i \in Answered : replies[i].fetch <= Now
        BY <1>1, NowIsLast
    <2>6. pc' = "fetched" => PageOf(fetched.rows, fetched.at, Asked)'
        BY <1>2, <2>1, <2>2, <2>3 DEF PageOf
    <2>7. QED BY <1>1, <1>2, <1>3, <2>1, <2>2, <2>4, <2>5, <2>6 DEF RequestOK
<1>7. RepliesOK' /\ TablesOK'
    BY <1>1, <1>2 DEF RepliesOK, ReplyOK, PageOf, TablesOK, Answered, Now
<1>8. QED BY <1>5, <1>6, <1>7 DEF IInv

LEMMA FetchStep == IInv /\ Fetch => IInv'
<1> SUFFICES ASSUME IInv, Fetch PROVE IInv'
    OBVIOUS
<1>1. TypeOK /\ TablesOK /\ RequestOK /\ RepliesOK /\ Asks /\ pc = "counted"
    BY DEF IInv, Fetch, RequestOK
<1>2. UNCHANGED <<tables, script, counted, replies, faults>> /\ pc' = "fetched"
    BY DEF Fetch
<1>3. PICK page \in Pages(Matching(Table, Asked), Asked) :
          fetched' = [rows |-> page, at |-> Now]
    BY DEF Fetch
<1>4. Table \in SUBSET Row /\ Now \in Nat \ {0} /\ Table = tables[Now]
    BY <1>1 DEF TypeOK, Now, Table
<1>5. page \subseteq Row
    BY <1>1, <1>4, AskedType, PagesLength DEF Matching
<1>6. TypeOK'
    BY <1>1, <1>2, <1>3, <1>4, <1>5 DEF TypeOK, Now
<1>7. RequestOK'
    <2>1. fetched'.at = Now /\ fetched'.rows = page
        BY <1>3
    <2>2. /\ Asked' = Asked /\ Now' = Now /\ Len(replies)' = Len(replies) /\ Asks'
          /\ Answered' = Answered
        BY <1>1, <1>2 DEF Asked, Now, Asks, Answered
    <2>3. PageOf(fetched.rows, fetched.at, Asked)'
        BY <1>2, <1>3, <1>4, <2>1, <2>2 DEF PageOf
    <2>4. counted'.at # 0 => counted'.total = Cardinality(Matching(tables'[counted'.at], Asked'))
        BY <1>1, <1>2, <2>2 DEF RequestOK
    <2>5. \A i \in Answered' : replies'[i].fetch <= fetched'.at
        BY <1>1, <1>2, <2>1, <2>2, NowIsLast
    <2>6. QED BY <1>1, <1>2, <1>4, <2>1, <2>2, <2>3, <2>4, <2>5 DEF RequestOK
<1>8. RepliesOK' /\ TablesOK'
    BY <1>1, <1>2 DEF RepliesOK, ReplyOK, PageOf, TablesOK, Answered, Now
<1>9. QED BY <1>6, <1>7, <1>8 DEF IInv

LEMMA WriteStep == IInv /\ Write => IInv'
<1> SUFFICES ASSUME IInv, Write PROVE IInv'
    OBVIOUS
<1>1. TypeOK /\ TablesOK /\ RequestOK /\ RepliesOK
    BY DEF IInv
<1>2. UNCHANGED <<script, pc, counted, fetched, replies, faults>>
    BY DEF Write
<1>3. Table \in SUBSET Row /\ Now \in Nat \ {0} /\ tables \in Seq(SUBSET Row) /\ Table = tables[Now]
    BY <1>1 DEF TypeOK, Now, Table
<1>4. PICK r \in Row, t \in SUBSET Row :
          /\ tables' = Append(tables, t)
          /\ \/ t = Table \cup {r} /\ \A i \in 1..Now : r \notin tables[i]
             \/ t = Table \ {r}
    <2>1. PICK r \in Row : \/ /\ tables' = Append(tables, Table \cup {r})
                              /\ \A i \in 1..Now : r \notin tables[i]
                           \/ tables' = Append(tables, Table \ {r})
        BY DEF Write
    <2>2. Table \cup {r} \in SUBSET Row /\ Table \ {r} \in SUBSET Row
        BY <1>3
    <2>3. QED BY <2>1, <2>2
<1>5. Now' = Now + 1 /\ tables'[Now + 1] = t /\ \A i \in 1..Now : tables'[i] = tables[i]
    BY <1>3, <1>4 DEF Now
<1>6. TypeOK'
    <2>1. tables' \in Seq(SUBSET Row)
        BY <1>3, <1>4
    <2>2. 0..Now \subseteq 0..Now'
        BY <1>3, <1>5
    <2>3. counted' \in [total : 0..Cardinality(Row), at : 0..Now']
        BY <1>1, <1>2, <2>2 DEF TypeOK
    <2>4. fetched' \in [rows : SUBSET Row, at : 0..Now']
        BY <1>1, <1>2, <2>2 DEF TypeOK
    <2>5. Now' > 0
        BY <1>3, <1>5
    <2>6. QED BY <1>1, <1>2, <2>1, <2>3, <2>4, <2>5 DEF TypeOK
<1>7. TablesOK'
    <2> SUFFICES ASSUME NEW i \in 1..Now', NEW j \in 1..Now', NEW k \in 1..Now', i <= j, j <= k,
                        NEW x \in tables'[i] \cap tables'[k]
                 PROVE  x \in tables'[j]
        BY DEF TablesOK
    <2>1. CASE k \in 1..Now
        BY <1>1, <1>3, <1>5, <2>1 DEF TablesOK
    <2>2. CASE j = k
        BY <2>2
    <2>3. CASE j \in 1..Now /\ k = Now + 1
        <3>1. i \in 1..Now /\ i <= Now /\ j <= Now /\ Now \in 1..Now
            BY <1>3, <2>3
        <3>2. x \in tables[i] /\ x \in Table
            BY <1>4, <1>5, <2>3, <3>1
        <3>3. x \in tables[j]
            BY <1>1, <1>3, <2>3, <3>1, <3>2 DEF TablesOK
        <3>4. QED BY <1>5, <2>3, <3>3
    <2>4. QED BY <1>3, <1>5, <2>1, <2>2, <2>3
<1>8. RequestOK'
    <2>1. Asked' = Asked /\ Asks' = Asks /\ Answered' = Answered
        BY <1>2 DEF Asked, Asks, Answered
    <2>2. counted.at \in 0..Now
        BY <1>1 DEF TypeOK
    <2>3. pc # "idle" /\ counted.at # 0 =>
              counted.total = Cardinality(Matching(tables'[counted.at], Asked))
        BY <1>1, <1>3, <1>5, <2>2 DEF RequestOK
    <2>4. pc = "fetched" => /\ fetched.at \in 1..Now /\ fetched.at \in 1..Now'
                            /\ PageOf(fetched.rows, fetched.at, Asked)'
        BY <1>1, <1>2, <1>3, <1>5, <2>1 DEF RequestOK, PageOf
    <2>5. QED BY <1>1, <1>2, <2>1, <2>3, <2>4 DEF RequestOK
<1>9. RepliesOK'
    <2>1. ASSUME NEW reply, NEW q, ReplyOK(reply, q) PROVE ReplyOK(reply, q)'
        BY <1>3, <1>5, <2>1 DEF ReplyOK, PageOf
    <2>2. QED BY <1>1, <1>2, <2>1 DEF RepliesOK, Answered
<1>10. QED BY <1>6, <1>7, <1>8, <1>9 DEF IInv

LEMMA StutterStep == IInv /\ UNCHANGED vars => IInv'
<1> SUFFICES ASSUME IInv, UNCHANGED vars PROVE IInv'
    OBVIOUS
<1> USE DEF IInv, vars, Now
<1>1. TypeOK' /\ TablesOK'
    BY DEF TypeOK, TablesOK
<1>2. RequestOK'
    BY DEF RequestOK, PageOf, Answered, Asked, Asks
<1>3. RepliesOK'
    BY DEF RepliesOK, ReplyOK, PageOf, Answered
<1>4. QED BY <1>1, <1>2, <1>3

LEMMA Inductive == Spec => []IInv
<1>1. IInv /\ [Next]_vars => IInv'
    BY BadRequestStep, CountStep, FetchStep, FetchFailsStep, PresentStep, PanicStep,
       WriteStep, StutterStep DEF Next, Serve
<1>2. QED BY <1>1, InitIInv, PTL DEF Spec
-----------------------------------------------------------------------------
\* Whatever the script asks for, a reply is a page of int32 numbers, an error or a
\* closed connection, and no number leaves its width (loadList, dinosaurHandler.List).
THEOREM TypeCorrect == Spec => []TypeOK
<1>1. IInv => TypeOK
    BY DEF IInv
<1>2. QED BY <1>1, Inductive, PTL

Ordered(q) == q.order = "id asc"

\* A page has the rows whose positions follow its offset.
LEMMA RowsOfPage ==
    ASSUME NEW rows, NEW at, NEW q, PageOf(rows, at, q), Ordered(q),
           NEW M, M = Matching(tables[at], q)
    PROVE  /\ rows \subseteq M
           /\ \A r \in M : r \in rows <=> Rank(r, M) \in Skipped(q)..Skipped(q) + Size(q) - 1
BY DEF PageOf, Pages, Ordered

LEMMA PageBounds ==
    ASSUME NEW p \in Int, NEW s \in Int
    PROVE  /\ (p - 1) * s \in Int /\ p * s \in Int
           /\ (p - 1) * s + s = p * s
OBVIOUS

\* A page number that the reply repeats is that of the page delivered, whatever the
\* widths and the parameters: page and offset overflow together or not at all
\* (loadList's offset, presenters' int32).
THEOREM LabelIsPageHolds == Spec => []LabelIsPage
<1>1. IInv => LabelIsPage
    <2> SUFFICES ASSUME IInv, NEW i \in Answered
                 PROVE  LET q == script[i]
                            reply == replies[i]
                        IN  /\ q.order = "id asc" /\ q.page \in Int /\ q.page >= 1
                            /\ reply.page = q.page
                            => \A r \in reply.rows :
                                   Rank(r, Matching(tables[reply.fetch], q)) \in
                                       (q.page - 1) * Size(q)..q.page * Size(q) - 1
        BY DEF LabelIsPage
    <2> DEFINE q == script[i]
               reply == replies[i]
    <2>1. q \in Queries /\ ReplyOK(reply, q)
        BY AnsweredType DEF IInv, RepliesOK
    <2> HIDE DEF q, reply
    <2>2. ASSUME q.order = "id asc", q.page \in Int, q.page >= 1, reply.page = q.page,
                 NEW r \in reply.rows
          PROVE  Rank(r, Matching(tables[reply.fetch], q)) \in
                     (q.page - 1) * Size(q)..q.page * Size(q) - 1
        <3>1. Wrap(Page(q), Int32) = q.page /\ PageOf(reply.rows, reply.fetch, q)
            BY <2>1, <2>2 DEF ReplyOK
        <3>2. q.page < Int32
            <4>1. Wrap(Page(q), Int32) \in -Int32..Int32 - 1
                BY <2>1, PageType, WrapType, ListingAssumption
            <4>2. QED BY <3>1, <4>1, ListingAssumption
        <3>3. Skipped(q) = (q.page - 1) * Size(q)
            BY <2>1, <2>2, <3>2, OffsetExact
        <3>4. Rank(r, Matching(tables[reply.fetch], q)) \in Skipped(q)..Skipped(q) + Size(q) - 1
            <4> DEFINE M == Matching(tables[reply.fetch], q)
            <4>1. /\ reply.rows \subseteq M
                  /\ \A x \in M :
                        x \in reply.rows <=> Rank(x, M) \in Skipped(q)..Skipped(q) + Size(q) - 1
                <5>1. Ordered(q)
                    BY <2>2 DEF Ordered
                <5>2. QED BY <3>1, <5>1, RowsOfPage
            <4>2. QED BY <2>2, <4>1
        <3>5. Size(q) \in Int
            BY <2>1, SizeType, ListingAssumption
        <3>6. /\ (q.page - 1) * Size(q) + Size(q) = q.page * Size(q)
              /\ (q.page - 1) * Size(q) \in Int /\ q.page * Size(q) \in Int
            BY <2>2, <3>5, PageBounds
        <3>7. QED BY <3>3, <3>4, <3>5, <3>6
    <2>3. QED BY <2>2 DEF q, reply
<1>2. QED BY <1>1, Inductive, PTL

LEMMA ShortenedType ==
    ASSUME NEW left \in Int, NEW size \in Nat
    PROVE  Shortened(left, size) \in 0..size
BY DEF Shortened

\* The length of a page that was answered, and what an int32 makes of it.
LEMMA AnswerLength ==
    ASSUME IInv, NEW i \in Answered
    PROVE  LET q == script[i]
               reply == replies[i]
               M == Matching(tables[reply.fetch], q)
           IN  /\ M \in SUBSET Row /\ reply.fetch \in 1..Now
               /\ reply.rows \subseteq M
               /\ reply.size = Shortened(Cardinality(M) - Skipped(q), Size(q))
<1> DEFINE q == script[i]
           reply == replies[i]
           M == Matching(tables[reply.fetch], q)
           n == Shortened(Cardinality(M) - Skipped(q), Size(q))
<1>1. q \in Queries /\ ReplyOK(reply, q) /\ TypeOK
    BY AnsweredType DEF IInv, RepliesOK
<1>2. M \in SUBSET Row /\ reply.fetch \in 1..Now
    BY <1>1, TableType DEF ReplyOK
<1>3. reply.rows \subseteq M /\ Cardinality(reply.rows) = n
    BY <1>1, <1>2, PagesLength DEF ReplyOK, PageOf
<1>4. Cardinality(M) \in Nat /\ Skipped(q) \in Nat /\ Size(q) \in Nat /\ Size(q) < Int32
    BY <1>1, <1>2, TotalType, RowFinite, SkippedType, SizeType, ListingAssumption, WidthAssumption
<1>5. n \in Nat /\ n < Int32
    <2>1. ASSUME NEW k \in Nat, NEW first \in Nat, NEW size \in Nat
          PROVE  Shortened(k - first, size) \in 0..size
        BY ShortenedType
    <2>2. n \in 0..Size(q)
        BY <1>4, <2>1
    <2>3. QED BY <1>4, <2>2, ListingAssumption
<1>6. reply.size = n
    BY <1>1, <1>3, <1>5, WrapSmall, ListingAssumption DEF ReplyOK
<1>7. QED BY <1>2, <1>3, <1>6

\* What the client may conclude from Total, when Count and Fetch have seen the same
\* state: a short page is the last, and no page goes beyond Total (loadList's two
\* statements, the int32 of dinosaurHandler.List).
THEOREM TotalAccountsHolds == Spec => []TotalAccounts
<1>1. IInv => TotalAccounts
    <2> SUFFICES ASSUME IInv, NEW i \in Answered
                 PROVE  LET q == script[i]
                            reply == replies[i]
                        IN  /\ reply.count = reply.fetch /\ Size(q) > 0
                            /\ Cardinality(tables[reply.fetch]) < Int32
                            =>  /\ reply.size < Size(q) => Skipped(q) + reply.size >= reply.total
                                /\ reply.size > 0 => Skipped(q) + reply.size <= reply.total
        BY DEF TotalAccounts
    <2> DEFINE q == script[i]
               reply == replies[i]
               M == Matching(tables[reply.fetch], q)
    <2>1. q \in Queries /\ ReplyOK(reply, q) /\ TypeOK
        BY AnsweredType DEF IInv, RepliesOK
    <2>2. /\ M \in SUBSET Row /\ reply.fetch \in 1..Now
          /\ reply.size = Shortened(Cardinality(M) - Skipped(q), Size(q))
        BY AnswerLength
    <2>3. Cardinality(M) \in Nat /\ Skipped(q) \in Nat /\ Size(q) \in Nat
        BY <2>1, <2>2, TotalType, RowFinite, SkippedType, SizeType, ListingAssumption
    <2>4. ASSUME reply.count = reply.fetch, Cardinality(tables[reply.fetch]) < Int32
          PROVE  reply.total = Cardinality(M)
        <3>1. tables[reply.fetch] \in SUBSET Row
            BY <2>1, <2>2, TableType
        <3>2. Cardinality(M) <= Cardinality(tables[reply.fetch])
            BY <3>1, TotalType, FS_Subset DEF Matching
        <3>3. Cardinality(tables[reply.fetch]) \in Nat
            BY <3>1, TotalType, RowFinite
        <3>4. Cardinality(M) < Int32
            BY <2>3, <2>4, <3>2, <3>3, ListingAssumption
        <3>5. reply.total = Wrap(Cardinality(M), Int32)
            BY <2>1, <2>2, <2>4 DEF ReplyOK
        <3>6. QED BY <2>3, <3>4, <3>5, WrapSmall, ListingAssumption
    <2> HIDE DEF q, reply, M
    <2>5. ASSUME reply.count = reply.fetch, Cardinality(tables[reply.fetch]) < Int32
          PROVE  /\ reply.size < Size(q) => Skipped(q) + reply.size >= reply.total
                 /\ reply.size > 0 => Skipped(q) + reply.size <= reply.total
        BY <2>2, <2>3, <2>4, <2>5 DEF Shortened
    <2>6. QED BY <2>5 DEF q, reply
<1>2. QED BY <1>1, Inductive, PTL

\* The pages of a walk: one search and size, and the rows of a range of positions.
LEMMA WalkPage ==
    ASSUME IInv, NEW n \in Nat, Walked(n), NEW i \in 1..n
    PROVE  LET s == Size(script[1])
               M == tables[replies[i].fetch] \cap script[1].where
           IN  /\ i \in Answered /\ i \in Nat /\ s \in Nat
               /\ script[i].where = script[1].where /\ Size(script[i]) = s
               /\ Skipped(script[i]) = (i - 1) * s
               /\ replies[i].fetch \in 1..Now /\ M \in SUBSET Row
               /\ Matching(tables[replies[i].fetch], script[i]) = M
               /\ replies[i].rows \subseteq M
               /\ \A r \in M :
                     r \in replies[i].rows <=> Rank(r, M) \in (i - 1) * s..(i - 1) * s + s - 1
<1> DEFINE q == script[i]
           M == tables[replies[i].fetch] \cap script[1].where
<1>1. i \in Answered /\ i \in 1..Len(replies) /\ i \in Nat /\ i >= 1 /\ i < Int32
    BY ListingAssumption DEF Walked, Answered
<1>2. TypeOK /\ RequestOK /\ q \in Queries /\ ReplyOK(replies[i], q)
    BY <1>1, AnsweredType DEF IInv, RepliesOK
<1>3. 1 \in Answered /\ script[1] \in Queries
    <2>1. 1 \in 1..n
        BY <1>1
    <2>2. QED BY <1>2, <2>1, AnsweredType DEF Walked
<1>4. i \in 1..Len(script)
    BY <1>1, <1>2, ListingAssumption DEF RequestOK, TypeOK
<1>5. script[i] = [script[1] EXCEPT !.page = i, !.order = "id asc",
                                    !.valid = TRUE, !.fields = FALSE]
    BY <1>4 DEF Walked, Walks
<1>6. /\ q.page = i /\ q.order = "id asc" /\ q.where = script[1].where
      /\ q.size = script[1].size
    BY <1>3, <1>5 DEF Queries
<1>7. Size(q) = Size(script[1]) /\ Size(q) \in Nat
    <2>1. Size(q) = Size(script[1])
        BY <1>6 DEF Size
    <2>2. QED BY <1>2, <2>1, SizeType, ListingAssumption
<1>8. Skipped(q) = (i - 1) * Size(q)
    <2> HIDE DEF q
    <2>1. q.page = i /\ q \in Queries
        BY <1>2, <1>6
    <2>2. q.page \in Int /\ q.page >= 1 /\ q.page < Int32
        BY <1>1, <2>1
    <2>3. Skipped(q) = (q.page - 1) * Size(q)
        BY <2>1, <2>2, OffsetExact
    <2>4. QED BY <2>1, <2>3
<1>9. Matching(tables[replies[i].fetch], q) = M /\ replies[i].fetch \in 1..Now
    BY <1>2, <1>6 DEF Matching, ReplyOK
<1>10. M \in SUBSET Row
    BY <1>2, <1>9, TableType
<1>11. PageOf(replies[i].rows, replies[i].fetch, q)
    BY <1>2 DEF ReplyOK
<1>12. /\ replies[i].rows \subseteq M
       /\ \A r \in M :
             r \in replies[i].rows <=> Rank(r, M) \in Skipped(q)..Skipped(q) + Size(q) - 1
    <2>1. Ordered(q)
        BY <1>6 DEF Ordered
    <2> HIDE DEF q, M
    <2>2. QED BY <1>9, <1>11, <2>1, RowsOfPage
<1>13. QED BY <1>1, <1>6, <1>7, <1>8, <1>9, <1>10, <1>12

\* Position times size: the offsets of later pages are not smaller.
LEMMA OffsetsGrow ==
    ASSUME NEW i \in Nat, NEW j \in Nat, i < j, NEW s \in Nat
    PROVE  /\ (i - 1) * s \in Int /\ (j - 1) * s \in Int /\ (i - 1) * s + s <= (j - 1) * s
<1>1. (i - 1) * s + s = i * s
    BY PageBounds
<1>2. i * s <= (j - 1) * s
    <2>1. PICK d \in Nat : j - 1 = i + d
        <3>1. j - 1 - i \in Nat /\ j - 1 = i + (j - 1 - i)
            OBVIOUS
        <3>2. QED BY <3>1
    <2>2. (i + d) * s = i * s + d * s /\ d * s >= 0 /\ i * s \in Int /\ d * s \in Int
        OBVIOUS
    <2>3. QED BY <2>1, <2>2
<1>3. QED BY <1>1, <1>2

\* A row moves to a later position only by an insertion before it: whatever else is
\* written between two requests, a walk does not see it twice (loadList's OFFSET).
THEOREM NothingRepeatedHolds == Spec => []NothingRepeated
<1>1. IInv => NothingRepeated
    <2> SUFFICES ASSUME IInv, NEW i \in 1..Len(replies), NEW j \in 1..Len(replies),
                        i < j, Walked(j), NEW r \in replies[i].rows \cap replies[j].rows,
                        Inserted(r, replies[i].fetch, replies[j].fetch) \cap script[1].where = {}
                 PROVE  FALSE
        BY DEF NothingRepeated
    <2> DEFINE s == Size(script[1])
               M == tables[replies[i].fetch] \cap script[1].where
               N == tables[replies[j].fetch] \cap script[1].where
    <2>1. i \in 1..j /\ j \in 1..j /\ i \in Nat /\ j \in Nat
        OBVIOUS
    <2>2. /\ s \in Nat /\ M \in SUBSET Row
          /\ \A x \in replies[i].rows :
                x \in M /\ Rank(x, M) \in (i - 1) * s..(i - 1) * s + s - 1
        BY <2>1, WalkPage
    <2>3. /\ N \in SUBSET Row
          /\ \A x \in replies[j].rows :
                x \in N /\ Rank(x, N) \in (j - 1) * s..(j - 1) * s + s - 1
        BY <2>1, WalkPage
    <2>4. \A x \in N : x < r => x \in M
        BY DEF Inserted
    <2> HIDE DEF s, M, N
    <2>5. Rank(r, N) <= Rank(r, M)
        BY <2>2, <2>3, <2>4, RankGrows
    <2>6. Rank(r, N) \in Nat /\ Rank(r, M) \in Nat
        BY <2>2, <2>3, RankType
    <2>7. Rank(r, M) \in (i - 1) * s..(i - 1) * s + s - 1
        BY <2>2
    <2>8. Rank(r, N) \in (j - 1) * s..(j - 1) * s + s - 1
        BY <2>3
    <2>9. (i - 1) * s \in Int /\ (j - 1) * s \in Int /\ (i - 1) * s + s <= (j - 1) * s
        BY <2>1, <2>2, OffsetsGrow
    <2>10. QED BY <2>2, <2>5, <2>6, <2>7, <2>8, <2>9
<1>2. QED BY <1>1, Inductive, PTL

\* A row that stays while nothing before it is deleted keeps its position or moves
\* to a later one, and is on no earlier page than the next: a walk that has not
\* come to it has read full pages (loadList's OFFSET and LIMIT).
THEOREM NothingMissedHolds == Spec => []NothingMissed
<1>1. IInv => NothingMissed
    <2> SUFFICES ASSUME IInv, NEW n \in 1..Len(replies), Walked(n),
                        NEW r \in script[1].where,
                        \A t \in replies[1].fetch..replies[n].fetch : r \in tables[t],
                        Deleted(r, replies[1].fetch, replies[n].fetch)
                            \cap script[1].where = {},
                        \A i \in 1..n : r \notin replies[i].rows
                 PROVE  /\ replies[n].size = Size(script[1])
                        /\ \A x \in replies[n].rows : x < r
        BY DEF NothingMissed
    <2> DEFINE s == Size(script[1])
               M(i) == tables[replies[i].fetch] \cap script[1].where
    <2>1. n \in Nat /\ n >= 1
        OBVIOUS
    <2>2. ASSUME NEW i \in 1..n
          PROVE  /\ i \in Answered /\ i \in Nat /\ s \in Nat
                 /\ replies[i].fetch \in 1..Now /\ M(i) \in SUBSET Row
                 /\ replies[i].rows \subseteq M(i)
                 /\ \A x \in M(i) :
                       x \in replies[i].rows <=> Rank(x, M(i)) \in (i - 1) * s..(i - 1) * s + s - 1
        BY <2>1, WalkPage
    <2>3. ASSUME NEW i \in 1..n, NEW j \in 1..n, i <= j
          PROVE  replies[i].fetch <= replies[j].fetch
        BY <2>2, <2>3 DEF IInv, RepliesOK
    <2>4. ASSUME NEW i \in 1..n PROVE replies[i].fetch \in replies[1].fetch..replies[n].fetch
        <3>1. 1 \in 1..n /\ n \in 1..n /\ 1 <= i /\ i <= n
            BY <2>1
        <3>2. /\ replies[1].fetch <= replies[i].fetch /\ replies[i].fetch <= replies[n].fetch
              /\ replies[1].fetch \in Int /\ replies[i].fetch \in Int /\ replies[n].fetch \in Int
            <4>1. \A k \in {1, i, n} : k \in 1..n /\ replies[k].fetch \in 1..Now
                BY <2>2, <3>1
            <4>2. \A k \in 1..Now : k \in Int
                OBVIOUS
            <4>3. QED BY <2>3, <3>1, <4>1, <4>2
        <3>3. QED BY <3>2
    <2>5. ASSUME NEW i \in 1..n PROVE r \in M(i) /\ Rank(r, M(i)) \in Nat
        BY <2>2, <2>4, RankType
    <2>6. ASSUME NEW i \in 1..n, NEW j \in 1..n, i <= j
          PROVE  Rank(r, M(i)) <= Rank(r, M(j))
        <3>1. ASSUME NEW x \in M(i), x < r PROVE x \in M(j)
            <4>1. x \in tables[replies[n].fetch]
                BY <2>4, <3>1 DEF Deleted
            <4>2. /\ replies[i].fetch \in 1..Now /\ replies[j].fetch \in 1..Now
                  /\ replies[n].fetch \in 1..Now /\ replies[i].fetch <= replies[j].fetch
                  /\ replies[j].fetch <= replies[n].fetch
                <5>1. n \in 1..n /\ i <= n /\ j <= n
                    BY <2>1
                <5>2. \A k \in {i, j, n} : replies[k].fetch \in 1..Now
                    BY <2>2, <5>1
                <5>3. QED BY <2>3, <2>6, <5>1, <5>2
            <4>3. QED BY <4>1, <4>2 DEF IInv, TablesOK
        <3> HIDE DEF M
        <3>2. QED BY <2>2, <3>1, RankGrows
    <2> HIDE DEF s, M
    <2>7. ASSUME NEW i \in 1..n PROVE Rank(r, M(i)) \notin (i - 1) * s..(i - 1) * s + s - 1
        BY <2>2, <2>5
    <2>8. \A i \in 1..n : Rank(r, M(i)) >= (i - 1) * s + s
        <3> DEFINE F == {i \in 1..n : ~(Rank(r, M(i)) >= (i - 1) * s + s)}
        <3>1. SUFFICES ASSUME F # {} PROVE FALSE
            OBVIOUS
        <3>2. PICK i \in F : \A k \in F : i <= k
            <4>1. F \in SUBSET Nat
                OBVIOUS
            <4> HIDE DEF F
            <4>2. QED BY <3>1, <4>1, LeastNatural
        <3>3. i \in 1..n /\ i \in Nat /\ s \in Nat /\ Rank(r, M(i)) \in Nat
            BY <2>2, <2>5
        <3>4. (i - 1) * s \in Int /\ ~(Rank(r, M(i)) >= (i - 1) * s + s)
            BY <3>3
        <3>5. ~(Rank(r, M(i)) >= (i - 1) * s)
            BY <2>7, <3>3, <3>4
        <3>6. CASE i = 1
            BY <3>3, <3>5, <3>6
        <3>7. CASE i > 1
            <4>1. i - 1 \in 1..n /\ i - 1 \in Nat /\ ~(i <= i - 1)
                BY <2>1, <3>3, <3>7
            <4>2. Rank(r, M(i - 1)) >= (i - 1 - 1) * s + s
                BY <3>2, <4>1
            <4>3. (i - 1 - 1) * s + s = (i - 1) * s
                BY <3>3, PageBounds
            <4>4. Rank(r, M(i - 1)) <= Rank(r, M(i)) /\ Rank(r, M(i - 1)) \in Nat
                BY <2>5, <2>6, <3>3, <4>1
            <4>5. QED BY <3>3, <3>4, <3>5, <4>2, <4>3, <4>4
        <3>8. QED BY <3>3, <3>6, <3>7
    <2>9. n \in 1..n /\ s \in Nat /\ (n - 1) * s \in Int /\ Rank(r, M(n)) \in Nat
        BY <2>1, <2>2, <2>5
    <2>10. Rank(r, M(n)) >= (n - 1) * s + s
        BY <2>8, <2>9
    <2>11. replies[n].size = s
        <3>1. /\ n \in Answered /\ Matching(tables[replies[n].fetch], script[n]) = M(n)
              /\ Size(script[n]) = s /\ Skipped(script[n]) = (n - 1) * s
            BY <2>1, <2>9, WalkPage DEF M, s
        <3>2. replies[n].size = Shortened(Cardinality(M(n)) - (n - 1) * s, s)
            BY <3>1, AnswerLength
        <3>3. Rank(r, M(n)) < Cardinality(M(n)) /\ Cardinality(M(n)) \in Nat
            <4>1. r \in M(n) /\ M(n) \in SUBSET Row
                BY <2>2, <2>5, <2>9
            <4>2. QED BY <4>1, RankBelow, TotalType, RowFinite
        <3>4. QED BY <2>9, <2>10, <3>2, <3>3 DEF Shortened
    <2>12. ASSUME NEW x \in replies[n].rows PROVE x < r
        <3>1. x \in M(n) /\ r \in M(n) /\ M(n) \in SUBSET Row
            BY <2>2, <2>5, <2>9
        <3>2. Rank(x, M(n)) \in (n - 1) * s..(n - 1) * s + s - 1
            BY <2>2, <2>9
        <3>3. Rank(x, M(n)) < Rank(r, M(n))
            BY <2>9, <2>10, <3>2
        <3>4. x \in Int /\ r \in Int
            BY <3>1, ListingAssumption
        <3>5. Rank(x, M(n)) \in Nat /\ Rank(r, M(n)) \in Nat
            BY <3>1, RankType
        <3>6. x # r
            BY <3>3, <3>5
        <3>7. r < x => Rank(r, M(n)) < Rank(x, M(n))
            BY <3>1, RankOrders
        <3>8. QED BY <3>3, <3>4, <3>5, <3>6, <3>7
    <2>13. QED BY <2>11, <2>12 DEF s
<1>2. QED BY <1>1, Inductive, PTL
=============================================================================
