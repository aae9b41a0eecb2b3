------------------------------ MODULE Listing ------------------------------
(***************************************************************************)
(* A GET of a list, from the query string to the page: NewListArguments,   *)
(* sqlGenericService.List with its two statements, Count and Fetch, and    *)
(* dinosaurHandler.List, while other requests insert and delete rows.      *)
(*                                                                         *)
(* A page is the set of its rows: only which rows it has matters here.     *)
(* Lists change nothing, so one client that asks for one list after the    *)
(* other stands for all.                                                   *)
(***************************************************************************)
EXTENDS Integers, Sequences, FiniteSets

CONSTANTS
    Row,         \* ids, numbered in the order of "id asc"
    Initial,     \* rows there from the start
    Scripts,     \* what a client may ask for: sequences of lists
    None,        \* a parameter the query string does not have
    Garbage,     \* a parameter that is not a number
    DefaultSize, \* 100
    MaxListSize, \* 65500
    Int32,       \* 2^31: an int32 runs from -Int32 to Int32 - 1
    Int64,       \* 2^63
    MaxWrites,   \* bound on the rows inserted and deleted
    MaxFaults    \* bound on the statements that fail

Number == Int \cup {None, Garbage}

\* What the handler reads from the query string: where is the set of rows the
\* search selects; valid is FALSE if search or orderBy is malformed.
Queries == [page : Number, size : Number, where : SUBSET Row,
            order : {"id asc", "none"}, valid : BOOLEAN, fields : BOOLEAN]

ASSUME ListingAssumption ==
    /\ Row \subseteq Int /\ IsFiniteSet(Row) /\ Initial \subseteq Row
    /\ Scripts \subseteq Seq(Queries)
    /\ None \notin Int /\ Garbage \notin Int /\ None # Garbage
    /\ MaxListSize \in Nat /\ DefaultSize \in 0..MaxListSize
    /\ Int32 \in Nat \ {0} /\ Int64 \in Nat
    /\ MaxWrites \in Nat /\ MaxFaults \in Nat

\* An int32 is an int64, and so is a page number of the reply times the largest
\* size; the size of a page is an int32.
ASSUME WidthAssumption ==
    /\ Int32 <= Int64 /\ Int32 * MaxListSize <= Int64
    /\ MaxListSize < Int32

VARIABLES
    tables,   \* the committed states of the table, oldest first
    script,   \* the lists that the client asks for, in order
    pc,       \* where its request is
    counted,  \* the Total read, and from which state of the table
    fetched,  \* the rows read, and from which state of the table
    replies,  \* what its requests returned, in order
    faults

vars == <<tables, script, pc, counted, fetched, replies, faults>>

Now == Len(tables)
Table == tables[Now]
-----------------------------------------------------------------------------
\* strconv.Atoi and ParseInt with their errors dropped: 0 for what is not a
\* number, the nearest int64 for what is out of range.
Atoi(v) ==
    IF v = Garbage THEN 0
    ELSE IF v >= Int64 THEN Int64 - 1
    ELSE IF v < -Int64 THEN -Int64 ELSE v

\* Two's complement with 2 * half values.
Wrap(n, half) == ((n + half) % (2 * half)) - half

Page(q) == IF q.page = None THEN 1 ELSE Atoi(q.page)

Size(q) ==
    LET n == IF q.size = None THEN DefaultSize ELSE Atoi(q.size)
    IN  IF n > MaxListSize \/ n < 0 THEN MaxListSize ELSE n

\* Mutants of Offset: pages counted from zero; the product of two int32.
OffsetFromZero(q) == Wrap(Page(q) * Size(q), Int64)
OffsetInInt32(q) == Wrap((Page(q) - 1) * Size(q), Int32)

\* loadList: (args.Page-1)*int(args.Size).
Offset(q) == Wrap((Page(q) - 1) * Size(q), Int64)

\* The rows that the search selects.
Matching(rows, q) == rows \cap q.where

\* The position of a row in the order of ids.
Rank(r, rows) == Cardinality({x \in rows : x < r})

\* gorm leaves OFFSET out unless it is positive.
Skipped(q) == IF Offset(q) > 0 THEN Offset(q) ELSE 0

\* Without an ORDER BY, PostgreSQL may take the rows in any order.
AnyPages(rows, q) ==
    LET left == Cardinality(rows) - Skipped(q)
        n == IF left < 0 THEN 0 ELSE IF left < Size(q) THEN left ELSE Size(q)
    IN  {page \in SUBSET rows : Cardinality(page) = n}

\* Mutant of Pages: the ORDER BY does not reach the statement.
PagesUnordered(rows, q) == AnyPages(rows, q)

\* What ORDER BY, OFFSET and LIMIT may select of the matching rows.
Pages(rows, q) ==
    IF q.order = "id asc"
    THEN {{r \in rows : Rank(r, rows) \in Skipped(q)..Skipped(q) + Size(q) - 1}}
    ELSE AnyPages(rows, q)
-----------------------------------------------------------------------------
Reply ==
    [code : {200}, page : -Int32..Int32 - 1, size : -Int32..Int32 - 1,
     total : -Int32..Int32 - 1, rows : SUBSET Row, count : Nat, fetch : Nat]
    \cup [code : {400, 500}]
    \cup [code : {0}]  \* a connection closed without an answer

TypeOK ==
    /\ tables \in Seq(SUBSET Row) /\ Now > 0
    /\ script \in Scripts
    /\ pc \in {"idle", "counted", "fetched"}
    /\ counted \in [total : 0..Cardinality(Row), at : 0..Now]
    /\ fetched \in [rows : SUBSET Row, at : 0..Now]
    /\ replies \in Seq(Reply)
    /\ faults \in 0..MaxFaults

\* The query that the next reply answers.
Asked == script[Len(replies) + 1]
Asks == Len(replies) < Len(script)

Answer(reply) ==
    /\ replies' = Append(replies, reply)
    /\ pc' = "idle"

Fault == faults < MaxFaults /\ faults' = faults + 1
-----------------------------------------------------------------------------
Init ==
    /\ tables = <<Initial>>
    /\ script \in Scripts
    /\ pc = "idle"
    /\ counted = [total |-> 0, at |-> 0]
    /\ fetched = [rows |-> {}, at |-> 0]
    /\ replies = <<>>
    /\ faults = 0

\* List: a builder refuses the order or the search.
BadRequest ==
    /\ pc = "idle" /\ Asks /\ ~Asked.valid
    /\ Answer([code |-> 400])
    /\ UNCHANGED <<tables, script, counted, fetched, faults>>

\* Mutant of Count: the WHERE clause is not carried over to its session.
CountAll ==
    /\ pc = "idle" /\ Asks /\ Asked.valid
    /\ counted' = [total |-> Cardinality(Table), at |-> Now]
    /\ fetched' = [rows |-> {}, at |-> Now]
    /\ pc' = IF Size(Asked) = 0 THEN "fetched" ELSE "counted"
    /\ UNCHANGED <<tables, script, replies, faults>>

\* loadList: the Total, with the joins and the WHERE of the search; Total stays
\* 0 when the statement fails, for its error is dropped.  A size of 0 ends here.
Count ==
    /\ pc = "idle" /\ Asks /\ Asked.valid
    /\ \/ /\ counted' = [total |-> Cardinality(Matching(Table, Asked)), at |-> Now]
          /\ UNCHANGED faults
       \/ /\ counted' = [total |-> 0, at |-> 0]
          /\ Fault
    /\ fetched' = [rows |-> {}, at |-> Now]
    /\ pc' = IF Size(Asked) = 0 THEN "fetched" ELSE "counted"
    /\ UNCHANGED <<tables, script, replies>>

\* loadList: the page.
Fetch ==
    /\ pc = "counted"
    /\ \E page \in Pages(Matching(Table, Asked), Asked) :
           fetched' = [rows |-> page, at |-> Now]
    /\ pc' = "fetched"
    /\ UNCHANGED <<tables, script, counted, replies, faults>>

FetchFails ==
    /\ pc = "counted" /\ Fault
    /\ Answer([code |-> 500])
    /\ UNCHANGED <<tables, script, counted, fetched>>

\* dinosaurHandler.List: the numbers become int32.
Present ==
    /\ pc = "fetched" /\ ~Asked.fields
    /\ Answer([code |-> 200,
                  page |-> Wrap(Page(Asked), Int32),
                  size |-> Wrap(Cardinality(fetched.rows), Int32),
                  total |-> Wrap(counted.total, Int32),
                  rows |-> fetched.rows,
                  count |-> counted.at, fetch |-> fetched.at])
    /\ UNCHANGED <<tables, script, counted, fetched, faults>>

\* SliceFilter is given the items and not the list: FieldByName panics on a
\* slice, and net/http closes the connection.
Panic ==
    /\ pc = "fetched" /\ Asked.fields
    /\ Answer([code |-> 0])
    /\ UNCHANGED <<tables, script, counted, fetched, faults>>

\* Other requests: an id is new and never comes back.
Write ==
    /\ Now <= MaxWrites
    /\ \E r \in Row :
          /\ \/ /\ \A i \in 1..Now : r \notin tables[i]
                /\ tables' = Append(tables, Table \cup {r})
             \/ /\ r \in Table
                /\ tables' = Append(tables, Table \ {r})
    /\ UNCHANGED <<script, pc, counted, fetched, replies, faults>>

Serve == BadRequest \/ Count \/ Fetch \/ Present \/ Panic

Next == Serve \/ FetchFails \/ Write

Spec == Init /\ [][Next]_vars
-----------------------------------------------------------------------------
\* A client that walks: it asks for page 1, 2, ... of one list in a total order.
Walks ==
    \A i \in 1..Len(script) :
        script[i] = [script[1] EXCEPT !.page = i, !.order = "id asc",
                                      !.valid = TRUE, !.fields = FALSE]

Answered == {i \in 1..Len(replies) : replies[i].code = 200}

\* The client has walked to page n, a number that the reply's int32 holds.
Walked(n) ==
    /\ Walks /\ n \in 1..Len(replies) /\ n < Int32
    /\ 1..n \subseteq Answered

\* The rows before r that were deleted between two states of the table, and
\* those that the second one has and the first one has not.
Deleted(r, from, to) ==
    {x \in UNION {tables[t] : t \in from..to} : x < r /\ x \notin tables[to]}
Inserted(r, from, to) == {x \in tables[to] : x < r /\ x \notin tables[from]}

\* A walk that meets no deletion before a row that stays does not miss it: the
\* row is on one of the pages read, or still to come after a last, full one.
\* Insertions, which push rows to later pages, never make a walk miss one.
NothingMissed ==
    \A n \in 1..Len(replies) : Walked(n) =>
        LET first == replies[1].fetch
            last == replies[n].fetch
        IN  \A r \in script[1].where :
                /\ \A t \in first..last : r \in tables[t]
                /\ Deleted(r, first, last) \cap script[1].where = {}
                => \/ \E i \in 1..n : r \in replies[i].rows
                   \/ /\ replies[n].size = Size(script[1])
                      /\ \A x \in replies[n].rows : x < r

\* A walk sees a row twice only if one before it was inserted in between.
\* Deletions, which pull rows to earlier pages, never repeat one.
NothingRepeated ==
    \A i, j \in 1..Len(replies) : i < j /\ Walked(j) =>
        \A r \in replies[i].rows \cap replies[j].rows :
            Inserted(r, replies[i].fetch, replies[j].fetch) \cap script[1].where # {}

\* Total and the page agree when no write came between the two statements and
\* Count did not fail: a page that is not full is the last one, and a page that
\* has rows ends within Total.  The table is one whose rows an int32 can count.
TotalAccounts ==
    \A i \in Answered :
        LET q == script[i]
            reply == replies[i]
        IN  /\ reply.count = reply.fetch /\ Size(q) > 0
            /\ Cardinality(tables[reply.fetch]) < Int32
            =>  /\ reply.size < Size(q) => Skipped(q) + reply.size >= reply.total
                /\ reply.size > 0 => Skipped(q) + reply.size <= reply.total

\* A page number that comes back in the reply as it was asked for, and is 1 or
\* more, is that of the page delivered: what overflows never looks right.
LabelIsPage ==
    \A i \in Answered :
        LET q == script[i]
            reply == replies[i]
        IN  /\ q.order = "id asc" /\ q.page \in Int /\ q.page >= 1
            /\ reply.page = q.page
            => \A r \in reply.rows :
                   Rank(r, Matching(tables[reply.fetch], q)) \in
                       (q.page - 1) * Size(q)..q.page * Size(q) - 1
=============================================================================
