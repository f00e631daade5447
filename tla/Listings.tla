------------------------------ MODULE Listings ------------------------------
(***************************************************************************)
(* The pages of the API: orders, fills and ledger entries, newest first,   *)
(* and the history of the portfolio, oldest first.  A client reads page    *)
(* after page while rows are added and orders change.                      *)
(*                                                                         *)
(* Every page is a query of its own with skip and take.  The database      *)
(* (external) returns rows the ordering does not tell apart in any order,  *)
(* another one each time.                                                  *)
(***************************************************************************)
EXTENDS Integers, Sequences, FiniteSets, SequencesExt

CONSTANTS
  RowIds,     \* ids of rows, numbers
  PageLimit,  \* the limit the client asks for
  LastMoment  \* bound: the clock of the database

ASSUME ListingsAssumption ==
  /\ RowIds \subseteq Nat /\ IsFiniteSet(RowIds)
  /\ PageLimit \in Nat \ {0} /\ LastMoment \in Nat \ {0}

VARIABLES
  table,        \* what is listed: "orders", "fills", "ledger" or "history"
  created,      \* the time of each row, 0 when it is not listed
  moment,       \* the clock
  walkPage,     \* the page being read, 0 when there is no walk
  queriesDone,  \* its queries that were executed, of "rows" and "count"
  rowCount,     \* the count
  askedRows,    \* the rows that were listed when the walk began, and still are
  seenRows,     \* the rows the walk has shown
  disturbed     \* history: during the walk an order left, or a row was added
                \* after the count of a page and before its rows

listingsVars ==
  <<table, created, moment, walkPage, queriesDone, rowCount, askedRows, seenRows, disturbed>>
walkVars == <<walkPage, queriesDone, rowCount, askedRows, seenRows, disturbed>>

Tables == {"orders", "fills", "ledger", "history"}

ListingsInit ==
  /\ table = "orders" /\ created = [r \in RowIds |-> 0] /\ moment = 1
  /\ walkPage = 0 /\ queriesDone = {} /\ rowCount = 0
  /\ askedRows = {} /\ seenRows = {} /\ disturbed = FALSE

Rows == {r \in RowIds : created[r] > 0}

Choose(t) ==
  /\ Rows = {} /\ walkPage = 0 /\ table' = t
  /\ UNCHANGED <<created, moment>> /\ UNCHANGED walkVars

Later ==
  /\ moment < LastMoment /\ moment' = moment + 1
  /\ UNCHANGED <<table, created>> /\ UNCHANGED walkVars

\* A row bears the time of its insert and appears when that commits.  A
\* transaction of the ledger has two entries or more; a portfolio has one
\* snapshot of a day.
Add(R, time) ==
  /\ R \cap Rows = {} /\ Cardinality(R) = IF table = "ledger" THEN 2 ELSE 1
  /\ table = "history" => time = moment /\ \A r \in Rows : created[r] # time
  /\ created' = [r \in RowIds |-> IF r \in R THEN time ELSE created[r]]
  /\ disturbed' = (disturbed \/ queriesDone = {"count"})
  /\ UNCHANGED <<table, moment, walkPage, queriesDone, rowCount, askedRows, seenRows>>

\* An order leaves a listing that asks for some statuses.
Leave(r) ==
  /\ table = "orders" /\ r \in Rows
  /\ created' = [created EXCEPT ![r] = 0]
  /\ askedRows' = askedRows \ {r} /\ seenRows' = seenRows \ {r}
  /\ disturbed' = (disturbed \/ walkPage > 0)
  /\ UNCHANGED <<table, moment, walkPage, queriesDone, rowCount>>

-----------------------------------------------------------------------------
\* Mutant: orders without their second criterion.
ByTime(r, q) == created[r] > created[q]

\* r is listed before q: by time, orders of the same time by id.
ListedBefore(r, q) ==
  CASE table = "orders"  -> created[r] > created[q] \/ (created[r] = created[q] /\ r > q)
    [] table = "history" -> created[r] < created[q]
    [] OTHER             -> created[r] > created[q]

\* What the database may return.
Orderings ==
  {s \in SetToSeqs(Rows) : \A i, j \in 1 .. Len(s) : i < j => ~ListedBefore(s[j], s[i])}

Skip(p) == (p - 1) * PageLimit

Fetched(p, s) == {s[i] : i \in {k \in 1 .. Len(s) : Skip(p) < k /\ k <= Skip(p) + PageLimit}}

Open ==
  /\ walkPage = 0 /\ walkPage' = 1
  /\ askedRows' = Rows /\ seenRows' = {} /\ disturbed' = FALSE
  /\ UNCHANGED <<table, created, moment, queriesDone, rowCount>>

QueryRows ==
  /\ walkPage > 0 /\ "rows" \notin queriesDone /\ queriesDone' = queriesDone \cup {"rows"}
  /\ \E s \in Orderings : seenRows' = seenRows \cup Fetched(walkPage, s)
  /\ UNCHANGED <<table, created, moment, walkPage, rowCount, askedRows, disturbed>>

\* getOrders sends both queries at once, the others count after the rows.
QueryCount ==
  /\ walkPage > 0 /\ "count" \notin queriesDone /\ queriesDone' = queriesDone \cup {"count"}
  /\ table = "orders" \/ "rows" \in queriesDone
  /\ rowCount' = Cardinality(Rows)
  /\ UNCHANGED <<table, created, moment, walkPage, askedRows, seenRows, disturbed>>

\* After the last page of that many rows the walk ends.  The history has no
\* second page.
Turn ==
  /\ queriesDone = {"rows", "count"}
  /\ walkPage' = IF table = "history" \/ walkPage * PageLimit >= rowCount
                 THEN 0 ELSE walkPage + 1
  /\ queriesDone' = {} /\ rowCount' = 0
  /\ UNCHANGED <<table, created, moment, askedRows, seenRows, disturbed>>

ListingsNext ==
  \/ Later \/ Open \/ QueryRows \/ QueryCount \/ Turn
  \/ \E t \in Tables : Choose(t)
  \/ \E R \in SUBSET RowIds, time \in 1 .. moment : Add(R, time)
  \/ \E r \in RowIds : Leave(r)

ListingsSpec == ListingsInit /\ [][ListingsNext]_listingsVars

-----------------------------------------------------------------------------
ListingsTypeOK ==
  /\ table \in Tables /\ created \in [RowIds -> 0 .. LastMoment] /\ moment \in 1 .. LastMoment
  /\ walkPage \in Nat /\ queriesDone \subseteq {"rows", "count"}
  /\ rowCount \in 0 .. Cardinality(RowIds)
  /\ askedRows \subseteq RowIds /\ seenRows \subseteq RowIds /\ disturbed \in BOOLEAN

\* A walk over all pages shows every row that was there from its beginning,
\* though rows are added meanwhile.  A fill or a ledger entry is
\* missed only if another one has its time (they have no second criterion), an
\* order only if orders left the listing or one was added between the two
\* queries of getOrders; the history stops at its limit, with the newest days
\* missing.
MissesHaveACause ==
  walkPage = 0 => \A r \in askedRows \ seenRows :
    CASE table = "orders"  -> disturbed
      [] table = "history" -> Cardinality({q \in askedRows : ListedBefore(q, r)}) >= PageLimit
      [] OTHER             -> \E q \in Rows \ {r} : created[q] = created[r]
=============================================================================
