-------------------------------- MODULE Listings --------------------------------
(***************************************************************************)
(* The lists of the dashboard, read page by page while rows are written    *)
(* (controlplane/pagination.py, the list_* queries).  Large collections    *)
(* use keyset cursors, the sort key of the last row returned; small ones   *)
(* use offsets.  One reader follows next_cursor to the end, while writers  *)
(* insert rows and detect violations again.                                *)
(*                                                                         *)
(* Identifiers are numbers in no relation to time.  A descending column is *)
(* its negation, so a sort key is a tuple and a list is in its order.      *)
(***************************************************************************)
EXTENDS Integers, Sequences, FiniteSets, SequencesExt

CONSTANTS
  Ids,      \* identifiers of rows, numbers
  Ranks,    \* severity_rank, or the order of a repository's name
  Lists,    \* the lists that are read, of KeysetLists \cup OffsetLists
  Limit,    \* limit
  MaxRows,  \* bound: rows inserted
  MaxTime   \* bound: times at which something is written

VARIABLES
  list,    \* the list that is read
  rows,    \* the rows of the table
  time,    \* the clock
  reader,  \* the cursor, and what the reader has got so far
  inserted, \* rows inserted so far
  steady   \* the rows that were there at the first page and were not written since

vars == <<list, rows, time, reader, inserted, steady>>

-----------------------------------------------------------------------------
KeysetLists == {"scans newest", "scans oldest", "violations newest", "violations oldest",
                "violations severity", "violations repository", "audit newest", "audit oldest",
                "notifications", "deliveries"}
OffsetLists == {"versions", "members", "own members"}

\* The user who owns a personal account, and has no row
Owner == 0

\* "at": created_at, last_detected_at, occurred_at or sort_at; "seq": the order of insertion
Row == [at: 1..MaxTime, seq: 1..MaxRows, rank: Ranks]
Present == DOMAIN rows

TypeOK ==
  /\ list \in Lists
  /\ Present \subseteq Ids /\ rows \in [Present -> Row]
  /\ time \in 1..MaxTime /\ inserted \in 0..MaxRows
  /\ reader.seen \in Seq(Ids \cup {Owner}) /\ reader.done \in BOOLEAN
  /\ steady \subseteq Present

\* The sort key of a row, in the ORDER BY of every list
Key(id) ==
  LET r == rows[id]
  IN CASE list = "scans newest" -> <<-r.seq>>
       [] list = "scans oldest" -> <<r.seq>>
       [] list = "violations oldest" -> <<r.at, id>>
       [] list \in {"violations severity"} -> <<-r.rank, -r.at, -id>>
       [] list = "violations repository" -> <<r.rank, -r.at, -id>>
       [] list = "audit newest" -> <<-r.at, -r.seq>>
       [] list = "audit oldest" -> <<r.at, r.seq>>
       [] list \in {"violations newest", "notifications", "deliveries"} -> <<-r.at, -id>>
       [] list = "versions" -> <<-r.seq>>
       [] OTHER -> <<r.at, id>>   \* members

\* ORDER BY: column by column
Precedes(k, p) ==
  \E i \in DOMAIN k : k[i] < p[i] /\ \A j \in 1..(i - 1) : k[j] = p[j]

\* Mutant: rows with the same first column are not told apart.
AfterFirst(k, p) == k[1] > p[1]

\* The condition a cursor adds to the query
After(k, p) == Precedes(p, k)

Sorted(ids) ==
  CHOOSE s \in Bijection(1..Cardinality(ids), ids) :
    \A i, j \in DOMAIN s : i < j => Precedes(Key(s[i]), Key(s[j]))

-----------------------------------------------------------------------------
Start == [position |-> <<>>, offset |-> 0, seen |-> <<>>, done |-> FALSE]

Init ==
  /\ list \in Lists
  /\ rows = <<>> /\ time = 1 /\ inserted = 0
  /\ reader = Start
  /\ steady = {}

Started == reader # Start

-----------------------------------------------------------------------------
(* The reader.                                                             *)

\* The rows a query with LIMIT limit + 1 finds, of which the page has the first ones
KeysetPage ==
  LET found == Sorted({id \in Present :
                         reader.position = <<>> \/ After(Key(id), reader.position)})
      page == SubSeq(found, 1, IF Len(found) < Limit THEN Len(found) ELSE Limit)
  IN /\ list \in KeysetLists
     /\ reader' = [reader EXCEPT !.seen = @ \o page, !.done = Len(found) <= Limit,
                     !.position = IF Len(found) > Limit THEN Key(page[Limit]) ELSE @]

\* The owner of a personal account is listed before the members, at offset 0.
OffsetPage ==
  LET all == Sorted(Present)
      fetched == SubSeq(all, reader.offset + 1,
                        IF Len(all) < reader.offset + Limit + 1 THEN Len(all)
                        ELSE reader.offset + Limit + 1)
      found == IF list = "own members" /\ reader.offset = 0 THEN <<Owner>> \o fetched ELSE fetched
      page == SubSeq(found, 1, IF Len(found) < Limit THEN Len(found) ELSE Limit)
  IN /\ list \in OffsetLists
     /\ reader' = [reader EXCEPT !.seen = @ \o page, !.done = Len(found) <= Limit,
                     !.offset = @ + Limit]

ReadPage ==
  /\ ~reader.done
  /\ KeysetPage \/ OffsetPage
  /\ steady' = IF Started THEN steady ELSE Present
  /\ UNCHANGED <<list, rows, time, inserted>>

-----------------------------------------------------------------------------
(* The writers.                                                            *)

\* An audit event is written after its time was taken; the other rows are not.
Insert(id, at, rank) ==
  /\ id \notin Present
  /\ inserted < MaxRows /\ inserted' = inserted + 1
  /\ IF list \in {"audit newest", "audit oldest"} THEN at <= time ELSE at = time
  /\ rows' = [i \in Present \cup {id} |->
                IF i = id THEN [at |-> at, seq |-> inserted + 1, rank |-> rank]
                ELSE rows[i]]
  /\ UNCHANGED <<list, time, reader, steady>>

\* A violation that is detected again, a notification that another event is added to
Refresh(id) ==
  /\ list \in {"violations newest", "violations oldest", "violations severity",
               "violations repository", "notifications"}
  /\ id \in Present
  /\ rows' = [rows EXCEPT ![id].at = time]
  /\ steady' = steady \ {id}
  /\ UNCHANGED <<list, time, reader, inserted>>

\* Retention deletes old rows, but not those of the small collections.
Delete(id) ==
  /\ list \in KeysetLists
  /\ id \in Present
  /\ rows' = [i \in Present \ {id} |-> rows[i]]
  /\ steady' = steady \ {id}
  /\ UNCHANGED <<list, time, reader, inserted>>

Tick == time < MaxTime /\ time' = time + 1 /\ UNCHANGED <<list, rows, reader, inserted, steady>>

Next ==
  \/ ReadPage \/ Tick
  \/ \E id \in Ids : Refresh(id) \/ Delete(id) \/ \E at \in 1..MaxTime, rank \in Ranks : Insert(id, at, rank)

Spec == Init /\ [][Next]_vars

-----------------------------------------------------------------------------
Times(id) == Cardinality({i \in DOMAIN reader.seen : reader.seen[i] = id})

\* "Pages stay fast and stable while new rows arrive" (controlplane/pagination.py): every
\* row that was there at the first page and was not written since is on one page, and on
\* one only, also when rows are equal in the column the list is sorted by.  A version
\* that is published meanwhile moves the others, of which one can be seen again.
PagesStable ==
  \A id \in steady :
    /\ reader.done => Times(id) >= 1
    /\ list # "versions" => Times(id) <= 1
=============================================================================
