-------------------------------- MODULE Pages --------------------------------
(* Keyset pagination (core/pagination.py), as every list endpoint uses it.  A
   row is listed by its sort key <<time, id>>: the timestamp, and the id that
   breaks ties.  A cursor is the key of the last row of a page; encoding and
   decoding it gives the same key back.                                      *)
EXTENDS Integers, Sequences, FiniteSets

NoCursor == <<>>

\* The order of the listing without its tiebreak.
OlderByTime(a, b) == a[1] < b[1]

\* Row-value comparison tuple_(created_at, id) < (:after).
Older(a, b) == a[1] < b[1] \/ (a[1] = b[1] /\ a[2] < b[2])

\* SELECT ... WHERE key < after ORDER BY time DESC, id DESC LIMIT n.
Select(rows, after, n) ==
  LET left == IF after = NoCursor THEN rows ELSE {r \in rows : Older(r, after)}
      Newer(r) == {x \in left : x[1] > r[1] \/ (x[1] = r[1] /\ x[2] > r[2])}
      newest == [i \in 1 .. Cardinality(left) |->
                   CHOOSE r \in left : Cardinality(Newer(r)) = i - 1]
  IN SubSeq(newest, 1, IF Cardinality(left) < n THEN Cardinality(left) ELSE n)

\* paginate(): the repositories fetch limit + 1 rows, so the extra one tells
\* whether there is a next page.
Paginate(fetched, limit) ==
  IF Len(fetched) > limit
  THEN [items |-> SubSeq(fetched, 1, limit), next |-> fetched[limit]]
  ELSE [items |-> fetched, next |-> NoCursor]

ListPage(rows, after, limit) == Paginate(Select(rows, after, limit + 1), limit)
=============================================================================
