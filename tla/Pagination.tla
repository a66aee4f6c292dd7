----------------------------- MODULE Pagination -----------------------------
(***************************************************************************)
(* How a client reads the results of a crawl or batch: pages of rows of    *)
(* the group in the order of (created_at, id), each answer carrying the    *)
(* link to the next, while a run goes on inserting.                        *)
(*                                                                         *)
(* Rows are named by their place in that order.  One run at a time inserts *)
(* into a group, a page at a time, so a new row comes last.  The row of    *)
(* the job itself is the first: its returnvalue is empty at first and then *)
(* a total, never a page.  A batch that is run again takes it away, into   *)
(* another group.                                                          *)
(***************************************************************************)
EXTENDS Integers, FiniteSets, Sequences, SequencesExt, InOrder

CONSTANTS
    Limits,         \* the limit parameters clients send
    DefaultLimit,   \* 25
    MaxLimit,       \* 100
    MaxRows,        \* bound on the rows of the group
    NoLimit         \* the parameter is left out

ASSUME LimitsAssumption ==
    /\ \A l \in Limits : l = NoLimit \/ l \in Int
    /\ DefaultLimit \in Nat /\ MaxLimit \in Nat /\ MaxRows \in Nat \ {0}

VARIABLES
    table,     \* the group's rows: "job" or "page"
    moved,     \* the job's row belongs to another group by now
    client

vars == <<table, moved, client>>

Idle == [pc |-> "idle", limit |-> 0, after |-> 0, next |-> 0, got |-> <<>>,
         upto |-> 0, left |-> {}, hidden |-> FALSE]

(***************************************************************************)
(* The group's rows                                                        *)
(***************************************************************************)

Places == {i \in DOMAIN table : table[i] = "page" \/ ~moved}

\* enqueue with the group's id, or update_job_group
JobJoins ==
    /\ table = <<>>
    /\ table' = <<"job">>
    /\ UNCHANGED <<moved, client>>

\* enqueue_completed
PageInserted ==
    /\ table # <<>>
    /\ ~moved
    /\ Len(table) < MaxRows
    /\ table' = Append(table, "page")
    /\ UNCHANGED <<moved, client>>

\* update_job_group of the batch's next run, which then inserts elsewhere
JobMoves ==
    /\ table # <<>>
    /\ ~moved
    /\ moved' = TRUE
    /\ UNCHANGED <<table, client>>

(***************************************************************************)
(* The requests                                                            *)
(***************************************************************************)

\* Mutant: nothing caps what the client asks for.
PageLimitUncapped(limit) == IF limit = NoLimit THEN DefaultLimit ELSE limit

PageLimit(limit) ==
    LET asked == IF limit = NoLimit THEN DefaultLimit ELSE limit
    IN  IF asked < MaxLimit THEN asked ELSE MaxLimit

\* Mutant: the row of the cursor is read again.
RowsFrom(after, n) ==
    LET rest == InOrder({i \in Places : i >= after})
    IN  SubSeq(rest, 1, IF n < Len(rest) THEN n ELSE Len(rest))

\* get_group_results: (created_at, id) > the cursor, in order, LIMIT n
RowsAfter(after, n) ==
    LET rest == InOrder({i \in Places : i > after})
    IN  SubSeq(rest, 1, IF n < Len(rest) THEN n ELSE Len(rest))

\* The rows whose returnvalue is a ScrapeResult, in the order of the rows.
Data(rows) == InOrder({i \in ToSet(rows) : table[i] = "page"})

\* Mutant: the cursor is only given while more than a page's worth of data came.
NextCursorStrict(rows, limit) ==
    IF Len(Data(rows)) > limit /\ rows # <<>> THEN Last(rows) ELSE 0

\* "if data.len() == page_limit", the last row, if there is one
NextCursor(rows, limit) ==
    IF Len(Data(rows)) = limit /\ rows # <<>> THEN Last(rows) ELSE 0

Ask ==
    /\ client.pc = "idle"
    /\ \E limit \in Limits :
          client' = [Idle EXCEPT !.pc = "asking", !.limit = PageLimit(limit)]
    /\ UNCHANGED <<table, moved>>

\* The answer.  History: how far the pages reach, the rows left behind, and whether the
\* page had a row that is not in its data.
Answer ==
    /\ client.pc = "asking"
    /\ client.limit >= 0
    /\ LET rows == RowsAfter(client.after, client.limit)
           upto == IF rows = <<>> THEN client.after ELSE Last(rows)
       IN  client' = [client EXCEPT
               !.pc = "answered",
               !.next = NextCursor(rows, client.limit),
               !.got = @ \o Data(rows),
               !.upto = upto,
               !.left = {i \in Places : i > upto},
               !.hidden = Data(rows) # rows]
    /\ UNCHANGED <<table, moved>>

\* The parameter is an i64 and only capped from above: the database refuses a negative
\* LIMIT, and the request with it.
LimitRefused ==
    /\ client.pc = "asking"
    /\ client.limit < 0
    /\ client' = [client EXCEPT !.pc = "refused"]
    /\ UNCHANGED <<table, moved>>

\* The client follows the link, with its parameters encoded.
Follow ==
    /\ client.pc = "answered"
    /\ client.next # 0
    /\ client' = [client EXCEPT !.pc = "asking", !.after = client.next, !.next = 0]
    /\ UNCHANGED <<table, moved>>

\* The client follows the link as it is: the "+" of "+00:00" is read as a blank, and the
\* timestamp is refused.
FollowVerbatim ==
    /\ client.pc = "answered"
    /\ client.next # 0
    /\ client' = [client EXCEPT !.pc = "refused"]
    /\ UNCHANGED <<table, moved>>

\* It polls again from the start.
Restart ==
    /\ client.pc \in {"answered", "refused"}
    /\ client' = Idle
    /\ UNCHANGED <<table, moved>>

Init == table = <<>> /\ moved = FALSE /\ client = Idle

Group == JobJoins \/ PageInserted \/ JobMoves

Request == Ask \/ Answer \/ LimitRefused \/ Follow \/ FollowVerbatim \/ Restart

Next == Group \/ Request

Spec == Init /\ [][Next]_vars

-----------------------------------------------------------------------------

TypeOK ==
    /\ table \in Seq({"job", "page"}) /\ Len(table) <= MaxRows
    /\ \A i \in DOMAIN table : table[i] = "job" <=> i = 1
    /\ moved \in BOOLEAN
    /\ client.limit <= MaxLimit
    /\ client \in [pc : {"idle", "asking", "answered", "refused"}, limit : Int,
                   after : 0 .. MaxRows, next : 0 .. MaxRows, got : Seq(1 .. MaxRows),
                   upto : 0 .. MaxRows, left : SUBSET (1 .. MaxRows), hidden : BOOLEAN]

\* The pages a client gets by following the links are the group's, in order, without one
\* missing or twice up to where it has got, although rows come in and the job's own row
\* goes away between its requests.
PagesInOrder ==
    client.got = InOrder({i \in 1 .. client.upto : table[i] = "page"})

\* The link is left out while there are more rows only if the page had a row without a
\* page in it, or room for none: a short page that is all pages is the last one.  (The job's own
\* row is such a row, so the first answer of a group with more rows has no link.)
NoLinkMeansLast ==
    client.pc = "answered" /\ client.next = 0 /\ client.left # {} =>
        client.hidden \/ client.limit = 0
=============================================================================
