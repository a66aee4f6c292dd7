----------------------------- MODULE ApiProofs ------------------------------
(***************************************************************************)
(* Proofs about two parts of the HTTP interface: paging through the        *)
(* results of a group (Pagination), for any limits and number of rows, and *)
(* the gate in front of the expensive routes (ResourceGate), for any       *)
(* measurements and limits.                                                *)
(***************************************************************************)
EXTENDS Pagination, FiniteSetTheorems, SequenceTheorems, TLAPS

CONSTANTS MaxCpu, MaxRam
VARIABLES packed, cpu, ram

Gate == INSTANCE ResourceGate

-----------------------------------------------------------------------------
(***************************************************************************)
(* Numbers from a to b in order                                            *)
(***************************************************************************)

LEMMA IntervalRank ==
    ASSUME NEW a \in Nat, NEW b \in Nat, NEW i \in a .. b
    PROVE  Rank(a .. b, i) = i - a + 1
<1>1. i \in Nat /\ a <= i
  OBVIOUS
<1>2. {j \in a .. b : j <= i} = a .. i
  <2>1. \A j : j \in a .. b /\ j <= i <=> j \in a .. i
    BY <1>1
  <2> QED
    BY <2>1
<1>3. Cardinality(a .. i) = i - a + 1
  BY <1>1, FS_Interval
<1> QED
  BY <1>2, <1>3 DEF Rank

LEMMA IntervalInOrder ==
    ASSUME NEW a \in Nat, NEW b \in Nat, a <= b + 1
    PROVE  InOrder(a .. b) = [k \in 1 .. b - a + 1 |-> a + k - 1]
<1>1. Cardinality(a .. b) = b - a + 1
  BY FS_Interval
<1>2. ASSUME NEW k \in 1 .. b - a + 1
      PROVE  Nth(a .. b, k) = a + k - 1
  <2>1. a + k - 1 \in a .. b /\ Rank(a .. b, a + k - 1) = k
    BY IntervalRank
  <2>2. Nth(a .. b, k) \in a .. b /\ Rank(a .. b, Nth(a .. b, k)) = k
    BY <2>1 DEF Nth
  <2>3. Nth(a .. b, k) - a + 1 = k
    BY <2>2, IntervalRank
  <2> QED
    BY <2>2, <2>3
<1> QED
  BY <1>1, <1>2 DEF InOrder

\* The first m of them.
LEMMA IntervalPrefix ==
    ASSUME NEW a \in Nat \ {0}, NEW b \in Nat, a <= b + 1, NEW m \in 0 .. b - a + 1
    PROVE  SubSeq(InOrder(a .. b), 1, m) = InOrder(a .. a + m - 1)
<1> DEFINE s == InOrder(a .. b)
           u == SubSeq(s, 1, m)
<1>1. s = [k \in 1 .. b - a + 1 |-> a + k - 1]
  BY IntervalInOrder
<1>2. s \in Seq(Nat) /\ Len(s) = b - a + 1 /\ \A k \in 1 .. b - a + 1 : s[k] = a + k - 1
  BY <1>1
<1> HIDE DEF s
<1>3. \A k \in 1 .. m : s[k] \in Nat
  BY <1>2
<1>4. u \in Seq(Nat) /\ Len(u) = m /\ \A k \in 1 .. m : u[k] = s[1 + k - 1]
  <2>1. 1 .. m \subseteq 1 .. Len(s) /\ m \in 0 .. Len(s)
    BY <1>2
  <2> QED
    BY <1>2, <1>3, <2>1, SubSeqProperties
<1> HIDE DEF u
<1>5. u = [k \in 1 .. m |-> a + k - 1]
  <2>1. DOMAIN u = 1 .. m /\ u = [k \in 1 .. m |-> u[k]]
    BY <1>4
  <2>2. ASSUME NEW k \in 1 .. m PROVE u[k] = a + k - 1
    <3>1. 1 + k - 1 = k /\ k \in 1 .. b - a + 1
      OBVIOUS
    <3> QED
      BY <1>2, <1>4, <3>1
  <2> QED
    BY <2>1, <2>2
<1>6. a + m - 1 \in Nat /\ a <= (a + m - 1) + 1 /\ (a + m - 1) - a + 1 = m
  OBVIOUS
<1>7. InOrder(a .. a + m - 1) = [k \in 1 .. m |-> a + k - 1]
  BY <1>6, IntervalInOrder
<1> QED
  BY <1>5, <1>7 DEF u, s

\* Two intervals that meet.
LEMMA IntervalsJoin ==
    ASSUME NEW a \in Nat \ {0}, NEW b \in Nat, NEW c \in Nat, a <= b + 1, b <= c
    PROVE  InOrder(a .. b) \o InOrder(b + 1 .. c) = InOrder(a .. c)
<1> DEFINE s == InOrder(a .. b)
           t == InOrder(b + 1 .. c)
           u == InOrder(a .. c)
<1>1. s = [k \in 1 .. b - a + 1 |-> a + k - 1]
  BY IntervalInOrder
<1>2. t = [k \in 1 .. c - (b + 1) + 1 |-> b + 1 + k - 1]
  BY IntervalInOrder
<1>3. u = [k \in 1 .. c - a + 1 |-> a + k - 1]
  BY IntervalInOrder
<1> HIDE DEF s, t, u
<1>4. s \in Seq(Nat) /\ Len(s) = b - a + 1 /\ \A k \in 1 .. b - a + 1 : s[k] = a + k - 1
  BY <1>1
<1>5. t \in Seq(Nat) /\ Len(t) = c - b /\ \A k \in 1 .. c - b : t[k] = b + k
  BY <1>2
<1>6. /\ s \o t \in Seq(Nat) /\ Len(s \o t) = Len(s) + Len(t)
      /\ \A i \in 1 .. Len(s) + Len(t) :
            (s \o t)[i] = IF i <= Len(s) THEN s[i] ELSE t[i - Len(s)]
  BY <1>4, <1>5, ConcatProperties
<1>7. Len(s) + Len(t) = c - a + 1
  BY <1>4, <1>5
<1>8. s \o t = [i \in 1 .. c - a + 1 |-> (s \o t)[i]]
  <2>1. \A w \in Seq(Nat) : w = [i \in 1 .. Len(w) |-> w[i]]
    OBVIOUS
  <2> QED
    BY <1>6, <1>7, <2>1, Zenon
<1>9. ASSUME NEW i \in 1 .. c - a + 1
      PROVE  (s \o t)[i] = a + i - 1
  <2>1. (s \o t)[i] = IF i <= Len(s) THEN s[i] ELSE t[i - Len(s)]
    BY <1>6, <1>7
  <2>2. CASE i <= Len(s)
    <3>1. i \in 1 .. b - a + 1
      BY <1>4, <2>2
    <3> QED
      BY <1>4, <2>1, <2>2, <3>1
  <2>3. CASE ~ (i <= Len(s))
    <3>1. i - Len(s) \in 1 .. c - b /\ b + (i - Len(s)) = a + i - 1
      BY <1>4, <2>3
    <3> QED
      BY <1>5, <2>1, <2>3, <3>1
  <2> QED
    BY <2>2, <2>3
<1>10. s \o t = u
  BY <1>3, <1>8, <1>9
<1> QED
  BY <1>10 DEF s, t, u

LEMMA NoneInOrder == InOrder({}) = <<>>
<1>1. Cardinality({}) = 0
  BY FS_EmptySet
<1>2. 1 .. 0 = {}
  OBVIOUS
<1> QED
  BY <1>1, <1>2 DEF InOrder

-----------------------------------------------------------------------------
(***************************************************************************)
(* A page of rows: from the first place behind the cursor on               *)
(***************************************************************************)

Table ==
    /\ table \in Seq({"job", "page"}) /\ Len(table) <= MaxRows
    /\ \A i \in DOMAIN table : table[i] = "job" <=> i = 1
    /\ moved \in BOOLEAN /\ (moved => table # <<>>)

\* The first place an answer after this cursor may hold.
First(after) == IF moved /\ after = 0 THEN 2 ELSE after + 1

\* Only the job's row can be away, and it is the first.
LEMMA PlacesAfter ==
    ASSUME Table, NEW after \in Nat
    PROVE  {i \in Places : i > after} = First(after) .. Len(table)
<1>1. Len(table) \in Nat /\ DOMAIN table = 1 .. Len(table)
      /\ \A i \in 1 .. Len(table) : table[i] = "page" <=> i # 1
  BY DEF Table
<1>2. \A i : i \in Places <=> i \in 1 .. Len(table) /\ (i # 1 \/ ~ moved)
  BY <1>1 DEF Places
<1>3. \A i : i \in 1 .. Len(table) /\ (i # 1 \/ ~ moved) /\ i > after
             <=> i \in First(after) .. Len(table)
  BY <1>1 DEF First
<1> QED
  BY <1>2, <1>3

\* The pages among the rows up to a place.
LEMMA PagesUpto ==
    ASSUME Table, NEW a \in Nat \ {0}, NEW b \in 0 .. Len(table)
    PROVE  {i \in a .. b : table[i] = "page"} = (IF a = 1 THEN 2 ELSE a) .. b
<1>1. Len(table) \in Nat /\ DOMAIN table = 1 .. Len(table)
      /\ \A i \in 1 .. Len(table) : table[i] = "page" <=> i # 1
  BY DEF Table
<1>2. \A i : i \in a .. b /\ table[i] = "page" <=> i \in (IF a = 1 THEN 2 ELSE a) .. b
  BY <1>1
<1> QED
  BY <1>2

\* A page has the first rows behind the cursor, as many as there are up to the limit,
\* and its data is these without the job's row.
LEMMA PageRows ==
    ASSUME Table, NEW after \in 0 .. Len(table), NEW limit \in Nat
    PROVE  LET rows == RowsAfter(after, limit)
               n == Len(table) - First(after) + 1
               m == IF limit < n THEN limit ELSE n
               last == First(after) + m - 1
               from == IF First(after) = 1 THEN 2 ELSE First(after)
           IN  /\ m \in 0 .. n /\ n \in Nat /\ First(after) \in Nat \ {0} /\ Len(rows) = m
               /\ m = 0 => rows = <<>> /\ Data(rows) = <<>>
               /\ m # 0 => rows # <<>> /\ Last(rows) = last /\ last \in 1 .. Len(table)
               /\ m # 0 => Data(rows) = InOrder(from .. last)
<1> DEFINE rows == RowsAfter(after, limit)
           first == First(after)
           n == Len(table) - first + 1
           m == IF limit < n THEN limit ELSE n
           last == first + m - 1
           from == IF first = 1 THEN 2 ELSE first
<1>1. Len(table) \in Nat /\ (moved => Len(table) # 0)
  BY EmptySeq DEF Table
<1>2. first \in Nat \ {0} /\ first <= Len(table) + 1
  BY <1>1 DEF First
<1>3. n \in Nat /\ m \in 0 .. n
  BY <1>1, <1>2
<1>4. {i \in Places : i > after} = first .. Len(table)
  BY PlacesAfter
<1>5. InOrder(first .. Len(table)) = [k \in 1 .. n |-> first + k - 1]
  BY <1>1, <1>2, IntervalInOrder
<1>6. Len(InOrder(first .. Len(table))) = n
  BY <1>3, <1>5
<1>7. rows = SubSeq(InOrder(first .. Len(table)), 1, m)
  BY <1>4, <1>6 DEF RowsAfter
<1>8. rows = InOrder(first .. last)
  BY <1>1, <1>2, <1>3, <1>7, IntervalPrefix
<1>9. last \in Nat /\ first <= last + 1 /\ last - first + 1 = m
  BY <1>2, <1>3
<1>10. rows = [k \in 1 .. m |-> first + k - 1]
  BY <1>2, <1>8, <1>9, IntervalInOrder
<1> HIDE DEF rows, first
<1>11. Len(rows) = m
  BY <1>3, <1>10
<1>12. ToSet(rows) = first .. last
  <2>1. \A k \in 1 .. m : first + k - 1 \in first .. last
    BY <1>2, <1>3
  <2>2. \A i \in first .. last : i - first + 1 \in 1 .. m /\ first + (i - first + 1) - 1 = i
    BY <1>2, <1>3
  <2>3. ToSet(rows) = {first + k - 1 : k \in 1 .. m}
    BY <1>10 DEF ToSet
  <2> HIDE DEF m, last
  <2> QED
    BY <2>1, <2>2, <2>3
<1>13. CASE m = 0
  <2>1. rows = <<>>
    BY <1>3, <1>10, <1>13
  <2>2. ToSet(rows) = {}
    BY <2>1 DEF ToSet
  <2>3. {i \in ToSet(rows) : table[i] = "page"} = {}
    BY <2>2
  <2>4. Data(rows) = <<>>
    BY <2>3, NoneInOrder DEF Data
  <2> QED
    BY <1>2, <1>3, <1>11, <1>13, <2>1, <2>4 DEF rows, first
<1>14. CASE m # 0
  <2>1. m \in 1 .. n
    BY <1>3, <1>14
  <2>2. rows # <<>> /\ Last(rows) = last
    BY <1>3, <1>10, <1>11, <2>1 DEF Last
  <2>3. last \in 1 .. Len(table)
    BY <1>1, <1>2, <2>1
  <2>4. {i \in first .. last : table[i] = "page"} = from .. last
    BY <1>1, <1>2, <2>3, PagesUpto
  <2>5. Data(rows) = InOrder(from .. last)
    BY <1>12, <2>4 DEF Data
  <2> QED
    BY <1>2, <1>3, <1>11, <1>14, <2>2, <2>3, <2>5 DEF rows, first
<1> QED
  BY <1>13, <1>14

-----------------------------------------------------------------------------
(***************************************************************************)
(* The invariant                                                           *)
(***************************************************************************)

ClientType ==
    [pc : {"idle", "asking", "answered", "refused"}, limit : Int,
     after : 0 .. MaxRows, next : 0 .. MaxRows, got : Seq(1 .. MaxRows),
     upto : 0 .. MaxRows, left : SUBSET (1 .. MaxRows), hidden : BOOLEAN]

\* The client has the pages up to a place in the table, and a link leads on from there.
Client ==
    /\ client \in ClientType
    /\ client.limit <= MaxLimit
    /\ client.upto <= Len(table)
    /\ client.got = InOrder(2 .. client.upto)
    /\ client.pc = "asking" => client.after = client.upto
    /\ client.pc = "answered" => client.next \in {0, client.upto}
    /\ NoLinkMeansLast

Paging == Table /\ Client

\* The pages up to a place, as a sequence.
LEMMA PagesSeq ==
    ASSUME NEW b \in 0 .. MaxRows
    PROVE  InOrder(2 .. b) \in Seq(1 .. MaxRows) /\ (b < 2 => InOrder(2 .. b) = <<>>)
<1>0. MaxRows \in Nat /\ b \in Nat
  BY LimitsAssumption
<1>1. CASE b < 2
  <2>1. 2 .. b = {}
    BY <1>0, <1>1
  <2>2. InOrder(2 .. b) = <<>>
    BY <2>1, NoneInOrder, Zenon
  <2>3. <<>> \in Seq(1 .. MaxRows)
    OBVIOUS
  <2> QED
    BY <2>2, <2>3, Zenon
<1>2. CASE b >= 2
  <2>1. InOrder(2 .. b) = [k \in 1 .. b - 2 + 1 |-> 2 + k - 1]
    BY <1>0, <1>2, IntervalInOrder
  <2>2. b - 2 + 1 \in Nat /\ \A k \in 1 .. b - 2 + 1 : 2 + k - 1 \in 1 .. MaxRows
    BY <1>0, <1>2
  <2> QED
    BY <1>0, <1>2, <2>1, <2>2
<1> QED
  BY <1>0, <1>1, <1>2

LEMMA IdleClient ==
    ASSUME client = Idle, Table
    PROVE  Client
<1>1. Len(table) \in Nat /\ MaxRows \in Nat /\ MaxLimit \in Nat
  BY LimitsAssumption DEF Table
<1>2. InOrder(2 .. 0) = <<>>
  BY <1>1, PagesSeq
<1>3. /\ client.pc = "idle" /\ client.limit = 0 /\ client.upto = 0 /\ client.got = <<>>
      /\ client \in ClientType
  BY <1>1 DEF Idle, ClientType
<1> QED
  BY <1>1, <1>2, <1>3 DEF Client, NoLinkMeansLast

LEMMA InitPaging == Init => Paging
<1> SUFFICES ASSUME Init PROVE Paging
  OBVIOUS
<1>1. Table
  <2>1. table = <<>> /\ moved = FALSE /\ MaxRows \in Nat
    BY LimitsAssumption DEF Init
  <2>2. <<>> \in Seq({"job", "page"}) /\ Len(<<>>) = 0 /\ DOMAIN <<>> = {}
    OBVIOUS
  <2>3. table \in Seq({"job", "page"}) /\ Len(table) = 0 /\ DOMAIN table = {}
    BY <2>1, <2>2, Zenon
  <2>4. Len(table) <= MaxRows
    BY <2>1, <2>3
  <2>5. moved \in BOOLEAN /\ ~ moved
    BY <2>1
  <2> QED
    BY <2>3, <2>4, <2>5 DEF Table
<1> QED
  BY <1>1, IdleClient DEF Init, Paging

\* Rows are only added, behind the ones there, and the job's row goes at most.
LEMMA GroupPaging == Paging /\ Group => Paging'
<1> SUFFICES ASSUME Paging, Group PROVE Paging'
  OBVIOUS
<1>0. /\ Table /\ Client /\ MaxRows \in Nat \ {0}
      /\ Len(table) \in Nat /\ DOMAIN table = 1 .. Len(table)
  BY LimitsAssumption DEF Paging, Table
<1>1. Table' /\ Len(table) <= Len(table')
  <2>1. CASE JobJoins
    <3>1. table = <<>> /\ table' = <<"job">> /\ moved' = moved
      BY <2>1 DEF JobJoins
    <3>2. Len(table') = 1 /\ DOMAIN table' = {1} /\ table'[1] = "job" /\ Len(table) = 0
      BY <3>1
    <3> QED
      BY <1>0, <3>1, <3>2 DEF Table
  <2>2. CASE PageInserted
    <3>1. table # <<>> /\ table' = Append(table, "page") /\ moved' = moved /\ Len(table) < MaxRows
      BY <2>2 DEF PageInserted
    <3>2. Len(table) # 0
      BY <1>0, <3>1, EmptySeq DEF Table
    <3>3. /\ table' \in Seq({"job", "page"}) /\ Len(table') = Len(table) + 1
          /\ \A i \in 1 .. Len(table) : table'[i] = table[i]
          /\ table'[Len(table) + 1] = "page"
      BY <1>0, <3>1, AppendProperties DEF Table
    <3>4. \A i \in 1 .. Len(table') : i \in 1 .. Len(table) \/ i = Len(table) + 1
      BY <1>0, <3>3
    <3>5. \A i \in 1 .. Len(table') : table'[i] = "job" <=> i = 1
      BY <1>0, <3>2, <3>3, <3>4 DEF Table
    <3>6. Len(table') # 0 /\ table' # <<>>
      BY <1>0, <3>3
    <3> QED
      BY <1>0, <3>1, <3>3, <3>5, <3>6 DEF Table
  <2>3. CASE JobMoves
    BY <1>0, <2>3 DEF JobMoves, Table
  <2> QED
    BY <2>1, <2>2, <2>3 DEF Group
<1>2. client' = client
  BY DEF Group, JobJoins, PageInserted, JobMoves
<1>3. Len(table') \in Nat /\ client.upto \in Nat
  BY <1>0, <1>1, <1>2 DEF Table, Client, ClientType
<1>4. Client'
  BY <1>0, <1>1, <1>2, <1>3 DEF Client, NoLinkMeansLast
<1> QED
  BY <1>1, <1>4 DEF Paging

LEMMA AnswerPaging == Paging /\ Answer => Paging'
<1> SUFFICES ASSUME Paging, Answer PROVE Paging'
  OBVIOUS
<1>0. /\ Table /\ Client /\ MaxRows \in Nat \ {0} /\ Len(table) \in Nat /\ Len(table) <= MaxRows
      /\ client \in ClientType /\ client.pc = "asking" /\ client.limit \in Nat
      /\ client.after = client.upto /\ client.upto \in 0 .. Len(table)
      /\ client.limit <= MaxLimit
  BY LimitsAssumption DEF Paging, Table, Client, ClientType, Answer
<1>1. UNCHANGED <<table, moved>>
  BY DEF Answer
<1> DEFINE after == client.after
           limit == client.limit
           rows == RowsAfter(after, limit)
           n == Len(table) - First(after) + 1
           m == IF limit < n THEN limit ELSE n
           last == First(after) + m - 1
           from == IF First(after) = 1 THEN 2 ELSE First(after)
           upto == IF rows = <<>> THEN after ELSE Last(rows)
           left == {i \in Places : i > upto}
           next == NextCursor(rows, limit)
           got == client.got \o Data(rows)
<1>2. /\ m \in 0 .. n /\ n \in Nat /\ First(after) \in Nat \ {0} /\ Len(rows) = m
      /\ m = 0 => rows = <<>> /\ Data(rows) = <<>>
      /\ m # 0 => rows # <<>> /\ Last(rows) = last /\ last \in 1 .. Len(table)
      /\ m # 0 => Data(rows) = InOrder(from .. last)
  BY <1>0, PageRows
<1>3. client' = [client EXCEPT !.pc = "answered", !.next = next, !.got = got, !.upto = upto,
                               !.left = left, !.hidden = Data(rows) # rows]
  BY DEF Answer
<1>4. First(after) = IF moved /\ after = 0 THEN 2 ELSE after + 1
  BY DEF First
<1> HIDE DEF rows
<1>5. upto = (IF m = 0 THEN after ELSE last) /\ upto \in 0 .. Len(table)
  BY <1>0, <1>2
<1>6. got = InOrder(2 .. upto)
  <2>1. client.got = InOrder(2 .. after) /\ after \in 0 .. MaxRows /\ client.got \in Seq(1 .. MaxRows)
    BY <1>0, PagesSeq DEF Client
  <2>2. CASE m = 0
    BY <1>2, <1>5, <2>1, <2>2, ConcatEmptySeq
  <2>3. CASE m # 0 /\ after = 0
    <3>1. client.got = <<>>
      BY <2>1, <2>3, PagesSeq
    <3>2. from = 2
      BY <1>4, <2>3
    <3>3. last \in 0 .. MaxRows
      BY <1>0, <1>2, <2>3
    <3>4. InOrder(2 .. last) \in Seq(1 .. MaxRows)
      BY <3>3, PagesSeq
    <3> HIDE DEF last, from, m
    <3>5. <<>> \o InOrder(2 .. last) = InOrder(2 .. last)
      BY <3>4, ConcatEmptySeq
    <3> QED
      BY <1>2, <1>5, <2>3, <3>1, <3>2, <3>5
  <2>4. CASE m # 0 /\ after # 0
    <3>1. First(after) = after + 1 /\ from = after + 1 /\ after \in Nat /\ 2 <= after + 1
      BY <1>0, <1>4, <2>4
    <3>2. after <= last /\ last \in Nat
      BY <1>2, <2>4, <3>1
    <3> HIDE DEF last, from, m, after
    <3>3. 2 \in Nat \ {0} /\ after \in Nat /\ last \in Nat /\ 2 <= after + 1 /\ after <= last
      BY <3>1, <3>2
    <3>4. InOrder(2 .. after) \o InOrder(after + 1 .. last) = InOrder(2 .. last)
      BY <3>3, IntervalsJoin, Zenon
    <3> QED
      BY <1>2, <1>5, <2>1, <2>4, <3>1, <3>4
  <2> QED
    BY <2>2, <2>3, <2>4
<1>7. next \in {0, upto} /\ next \in 0 .. MaxRows /\ upto \in 0 .. MaxRows
  BY <1>0, <1>5 DEF NextCursor
<1>8. got \in Seq(1 .. MaxRows)
  BY <1>6, <1>7, PagesSeq
<1>9. left \in SUBSET (1 .. MaxRows)
  BY <1>0 DEF Places, Table
<1>10. next = 0 /\ left # {} => Data(rows) # rows \/ limit = 0
  <2> SUFFICES ASSUME next = 0, Data(rows) = rows, limit # 0 PROVE left = {}
    OBVIOUS
  <2>1. left = First(upto) .. Len(table)
    BY <1>0, <1>5, PlacesAfter
  <2>2. m # limit \/ m = 0
    BY <1>2, <1>5 DEF NextCursor
  <2>3. m = n
    BY <1>2, <2>2
  <2>4. CASE m = 0
    <3>1. upto = after /\ First(after) > Len(table)
      BY <1>0, <1>2, <1>5, <2>3, <2>4
    <3> QED
      BY <1>0, <1>2, <2>1, <3>1
  <2>5. CASE m # 0
    <3>1. upto = Len(table) /\ upto # 0
      BY <1>0, <1>2, <1>5, <2>3, <2>5
    <3> QED
      BY <1>0, <2>1, <3>1 DEF First
  <2> QED
    BY <2>4, <2>5
<1> HIDE DEF upto, left, next, got, m, last, from, n
<1>11. /\ client'.pc = "answered" /\ client'.next = next /\ client'.got = got
       /\ client'.upto = upto /\ client'.left = left /\ client'.limit = limit
       /\ client'.hidden = (Data(rows) # rows) /\ client' \in ClientType
  BY <1>0, <1>3, <1>7, <1>8, <1>9 DEF ClientType
<1>12. Client'
  <2>1. NoLinkMeansLast'
    BY <1>10, <1>11, Zenon DEF NoLinkMeansLast
  <2>2. client'.upto <= Len(table') /\ client'.limit <= MaxLimit
    BY <1>0, <1>1, <1>5, <1>11
  <2> QED
    BY <1>6, <1>7, <1>11, <2>1, <2>2 DEF Client
<1> QED
  BY <1>0, <1>1, <1>12 DEF Paging, Table

LEMMA RequestPaging == Paging /\ Request => Paging'
<1> SUFFICES ASSUME Paging, Request PROVE Paging'
  OBVIOUS
<1>0. /\ Table /\ Client /\ MaxRows \in Nat \ {0} /\ MaxLimit \in Nat /\ DefaultLimit \in Nat
      /\ client \in ClientType /\ client.upto \in Nat /\ Len(table) \in Nat
  BY LimitsAssumption DEF Paging, Table, Client, ClientType
<1>1. CASE Answer
  BY <1>1, AnswerPaging
<1>2. ASSUME UNCHANGED <<table, moved>>
      PROVE  Table' /\ Len(table)' = Len(table)
  BY <1>0, <1>2 DEF Table
<1>3. CASE Ask
  <2>1. PICK limit \in Limits :
           client' = [Idle EXCEPT !.pc = "asking", !.limit = PageLimit(limit)]
    BY <1>3 DEF Ask
  <2>2. PageLimit(limit) \in Int /\ PageLimit(limit) <= MaxLimit
    BY <1>0, LimitsAssumption DEF PageLimit
  <2>3. /\ client'.pc = "asking" /\ client'.limit = PageLimit(limit) /\ client'.after = 0
        /\ client'.upto = 0 /\ client'.got = <<>> /\ client' \in ClientType
    <3>1. Idle \in ClientType /\ Idle.after = 0 /\ Idle.upto = 0 /\ Idle.got = <<>>
      BY <1>0 DEF Idle, ClientType
    <3> QED
      BY <2>1, <2>2, <3>1 DEF ClientType
  <2>4. InOrder(2 .. 0) = <<>>
    BY <1>0, PagesSeq
  <2>5. Client'
    BY <1>0, <1>2, <1>3, <2>2, <2>3, <2>4 DEF Ask, Client, NoLinkMeansLast
  <2> QED
    BY <1>2, <1>3, <2>5 DEF Ask, Paging
<1>4. CASE LimitRefused \/ FollowVerbatim
  <2>1. /\ client' = [client EXCEPT !.pc = "refused"] /\ UNCHANGED <<table, moved>>
    BY <1>4 DEF LimitRefused, FollowVerbatim
  <2>2. /\ client'.pc = "refused" /\ client'.limit = client.limit /\ client'.upto = client.upto
        /\ client'.got = client.got /\ client' \in ClientType
    BY <1>0, <2>1 DEF ClientType
  <2>3. Client'
    BY <1>0, <2>1, <2>2 DEF Client, NoLinkMeansLast
  <2> QED
    BY <1>2, <2>1, <2>3 DEF Paging
<1>5. CASE Follow
  <2>1. /\ client' = [client EXCEPT !.pc = "asking", !.after = client.next, !.next = 0]
        /\ UNCHANGED <<table, moved>> /\ client.pc = "answered" /\ client.next # 0
    BY <1>5 DEF Follow
  <2>2. /\ client'.pc = "asking" /\ client'.limit = client.limit /\ client'.upto = client.upto
        /\ client'.after = client.next /\ client'.got = client.got /\ client' \in ClientType
    <3>1. client \in ClientType /\ client.next \in 0 .. MaxRows /\ 0 \in 0 .. MaxRows
      BY <1>0 DEF ClientType
    <3> QED
      BY <2>1, <3>1 DEF ClientType
  <2>3. client.next = client.upto
    BY <1>0, <2>1 DEF Client
  <2>4. Client'
    BY <1>0, <2>1, <2>2, <2>3 DEF Client, NoLinkMeansLast
  <2> QED
    BY <1>2, <2>1, <2>4 DEF Paging
<1>6. CASE Restart
  <2>1. client' = Idle /\ UNCHANGED <<table, moved>>
    BY <1>6 DEF Restart
  <2>2. Table'
    BY <1>2, <2>1
  <2>3. InOrder(2 .. 0) = <<>>
    BY <1>0, PagesSeq
  <2>4. /\ client'.pc = "idle" /\ client'.limit = 0 /\ client'.upto = 0 /\ client'.got = <<>>
        /\ client' \in ClientType
    BY <1>0, <2>1 DEF Idle, ClientType
  <2>5. Client'
    BY <1>0, <2>1, <2>3, <2>4 DEF Client, NoLinkMeansLast
  <2> QED
    BY <2>2, <2>5 DEF Paging
<1> QED
  BY <1>1, <1>3, <1>4, <1>5, <1>6 DEF Request

LEMMA StepPaging == Paging /\ [Next]_vars => Paging'
<1> SUFFICES ASSUME Paging, UNCHANGED vars PROVE Paging'
  BY GroupPaging, RequestPaging DEF Next
<1> QED
  BY DEF vars, Paging, Table, Client, NoLinkMeansLast

LEMMA PagingOrder == Paging => PagesInOrder
<1> SUFFICES ASSUME Paging PROVE PagesInOrder
  OBVIOUS
<1>1. Table /\ client.got = InOrder(2 .. client.upto) /\ client.upto \in 0 .. Len(table)
  BY DEF Paging, Client, Table, ClientType
<1>2. {i \in 1 .. client.upto : table[i] = "page"} = 2 .. client.upto
  BY <1>1, PagesUpto
<1> QED
  BY <1>1, <1>2 DEF PagesInOrder

LEMMA PagingTypes == Paging => TypeOK /\ NoLinkMeansLast
  BY DEF Paging, Table, Client, ClientType, TypeOK

-----------------------------------------------------------------------------

\* Whatever clients ask for, a page is no larger than the largest limit and a cursor
\* names a row.
THEOREM PagingTypeCorrect == Spec => []TypeOK
  BY InitPaging, StepPaging, PagingTypes, PTL DEF Spec

\* Following the links gives the pages in order, none twice and none missing, whatever
\* is inserted or taken away in between.
THEOREM PagingInOrder == Spec => []PagesInOrder
  BY InitPaging, StepPaging, PagingOrder, PTL DEF Spec

\* Where there is no link although rows are left, the page had a row without data.
THEOREM PagingComplete == Spec => []NoLinkMeansLast
  BY InitPaging, StepPaging, PagingTypes, PTL DEF Spec

-----------------------------------------------------------------------------
(***************************************************************************)
(* The gate: how CPU and memory share a word and what is refused           *)
(***************************************************************************)

LEMMA HalfType == Gate!Half \in Nat /\ Gate!Half > 1
  BY SMT DEF Gate!Half

LEMMA DivisionBy1000 ==
  ASSUME NEW m \in Nat
  PROVE  m \div 1000 \in Nat /\ (m \div 1000) * 1000 <= m /\ m < (m \div 1000) * 1000 + 1000
  OBVIOUS

LEMMA ClampedRange ==
  ASSUME NEW m \in Int
  PROVE  Gate!Clamped(m) \in 0 .. Gate!Half - 1
<1>1. CASE m < 0
  BY <1>1, HalfType DEF Gate!Clamped
<1>2. CASE m >= 0
  <2>1. m \div 1000 \in Nat
    BY <1>2, DivisionBy1000
  <2> QED
    BY <1>2, <2>1, HalfType DEF Gate!Clamped
<1> QED
  BY <1>1, <1>2

\* What a shift and an or put together, a shift and a mask take apart.
LEMMA Unpacked ==
  ASSUME NEW c \in 0 .. Gate!Half - 1, NEW r \in 0 .. Gate!Half - 1
  PROVE  /\ (c * Gate!Half + r) \div Gate!Half = c
         /\ (c * Gate!Half + r) % Gate!Half = r
         /\ c * Gate!Half + r \in 0 .. Gate!Half * Gate!Half - 1
  BY HalfType, SMT

LEMMA InitPacked == Gate!Init => Gate!Packed
  BY HalfType DEF Gate!Init, Gate!Packed, Gate!Pack, Gate!Clamped

LEMMA StepPacked == Gate!Packed /\ [Gate!Next]_(Gate!vars) => Gate!Packed'
<1> SUFFICES ASSUME Gate!Packed, [Gate!Next]_(Gate!vars) PROVE Gate!Packed'
  OBVIOUS
<1>1. CASE Gate!Next
  <2>1. PICK c \in Int, r \in Int : Gate!Measure(c, r)
    BY <1>1 DEF Gate!Next
  <2>2. Gate!Pack(c, r) \in 0 .. Gate!Half * Gate!Half - 1
    BY ClampedRange, Unpacked DEF Gate!Pack
  <2> QED
    BY <2>1, <2>2 DEF Gate!Measure, Gate!Packed
<1>2. CASE UNCHANGED Gate!vars
  BY <1>2 DEF Gate!vars, Gate!Packed
<1> QED
  BY <1>1, <1>2

LEMMA PackedApart == Gate!Packed => Gate!HalvesApart
  BY ClampedRange, Unpacked DEF Gate!Packed, Gate!Pack, Gate!HalvesApart, Gate!LoadedCpu, Gate!LoadedRam

\* Whatever was measured, also negative or beyond 32 bits, neither half
\* disturbs the other.
THEOREM HalvesKeptApart == Gate!Spec => [](Gate!HalvesApart)
  BY InitPacked, StepPacked, PackedApart, PTL DEF Gate!Spec

LEMMA ClampedBelow ==
  ASSUME NEW m \in Int, NEW limit \in Nat, Gate!Clamped(m) * 1000 > limit
  PROVE  m > limit
<1>1. m >= 0
  BY DEF Gate!Clamped
<1>2. (m \div 1000) * 1000 <= m /\ m \div 1000 \in Nat
  BY <1>1, DivisionBy1000
<1> QED
  BY <1>1, <1>2, HalfType DEF Gate!Clamped

LEMMA ClampedAbove ==
  ASSUME NEW m \in Int, NEW limit \in 0 .. (Gate!Half - 2) * 1000, ~ (Gate!Clamped(m) * 1000 > limit)
  PROVE  m < limit + 1000
<1>1. CASE m < 0
  BY <1>1, HalfType
<1>2. CASE m >= 0
  <2>1. m < (m \div 1000) * 1000 + 1000 /\ m \div 1000 \in Nat
    BY <1>2, DivisionBy1000
  <2> QED
    BY <1>2, <2>1, HalfType DEF Gate!Clamped
<1> QED
  BY <1>1, <1>2

\* A request is never refused for less than its limit, and never admitted
\* at a thousandth or more above it.
THEOREM GateFollowsMeasure == Gate!Spec => [](Gate!RefusesForAReason /\ Gate!AdmitsOnlyBelow)
<1>1. Gate!Packed => Gate!RefusesForAReason
  BY PackedApart, ClampedBelow
     DEF Gate!Packed, Gate!HalvesApart, Gate!RefusesForAReason, Gate!Verdict, Gate!CpuOver, Gate!RamOver
<1>2. Gate!Packed => Gate!AdmitsOnlyBelow
  BY PackedApart, ClampedAbove
     DEF Gate!Packed, Gate!HalvesApart, Gate!AdmitsOnlyBelow, Gate!Verdict, Gate!CpuOver, Gate!RamOver
<1> QED
  BY <1>1, <1>2, InitPacked, StepPacked, PTL DEF Gate!Spec
=============================================================================
