-------------------------- MODULE SiteCrawlProofs ---------------------------
(***************************************************************************)
(* Proofs about SiteCrawl, for any site, filters, limits and sitemap.      *)
(*                                                                         *)
(* The invariant never speaks of distances: it says how the depths of the  *)
(* addresses met so far relate along the links of the scraped pages        *)
(* (Followed from above, Caused from below) and that the queue is sorted.  *)
(* That depths are distances follows from it by induction on Within.       *)
(***************************************************************************)
EXTENDS SiteCrawl, FiniteSetTheorems, SequenceTheorems, TLAPS

EntryType == [page : Pages, depth : Nat]

Listed == ToSet(sitemap)

\* The addresses met so far that still wait or were scraped, with their depths.
Met == ToSet(results) \cup ToSet(queue)

Site ==
    /\ links \in [Pages -> SUBSET Pages]
    /\ \A p \in Pages : IsFiniteSet(links[p])
    /\ allowed \in SUBSET Pages
    /\ maxDepth \in 0 .. DepthBound
    /\ limit \in Nat
    /\ sitemap \in Seq(Pages)

Types ==
    /\ visited \in SUBSET Pages
    /\ queue \in Seq(EntryType)
    /\ results \in Seq(EntryType)
    /\ failed \in SUBSET Pages
    /\ pc \in {"seed", "crawl", "full", "done"}

\* Nothing is there before the seeds, and nothing waits in the end.
Phases ==
    /\ pc = "seed" => visited = {} /\ queue = <<>> /\ results = <<>> /\ failed = {}
    /\ pc = "done" => queue = <<>>

\* The root and the sitemap's addresses have been met, at their depths.
Seeded ==
    /\ pc # "seed" => Root \in visited /\ Listed \subseteq visited
    /\ \A e \in Met :
          /\ e.page \in Listed => e.depth <= 1
          /\ e.page = Root /\ Root \notin Listed => e.depth = 0

\* The links of a page scraped above max_depth have been met, one level deeper at most.
Followed ==
    \A r \in ToSet(results) : r.depth < maxDepth =>
        /\ links[r.page] \subseteq visited
        /\ \A e \in Met : e.page \in links[r.page] => e.depth <= r.depth + 1

\* The scrape of r followed a link to p.
LinkedBy(r, p) == r \in ToSet(results) /\ r.depth < maxDepth /\ p \in links[r.page]

\* Every address was met for a reason: as the root, from the sitemap, or by a link of a
\* page one level above.
Caused ==
    /\ \A e \in Met :
          \/ e = Entry(Root, 0)
          \/ e.page \in Listed /\ e.depth = 1
          \/ \E r \in ToSet(results) : LinkedBy(r, e.page) /\ e.depth = r.depth + 1
    /\ \A p \in failed :
          p = Root \/ p \in Listed \/ \E r \in ToSet(results) : LinkedBy(r, p)

\* What was met is waiting, scraped, failed or filtered out, until the limit cuts it off.
Kept ==
    /\ pc # "full" => visited \cap allowed \subseteq PagesOf(queue) \cup PagesOf(results) \cup failed
    /\ PagesOf(results) \cup failed \subseteq allowed

\* The queue is sorted by depth, spans two levels and lies below what was scraped.
Levels ==
    /\ \A i, k \in DOMAIN queue : i < k => queue[i].depth <= queue[k].depth
    /\ \A e, f \in ToSet(queue) : e.depth <= f.depth + 1
    /\ \A r \in ToSet(results), e \in ToSet(queue) : r.depth <= e.depth

\* No address is in two places.
Once ==
    /\ \A i, k \in DOMAIN queue : queue[i].page = queue[k].page => i = k
    /\ \A i, k \in DOMAIN results : results[i].page = results[k].page => i = k
    /\ PagesOf(queue) \cap (PagesOf(results) \cup failed) = {}
    /\ PagesOf(results) \cap failed = {}
    /\ PagesOf(queue) \cup PagesOf(results) \cup failed \subseteq visited

Safe ==
    /\ Site /\ Types /\ Phases /\ Seeded /\ Followed /\ Caused /\ Kept /\ Levels /\ Once
    /\ Len(results) <= limit

-----------------------------------------------------------------------------
(***************************************************************************)
(* Numbers: the least of a set of them, and its numbers in order           *)
(***************************************************************************)

LEMMA Least ==
    ASSUME NEW T, T \subseteq Nat, T # {}
    PROVE  \E x \in T : \A y \in T : x <= y
<1>1. PICK x \in T : \A y \in T : ~ (<<y, x>> \in OpToRel(<, Nat))
  BY WFMin, NatLessThanWellFounded
<1>2. ASSUME NEW y \in T PROVE x <= y
  <2>1. x \in Nat /\ y \in Nat
    OBVIOUS
  <2>2. ~ (y < x)
    BY <1>1, <2>1 DEF OpToRel
  <2> QED
    BY <2>1, <2>2
<1> QED
  BY <1>2

LEMMA RankType ==
    ASSUME NEW S, S \subseteq Nat, IsFiniteSet(S), NEW i \in S
    PROVE  Rank(S, i) \in 1 .. Cardinality(S)
<1> DEFINE T == {j \in S : j <= i}
<1>1. T \in SUBSET S /\ i \in T
  OBVIOUS
<1>2. IsFiniteSet(T) /\ Cardinality(T) <= Cardinality(S)
  BY <1>1, FS_Subset
<1>3. Cardinality(T) \in Nat /\ Cardinality(S) \in Nat /\ Cardinality(T) # 0
  BY <1>1, <1>2, FS_CardinalityType, FS_EmptySet
<1> QED
  BY <1>2, <1>3 DEF Rank

LEMMA RankGrows ==
    ASSUME NEW S, S \subseteq Nat, IsFiniteSet(S), NEW i \in S, NEW j \in S, i < j
    PROVE  Rank(S, i) < Rank(S, j)
<1> DEFINE T == {l \in S : l <= i}
           U == {l \in S : l <= j}
<1>0. i \in Nat /\ j \in Nat /\ \A l \in S : l \in Nat
  OBVIOUS
<1>1. U \in SUBSET S /\ j \in U
  BY <1>0
<1>2. j \notin T
  BY <1>0
<1>3. T \in SUBSET U
  <2> SUFFICES ASSUME NEW l \in S, l <= i PROVE l <= j
    OBVIOUS
  <2> QED
    BY <1>0
<1>4. IsFiniteSet(U)
  BY <1>1, FS_Subset
<1>5. Cardinality(T) <= Cardinality(U) /\ Cardinality(T) # Cardinality(U)
  BY <1>1, <1>2, <1>3, <1>4, FS_Subset
<1>6. Cardinality(S) \in Nat /\ Rank(S, i) \in 1 .. Cardinality(S) /\ Rank(S, j) \in 1 .. Cardinality(S)
  BY RankType, FS_CardinalityType
<1> QED
  BY <1>5, <1>6 DEF Rank

\* Each number has its place, and there is one for each place.
LEMMA NthRank ==
    ASSUME NEW S, S \subseteq Nat, IsFiniteSet(S)
    PROVE  /\ Cardinality(S) \in Nat
           /\ \A k \in 1 .. Cardinality(S) : Nth(S, k) \in S /\ Rank(S, Nth(S, k)) = k
           /\ \A i \in S : Rank(S, i) \in 1 .. Cardinality(S) /\ Nth(S, Rank(S, i)) = i
<1> DEFINE n == Cardinality(S)
           r == [i \in S |-> Rank(S, i)]
<1>1. n \in Nat
  BY FS_CardinalityType
<1>2. r \in [S -> 1 .. n]
  BY RankType
<1>3. \A i, j \in S : Rank(S, i) = Rank(S, j) => i = j
  <2> SUFFICES ASSUME NEW i \in S, NEW j \in S, i # j PROVE Rank(S, i) # Rank(S, j)
    OBVIOUS
  <2>1. i \in Nat /\ j \in Nat /\ (i < j \/ j < i)
    OBVIOUS
  <2>2. Rank(S, i) \in 1 .. n /\ Rank(S, j) \in 1 .. n
    BY RankType
  <2>3. Rank(S, i) < Rank(S, j) \/ Rank(S, j) < Rank(S, i)
    BY <2>1, RankGrows
  <2> QED
    BY <1>1, <2>2, <2>3
<1>4. r \in Injection(S, 1 .. n)
  BY <1>2, <1>3 DEF Injection, IsInjective
<1>5. IsFiniteSet(1 .. n) /\ Cardinality(1 .. n) = n
  BY <1>1, FS_Interval
<1>6. r \in Surjection(S, 1 .. n)
  BY <1>4, <1>5, FS_Injection
<1>7. \A k \in 1 .. n : \E i \in S : Rank(S, i) = k
  BY <1>6 DEF Surjection
<1>8. \A k \in 1 .. n : Nth(S, k) \in S /\ Rank(S, Nth(S, k)) = k
  BY <1>7 DEF Nth
<1>9. \A i \in S : Rank(S, i) \in 1 .. n
  BY RankType
<1>10. \A i \in S : Nth(S, Rank(S, i)) = i
  BY <1>3, <1>8, <1>9
<1> QED
  BY <1>1, <1>8, <1>9, <1>10

-----------------------------------------------------------------------------
(***************************************************************************)
(* What the queue's operations do                                          *)
(***************************************************************************)

\* The addresses not seen before, all of them, each once.
LEMMA UnseenFacts ==
    ASSUME NEW seen, NEW addresses \in Seq(Pages)
    PROVE  /\ Unseen(seen, addresses) \in Seq(Pages)
           /\ ToSet(Unseen(seen, addresses)) = ToSet(addresses) \ seen
           /\ \A i, k \in DOMAIN Unseen(seen, addresses) :
                 Unseen(seen, addresses)[i] = Unseen(seen, addresses)[k] => i = k
<1> DEFINE new == {i \in DOMAIN addresses :
                      /\ addresses[i] \notin seen
                      /\ \A k \in 1 .. i - 1 : addresses[k] # addresses[i]}
           n == Cardinality(new)
           u == Unseen(seen, addresses)
<1>1. Len(addresses) \in Nat /\ DOMAIN addresses = 1 .. Len(addresses)
      /\ \A i \in DOMAIN addresses : addresses[i] \in Pages
  OBVIOUS
<1>2. new \in SUBSET (1 .. Len(addresses)) /\ new \subseteq Nat
  BY <1>1
<1>3. IsFiniteSet(new)
  <2>1. IsFiniteSet(1 .. Len(addresses))
    BY <1>1, FS_Interval
  <2> QED
    BY <1>2, <2>1, FS_Subset
<1>4. /\ n \in Nat
      /\ \A k \in 1 .. n : Nth(new, k) \in new /\ Rank(new, Nth(new, k)) = k
      /\ \A i \in new : Rank(new, i) \in 1 .. n /\ Nth(new, Rank(new, i)) = i
  BY <1>2, <1>3, NthRank
<1>5. u = [k \in 1 .. n |-> addresses[Nth(new, k)]]
  BY DEF Unseen
<1>6. \A i \in new : i \in DOMAIN addresses /\ addresses[i] \notin seen
  OBVIOUS
<1>7. \A i, k \in new : addresses[i] = addresses[k] => i = k
  <2> SUFFICES ASSUME NEW i \in new, NEW k \in new, addresses[i] = addresses[k], i < k
               PROVE  FALSE
    BY <1>2
  <2>1. i \in 1 .. k - 1
    BY <1>2
  <2>2. \A l \in 1 .. k - 1 : addresses[l] # addresses[k]
    OBVIOUS
  <2> QED
    BY <2>1, <2>2
<1>8. ASSUME NEW p \in ToSet(addresses) \ seen
      PROVE  \E i \in new : addresses[i] = p
  <2> DEFINE At == {i \in DOMAIN addresses : addresses[i] = p}
  <2>1. At # {} /\ At \subseteq Nat
    BY <1>1 DEF ToSet
  <2>2. PICK i \in At : \A k \in At : i <= k
    BY <2>1, Least
  <2>3. i \in DOMAIN addresses /\ addresses[i] = p /\ addresses[i] \notin seen
    OBVIOUS
  <2>4. ASSUME NEW k \in 1 .. i - 1 PROVE addresses[k] # addresses[i]
    <3>1. k \in DOMAIN addresses /\ ~ (i <= k)
      BY <1>1, <2>3
    <3> QED
      BY <2>2, <2>3, <3>1
  <2>5. i \in new
    BY <2>3, <2>4
  <2> QED
    BY <2>3, <2>5
<1> HIDE DEF new, n
<1>9. \A k \in 1 .. n : u[k] = addresses[Nth(new, k)] /\ Nth(new, k) \in new
  BY <1>4, <1>5
<1>10. u \in Seq(Pages)
  BY <1>1, <1>4, <1>5, <1>6
<1>11. DOMAIN u = 1 .. n
  BY <1>5
<1>12. ToSet(u) \subseteq ToSet(addresses) \ seen
  BY <1>6, <1>9, <1>11 DEF ToSet
<1>13. ASSUME NEW p \in ToSet(addresses) \ seen PROVE p \in ToSet(u)
  <2>1. PICK i \in new : addresses[i] = p
    BY <1>8
  <2>2. Rank(new, i) \in 1 .. n /\ u[Rank(new, i)] = p
    BY <1>4, <1>9, <2>1
  <2> QED
    BY <1>11, <2>2 DEF ToSet
<1>14. ASSUME NEW i \in 1 .. n, NEW k \in 1 .. n, u[i] = u[k] PROVE i = k
  <2>1. Nth(new, i) = Nth(new, k)
    BY <1>7, <1>9, <1>14
  <2> QED
    BY <1>4, <2>1
<1> QED
  BY <1>10, <1>11, <1>12, <1>13, <1>14

LEMMA Listing ==
    ASSUME NEW T, IsFiniteSet(T), NEW s \in SetToSeqs(T)
    PROVE  s \in Seq(T) /\ ToSet(s) = T
<1>1. Cardinality(T) \in Nat
  BY FS_CardinalityType
<1>2. s \in [1 .. Cardinality(T) -> T] /\ \A i, j \in 1 .. Cardinality(T) : i # j => s[i] # s[j]
  BY DEF SetToSeqs
<1>3. s \in Injection(1 .. Cardinality(T), T)
  BY <1>2 DEF Injection, IsInjective
<1>4. Cardinality(1 .. Cardinality(T)) = Cardinality(T)
  BY <1>1, FS_Interval
<1>5. s \in Surjection(1 .. Cardinality(T), T)
  BY <1>3, <1>4, FS_Injection
<1>6. DOMAIN s = 1 .. Cardinality(T) /\ \A p \in T : \E i \in 1 .. Cardinality(T) : s[i] = p
  BY <1>5 DEF Surjection
<1>7. ToSet(s) = T
  BY <1>2, <1>6 DEF ToSet
<1> QED
  BY <1>1, <1>2, <1>7

\* What is pushed stands behind what was there, once each, at its depth.
LEMMA PushFacts ==
    ASSUME NEW q \in Seq(EntryType), NEW seen, NEW addresses \in Seq(Pages), NEW depth \in Nat
    PROVE  LET u == PushNew(q, seen, addresses, depth)
           IN  /\ u \in Seq(EntryType) /\ Len(q) \in Nat /\ Len(u) \in Nat /\ Len(q) <= Len(u)
               /\ \A i \in 1 .. Len(q) : u[i] = q[i]
               /\ \A i \in Len(q) + 1 .. Len(u) :
                     u[i].depth = depth /\ u[i].page \in ToSet(addresses) \ seen
               /\ \A p \in ToSet(addresses) \ seen :
                     \E i \in Len(q) + 1 .. Len(u) : u[i] = Entry(p, depth)
               /\ \A i, k \in Len(q) + 1 .. Len(u) : u[i].page = u[k].page => i = k
<1> DEFINE new == Unseen(seen, addresses)
           es == Entries(new, depth)
           u == q \o es
<1>1. /\ new \in Seq(Pages) /\ ToSet(new) = ToSet(addresses) \ seen
      /\ \A i, k \in DOMAIN new : new[i] = new[k] => i = k
  BY UnseenFacts
<1> HIDE DEF new
<1>2. Len(new) \in Nat /\ DOMAIN new = 1 .. Len(new) /\ \A i \in 1 .. Len(new) : new[i] \in Pages
  BY <1>1
<1>3. es = [i \in 1 .. Len(new) |-> Entry(new[i], depth)]
  BY <1>2 DEF Entries
<1>4. \A i \in 1 .. Len(new) : Entry(new[i], depth) \in EntryType
  BY <1>2 DEF Entry, EntryType
<1>5. es \in Seq(EntryType) /\ Len(es) = Len(new) /\ \A i \in 1 .. Len(new) : es[i] = Entry(new[i], depth)
  BY <1>2, <1>3, <1>4
<1> HIDE DEF es
<1>6. u = PushNew(q, seen, addresses, depth)
  BY DEF PushNew, new, es
<1>7. /\ u \in Seq(EntryType) /\ Len(u) = Len(q) + Len(es) /\ Len(q) \in Nat
      /\ \A i \in 1 .. Len(q) + Len(es) : u[i] = IF i <= Len(q) THEN q[i] ELSE es[i - Len(q)]
  <2>1. es \in Seq(EntryType)
    BY <1>5
  <2> QED
    BY <2>1, ConcatProperties
<1> HIDE DEF u
<1>8. \A i \in 1 .. Len(q) : u[i] = q[i]
  BY <1>2, <1>5, <1>7
<1>9. \A i \in Len(q) + 1 .. Len(u) : i - Len(q) \in 1 .. Len(new) /\ u[i] = Entry(new[i - Len(q)], depth)
  BY <1>2, <1>5, <1>7
<1>10. ASSUME NEW i \in Len(q) + 1 .. Len(u)
       PROVE  u[i].depth = depth /\ u[i].page = new[i - Len(q)]
  <2>1. u[i] = Entry(new[i - Len(q)], depth)
    BY <1>9
  <2> QED
    BY <2>1 DEF Entry
<1>11. \A i \in Len(q) + 1 .. Len(u) : u[i].page \in ToSet(addresses) \ seen
  BY <1>1, <1>2, <1>9, <1>10 DEF ToSet
<1>12. ASSUME NEW p \in ToSet(addresses) \ seen
       PROVE  \E i \in Len(q) + 1 .. Len(u) : u[i] = Entry(p, depth)
  <2>1. PICK k \in 1 .. Len(new) : new[k] = p
    BY <1>1, <1>2 DEF ToSet
  <2>2. Len(q) + k \in Len(q) + 1 .. Len(u) /\ (Len(q) + k) - Len(q) = k
    BY <1>2, <1>5, <1>7
  <2> QED
    BY <1>9, <2>1, <2>2
<1>13. ASSUME NEW i \in Len(q) + 1 .. Len(u), NEW k \in Len(q) + 1 .. Len(u), u[i].page = u[k].page
       PROVE  i = k
  <2>1. new[i - Len(q)] = new[k - Len(q)]
    BY <1>10, <1>13
  <2>2. i - Len(q) \in 1 .. Len(new) /\ k - Len(q) \in 1 .. Len(new)
    BY <1>9
  <2>3. i - Len(q) = k - Len(q)
    BY <1>1, <1>2, <2>1, <2>2
  <2>4. i \in Int /\ k \in Int
    OBVIOUS
  <2> QED
    BY <1>7, <2>3, <2>4
<1> QED
  BY <1>2, <1>5, <1>6, <1>7, <1>8, <1>10, <1>11, <1>12, <1>13

-----------------------------------------------------------------------------
(***************************************************************************)
(* Within is the function its definition describes                         *)
(***************************************************************************)

\* One level further than the pages of a set.
Further(near) == near \cup Listed \cup UNION {links[p] : p \in near \cap PagesOf(results)}

Level(g, n) == IF n = 0 THEN {Root} ELSE Further(g[n - 1])

\* g describes the first n levels.
UpTo(g, n) == g \in [0 .. n -> SUBSET Pages] /\ \A k \in 0 .. n : g[k] = Level(g, k)

LEMMA FurtherPages ==
    ASSUME Site, NEW near \in SUBSET Pages
    PROVE  Further(near) \in SUBSET Pages
  BY DEF Further, Site, Listed, ToSet

LEMMA Levels0 ==
    ASSUME Site
    PROVE  \A n \in Nat : \E g : UpTo(g, n)
<1> DEFINE Bad == {n \in Nat : ~ \E g : UpTo(g, n)}
<1> SUFFICES ASSUME Bad # {} PROVE FALSE
  OBVIOUS
<1>1. PICK n \in Bad : \A m \in Bad : n <= m
  BY Least
<1>2. n \in Nat /\ ~ \E g : UpTo(g, n)
  OBVIOUS
<1>3. CASE n = 0
  <2> DEFINE g == [k \in 0 .. 0 |-> {Root}]
  <2>1. g \in [0 .. 0 -> SUBSET Pages] /\ g[0] = {Root}
    BY RootAssumption
  <2>2. \A k \in 0 .. 0 : k = 0
    OBVIOUS
  <2>3. UpTo(g, 0)
    BY <2>1, <2>2 DEF UpTo, Level
  <2> QED
    BY <1>2, <1>3, <2>3
<1>4. CASE n # 0
  <2>1. n - 1 \in Nat /\ ~ (n <= n - 1)
    BY <1>2, <1>4
  <2>2. PICK h : UpTo(h, n - 1)
    BY <1>1, <2>1
  <2> DEFINE g == [k \in 0 .. n |-> IF k = n THEN Further(h[n - 1]) ELSE h[k]]
  <2>3. h \in [0 .. n - 1 -> SUBSET Pages] /\ \A k \in 0 .. n - 1 : h[k] = Level(h, k)
    BY <2>2 DEF UpTo
  <2>4. \A k \in 0 .. n : k # n => k \in 0 .. n - 1
    BY <1>2
  <2>5. n - 1 \in 0 .. n - 1
    BY <2>1
  <2>6. Further(h[n - 1]) \in SUBSET Pages
    BY <2>3, <2>5, FurtherPages
  <2>7. g \in [0 .. n -> SUBSET Pages]
    BY <2>3, <2>4, <2>6
  <2>8. ASSUME NEW k \in 0 .. n PROVE g[k] = Level(g, k)
    <3>1. CASE k = 0
      <4>1. k # n /\ k \in 0 .. n - 1
        BY <1>4, <2>4, <3>1
      <4>2. g[k] = h[k] /\ h[k] = Level(h, k)
        BY <2>3, <4>1
      <4> QED
        BY <3>1, <4>2 DEF Level
    <3>2. CASE k # 0
      <4>1. k - 1 \in 0 .. n /\ k - 1 # n /\ k - 1 \in 0 .. n - 1
        BY <1>2, <3>2
      <4>2. g[k - 1] = h[k - 1]
        BY <4>1
      <4>3. Level(g, k) = Further(h[k - 1])
        BY <3>2, <4>2 DEF Level
      <4>4. CASE k = n
        BY <4>3, <4>4
      <4>5. CASE k # n
        <5>1. k \in 0 .. n - 1 /\ g[k] = h[k]
          BY <2>4, <4>5
        <5>2. h[k] = Further(h[k - 1])
          BY <2>3, <3>2, <5>1 DEF Level
        <5> QED
          BY <4>3, <5>1, <5>2
      <4> QED
        BY <4>4, <4>5
    <3> QED
      BY <3>1, <3>2
  <2> HIDE DEF g
  <2>9. UpTo(g, n)
    BY <2>7, <2>8 DEF UpTo
  <2> QED
    BY <1>2, <2>9
<1> QED
  BY <1>3, <1>4

LEMMA WithinDef ==
    ASSUME Site
    PROVE  /\ Within[0] = {Root}
           /\ \A n \in 1 .. DepthBound + 1 : Within[n] = Further(Within[n - 1])
<1> DEFINE N == DepthBound + 1
<1>1. N \in Nat
  BY BoundsAssumption
<1>2. PICK g : UpTo(g, N)
  BY <1>1, Levels0
<1> DEFINE Describes(f) ==
             f = [n \in 0 .. DepthBound + 1 |->
                    IF n = 0
                    THEN {Root}
                    ELSE f[n - 1] \cup ToSet(sitemap)
                         \cup UNION {links[p] : p \in f[n - 1] \cap PagesOf(results)}]
<1>3. Describes(g)
  <2>1. g = [n \in 0 .. DepthBound + 1 |-> g[n]]
    BY <1>2 DEF UpTo
  <2>2. \A n \in 0 .. DepthBound + 1 : g[n] =
             IF n = 0
             THEN {Root}
             ELSE g[n - 1] \cup ToSet(sitemap)
                  \cup UNION {links[p] : p \in g[n - 1] \cap PagesOf(results)}
    BY <1>2 DEF UpTo, Level, Further, Listed
  <2> QED
    BY <2>1, <2>2
<1>4. Within = CHOOSE f : Describes(f)
  BY DEF Within
<1>5. Describes(Within)
  <2> HIDE DEF Describes
  <2> QED
    BY <1>3, <1>4
<1>6. \A n \in 0 .. DepthBound + 1 : Within[n] =
           IF n = 0
           THEN {Root}
           ELSE Within[n - 1] \cup ToSet(sitemap)
                \cup UNION {links[p] : p \in Within[n - 1] \cap PagesOf(results)}
  BY <1>5
<1>7. 0 \in 0 .. DepthBound + 1 /\ \A n \in 1 .. DepthBound + 1 : n \in 0 .. DepthBound + 1 /\ n # 0
  BY <1>1
<1> QED
  BY <1>6, <1>7 DEF Further, Listed

-----------------------------------------------------------------------------
(***************************************************************************)
(* The invariant: the start, and what popping the queue leaves of it       *)
(***************************************************************************)

LEMMA Members ==
    ASSUME NEW s \in Seq(EntryType)
    PROVE  /\ Len(s) \in Nat /\ DOMAIN s = 1 .. Len(s)
           /\ \A i \in 1 .. Len(s) : s[i] \in ToSet(s)
           /\ \A e \in ToSet(s) : \E i \in 1 .. Len(s) : s[i] = e
           /\ \A e \in ToSet(s) : e \in EntryType /\ e.page \in Pages /\ e.depth \in Nat
           /\ \A e \in ToSet(s) : e.page \in PagesOf(s)
           /\ \A p \in PagesOf(s) : p \in Pages /\ \E e \in ToSet(s) : e.page = p
<1>1. Len(s) \in Nat /\ DOMAIN s = 1 .. Len(s) /\ \A i \in 1 .. Len(s) : s[i] \in EntryType
  OBVIOUS
<1>2. \A e \in EntryType : e.page \in Pages /\ e.depth \in Nat
  BY DEF EntryType
<1> QED
  BY <1>1, <1>2 DEF ToSet, PagesOf

LEMMA InitSafe == Init => Safe
<1> SUFFICES ASSUME Init PROVE Safe
  OBVIOUS
<1> USE DEF Init
<1>1. Site
  <2>1. limit \in Nat
    BY BoundsAssumption
  <2>2. PICK m \in 0 .. SitemapBound : sitemap \in [1 .. m -> Pages]
    BY DEF SeqOf
  <2>3. m \in Nat
    BY BoundsAssumption
  <2>4. sitemap \in Seq(Pages)
    BY <2>2, <2>3
  <2> QED
    BY <2>1, <2>4 DEF Site
<1>2. ToSet(queue) = {} /\ ToSet(results) = {} /\ PagesOf(queue) = {} /\ PagesOf(results) = {}
  BY DEF ToSet, PagesOf
<1>3. Types /\ Phases
  BY DEF Types, Phases
<1>4. Seeded /\ Followed /\ Caused /\ Kept
  BY <1>2 DEF Seeded, Followed, Caused, Kept, Met
<1>5. Levels /\ Once
  BY <1>2 DEF Levels, Once
<1>6. Len(results) <= limit
  BY <1>1 DEF Site
<1> QED
  BY <1>1, <1>3, <1>4, <1>5, <1>6 DEF Safe

\* The address popped and those that stay.
LEMMA PopFacts ==
    ASSUME Types, Levels, Once, queue # <<>>
    PROVE  /\ Current \in EntryType /\ Current.page \in Pages /\ Current.depth \in Nat
           /\ Tail(queue) \in Seq(EntryType)
           /\ ToSet(queue) = {Current} \cup ToSet(Tail(queue))
           /\ PagesOf(queue) = {Current.page} \cup PagesOf(Tail(queue))
           /\ Current.page \notin PagesOf(Tail(queue))
           /\ \A i, k \in DOMAIN Tail(queue) :
                 /\ Tail(queue)[i].page = Tail(queue)[k].page => i = k
                 /\ i < k => Tail(queue)[i].depth <= Tail(queue)[k].depth
           /\ \A e \in ToSet(Tail(queue)) : Current.depth <= e.depth
<1> DEFINE t == Tail(queue)
<1>1. /\ t \in Seq(EntryType) /\ Len(t) = Len(queue) - 1 /\ Len(queue) \in Nat \ {0}
      /\ Head(queue) = queue[1] /\ Head(queue) \in EntryType
      /\ \A i \in 1 .. Len(t) : t[i] = queue[i + 1]
  BY HeadTailProperties, EmptySeq, LenProperties DEF Types
<1>2. DOMAIN t = 1 .. Len(t) /\ DOMAIN queue = 1 .. Len(queue)
  BY <1>1 DEF Types
<1> HIDE DEF t
<1>3. Current = queue[1] /\ Current \in EntryType
  BY <1>1 DEF Current
<1>4. \A i \in 1 .. Len(t) : i + 1 \in 1 .. Len(queue) /\ i + 1 # 1 /\ 1 < i + 1 /\ t[i] = queue[i + 1]
  BY <1>1
<1>5. 1 \in 1 .. Len(queue) /\ \A i \in 1 .. Len(queue) : i = 1 \/ i - 1 \in 1 .. Len(t)
  BY <1>1
<1>6. \A i \in 1 .. Len(queue) : queue[i] = Current \/ \E k \in 1 .. Len(t) : queue[i] = t[k]
  <2> SUFFICES ASSUME NEW i \in 1 .. Len(queue), i # 1 PROVE \E k \in 1 .. Len(t) : queue[i] = t[k]
    BY <1>3
  <2>1. i - 1 \in 1 .. Len(t) /\ (i - 1) + 1 = i
    BY <1>5
  <2> QED
    BY <1>4, <2>1
<1>7. queue \in Seq(EntryType) /\ t \in Seq(EntryType)
  BY <1>1 DEF Types
<1>8. ToSet(queue) = {Current} \cup ToSet(t)
  <2>1. ASSUME NEW e \in ToSet(queue) PROVE e = Current \/ e \in ToSet(t)
    <3>1. PICK i \in 1 .. Len(queue) : queue[i] = e
      BY <1>7, Members
    <3>2. \A k \in 1 .. Len(t) : t[k] \in ToSet(t)
      BY <1>7, Members
    <3> QED
      BY <1>6, <3>1, <3>2
  <2>2. Current \in ToSet(queue)
    BY <1>3, <1>5, <1>7, Members
  <2>3. ASSUME NEW e \in ToSet(t) PROVE e \in ToSet(queue)
    <3>1. PICK k \in 1 .. Len(t) : t[k] = e
      BY <1>7, Members
    <3>2. \A i \in 1 .. Len(queue) : queue[i] \in ToSet(queue)
      BY <1>7, Members
    <3> QED
      BY <1>4, <3>1, <3>2
  <2> QED
    BY <2>1, <2>2, <2>3
<1>9. PagesOf(queue) = {Current.page} \cup PagesOf(t)
  <2>1. \A p \in PagesOf(queue) : \E e \in ToSet(queue) : e.page = p
    BY <1>7, Members
  <2>2. \A e \in ToSet(t) : e.page \in PagesOf(t)
    BY <1>7, Members
  <2>3. \A p \in PagesOf(t) : \E e \in ToSet(t) : e.page = p
    BY <1>7, Members
  <2>4. \A e \in ToSet(queue) : e.page \in PagesOf(queue)
    BY <1>7, Members
  <2> QED
    BY <1>8, <2>1, <2>2, <2>3, <2>4
<1>10. \A i, k \in 1 .. Len(queue) :
          /\ queue[i].page = queue[k].page => i = k
          /\ i < k => queue[i].depth <= queue[k].depth
  BY <1>2 DEF Levels, Once
<1>11. Current.page \notin PagesOf(t)
  <2> SUFFICES ASSUME NEW k \in 1 .. Len(t), t[k].page = Current.page PROVE FALSE
    BY <1>2 DEF PagesOf
  <2>1. queue[k + 1].page = queue[1].page /\ k + 1 # 1 /\ k + 1 \in 1 .. Len(queue)
    BY <1>3, <1>4
  <2> QED
    BY <1>5, <1>10, <2>1
<1>12. \A e \in ToSet(t) : Current.depth <= e.depth
  BY <1>2, <1>3, <1>4, <1>5, <1>10 DEF ToSet
<1>13. ASSUME NEW i \in 1 .. Len(t), NEW k \in 1 .. Len(t)
       PROVE  /\ t[i].page = t[k].page => i = k
              /\ i < k => t[i].depth <= t[k].depth
  <2>1. /\ queue[i + 1].page = queue[k + 1].page => i + 1 = k + 1
        /\ i + 1 < k + 1 => queue[i + 1].depth <= queue[k + 1].depth
    BY <1>4, <1>10
  <2>2. i \in Int /\ k \in Int
    OBVIOUS
  <2> QED
    BY <1>4, <2>1, <2>2
<1>14. Current.page \in Pages /\ Current.depth \in Nat
  BY <1>3 DEF EntryType
<1> QED
  BY <1>1, <1>2, <1>3, <1>8, <1>9, <1>11, <1>12, <1>13, <1>14 DEF t

-----------------------------------------------------------------------------
(***************************************************************************)
(* The steps                                                               *)
(***************************************************************************)

\* An address leaves the queue without a result: the limit is reached, a filter leaves it
\* out, or its scrape failed.
LEMMA DroppedSafe ==
    ASSUME Safe, queue # <<>>, queue' = Tail(queue), UNCHANGED <<site, visited, results>>,
           pc' \in {"crawl", "full"}, pc = "crawl",
           \/ failed' = failed
           \/ Current.page \in allowed /\ failed' = failed \cup {Current.page},
           pc' = "full" \/ Current.page \notin allowed \/ Current.page \in failed'
    PROVE  Safe'
<1>0. Site /\ Types /\ Phases /\ Seeded /\ Followed /\ Caused /\ Kept /\ Levels /\ Once
      /\ Len(results) <= limit
  BY DEF Safe
<1> DEFINE c == Current
           t == Tail(queue)
<1>1. /\ c.page \in Pages
      /\ t \in Seq(EntryType)
      /\ ToSet(queue) = {c} \cup ToSet(t)
      /\ PagesOf(queue) = {c.page} \cup PagesOf(t)
      /\ c.page \notin PagesOf(t)
      /\ \A i, k \in DOMAIN t :
            /\ t[i].page = t[k].page => i = k
            /\ i < k => t[i].depth <= t[k].depth
  BY <1>0, PopFacts
<1> HIDE DEF c, t
<1>2. /\ queue' = t /\ visited' = visited /\ results' = results /\ links' = links
      /\ allowed' = allowed /\ sitemap' = sitemap /\ maxDepth' = maxDepth /\ limit' = limit
  BY DEF site, t
<1>3. /\ ToSet(queue)' = ToSet(t) /\ PagesOf(queue)' = PagesOf(t)
      /\ ToSet(results)' = ToSet(results) /\ PagesOf(results)' = PagesOf(results)
      /\ Listed' = Listed
  BY <1>2 DEF Listed
<1>4. Met' \subseteq Met /\ c \in Met
  BY <1>1, <1>3 DEF Met
<1>5. failed' = failed \/ (c.page \in allowed /\ failed' = failed \cup {c.page})
  BY DEF c
<1>6. Site'
  BY <1>0, <1>2 DEF Site
<1>7. Types'
  BY <1>0, <1>1, <1>2, <1>5 DEF Types
<1>8. Phases'
  BY DEF Phases
<1>9. Seeded'
  BY <1>0, <1>2, <1>3, <1>4 DEF Seeded
<1>10. Followed'
  BY <1>0, <1>2, <1>3, <1>4 DEF Followed
<1>11. Caused'
  <2>1. \A r, p : LinkedBy(r, p)' <=> LinkedBy(r, p)
    BY <1>2, <1>3 DEF LinkedBy
  <2>2. \/ c = Entry(Root, 0)
        \/ c.page \in Listed
        \/ \E r \in ToSet(results) : LinkedBy(r, c.page)
    BY <1>0, <1>4 DEF Caused
  <2>3. c.page = Root \/ c.page \in Listed \/ \E r \in ToSet(results) : LinkedBy(r, c.page)
    BY <2>2 DEF Entry
  <2> QED
    BY <1>0, <1>3, <1>4, <1>5, <2>1, <2>3 DEF Caused
<1>12. Kept'
  <2>1. pc' = "full" \/ c.page \notin allowed \/ c.page \in failed'
    BY DEF c
  <2> QED
    BY <1>0, <1>1, <1>2, <1>3, <1>5, <2>1 DEF Kept
<1>13. Levels'
  BY <1>0, <1>1, <1>2, <1>3 DEF Levels
<1>14. Once'
  BY <1>0, <1>1, <1>2, <1>3, <1>5 DEF Once
<1> QED
  BY <1>0, <1>2, <1>6, <1>7, <1>8, <1>9, <1>10, <1>11, <1>12, <1>13, <1>14 DEF Safe

\* The first queue: the root at depth 0 and the sitemap's addresses at depth 1, unless
\* the root is among these.
LEMMA SeedQueue ==
    ASSUME Site, Seed
    PROVE  /\ queue' \in Seq(EntryType)
           /\ \A e \in ToSet(queue') :
                 \/ e.page \in Listed /\ e.depth = 1
                 \/ e = Entry(Root, 0) /\ Root \notin Listed
           /\ Listed \cup {Root} = PagesOf(queue')
           /\ \A i, k \in DOMAIN queue' :
                 /\ queue'[i].page = queue'[k].page => i = k
                 /\ i < k => queue'[i].depth <= queue'[k].depth
<1> DEFINE q == PushNew(<<>>, {}, sitemap, 1)
           r == <<Entry(Root, 0)>>
<1>1. /\ q \in Seq(EntryType) /\ Len(q) \in Nat
      /\ \A i \in 1 .. Len(q) : q[i].depth = 1 /\ q[i].page \in Listed
      /\ \A p \in Listed : \E i \in 1 .. Len(q) : q[i] = Entry(p, 1)
      /\ \A i, k \in 1 .. Len(q) : q[i].page = q[k].page => i = k
  <2> DEFINE none == <<>>
             unseen == {}
  <2>1. sitemap \in Seq(Pages) /\ none \in Seq(EntryType) /\ 1 \in Nat
    BY DEF Site
  <2>2. Len(none) = 0 /\ Len(none) + 1 = 1 /\ Listed = ToSet(sitemap) \ unseen
    BY DEF Listed
  <2>3. q = PushNew(none, unseen, sitemap, 1)
    OBVIOUS
  <2> HIDE DEF q, none, unseen
  <2>4. /\ q \in Seq(EntryType) /\ Len(q) \in Nat
        /\ \A i \in Len(none) + 1 .. Len(q) :
              q[i].depth = 1 /\ q[i].page \in ToSet(sitemap) \ unseen
        /\ \A p \in ToSet(sitemap) \ unseen :
              \E i \in Len(none) + 1 .. Len(q) : q[i] = Entry(p, 1)
        /\ \A i, k \in Len(none) + 1 .. Len(q) : q[i].page = q[k].page => i = k
    <3>1. LET u == PushNew(none, unseen, sitemap, 1)
          IN  /\ u \in Seq(EntryType) /\ Len(none) \in Nat /\ Len(u) \in Nat /\ Len(none) <= Len(u)
              /\ \A i \in 1 .. Len(none) : u[i] = none[i]
              /\ \A i \in Len(none) + 1 .. Len(u) :
                     u[i].depth = 1 /\ u[i].page \in ToSet(sitemap) \ unseen
              /\ \A p \in ToSet(sitemap) \ unseen :
                     \E i \in Len(none) + 1 .. Len(u) : u[i] = Entry(p, 1)
              /\ \A i, k \in Len(none) + 1 .. Len(u) : u[i].page = u[k].page => i = k
      BY <2>1, PushFacts, Zenon
    <3> QED
      BY <2>3, <3>1
  <2> QED
    BY <2>2, <2>4
<1>2. queue' = IF Root \in Listed THEN q ELSE r \o q
  BY DEF Seed, Listed
<1> HIDE DEF q
<1>3. \A p : Entry(p, 1).page = p /\ Entry(p, 0).page = p /\ Entry(p, 0).depth = 0
  BY DEF Entry
<1>4. CASE Root \in Listed
  <2>1. queue' = q
    BY <1>2, <1>4
  <2>2. \A e \in ToSet(q) : e.page \in Listed /\ e.depth = 1
    BY <1>1 DEF ToSet
  <2>3. PagesOf(q) = Listed
    BY <1>1, <1>3 DEF PagesOf
  <2>4. \A i, k \in DOMAIN q : q[i].depth <= q[k].depth
    BY <1>1
  <2>5. \A i, k \in DOMAIN q : q[i].page = q[k].page => i = k
    BY <1>1
  <2> QED
    BY <1>1, <1>4, <2>1, <2>2, <2>3, <2>4, <2>5
<1>5. CASE Root \notin Listed
  <2> DEFINE u == r \o q
  <2>1. Entry(Root, 0) \in EntryType
    BY RootAssumption DEF Entry, EntryType
  <2>2. r \in Seq(EntryType) /\ Len(r) = 1 /\ r[1] = Entry(Root, 0)
    BY <2>1
  <2> HIDE DEF r
  <2>3. /\ u \in Seq(EntryType) /\ Len(u) = 1 + Len(q)
        /\ \A i \in 1 .. 1 + Len(q) : u[i] = IF i <= 1 THEN r[i] ELSE q[i - 1]
    <3>1. /\ u \in Seq(EntryType) /\ Len(u) = Len(r) + Len(q)
          /\ \A i \in 1 .. Len(r) + Len(q) : u[i] = IF i <= Len(r) THEN r[i] ELSE q[i - Len(r)]
      <4>1. r \in Seq(EntryType) /\ q \in Seq(EntryType)
        BY <1>1, <2>2
      <4> QED
        BY <4>1, ConcatProperties
    <3> QED
      BY <2>2, <3>1
  <2>4. queue' = u
    BY <1>2, <1>5
  <2> HIDE DEF u
  <2>5. DOMAIN u = 1 .. Len(u) /\ u[1] = Entry(Root, 0) /\ 1 \in 1 .. Len(u)
    BY <1>1, <2>2, <2>3
  <2>6. \A i \in 1 .. Len(u) : i = 1 \/ (i - 1 \in 1 .. Len(q) /\ u[i] = q[i - 1])
    BY <1>1, <2>3
  <2>7. \A i \in 1 .. Len(q) : i + 1 \in 1 .. Len(u) /\ u[i + 1] = q[i]
    BY <1>1, <2>3
  <2>8. \A i \in 1 .. Len(u) : \/ i = 1
                               \/ u[i].page \in Listed /\ u[i].depth = 1
    BY <1>1, <2>6
  <2>9. \A e \in ToSet(u) : (e.page \in Listed /\ e.depth = 1) \/ e = Entry(Root, 0)
    BY <2>5, <2>8 DEF ToSet
  <2>10. PagesOf(u) \subseteq Listed \cup {Root}
    BY <1>3, <2>5, <2>8 DEF PagesOf
  <2>11. ASSUME NEW p \in Listed \cup {Root} PROVE p \in PagesOf(u)
    <3>1. CASE p = Root
      BY <1>3, <2>5, <3>1 DEF PagesOf
    <3>2. CASE p \in Listed
      <4>1. PICK i \in 1 .. Len(q) : q[i] = Entry(p, 1)
        BY <1>1, <3>2
      <4> QED
        BY <1>3, <2>5, <2>7, <4>1 DEF PagesOf
    <3> QED
      BY <3>1, <3>2
  <2>12. ASSUME NEW i \in 1 .. Len(u), NEW k \in 1 .. Len(u)
         PROVE  /\ u[i].page = u[k].page => i = k
                /\ i < k => u[i].depth <= u[k].depth
    <3>1. i \in Nat /\ k \in Nat
      OBVIOUS
    <3>2. CASE i = 1 /\ k = 1
      BY <3>2
    <3>3. CASE i = 1 /\ k # 1
      BY <1>3, <1>5, <2>5, <2>8, <3>3
    <3>4. CASE i # 1 /\ k = 1
      BY <1>3, <1>5, <2>5, <2>8, <3>1, <3>4
    <3>5. CASE i # 1 /\ k # 1
      <4>1. i - 1 \in 1 .. Len(q) /\ u[i] = q[i - 1] /\ k - 1 \in 1 .. Len(q) /\ u[k] = q[k - 1]
        BY <2>6, <3>5
      <4>2. u[i].page = u[k].page => i - 1 = k - 1
        BY <1>1, <4>1
      <4>3. u[i].depth = 1 /\ u[k].depth = 1
        BY <1>1, <4>1
      <4> QED
        BY <3>1, <4>2, <4>3
    <3> QED
      BY <3>2, <3>3, <3>4, <3>5
  <2> QED
    BY <1>5, <2>3, <2>4, <2>5, <2>9, <2>10, <2>11, <2>12
<1> QED
  BY <1>4, <1>5

LEMMA SeedSafe == Safe /\ Seed => Safe'
<1> SUFFICES ASSUME Safe, Seed PROVE Safe'
  OBVIOUS
<1>0. Site /\ Types /\ Phases
  BY DEF Safe
<1>1. /\ queue' \in Seq(EntryType)
      /\ \A e \in ToSet(queue') :
            \/ e.page \in Listed /\ e.depth = 1
            \/ e = Entry(Root, 0) /\ Root \notin Listed
      /\ PagesOf(queue') = Listed \cup {Root}
      /\ \A i, k \in DOMAIN queue' :
            /\ queue'[i].page = queue'[k].page => i = k
            /\ i < k => queue'[i].depth <= queue'[k].depth
  BY <1>0, SeedQueue
<1>2. /\ visited' = Listed \cup {Root} /\ results = <<>> /\ results' = <<>>
      /\ failed = {} /\ failed' = {} /\ pc' = "crawl"
      /\ links' = links /\ allowed' = allowed /\ sitemap' = sitemap
      /\ maxDepth' = maxDepth /\ limit' = limit /\ Listed' = Listed
  BY <1>0 DEF Seed, site, Phases, Listed
<1>3. ToSet(results)' = {} /\ PagesOf(results)' = {} /\ Met' = ToSet(queue')
  BY <1>2 DEF Met, ToSet, PagesOf
<1>4. \A e \in ToSet(queue') :
         \/ e.page \in Listed /\ e.depth = 1
         \/ e.page = Root /\ e.depth = 0 /\ e = Entry(Root, 0) /\ Root \notin Listed
  BY <1>1 DEF Entry
<1>5. Site'
  BY <1>0, <1>2 DEF Site
<1>6. Types'
  <2>1. Listed \subseteq Pages
    BY <1>0 DEF Site, Listed, ToSet
  <2> QED
    BY <1>1, <1>2, <2>1, RootAssumption DEF Types
<1>7. Phases'
  BY <1>2 DEF Phases
<1>8. Seeded'
  BY <1>2, <1>3, <1>4 DEF Seeded
<1>9. Followed' /\ Caused'
  BY <1>2, <1>3, <1>4 DEF Followed, Caused
<1>10. Kept'
  BY <1>1, <1>2, <1>3 DEF Kept
<1>11. Levels'
  BY <1>1, <1>3, <1>4 DEF Levels
<1>12. Once'
  BY <1>1, <1>2, <1>3 DEF Once
<1>13. Len(results') <= limit'
  BY <1>0, <1>2 DEF Site
<1> QED
  BY <1>5, <1>6, <1>7, <1>8, <1>9, <1>10, <1>11, <1>12, <1>13 DEF Safe

\* The queue after a scrape: what was there without its head and, above max_depth, the
\* links not seen before, one level deeper.
LEMMA ScrapeQueue ==
    ASSUME Safe, Scrape
    PROVE  /\ queue' \in Seq(EntryType)
           /\ visited' = visited \cup IF FollowsLinks THEN links[Current.page] ELSE {}
           /\ \A e \in ToSet(queue') :
                 \/ e \in ToSet(Tail(queue))
                 \/ /\ FollowsLinks /\ e.depth = Current.depth + 1
                    /\ e.page \in links[Current.page] \ visited
           /\ PagesOf(queue') = PagesOf(Tail(queue)) \cup (visited' \ visited)
           /\ \A i, k \in DOMAIN queue' :
                 /\ queue'[i].page = queue'[k].page => i = k
                 /\ i < k => queue'[i].depth <= queue'[k].depth
<1> DEFINE c == Current
           t == Tail(queue)
           d == Current.depth + 1
<1>0. Site /\ Types /\ Levels /\ Once /\ queue # <<>>
  BY DEF Safe, Scrape
<1>1. /\ c.page \in Pages /\ c.depth \in Nat
      /\ t \in Seq(EntryType)
      /\ ToSet(queue) = {c} \cup ToSet(t)
      /\ PagesOf(queue) = {c.page} \cup PagesOf(t)
      /\ \A i, k \in DOMAIN t :
            /\ t[i].page = t[k].page => i = k
            /\ i < k => t[i].depth <= t[k].depth
  BY <1>0, PopFacts
<1>2. CASE ~ FollowsLinks
  <2>1. queue' = t /\ visited' = visited
    BY <1>2 DEF Scrape
  <2> QED
    BY <1>1, <1>2, <2>1
<1>3. CASE FollowsLinks
  <2>1. PICK found \in SetToSeqs(links[c.page]) : queue' = PushNew(t, visited, found, d)
    BY <1>3 DEF Scrape
  <2>2. visited' = visited \cup links[c.page]
    BY <1>3 DEF Scrape
  <2>3. IsFiniteSet(links[c.page]) /\ links[c.page] \subseteq Pages
    BY <1>0, <1>1 DEF Site
  <2>4. found \in Seq(links[c.page]) /\ ToSet(found) = links[c.page]
    BY <2>3, Listing
  <2>5. found \in Seq(Pages)
    BY <2>3, <2>4
  <2>6. d \in Nat
    BY <1>1
  <2> DEFINE u == queue'
             new == links[c.page] \ visited
  <2> HIDE DEF c, t, d
  <2>7. /\ u \in Seq(EntryType) /\ Len(t) \in Nat /\ Len(u) \in Nat /\ Len(t) <= Len(u)
        /\ \A i \in 1 .. Len(t) : u[i] = t[i]
        /\ \A i \in Len(t) + 1 .. Len(u) : u[i].depth = d /\ u[i].page \in new
        /\ \A p \in new : \E i \in Len(t) + 1 .. Len(u) : u[i] = Entry(p, d)
        /\ \A i, k \in Len(t) + 1 .. Len(u) : u[i].page = u[k].page => i = k
    <3>1. LET w == PushNew(t, visited, found, d)
          IN  /\ w \in Seq(EntryType) /\ Len(t) \in Nat /\ Len(w) \in Nat /\ Len(t) <= Len(w)
              /\ \A i \in 1 .. Len(t) : w[i] = t[i]
              /\ \A i \in Len(t) + 1 .. Len(w) :
                    w[i].depth = d /\ w[i].page \in ToSet(found) \ visited
              /\ \A p \in ToSet(found) \ visited :
                    \E i \in Len(t) + 1 .. Len(w) : w[i] = Entry(p, d)
              /\ \A i, k \in Len(t) + 1 .. Len(w) : w[i].page = w[k].page => i = k
      BY <1>1, <2>5, <2>6, PushFacts, Zenon
    <3> QED
      BY <2>1, <2>4, <3>1
  <2> HIDE DEF u
  <2>8. /\ DOMAIN t = 1 .. Len(t) /\ DOMAIN u = 1 .. Len(u)
        /\ \A i \in 1 .. Len(u) : i \in 1 .. Len(t) \/ i \in Len(t) + 1 .. Len(u)
        /\ \A i \in 1 .. Len(t) : i \in 1 .. Len(u)
        /\ \A i \in Len(t) + 1 .. Len(u) : i \in 1 .. Len(u)
    BY <1>1, <2>7
  <2>9. \A e \in ToSet(u) : e \in ToSet(t) \/ (e.depth = d /\ e.page \in new)
    <3> SUFFICES ASSUME NEW i \in 1 .. Len(u)
                 PROVE  u[i] \in ToSet(t) \/ (u[i].depth = d /\ u[i].page \in new)
      BY <2>8 DEF ToSet
    <3> QED
      BY <1>1, <2>7, <2>8, Members
  <2>10. PagesOf(u) = PagesOf(t) \cup new
    <3>1. ASSUME NEW p \in PagesOf(u) PROVE p \in PagesOf(t) \cup new
      <4>1. PICK i \in 1 .. Len(u) : u[i].page = p
        BY <2>8 DEF PagesOf
      <4>2. \A k \in 1 .. Len(t) : t[k].page \in PagesOf(t)
        BY <2>8 DEF PagesOf
      <4> QED
        BY <2>7, <2>8, <4>1, <4>2
    <3>2. \A i \in 1 .. Len(u) : u[i].page \in PagesOf(u)
      BY <2>8 DEF PagesOf
    <3>3. ASSUME NEW p \in new PROVE p \in PagesOf(u)
      <4>1. PICK i \in Len(t) + 1 .. Len(u) : u[i] = Entry(p, d)
        BY <2>7
      <4>2. u[i].page = p
        BY <4>1 DEF Entry
      <4> QED
        BY <2>8, <3>2, <4>2
    <3>4. ASSUME NEW p \in PagesOf(t) PROVE p \in PagesOf(u)
      <4>1. PICK i \in 1 .. Len(t) : t[i].page = p
        BY <2>8 DEF PagesOf
      <4> QED
        BY <2>7, <2>8, <3>2, <4>1
    <3> QED
      BY <3>1, <3>3, <3>4
  <2>11. PagesOf(t) \subseteq visited /\ new = visited' \ visited
    BY <1>0, <1>1, <2>2 DEF Once
  <2>12. \A i \in 1 .. Len(t) : t[i].page \in visited /\ t[i].depth <= d /\ t[i].depth \in Nat
    <3> SUFFICES ASSUME NEW i \in 1 .. Len(t)
                 PROVE  t[i].page \in visited /\ t[i].depth <= d /\ t[i].depth \in Nat
      OBVIOUS
    <3>1. t[i] \in ToSet(t) /\ t[i].page \in PagesOf(t) /\ t[i].depth \in Nat
      BY <1>1, Members
    <3>2. t[i].depth <= c.depth + 1
      BY <1>0, <1>1, <3>1 DEF Levels
    <3> QED
      BY <2>11, <3>1, <3>2 DEF d, c
  <2>13. ASSUME NEW i \in 1 .. Len(u), NEW k \in 1 .. Len(u)
         PROVE  /\ u[i].page = u[k].page => i = k
                /\ i < k => u[i].depth <= u[k].depth
    <3>1. CASE i \in 1 .. Len(t) /\ k \in 1 .. Len(t)
      BY <1>1, <2>7, <2>8, <3>1
    <3>2. CASE i \in 1 .. Len(t) /\ k \in Len(t) + 1 .. Len(u)
      BY <2>6, <2>7, <2>12, <3>2
    <3>3. CASE i \in Len(t) + 1 .. Len(u) /\ k \in 1 .. Len(t)
      <4>1. ~ (i < k)
        BY <2>7, <3>3
      <4> QED
        BY <2>7, <2>12, <3>3, <4>1
    <3>4. CASE i \in Len(t) + 1 .. Len(u) /\ k \in Len(t) + 1 .. Len(u)
      BY <2>6, <2>7, <3>4
    <3> QED
      BY <2>8, <3>1, <3>2, <3>3, <3>4
  <2> QED
    BY <1>3, <2>2, <2>7, <2>8, <2>9, <2>10, <2>11, <2>13 DEF u, c, t, d
<1> QED
  BY <1>2, <1>3

LEMMA Appended ==
    ASSUME NEW s \in Seq(EntryType), NEW e \in EntryType
    PROVE  /\ Append(s, e) \in Seq(EntryType)
           /\ Len(s) \in Nat /\ Len(Append(s, e)) = Len(s) + 1
           /\ \A i \in 1 .. Len(s) : Append(s, e)[i] = s[i]
           /\ Append(s, e)[Len(s) + 1] = e
           /\ ToSet(Append(s, e)) = ToSet(s) \cup {e}
           /\ PagesOf(Append(s, e)) = PagesOf(s) \cup {e.page}
<1> DEFINE u == Append(s, e)
<1>1. /\ u \in Seq(EntryType) /\ Len(s) \in Nat /\ Len(u) = Len(s) + 1
      /\ \A i \in 1 .. Len(s) : u[i] = s[i]
      /\ u[Len(s) + 1] = e
      /\ DOMAIN s = 1 .. Len(s) /\ DOMAIN u = 1 .. Len(u)
  BY AppendProperties, LenProperties
<1> HIDE DEF u
<1>2. \A i \in 1 .. Len(u) : i \in 1 .. Len(s) \/ i = Len(s) + 1
  BY <1>1
<1>3. Len(s) + 1 \in 1 .. Len(u) /\ \A i \in 1 .. Len(s) : i \in 1 .. Len(u)
  BY <1>1
<1>4. ToSet(u) = ToSet(s) \cup {e}
  <2>1. \A x \in ToSet(u) : x \in ToSet(s) \cup {e}
    BY <1>1, <1>2 DEF ToSet
  <2>2. \A x \in ToSet(s) \cup {e} : x \in ToSet(u)
    BY <1>1, <1>3 DEF ToSet
  <2> QED
    BY <2>1, <2>2
<1>5. PagesOf(u) = PagesOf(s) \cup {e.page}
  <2>1. \A x \in PagesOf(u) : x \in PagesOf(s) \cup {e.page}
    BY <1>1, <1>2 DEF PagesOf
  <2>2. \A x \in PagesOf(s) \cup {e.page} : x \in PagesOf(u)
    BY <1>1, <1>3 DEF PagesOf
  <2> QED
    BY <2>1, <2>2
<1> QED
  BY <1>1, <1>4, <1>5 DEF u

LEMMA ScrapeSafe == Safe /\ Scrape => Safe'
<1> SUFFICES ASSUME Safe, Scrape PROVE Safe'
  OBVIOUS
<1>0. Site /\ Types /\ Phases /\ Seeded /\ Followed /\ Caused /\ Kept /\ Levels /\ Once
      /\ Len(results) <= limit /\ queue # <<>> /\ pc = "crawl"
  BY DEF Safe, Scrape
<1> DEFINE c == Current
           t == Tail(queue)
           out == IF FollowsLinks THEN links[Current.page] ELSE {}
<1>1. /\ c \in EntryType /\ c.page \in Pages /\ c.depth \in Nat
      /\ t \in Seq(EntryType)
      /\ ToSet(queue) = {c} \cup ToSet(t)
      /\ PagesOf(queue) = {c.page} \cup PagesOf(t)
      /\ c.page \notin PagesOf(t)
      /\ \A e \in ToSet(t) : c.depth <= e.depth
  BY <1>0, PopFacts
<1>2. /\ queue' \in Seq(EntryType)
      /\ visited' = visited \cup out
      /\ \A e \in ToSet(queue') :
            \/ e \in ToSet(t)
            \/ FollowsLinks /\ e.depth = c.depth + 1 /\ e.page \in out \ visited
      /\ PagesOf(queue') = PagesOf(t) \cup (out \ visited)
      /\ \A i, k \in DOMAIN queue' :
            /\ queue'[i].page = queue'[k].page => i = k
            /\ i < k => queue'[i].depth <= queue'[k].depth
  BY ScrapeQueue
<1>3. /\ results' = Append(results, c) /\ Len(results) < limit
      /\ c.page \in allowed /\ pc' = pc /\ failed' = failed
      /\ links' = links /\ allowed' = allowed /\ sitemap' = sitemap
      /\ maxDepth' = maxDepth /\ limit' = limit /\ Listed' = Listed
  <2>1. Len(results) \in Nat /\ limit \in Nat
    BY <1>0 DEF Types, Site
  <2> QED
    BY <2>1 DEF Scrape, site, LimitReached, Listed
<1>4. FollowsLinks <=> c.depth < maxDepth
  BY DEF FollowsLinks
<1>5. out = IF c.depth < maxDepth THEN links[c.page] ELSE {}
  BY <1>4
<1> HIDE DEF c, t, out
<1>6. /\ results \in Seq(EntryType) /\ results' \in Seq(EntryType)
      /\ Len(results) \in Nat /\ Len(results') = Len(results) + 1
      /\ \A i \in 1 .. Len(results) : results'[i] = results[i]
      /\ results'[Len(results) + 1] = c
      /\ ToSet(results') = ToSet(results) \cup {c}
      /\ PagesOf(results') = PagesOf(results) \cup {c.page}
  <2>1. results \in Seq(EntryType)
    BY <1>0 DEF Types
  <2> QED
    BY <1>1, <1>3, <2>1, Appended
<1>7. \A r \in ToSet(results) : r.page \in Pages /\ r.depth \in Nat
  BY <1>6, Members
<1>8. \A e \in ToSet(queue') : e.page \in Pages /\ e.depth \in Nat
  BY <1>2, Members
<1>9. \A e \in Met' : \/ e \in Met
                      \/ c.depth < maxDepth /\ e.depth = c.depth + 1 /\ e.page \in out \ visited
  BY <1>1, <1>2, <1>4, <1>6 DEF Met
<1>10. c \in Met /\ c.page \in visited
  BY <1>0, <1>1 DEF Met, Once
<1>11. \A e \in Met : e.depth \in Nat /\ e.depth <= c.depth + 1
  <2>1. \A e \in ToSet(queue) : e.depth \in Nat /\ e.depth <= c.depth + 1
    <3>1. \A e \in ToSet(queue) : e.depth \in Nat
      BY <1>0, Members DEF Types
    <3> QED
      BY <1>0, <1>1, <3>1 DEF Levels
  <2>2. \A r \in ToSet(results) : r.depth <= c.depth
    BY <1>0, <1>1 DEF Levels
  <2> QED
    BY <1>1, <1>7, <2>1, <2>2 DEF Met
<1>12. Site'
  BY <1>0, <1>3 DEF Site
<1>13. Types'
  <2>1. out \subseteq Pages
    BY <1>0, <1>1, <1>5 DEF Site
  <2> QED
    BY <1>0, <1>2, <1>3, <1>6, <2>1 DEF Types
<1>14. Phases'
  BY <1>0, <1>3 DEF Phases
<1>15. Seeded'
  BY <1>0, <1>2, <1>3, <1>9 DEF Seeded
<1>16. Followed'
  <2> SUFFICES ASSUME NEW r \in ToSet(results'), r.depth < maxDepth
               PROVE  /\ links[r.page] \subseteq visited'
                      /\ \A e \in Met' : e.page \in links[r.page] => e.depth <= r.depth + 1
    BY <1>3 DEF Followed
  <2>1. CASE r \in ToSet(results)
    <3>1. /\ links[r.page] \subseteq visited
          /\ \A e \in Met : e.page \in links[r.page] => e.depth <= r.depth + 1
      BY <1>0, <2>1 DEF Followed
    <3> QED
      BY <1>2, <1>9, <3>1
  <2>2. CASE r = c
    <3>1. out = links[c.page]
      BY <1>5, <2>2
    <3>2. \A e \in Met' : e.depth <= c.depth + 1
      BY <1>1, <1>9, <1>11
    <3> QED
      BY <1>2, <2>2, <3>1, <3>2
  <2> QED
    BY <1>6, <2>1, <2>2
<1>17. Caused'
  <2>1. \A r, p : LinkedBy(r, p) => LinkedBy(r, p)'
    BY <1>3, <1>6 DEF LinkedBy
  <2>2. ASSUME NEW e \in Met'
        PROVE  \/ e = Entry(Root, 0)
               \/ e.page \in Listed' /\ e.depth = 1
               \/ \E r \in ToSet(results') : LinkedBy(r, e.page)' /\ e.depth = r.depth + 1
    <3>1. CASE e \in Met
      BY <1>0, <1>3, <1>6, <2>1, <3>1 DEF Caused
    <3>2. CASE c.depth < maxDepth /\ e.depth = c.depth + 1 /\ e.page \in out \ visited
      <4>1. PICK r : r = c
        OBVIOUS
      <4>2. r \in ToSet(results') /\ LinkedBy(r, e.page)'
        BY <1>3, <1>5, <1>6, <3>2, <4>1 DEF LinkedBy
      <4> QED
        BY <3>2, <4>1, <4>2
    <3> QED
      BY <1>9, <3>1, <3>2
  <2>3. ASSUME NEW p \in failed'
        PROVE  p = Root \/ p \in Listed' \/ \E r \in ToSet(results') : LinkedBy(r, p)'
    BY <1>0, <1>3, <1>6, <2>1 DEF Caused
  <2> QED
    BY <2>2, <2>3 DEF Caused
<1>18. Kept'
  BY <1>0, <1>1, <1>2, <1>3, <1>6 DEF Kept
<1>19. Levels'
  <2>1. \A e \in ToSet(queue') : c.depth <= e.depth /\ e.depth <= c.depth + 1
    BY <1>1, <1>2, <1>8, <1>11 DEF Met
  <2>2. \A e, f \in ToSet(queue') : e.depth <= f.depth + 1
    <3> SUFFICES ASSUME NEW e \in ToSet(queue'), NEW f \in ToSet(queue')
                 PROVE  e.depth <= f.depth + 1
      OBVIOUS
    <3>1. e.depth <= c.depth + 1 /\ c.depth <= f.depth
      BY <2>1
    <3> QED
      BY <1>1, <1>8, <3>1
  <2>3. \A r \in ToSet(results) : r.depth <= c.depth
    BY <1>0, <1>1 DEF Levels
  <2>4. ASSUME NEW r \in ToSet(results'), NEW e \in ToSet(queue') PROVE r.depth <= e.depth
    <3>1. r.depth <= c.depth /\ r.depth \in Nat
      BY <1>1, <1>6, <1>7, <2>3
    <3> QED
      BY <1>1, <1>8, <2>1, <3>1
  <2> QED
    BY <1>2, <2>2, <2>4 DEF Levels
<1>20. Once'
  <2>1. c.page \notin PagesOf(results) \cup failed
    BY <1>0, <1>1 DEF Once
  <2>2. PagesOf(queue') \cap (PagesOf(results') \cup failed') = {}
    BY <1>0, <1>1, <1>2, <1>3, <1>6, <1>10 DEF Once
  <2>3. ASSUME NEW i \in 1 .. Len(results'), NEW k \in 1 .. Len(results'),
               results'[i].page = results'[k].page
        PROVE  i = k
    <3>1. \A l \in 1 .. Len(results') : l \in 1 .. Len(results) \/ l = Len(results) + 1
      BY <1>6
    <3>2. \A l \in 1 .. Len(results) : results[l].page # c.page
      BY <2>1 DEF PagesOf
    <3>3. \A l, m \in 1 .. Len(results) : results[l].page = results[m].page => l = m
      BY <1>0 DEF Once
    <3> QED
      BY <1>6, <2>3, <3>1, <3>2, <3>3
  <2>4. PagesOf(results') \cap failed' = {}
    BY <1>0, <1>3, <1>6, <2>1 DEF Once
  <2>5. PagesOf(queue') \cup PagesOf(results') \cup failed' \subseteq visited'
    BY <1>0, <1>1, <1>2, <1>3, <1>6, <1>10 DEF Once
  <2>6. DOMAIN results' = 1 .. Len(results')
    BY <1>6
  <2> QED
    BY <1>2, <2>2, <2>3, <2>4, <2>5, <2>6 DEF Once
<1>21. Len(results') <= limit'
  BY <1>0, <1>3, <1>6 DEF Site
<1> QED
  BY <1>12, <1>13, <1>14, <1>15, <1>16, <1>17, <1>18, <1>19, <1>20, <1>21 DEF Safe

LEMMA StepSafe == Safe /\ [Next]_vars => Safe'
<1> SUFFICES ASSUME Safe, [Next]_vars PROVE Safe'
  OBVIOUS
<1>1. CASE Seed
  BY <1>1, SeedSafe
<1>2. CASE Full
  BY <1>2, DroppedSafe DEF Full, Pop
<1>3. CASE Skip
  BY <1>3, DroppedSafe DEF Skip, Pop
<1>4. CASE ScrapeFails
  BY <1>4, DroppedSafe DEF ScrapeFails, Pop
<1>5. CASE Scrape
  BY <1>5, ScrapeSafe
<1>6. CASE Finish \/ UNCHANGED vars
  <2>1. /\ UNCHANGED <<links, allowed, sitemap, maxDepth, limit>>
        /\ UNCHANGED <<visited, queue, results, failed>>
        /\ pc' = pc \/ (pc = "crawl" /\ pc' = "done" /\ queue = <<>>)
    BY <1>6 DEF Finish, vars, site
  <2>2. Met' = Met /\ Listed' = Listed /\ PagesOf(queue)' = PagesOf(queue)
        /\ PagesOf(results)' = PagesOf(results) /\ ToSet(queue)' = ToSet(queue)
        /\ ToSet(results)' = ToSet(results)
    BY <2>1 DEF Met, Listed
  <2>3. Site' /\ Types' /\ Phases'
    BY <2>1 DEF Safe, Site, Types, Phases
  <2>4. Seeded' /\ Followed' /\ Caused'
    BY <2>1, <2>2 DEF Safe, Seeded, Followed, Caused, LinkedBy
  <2>5. Kept' /\ Levels' /\ Once'
    BY <2>1, <2>2 DEF Safe, Kept, Levels, Once
  <2> QED
    BY <2>1, <2>3, <2>4, <2>5 DEF Safe
<1> QED
  BY <1>1, <1>2, <1>3, <1>4, <1>5, <1>6 DEF Next

-----------------------------------------------------------------------------
(***************************************************************************)
(* Depths are distances                                                    *)
(***************************************************************************)

\* Each level contains the one before, and the sitemap from the first on.
LEMMA LevelsGrow ==
    ASSUME Site
    PROVE  \A n \in 0 .. DepthBound + 1 : \A m \in 0 .. n : Within[m] \subseteq Within[n]
<1> DEFINE Bad == {n \in 0 .. DepthBound + 1 : ~ \A m \in 0 .. n : Within[m] \subseteq Within[n]}
<1> SUFFICES ASSUME Bad # {} PROVE FALSE
  OBVIOUS
<1>0. DepthBound \in Nat
  BY BoundsAssumption
<1>1. PICK n \in Bad : \A k \in Bad : n <= k
  <2>1. Bad \subseteq Nat
    BY <1>0
  <2> HIDE DEF Bad
  <2> QED
    BY <2>1, Least
<1>2. n \in 0 .. DepthBound + 1 /\ n \in Nat
  BY <1>0
<1>3. PICK m \in 0 .. n : ~ (Within[m] \subseteq Within[n])
  OBVIOUS
<1>4. m # n
  BY <1>3
<1>5. n # 0 /\ n - 1 \in 0 .. DepthBound + 1 /\ m \in 0 .. n - 1 /\ ~ (n <= n - 1)
  BY <1>0, <1>2, <1>3, <1>4
<1>6. Within[m] \subseteq Within[n - 1]
  BY <1>1, <1>5
<1>7. n \in 1 .. DepthBound + 1
  BY <1>2, <1>5
<1>8. Within[n - 1] \subseteq Within[n]
  BY <1>7, WithinDef DEF Further
<1> QED
  BY <1>3, <1>6, <1>8

\* What is n links away has been met, at depth n at most.
LEMMA MetWithin ==
    ASSUME Safe, pc # "seed", Root \notin Listed
    PROVE  \A n \in 0 .. maxDepth : \A p \in Within[n] :
               p \in visited /\ \A e \in Met : e.page = p => e.depth <= n
<1> DEFINE Good(n) == \A p \in Within[n] :
                         p \in visited /\ \A e \in Met : e.page = p => e.depth <= n
           Bad == {n \in 0 .. maxDepth : ~ Good(n)}
<1> SUFFICES ASSUME Bad # {} PROVE FALSE
  OBVIOUS
<1>0. Site /\ Types /\ Seeded /\ Followed /\ maxDepth \in Nat /\ maxDepth <= DepthBound
      /\ DepthBound \in Nat
  BY BoundsAssumption DEF Safe, Site
<1>1. PICK n \in Bad : \A k \in Bad : n <= k
  <2>1. Bad \subseteq Nat
    BY <1>0
  <2> HIDE DEF Bad
  <2> QED
    BY <2>1, Least
<1>2. n \in 0 .. maxDepth /\ ~ Good(n)
  OBVIOUS
<1>3. \A e \in Met : e.depth \in Nat
  BY <1>0, Members DEF Met, Types
<1>4. CASE n = 0
  <2>1. Within[0] = {Root}
    BY <1>0, WithinDef
  <2>2. Root \in visited /\ \A e \in Met : e.page = Root => e.depth = 0
    BY <1>0 DEF Seeded
  <2> QED
    BY <1>2, <1>4, <2>1, <2>2
<1>5. CASE n # 0
  <2>1. n - 1 \in 0 .. maxDepth /\ ~ (n <= n - 1) /\ n \in 1 .. DepthBound + 1 /\ n \in Nat
    BY <1>0, <1>2, <1>5
  <2>2. Good(n - 1)
    BY <1>1, <2>1
  <2>3. Within[n] = Further(Within[n - 1])
    BY <1>0, <2>1, WithinDef
  <2>4. ASSUME NEW p \in Within[n]
        PROVE  p \in visited /\ \A e \in Met : e.page = p => e.depth <= n
    <3>1. CASE p \in Within[n - 1]
      <4>1. p \in visited /\ \A e \in Met : e.page = p => e.depth <= n - 1
        BY <2>2, <3>1
      <4> QED
        BY <1>3, <2>1, <4>1
    <3>2. CASE p \in Listed
      <4>1. p \in visited /\ \A e \in Met : e.page = p => e.depth <= 1
        BY <1>0, <3>2 DEF Seeded
      <4> QED
        BY <1>3, <2>1, <4>1
    <3>3. CASE p \in UNION {links[q] : q \in Within[n - 1] \cap PagesOf(results)}
      <4>1. PICK q \in Within[n - 1] \cap PagesOf(results) : p \in links[q]
        BY <3>3
      <4>2. PICK r \in ToSet(results) : r.page = q
        BY <1>0, <4>1, Members DEF Types
      <4>3. r \in Met /\ r.depth \in Nat /\ r.depth <= n - 1
        BY <1>3, <2>2, <4>1, <4>2 DEF Met
      <4>4. r.depth < maxDepth
        BY <1>0, <1>2, <4>3
      <4>5. p \in visited /\ \A e \in Met : e.page = p => e.depth <= r.depth + 1
        BY <1>0, <4>1, <4>2, <4>4 DEF Followed
      <4> QED
        BY <1>3, <2>1, <4>3, <4>5
    <3> QED
      BY <2>3, <2>4, <3>1, <3>2, <3>3 DEF Further
  <2> QED
    BY <1>2, <2>4
<1> QED
  BY <1>4, <1>5

\* The depth of an address fits the levels, and the address lies that far away.
LEMMA WithinDepth ==
    ASSUME Safe
    PROVE  \A e \in Met : e.depth \in 0 .. DepthBound + 1 /\ e.page \in Within[e.depth]
<1> DEFINE Good(e) == e.depth \in 0 .. DepthBound + 1 /\ e.page \in Within[e.depth]
           Bad == {n \in Nat : \E e \in Met : e.depth = n /\ ~ Good(e)}
<1>0. Site /\ Types /\ Caused /\ maxDepth \in Nat /\ maxDepth <= DepthBound
      /\ DepthBound \in Nat
  BY BoundsAssumption DEF Safe, Site
<1>1. \A e \in Met : e.depth \in Nat
  BY <1>0, Members DEF Met, Types
<1> SUFFICES ASSUME Bad # {} PROVE FALSE
  BY <1>1
<1>2. PICK n \in Bad : \A k \in Bad : n <= k
  BY Least
<1>3. PICK e \in Met : e.depth = n /\ ~ Good(e)
  OBVIOUS
<1>4. CASE e = Entry(Root, 0)
  <2>1. e.page = Root /\ e.depth = 0
    BY <1>4 DEF Entry
  <2>2. Root \in Within[0]
    BY <1>0, WithinDef
  <2> QED
    BY <1>0, <1>3, <2>1, <2>2
<1>5. CASE e.page \in Listed /\ e.depth = 1
  <2>1. 1 \in 1 .. DepthBound + 1 /\ 1 \in 0 .. DepthBound + 1
    BY <1>0
  <2>2. Within[1] = Further(Within[1 - 1])
    BY <1>0, <2>1, WithinDef
  <2>3. e.page \in Within[1]
    BY <1>5, <2>2 DEF Further
  <2> QED
    BY <1>3, <1>5, <2>1, <2>3
<1>6. CASE \E r \in ToSet(results) : LinkedBy(r, e.page) /\ e.depth = r.depth + 1
  <2>1. PICK r \in ToSet(results) : LinkedBy(r, e.page) /\ e.depth = r.depth + 1
    BY <1>6
  <2>2. r \in Met /\ r.depth \in Nat /\ r.depth < maxDepth /\ e.page \in links[r.page]
    BY <1>1, <2>1 DEF Met, LinkedBy
  <2>3. ~ (n <= r.depth)
    BY <1>3, <2>1, <2>2
  <2>4. Good(r)
    BY <1>2, <2>2, <2>3
  <2>5. r.page \in PagesOf(results)
    BY <1>0, <2>1, Members DEF Types
  <2>6. e.depth \in 1 .. DepthBound + 1 /\ e.depth - 1 = r.depth
    BY <1>0, <2>1, <2>2
  <2>7. Within[e.depth] = Further(Within[r.depth])
    BY <1>0, <2>6, WithinDef
  <2>8. e.page \in Within[e.depth]
    BY <2>2, <2>4, <2>5, <2>7 DEF Further
  <2> QED
    BY <1>0, <1>3, <2>6, <2>8
<1> QED
  BY <1>0, <1>4, <1>5, <1>6 DEF Caused

LEMMA SafeDepths == Safe => DepthIsDistance
<1> SUFFICES ASSUME Safe PROVE DepthIsDistance
  OBVIOUS
<1>0. Site /\ Types /\ Phases /\ Once /\ maxDepth \in Nat /\ maxDepth <= DepthBound
      /\ DepthBound \in Nat /\ Caused
  BY BoundsAssumption DEF Safe, Site
<1>1. ScrapedOnce
  BY <1>0 DEF Once, ScrapedOnce
<1>2. ASSUME Root \notin ToSet(sitemap), NEW i \in DOMAIN results
      PROVE  /\ results[i].page \in Within[results[i].depth]
             /\ results[i].depth > 0 => results[i].page \notin Within[results[i].depth - 1]
  <2> DEFINE e == results[i]
  <2>1. e \in Met /\ e \in ToSet(results) /\ e.depth \in Nat
    BY <1>0, Members DEF Types, Met
  <2>2. e.page \in Within[e.depth]
    BY <2>1, WithinDepth
  <2>3. pc # "seed"
    BY <1>0 DEF Phases
  <2>4. e.depth <= maxDepth + 1
    <3>1. CASE e = Entry(Root, 0)
      BY <1>0, <3>1 DEF Entry
    <3>2. CASE \E r \in ToSet(results) : LinkedBy(r, e.page) /\ e.depth = r.depth + 1
      <4>1. PICK r \in ToSet(results) : r.depth < maxDepth /\ e.depth = r.depth + 1
        BY <3>2 DEF LinkedBy
      <4>2. r.depth \in Nat
        BY <1>0, Members DEF Types
      <4> QED
        BY <1>0, <4>1, <4>2
    <3> QED
      BY <1>0, <2>1, <3>1, <3>2 DEF Caused
  <2> HIDE DEF e
  <2>5. ASSUME e.depth > 0, e.page \in Within[e.depth - 1] PROVE FALSE
    <3>1. e.depth - 1 \in 0 .. maxDepth /\ ~ (e.depth <= e.depth - 1)
      BY <1>0, <2>1, <2>4, <2>5
    <3> QED
      BY <1>2, <2>1, <2>3, <2>5, <3>1, MetWithin DEF Listed
  <2> QED
    BY <2>2, <2>5 DEF e
<1> QED
  BY <1>1, <1>2 DEF DepthIsDistance

LEMMA SafeFinds == Safe => FindsAllInReach
<1> SUFFICES ASSUME Safe, pc = "done", Root \notin Listed
             PROVE  PagesOf(results) \cup failed = (Within[maxDepth] \cup Listed) \cap allowed
  BY DEF FindsAllInReach, Listed
<1>0. Site /\ Types /\ Phases /\ Seeded /\ Caused /\ Kept /\ maxDepth \in Nat
      /\ maxDepth <= DepthBound /\ DepthBound \in Nat
  BY BoundsAssumption DEF Safe, Site
<1>1. PagesOf(queue) = {}
  BY <1>0 DEF Phases, PagesOf
<1>2. maxDepth \in 0 .. maxDepth /\ maxDepth \in 0 .. DepthBound + 1
  BY <1>0
<1>3. \A n \in 0 .. maxDepth : Within[n] \subseteq Within[maxDepth]
  BY <1>0, <1>2, LevelsGrow
<1>4. ASSUME NEW p \in (Within[maxDepth] \cup Listed) \cap allowed
      PROVE  p \in PagesOf(results) \cup failed
  <2>1. p \in visited
    BY <1>0, <1>2, MetWithin DEF Seeded
  <2> QED
    BY <1>0, <1>1, <2>1 DEF Kept
<1>5. ASSUME NEW r \in ToSet(results), r.depth < maxDepth, NEW p \in links[r.page]
      PROVE  p \in Within[maxDepth] /\ r.depth + 1 \in 0 .. maxDepth
  <2>1. r.depth \in Nat /\ r \in Met /\ r.page \in PagesOf(results)
    BY <1>0, Members DEF Types, Met
  <2>2. r.page \in Within[r.depth]
    BY <2>1, WithinDepth
  <2>3. r.depth + 1 \in 1 .. DepthBound + 1 /\ r.depth + 1 \in 0 .. maxDepth
        /\ (r.depth + 1) - 1 = r.depth
    BY <1>0, <1>5, <2>1
  <2>4. Within[r.depth + 1] = Further(Within[r.depth])
    BY <1>0, <2>3, WithinDef
  <2>5. p \in Within[r.depth + 1]
    BY <2>1, <2>2, <2>4 DEF Further
  <2> QED
    BY <1>3, <2>3, <2>5
<1>6. Root \in Within[maxDepth]
  <2>1. Root \in Within[0] /\ 0 \in 0 .. maxDepth
    BY <1>0, WithinDef
  <2> QED
    BY <1>3, <2>1
<1>7. ASSUME NEW p \in PagesOf(results) \cup failed
      PROVE  p \in Within[maxDepth] \cup Listed
  <2>1. \/ p = Root \/ p \in Listed \/ \E r \in ToSet(results) : LinkedBy(r, p)
    <3>1. CASE p \in failed
      BY <1>0, <3>1 DEF Caused
    <3>2. CASE p \in PagesOf(results)
      <4>1. PICK e \in ToSet(results) : e.page = p
        BY <1>0, <3>2, Members DEF Types
      <4> QED
        BY <1>0, <4>1 DEF Caused, Met, Entry
    <3> QED
      BY <3>1, <3>2
  <2> QED
    BY <1>5, <1>6, <2>1 DEF LinkedBy
<1>8. PagesOf(results) \cup failed \subseteq allowed
  BY <1>0 DEF Kept
<1> QED
  BY <1>4, <1>7, <1>8

LEMMA SafeLimit == Safe => LimitKeepsNearest
<1> SUFFICES ASSUME Safe PROVE LimitKeepsNearest
  OBVIOUS
<1>1. queue \in Seq(EntryType) /\ results \in Seq(EntryType) /\ Levels /\ Len(results) <= limit
  BY DEF Safe, Types
<1>2. \A i \in DOMAIN results : results[i] \in ToSet(results)
  BY DEF ToSet
<1>3. \A k \in DOMAIN queue : queue[k] \in ToSet(queue)
  BY DEF ToSet
<1> QED
  BY <1>1, <1>2, <1>3 DEF Levels, LimitKeepsNearest

LEMMA SafeTypes == Safe => TypeOK
  BY DEF Safe, Types, Once, TypeOK, EntryType

-----------------------------------------------------------------------------

\* Every address the crawl handles was marked as visited before, with a page and a depth.
THEOREM CrawlTypes == Spec => []TypeOK
  BY InitSafe, StepSafe, SafeTypes, PTL DEF Spec

\* A crawl that the limit does not cut short finds exactly the pages in reach that pass
\* the filters, however the site is linked and whatever fails on the way.
THEOREM CrawlFindsAll == Spec => []FindsAllInReach
  BY InitSafe, StepSafe, SafeFinds, PTL DEF Spec

\* No page is scraped twice, and each at its distance from the root.
THEOREM CrawlDepths == Spec => []DepthIsDistance
  BY InitSafe, StepSafe, SafeDepths, PTL DEF Spec

\* The limit is kept and cuts off the most distant pages only.
THEOREM CrawlNearestFirst == Spec => []LimitKeepsNearest
  BY InitSafe, StepSafe, SafeLimit, PTL DEF Spec
=============================================================================
