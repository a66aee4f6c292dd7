----------------------------- MODULE SiteCrawl -----------------------------
(***************************************************************************)
(* Scraper::crawl: the breadth-first crawl of one site.  A queue of        *)
(* addresses with their depth starts with the root and what the sitemap    *)
(* lists; a scraped page appends the links nobody has queued before.       *)
(*                                                                         *)
(* An address is a string to the code, so two spellings of one page are    *)
(* two members of Pages.  The site, the filters and the limits are drawn   *)
(* in the initial state and stay; whether a scrape succeeds (robots.txt,   *)
(* the network, the parser) is not known before it is made.                *)
(***************************************************************************)
EXTENDS Integers, FiniteSets, Sequences, SequencesExt, InOrder

CONSTANTS
    Pages,
    Root,          \* root_url
    DepthBound,    \* bounds on max_depth, limit and the entries of the sitemap
    LimitBound,
    SitemapBound

ASSUME RootAssumption == Root \in Pages
ASSUME BoundsAssumption == DepthBound \in Nat /\ LimitBound \in Nat /\ SitemapBound \in Nat

VARIABLES
    links,      \* the links of each page, as far as they lead to other pages
    allowed,    \* addresses that pass the path and host filters
    sitemap,    \* what fetch_sitemap_urls returns, <<>> with ignore_sitemap
    maxDepth,
    limit,
    visited,
    queue,      \* VecDeque<(String, u32)>
    results,
    failed,     \* addresses whose scrape failed
    pc          \* "seed", "crawl", then "done" or, cut short by the limit, "full"

site == <<links, allowed, sitemap, maxDepth, limit>>

vars == <<site, visited, queue, results, failed, pc>>

Entry(page, depth) == [page |-> page, depth |-> depth]

PagesOf(entries) == {entries[i].page : i \in DOMAIN entries}

\* The addresses not seen before, each once, in order.
Unseen(seen, addresses) ==
    LET new == {i \in DOMAIN addresses :
                   /\ addresses[i] \notin seen
                   /\ \A k \in 1 .. i - 1 : addresses[k] # addresses[i]}
    IN  [k \in 1 .. Cardinality(new) |-> addresses[Nth(new, k)]]

Entries(addresses, depth) == [i \in DOMAIN addresses |-> Entry(addresses[i], depth)]

\* Mutant: new addresses go to the front.
PushFront(q, seen, addresses, depth) == Entries(Unseen(seen, addresses), depth) \o q

\* if visited.insert(u) { queue.push_back((u, depth)) } for each address
PushNew(q, seen, addresses, depth) == q \o Entries(Unseen(seen, addresses), depth)

\* Mutant: the root is queued without entering visited.
SeedRootUnvisited ==
    /\ pc = "seed"
    /\ queue' = <<Entry(Root, 0)>> \o PushNew(<<>>, {}, sitemap, 1)
    /\ visited' = ToSet(sitemap)
    /\ pc' = "crawl"
    /\ UNCHANGED <<site, results, failed>>

\* Mutant: the root is pushed behind the sitemap's entries.
SeedRootLast ==
    /\ pc = "seed"
    /\ LET fromSitemap == PushNew(<<>>, {}, sitemap, 1)
       IN  queue' = IF Root \in ToSet(sitemap)
                    THEN fromSitemap
                    ELSE Append(fromSitemap, Entry(Root, 0))
    /\ visited' = ToSet(sitemap) \cup {Root}
    /\ pc' = "crawl"
    /\ UNCHANGED <<site, results, failed>>

\* The sitemap's entries at depth 1, then the root at depth 0 in front of them, unless
\* the sitemap lists it.
Seed ==
    /\ pc = "seed"
    /\ LET fromSitemap == PushNew(<<>>, {}, sitemap, 1)
       IN  queue' = IF Root \in ToSet(sitemap)
                    THEN fromSitemap
                    ELSE <<Entry(Root, 0)>> \o fromSitemap
    /\ visited' = ToSet(sitemap) \cup {Root}
    /\ pc' = "crawl"
    /\ UNCHANGED <<site, results, failed>>

\* The next address is popped before the limit is looked at.
Pop ==
    /\ pc = "crawl"
    /\ queue # <<>>
    /\ queue' = Tail(queue)

Current == Head(queue)

\* Mutant: off by one at the deepest level.
FollowsTooFew == Current.depth + 1 < maxDepth

LimitReached == Len(results) >= limit

FollowsLinks == Current.depth < maxDepth

Full ==
    /\ Pop
    /\ LimitReached
    /\ pc' = "full"
    /\ UNCHANGED <<site, visited, results, failed>>

\* Path and host filters
Skip ==
    /\ Pop
    /\ ~ LimitReached
    /\ Current.page \notin allowed
    /\ UNCHANGED <<site, visited, results, failed, pc>>

\* "page scrape failed (skipping)"
ScrapeFails ==
    /\ Pop
    /\ ~ LimitReached
    /\ Current.page \in allowed
    /\ failed' = failed \cup {Current.page}
    /\ UNCHANGED <<site, visited, results, pc>>

\* Links are followed above max_depth only, in the order of the page.
Scrape ==
    /\ pc = "crawl"
    /\ queue # <<>>
    /\ ~ LimitReached
    /\ Current.page \in allowed
    /\ results' = Append(results, Current)
    /\ IF FollowsLinks
       THEN /\ \E found \in SetToSeqs(links[Current.page]) :
                  queue' = PushNew(Tail(queue), visited, found, Current.depth + 1)
            /\ visited' = visited \cup links[Current.page]
       ELSE /\ queue' = Tail(queue)
            /\ UNCHANGED visited
    /\ UNCHANGED <<site, failed, pc>>

Finish ==
    /\ pc = "crawl"
    /\ queue = <<>>
    /\ pc' = "done"
    /\ UNCHANGED <<site, visited, queue, results, failed>>

Init ==
    /\ links \in [Pages -> SUBSET Pages]
    /\ \A p \in Pages : p \notin links[p] /\ IsFiniteSet(links[p])
    /\ allowed \in SUBSET Pages
    /\ maxDepth \in 0 .. DepthBound
    /\ limit \in 0 .. LimitBound
    /\ sitemap \in SeqOf(Pages, SitemapBound)
    /\ Len(sitemap) <= limit
    /\ visited = {}
    /\ queue = <<>>
    /\ results = <<>>
    /\ failed = {}
    /\ pc = "seed"

Next == Seed \/ Full \/ Skip \/ ScrapeFails \/ Scrape \/ Finish

Spec == Init /\ [][Next]_vars

-----------------------------------------------------------------------------

TypeOK ==
    /\ visited \in SUBSET Pages
    /\ queue \in Seq([page : Pages, depth : Nat])
    /\ results \in Seq([page : Pages, depth : Nat])
    /\ failed \in SUBSET Pages
    /\ pc \in {"seed", "crawl", "full", "done"}
    /\ PagesOf(queue) \cup PagesOf(results) \cup failed \subseteq visited

\* The pages at most n links away from the root, over links of pages that were scraped;
\* the sitemap's entries count as linked from the root.
Within ==
    LET f[n \in 0 .. DepthBound + 1] ==
            IF n = 0
            THEN {Root}
            ELSE f[n - 1] \cup ToSet(sitemap)
                 \cup UNION {links[p] : p \in f[n - 1] \cap PagesOf(results)}
    IN  f

\* The crawl finds exactly the pages within max_depth of the root, and the sitemap's,
\* that pass the filters: a page first met by a long way round, behind a failed page or
\* in the sitemap is not lost, and nothing deeper is taken.  The limit may cut it short;
\* a root listed in the sitemap counts as depth 1, which shortens its reach.
FindsAllInReach ==
    pc = "done" /\ Root \notin ToSet(sitemap) =>
        PagesOf(results) \cup failed = (Within[maxDepth] \cup ToSet(sitemap)) \cap allowed

\* No address is scraped twice, however many pages, sitemap entries and failures lead to it.
ScrapedOnce ==
    /\ \A i, k \in DOMAIN results : results[i].page = results[k].page => i = k
    /\ PagesOf(results) \cap failed = {}

\* A page is scraped once and at its distance from the root, so max_depth bounds distances
\* and not the length of the way the crawl happened to take.
DepthIsDistance ==
    /\ ScrapedOnce
    /\ Root \notin ToSet(sitemap) =>
          \A i \in DOMAIN results :
              /\ results[i].page \in Within[results[i].depth]
              /\ results[i].depth > 0 => results[i].page \notin Within[results[i].depth - 1]

\* What the limit cuts off is never nearer to the root than what was scraped, and the
\* limit is never exceeded.  Nearer goes by the depth an address was queued with, which for
\* a root that the sitemap lists is 1.
LimitKeepsNearest ==
    /\ Len(results) <= limit
    /\ \A i \in DOMAIN results, k \in DOMAIN queue : results[i].depth <= queue[k].depth
=============================================================================
