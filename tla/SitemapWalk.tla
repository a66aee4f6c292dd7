----------------------------- MODULE SitemapWalk -----------------------------
(***************************************************************************)
(* fetch_sitemap_urls and collect_sitemap_urls: the recursive walk over a  *)
(* sitemap and the sitemaps it lists, whose result seeds the site crawl    *)
(* (the variable sitemap of SiteCrawl).                                    *)
(*                                                                         *)
(* The recursion is a stack of calls.  A sitemap's body is chosen when it  *)
(* is fetched.  The reader stops at the limit, and then no child is looked *)
(* at, so the order of addresses and children in a body does not matter.   *)
(* A body that does not parse, or whose text does not arrive, is one that  *)
(* lists nothing.                                                          *)
(***************************************************************************)
EXTENDS Integers, Sequences, SequencesExt

CONSTANTS
    Sitemaps,
    Root,        \* <host>/sitemap.xml
    MaxDepth,    \* DEFAULT_SITEMAP_MAX_DEPTH
    LimitBound,  \* bound on limit
    MaxUrls,     \* bounds on the addresses and the sitemaps listed in one sitemap
    MaxChildren

ASSUME RootAssumption == Root \in Sitemaps
ASSUME BoundsAssumption ==
    MaxDepth \in Nat /\ LimitBound \in Nat /\ MaxUrls \in Nat /\ MaxChildren \in Nat

VARIABLES
    limit,
    collected,  \* for each address collected, the sitemap that listed it
    visited,
    calls,      \* the stack, the innermost call first; a call that is not "open" has
                \* only begun, one that is has read its body and has children left
    read        \* history: the first reading of each sitemap, its depth and children

vars == <<limit, collected, visited, calls, read>>

Call(url, depth) == [url |-> url, depth |-> depth, open |-> FALSE, children |-> <<>>]

Current == Head(calls)
Begun   == calls # <<>> /\ ~ Current.open
Open    == calls # <<>> /\ Current.open
Full    == Len(collected) >= limit

\* Mutant: a sitemap is refused only while it is being read.
RefusedOnStack ==
    \/ Current.depth > MaxDepth
    \/ Full
    \/ \E i \in 2 .. Len(calls) : calls[i].url = Current.url

Refused ==
    \/ Current.depth > MaxDepth
    \/ Full
    \/ Current.url \in visited

\* Too deep, enough collected, or seen before
Bail ==
    /\ Begun
    /\ Refused
    /\ calls' = Tail(calls)
    /\ UNCHANGED <<limit, collected, visited, read>>

\* Mutant: one unreadable sitemap ends the whole walk.
FetchFailsForAll ==
    /\ Begun
    /\ ~ Refused
    /\ visited' = visited \cup {Current.url}
    /\ calls' = <<>>
    /\ UNCHANGED <<limit, collected, read>>

\* Mutant: a failed request is read as if it had a body.
FetchFailsAsEmpty ==
    /\ Begun
    /\ ~ Refused
    /\ visited' = visited \cup {Current.url}
    /\ calls' = <<[Current EXCEPT !.open = TRUE]>> \o Tail(calls)
    /\ UNCHANGED <<limit, collected, read>>

\* The request fails or its answer is not a success.
FetchFails ==
    /\ Begun
    /\ ~ Refused
    /\ visited' = visited \cup {Current.url}
    /\ calls' = Tail(calls)
    /\ UNCHANGED <<limit, collected, read>>

\* Mutant: the reader does not look at the limit between two addresses.
CollectAll(n) == collected \o [i \in 1 .. n |-> Current.url]

\* The first n addresses of the body, as far as the limit allows
Collect(n) ==
    collected \o [i \in 1 .. (IF Len(collected) + n > limit THEN limit - Len(collected) ELSE n)
                     |-> Current.url]

Fetch ==
    /\ Begun
    /\ ~ Refused
    /\ visited' = visited \cup {Current.url}
    /\ \E n \in 0 .. MaxUrls : collected' = Collect(n)
    /\ \E children \in SeqOf(Sitemaps, MaxChildren) :
          calls' = <<[Current EXCEPT !.open = TRUE, !.children = children]>> \o Tail(calls)
    /\ read' = IF Current.url \in DOMAIN read
               THEN read
               ELSE [s \in DOMAIN read \cup {Current.url} |->
                       IF s = Current.url
                       THEN [depth |-> Current.depth, children |-> ToSet(calls'[1].children)]
                       ELSE read[s]]
    /\ UNCHANGED limit

ChildDepth == Current.depth + 1

NextChild ==
    /\ Open
    /\ ~ Full
    /\ Current.children # <<>>
    /\ calls' = <<Call(Head(Current.children), ChildDepth),
                  [Current EXCEPT !.children = Tail(@)]>> \o Tail(calls)
    /\ UNCHANGED <<limit, collected, visited, read>>

Return ==
    /\ Open
    /\ Full \/ Current.children = <<>>
    /\ calls' = Tail(calls)
    /\ UNCHANGED <<limit, collected, visited, read>>

Init ==
    /\ limit \in 0 .. LimitBound
    /\ collected = <<>>
    /\ visited = {}
    /\ calls = <<Call(Root, 0)>>
    /\ read = [s \in {} |-> {}]

Next == Bail \/ FetchFails \/ Fetch \/ NextChild \/ Return

Spec == Init /\ [][Next]_vars

-----------------------------------------------------------------------------

TypeOK ==
    /\ limit \in 0 .. LimitBound
    /\ collected \in Seq(Sitemaps)
    /\ visited \in SUBSET Sitemaps
    /\ calls \in Seq([url : Sitemaps, depth : Nat, open : BOOLEAN, children : Seq(Sitemaps)])
    /\ Len(calls) <= MaxDepth + 2      \* the recursion, and the call that is refused
    /\ \A i \in DOMAIN calls : calls[i].open => calls[i].url \in DOMAIN read
    /\ DOMAIN read \subseteq visited

\* The walk never collects more than limit addresses, however they are spread over the
\* sitemaps it reads: SiteCrawl takes this for granted of its sitemap.
WithinLimit == Len(collected) <= limit

\* "The same sitemap URL has already been visited": a sitemap listed by several others,
\* or by itself, contributes its addresses once.
ContributesOnce ==
    \A s \in Sitemaps :
        Cardinality({i \in DOMAIN collected : collected[i] = s}) <= MaxUrls

\* A walk that ends below its limit has tried every sitemap listed by one it read above
\* the deepest level, whatever failed on the way or was seen before.  (One first read at
\* the deepest level is not expanded, and not read again when it is met higher up.)
NothingMissed ==
    calls = <<>> /\ ~ Full =>
        /\ Root \in visited
        /\ \A s \in DOMAIN read :
              read[s].depth < MaxDepth => read[s].children \subseteq visited
=============================================================================
