-------------------------- MODULE SitemapWalkProofs --------------------------
(***************************************************************************)
(* Proofs about SitemapWalk, for any sitemaps, limits and depth.           *)
(***************************************************************************)
EXTENDS SitemapWalk, FiniteSetTheorems, SequenceTheorems, TLAPS

Frame == [url : Sitemaps, depth : Nat, open : BOOLEAN, children : Seq(Sitemaps)]

-----------------------------------------------------------------------------
(***************************************************************************)
(* Stacks: what popping, replacing the top and pushing do place by place   *)
(***************************************************************************)

LEMMA Popped ==
    ASSUME NEW s \in Seq(Frame), s # <<>>
    PROVE  /\ Tail(s) \in Seq(Frame) /\ Len(Tail(s)) = Len(s) - 1
           /\ \A i \in 1 .. Len(Tail(s)) : Tail(s)[i] = s[i + 1]
           /\ Head(s) = s[1] /\ Head(s) \in Frame /\ Len(s) \in Nat \ {0}
  BY HeadTailProperties, EmptySeq, LenProperties

LEMMA Replaced ==
    ASSUME NEW s \in Seq(Frame), s # <<>>, NEW x \in Frame
    PROVE  LET u == <<x>> \o Tail(s)
           IN  /\ u \in Seq(Frame) /\ Len(u) = Len(s)
               /\ u[1] = x
               /\ \A i \in 2 .. Len(s) : u[i] = s[i]
<1>1. <<x>> \in Seq(Frame) /\ Len(<<x>>) = 1 /\ <<x>>[1] = x
  OBVIOUS
<1>2. /\ Tail(s) \in Seq(Frame) /\ Len(Tail(s)) = Len(s) - 1 /\ Len(s) \in Nat \ {0}
      /\ \A i \in 1 .. Len(s) - 1 : Tail(s)[i] = s[i + 1]
  BY Popped
<1> DEFINE u == <<x>> \o Tail(s)
<1>3. /\ u \in Seq(Frame) /\ Len(u) = 1 + Len(Tail(s))
      /\ \A i \in 1 .. 1 + Len(Tail(s)) : u[i] = IF i <= 1 THEN <<x>>[i] ELSE Tail(s)[i - 1]
  BY <1>1, <1>2, ConcatProperties
<1> HIDE DEF u
<1>4. u[1] = x
  BY <1>1, <1>2, <1>3
<1>5. ASSUME NEW i \in 2 .. Len(s) PROVE u[i] = s[i]
  <2>1. i - 1 \in 1 .. Len(s) - 1 /\ (i - 1) + 1 = i
    BY <1>2
  <2>2. u[i] = Tail(s)[i - 1]
    BY <1>2, <1>3
  <2> QED
    BY <1>2, <2>1, <2>2
<1>6. Len(u) = Len(s)
  BY <1>2, <1>3
<1> QED
  BY <1>3, <1>4, <1>5, <1>6 DEF u

LEMMA Pushed ==
    ASSUME NEW s \in Seq(Frame), s # <<>>, NEW x \in Frame, NEW y \in Frame
    PROVE  LET u == <<x, y>> \o Tail(s)
           IN  /\ u \in Seq(Frame) /\ Len(u) = Len(s) + 1
               /\ u[1] = x /\ u[2] = y
               /\ \A i \in 2 .. Len(s) : u[i + 1] = s[i]
<1>1. <<x, y>> \in Seq(Frame) /\ Len(<<x, y>>) = 2 /\ <<x, y>>[1] = x /\ <<x, y>>[2] = y
  OBVIOUS
<1>2. /\ Tail(s) \in Seq(Frame) /\ Len(Tail(s)) = Len(s) - 1 /\ Len(s) \in Nat \ {0}
      /\ \A i \in 1 .. Len(s) - 1 : Tail(s)[i] = s[i + 1]
  BY Popped
<1> DEFINE u == <<x, y>> \o Tail(s)
<1>3. /\ u \in Seq(Frame) /\ Len(u) = 2 + Len(Tail(s))
      /\ \A i \in 1 .. 2 + Len(Tail(s)) : u[i] = IF i <= 2 THEN <<x, y>>[i] ELSE Tail(s)[i - 2]
  BY <1>1, <1>2, ConcatProperties
<1> HIDE DEF u
<1>4. u[1] = x /\ u[2] = y
  BY <1>1, <1>2, <1>3
<1>5. ASSUME NEW i \in 2 .. Len(s) PROVE u[i + 1] = s[i]
  <2>1. i - 1 \in 1 .. Len(s) - 1 /\ (i - 1) + 1 = i /\ (i + 1) - 2 = i - 1
    BY <1>2
  <2>2. u[i + 1] = Tail(s)[i - 1]
    BY <1>2, <1>3, <2>1
  <2> QED
    BY <1>2, <2>1, <2>2
<1>6. Len(u) = Len(s) + 1
  BY <1>2, <1>3
<1> QED
  BY <1>3, <1>4, <1>5, <1>6 DEF u

-----------------------------------------------------------------------------
(***************************************************************************)
(* The invariant                                                           *)
(***************************************************************************)

Types ==
    /\ limit \in 0 .. LimitBound
    /\ collected \in Seq(Sitemaps)
    /\ visited \in SUBSET Sitemaps
    /\ calls \in Seq(Frame)
    /\ read \in [DOMAIN read -> [depth : Nat, children : SUBSET Sitemaps]]
    /\ DOMAIN read \subseteq visited

\* A call is as deep as the stack below it; all but the innermost have read their body,
\* which is the first reading of their sitemap, above the deepest level or on it.
Nested ==
    \A i \in 1 .. Len(calls) :
        /\ calls[i].depth = Len(calls) - i
        /\ i > 1 => calls[i].open
        /\ calls[i].open => /\ calls[i].depth <= MaxDepth
                            /\ calls[i].url \in DOMAIN read
                            /\ read[calls[i].url].depth = calls[i].depth

\* A sitemap's addresses are collected while it is visited, and no more than MaxUrls.
Places(s) == {i \in 1 .. Len(collected) : collected[i] = s}

Counted ==
    /\ Len(collected) <= limit
    /\ \A i \in 1 .. Len(collected) : collected[i] \in visited
    /\ \A s \in Sitemaps : Cardinality(Places(s)) <= MaxUrls

\* A sitemap that is due but not tried: its turn has come, or is still to come.
Due(c, s) ==
    \/ c \in visited
    \/ \E i \in 1 .. Len(calls) :
          /\ calls[i].open /\ calls[i].url = s
          /\ \E k \in 1 .. Len(calls[i].children) : calls[i].children[k] = c
    \/ \E i \in 1 .. Len(calls) :
          ~ calls[i].open /\ calls[i].url = c /\ calls[i].depth <= MaxDepth

RootDue ==
    \/ Root \in visited
    \/ \E i \in 1 .. Len(calls) : ~ calls[i].open /\ calls[i].url = Root /\ calls[i].depth = 0

AllDue ==
    Full \/ /\ RootDue
            /\ \A s \in DOMAIN read : read[s].depth < MaxDepth =>
                  \A c \in read[s].children : Due(c, s)

-----------------------------------------------------------------------------
(***************************************************************************)
(* What each action does to the stack                                      *)
(***************************************************************************)

LEMMA PopShape ==
    ASSUME Types, calls # <<>>, calls' = Tail(calls)
    PROVE  /\ calls' \in Seq(Frame) /\ Len(calls') = Len(calls) - 1 /\ Len(calls) \in Nat \ {0}
           /\ \A i \in 1 .. Len(calls') : calls'[i] = calls[i + 1]
           /\ Current = calls[1] /\ calls[1] \in Frame
  BY Popped DEF Types, Current

\* The body of a sitemap: its addresses, the sitemaps it lists, and its first reading.
LEMMA FetchShape ==
    ASSUME Types, Fetch
    PROVE  \E n \in 0 .. MaxUrls, ch \in Seq(Sitemaps) :
              /\ calls # <<>> /\ Current = calls[1] /\ calls[1] \in Frame /\ ~ calls[1].open
              /\ Len(calls) \in Nat \ {0} /\ ~ Refused
              /\ collected' = Collect(n) /\ limit' = limit
              /\ visited' = visited \cup {calls[1].url}
              /\ calls' \in Seq(Frame) /\ Len(calls') = Len(calls)
              /\ calls'[1].url = calls[1].url /\ calls'[1].depth = calls[1].depth
              /\ calls'[1].open /\ calls'[1].children = ch
              /\ \A i \in 2 .. Len(calls) : calls'[i] = calls[i]
              /\ DOMAIN read' = DOMAIN read \cup {calls[1].url}
              /\ read'[calls[1].url].depth = calls[1].depth
              /\ read'[calls[1].url].children = {ch[k] : k \in 1 .. Len(ch)}
              /\ read' \in [DOMAIN read' -> [depth : Nat, children : SUBSET Sitemaps]]
              /\ \A s \in DOMAIN read : read'[s] = read[s]
<1>1. /\ calls \in Seq(Frame) /\ calls # <<>> /\ Current = calls[1] /\ calls[1] \in Frame
      /\ ~ calls[1].open /\ Len(calls) \in Nat \ {0} /\ ~ Refused
      /\ limit' = limit /\ visited' = visited \cup {calls[1].url}
  BY Popped DEF Fetch, Begun, Types, Current
<1>2. calls[1].url \notin DOMAIN read /\ calls[1].url \in Sitemaps /\ calls[1].depth \in Nat
  BY <1>1 DEF Refused, Types, Frame
<1>3. PICK n \in 0 .. MaxUrls : collected' = Collect(n)
  BY DEF Fetch
<1>4. PICK ch \in SeqOf(Sitemaps, MaxChildren) :
         calls' = <<[Current EXCEPT !.open = TRUE, !.children = ch]>> \o Tail(calls)
  BY DEF Fetch
<1>5. ch \in Seq(Sitemaps)
  BY <1>4 DEF SeqOf
<1> DEFINE x == [Current EXCEPT !.open = TRUE, !.children = ch]
<1>6. /\ x \in Frame /\ x.url = calls[1].url /\ x.depth = calls[1].depth /\ x.open
      /\ x.children = ch
  BY <1>1, <1>5 DEF Frame
<1>7. calls' = <<x>> \o Tail(calls)
  BY <1>4
<1> HIDE DEF x
<1>8. /\ calls' \in Seq(Frame) /\ Len(calls') = Len(calls) /\ calls'[1] = x
      /\ \A i \in 2 .. Len(calls) : calls'[i] = calls[i]
  BY <1>1, <1>6, <1>7, Replaced
<1>9. DOMAIN ch = 1 .. Len(ch) /\ ToSet(calls'[1].children) = {ch[k] : k \in 1 .. Len(ch)}
  BY <1>5, <1>6, <1>8, LenProperties DEF ToSet
<1> DEFINE kids == {ch[k] : k \in 1 .. Len(ch)}
<1>10. kids \in SUBSET Sitemaps
  BY <1>5, <1>9, ElementOfSeq
<1>11. read' = [s \in DOMAIN read \cup {calls[1].url} |->
                  IF s = calls[1].url THEN [depth |-> calls[1].depth, children |-> kids] ELSE read[s]]
  BY <1>1, <1>2, <1>9 DEF Fetch
<1> HIDE DEF kids
<1>12. /\ DOMAIN read' = DOMAIN read \cup {calls[1].url}
       /\ read'[calls[1].url].depth = calls[1].depth
       /\ read'[calls[1].url].children = kids
       /\ \A s \in DOMAIN read : read'[s] = read[s]
  BY <1>2, <1>11
<1>13. read' \in [DOMAIN read' -> [depth : Nat, children : SUBSET Sitemaps]]
  BY <1>2, <1>10, <1>11 DEF Types
<1> QED
  BY <1>1, <1>3, <1>5, <1>6, <1>8, <1>12, <1>13 DEF kids

LEMMA NextChildShape ==
    ASSUME Types, NextChild
    PROVE  /\ calls # <<>> /\ Current = calls[1] /\ calls[1] \in Frame /\ calls[1].open
           /\ Len(calls) \in Nat \ {0} /\ ~ Full /\ calls[1].children # <<>>
           /\ UNCHANGED <<limit, collected, visited, read>>
           /\ calls' \in Seq(Frame) /\ Len(calls') = Len(calls) + 1
           /\ calls'[1].url = Head(calls[1].children) /\ calls'[1].depth = calls[1].depth + 1
           /\ ~ calls'[1].open
           /\ calls'[2].url = calls[1].url /\ calls'[2].depth = calls[1].depth /\ calls'[2].open
           /\ calls'[2].children = Tail(calls[1].children)
           /\ \A i \in 2 .. Len(calls) : calls'[i + 1] = calls[i]
<1>1. /\ calls \in Seq(Frame) /\ calls # <<>> /\ Current = calls[1] /\ calls[1] \in Frame
      /\ calls[1].open /\ Len(calls) \in Nat \ {0} /\ ~ Full /\ calls[1].children # <<>>
      /\ UNCHANGED <<limit, collected, visited, read>>
  BY Popped DEF NextChild, Open, Types, Current
<1>2. /\ Head(calls[1].children) \in Sitemaps /\ Tail(calls[1].children) \in Seq(Sitemaps)
      /\ calls[1].depth + 1 \in Nat
  BY <1>1, HeadTailProperties DEF Frame
<1> DEFINE x == Call(Head(Current.children), ChildDepth)
           y == [Current EXCEPT !.children = Tail(@)]
<1>3. x \in Frame /\ x.url = Head(calls[1].children) /\ x.depth = calls[1].depth + 1 /\ ~ x.open
  BY <1>1, <1>2, EmptySeq DEF Frame, Call, ChildDepth
<1>4. /\ y \in Frame /\ y.url = calls[1].url /\ y.depth = calls[1].depth /\ y.open
      /\ y.children = Tail(calls[1].children)
  BY <1>1, <1>2 DEF Frame
<1>5. calls' = <<x, y>> \o Tail(calls)
  BY DEF NextChild
<1> HIDE DEF x, y
<1>6. /\ calls' \in Seq(Frame) /\ Len(calls') = Len(calls) + 1 /\ calls'[1] = x /\ calls'[2] = y
      /\ \A i \in 2 .. Len(calls) : calls'[i + 1] = calls[i]
  BY <1>1, <1>3, <1>4, <1>5, Pushed
<1> QED
  BY <1>1, <1>3, <1>4, <1>6

-----------------------------------------------------------------------------
(***************************************************************************)
(* The steps                                                               *)
(***************************************************************************)

\* The actions that pop the stack.
Pops == Bail \/ FetchFails \/ Return

LEMMA PopEffect ==
    ASSUME Types, Pops
    PROVE  /\ calls # <<>> /\ calls' = Tail(calls) /\ UNCHANGED <<limit, collected, read>>
           /\ visited' = visited \/ (FetchFails /\ visited' = visited \cup {Current.url})
  BY DEF Pops, Bail, FetchFails, Return, Begun, Open

LEMMA CollectType ==
    ASSUME Types, Counted, NEW n \in 0 .. MaxUrls, NEW u \in Sitemaps, Current.url = u
    PROVE  /\ Collect(n) \in Seq(Sitemaps) /\ Len(Collect(n)) <= limit
           /\ Len(Collect(n)) <= Len(collected) + n
           /\ Len(collected) <= Len(Collect(n)) /\ Len(Collect(n)) \in Nat
           /\ \A i \in 1 .. Len(Collect(n)) :
                 Collect(n)[i] = IF i <= Len(collected) THEN collected[i] ELSE u
<1> DEFINE m == IF Len(collected) + n > limit THEN limit - Len(collected) ELSE n
           t == [i \in 1 .. m |-> u]
<1>1. collected \in Seq(Sitemaps) /\ Len(collected) \in Nat /\ limit \in Nat /\ Len(collected) <= limit
  BY BoundsAssumption, LenProperties DEF Types, Counted
<1>2. m \in 0 .. n /\ Len(collected) + m <= limit /\ n \in Nat
  BY <1>1, BoundsAssumption
<1> HIDE DEF m
<1>3. t \in Seq(Sitemaps) /\ Len(t) = m /\ \A i \in 1 .. m : t[i] = u
  BY <1>2
<1> HIDE DEF t
<1>4. Collect(n) = collected \o t
  BY DEF Collect, t, m
<1>5. /\ Collect(n) \in Seq(Sitemaps) /\ Len(Collect(n)) = Len(collected) + m
      /\ \A i \in 1 .. Len(collected) + m :
            Collect(n)[i] = IF i <= Len(collected) THEN collected[i] ELSE t[i - Len(collected)]
  BY <1>1, <1>3, <1>4, ConcatProperties
<1>6. \A i \in 1 .. Len(collected) + m : ~ (i <= Len(collected)) => t[i - Len(collected)] = u
  BY <1>1, <1>2, <1>3
<1>7. /\ Len(Collect(n)) <= limit /\ Len(Collect(n)) <= Len(collected) + n
      /\ Len(collected) <= Len(Collect(n)) /\ Len(Collect(n)) \in Nat
  BY <1>1, <1>2, <1>5
<1>8. \A i \in 1 .. Len(Collect(n)) :
         Collect(n)[i] = IF i <= Len(collected) THEN collected[i] ELSE u
  BY <1>5, <1>6
<1> QED
  BY <1>5, <1>7, <1>8

LEMMA TypesStep == Types /\ Counted /\ [Next]_vars => Types'
<1> SUFFICES ASSUME Types, Counted, [Next]_vars PROVE Types'
  OBVIOUS
<1>1. CASE Pops
  <2>1. Current.url \in Sitemaps
    BY <1>1, PopEffect, PopShape DEF Frame
  <2> QED
    BY <1>1, <2>1, PopEffect, PopShape DEF Types
<1>2. CASE Fetch
  <2>1. Current.url \in Sitemaps /\ calls[1].url = Current.url
    BY <1>2, FetchShape DEF Frame
  <2> QED
    BY <1>2, <2>1, FetchShape, CollectType DEF Types
<1>3. CASE NextChild
  BY <1>3, NextChildShape DEF Types
<1>4. CASE UNCHANGED vars
  BY <1>4 DEF vars, Types
<1> QED
  BY <1>1, <1>2, <1>3, <1>4 DEF Next, Pops

LEMMA NestedStep == Types /\ Nested /\ [Next]_vars => Nested'
<1> SUFFICES ASSUME Types, Nested, [Next]_vars PROVE Nested'
  OBVIOUS
<1>1. CASE Pops
  <2>1. /\ Len(calls') = Len(calls) - 1 /\ Len(calls) \in Nat \ {0} /\ read' = read
        /\ \A i \in 1 .. Len(calls') : calls'[i] = calls[i + 1]
    BY <1>1, PopEffect, PopShape
  <2>2. \A i \in 1 .. Len(calls') : i + 1 \in 1 .. Len(calls) /\ Len(calls) - (i + 1) = Len(calls') - i
    BY <2>1
  <2> QED
    BY <2>1, <2>2 DEF Nested
<1>2. CASE Fetch
  <2>1. calls[1].depth <= MaxDepth /\ calls[1].depth \in Nat
    BY <1>2, FetchShape, BoundsAssumption DEF Refused, Frame
  <2>2. ASSUME NEW i \in 1 .. Len(calls')
        PROVE  /\ calls'[i].depth = Len(calls') - i
               /\ i > 1 => calls'[i].open
               /\ calls'[i].open => /\ calls'[i].depth <= MaxDepth
                                    /\ calls'[i].url \in DOMAIN read'
                                    /\ read'[calls'[i].url].depth = calls'[i].depth
    <3>1. CASE i = 1
      BY <1>2, <2>1, <3>1, FetchShape DEF Nested
    <3>2. CASE i # 1
      <4>1. i \in 2 .. Len(calls) /\ calls'[i] = calls[i] /\ Len(calls') = Len(calls)
        BY <1>2, <3>2, FetchShape
      <4> QED
        BY <1>2, <4>1, FetchShape DEF Nested
    <3> QED
      BY <3>1, <3>2
  <2> QED
    BY <2>2 DEF Nested
<1>3. CASE NextChild
  <2>1. ASSUME NEW i \in 1 .. Len(calls')
        PROVE  /\ calls'[i].depth = Len(calls') - i
               /\ i > 1 => calls'[i].open
               /\ calls'[i].open => /\ calls'[i].depth <= MaxDepth
                                    /\ calls'[i].url \in DOMAIN read
                                    /\ read[calls'[i].url].depth = calls'[i].depth
    <3>1. CASE i = 1
      BY <1>3, <3>1, NextChildShape DEF Nested
    <3>2. CASE i = 2
      BY <1>3, <3>2, NextChildShape DEF Nested
    <3>3. CASE i > 2
      <4>1. i - 1 \in 2 .. Len(calls) /\ calls'[(i - 1) + 1] = calls[i - 1] /\ (i - 1) + 1 = i
            /\ Len(calls) - (i - 1) = Len(calls') - i
        BY <1>3, <3>3, NextChildShape
      <4>2. calls'[i] = calls[i - 1]
        BY <4>1
      <4> QED
        BY <4>1, <4>2 DEF Nested
    <3> QED
      BY <1>3, <3>1, <3>2, <3>3, NextChildShape
  <2> QED
    BY <1>3, <2>1, NextChildShape DEF Nested
<1>4. CASE UNCHANGED vars
  BY <1>4 DEF vars, Nested
<1> QED
  BY <1>1, <1>2, <1>3, <1>4 DEF Next, Pops

LEMMA CountedStep == Types /\ Counted /\ [Next]_vars => Counted'
<1> SUFFICES ASSUME Types, Counted, [Next]_vars PROVE Counted'
  OBVIOUS
<1>1. CASE UNCHANGED <<limit, collected>> /\ visited \subseteq visited'
  BY <1>1 DEF Counted, Places
<1>2. CASE Fetch
  <2>1. PICK n \in 0 .. MaxUrls :
           /\ collected' = Collect(n) /\ limit' = limit /\ ~ Refused
           /\ visited' = visited \cup {calls[1].url} /\ Current = calls[1] /\ calls[1] \in Frame
    BY <1>2, FetchShape
  <2>2. PICK u \in Sitemaps : u = calls[1].url
    BY <2>1 DEF Frame
  <2>3. u \notin visited
    BY <2>1, <2>2 DEF Refused
  <2>4. /\ Len(collected') <= limit /\ Len(collected') <= Len(collected) + n
        /\ Len(collected) <= Len(collected') /\ Len(collected') \in Nat
        /\ \A i \in 1 .. Len(collected') :
              collected'[i] = IF i <= Len(collected) THEN collected[i] ELSE u
    BY <2>1, <2>2, CollectType
  <2>5. Len(collected) \in Nat /\ n \in Nat /\ n <= MaxUrls /\ MaxUrls \in Nat
    BY BoundsAssumption, LenProperties DEF Types
  <2>6. \A i \in 1 .. Len(collected') : collected'[i] \in visited'
    BY <2>1, <2>2, <2>4, <2>5 DEF Counted
  <2>7. ASSUME NEW s \in Sitemaps PROVE Cardinality(Places(s)') <= MaxUrls
    <3>1. CASE s # u
      <4>1. Places(s)' = Places(s)
        BY <2>4, <2>5, <3>1 DEF Places
      <4> QED
        BY <4>1 DEF Counted
    <3>2. CASE s = u
      <4>1. Places(s)' \in SUBSET (Len(collected) + 1 .. Len(collected) + n)
        BY <2>3, <2>4, <2>5, <3>2 DEF Places, Counted
      <4>2. /\ IsFiniteSet(Len(collected) + 1 .. Len(collected) + n)
            /\ Cardinality(Len(collected) + 1 .. Len(collected) + n) = n
        <5>1. Len(collected) + 1 \in Int /\ Len(collected) + n \in Int
          BY <2>5
        <5>2. /\ IsFiniteSet(Len(collected) + 1 .. Len(collected) + n)
              /\ Cardinality(Len(collected) + 1 .. Len(collected) + n)
                   = IF Len(collected) + 1 > Len(collected) + n THEN 0
                     ELSE (Len(collected) + n) - (Len(collected) + 1) + 1
          BY <5>1, FS_Interval
        <5>3. (IF Len(collected) + 1 > Len(collected) + n THEN 0
               ELSE (Len(collected) + n) - (Len(collected) + 1) + 1) = n
          BY <2>5
        <5> QED
          BY <5>2, <5>3
      <4>3. Cardinality(Places(s)') \in Nat /\ Cardinality(Places(s)') <= n
        BY <4>1, <4>2, FS_Subset, FS_CardinalityType
      <4> QED
        BY <2>5, <4>3
    <3> QED
      BY <3>1, <3>2
  <2> QED
    BY <2>1, <2>4, <2>6, <2>7 DEF Counted
<1> QED
  BY <1>1, <1>2, PopEffect, NextChildShape DEF Next, Pops, vars

LEMMA DueStep == Types /\ Nested /\ AllDue /\ [Next]_vars => AllDue'
<1> SUFFICES ASSUME Types, Nested, AllDue, [Next]_vars PROVE AllDue'
  OBVIOUS
<1>1. CASE UNCHANGED <<limit, collected>> /\ Full
  BY <1>1 DEF AllDue, Full
<1>2. CASE Pops /\ ~ Full
  <2>1. /\ Len(calls) \in Nat \ {0} /\ Len(calls') = Len(calls) - 1
        /\ \A i \in 1 .. Len(calls') : calls'[i] = calls[i + 1]
        /\ read' = read /\ visited \subseteq visited' /\ Current = calls[1] /\ calls[1] \in Frame
    BY <1>2, PopEffect, PopShape
  <2>2. ~ calls[1].open /\ calls[1].depth <= MaxDepth => calls[1].url \in visited'
    BY <1>2, <2>1, BoundsAssumption DEF Pops, Bail, FetchFails, Return, Open, Refused, Frame
  <2>3. calls[1].open => calls[1].children = <<>>
    BY <1>2, <2>1 DEF Pops, Bail, FetchFails, Return, Begun
  <2>4. \A i \in 1 .. Len(calls) : i = 1 \/ (i - 1 \in 1 .. Len(calls') /\ calls'[i - 1] = calls[i])
    BY <2>1
  <2>5. \A i \in 1 .. Len(calls) : ~ calls[i].open => i = 1
    BY DEF Nested
  <2>6. RootDue'
    BY <1>2, <2>1, <2>2, <2>5, BoundsAssumption DEF AllDue, RootDue
  <2>7. ASSUME NEW s, NEW c, Due(c, s) PROVE Due(c, s)'
    <3>1. CASE c \in visited
      BY <2>1, <3>1 DEF Due
    <3>2. ASSUME NEW i \in 1 .. Len(calls), calls[i].open, calls[i].url = s,
                 NEW k \in 1 .. Len(calls[i].children), calls[i].children[k] = c
          PROVE  Due(c, s)'
      <4>1. i # 1
        BY <2>3, <3>2, EmptySeq
      <4>2. i - 1 \in 1 .. Len(calls') /\ calls'[i - 1] = calls[i]
        BY <2>4, <4>1
      <4> QED
        BY <3>2, <4>2 DEF Due
    <3>3. ASSUME NEW i \in 1 .. Len(calls), ~ calls[i].open, calls[i].url = c, calls[i].depth <= MaxDepth
          PROVE  Due(c, s)'
      BY <2>2, <2>5, <3>3 DEF Due
    <3> QED
      BY <2>7, <3>1, <3>2, <3>3 DEF Due
  <2> QED
    BY <1>2, <2>1, <2>6, <2>7 DEF AllDue
<1>3. CASE Fetch
  <2>1. PICK ch \in Seq(Sitemaps) :
           /\ ~ calls[1].open /\ ~ Refused /\ Len(calls) \in Nat \ {0}
           /\ visited' = visited \cup {calls[1].url} /\ Len(calls') = Len(calls)
           /\ calls'[1].url = calls[1].url /\ calls'[1].open /\ calls'[1].children = ch
           /\ \A i \in 2 .. Len(calls) : calls'[i] = calls[i]
           /\ DOMAIN read' = DOMAIN read \cup {calls[1].url}
           /\ read'[calls[1].url].children = {ch[k] : k \in 1 .. Len(ch)}
           /\ \A s \in DOMAIN read : read'[s] = read[s]
           /\ Current = calls[1]
    BY <1>3, FetchShape
  <2>2. ~ Full /\ calls[1].url \notin visited
    BY <2>1 DEF Refused
  <2>3. \A i \in 1 .. Len(calls) : ~ calls[i].open => i = 1
    BY DEF Nested
  <2>4. RootDue'
    BY <2>1, <2>2, <2>3 DEF AllDue, RootDue
  <2>5. ASSUME NEW s \in DOMAIN read, NEW c, Due(c, s) PROVE Due(c, s)'
    <3>1. CASE c \in visited
      BY <2>1, <3>1 DEF Due
    <3>2. ASSUME NEW i \in 1 .. Len(calls), calls[i].open, calls[i].url = s,
                 NEW k \in 1 .. Len(calls[i].children), calls[i].children[k] = c
          PROVE  Due(c, s)'
      <4>1. i \in 2 .. Len(calls) /\ i \in 1 .. Len(calls') /\ calls'[i] = calls[i]
        BY <2>1, <3>2
      <4> QED
        BY <3>2, <4>1 DEF Due
    <3>3. ASSUME NEW i \in 1 .. Len(calls), ~ calls[i].open, calls[i].url = c
          PROVE  Due(c, s)'
      BY <2>1, <2>3, <3>3 DEF Due
    <3> QED
      BY <2>5, <3>1, <3>2, <3>3 DEF Due
  <2>6. ASSUME NEW c \in read'[calls[1].url].children PROVE Due(c, calls[1].url)'
    <3>1. 1 \in 1 .. Len(calls') /\ \E k \in 1 .. Len(calls'[1].children) : calls'[1].children[k] = c
      BY <2>1, <2>6
    <3> QED
      BY <2>1, <3>1 DEF Due
  <2> QED
    BY <2>1, <2>2, <2>4, <2>5, <2>6 DEF AllDue
<1>4. CASE NextChild
  <2>1. /\ calls[1].open /\ Len(calls) \in Nat \ {0} /\ ~ Full /\ calls[1] \in Frame
        /\ calls[1].children # <<>>
        /\ UNCHANGED <<limit, collected, visited, read>> /\ Len(calls') = Len(calls) + 1
        /\ calls'[1].url = Head(calls[1].children) /\ calls'[1].depth = calls[1].depth + 1
        /\ ~ calls'[1].open
        /\ calls'[2].url = calls[1].url /\ calls'[2].open
        /\ calls'[2].children = Tail(calls[1].children)
        /\ \A i \in 2 .. Len(calls) : calls'[i + 1] = calls[i]
    BY <1>4, NextChildShape
  <2>2. \A i \in 1 .. Len(calls) : calls[i].open
    BY <2>1 DEF Nested
  <2>3. RootDue'
    BY <2>1, <2>2 DEF AllDue, RootDue
  <2>4. ASSUME NEW s \in DOMAIN read, read[s].depth < MaxDepth, NEW c, Due(c, s) PROVE Due(c, s)'
    <3>1. CASE c \in visited
      BY <2>1, <3>1 DEF Due
    <3>2. ASSUME NEW i \in 1 .. Len(calls), calls[i].url = s,
                 NEW k \in 1 .. Len(calls[i].children), calls[i].children[k] = c
          PROVE  Due(c, s)'
      <4>1. CASE i # 1
        <5>1. i + 1 \in 1 .. Len(calls') /\ calls'[i + 1] = calls[i]
          BY <2>1, <4>1
        <5> QED
          BY <2>2, <3>2, <5>1 DEF Due
      <4>2. CASE i = 1 /\ k = 1
        <5>1. calls'[1].url = c /\ 1 \in 1 .. Len(calls')
          BY <2>1, <3>2, <4>2
        <5>2. calls[1].depth < MaxDepth /\ calls[1].depth \in Nat
          BY <2>1, <2>2, <2>4, <3>2, <4>2 DEF Nested, Frame
        <5>3. calls'[1].depth <= MaxDepth
          BY <2>1, <5>2, BoundsAssumption
        <5> QED
          BY <2>1, <5>1, <5>3 DEF Due
      <4>3. CASE i = 1 /\ k # 1
        <5>1. /\ calls[1].children \in Seq(Sitemaps)
              /\ Len(Tail(calls[1].children)) = Len(calls[1].children) - 1
              /\ \A m \in 1 .. Len(Tail(calls[1].children)) :
                    Tail(calls[1].children)[m] = calls[1].children[m + 1]
              /\ Len(calls[1].children) \in Nat
          BY <2>1, HeadTailProperties, LenProperties DEF Frame
        <5>2. k - 1 \in 1 .. Len(Tail(calls[1].children)) /\ (k - 1) + 1 = k
          BY <3>2, <4>3, <5>1
        <5>3. 2 \in 1 .. Len(calls') /\ calls'[2].children[k - 1] = c
          BY <2>1, <3>2, <4>3, <5>1, <5>2
        <5> QED
          BY <2>1, <3>2, <4>3, <5>2, <5>3 DEF Due
      <4> QED
        BY <4>1, <4>2, <4>3
    <3> QED
      BY <2>2, <2>4, <3>1, <3>2 DEF Due
  <2>5. ASSUME NEW s \in DOMAIN read, read[s].depth < MaxDepth, NEW c \in read[s].children
        PROVE  Due(c, s)'
    BY <2>1, <2>4, <2>5 DEF AllDue
  <2> QED
    BY <2>1, <2>3, <2>5 DEF AllDue
<1>5. CASE UNCHANGED vars
  BY <1>5 DEF vars, AllDue, Full, RootDue, Due
<1> QED
  BY <1>1, <1>2, <1>3, <1>4, <1>5, PopEffect DEF Next, Pops

-----------------------------------------------------------------------------
(***************************************************************************)
(* The theorems                                                            *)
(***************************************************************************)

LEMMA WalkInit == Init => Types /\ Nested /\ Counted /\ AllDue
<1> SUFFICES ASSUME Init PROVE Types /\ Nested /\ Counted /\ AllDue
  OBVIOUS
<1> DEFINE c == Call(Root, 0)
<1>1. c \in Frame /\ c.url = Root /\ c.depth = 0 /\ ~ c.open
  BY RootAssumption DEF Call, Frame
<1>2. calls = <<c>>
  BY DEF Init
<1> HIDE DEF c
<1>3. calls \in Seq(Frame) /\ Len(calls) = 1 /\ calls[1] = c
  BY <1>1, <1>2
<1>4. /\ limit \in 0 .. LimitBound /\ collected = <<>> /\ visited = {} /\ DOMAIN read = {}
      /\ read \in [DOMAIN read -> [depth : Nat, children : SUBSET Sitemaps]]
  BY DEF Init
<1>5. Types
  BY <1>3, <1>4 DEF Types
<1>6. Nested
  BY <1>1, <1>3 DEF Nested
<1>7. Counted
  <2>1. Len(collected) = 0 /\ \A s : Places(s) = {}
    BY <1>4 DEF Places
  <2> QED
    BY <1>4, <2>1, FS_EmptySet, BoundsAssumption DEF Counted
<1>8. AllDue
  BY <1>1, <1>3, <1>4 DEF AllDue, RootDue
<1> QED
  BY <1>5, <1>6, <1>7, <1>8

LEMMA WalkAlways == Spec => [](Types /\ Nested /\ Counted /\ AllDue)
  BY WalkInit, TypesStep, NestedStep, CountedStep, DueStep, PTL DEF Spec

\* The recursion never gets deeper than its bound, whatever sitemaps list each other.
THEOREM WalkTypeCorrect == Spec => []TypeOK
<1>1. Types /\ Nested => TypeOK
  <2> SUFFICES ASSUME Types, Nested PROVE TypeOK
    OBVIOUS
  <2>1. DOMAIN calls = 1 .. Len(calls) /\ Len(calls) \in Nat
    BY LenProperties DEF Types
  <2>2. Len(calls) <= MaxDepth + 2
    <3>1. CASE Len(calls) < 2
      BY <2>1, <3>1, BoundsAssumption
    <3>2. CASE Len(calls) >= 2
      <4>1. 2 \in 1 .. Len(calls)
        BY <2>1, <3>2
      <4>2. calls[2].depth = Len(calls) - 2 /\ calls[2].depth <= MaxDepth
        BY <4>1 DEF Nested
      <4> QED
        BY <2>1, <4>2, BoundsAssumption
    <3> QED
      BY <2>1, <3>1, <3>2
  <2> QED
    BY <2>1, <2>2 DEF Types, Nested, TypeOK, Frame
<1> QED
  BY <1>1, WalkAlways, PTL

\* The walk's result is no longer than the limit, over all the sitemaps it reads: what
\* SiteCrawl assumes of its seeds.
THEOREM WalkWithinLimit == Spec => []WithinLimit
<1>1. Counted => WithinLimit
  BY DEF Counted, WithinLimit
<1> QED
  BY <1>1, WalkAlways, PTL

\* A sitemap listed any number of times is read once.
THEOREM WalkReadsOnce == Spec => []ContributesOnce
<1>1. Types /\ Counted => ContributesOnce
  <2>1. ASSUME Types PROVE DOMAIN collected = 1 .. Len(collected)
    BY <2>1, LenProperties DEF Types
  <2> QED
    BY <2>1 DEF Counted, Places, ContributesOnce
<1> QED
  BY <1>1, WalkAlways, PTL

\* A walk that ends below its limit has tried whatever it was told of above the deepest
\* level: failures, circles and repetitions hide nothing.
THEOREM WalkMissesNothing == Spec => []NothingMissed
<1>1. Types /\ AllDue => NothingMissed
  <2> SUFFICES ASSUME Types, AllDue, calls = <<>>, ~ Full
               PROVE  /\ Root \in visited
                      /\ \A s \in DOMAIN read : read[s].depth < MaxDepth => read[s].children \subseteq visited
    BY DEF NothingMissed
  <2>1. 1 .. Len(calls) = {}
    OBVIOUS
  <2> QED
    BY <2>1 DEF AllDue, RootDue, Due
<1> QED
  BY <1>1, WalkAlways, PTL

=============================================================================
