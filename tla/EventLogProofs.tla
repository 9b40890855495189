---------------------------- MODULE EventLogProofs ----------------------------
(***************************************************************************)
(* Proof of what EventLog promises to the readers of events.jsonl, for any *)
(* number of polls, events and faults: that the groups on the page are     *)
(* those the gaps between events define, that they tell polls apart and    *)
(* keep a poll together, and that a fault costs one event of a later poll  *)
(* at most.                                                                *)
(***************************************************************************)
EXTENDS EventLog, TLAPS, SequenceTheorems, FiniteSetTheorems

-----------------------------------------------------------------------------
(* The order of the loop.                                                  *)

\* Every nonempty set of natural numbers has a least element.
LEMMA LeastElement ==
    ASSUME NEW T, T \subseteq Nat, T # {}
    PROVE  \E x \in T : \A y \in T : x <= y
<1>1. \E x \in T : \A y \in T : <<y, x>> \notin OpToRel(<, Nat)
    BY NatLessThanWellFounded, WFMin
<1>2. \A x, y \in Nat : y < x => <<y, x>> \in OpToRel(<, Nat)
    BY Zenon DEF OpToRel
<1>3. \A x, y \in T : ~(y < x) => x <= y
    OBVIOUS
<1> QED
    BY <1>1, <1>2, <1>3

\* Events that have a device and a time.
Dated(es) == \A e \in es : e.mac \in Nat /\ e.time \in Nat

\* Some event comes before no other: one of the earliest of the first device.
LEMMA FirstEvent ==
    ASSUME NEW es, es # {}, Dated(es)
    PROVE  \E e \in es : \A f \in es : ~Before(f, e)
<1>1. PICK m \in {e.mac : e \in es} : \A n \in {e.mac : e \in es} : m <= n
    <2>1. {e.mac : e \in es} \subseteq Nat /\ {e.mac : e \in es} # {}
        BY DEF Dated
    <2> QED
        BY <2>1, LeastElement
<1> DEFINE own == {e \in es : e.mac = m}
<1>2. PICK t \in {e.time : e \in own} : \A u \in {e.time : e \in own} : t <= u
    <2>1. {e.time : e \in own} \subseteq Nat /\ {e.time : e \in own} # {}
        BY <1>1 DEF Dated
    <2> HIDE DEF own
    <2> QED
        BY <2>1, LeastElement
<1>3. PICK e \in own : e.time = t
    BY <1>2
<1>4. ASSUME NEW f \in es PROVE ~Before(f, e)
    <2>1. e.mac \in Nat /\ f.mac \in Nat /\ e.time \in Nat /\ f.time \in Nat
        BY <1>3 DEF Dated
    <2>2. e.mac <= f.mac /\ (f.mac = e.mac => e.time <= f.time)
        BY <1>1, <1>2, <1>3
    <2> QED
        BY <2>1, <2>2 DEF Before
<1> QED
    BY <1>3, <1>4

\* s has every event of es in its place.
InOrder(s, es) ==
    /\ s \in [1 .. Cardinality(es) -> es]
    /\ \A i, j \in DOMAIN s : i < j => s[i] # s[j] /\ ~Before(s[j], s[i])

\* Finitely many events can be sorted: the first one, and then the others.
LEMMA CanBeSorted ==
    ASSUME NEW es, IsFiniteSet(es), Dated(es)
    PROVE  \E s : InOrder(s, es)
<1> DEFINE T == {n \in Nat : \E S : /\ IsFiniteSet(S) /\ Dated(S)
                                    /\ Cardinality(S) = n
                                    /\ ~\E s : InOrder(s, S)}
<1> SUFFICES ASSUME T # {} PROVE FALSE
    <2>1. Cardinality(es) \in Nat
        BY FS_CardinalityType
    <2> QED
        BY <2>1
<1>0. T \subseteq Nat
    OBVIOUS
<1>1. PICK n \in T : \A k \in T : n <= k
    BY <1>0, LeastElement
<1>2. PICK S : /\ IsFiniteSet(S) /\ Dated(S)
               /\ Cardinality(S) = n
               /\ ~\E s : InOrder(s, S)
    BY <1>1
<1>3. S # {}
    <2> SUFFICES ASSUME S = {} PROVE FALSE
        OBVIOUS
    <2>1. Cardinality(S) = 0
        BY FS_EmptySet
    <2>2. InOrder([i \in 1 .. 0 |-> 0], S)
        BY <2>1 DEF InOrder
    <2> QED
        BY <1>2, <2>2
<1>4. PICK e \in S : \A f \in S : ~Before(f, e)
    BY <1>2, <1>3, FirstEvent
<1> DEFINE R == S \ {e}
<1>5. IsFiniteSet(R) /\ Dated(R) /\ n \in Nat /\ Cardinality(R) = n - 1
    BY <1>2, <1>4, FS_RemoveElement DEF Dated
<1>6. n - 1 \in Nat /\ ~(n <= n - 1)
    BY <1>5, FS_CardinalityType
<1>7. PICK r : InOrder(r, R)
    BY <1>1, <1>5, <1>6
<1> DEFINE s == [i \in 1 .. n |-> IF i = 1 THEN e ELSE r[i - 1]]
<1>8. /\ r \in [1 .. n - 1 -> R]
      /\ \A i, j \in 1 .. n - 1 : i < j => r[i] # r[j] /\ ~Before(r[j], r[i])
    BY <1>5, <1>7 DEF InOrder
<1>9. \A i \in 1 .. n : i # 1 => i - 1 \in 1 .. n - 1 /\ s[i] = r[i - 1] /\ s[i] \in R
    BY <1>5, <1>8
<1>10. \A i \in 1 .. n : i = 1 => s[i] = e
    OBVIOUS
<1>11. s \in [1 .. n -> S]
    <2>1. \A i \in 1 .. n : s[i] \in S
        BY <1>9, <1>10
    <2> QED
        BY <2>1
<1>12. ASSUME NEW i \in 1 .. n, NEW j \in 1 .. n, i < j
       PROVE  s[i] # s[j] /\ ~Before(s[j], s[i])
    <2>1. j # 1 /\ s[j] \in R /\ s[j] = r[j - 1] /\ j - 1 \in 1 .. n - 1
        BY <1>5, <1>9, <1>12
    <2>2. CASE i = 1
        <3>1. s[i] = e
            BY <1>10, <2>2
        <3> HIDE DEF s
        <3> QED
            BY <1>4, <2>1, <3>1
    <2>3. CASE i # 1
        <3>1. i - 1 \in 1 .. n - 1 /\ s[i] = r[i - 1] /\ i - 1 < j - 1
            BY <1>5, <1>9, <1>12, <2>3
        <3> HIDE DEF s
        <3> QED
            BY <1>8, <2>1, <3>1
    <2> QED
        BY <2>2, <2>3
<1>13. InOrder(s, S)
    <2>1. DOMAIN s = 1 .. n
        OBVIOUS
    <2> HIDE DEF s
    <2> QED
        BY <1>2, <1>11, <1>12, <2>1 DEF InOrder
<1> QED
    BY <1>2, <1>13

\* What is sorted is a sequence of all events.
LEMMA SortedFacts ==
    ASSUME NEW es, IsFiniteSet(es), Dated(es)
    PROVE  /\ Sorted(es) \in Seq(es)
           /\ {Sorted(es)[i] : i \in 1 .. Len(Sorted(es))} = es
           /\ \A i, j \in 1 .. Len(Sorted(es)) :
                  i < j => ~Before(Sorted(es)[j], Sorted(es)[i])
<1> DEFINE s == Sorted(es)
           n == Cardinality(es)
<1>1. InOrder(s, es)
    BY CanBeSorted DEF InOrder, Sorted
<1> HIDE DEF s
<1>2. n \in Nat
    BY FS_CardinalityType
<1>3. s \in [1 .. n -> es] /\ DOMAIN s = 1 .. n
    BY <1>1 DEF InOrder
<1>4. s \in Seq(es) /\ Len(s) = n
    BY <1>2, <1>3
<1>5. \A i, j \in 1 .. n : i < j => s[i] # s[j] /\ ~Before(s[j], s[i])
    BY <1>1, <1>3 DEF InOrder
<1>6. \A i, j \in 1 .. n : s[i] = s[j] => i = j
    <2>1. \A i, j \in 1 .. n : i < j \/ j < i \/ i = j
        BY <1>2
    <2> QED
        BY <1>5, <2>1
<1>7. s \in Injection(1 .. n, es)
    BY <1>3, <1>6 DEF Injection, IsInjective
<1>8. Cardinality(1 .. n) = n
    BY <1>2, FS_Interval
<1>9. s \in Surjection(1 .. n, es)
    BY <1>7, <1>8, FS_Injection
<1>10. {s[i] : i \in 1 .. n} = es
    BY <1>3, <1>9 DEF Surjection
<1> QED
    BY <1>4, <1>5, <1>10 DEF s

-----------------------------------------------------------------------------
(* The loop of group_events.                                               *)

\* g are the groups after each of the first k events of s.
Loops(g, s, k) ==
    g = [n \in 0 .. k |-> IF n = 0 THEN <<>> ELSE AddEvent(g[n - 1], s[n])]

\* The recursion has a solution: one for k events is extended by one.
LEMMA LoopsExist ==
    ASSUME NEW s, NEW k \in Nat
    PROVE  \E g : Loops(g, s, k)
<1> DEFINE T == {n \in Nat : ~\E g : Loops(g, s, n)}
<1> SUFFICES ASSUME T # {} PROVE FALSE
    OBVIOUS
<1>1. PICK n \in T : \A y \in T : n <= y
    BY LeastElement
<1>2. n # 0
    <2>1. Loops([i \in 0 .. 0 |-> <<>>], s, 0)
        BY DEF Loops
    <2> QED
        BY <1>1, <2>1
<1>3. n \in Nat /\ n - 1 \in Nat /\ ~(n <= n - 1) /\ n - 1 \notin T
    BY <1>1, <1>2
<1>4. PICK f : Loops(f, s, n - 1)
    BY <1>3
<1> DEFINE g == [i \in 0 .. n |-> IF i = n THEN AddEvent(f[n - 1], s[n]) ELSE f[i]]
<1>5. ASSUME NEW i \in 0 .. n
      PROVE  g[i] = IF i = 0 THEN <<>> ELSE AddEvent(g[i - 1], s[i])
    <2>1. CASE i = n
        BY <1>2, <1>3, <2>1
    <2>2. CASE i # n
        <3>1. i \in 0 .. n - 1 /\ (i # 0 => i - 1 \in 0 .. n - 1)
            BY <1>3, <2>2
        <3>2. f[i] = IF i = 0 THEN <<>> ELSE AddEvent(f[i - 1], s[i])
            BY <1>4, <3>1, Zenon DEF Loops
        <3>3. g[i] = f[i] /\ (i # 0 => g[i - 1] = f[i - 1])
            BY <1>3, <2>2, <3>1
        <3> QED
            BY <3>2, <3>3
    <2> QED
        BY <2>1, <2>2
<1>6. Loops(g, s, n)
    <2>1. g = [i \in 0 .. n |-> g[i]]
        OBVIOUS
    <2> HIDE DEF g
    <2> QED
        BY <1>5, <2>1 DEF Loops
<1> QED
    BY <1>1, <1>6

\* A group holds events of its device, up to its time, and of every second from
\* any of them to that time.
Closed(g) ==
    /\ \A e \in g.events : e.mac = g.mac /\ e.time <= g.time
    /\ \E e \in g.events : e.time = g.time
    /\ \A e \in g.events : \A t \in e.time .. g.time :
           \E f \in g.events : f.time = t

\* The groups of the events in s, taken from es: they leave none out, and those
\* that come later are of later devices, or begin after a gap.
Apart(g, h) ==
    \/ g.mac < h.mac
    \/ g.mac = h.mac /\ \A f \in h.events : g.time + 1 < f.time

GroupsOf(gs, s, es) ==
    /\ gs \in Seq([mac : Nat, time : Nat, events : SUBSET es])
    /\ \A e \in es : e \in s <=> \E k \in 1 .. Len(gs) : e \in gs[k].events
    /\ \A k \in 1 .. Len(gs) : Closed(gs[k])
    /\ \A j, k \in 1 .. Len(gs) : j < k => Apart(gs[j], gs[k])

\* An event of the same device, later than all of a group but by a second at
\* most, keeps the group closed.
LEMMA JoinClosed ==
    ASSUME NEW es, Dated(es), NEW g \in [mac : Nat, time : Nat, events : SUBSET es],
           Closed(g), NEW e \in es, Joins(e, g), g.time <= e.time,
           NEW h, h = [g EXCEPT !.events = @ \cup {e}, !.time = Later(@, e.time)]
    PROVE  /\ h \in [mac : Nat, time : Nat, events : SUBSET es]
           /\ h.mac = g.mac /\ h.events = g.events \cup {e}
           /\ Closed(h)
<1>1. /\ e.time \in Nat /\ e.mac = g.mac
      /\ e.time = g.time \/ e.time = g.time + 1
    BY DEF Dated, Joins
<1>2. h.mac = g.mac /\ h.events = g.events \cup {e} /\ h.time = e.time
    BY <1>1 DEF Later
<1>3. h \in [mac : Nat, time : Nat, events : SUBSET es]
    BY <1>1 DEF Later
<1>4. \A f \in g.events : f.mac = g.mac /\ f.time \in Nat /\ f.time <= g.time
    BY DEF Closed, Dated
<1>5. \A f \in h.events : f.mac = h.mac /\ f.time <= h.time
    BY <1>1, <1>2, <1>4
<1>6. ASSUME NEW f \in h.events, NEW t \in f.time .. h.time
      PROVE  \E x \in h.events : x.time = t
    <2>1. CASE f = e \/ t = e.time
        <3>1. f.time = e.time => t = e.time
            BY <1>1, <1>2
        <3> QED
            BY <1>2, <2>1, <3>1
    <2>2. CASE f # e /\ t # e.time
        <3>1. f \in g.events /\ t \in f.time .. g.time
            BY <1>1, <1>2, <1>4, <2>2
        <3> QED
            BY <1>2, <3>1 DEF Closed
    <2> QED
        BY <2>1, <2>2
<1> QED
    BY <1>2, <1>3, <1>5, <1>6 DEF Closed

\* The body of the loop keeps the groups in shape when the event comes before
\* none of those that have been in the loop.
LEMMA LoopBody ==
    ASSUME NEW es, Dated(es), NEW gs, NEW s \in SUBSET es, GroupsOf(gs, s, es),
           NEW e \in es, \A f \in s : ~Before(e, f)
    PROVE  GroupsOf(AddEvent(gs, e), s \cup {e}, es)
<1> DEFINE All == [mac : Nat, time : Nat, events : SUBSET es]
           n == Len(gs)
           last == gs[n]
<1>1. /\ gs \in Seq(All) /\ n \in Nat /\ e.mac \in Nat /\ e.time \in Nat
      /\ \A k \in 1 .. n : gs[k] \in All /\ Closed(gs[k])
      /\ \A j, k \in 1 .. n : j < k => Apart(gs[j], gs[k])
      /\ \A f \in es : f \in s <=> \E k \in 1 .. n : f \in gs[k].events
      /\ n # 0 => gs # <<>>
    <2>1. gs \in Seq(All)
        BY DEF GroupsOf
    <2> HIDE DEF All
    <2>2. n \in Nat /\ \A k \in 1 .. n : gs[k] \in All
        BY <2>1, LenProperties, ElementOfSeq
    <2>3. n # 0 => gs # <<>>
        BY <2>1, EmptySeq
    <2> QED
        BY <2>1, <2>2, <2>3 DEF GroupsOf, Dated
<1>2. \A k \in 1 .. n :
          /\ gs[k].mac <= e.mac
          /\ gs[k].mac = e.mac => gs[k].time <= e.time
    <2> SUFFICES ASSUME NEW k \in 1 .. n
                 PROVE  /\ gs[k].mac <= e.mac
                        /\ gs[k].mac = e.mac => gs[k].time <= e.time
        OBVIOUS
    <2>1. PICK f \in gs[k].events : f.time = gs[k].time
        BY <1>1 DEF Closed
    <2>2. f \in es /\ f \in s /\ f.mac = gs[k].mac
        BY <1>1, <2>1 DEF Closed
    <2>3. f.mac \in Nat /\ f.time \in Nat /\ ~Before(e, f)
        BY <2>2 DEF Dated
    <2> QED
        BY <1>1, <2>1, <2>2, <2>3 DEF Before
<1>3. ASSUME NEW k \in 1 .. n, k # n, gs[k].mac = e.mac
      PROVE  last.mac = e.mac /\ gs[k].time + 1 < last.time /\ n \in 1 .. n
    <2>1. n \in 1 .. n /\ k < n /\ last \in All /\ gs[k] \in All
        BY <1>1, <1>3
    <2>2. Apart(gs[k], last) /\ last.mac <= e.mac
        BY <1>1, <1>2, <2>1
    <2>3. last.mac = e.mac /\ \A f \in last.events : gs[k].time + 1 < f.time
        <3> HIDE DEF last
        <3> QED
            BY <1>1, <1>3, <2>1, <2>2 DEF Apart
    <2>4. \E f \in last.events : f.time = last.time
        BY <1>1, <2>1 DEF Closed
    <2> QED
        BY <2>1, <2>3, <2>4
<1>4. CASE n # 0 /\ Joins(e, last)
    <2> DEFINE h == [last EXCEPT !.events = @ \cup {e}, !.time = Later(@, e.time)]
               ns == [gs EXCEPT ![n] = h]
    <2>1. AddEvent(gs, e) = ns
        <3>1. gs # <<>> /\ Joins(e, gs[Len(gs)])
            BY <1>1, <1>4
        <3> QED
            BY <3>1 DEF AddEvent
    <2>2. n \in 1 .. n /\ last \in All /\ Closed(last) /\ last.mac = e.mac
        BY <1>1, <1>4 DEF Joins
    <2>3. last.time <= e.time
        BY <1>2, <2>2
    <2>4. /\ h \in All /\ h.mac = last.mac /\ h.events = last.events \cup {e}
          /\ Closed(h)
        <3> HIDE DEF last
        <3> QED
            BY <1>4, <2>2, <2>3, JoinClosed
    <2> HIDE DEF h
    <2>5. /\ ns \in Seq(All) /\ Len(ns) = n
          /\ \A k \in 1 .. n : ns[k] = IF k = n THEN h ELSE gs[k]
        BY <1>1, <2>2, <2>4, ExceptSeq
    <2> HIDE DEF ns
    <2>6. \A k \in 1 .. n : Closed(ns[k])
        BY <1>1, <2>4, <2>5
    <2>7. \A f \in es : f \in s \cup {e} <=> \E k \in 1 .. n : f \in ns[k].events
        BY <1>1, <2>2, <2>4, <2>5
    <2>8. ASSUME NEW j \in 1 .. n, NEW k \in 1 .. n, j < k
          PROVE  Apart(ns[j], ns[k])
        <3>1. j # n /\ ns[j] = gs[j] /\ Apart(gs[j], gs[k])
            BY <1>1, <2>5, <2>8
        <3>2. CASE k # n
            BY <2>5, <3>1, <3>2
        <3>3. CASE k = n
            <4>1. ns[k] = h /\ Apart(gs[j], last)
                BY <2>5, <3>1, <3>3
            <4>2. CASE gs[j].mac = e.mac
                <5>1. gs[j].time + 1 < e.time
                    <6>1. gs[j].time + 1 < last.time
                        BY <1>3, <3>1, <4>2
                    <6>2. gs[j].time \in Nat /\ last.time \in Nat
                        BY <1>1, <2>2
                    <6> QED
                        BY <1>1, <2>3, <6>1, <6>2
                <5>2. \A f \in last.events : gs[j].time + 1 < f.time
                    <6>1. last.mac \in Nat /\ gs[j].mac = last.mac
                        BY <2>2, <4>2
                    <6> QED
                        BY <4>1, <6>1 DEF Apart
                <5> QED
                    BY <2>2, <2>4, <3>1, <4>1, <4>2, <5>1, <5>2 DEF Apart
            <4>3. CASE gs[j].mac # e.mac
                BY <2>2, <2>4, <3>1, <4>1, <4>3 DEF Apart
            <4> QED
                BY <4>2, <4>3
        <3> QED
            BY <3>2, <3>3
    <2> QED
        BY <2>1, <2>5, <2>6, <2>7, <2>8 DEF GroupsOf
<1>5. CASE ~(n # 0 /\ Joins(e, last))
    <2> DEFINE h == Group(e)
               ns == Append(gs, h)
    <2>1. AddEvent(gs, e) = ns
        BY <1>1, <1>5 DEF AddEvent
    <2>2. /\ h \in All /\ h.mac = e.mac /\ h.time = e.time /\ h.events = {e}
        BY <1>1 DEF Group
    <2>3. Closed(h)
        BY <1>1, <2>2 DEF Closed
    <2> HIDE DEF h, All
    <2>4. /\ ns \in Seq(All) /\ Len(ns) = n + 1
          /\ \A k \in 1 .. n : ns[k] = gs[k]
          /\ ns[n + 1] = h
        BY <1>1, <2>2, AppendProperties
    <2> HIDE DEF ns
    <2>5. \A k \in 1 .. n + 1 : k \in 1 .. n \/ k = n + 1
        BY <1>1
    <2>6. \A k \in 1 .. n + 1 : Closed(ns[k])
        BY <1>1, <2>3, <2>4, <2>5
    <2>7. \A f \in es : f \in s \cup {e} <=> \E k \in 1 .. n + 1 : f \in ns[k].events
        <3>1. n + 1 \in 1 .. n + 1 /\ \A k \in 1 .. n : k \in 1 .. n + 1
            BY <1>1
        <3> QED
            BY <1>1, <2>2, <2>4, <2>5, <3>1
    <2>8. ASSUME NEW j \in 1 .. n + 1, NEW k \in 1 .. n + 1, j < k
          PROVE  Apart(ns[j], ns[k])
        <3>1. j \in 1 .. n /\ ns[j] = gs[j]
            BY <1>1, <2>4, <2>8
        <3>2. CASE k # n + 1
            BY <1>1, <2>4, <2>5, <2>8, <3>1, <3>2
        <3>3. CASE k = n + 1
            <4>1. gs[j].mac \in Nat /\ gs[j].time \in Nat /\ gs[j].mac <= e.mac
                BY <1>1, <1>2, <3>1 DEF All
            <4>2. CASE gs[j].mac = e.mac
                <5>1. CASE j = n
                    <6>1. ~Joins(e, gs[j]) /\ gs[j].time <= e.time
                        BY <1>1, <1>2, <1>5, <3>1, <4>2, <5>1
                    <6>2. gs[j].time + 1 < e.time
                        BY <1>1, <4>1, <4>2, <6>1 DEF Joins
                    <6> QED
                        BY <2>2, <2>4, <3>1, <3>3, <4>2, <6>2 DEF Apart
                <5>2. CASE j # n
                    <6>1. /\ last.mac = e.mac /\ gs[j].time + 1 < last.time
                          /\ n \in 1 .. n
                        BY <1>3, <3>1, <4>2, <5>2
                    <6>2. last.time \in Nat /\ last.time <= e.time
                        BY <1>1, <1>2, <6>1 DEF All
                    <6>3. gs[j].time + 1 < e.time
                        BY <1>1, <4>1, <6>1, <6>2
                    <6> QED
                        BY <2>2, <2>4, <3>1, <3>3, <4>2, <6>3 DEF Apart
                <5> QED
                    BY <5>1, <5>2
            <4>3. CASE gs[j].mac # e.mac
                BY <1>1, <2>2, <2>4, <3>1, <3>3, <4>1, <4>3 DEF Apart
            <4> QED
                BY <4>2, <4>3
        <3> QED
            BY <3>2, <3>3
    <2> QED
        BY <2>1, <2>4, <2>6, <2>7, <2>8 DEF GroupsOf, All
<1> QED
    BY <1>4, <1>5

\* The loop over a sequence in which nothing comes before what has a smaller key.
LEMMA LoopGroups ==
    ASSUME NEW es, Dated(es), NEW s \in Seq(es),
           \A i, j \in 1 .. Len(s) : i < j => ~Before(s[j], s[i]),
           NEW g, Loops(g, s, Len(s))
    PROVE  GroupsOf(g[Len(s)], {s[i] : i \in 1 .. Len(s)}, es)
<1> DEFINE First(n) == {s[i] : i \in 1 .. n}
           T == {n \in 0 .. Len(s) : ~GroupsOf(g[n], First(n), es)}
<1>1. Len(s) \in Nat
    BY LenProperties
<1> SUFFICES ASSUME T # {} PROVE FALSE
    <2>1. Len(s) \in 0 .. Len(s)
        BY <1>1
    <2>2. T = {} => GroupsOf(g[Len(s)], First(Len(s)), es)
        BY <2>1, Zenon
    <2> QED
        BY <2>2, Zenon
<1>2. T \subseteq Nat
    OBVIOUS
<1>3. PICK n \in T : \A k \in T : n <= k
    BY <1>2, LeastElement
<1>4. n \in 0 .. Len(s) /\ ~GroupsOf(g[n], First(n), es)
    BY <1>3
<1>5. g[n] = IF n = 0 THEN <<>> ELSE AddEvent(g[n - 1], s[n])
    BY <1>4, Zenon DEF Loops
<1>6. CASE n = 0
    <2>1. First(n) = {} /\ g[n] = <<>>
        BY <1>5, <1>6
    <2>2. GroupsOf(<<>>, {}, es)
        BY DEF GroupsOf
    <2> HIDE DEF First
    <2> QED
        BY <1>4, <2>1, <2>2
<1>7. CASE n # 0
    <2>1. n \in 1 .. Len(s) /\ n - 1 \in 0 .. Len(s) /\ ~(n <= n - 1)
        BY <1>1, <1>4, <1>7
    <2>2. GroupsOf(g[n - 1], First(n - 1), es)
        BY <1>3, <2>1
    <2>3. First(n - 1) \in SUBSET es /\ s[n] \in es
        BY <1>1, <2>1, ElementOfSeq
    <2>4. \A f \in First(n - 1) : ~Before(s[n], f)
        BY <1>1, <2>1
    <2>5. First(n - 1) \cup {s[n]} = First(n)
        <3>1. \A i : i \in 1 .. n <=> i \in 1 .. n - 1 \/ i = n
            BY <2>1
        <3> QED
            BY <3>1
    <2> HIDE DEF First
    <2>6. GroupsOf(AddEvent(g[n - 1], s[n]), First(n - 1) \cup {s[n]}, es)
        BY <2>2, <2>3, <2>4, LoopBody
    <2> QED
        BY <1>4, <1>5, <1>7, <2>5, <2>6
<1> QED
    BY <1>6, <1>7

\* group_events finds the groups of any finite set of events.
LEMMA GroupEventsFacts ==
    ASSUME NEW es, IsFiniteSet(es), Dated(es)
    PROVE  GroupsOf(GroupEvents(es), es, es)
<1> DEFINE s == Sorted(es)
           g == CHOOSE x : Loops(x, s, Len(s))
<1>1. /\ s \in Seq(es)
      /\ {s[i] : i \in 1 .. Len(s)} = es
      /\ \A i, j \in 1 .. Len(s) : i < j => ~Before(s[j], s[i])
    BY SortedFacts
<1>2. Len(s) \in Nat
    BY <1>1, LenProperties
<1>3. Loops(g, s, Len(s))
    BY <1>2, LoopsExist, Zenon
<1>4. GroupEvents(es) = g[Len(s)]
    BY DEF GroupEvents, Loops
<1> HIDE DEF g, s
<1> QED
    BY <1>1, <1>3, <1>4, LoopGroups

\* They are the groups that the gaps define.
LEMMA GroupsAreGaps ==
    ASSUME NEW es, Dated(es), NEW gs, GroupsOf(gs, es, es),
           NEW g \in {gs[k] : k \in 1 .. Len(gs)},
           NEW h \in {gs[k] : k \in 1 .. Len(gs)},
           NEW e \in g.events, NEW f \in h.events, e.time <= f.time
    PROVE  g = h <=> Connected(es, e, f)
<1> DEFINE All == [mac : Nat, time : Nat, events : SUBSET es]
           n == Len(gs)
<1>1. /\ gs \in Seq(All) /\ n \in Nat
      /\ \A k \in 1 .. n : gs[k] \in All /\ Closed(gs[k])
      /\ \A i, k \in 1 .. n : i < k => Apart(gs[i], gs[k])
      /\ \A x \in es : \E k \in 1 .. n : x \in gs[k].events
    <2>1. gs \in Seq(All)
        BY DEF GroupsOf
    <2> HIDE DEF All
    <2>2. n \in Nat /\ \A k \in 1 .. n : gs[k] \in All
        BY <2>1, LenProperties, ElementOfSeq
    <2> QED
        BY <2>1, <2>2 DEF GroupsOf
<1>2. PICK i \in 1 .. n : g = gs[i]
    OBVIOUS
<1>3. PICK k \in 1 .. n : h = gs[k]
    OBVIOUS
<1>4. /\ g \in All /\ h \in All /\ Closed(g) /\ Closed(h)
      /\ e \in es /\ f \in es
    BY <1>1, <1>2, <1>3
<1>5. /\ e.mac = g.mac /\ f.mac = h.mac /\ e.time <= g.time /\ f.time <= h.time
      /\ e.time \in Nat /\ f.time \in Nat /\ g.time \in Nat /\ h.time \in Nat
    BY <1>4 DEF Closed, Dated
<1>6. ASSUME g = h PROVE Connected(es, e, f)
    <2>1. ASSUME NEW t \in e.time .. f.time
          PROVE  \E x \in es : x.mac = e.mac /\ x.time = t
        <3>1. t \in e.time .. g.time
            BY <1>5, <1>6
        <3>2. PICK x \in g.events : x.time = t
            BY <1>4, <3>1 DEF Closed
        <3> QED
            BY <1>4, <1>5, <3>2 DEF Closed
    <2> QED
        BY <1>5, <1>6, <2>1 DEF Connected
<1>7. ASSUME g # h, Connected(es, e, f) PROVE FALSE
    <2>1. g.mac = h.mac /\ e.mac = g.mac
        BY <1>5, <1>7 DEF Connected
    <2>2. i < k
        <3>1. i < k \/ k < i
            BY <1>1, <1>2, <1>3, <1>7
        <3>2. CASE k < i
            <4>1. Apart(h, g)
                BY <1>1, <1>2, <1>3, <3>2
            <4>2. h.time + 1 < e.time
                BY <1>4, <2>1, <4>1 DEF Apart
            <4> QED
                BY <1>5, <4>2
        <3> QED
            BY <3>1, <3>2
    <2>3. Apart(g, h)
        BY <1>1, <1>2, <1>3, <2>2
    <2>4. \A x \in h.events : g.time + 1 < x.time
        BY <1>4, <2>1, <2>3 DEF Apart
    <2>5. g.time + 1 \in e.time .. f.time
        BY <1>5, <2>4
    <2>6. PICK x \in es : x.mac = e.mac /\ x.time = g.time + 1
        BY <1>7, <2>5, Zenon DEF Connected
    <2>7. PICK l \in 1 .. n : x \in gs[l].events
        BY <1>1
    <2>8. gs[l] \in All /\ gs[l].mac = g.mac /\ x.time <= gs[l].time
        BY <1>1, <2>1, <2>6, <2>7 DEF Closed
    <2>9. CASE l = i
        BY <1>2, <1>5, <2>6, <2>8, <2>9
    <2>10. CASE i < l
        <3>1. Apart(g, gs[l])
            BY <1>1, <1>2, <2>10
        <3>2. g.time + 1 < x.time
            BY <1>4, <2>7, <2>8, <3>1 DEF Apart
        <3> QED
            BY <1>5, <2>6, <3>2
    <2>11. CASE l < i
        <3>1. Apart(gs[l], g)
            BY <1>1, <1>2, <2>11
        <3>2. gs[l].time + 1 < e.time
            BY <1>4, <2>8, <3>1 DEF Apart
        <3> QED
            BY <1>5, <2>6, <2>8, <3>2
    <2> QED
        BY <1>1, <2>9, <2>10, <2>11
<1> QED
    BY <1>6, <1>7

-----------------------------------------------------------------------------
(* The events.                                                             *)

Events == [id : Nat, poll : Nat, life : Nat, mac : Macs, time : Nat, text : Texts]

Chars == [event : Events,
          part : {"begin", "lead", "trail", "separator", "end", "newline"}]

TypeInv ==
    /\ now \in Nat /\ since \in Int /\ pc \in {"idle", "diff", "append"}
    /\ life \in Nat /\ polls \in Nat /\ events \in Nat /\ faults \in Nat
    /\ batch \in Seq(Events) /\ buffer \in Seq(Chars) /\ file \in Seq(Chars)
    /\ logged \subseteq Events

\* The events of a text, and those in the file or on their way to it.
EventsOf(t) == {t[i].event : i \in 1 .. Len(t)}

Known == EventsOf(file) \cup EventsOf(buffer) \cup {batch[i] : i \in 1 .. Len(batch)}

\* No event is younger than its clock reading, and the clock ticks once in a diff.
ClockInv ==
    /\ since <= now
    /\ pc = "diff" => now <= since + 1
    /\ \A e \in Known :
           e.time <= now /\ e.life <= life /\ e.poll <= polls

\* The events of one poll are a second apart at most.
PollInv ==
    /\ \A e, f \in Known : e.poll = f.poll => e.time <= f.time + 1
    /\ pc = "diff" => \A e \in Known : e.poll = polls => since <= e.time

\* A second in which nothing happened lies between a poll and the next one of the
\* same process, if the pause between polls takes two.
Silent(e, t) ==
    \E u \in e.time + 1 .. t - 1 : \A g \in Known : g.time # u

Gaps ==
    /\ \A e, f \in Known : e.life = f.life /\ e.poll < f.poll => Silent(e, f.time)
    /\ pc = "diff" => \A e \in Known :
                         e.life = life /\ e.poll < polls => Silent(e, since)
    /\ pc = "idle" => \A e, g \in Known : e.life = life => g.time <= since

GapInv == Interval > 1 => Gaps

EventInv == TypeInv /\ ClockInv /\ PollInv /\ GapInv

-----------------------------------------------------------------------------
(* The text.                                                               *)

Ends == {"newline", "separator"}

\* part stands in s from the k-th element on.
IsAt(part, s, k) ==
    k + Len(part) <= Len(s) + 1 /\ SubSeq(s, k, k + Len(part) - 1) = part

\* The line of e stands whole in t.
Stands(e, t) == \E k \in 1 .. Len(t) : IsAt(Line(e), t, k)

\* The events whose line begins on the remains of another, and whether t ends with
\* remains.
Torn(t) ==
    {t[p].event : p \in {q \in 2 .. Len(t) :
                            t[q].part = "begin" /\ t[q - 1].part \notin Ends}}

EndsTorn(t) == t # <<>> /\ t[Len(t)].part \notin Ends

\* Every torn line, and a torn end, is owed to a fault of its own.
Owed(t, f) ==
    /\ IsFiniteSet(Torn(t))
    /\ Cardinality(Torn(t)) + (IF EndsTorn(t) THEN 1 ELSE 0) <= f

TornInv == Owed(file \o buffer, faults)

\* What was logged stands in the file, and what is appended in the file or the
\* buffer, unless a failed write lost some of it.
LineInv ==
    /\ pc # "append" => buffer = <<>>
    /\ pc = "append" => \A i \in 1 .. Len(batch) :
                           batch[i] \notin lost => Stands(batch[i], file \o buffer)
    /\ \A e \in logged : Stands(e, file)

TextInv == TornInv /\ LineInv

\* What the line of an event looks like.
LEMMA LineFacts ==
    ASSUME NEW e \in Events
    PROVE  /\ Line(e) \in Seq(Chars) /\ Json(e) \in Seq(Chars)
           /\ Len(Json(e)) \in 2 .. 4 /\ Len(Line(e)) = Len(Json(e)) + 1
           /\ \A i \in 1 .. Len(Json(e)) : Line(e)[i] = Json(e)[i]
           /\ \A i \in 1 .. Len(Line(e)) :
                  /\ Line(e)[i].event = e
                  /\ Line(e)[i].part = "begin" <=> i = 1
                  /\ Line(e)[i].part = "newline" <=> i = Len(Line(e))
                  /\ Line(e)[i].part = "separator" => e.text = "split"
<1> DEFINE P == {"begin", "lead", "trail", "separator", "end", "newline"}
           ps == Parts(e.text)
           k == Len(ps)
<1>1. /\ ps \in Seq(P) /\ k \in 2 .. 4
      /\ \A i \in 1 .. k :
             /\ ps[i] = "begin" <=> i = 1
             /\ ps[i] # "newline"
             /\ ps[i] = "separator" => e.text = "split"
    <2>1. e.text \in {"plain", "wide", "split"}
        BY TextsAssumption DEF Events
    <2>2. CASE e.text = "plain"
        BY <2>2 DEF Parts
    <2>3. CASE e.text = "wide"
        BY <2>3 DEF Parts
    <2>4. CASE e.text = "split"
        BY <2>4 DEF Parts
    <2> QED
        BY <2>1, <2>2, <2>3, <2>4
<1> HIDE DEF ps
<1>2. ps \in [1 .. k -> P] /\ DOMAIN ps = 1 .. k
    BY <1>1, LenProperties
<1> DEFINE j == Json(e)
           w == Written(e, <<"newline">>)
<1>3. j = [i \in 1 .. k |-> [event |-> e, part |-> ps[i]]]
    BY <1>2 DEF Json, Written, ps
<1>4. /\ j \in Seq(Chars) /\ Len(j) = k
      /\ \A i \in 1 .. k : j[i] = [event |-> e, part |-> ps[i]]
    <2>1. \A i \in 1 .. k : [event |-> e, part |-> ps[i]] \in Chars
        BY <1>2 DEF Chars
    <2> HIDE DEF j
    <2>2. j \in [1 .. k -> Chars]
        BY <1>3, <2>1
    <2>3. k \in Nat
        BY <1>1
    <2> QED
        BY <1>3, <2>2, <2>3
<1>5. w \in Seq(Chars) /\ Len(w) = 1 /\ w[1] = [event |-> e, part |-> "newline"]
    <2> DEFINE c == [event |-> e, part |-> "newline"]
    <2>1. c \in Chars
        BY DEF Chars
    <2>2. w = [i \in 1 .. 1 |-> c]
        BY DEF Written
    <2> HIDE DEF c, w
    <2>3. w \in [1 .. 1 -> Chars] /\ w[1] = c
        BY <2>1, <2>2
    <2>4. \A n \in Nat : \A f \in [1 .. n -> Chars] : f \in Seq(Chars) /\ Len(f) = n
        OBVIOUS
    <2>5. w \in Seq(Chars) /\ Len(w) = 1
        BY <2>3, <2>4
    <2> QED
        BY <2>3, <2>5 DEF c
<1> HIDE DEF j, w
<1> DEFINE l == j \o w
<1>6. Line(e) = l
    BY DEF Line, j, w
<1>7. /\ l \in Seq(Chars) /\ Len(l) = k + 1
      /\ \A i \in 1 .. k + 1 : l[i] = IF i <= k THEN j[i] ELSE w[i - k]
    <2>1. j \in Seq(Chars) /\ w \in Seq(Chars)
        BY <1>4, <1>5
    <2>2. /\ l \in Seq(Chars) /\ Len(l) = Len(j) + Len(w)
          /\ \A i \in 1 .. Len(j) + Len(w) :
                 l[i] = IF i <= Len(j) THEN j[i] ELSE w[i - Len(j)]
        BY <2>1, ConcatProperties
    <2> HIDE DEF l
    <2> QED
        BY <1>4, <1>5, <2>2
<1> HIDE DEF l
<1>8. \A i \in 1 .. k + 1 : i \in 1 .. k \/ (i = k + 1 /\ ~(i <= k) /\ i - k = 1)
    BY <1>1
<1>9. \A i \in 1 .. k : i <= k /\ i \in 1 .. k + 1 /\ i # k + 1
    BY <1>1
<1>10. \A i \in 1 .. k : l[i] = [event |-> e, part |-> ps[i]]
    BY <1>4, <1>7, <1>9
<1>11. l[k + 1] = [event |-> e, part |-> "newline"]
    BY <1>1, <1>5, <1>7, <1>8
<1>12. \A i \in 1 .. k + 1 :
          /\ l[i].event = e
          /\ l[i].part = "begin" <=> i = 1
          /\ l[i].part = "newline" <=> i = k + 1
          /\ l[i].part = "separator" => e.text = "split"
    <2>1. ASSUME NEW i \in 1 .. k + 1
          PROVE  /\ l[i].event = e
                 /\ l[i].part = "begin" <=> i = 1
                 /\ l[i].part = "newline" <=> i = k + 1
                 /\ l[i].part = "separator" => e.text = "split"
        <3>1. CASE i \in 1 .. k
            <4>1. l[i].event = e /\ l[i].part = ps[i] /\ i # k + 1
                <5>1. l[i] = [event |-> e, part |-> ps[i]] /\ i # k + 1
                    BY <1>9, <1>10, <3>1
                <5> QED
                    BY <5>1
            <4> QED
                BY <1>1, <3>1, <4>1
        <3>2. CASE i = k + 1
            <4>1. l[i].event = e /\ l[i].part = "newline" /\ i # 1
                BY <1>1, <1>11, <3>2
            <4> QED
                BY <3>2, <4>1
        <3> QED
            BY <1>8, <3>1, <3>2
    <2> QED
        BY <2>1
<1> QED
    BY <1>1, <1>4, <1>6, <1>7, <1>9, <1>10, <1>12 DEF j

\* IsAt, character by character.
LEMMA AtPoints ==
    ASSUME NEW x \in Seq(Chars), NEW t \in Seq(Chars), NEW k \in 1 .. Len(t) + 1
    PROVE  IsAt(x, t, k) <=>
               /\ k + Len(x) <= Len(t) + 1
               /\ \A i \in 1 .. Len(x) : t[k + i - 1] = x[i]
<1> DEFINE n == Len(x)
           y == SubSeq(t, k, k + n - 1)
<1>1. n \in Nat /\ Len(t) \in Nat /\ k \in Nat
    BY LenProperties
<1> SUFFICES ASSUME k + n <= Len(t) + 1
             PROVE  y = x <=> \A i \in 1 .. n : t[k + i - 1] = x[i]
    BY DEF IsAt
<1>2. \A i \in k .. k + n - 1 : t[i] \in Chars
    <2>1. \A i \in k .. k + n - 1 : i \in 1 .. Len(t)
        BY <1>1
    <2> QED
        BY <2>1, ElementOfSeq
<1>3. k + n - 1 \in Int /\ (k + n - 1) - k + 1 = n /\ (k <= k + n - 1 <=> n # 0)
    BY <1>1
<1>4. /\ y \in Seq(Chars)
      /\ Len(y) = IF k <= k + n - 1 THEN (k + n - 1) - k + 1 ELSE 0
      /\ \A i \in 1 .. (k + n - 1) - k + 1 : y[i] = t[k + i - 1]
    BY <1>1, <1>2, <1>3, SubSeqProperties
<1> HIDE DEF y
<1>5. Len(y) = n /\ \A i \in 1 .. n : y[i] = t[k + i - 1]
    BY <1>3, <1>4
<1>6. (\A i \in 1 .. n : t[k + i - 1] = x[i]) => y = x
    <2> SUFFICES ASSUME \A i \in 1 .. n : t[k + i - 1] = x[i] PROVE y = x
        OBVIOUS
    <2>1. \A i \in 1 .. Len(y) : y[i] = x[i]
        BY <1>5
    <2> QED
        BY <1>4, <1>5, <2>1, SeqEqual
<1> QED
    BY <1>5, <1>6

\* A line that stands in a text stands in a longer one.
LEMMA StandsStill ==
    ASSUME NEW e \in Events, NEW t \in Seq(Chars), NEW x \in Seq(Chars), Stands(e, t)
    PROVE  Stands(e, t \o x)
<1> DEFINE l == Line(e)
<1>1. /\ t \o x \in Seq(Chars) /\ Len(t \o x) = Len(t) + Len(x)
      /\ \A i \in 1 .. Len(t) + Len(x) :
             (t \o x)[i] = IF i <= Len(t) THEN t[i] ELSE x[i - Len(t)]
    BY ConcatProperties
<1>2. Len(t) \in Nat /\ Len(x) \in Nat /\ l \in Seq(Chars) /\ Len(l) \in Nat
    BY LenProperties, LineFacts
<1>3. PICK k \in 1 .. Len(t) : IsAt(l, t, k)
    BY DEF Stands
<1>4. k + Len(l) <= Len(t) + 1 /\ \A i \in 1 .. Len(l) : t[k + i - 1] = l[i]
    BY <1>2, <1>3, AtPoints
<1> HIDE DEF l
<1>5. \A i \in 1 .. Len(l) : k + i - 1 \in 1 .. Len(t)
    BY <1>2, <1>4
<1>6. \A i \in 1 .. Len(l) : (t \o x)[k + i - 1] = l[i]
    BY <1>1, <1>2, <1>4, <1>5
<1>7. k \in 1 .. Len(t \o x) /\ k \in 1 .. Len(t \o x) + 1
      /\ k + Len(l) <= Len(t \o x) + 1
    BY <1>1, <1>2, <1>4
<1>8. IsAt(l, t \o x, k)
    BY <1>1, <1>2, <1>6, <1>7, AtPoints
<1> QED
    BY <1>7, <1>8 DEF Stands, l

\* So does the last line.
LEMMA LastStands ==
    ASSUME NEW e \in Events, NEW t \in Seq(Chars)
    PROVE  Stands(e, t \o Line(e))
<1> DEFINE l == Line(e)
<1>1. l \in Seq(Chars) /\ Len(l) \in Nat /\ Len(l) # 0 /\ Len(t) \in Nat
    BY LenProperties, LineFacts
<1> HIDE DEF l
<1>2. /\ t \o l \in Seq(Chars) /\ Len(t \o l) = Len(t) + Len(l)
      /\ \A i \in 1 .. Len(t) + Len(l) :
             (t \o l)[i] = IF i <= Len(t) THEN t[i] ELSE l[i - Len(t)]
    BY <1>1, ConcatProperties
<1> DEFINE k == Len(t) + 1
<1>3. \A i \in 1 .. Len(l) :
          k + i - 1 \in 1 .. Len(t) + Len(l) /\ ~(k + i - 1 <= Len(t))
          /\ (k + i - 1) - Len(t) = i
    BY <1>1
<1>4. \A i \in 1 .. Len(l) : (t \o l)[k + i - 1] = l[i]
    BY <1>2, <1>3
<1>5. k \in 1 .. Len(t \o l) /\ k \in 1 .. Len(t \o l) + 1
      /\ k + Len(l) <= Len(t \o l) + 1
    BY <1>1, <1>2
<1>6. IsAt(l, t \o l, k)
    BY <1>1, <1>2, <1>4, <1>5, AtPoints
<1> QED
    BY <1>5, <1>6 DEF Stands, l

\* A text of whole lines, one at least for each event of s and for no other.
Lines(t, s) ==
    /\ t \in Seq(Chars)
    /\ \A p \in 1 .. Len(t) : t[p].event \in s
    /\ \A e \in s : Stands(e, t)
    /\ t # <<>> => t[Len(t)].part = "newline"
    /\ \A p \in 2 .. Len(t) : t[p].part = "begin" => t[p - 1].part = "newline"

\* One more line keeps the lines whole.
LEMMA OneMoreLine ==
    ASSUME NEW s \in SUBSET Events, NEW t, Lines(t, s), NEW e \in Events
    PROVE  Lines(t \o Line(e), s \cup {e})
<1> DEFINE l == Line(e)
           x == t \o l
           n == Len(t)
<1>1. /\ l \in Seq(Chars) /\ Len(l) \in Nat /\ Len(l) # 0
      /\ \A i \in 1 .. Len(l) :
             /\ l[i].event = e
             /\ l[i].part = "begin" <=> i = 1
             /\ l[i].part = "newline" <=> i = Len(l)
    BY LineFacts
<1>2. t \in Seq(Chars) /\ n \in Nat
    BY LenProperties DEF Lines
<1>3. \A f \in s \cup {e} : Stands(f, x)
    BY <1>1, <1>2, StandsStill, LastStands DEF Lines
<1> HIDE DEF l
<1>4. /\ x \in Seq(Chars) /\ Len(x) = n + Len(l)
      /\ \A i \in 1 .. n + Len(l) : x[i] = IF i <= n THEN t[i] ELSE l[i - n]
    BY <1>1, <1>2, ConcatProperties
<1> HIDE DEF x
<1>5. \A p \in 1 .. n + Len(l) :
          \/ p \in 1 .. n /\ p <= n
          \/ p - n \in 1 .. Len(l) /\ ~(p <= n)
    BY <1>1, <1>2
<1>6. \A p \in 1 .. Len(x) : x[p].event \in s \cup {e}
    <2> SUFFICES ASSUME NEW p \in 1 .. n + Len(l) PROVE x[p].event \in s \cup {e}
        BY <1>4
    <2>1. CASE p \in 1 .. n /\ p <= n
        BY <1>4, <2>1 DEF Lines
    <2>2. CASE p - n \in 1 .. Len(l) /\ ~(p <= n)
        <3>1. x[p] = l[p - n]
            BY <1>4, <2>2
        <3> QED
            BY <1>1, <2>2, <3>1
    <2> QED
        BY <1>5, <2>1, <2>2
<1>7. x[Len(x)].part = "newline"
    <2>1. Len(x) \in 1 .. n + Len(l) /\ ~(Len(x) <= n) /\ Len(x) - n = Len(l)
          /\ Len(l) \in 1 .. Len(l)
        BY <1>1, <1>2, <1>4
    <2> QED
        BY <1>1, <1>4, <2>1
<1>8. ASSUME NEW p \in 2 .. Len(x), x[p].part = "begin"
      PROVE  x[p - 1].part = "newline"
    <2>1. p \in 1 .. n + Len(l) /\ p - 1 \in 1 .. n + Len(l)
        BY <1>1, <1>2, <1>4
    <2>2. CASE p <= n
        <3>1. p \in 2 .. n /\ p - 1 <= n
            BY <1>2, <2>2
        <3>2. x[p] = t[p] /\ x[p - 1] = t[p - 1]
            BY <1>4, <2>1, <2>2, <3>1
        <3> QED
            BY <1>8, <3>1, <3>2 DEF Lines
    <2>3. CASE ~(p <= n)
        <3>1. x[p] = l[p - n] /\ p - n \in 1 .. Len(l)
            BY <1>4, <1>5, <2>1, <2>3
        <3>2. p - n = 1
            BY <1>1, <1>8, <3>1
        <3>3. p - 1 = n /\ n # 0 /\ p - 1 <= n
            BY <1>2, <3>2
        <3>4. x[p - 1] = t[n] /\ t # <<>>
            BY <1>2, <1>4, <2>1, <3>3
        <3> QED
            BY <3>4 DEF Lines
    <2> QED
        BY <2>2, <2>3
<1> QED
    BY <1>3, <1>4, <1>6, <1>7, <1>8 DEF Lines, x, l

\* f are the texts of the first events of es, up to k of them.
Copies(f, es, k) ==
    f = [n \in 0 .. k |-> IF n = 0 THEN <<>> ELSE f[n - 1] \o Line(es[n])]

\* The recursion has a solution: one for k events is extended by one.
LEMMA CopiesExist ==
    ASSUME NEW es, NEW k \in Nat
    PROVE  \E f : Copies(f, es, k)
<1> DEFINE T == {n \in Nat : ~\E f : Copies(f, es, n)}
<1> SUFFICES ASSUME T # {} PROVE FALSE
    OBVIOUS
<1>1. PICK n \in T : \A y \in T : n <= y
    BY LeastElement
<1>2. n # 0
    <2>1. Copies([i \in 0 .. 0 |-> <<>>], es, 0)
        BY DEF Copies
    <2> QED
        BY <1>1, <2>1
<1>3. n \in Nat /\ n - 1 \in Nat /\ ~(n <= n - 1) /\ n - 1 \notin T
    BY <1>1, <1>2
<1>4. PICK f : Copies(f, es, n - 1)
    BY <1>3
<1> DEFINE g == [i \in 0 .. n |-> IF i = n THEN f[n - 1] \o Line(es[n]) ELSE f[i]]
<1>5. ASSUME NEW i \in 0 .. n
      PROVE  g[i] = IF i = 0 THEN <<>> ELSE g[i - 1] \o Line(es[i])
    <2>1. CASE i = n
        BY <1>2, <1>3, <2>1
    <2>2. CASE i # n
        <3>1. i \in 0 .. n - 1 /\ (i # 0 => i - 1 \in 0 .. n - 1)
            BY <1>3, <2>2
        <3>2. f[i] = IF i = 0 THEN <<>> ELSE f[i - 1] \o Line(es[i])
            BY <1>4, <3>1, Zenon DEF Copies
        <3>3. g[i] = f[i] /\ (i # 0 => g[i - 1] = f[i - 1])
            BY <1>3, <2>2, <3>1
        <3> QED
            BY <3>2, <3>3
    <2> QED
        BY <2>1, <2>2
<1>6. Copies(g, es, n)
    <2>1. g = [i \in 0 .. n |-> g[i]]
        OBVIOUS
    <2> HIDE DEF g
    <2> QED
        BY <1>5, <2>1 DEF Copies
<1> QED
    BY <1>1, <1>6

\* The text of a batch is made of its lines.
LEMMA TextFacts ==
    ASSUME NEW es \in Seq(Events)
    PROVE  Lines(Text(es), {es[i] : i \in 1 .. Len(es)})
<1> DEFINE First(n) == {es[i] : i \in 1 .. n}
           f == CHOOSE x : Copies(x, es, Len(es))
           T == {n \in 0 .. Len(es) : ~Lines(f[n], First(n))}
<1>1. Len(es) \in Nat
    BY LenProperties
<1>2. Copies(f, es, Len(es))
    BY <1>1, CopiesExist, Zenon
<1>3. Text(es) = f[Len(es)]
    BY DEF Text, Copies
<1> HIDE DEF f
<1> SUFFICES ASSUME T # {} PROVE FALSE
    <2>1. Len(es) \in 0 .. Len(es)
        BY <1>1
    <2>2. T = {} => Lines(f[Len(es)], First(Len(es)))
        BY <2>1, Zenon
    <2> QED
        BY <1>3, <2>2, Zenon
<1>4. T \subseteq Nat
    OBVIOUS
<1>5. PICK n \in T : \A k \in T : n <= k
    BY <1>4, LeastElement
<1>6. n \in 0 .. Len(es) /\ ~Lines(f[n], First(n))
    BY <1>5
<1>7. f[n] = IF n = 0 THEN <<>> ELSE f[n - 1] \o Line(es[n])
    BY <1>2, <1>6, Zenon DEF Copies
<1>8. CASE n = 0
    <2>1. First(n) = {} /\ f[n] = <<>>
        BY <1>7, <1>8
    <2>2. Lines(<<>>, {})
        BY DEF Lines
    <2> HIDE DEF First
    <2> QED
        BY <1>6, <2>1, <2>2
<1>9. CASE n # 0
    <2>1. n \in 1 .. Len(es) /\ n - 1 \in 0 .. Len(es) /\ ~(n <= n - 1)
        BY <1>1, <1>6, <1>9
    <2>2. Lines(f[n - 1], First(n - 1))
        BY <1>5, <2>1
    <2>3. First(n - 1) \in SUBSET Events /\ es[n] \in Events
        BY <1>1, <2>1, ElementOfSeq
    <2>4. First(n - 1) \cup {es[n]} = First(n)
        <3>1. \A i : i \in 1 .. n <=> i \in 1 .. n - 1 \/ i = n
            BY <2>1
        <3> QED
            BY <3>1
    <2> HIDE DEF First
    <2>5. Lines(f[n - 1] \o Line(es[n]), First(n - 1) \cup {es[n]})
        BY <2>2, <2>3, OneMoreLine
    <2> QED
        BY <1>6, <1>7, <1>9, <2>4, <2>5
<1> QED
    BY <1>8, <1>9

-----------------------------------------------------------------------------
(* What a step does to the text.                                           *)

\* s without n elements from the k-th on, element by element.
LEMMA WithoutFacts ==
    ASSUME NEW S, NEW s \in Seq(S), NEW k \in 1 .. Len(s), NEW n \in Nat,
           k + n <= Len(s) + 1
    PROVE  /\ Without(s, k, n) \in Seq(S)
           /\ Len(Without(s, k, n)) = Len(s) - n
           /\ \A i \in 1 .. Len(s) - n :
                  Without(s, k, n)[i] = IF i < k THEN s[i] ELSE s[i + n]
<1> DEFINE a == SubSeq(s, 1, k - 1)
           b == SubSeq(s, k + n, Len(s))
<1>1. Len(s) \in Nat /\ k \in Nat /\ k # 0 /\ k <= Len(s)
    BY LenProperties
<1>2. \A i \in 1 .. Len(s) : s[i] \in S
    BY ElementOfSeq
<1>3. a \in Seq(S) /\ Len(a) = k - 1 /\ \A i \in 1 .. k - 1 : a[i] = s[i]
    <2>1. 1 \in Int /\ k - 1 \in Int /\ \A i \in 1 .. k - 1 : s[i] \in S
        BY <1>1, <1>2
    <2>2. /\ a \in Seq(S) /\ Len(a) = IF 1 <= k - 1 THEN (k - 1) - 1 + 1 ELSE 0
          /\ \A i \in 1 .. (k - 1) - 1 + 1 : a[i] = s[1 + i - 1]
        BY <2>1, SubSeqProperties
    <2> HIDE DEF a
    <2>3. (k - 1) - 1 + 1 = k - 1 /\ (~(1 <= k - 1) => k - 1 = 0)
          /\ \A i \in 1 .. k - 1 : 1 + i - 1 = i
        BY <1>1
    <2> QED
        BY <2>2, <2>3
<1>4. /\ b \in Seq(S) /\ Len(b) = Len(s) + 1 - (k + n)
      /\ \A i \in 1 .. Len(s) + 1 - (k + n) : b[i] = s[k + n + i - 1]
    <2>1. k + n \in Int /\ Len(s) \in Int /\ \A i \in k + n .. Len(s) : s[i] \in S
        BY <1>1, <1>2
    <2>2. /\ b \in Seq(S) /\ Len(b) = IF k + n <= Len(s) THEN Len(s) - (k + n) + 1 ELSE 0
          /\ \A i \in 1 .. Len(s) - (k + n) + 1 : b[i] = s[k + n + i - 1]
        BY <2>1, SubSeqProperties
    <2> HIDE DEF b
    <2>3. Len(s) - (k + n) + 1 = Len(s) + 1 - (k + n)
          /\ (~(k + n <= Len(s)) => Len(s) + 1 - (k + n) = 0)
        BY <1>1
    <2> QED
        BY <2>2, <2>3
<1> HIDE DEF a, b
<1> DEFINE w == a \o b
<1>5. /\ w \in Seq(S) /\ Len(w) = Len(a) + Len(b)
      /\ \A i \in 1 .. Len(a) + Len(b) :
             w[i] = IF i <= Len(a) THEN a[i] ELSE b[i - Len(a)]
    BY <1>3, <1>4, ConcatProperties
<1> HIDE DEF w
<1>6. Len(a) + Len(b) = Len(s) - n
    BY <1>1, <1>3, <1>4
<1>7. ASSUME NEW i \in 1 .. Len(s) - n PROVE w[i] = IF i < k THEN s[i] ELSE s[i + n]
    <2>1. CASE i < k
        <3>1. i \in 1 .. k - 1 /\ i <= Len(a)
            BY <1>1, <1>3, <2>1
        <3> QED
            BY <1>3, <1>5, <1>6, <2>1, <3>1
    <2>2. CASE ~(i < k)
        <3>1. ~(i <= Len(a)) /\ i - Len(a) = i - (k - 1)
              /\ i - (k - 1) \in 1 .. Len(s) + 1 - (k + n)
              /\ k + n + (i - (k - 1)) - 1 = i + n
            BY <1>1, <1>3, <2>2
        <3> QED
            BY <1>4, <1>5, <1>6, <2>2, <3>1
    <2> QED
        BY <2>1, <2>2
<1>8. Without(s, k, n) = w
    BY DEF Without, w, a, b
<1> QED
    BY <1>5, <1>6, <1>7, <1>8

\* The line of an event stands when nothing of it is taken out.
LEMMA StandsWithout ==
    ASSUME NEW t \in Seq(Chars), NEW k \in 1 .. Len(t), NEW n \in Nat, n # 0,
           k + n <= Len(t) + 1, NEW f \in Events, Stands(f, t),
           \A p \in k .. k + n - 1 : t[p].event # f
    PROVE  Stands(f, Without(t, k, n))
<1> DEFINE l == Line(f)
           m == Len(l)
           w == Without(t, k, n)
<1>1. /\ m \in Nat /\ m # 0 /\ Len(t) \in Nat /\ k \in Nat
      /\ l \in Seq(Chars) /\ \A i \in 1 .. m : l[i].event = f
    <2>1. /\ l \in Seq(Chars) /\ Len(Json(f)) \in 2 .. 4 /\ m = Len(Json(f)) + 1
          /\ \A i \in 1 .. m : l[i].event = f
        BY LineFacts
    <2> HIDE DEF l
    <2>2. Len(t) \in Nat /\ k \in Nat
        BY LenProperties
    <2> QED
        BY <2>1, <2>2
<1>2. n \in Nat /\ n # 0 /\ k + n <= Len(t) + 1
    OBVIOUS
<1> HIDE DEF l
<1>3. PICK j \in 1 .. Len(t) : IsAt(l, t, j)
    BY DEF Stands, l
<1>4. j + m <= Len(t) + 1 /\ \A i \in 1 .. m : t[j + i - 1] = l[i]
    <2>1. j \in 1 .. Len(t) + 1
        BY <1>1
    <2>2. l \in Seq(Chars)
        BY <1>1
    <2> QED
        BY <1>3, <2>1, <2>2, AtPoints
<1>5. /\ w \in Seq(Chars) /\ Len(w) = Len(t) - n
      /\ \A i \in 1 .. Len(t) - n : w[i] = IF i < k THEN t[i] ELSE t[i + n]
    BY WithoutFacts
<1> HIDE DEF w
<1>6. j + m <= k \/ k + n <= j
    <2> SUFFICES ASSUME k < j + m, j < k + n PROVE FALSE
        BY <1>1
    <2>1. \A i \in 1 .. m : t[j + i - 1].event = f
        BY <1>1, <1>4
    <2>2. CASE j <= k
        <3>1. k - j + 1 \in 1 .. m /\ j + (k - j + 1) - 1 = k /\ k \in k .. k + n - 1
            BY <1>1, <2>2
        <3>2. t[k].event = f
            BY <2>1, <3>1
        <3> QED
            BY <3>1, <3>2
    <2>3. CASE k <= j
        <3>1. 1 \in 1 .. m /\ j + 1 - 1 = j /\ j \in k .. k + n - 1
            BY <1>1, <2>3
        <3>2. t[j].event = f
            BY <2>1, <3>1
        <3> QED
            BY <3>1, <3>2
    <2> QED
        BY <1>1, <2>2, <2>3
<1>7. CASE j + m <= k
    <2>1. /\ j \in 1 .. Len(w) /\ j \in 1 .. Len(w) + 1 /\ j + m <= Len(w) + 1
          /\ \A i \in 1 .. m : j + i - 1 \in 1 .. Len(t) - n /\ j + i - 1 < k
        BY <1>1, <1>2, <1>5, <1>7
    <2>2. \A i \in 1 .. m : w[j + i - 1] = l[i]
        BY <1>4, <1>5, <2>1
    <2>3. IsAt(l, w, j)
        BY <1>1, <1>5, <2>1, <2>2, AtPoints
    <2> QED
        BY <2>1, <2>3 DEF Stands, l, w
<1>8. CASE k + n <= j
    <2>1. /\ j - n \in 1 .. Len(w) /\ j - n \in 1 .. Len(w) + 1
          /\ j - n + m <= Len(w) + 1
          /\ \A i \in 1 .. m : /\ j - n + i - 1 \in 1 .. Len(t) - n
                               /\ ~(j - n + i - 1 < k)
                               /\ (j - n + i - 1) + n = j + i - 1
        BY <1>1, <1>2, <1>4, <1>5, <1>8
    <2>2. \A i \in 1 .. m : w[j - n + i - 1] = l[i]
        BY <1>4, <1>5, <2>1
    <2>3. IsAt(l, w, j - n)
        BY <1>1, <1>5, <2>1, <2>2, AtPoints
    <2> QED
        BY <2>1, <2>3 DEF Stands, l, w
<1> QED
    BY <1>6, <1>7, <1>8

\* What is taken out of the buffer is taken out of the text.
LEMMA ConcatWithout ==
    ASSUME NEW s \in Seq(Chars), NEW t \in Seq(Chars), NEW k \in 1 .. Len(t),
           NEW n \in Nat, k + n <= Len(t) + 1
    PROVE  /\ Without(t, k, n) \in Seq(Chars)
           /\ Len(s) + k \in 1 .. Len(s \o t)
           /\ Len(s) + k + n <= Len(s \o t) + 1
           /\ s \o Without(t, k, n) = Without(s \o t, Len(s) + k, n)
<1> DEFINE w == Without(t, k, n)
           x == s \o t
           y == s \o w
           z == Without(x, Len(s) + k, n)
           m == Len(s)
<1>1. m \in Nat /\ Len(t) \in Nat /\ k \in Nat /\ k # 0
    BY LenProperties
<1>2. /\ w \in Seq(Chars) /\ Len(w) = Len(t) - n
      /\ \A i \in 1 .. Len(t) - n : w[i] = IF i < k THEN t[i] ELSE t[i + n]
    BY WithoutFacts
<1>3. /\ x \in Seq(Chars) /\ Len(x) = m + Len(t)
      /\ \A i \in 1 .. m + Len(t) : x[i] = IF i <= m THEN s[i] ELSE t[i - m]
    BY ConcatProperties
<1> HIDE DEF w
<1>4. /\ y \in Seq(Chars) /\ Len(y) = m + Len(w)
      /\ \A i \in 1 .. m + Len(w) : y[i] = IF i <= m THEN s[i] ELSE w[i - m]
    BY <1>2, ConcatProperties
<1> HIDE DEF x, y
<1>5. m + k \in 1 .. Len(x) /\ m + k + n <= Len(x) + 1
    BY <1>1, <1>3
<1>6. /\ z \in Seq(Chars) /\ Len(z) = Len(x) - n
      /\ \A i \in 1 .. Len(x) - n : z[i] = IF i < m + k THEN x[i] ELSE x[i + n]
    BY <1>3, <1>5, WithoutFacts
<1> HIDE DEF z, m
<1>7. Len(y) = Len(z) /\ Len(y) = m + Len(t) - n
    BY <1>1, <1>2, <1>3, <1>4, <1>6
<1>8. ASSUME NEW i \in 1 .. Len(y) PROVE y[i] = z[i]
    <2>1. i \in 1 .. m + Len(w) /\ i \in 1 .. Len(x) - n /\ i \in 1 .. m + Len(t)
        BY <1>1, <1>2, <1>3, <1>7
    <2>2. CASE i <= m
        <3>1. i < m + k
            BY <1>1, <2>2
        <3> QED
            BY <1>3, <1>4, <1>6, <2>1, <2>2, <3>1
    <2>3. CASE ~(i <= m) /\ i < m + k
        <3>1. i - m \in 1 .. Len(t) - n /\ i - m < k
            BY <1>1, <1>7, <2>3
        <3>2. y[i] = w[i - m] /\ z[i] = x[i] /\ x[i] = t[i - m]
            BY <1>3, <1>4, <1>6, <2>1, <2>3
        <3> QED
            BY <1>2, <3>1, <3>2
    <2>4. CASE ~(i <= m) /\ ~(i < m + k)
        <3>1. /\ i - m \in 1 .. Len(t) - n /\ ~(i - m < k) /\ ~(i + n <= m)
              /\ i + n \in 1 .. m + Len(t) /\ (i - m) + n = (i + n) - m
            BY <1>1, <1>7, <2>4
        <3>2. y[i] = w[i - m] /\ z[i] = x[i + n] /\ x[i + n] = t[(i + n) - m]
            BY <1>3, <1>4, <1>6, <2>1, <2>4, <3>1
        <3> QED
            BY <1>2, <3>1, <3>2
    <2> QED
        BY <2>2, <2>3, <2>4
<1>9. y = z
    BY <1>4, <1>6, <1>7, <1>8, SeqEqual
<1> QED
    BY <1>2, <1>5, <1>9 DEF w, x, y, z, m

\* A set that has one element more at most.
LEMMA OneMoreElement ==
    ASSUME NEW A, IsFiniteSet(A), NEW x, NEW B, B \subseteq A \cup {x}
    PROVE  /\ IsFiniteSet(B)
           /\ Cardinality(A) \in Nat /\ Cardinality(B) \in Nat
           /\ Cardinality(B) <= Cardinality(A) + 1
           /\ B \subseteq A => Cardinality(B) <= Cardinality(A)
<1>1. /\ IsFiniteSet(A \cup {x})
      /\ Cardinality(A \cup {x}) = IF x \in A THEN Cardinality(A) ELSE Cardinality(A) + 1
    BY FS_AddElement
<1>2. B \in SUBSET (A \cup {x})
    OBVIOUS
<1>3. IsFiniteSet(B) /\ Cardinality(B) <= Cardinality(A \cup {x})
    BY <1>1, <1>2, FS_Subset
<1>4. Cardinality(A) \in Nat /\ Cardinality(B) \in Nat
    BY <1>3, FS_CardinalityType
<1>5. B \subseteq A => Cardinality(B) <= Cardinality(A)
    BY FS_Subset
<1> QED
    BY <1>1, <1>3, <1>4, <1>5

\* The torn lines of a text are torn in a longer one.
LEMMA TornBefore ==
    ASSUME NEW t \in Seq(Chars), NEW x \in Seq(Chars)
    PROVE  Torn(t) \subseteq Torn(t \o x)
<1> DEFINE y == t \o x
<1>1. Len(t) \in Nat /\ Len(x) \in Nat
    BY LenProperties
<1>2. /\ y \in Seq(Chars) /\ Len(y) = Len(t) + Len(x)
      /\ \A i \in 1 .. Len(t) + Len(x) : y[i] = IF i <= Len(t) THEN t[i] ELSE x[i - Len(t)]
    BY ConcatProperties
<1> HIDE DEF y
<1> SUFFICES ASSUME NEW q \in 2 .. Len(t),
                    t[q].part = "begin", t[q - 1].part \notin Ends
             PROVE  t[q].event \in Torn(y)
    BY DEF Torn, y
<1>3. /\ q \in 2 .. Len(y) /\ q \in 1 .. Len(t) + Len(x) /\ q <= Len(t)
      /\ q - 1 \in 1 .. Len(t) + Len(x) /\ q - 1 <= Len(t)
    BY <1>1, <1>2
<1>4. y[q] = t[q] /\ y[q - 1] = t[q - 1]
    BY <1>2, <1>3
<1> QED
    BY <1>3, <1>4 DEF Torn

\* A text that is cut owes one fault more at most: for its end.
LEMMA OwedCut ==
    ASSUME NEW t \in Seq(Chars), NEW x \in Seq(Chars), NEW f \in Nat, Owed(t \o x, f)
    PROVE  Owed(t, f + 1)
<1> DEFINE y == t \o x
<1>1. Torn(t) \subseteq Torn(y) /\ IsFiniteSet(Torn(y))
    BY TornBefore DEF Owed
<1> HIDE DEF y
<1>2. /\ IsFiniteSet(Torn(t))
      /\ Cardinality(Torn(t)) \in Nat /\ Cardinality(Torn(y)) \in Nat
      /\ Cardinality(Torn(t)) <= Cardinality(Torn(y))
    <2>1. Torn(t) \subseteq Torn(y) \cup {0}
        BY <1>1
    <2> QED
        BY <1>1, <2>1, OneMoreElement
<1>3. Cardinality(Torn(y)) <= f
    BY <1>2 DEF Owed, y
<1> QED
    BY <1>2, <1>3 DEF Owed

\* Whole lines cost nothing: the first may be torn, where the text before it was.
LEMMA OwedLines ==
    ASSUME NEW t \in Seq(Chars), NEW f \in Nat, Owed(t, f), NEW x, NEW s, Lines(x, s)
    PROVE  Owed(t \o x, f)
<1> DEFINE y == t \o x
           m == Len(t)
<1>0. x \in Seq(Chars)
    BY DEF Lines
<1>1. m \in Nat /\ Len(x) \in Nat
    BY <1>0, LenProperties
<1>2. CASE x = <<>>
    BY <1>2, ConcatEmptySeq
<1>3. CASE x # <<>>
    <2>1. /\ y \in Seq(Chars) /\ Len(y) = m + Len(x)
          /\ \A i \in 1 .. m + Len(x) : y[i] = IF i <= m THEN t[i] ELSE x[i - m]
        BY <1>0, ConcatProperties
    <2> HIDE DEF y
    <2>2. Len(x) # 0
        BY <1>0, <1>3, EmptySeq
    <2>3. ~EndsTorn(y)
        <3>1. y[Len(y)] = x[Len(x)]
            BY <1>1, <2>1, <2>2
        <3> QED
            BY <1>3, <3>1 DEF EndsTorn, Lines, Ends
    <2>4. \A v \in Torn(y) : v \in Torn(t) \/ (v = x[1].event /\ EndsTorn(t))
        <3> SUFFICES ASSUME NEW q \in 2 .. Len(y),
                            y[q].part = "begin", y[q - 1].part \notin Ends
                     PROVE  \/ y[q].event \in Torn(t)
                            \/ y[q].event = x[1].event /\ EndsTorn(t)
            BY DEF Torn
        <3>1. q \in 1 .. m + Len(x) /\ q - 1 \in 1 .. m + Len(x)
            BY <1>1, <2>1
        <3>2. CASE q <= m
            <4>1. q \in 2 .. m /\ q - 1 <= m
                BY <1>1, <3>2
            <4>2. y[q] = t[q] /\ y[q - 1] = t[q - 1]
                BY <2>1, <3>1, <3>2, <4>1
            <4> QED
                BY <4>1, <4>2 DEF Torn
        <3>3. CASE q = m + 1
            <4>1. ~(q <= m) /\ q - m = 1 /\ q - 1 = m /\ q - 1 <= m /\ m # 0
                BY <1>1, <3>3
            <4>2. y[q] = x[1] /\ y[q - 1] = t[m]
                BY <2>1, <3>1, <4>1
            <4>3. t # <<>>
                BY <4>1
            <4> QED
                BY <4>2, <4>3 DEF EndsTorn
        <3>4. CASE q > m + 1
            <4>1. /\ ~(q <= m) /\ ~(q - 1 <= m) /\ q - m \in 2 .. Len(x)
                  /\ (q - m) - 1 = (q - 1) - m
                BY <1>1, <2>1, <3>4
            <4>2. y[q] = x[q - m] /\ y[q - 1] = x[(q - m) - 1]
                BY <2>1, <3>1, <4>1
            <4>3. y[q - 1].part = "newline"
                BY <4>1, <4>2 DEF Lines
            <4> QED
                BY <4>3 DEF Ends
        <3> QED
            BY <1>1, <3>2, <3>3, <3>4
    <2>5. Torn(y) \subseteq Torn(t) \cup {x[1].event}
        BY <2>4
    <2>6. ~EndsTorn(t) => Torn(y) \subseteq Torn(t)
        BY <2>4
    <2>7. IsFiniteSet(Torn(t))
        BY DEF Owed
    <2>8. /\ IsFiniteSet(Torn(y))
          /\ Cardinality(Torn(t)) \in Nat /\ Cardinality(Torn(y)) \in Nat
          /\ Cardinality(Torn(y)) <= Cardinality(Torn(t)) + 1
          /\ ~EndsTorn(t) => Cardinality(Torn(y)) <= Cardinality(Torn(t))
        BY <2>5, <2>6, <2>7, OneMoreElement
    <2>9. Cardinality(Torn(t)) + (IF EndsTorn(t) THEN 1 ELSE 0) <= f
        BY DEF Owed
    <2>10. Cardinality(Torn(y)) + 0 <= f
        BY <2>8, <2>9
    <2> QED
        BY <2>3, <2>8, <2>10 DEF Owed, y
<1> QED
    BY <1>2, <1>3

\* To take something out costs one fault at most: for the line that follows it, or
\* for the end if nothing does.
LEMMA OwedWithout ==
    ASSUME NEW t \in Seq(Chars), NEW f \in Nat, Owed(t, f), NEW k \in 1 .. Len(t),
           NEW n \in Nat, n # 0, k + n <= Len(t) + 1
    PROVE  Owed(Without(t, k, n), f + 1)
<1> DEFINE w == Without(t, k, n)
           next == t[k + n].event
<1>1. Len(t) \in Nat /\ k \in Nat /\ k # 0
    BY LenProperties
<1>2. /\ w \in Seq(Chars) /\ Len(w) = Len(t) - n
      /\ \A i \in 1 .. Len(t) - n : w[i] = IF i < k THEN t[i] ELSE t[i + n]
    BY WithoutFacts
<1> HIDE DEF w
<1>3. \A v \in Torn(w) : v \in Torn(t) \/ (v = next /\ k + n <= Len(t))
    <2> SUFFICES ASSUME NEW q \in 2 .. Len(w),
                        w[q].part = "begin", w[q - 1].part \notin Ends
                 PROVE  w[q].event \in Torn(t) \/ (w[q].event = next /\ k + n <= Len(t))
        BY DEF Torn
    <2>1. q \in 1 .. Len(t) - n /\ q - 1 \in 1 .. Len(t) - n /\ q - 1 < q
        BY <1>1, <1>2
    <2>2. CASE q < k
        <3>1. q \in 2 .. Len(t) /\ q - 1 < k
            BY <1>1, <2>1, <2>2
        <3>2. w[q] = t[q] /\ w[q - 1] = t[q - 1]
            BY <1>2, <2>1, <2>2, <3>1
        <3> QED
            BY <3>1, <3>2 DEF Torn
    <2>3. CASE q = k
        <3>1. k + n <= Len(t) /\ ~(q < k) /\ w[q] = t[q + n]
            BY <1>1, <1>2, <2>1, <2>3
        <3> QED
            BY <2>3, <3>1
    <2>4. CASE q > k
        <3>0. q \in Int /\ n \in Int /\ k \in Int /\ Len(t) \in Int
            BY <1>1
        <3>1. /\ q + n \in 2 .. Len(t) /\ (q + n) - 1 = (q - 1) + n
              /\ ~(q < k) /\ ~(q - 1 < k)
            <4>1. q + n \in 2 .. Len(t)
                BY <2>1, <3>0
            <4>2. (q + n) - 1 = (q - 1) + n /\ ~(q < k) /\ ~(q - 1 < k)
                BY <2>4, <3>0
            <4> QED
                BY <4>1, <4>2
        <3>2. w[q] = t[q + n] /\ w[q - 1] = t[(q + n) - 1]
            BY <1>2, <2>1, <3>1
        <3> QED
            BY <3>1, <3>2 DEF Torn
    <2> QED
        BY <1>1, <2>2, <2>3, <2>4
<1>4. k + n <= Len(t) => (EndsTorn(w) <=> EndsTorn(t))
    <2> SUFFICES ASSUME k + n <= Len(t) PROVE EndsTorn(w) <=> EndsTorn(t)
        OBVIOUS
    <2>1. /\ Len(w) \in 1 .. Len(t) - n /\ ~(Len(w) < k) /\ Len(w) + n = Len(t)
          /\ Len(w) # 0 /\ Len(t) # 0
        BY <1>1, <1>2
    <2>2. w[Len(w)] = t[Len(t)]
        BY <1>2, <2>1
    <2>3. w # <<>> /\ t # <<>>
        BY <2>1
    <2> QED
        BY <2>2, <2>3 DEF EndsTorn
<1>5. Torn(w) \subseteq Torn(t) \cup {next} /\ (~(k + n <= Len(t)) => Torn(w) \subseteq Torn(t))
    BY <1>3
<1>6. IsFiniteSet(Torn(t)) /\ Cardinality(Torn(t)) + (IF EndsTorn(t) THEN 1 ELSE 0) <= f
    BY DEF Owed
<1>7. /\ IsFiniteSet(Torn(w))
      /\ Cardinality(Torn(t)) \in Nat /\ Cardinality(Torn(w)) \in Nat
      /\ Cardinality(Torn(w)) <= Cardinality(Torn(t)) + 1
      /\ ~(k + n <= Len(t)) => Cardinality(Torn(w)) <= Cardinality(Torn(t))
    BY <1>5, <1>6, OneMoreElement
<1>8. CASE k + n <= Len(t)
    BY <1>4, <1>6, <1>7, <1>8 DEF Owed, w
<1>9. CASE ~(k + n <= Len(t))
    BY <1>6, <1>7, <1>9 DEF Owed, w
<1> QED
    BY <1>8, <1>9

-----------------------------------------------------------------------------
(* Types, and the events on their way.                                     *)

\* The pieces of the buffer that a flush moves and leaves.
LEMMA FlushFacts ==
    ASSUME NEW t \in Seq(Chars), NEW n \in 1 .. Len(t)
    PROVE  /\ SubSeq(t, 1, n) \in Seq(Chars) /\ SubSeq(t, n + 1, Len(t)) \in Seq(Chars)
           /\ SubSeq(t, 1, n) \o SubSeq(t, n + 1, Len(t)) = t
           /\ EventsOf(SubSeq(t, 1, n)) \subseteq EventsOf(t)
           /\ EventsOf(SubSeq(t, n + 1, Len(t))) \subseteq EventsOf(t)
<1> DEFINE a == SubSeq(t, 1, n)
           b == SubSeq(t, n + 1, Len(t))
           m == Len(t)
<1>1. m \in Nat /\ n \in Nat /\ \A i \in 1 .. m : t[i] \in Chars
    BY LenProperties, ElementOfSeq
<1>2. /\ a \in Seq(Chars) /\ Len(a) = IF 1 <= n THEN n - 1 + 1 ELSE 0
      /\ \A i \in 1 .. n - 1 + 1 : a[i] = t[1 + i - 1]
    <2>1. 1 \in Int /\ n \in Int /\ \A i \in 1 .. n : t[i] \in Chars
        BY <1>1
    <2> QED
        BY <2>1, SubSeqProperties
<1>3. /\ b \in Seq(Chars) /\ Len(b) = IF n + 1 <= m THEN m - (n + 1) + 1 ELSE 0
      /\ \A i \in 1 .. m - (n + 1) + 1 : b[i] = t[n + 1 + i - 1]
    <2>1. n + 1 \in Int /\ m \in Int /\ \A i \in n + 1 .. m : t[i] \in Chars
        BY <1>1
    <2> QED
        BY <2>1, SubSeqProperties
<1>4. a \o b = t
    <2>1. 1 \in 1 .. Len(t) + 1 /\ n \in 1 - 1 .. Len(t) /\ Len(t) \in n .. Len(t)
        BY <1>1
    <2>2. SubSeq(t, 1, n) \o SubSeq(t, n + 1, Len(t)) = SubSeq(t, 1, Len(t))
        BY <2>1, ConcatAdjacentSubSeq
    <2> QED
        BY <2>2, SubSeqFull
<1> HIDE DEF a, b
<1>5. EventsOf(a) \subseteq EventsOf(t)
    <2> SUFFICES ASSUME NEW i \in 1 .. Len(a) PROVE a[i].event \in EventsOf(t)
        BY DEF EventsOf
    <2>1. i \in 1 .. n - 1 + 1 /\ 1 + i - 1 \in 1 .. m
        BY <1>1, <1>2
    <2> QED
        BY <1>2, <2>1 DEF EventsOf
<1>6. EventsOf(b) \subseteq EventsOf(t)
    <2> SUFFICES ASSUME NEW i \in 1 .. Len(b) PROVE b[i].event \in EventsOf(t)
        BY DEF EventsOf
    <2>1. i \in 1 .. m - (n + 1) + 1 /\ n + 1 + i - 1 \in 1 .. m
        BY <1>1, <1>3
    <2> QED
        BY <1>3, <2>1 DEF EventsOf
<1> QED
    BY <1>2, <1>3, <1>4, <1>5, <1>6 DEF a, b

\* The events of a text that is put behind another.
LEMMA ConcatEvents ==
    ASSUME NEW s \in Seq(Chars), NEW t \in Seq(Chars)
    PROVE  EventsOf(s \o t) \subseteq EventsOf(s) \cup EventsOf(t)
<1> SUFFICES ASSUME NEW i \in 1 .. Len(s \o t)
             PROVE  (s \o t)[i].event \in EventsOf(s) \cup EventsOf(t)
    BY DEF EventsOf
<1>1. /\ Len(s \o t) = Len(s) + Len(t)
      /\ \A k \in 1 .. Len(s) + Len(t) :
             (s \o t)[k] = IF k <= Len(s) THEN s[k] ELSE t[k - Len(s)]
    BY ConcatProperties
<1>2. Len(s) \in Nat /\ Len(t) \in Nat
    BY LenProperties
<1>3. CASE i <= Len(s)
    <2>1. i \in 1 .. Len(s)
        BY <1>2, <1>3
    <2> QED
        BY <1>1, <1>3, <2>1 DEF EventsOf
<1>4. CASE ~(i <= Len(s))
    <2>1. i - Len(s) \in 1 .. Len(t)
        BY <1>1, <1>2, <1>4
    <2> QED
        BY <1>1, <1>4, <2>1 DEF EventsOf
<1> QED
    BY <1>3, <1>4

\* The events of a text of which something is taken out.
LEMMA WithoutEvents ==
    ASSUME NEW t \in Seq(Chars), NEW k \in 1 .. Len(t), NEW n \in Nat,
           k + n <= Len(t) + 1
    PROVE  EventsOf(Without(t, k, n)) \subseteq EventsOf(t)
<1> DEFINE w == Without(t, k, n)
<1>1. /\ Len(w) = Len(t) - n
      /\ \A i \in 1 .. Len(t) - n : w[i] = IF i < k THEN t[i] ELSE t[i + n]
    BY WithoutFacts
<1>2. Len(t) \in Nat
    BY LenProperties
<1> HIDE DEF w
<1> SUFFICES ASSUME NEW i \in 1 .. Len(w) PROVE w[i].event \in EventsOf(t)
    BY DEF EventsOf, w
<1>3. i \in 1 .. Len(t) /\ i + n \in 1 .. Len(t)
    BY <1>1, <1>2
<1> QED
    BY <1>1, <1>3 DEF EventsOf

\* A failed write leaves out a part of the buffer.
LEMMA SkipFacts ==
    ASSUME TypeInv, NEW k \in DOMAIN buffer, NEW n \in 1 .. Len(buffer),
           k + n <= Len(buffer) + 1
    PROVE  /\ k \in 1 .. Len(buffer) /\ n \in Nat /\ n # 0
           /\ Without(buffer, k, n) \in Seq(Chars)
           /\ EventsOf(Without(buffer, k, n)) \subseteq EventsOf(buffer)
<1>1. buffer \in Seq(Chars) /\ k \in 1 .. Len(buffer) /\ n \in Nat /\ n # 0
    BY LenProperties DEF TypeInv
<1> QED
    BY <1>1, WithoutFacts, WithoutEvents

\* Types are kept.
LEMMA TypeStep ==
    ASSUME TypeInv, [Next]_vars
    PROVE  TypeInv'
<1> USE DEF TypeInv
<1>1. CASE Tick
    BY <1>1 DEF Tick
<1>2. CASE StartPoll
    BY <1>2 DEF StartPoll
<1>3. CASE BuildEvent
    <2>1. PICK mac \in Macs, text \in Texts : batch' = Append(batch, NewEvent(mac, text))
        BY <1>3 DEF BuildEvent
    <2>2. NewEvent(mac, text) \in Events
        BY DEF NewEvent, Events
    <2>3. batch' \in Seq(Events)
        BY <2>1, <2>2
    <2> QED
        BY <1>3, <2>3 DEF BuildEvent
<1>4. CASE StartAppend
    <2>1. Text(batch) \in Seq(Chars)
        BY TextFacts DEF Lines
    <2> QED
        BY <1>4, <2>1 DEF StartAppend
<1>5. CASE Flush
    <2>1. PICK n \in 1 .. Len(buffer) :
              /\ file' = file \o SubSeq(buffer, 1, n)
              /\ buffer' = SubSeq(buffer, n + 1, Len(buffer))
        BY <1>5 DEF Flush
    <2>2. SubSeq(buffer, 1, n) \in Seq(Chars) /\ buffer' \in Seq(Chars)
        BY <2>1, FlushFacts
    <2>3. file' \in Seq(Chars)
        BY <2>1, <2>2, ConcatProperties
    <2> QED
        BY <1>5, <2>2, <2>3 DEF Flush
<1>6. CASE SkipEvent
    BY <1>6, SkipFacts DEF SkipEvent
<1>7. CASE CloseFile
    <2>1. {batch[i] : i \in DOMAIN batch} \subseteq Events
        BY LenProperties, ElementOfSeq
    <2> QED
        BY <1>7, <2>1 DEF CloseFile, EndPoll
<1>8. CASE CloseFails
    BY <1>8 DEF CloseFails, EndPoll
<1>9. CASE Crash
    BY <1>9, IntervalAssumption DEF Crash, EndPoll
<1>10. CASE UNCHANGED vars
    BY <1>10 DEF vars
<1> QED
    BY <1>1, <1>2, <1>3, <1>4, <1>5, <1>6, <1>7, <1>8, <1>9, <1>10 DEF Next

\* Only the diff makes an event known.
LEMMA KnownStep ==
    ASSUME TypeInv, [Next]_vars, ~BuildEvent
    PROVE  Known' \subseteq Known
<1> USE DEF Known
<1>1. EventsOf(<<>>) = {} /\ Len(<<>>) = 0
    BY DEF EventsOf
<1>2. CASE StartAppend
    <2>1. EventsOf(buffer') \subseteq {batch[i] : i \in 1 .. Len(batch)}
        BY <1>2, TextFacts DEF StartAppend, Lines, EventsOf, TypeInv
    <2> QED
        BY <1>2, <2>1 DEF StartAppend
<1>3. CASE Flush
    <2>1. PICK n \in 1 .. Len(buffer) :
              /\ file' = file \o SubSeq(buffer, 1, n)
              /\ buffer' = SubSeq(buffer, n + 1, Len(buffer))
        BY <1>3 DEF Flush
    <2>2. /\ SubSeq(buffer, 1, n) \in Seq(Chars)
          /\ EventsOf(SubSeq(buffer, 1, n)) \subseteq EventsOf(buffer)
          /\ EventsOf(buffer') \subseteq EventsOf(buffer)
        BY <2>1, FlushFacts DEF TypeInv
    <2>3. EventsOf(file') \subseteq EventsOf(file) \cup EventsOf(SubSeq(buffer, 1, n))
        BY <2>1, <2>2, ConcatEvents DEF TypeInv
    <2> QED
        BY <1>3, <2>2, <2>3 DEF Flush
<1>4. CASE SkipEvent
    <2>1. PICK k \in DOMAIN buffer, n \in 1 .. Len(buffer) :
              k + n <= Len(buffer) + 1 /\ buffer' = Without(buffer, k, n)
        BY <1>4 DEF SkipEvent
    <2>2. EventsOf(buffer') \subseteq EventsOf(buffer)
        BY <2>1, SkipFacts
    <2> QED
        BY <1>4, <2>2 DEF SkipEvent
<1>5. CASE CloseFile \/ CloseFails \/ Crash
    BY <1>1, <1>5 DEF CloseFile, CloseFails, Crash, EndPoll
<1>6. CASE Tick \/ StartPoll \/ UNCHANGED vars
    BY <1>6 DEF Tick, StartPoll, vars
<1> QED
    BY <1>2, <1>3, <1>4, <1>5, <1>6 DEF Next

\* What is known are events.
LEMMA KnownType ==
    ASSUME TypeInv
    PROVE  Known \subseteq Events
<1>1. \A t \in Seq(Chars) : EventsOf(t) \subseteq Events
    <2> SUFFICES ASSUME NEW t \in Seq(Chars), NEW i \in 1 .. Len(t)
                 PROVE  t[i].event \in Events
        BY DEF EventsOf
    <2>1. t[i] \in Chars
        BY ElementOfSeq
    <2> QED
        BY <2>1 DEF Chars
<1>2. \A i \in 1 .. Len(batch) : batch[i] \in Events
    BY ElementOfSeq DEF TypeInv
<1> QED
    BY <1>1, <1>2 DEF Known, TypeInv

\* A silence lasts as long as no event is made in it.
LEMMA StillSilent ==
    ASSUME TypeInv, NEW e \in Events, NEW t \in Int, Silent(e, t),
           NEW f \in Events, t <= f.time, Known' \subseteq Known \cup {f}
    PROVE  Silent(e, t)'
<1>1. PICK u \in e.time + 1 .. t - 1 : \A g \in Known : g.time # u
    BY DEF Silent
<1>2. e.time \in Nat /\ f.time \in Nat
    BY DEF Events
<1>3. f.time # u
    BY <1>1, <1>2
<1>4. \A g \in Known' : g.time # u
    BY <1>1, <1>3
<1> QED
    BY <1>1, <1>4 DEF Silent

\* The invariant of the events, when one is made.
LEMMA BuildStep ==
    ASSUME EventInv, BuildEvent
    PROVE  ClockInv' /\ PollInv' /\ GapInv'
<1>1. PICK mac \in Macs, text \in Texts : batch' = Append(batch, NewEvent(mac, text))
    BY DEF BuildEvent
<1> DEFINE f == NewEvent(mac, text)
<1>2. /\ now \in Nat /\ since \in Int /\ life \in Nat /\ polls \in Nat /\ events \in Nat
      /\ since <= now /\ now <= since + 1
      /\ pc = "diff" /\ events' = events + 1
      /\ UNCHANGED <<now, pc, since, life, buffer, file, polls, faults>>
    BY DEF BuildEvent, EventInv, TypeInv, ClockInv
<1>3. /\ f \in Events /\ f.time = now /\ f.life = life /\ f.poll = polls
    BY <1>2 DEF NewEvent, Events
<1> HIDE DEF f
<1>4. Known' \subseteq Known \cup {f}
    <2>1. batch \in Seq(Events)
        BY DEF EventInv, TypeInv
    <2>2. /\ Len(batch') = Len(batch) + 1
          /\ \A i \in 1 .. Len(batch) : batch'[i] = batch[i]
          /\ batch'[Len(batch) + 1] = f
        BY <1>1, <1>3, <2>1, AppendProperties DEF f
    <2>3. Len(batch) \in Nat
        BY <2>1, LenProperties
    <2>4. \A i \in 1 .. Len(batch') : i \in 1 .. Len(batch) \/ i = Len(batch) + 1
        BY <2>2, <2>3
    <2> QED
        BY <1>2, <2>2, <2>4 DEF Known
<1>5. Known \subseteq Events
    BY KnownType DEF EventInv
<1>6. \A e \in Known : /\ e \in Events /\ e.time \in Nat /\ e.life \in Nat /\ e.poll \in Nat
                       /\ e.time <= now /\ e.life <= life /\ e.poll <= polls
    BY <1>5 DEF Events, EventInv, ClockInv
<1>7. ClockInv'
    BY <1>2, <1>3, <1>4, <1>6 DEF ClockInv
<1>8. PollInv'
    <2>1. \A e \in Known' : e.poll = polls => since <= e.time
        BY <1>2, <1>3, <1>4 DEF EventInv, PollInv
    <2>2. ASSUME NEW e \in Known', NEW g \in Known', e.poll = g.poll
          PROVE  e.time <= g.time + 1
        <3>1. CASE e \in Known /\ g \in Known
            BY <2>2, <3>1 DEF EventInv, PollInv
        <3>2. CASE e = f \/ g = f
            <4>1. e.poll = polls /\ g.poll = polls /\ e.time <= now /\ e.time \in Nat
                  /\ g.time \in Nat
                BY <1>2, <1>3, <1>4, <1>6, <2>2, <3>2
            <4> QED
                BY <1>2, <2>1, <4>1
        <3> QED
            BY <1>4, <3>1, <3>2
    <2> QED
        BY <1>2, <2>1, <2>2 DEF PollInv
<1>9. ASSUME Interval > 1 PROVE Gaps'
    <2>0. Gaps
        BY <1>9 DEF EventInv, GapInv
    <2>1. ASSUME NEW e \in Known', e.life = life, e.poll < polls
          PROVE  Silent(e, since)'
        <3>1. e \in Known
            BY <1>2, <1>3, <1>4, <2>1
        <3>2. Silent(e, since)
            BY <1>2, <2>0, <2>1, <3>1 DEF Gaps
        <3>3. PICK u \in e.time + 1 .. since - 1 : \A g \in Known : g.time # u
            BY <3>2 DEF Silent
        <3>4. f.time # u /\ u \in e.time + 1 .. since' - 1
            BY <1>2, <1>3, <1>6, <3>1, <3>3
        <3>5. \A g \in Known' : g.time # u
            BY <1>4, <3>3, <3>4
        <3> QED
            BY <3>4, <3>5 DEF Silent
    <2>2. ASSUME NEW e \in Known', NEW g \in Known', e.life = g.life, e.poll < g.poll
          PROVE  Silent(e, g.time)'
        <3>1. e \in Known
            BY <1>2, <1>3, <1>4, <1>6, <2>2
        <3>2. CASE g \in Known
            <4>1. Silent(e, g.time) /\ g.time \in Int /\ g.time <= f.time
                BY <1>3, <1>6, <2>0, <2>2, <3>1, <3>2 DEF Gaps
            <4> QED
                BY <1>3, <1>4, <1>6, <3>1, <4>1, StillSilent DEF EventInv
        <3>3. CASE g = f
            <4>1. Silent(e, since)'
                BY <1>3, <2>1, <2>2, <3>3
            <4>2. PICK u \in e.time + 1 .. since' - 1 : \A x \in Known' : x.time # u
                BY <4>1 DEF Silent
            <4>3. u \in e.time + 1 .. g.time - 1
                BY <1>2, <1>3, <1>6, <3>1, <3>3, <4>2
            <4> QED
                BY <4>2, <4>3 DEF Silent
        <3> QED
            BY <1>4, <3>2, <3>3
    <2> QED
        BY <1>2, <2>1, <2>2 DEF Gaps
<1> QED
    BY <1>7, <1>8, <1>9 DEF GapInv

\* And when none is.
LEMMA EventStep ==
    ASSUME EventInv, [Next]_vars
    PROVE  ClockInv' /\ PollInv' /\ GapInv'
<1>1. CASE BuildEvent
    BY <1>1, BuildStep
<1>2. CASE ~BuildEvent
    <2>1. Known' \subseteq Known /\ Known \subseteq Events
        BY <1>2, KnownStep, KnownType DEF EventInv
    <2>2. \A e \in Known : /\ e \in Events /\ e.time \in Nat /\ e.life \in Nat
                           /\ e.poll \in Nat
                           /\ e.time <= now /\ e.life <= life /\ e.poll <= polls
        BY <2>1 DEF Events, EventInv, ClockInv
    <2>3. /\ now \in Nat /\ since \in Int /\ life \in Nat /\ polls \in Nat /\ events \in Nat
          /\ Interval \in Nat /\ Interval # 0
          /\ pc \in {"idle", "diff", "append"}
          /\ since <= now /\ (pc = "diff" => now <= since + 1)
        BY IntervalAssumption DEF EventInv, TypeInv, ClockInv
    <2>4. /\ now' = now \/ (now' = now + 1 /\ pc' = pc)
          /\ life' = life \/ life' = life + 1
          /\ polls' = polls \/ polls' = polls + 1
          /\ events' = events
          /\ \/ pc' = pc /\ since' = since /\ life' = life /\ polls' = polls
                /\ (pc = "diff" => now' = now \/ now = since)
             \/ /\ pc = "idle" /\ pc' = "diff" /\ since' = now /\ now' = now /\ life' = life
                /\ polls' = polls + 1 /\ now >= since + Interval
             \/ pc = "diff" /\ pc' = "append" /\ since' = since
             \/ pc' = "idle" /\ since' = now /\ now' = now /\ life' = life
             \/ pc' = "idle" /\ since' = now - Interval /\ now' = now /\ life' = life + 1
        BY <1>2
        DEF Next, Tick, StartPoll, StartAppend, Flush, SkipEvent, CloseFile, CloseFails,
            Crash, EndPoll, vars
    <2>5. ClockInv'
        <3>1. since' <= now' /\ (pc' = "diff" => now' <= since' + 1)
            BY <2>3, <2>4
        <3>2. \A e \in Known' : /\ e.time <= now' /\ e.life <= life' /\ e.poll <= polls'
            BY <2>1, <2>2, <2>3, <2>4
        <3> QED
            BY <3>1, <3>2 DEF ClockInv
    <2>6. PollInv'
        <3>1. \A e, f \in Known' : e.poll = f.poll => e.time <= f.time + 1
            BY <2>1 DEF EventInv, PollInv
        <3>2. pc' = "diff" => \A e \in Known' : e.poll = polls' => since' <= e.time
            BY <2>1, <2>2, <2>3, <2>4 DEF EventInv, PollInv
        <3> QED
            BY <3>1, <3>2 DEF PollInv
    <2>7. ASSUME NEW e \in Known, NEW t, Silent(e, t) PROVE Silent(e, t)'
        BY <2>1, <2>7 DEF Silent
    <2>8. ASSUME Interval > 1 PROVE Gaps'
        <3>0. Gaps
            BY <2>8 DEF EventInv, GapInv
        <3>1. \A e, f \in Known' : e.life = f.life /\ e.poll < f.poll => Silent(e, f.time)'
            BY <2>1, <2>7, <3>0 DEF Gaps
        <3>2. ASSUME pc' = "diff", NEW e \in Known', e.life = life', e.poll < polls'
              PROVE  Silent(e, since)'
            <4>1. CASE pc = "diff"
                <5>1. since' = since /\ life' = life /\ polls' = polls
                    BY <2>4, <3>2, <4>1
                <5>2. Silent(e, since)
                    BY <2>1, <3>0, <3>2, <4>1, <5>1 DEF Gaps
                <5>3. PICK u \in e.time + 1 .. since - 1 : \A g \in Known : g.time # u
                    BY <5>2 DEF Silent
                <5>4. u \in e.time + 1 .. since' - 1
                    BY <5>1, <5>3
                <5>5. \A g \in Known' : g.time # u
                    BY <2>1, <5>3
                <5> QED
                    BY <5>4, <5>5 DEF Silent
            <4>2. CASE pc # "diff"
                <5>1. pc = "idle" /\ since' = now /\ life' = life /\ now >= since + Interval
                    BY <2>4, <3>2, <4>2
                <5>2. \A g \in Known : g.time <= since
                    BY <2>1, <3>0, <3>2, <5>1 DEF Gaps
                <5>3. since + 1 \in e.time + 1 .. since' - 1
                    BY <2>1, <2>2, <2>3, <2>8, <5>1, <5>2
                <5>4. \A g \in Known' : g.time # since + 1
                    BY <2>1, <2>2, <2>3, <5>2
                <5> QED
                    BY <5>3, <5>4 DEF Silent
            <4> QED
                BY <4>1, <4>2
        <3>3. ASSUME pc' = "idle", NEW e \in Known', NEW g \in Known', e.life = life'
              PROVE  g.time <= since'
            <4>1. life' = life
                BY <2>1, <2>2, <2>3, <2>4, <3>3
            <4>2. CASE since' = now
                BY <2>1, <2>2, <4>2
            <4>3. CASE since' # now
                <5>1. pc = "idle" /\ since' = since
                    BY <2>3, <2>4, <3>3, <4>1, <4>3
                <5> QED
                    BY <2>1, <3>0, <3>3, <4>1, <5>1 DEF Gaps
            <4> QED
                BY <4>2, <4>3
        <3> QED
            BY <3>1, <3>2, <3>3 DEF Gaps
    <2> QED
        BY <2>5, <2>6, <2>8 DEF GapInv
<1> QED
    BY <1>1, <1>2

\* What is known of the events is an invariant.
LEMMA EventInvariance == Spec => []EventInv
<1>1. Init => EventInv
    <2> SUFFICES ASSUME Init PROVE EventInv
        OBVIOUS
    <2>1. TypeInv
        BY IntervalAssumption DEF Init, TypeInv
    <2>2. Known = {}
        BY DEF Init, Known, EventsOf
    <2>3. since \in Int /\ since <= now /\ pc = "idle"
        BY IntervalAssumption DEF Init
    <2> QED
        BY <2>1, <2>2, <2>3 DEF EventInv, ClockInv, PollInv, GapInv, Gaps
<1>2. EventInv /\ [Next]_vars => EventInv'
    BY TypeStep, EventStep DEF EventInv
<1> QED
    BY <1>1, <1>2, PTL DEF Spec
\* A line that stands in a text stands further back in what puts the text behind
\* another.
LEMMA StandsAfter ==
    ASSUME NEW e \in Events, NEW s \in Seq(Chars), NEW t \in Seq(Chars),
           NEW k \in 1 .. Len(t), IsAt(Line(e), t, k)
    PROVE  /\ Len(s) + k \in 1 .. Len(s \o t)
           /\ IsAt(Line(e), s \o t, Len(s) + k)
           /\ Stands(e, s \o t)
<1> DEFINE l == Line(e)
           m == Len(s)
           x == s \o t
<1>1. /\ x \in Seq(Chars) /\ Len(x) = m + Len(t)
      /\ \A i \in 1 .. m + Len(t) : x[i] = IF i <= m THEN s[i] ELSE t[i - m]
    BY ConcatProperties
<1>2. m \in Nat /\ Len(t) \in Nat /\ l \in Seq(Chars) /\ Len(l) \in Nat
    BY LenProperties, LineFacts
<1>3. k \in 1 .. Len(t) + 1
    BY <1>2
<1>4. k + Len(l) <= Len(t) + 1 /\ \A i \in 1 .. Len(l) : t[k + i - 1] = l[i]
    BY <1>2, <1>3, AtPoints
<1> HIDE DEF l, x, m
<1>5. ASSUME NEW i \in 1 .. Len(l) PROVE x[(m + k) + i - 1] = l[i]
    <2>1. /\ (m + k) + i - 1 \in 1 .. m + Len(t) /\ ~((m + k) + i - 1 <= m)
          /\ ((m + k) + i - 1) - m = k + i - 1
        BY <1>2, <1>4
    <2>2. x[(m + k) + i - 1] = t[k + i - 1]
        BY <1>1, <2>1
    <2> QED
        BY <1>4, <2>2
<1>6. m + k \in 1 .. Len(x) /\ m + k \in 1 .. Len(x) + 1
      /\ (m + k) + Len(l) <= Len(x) + 1
    BY <1>1, <1>2, <1>4
<1>7. IsAt(l, x, m + k)
    BY <1>1, <1>2, <1>5, <1>6, AtPoints
<1> QED
    BY <1>6, <1>7 DEF Stands, l, x, m

\* It makes no difference which pieces of a text are put together first.
LEMMA PiecesAssociate ==
    ASSUME NEW C, NEW s \in Seq(C), NEW t \in Seq(C), NEW u \in Seq(C)
    PROVE  (s \o t) \o u = s \o (t \o u)
    BY SMT

\* Damage is paid for, in every step.
LEMMA TornStep ==
    ASSUME TypeInv, TextInv, [Next]_vars
    PROVE  TornInv'
<1>1. /\ file \in Seq(Chars) /\ buffer \in Seq(Chars) /\ batch \in Seq(Events)
      /\ faults \in Nat /\ Owed(file \o buffer, faults)
      /\ pc # "append" => buffer = <<>>
    BY DEF TypeInv, TextInv, TornInv, LineInv
<1>2. file \o buffer \in Seq(Chars) /\ file \o <<>> = file
    BY <1>1, ConcatProperties
<1>3. CASE StartAppend
    <2>1. Lines(Text(batch), {batch[i] : i \in 1 .. Len(batch)})
        BY <1>1, TextFacts
    <2>2. Owed(file, faults)
        BY <1>1, <1>2, <1>3 DEF StartAppend
    <2>3. Owed(file \o Text(batch), faults)
        BY <1>1, <2>1, <2>2, OwedLines
    <2> QED
        BY <1>3, <2>3 DEF StartAppend, TornInv
<1>4. CASE Flush
    <2>1. PICK n \in 1 .. Len(buffer) :
              /\ file' = file \o SubSeq(buffer, 1, n)
              /\ buffer' = SubSeq(buffer, n + 1, Len(buffer))
        BY <1>4 DEF Flush
    <2>2. /\ SubSeq(buffer, 1, n) \in Seq(Chars)
          /\ SubSeq(buffer, n + 1, Len(buffer)) \in Seq(Chars)
          /\ SubSeq(buffer, 1, n) \o SubSeq(buffer, n + 1, Len(buffer)) = buffer
        BY <1>1, FlushFacts
    <2> DEFINE head == SubSeq(buffer, 1, n)
               tail == SubSeq(buffer, n + 1, Len(buffer))
    <2>3. file' \o buffer' = file \o buffer
        <3>1. file' = file \o head /\ buffer' = tail /\ head \o tail = buffer
              /\ head \in Seq(Chars) /\ tail \in Seq(Chars)
            BY <2>1, <2>2
        <3> HIDE DEF head, tail
        <3>2. file \in Seq(Chars) /\ head \in Seq(Chars) /\ tail \in Seq(Chars)
            BY <1>1, <3>1
        <3>3. (file \o head) \o tail = file \o (head \o tail)
            BY <3>2, PiecesAssociate
        <3> QED
            BY <3>1, <3>3
    <2> QED
        BY <1>1, <1>4, <2>3 DEF Flush, TornInv
<1>5. CASE SkipEvent
    <2>1. PICK k \in DOMAIN buffer, n \in 1 .. Len(buffer) :
              k + n <= Len(buffer) + 1 /\ buffer' = Without(buffer, k, n)
        BY <1>5 DEF SkipEvent
    <2>2. k \in 1 .. Len(buffer) /\ n \in Nat /\ n # 0 /\ k + n <= Len(buffer) + 1
        BY <2>1, SkipFacts
    <2>3. buffer' = Without(buffer, k, n)
        BY <2>1
    <2>4. /\ Len(file) + k \in 1 .. Len(file \o buffer)
          /\ Len(file) + k + n <= Len(file \o buffer) + 1
          /\ file \o Without(buffer, k, n) = Without(file \o buffer, Len(file) + k, n)
        BY <1>1, <2>2, ConcatWithout
    <2>5. Owed(Without(file \o buffer, Len(file) + k, n), faults + 1)
        BY <1>1, <1>2, <2>2, <2>4, OwedWithout
    <2> QED
        BY <1>5, <2>3, <2>4, <2>5 DEF SkipEvent, TornInv
<1>6. CASE CloseFails \/ Crash
    <2>1. Owed(file, faults + 1)
        BY <1>1, OwedCut
    <2>2. file' \o buffer' = file /\ faults' = faults + 1
        BY <1>2, <1>6 DEF CloseFails, Crash, EndPoll
    <2> QED
        BY <2>1, <2>2 DEF TornInv
<1>7. CASE CloseFile
    BY <1>1, <1>7 DEF CloseFile, EndPoll, TornInv
<1>8. CASE Tick \/ StartPoll \/ BuildEvent \/ UNCHANGED vars
    BY <1>1, <1>8 DEF Tick, StartPoll, BuildEvent, vars, TornInv
<1> QED
    BY <1>3, <1>4, <1>5, <1>6, <1>7, <1>8 DEF Next

\* So is what was written for each event.
LEMMA LineStep ==
    ASSUME EventInv, TextInv, [Next]_vars
    PROVE  LineInv'
<1>1. /\ file \in Seq(Chars) /\ buffer \in Seq(Chars) /\ batch \in Seq(Events)
      /\ logged \subseteq Events /\ pc \in {"idle", "diff", "append"}
      /\ Len(batch) \in Nat
    BY LenProperties DEF EventInv, TypeInv
<1>2. /\ pc # "append" => buffer = <<>>
      /\ pc = "append" => \A i \in 1 .. Len(batch) :
                             batch[i] \notin lost => Stands(batch[i], file \o buffer)
      /\ \A e \in logged : Stands(e, file)
    BY DEF TextInv, LineInv
<1>3. file \o <<>> = file
    BY <1>1, ConcatProperties
<1>4. \A i \in 1 .. Len(batch) : batch[i] \in Events
    BY <1>1, ElementOfSeq
<1>5. CASE BuildEvent
    BY <1>2, <1>5 DEF BuildEvent, LineInv
<1>6. CASE StartAppend
    <2>1. Lines(Text(batch), {batch[i] : i \in 1 .. Len(batch)})
        BY <1>1, TextFacts
    <2>2. ASSUME NEW i \in 1 .. Len(batch) PROVE Stands(batch[i], file \o Text(batch))
        <3>1. Text(batch) \in Seq(Chars) /\ Stands(batch[i], Text(batch))
            BY <2>1 DEF Lines
        <3>2. PICK k \in 1 .. Len(Text(batch)) : IsAt(Line(batch[i]), Text(batch), k)
            BY <3>1 DEF Stands
        <3> QED
            BY <1>1, <1>4, <3>1, <3>2, StandsAfter
    <2> QED
        BY <1>2, <1>6, <2>2 DEF StartAppend, LineInv
<1>7. CASE Flush
    <2>1. PICK n \in 1 .. Len(buffer) :
              /\ file' = file \o SubSeq(buffer, 1, n)
              /\ buffer' = SubSeq(buffer, n + 1, Len(buffer))
        BY <1>7 DEF Flush
    <2>2. /\ SubSeq(buffer, 1, n) \in Seq(Chars)
          /\ SubSeq(buffer, n + 1, Len(buffer)) \in Seq(Chars)
          /\ SubSeq(buffer, 1, n) \o SubSeq(buffer, n + 1, Len(buffer)) = buffer
        BY <1>1, FlushFacts
    <2> DEFINE head == SubSeq(buffer, 1, n)
               tail == SubSeq(buffer, n + 1, Len(buffer))
    <2>3. file' \o buffer' = file \o buffer
        <3>1. file' = file \o head /\ buffer' = tail /\ head \o tail = buffer
              /\ head \in Seq(Chars) /\ tail \in Seq(Chars)
            BY <2>1, <2>2
        <3> HIDE DEF head, tail
        <3>2. file \in Seq(Chars) /\ head \in Seq(Chars) /\ tail \in Seq(Chars)
            BY <1>1, <3>1
        <3>3. (file \o head) \o tail = file \o (head \o tail)
            BY <3>2, PiecesAssociate
        <3> QED
            BY <3>1, <3>3
    <2>4. \A e \in logged : Stands(e, file')
        BY <1>1, <1>2, <2>1, <2>2, StandsStill
    <2> QED
        BY <1>2, <1>7, <2>3, <2>4 DEF Flush, LineInv
<1>8. CASE SkipEvent
    <2>1. PICK k \in DOMAIN buffer, n \in 1 .. Len(buffer) :
              /\ k + n <= Len(buffer) + 1
              /\ buffer' = Without(buffer, k, n)
              /\ lost' = lost \cup {buffer[j].event : j \in k .. k + n - 1}
        BY <1>8 DEF SkipEvent
    <2>2. k \in 1 .. Len(buffer) /\ n \in Nat /\ n # 0 /\ buffer' \in Seq(Chars)
        BY <2>1, SkipFacts DEF EventInv
    <2> DEFINE t == file \o buffer
               m == Len(file)
    <2>3. /\ t \in Seq(Chars) /\ Len(t) = m + Len(buffer)
          /\ \A p \in 1 .. m + Len(buffer) :
                 t[p] = IF p <= m THEN file[p] ELSE buffer[p - m]
        BY <1>1, ConcatProperties
    <2>4. /\ m + k \in 1 .. Len(t) /\ m + k + n <= Len(t) + 1
          /\ file \o buffer' = Without(t, m + k, n)
        BY <1>1, <2>1, <2>2, ConcatWithout
    <2>5. m \in Nat /\ Len(buffer) \in Nat
        BY <1>1, LenProperties
    <2> HIDE DEF t, m
    <2>6. ASSUME NEW e \in Events, e \notin lost', Stands(e, t)
          PROVE  Stands(e, file \o buffer')
        <3>1. ASSUME NEW p \in m + k .. m + k + n - 1 PROVE t[p].event # e
            <4>1. p \in 1 .. m + Len(buffer) /\ ~(p <= m) /\ p - m \in k .. k + n - 1
                BY <2>1, <2>2, <2>5
            <4>2. t[p] = buffer[p - m]
                BY <2>3, <4>1
            <4> QED
                BY <2>1, <2>6, <4>1, <4>2
        <3>2. Stands(e, Without(t, m + k, n))
            BY <2>2, <2>3, <2>4, <2>6, <3>1, StandsWithout
        <3> QED
            BY <2>4, <3>2
    <2>7. /\ pc = "append" /\ pc' = pc /\ batch' = batch /\ file' = file
          /\ logged' = logged
        BY <1>8 DEF SkipEvent
    <2>8. \A i \in 1 .. Len(batch) :
              batch[i] \notin lost' => Stands(batch[i], file \o buffer')
        <3> SUFFICES ASSUME NEW i \in 1 .. Len(batch), batch[i] \notin lost'
                     PROVE  Stands(batch[i], file \o buffer')
            OBVIOUS
        <3>1. batch[i] \in Events /\ batch[i] \notin lost
            BY <1>4, <2>1
        <3>2. Stands(batch[i], t)
            BY <1>2, <2>7, <3>1 DEF t
        <3> QED
            BY <2>6, <3>1, <3>2
    <2> QED
        BY <1>2, <2>7, <2>8 DEF LineInv
<1>9. CASE CloseFile
    <2>1. \A e \in logged' : Stands(e, file)
        <3>1. \A i \in 1 .. Len(batch) : batch[i] \notin lost => Stands(batch[i], file)
            BY <1>2, <1>3, <1>9 DEF CloseFile
        <3>2. logged' = logged \cup ({batch[i] : i \in 1 .. Len(batch)} \ lost)
            BY <1>1, <1>9, LenProperties DEF CloseFile
        <3> QED
            BY <1>2, <3>1, <3>2
    <2> QED
        BY <1>9, <2>1 DEF CloseFile, EndPoll, LineInv
<1>10. CASE CloseFails \/ Crash
    BY <1>2, <1>10 DEF CloseFails, Crash, EndPoll, LineInv
<1>11. CASE Tick \/ StartPoll \/ UNCHANGED vars
    BY <1>2, <1>11 DEF Tick, StartPoll, vars, LineInv
<1> QED
    BY <1>5, <1>6, <1>7, <1>8, <1>9, <1>10, <1>11 DEF Next

\* What is known of the text is an invariant.
LEMMA TextInvariance == Spec => []TextInv
<1>1. Init => TextInv
    <2> SUFFICES ASSUME Init PROVE TextInv
        OBVIOUS
    <2>1. file \o buffer = <<>> /\ faults = 0
        BY DEF Init
    <2>2. Torn(<<>>) = {} /\ ~EndsTorn(<<>>)
        BY DEF Torn, EndsTorn
    <2>3. Owed(file \o buffer, faults)
        BY <2>1, <2>2, FS_EmptySet DEF Owed
    <2> QED
        BY <2>3 DEF Init, TextInv, TornInv, LineInv
<1>2. EventInv /\ TextInv /\ [Next]_vars => TextInv'
    BY TornStep, LineStep DEF EventInv, TextInv
<1> QED
    BY <1>1, <1>2, EventInvariance, PTL DEF Spec
-----------------------------------------------------------------------------
(* The readers.                                                            *)

\* A part of a text, character by character.
LEMMA PartFacts ==
    ASSUME NEW t \in Seq(Chars), NEW i \in 1 .. Len(t), NEW j \in i - 1 .. Len(t)
    PROVE  /\ SubSeq(t, i, j) \in Seq(Chars)
           /\ Len(SubSeq(t, i, j)) = j - i + 1
           /\ \A m \in 1 .. j - i + 1 : SubSeq(t, i, j)[m] = t[i + m - 1]
<1>1. Len(t) \in Nat /\ i \in Int /\ j \in Int /\ \A m \in 1 .. Len(t) : t[m] \in Chars
    BY LenProperties, ElementOfSeq
<1>2. \A m \in i .. j : t[m] \in Chars
    BY <1>1
<1>3. /\ SubSeq(t, i, j) \in Seq(Chars)
      /\ Len(SubSeq(t, i, j)) = IF i <= j THEN j - i + 1 ELSE 0
      /\ \A m \in 1 .. j - i + 1 : SubSeq(t, i, j)[m] = t[i + m - 1]
    BY <1>1, <1>2, SubSeqProperties
<1>4. (IF i <= j THEN j - i + 1 ELSE 0) = j - i + 1
    BY <1>1
<1> QED
    BY <1>3, <1>4

\* The line of the file that begins at i goes on to the j-th character.
LineTo(i, j) ==
    /\ LineFrom(i) = SubSeq(file, i, j)
    /\ \A m \in i .. j : file[m].part \notin Ends
    /\ j < Len(file) => file[j + 1].part \in Ends

\* A line ends before the next line end, or with the file.
LEMMA LineFromFacts ==
    ASSUME file \in Seq(Chars), NEW i \in 1 .. Len(file)
    PROVE  \E j \in i - 1 .. Len(file) : LineTo(i, j)
<1> DEFINE ends == {j \in DOMAIN file :
                       j >= i /\ file[j].part \in {"newline", "separator"}}
<1>1. Len(file) \in Nat /\ DOMAIN file = 1 .. Len(file)
    BY LenProperties
<1>2. /\ \A m \in i .. Len(file) : m \notin ends => file[m].part \notin Ends
      /\ \A m \in ends : m \in i .. Len(file) /\ file[m].part \in Ends
      /\ ends \subseteq Nat
    BY <1>1 DEF Ends
<1>3. LineFrom(i) = IF ends = {} THEN SubSeq(file, i, Len(file))
                    ELSE SubSeq(file, i, (CHOOSE j \in ends : \A k \in ends : j <= k) - 1)
    BY DEF LineFrom
<1> HIDE DEF ends
<1>4. CASE ends = {}
    <2>1. LineTo(i, Len(file))
        BY <1>1, <1>2, <1>3, <1>4 DEF LineTo
    <2> QED
        BY <1>1, <2>1
<1>5. CASE ends # {}
    <2> DEFINE e == CHOOSE j \in ends : \A k \in ends : j <= k
    <2>1. e \in ends /\ \A k \in ends : e <= k
        BY <1>2, <1>5, LeastElement
    <2>2. LineFrom(i) = SubSeq(file, i, e - 1)
        BY <1>3, <1>5
    <2> HIDE DEF e
    <2>3. e \in i .. Len(file) /\ file[e].part \in Ends /\ (e - 1) + 1 = e
        BY <1>1, <1>2, <2>1
    <2>4. ASSUME NEW m \in i .. e - 1 PROVE file[m].part \notin Ends
        <3>1. m \in i .. Len(file) /\ ~(e <= m)
            BY <1>1, <2>3
        <3> QED
            BY <1>2, <2>1, <3>1
    <2>5. LineTo(i, e - 1)
        BY <2>2, <2>3, <2>4 DEF LineTo
    <2>6. e - 1 \in i - 1 .. Len(file)
        BY <1>1, <2>3
    <2> QED
        BY <2>5, <2>6
<1> QED
    BY <1>4, <1>5

\* The events of a text are finitely many.
LEMMA FinitelyMany ==
    ASSUME NEW t \in Seq(Chars)
    PROVE  IsFiniteSet(EventsOf(t))
<1> DEFINE f == [i \in 1 .. Len(t) |-> t[i].event]
<1>1. Len(t) \in Nat
    BY LenProperties
<1>2. IsFiniteSet(1 .. Len(t))
    BY <1>1, FS_Interval
<1>3. f \in Surjection(1 .. Len(t), EventsOf(t))
    BY DEF Surjection, EventsOf
<1> HIDE DEF f
<1> QED
    BY <1>2, <1>3, FS_Surjection

\* What is read was written.
LEMMA ReadFacts ==
    ASSUME TypeInv, NEW limit
    PROVE  /\ ReadEvents(limit) \subseteq Known
           /\ IsFiniteSet(ReadEvents(limit)) /\ Dated(ReadEvents(limit))
<1>1. file \in Seq(Chars) /\ DOMAIN file = 1 .. Len(file) /\ Len(file) \in Nat
    BY LenProperties DEF TypeInv
<1>2. ASSUME NEW i \in LastLines(limit), LineFrom(i) # <<>>
      PROVE  LineFrom(i)[1].event \in EventsOf(file)
    <2>1. i \in 1 .. Len(file)
        BY <1>1 DEF LastLines, LineStarts
    <2>2. PICK j \in i - 1 .. Len(file) : LineFrom(i) = SubSeq(file, i, j)
        BY <1>1, <2>1, LineFromFacts DEF LineTo
    <2>3. /\ SubSeq(file, i, j) \in Seq(Chars)
          /\ Len(SubSeq(file, i, j)) = j - i + 1
          /\ \A m \in 1 .. j - i + 1 : SubSeq(file, i, j)[m] = file[i + m - 1]
        BY <1>1, <2>1, PartFacts
    <2>4. j - i + 1 # 0
        BY <1>2, <2>2, <2>3, EmptySeq
    <2>5. 1 \in 1 .. j - i + 1 /\ i + 1 - 1 = i
        BY <1>1, <2>1, <2>4
    <2>6. LineFrom(i)[1] = file[i]
        BY <2>2, <2>3, <2>5
    <2> QED
        BY <2>1, <2>6 DEF EventsOf
<1>3. ReadEvents(limit) \subseteq EventsOf(file)
    BY <1>2 DEF ReadEvents
<1>4. IsFiniteSet(ReadEvents(limit))
    BY <1>1, <1>3, FinitelyMany, FS_Subset
<1>5. ReadEvents(limit) \subseteq Known /\ Known \subseteq Events
    BY <1>3, KnownType DEF Known
<1>6. Dated(ReadEvents(limit))
    BY <1>5, BoundsAssumption DEF Dated, Events
<1> QED
    BY <1>4, <1>5, <1>6

\* The page shows the groups of what was read, or nothing.
LEMMA PageFacts ==
    ASSUME TypeInv, Groups # {}
    PROVE  /\ Decodable
           /\ GroupsOf(GroupEvents(ReadEvents(PageLimit)), ReadEvents(PageLimit),
                       ReadEvents(PageLimit))
           /\ Groups = {GroupEvents(ReadEvents(PageLimit))[i] :
                           i \in 1 .. Len(GroupEvents(ReadEvents(PageLimit)))}
<1> DEFINE es == ReadEvents(PageLimit)
           page == GroupEvents(es)
<1>1. GroupsOf(page, es, es)
    BY ReadFacts, GroupEventsFacts
<1>2. Decodable /\ Groups = {page[i] : i \in DOMAIN page}
    BY DEF Groups
<1> HIDE DEF page
<1>3. DOMAIN page = 1 .. Len(page)
    <2> DEFINE All == [mac : Nat, time : Nat, events : SUBSET es]
    <2>1. page \in Seq(All)
        BY <1>1 DEF GroupsOf
    <2> HIDE DEF All
    <2> QED
        BY <2>1, LenProperties
<1> QED
    BY <1>1, <1>2, <1>3 DEF page

\* Two events that are shown are in one group exactly if they are connected.
LEMMA ShownTogether ==
    ASSUME TypeInv, NEW g \in Groups, NEW h \in Groups,
           NEW e \in g.events, NEW f \in h.events
    PROVE  /\ e \in ReadEvents(PageLimit) /\ f \in ReadEvents(PageLimit)
           /\ Closed(g)
           /\ e.time <= f.time => (g = h <=> Connected(ReadEvents(PageLimit), e, f))
<1> DEFINE es == ReadEvents(PageLimit)
           gs == GroupEvents(es)
           All == [mac : Nat, time : Nat, events : SUBSET es]
<1>1. Dated(es) /\ GroupsOf(gs, es, es) /\ Groups = {gs[i] : i \in 1 .. Len(gs)}
    BY ReadFacts, PageFacts
<1> HIDE DEF es, gs
<1>2. gs \in Seq(All) /\ \A k \in 1 .. Len(gs) : Closed(gs[k])
    BY <1>1 DEF GroupsOf
<1> HIDE DEF All
<1>3. \A k \in 1 .. Len(gs) : gs[k] \in All
    BY <1>2, ElementOfSeq
<1>4. g \in All /\ h \in All /\ Closed(g)
    BY <1>1, <1>2, <1>3
<1>5. e \in es /\ f \in es
    BY <1>4 DEF All
<1>6. e.time <= f.time => (g = h <=> Connected(es, e, f))
    BY <1>1, GroupsAreGaps
<1> QED
    BY <1>4, <1>5, <1>6 DEF es
\* A line that begins where a line may begin is read whole, and not skipped,
\* unless it holds a line separator.
LEMMA LineIsRead ==
    ASSUME TypeInv, NEW e \in Events, e.text # "split", NEW k \in 1 .. Len(file),
           IsAt(Line(e), file, k), k = 1 \/ file[k - 1].part \in Ends
    PROVE  e \in ReadEvents(Len(file))
<1> DEFINE l == Line(e)
           js == Json(e)
           n == Len(js)
<1>1. /\ file \in Seq(Chars) /\ DOMAIN file = 1 .. Len(file) /\ Len(file) \in Nat
      /\ k \in 1 .. Len(file) + 1
    BY LenProperties DEF TypeInv
<1>2. /\ l \in Seq(Chars) /\ js \in Seq(Chars) /\ n \in 2 .. 4 /\ Len(l) = n + 1
      /\ \A i \in 1 .. n : l[i] = js[i]
      /\ \A i \in 1 .. n + 1 :
             /\ l[i].event = e
             /\ l[i].part = "newline" <=> i = n + 1
             /\ l[i].part # "separator"
    BY LineFacts
<1>3. k + n + 1 <= Len(file) + 1 /\ \A i \in 1 .. n + 1 : file[k + i - 1] = l[i]
    <2>1. k + Len(l) <= Len(file) + 1 /\ \A i \in 1 .. Len(l) : file[k + i - 1] = l[i]
        BY <1>1, <1>2, AtPoints
    <2> HIDE DEF l, js
    <2> QED
        BY <1>1, <1>2, <2>1
<1> HIDE DEF l, js, n
<1>4. k \in Nat /\ n \in Nat /\ k + n \in 1 .. Len(file)
    BY <1>1, <1>2, <1>3
<1>5. \A m \in k .. k + n - 1 : file[m].part \notin Ends
    <2> SUFFICES ASSUME NEW m \in k .. k + n - 1 PROVE file[m].part \notin Ends
        OBVIOUS
    <2>1. (m - k) + 1 \in 1 .. n + 1 /\ (m - k) + 1 # n + 1 /\ k + ((m - k) + 1) - 1 = m
        BY <1>4
    <2>2. file[m] = l[(m - k) + 1]
        BY <1>3, <2>1
    <2> QED
        BY <1>2, <2>1, <2>2 DEF Ends
<1>6. file[k + n].part \in Ends
    <2>1. n + 1 \in 1 .. n + 1 /\ k + (n + 1) - 1 = k + n
        BY <1>4
    <2>2. file[k + n] = l[n + 1]
        BY <1>3, <2>1
    <2> QED
        BY <1>2, <2>1, <2>2 DEF Ends
<1>7. PICK j \in k - 1 .. Len(file) : LineTo(k, j)
    BY <1>1, LineFromFacts
<1>8. j = k + n - 1
    <2>1. ~(j >= k + n)
        <3> SUFFICES ASSUME j >= k + n PROVE FALSE
            OBVIOUS
        <3>1. k + n \in k .. j
            BY <1>4
        <3> QED
            BY <1>6, <1>7, <3>1 DEF LineTo
    <2>2. ~(j < k + n - 1)
        <3> SUFFICES ASSUME j < k + n - 1 PROVE FALSE
            OBVIOUS
        <3>1. j + 1 \in k .. k + n - 1 /\ j < Len(file)
            BY <1>1, <1>4
        <3> QED
            BY <1>5, <1>7, <3>1 DEF LineTo
    <2> QED
        BY <1>1, <1>4, <2>1, <2>2
<1>9. LineFrom(k) = js
    <2> DEFINE p == SubSeq(file, k, j)
    <2>1. p \in Seq(Chars) /\ Len(p) = j - k + 1
          /\ \A m \in 1 .. j - k + 1 : p[m] = file[k + m - 1]
        BY <1>1, PartFacts
    <2> HIDE DEF p
    <2>2. Len(p) = n /\ \A m \in 1 .. n : p[m] = file[k + m - 1]
        BY <1>4, <1>8, <2>1
    <2>3. \A m \in 1 .. n : p[m] = js[m]
        BY <1>2, <1>3, <1>4, <2>2
    <2>4. Len(js) = n
        BY DEF n
    <2>5. p = js
        BY <1>2, <2>1, <2>2, <2>3, <2>4, SeqEqual
    <2> QED
        BY <1>7, <2>5 DEF LineTo, p
<1>10. js # <<>> /\ js[1].event = e
    <2>1. 1 \in 1 .. n /\ 1 \in 1 .. n + 1 /\ n # 0
        BY <1>2
    <2>2. Len(js) # 0
        BY <2>1 DEF n
    <2> QED
        BY <1>2, <2>1, <2>2, EmptySeq
<1>11. k \in LastLines(Len(file))
    <2> DEFINE After == {m \in LineStarts : m > k}
    <2>1. k \in LineStarts
        BY <1>1 DEF LineStarts, Ends
    <2>2. After \in SUBSET (2 .. Len(file))
        BY <1>1 DEF LineStarts
    <2>3. IsFiniteSet(2 .. Len(file)) /\ Cardinality(2 .. Len(file)) < Len(file)
        <3> DEFINE size == Len(file)
        <3>1. size \in Int /\ 2 \in Int /\ size >= 1
            BY <1>1
        <3> HIDE DEF size
        <3>2. /\ IsFiniteSet(2 .. size)
              /\ Cardinality(2 .. size) = IF 2 > size THEN 0 ELSE size - 2 + 1
            BY <3>1, FS_Interval
        <3> QED
            BY <3>1, <3>2 DEF size
    <2> HIDE DEF After
    <2>4. /\ IsFiniteSet(After) /\ Cardinality(After) <= Cardinality(2 .. Len(file))
        BY <2>2, <2>3, FS_Subset
    <2>5. Cardinality(After) \in Nat /\ Cardinality(2 .. Len(file)) \in Nat
        BY <2>3, <2>4, FS_CardinalityType
    <2>6. Cardinality(After) < Len(file)
        BY <1>1, <2>3, <2>4, <2>5
    <2> QED
        BY <2>1, <2>6 DEF LastLines, After
<1> QED
    BY <1>9, <1>10, <1>11 DEF ReadEvents, js

-----------------------------------------------------------------------------
(* The theorems.                                                           *)

\* GroupsByGaps (EventLog), for any number of events: the page shows every event
\* that was read, in the groups that the gaps between events of a device define,
\* each at the time of its latest event (web/timeline_utils.py, group_events).
THEOREM GroupingIsByGaps == Spec => []GroupsByGaps
<1>1. TypeInv => GroupsByGaps
    <2> SUFFICES ASSUME TypeInv PROVE GroupsByGaps
        OBVIOUS
    <2> DEFINE es == ReadEvents(PageLimit)
               read == UNION {g.events : g \in Groups}
    <2>1. ASSUME Decodable PROVE read = es
        <3> DEFINE gs == GroupEvents(es)
                   All == [mac : Nat, time : Nat, events : SUBSET es]
        <3>1. GroupsOf(gs, es, es)
            BY ReadFacts, GroupEventsFacts
        <3>2. Groups = {gs[i] : i \in DOMAIN gs}
            BY <2>1 DEF Groups
        <3> HIDE DEF gs, es
        <3>3. gs \in Seq(All) /\ \A e \in es : \E k \in 1 .. Len(gs) : e \in gs[k].events
            BY <3>1 DEF GroupsOf
        <3> HIDE DEF All
        <3>4. DOMAIN gs = 1 .. Len(gs) /\ \A k \in 1 .. Len(gs) : gs[k] \in All
            BY <3>3, LenProperties, ElementOfSeq
        <3>5. \A g \in Groups : g.events \subseteq es
            BY <3>2, <3>4 DEF All
        <3>6. \A e \in es : \E g \in Groups : e \in g.events
            BY <3>2, <3>3, <3>4
        <3> QED
            BY <3>5, <3>6
    <2>2. ASSUME NEW g \in Groups, NEW e \in g.events PROVE read = es
        BY <2>1, PageFacts
    <2> HIDE DEF es, read
    <2>3. ASSUME NEW g \in Groups
          PROVE  (\A e \in g.events : e.time <= g.time) /\ (\E e \in g.events : e.time = g.time)
        <3>1. Closed(g)
            <4> DEFINE gs == GroupEvents(ReadEvents(PageLimit))
            <4>1. GroupsOf(gs, ReadEvents(PageLimit), ReadEvents(PageLimit))
                  /\ Groups = {gs[i] : i \in 1 .. Len(gs)}
                BY PageFacts
            <4> HIDE DEF gs
            <4> QED
                BY <4>1 DEF GroupsOf
        <3> QED
            BY <3>1 DEF Closed
    <2>4. ASSUME NEW g \in Groups, NEW h \in Groups, NEW e \in g.events, NEW f \in h.events,
                 e.time <= f.time
          PROVE  g = h <=> Connected(read, e, f)
        <3>1. g = h <=> Connected(es, e, f)
            BY <2>4, ShownTogether DEF es
        <3>2. read = es
            BY <2>2, <2>4
        <3> QED
            BY <3>1, <3>2
    <2> QED
        BY <2>1, <2>3, <2>4 DEF GroupsByGaps, es, read
<1>2. EventInv => TypeInv
    BY DEF EventInv
<1> QED
    BY <1>1, <1>2, EventInvariance, PTL

\* PollIsOneGroup (EventLog), for any number of polls and events: what one poll logs
\* of a device is shown in one group, although the clock may tick while
\* process_snapshot_diff (app/persistence.py) stamps the events.
THEOREM PollsAreKeptTogether == Spec => []PollIsOneGroup
<1>1. EventInv => PollIsOneGroup
    <2> SUFFICES ASSUME EventInv, NEW g \in Groups, NEW h \in Groups,
                        NEW e \in g.events, NEW f \in h.events,
                        e.mac = f.mac, e.poll = f.poll
                 PROVE  g = h
        BY DEF PollIsOneGroup
    <2> DEFINE es == ReadEvents(PageLimit)
    <2>1. TypeInv
        BY DEF EventInv
    <2>2. /\ e \in es /\ f \in es
          /\ e.time <= f.time => (g = h <=> Connected(es, e, f))
        BY <2>1, ShownTogether
    <2>3. f.time <= e.time => (h = g <=> Connected(es, f, e))
        BY <2>1, ShownTogether
    <2>4. es \subseteq Known /\ Dated(es)
        BY <2>1, ReadFacts
    <2> HIDE DEF es
    <2>5. /\ e.time \in Nat /\ f.time \in Nat
          /\ e.time <= f.time + 1 /\ f.time <= e.time + 1
        BY <2>2, <2>4 DEF EventInv, PollInv, Dated
    <2>6. CASE e.time <= f.time
        <3>1. \A t \in e.time .. f.time : t = e.time \/ t = f.time
            BY <2>5
        <3>2. Connected(es, e, f)
            BY <2>2, <3>1 DEF Connected
        <3> QED
            BY <2>2, <2>6, <3>2
    <2>7. CASE f.time <= e.time
        <3>1. \A t \in f.time .. e.time : t = e.time \/ t = f.time
            BY <2>5
        <3>2. Connected(es, f, e)
            BY <2>2, <3>1 DEF Connected
        <3> QED
            BY <2>3, <2>7, <3>2
    <2> QED
        BY <2>5, <2>6, <2>7
<1> QED
    BY <1>1, EventInvariance, PTL

\* PollsAreApart (EventLog), for any number of polls and events: an interval of two
\* seconds or more between polls of one process leaves a second without events, which
\* no chain of a device's events can cross.  An interval of one second leaves none,
\* and the theorem says nothing of it (app/persistence.py, process_snapshot_diff;
\* web/timeline_utils.py, group_events).
THEOREM PollsAreToldApart == Spec => []PollsAreApart
<1>1. EventInv => PollsAreApart
    <2> SUFFICES ASSUME EventInv, NEW g \in Groups, NEW e \in g.events, NEW f \in g.events,
                        e.life = f.life, Interval # 1
                 PROVE  e.poll = f.poll
        BY DEF PollsAreApart
    <2>0. Gaps
        <3>1. Interval > 1
            BY IntervalAssumption
        <3> QED
            BY <3>1 DEF EventInv, GapInv
    <2> DEFINE es == ReadEvents(PageLimit)
    <2>1. TypeInv
        BY DEF EventInv
    <2>2. \A x, y \in g.events : /\ x \in es
                                 /\ x.time <= y.time => Connected(es, x, y)
        BY <2>1, ShownTogether
    <2>3. es \subseteq Known /\ es \subseteq Events
        BY <2>1, ReadFacts, KnownType
    <2> HIDE DEF es
    <2>4. ASSUME NEW x \in g.events, NEW y \in g.events, x.life = y.life
          PROVE  ~(x.poll < y.poll)
        <3> SUFFICES ASSUME x.poll < y.poll PROVE FALSE
            OBVIOUS
        <3>1. x \in Known /\ y \in Known
            BY <2>2, <2>3
        <3>2. Silent(x, y.time)
            BY <2>0, <2>4, <3>1 DEF Gaps
        <3>3. PICK u \in x.time + 1 .. y.time - 1 : \A z \in Known : z.time # u
            BY <3>2 DEF Silent
        <3>4. x.time \in Nat /\ y.time \in Nat
            BY <2>2, <2>3 DEF Events
        <3>5. x.time <= y.time /\ u \in x.time .. y.time
            BY <3>3, <3>4
        <3>6. Connected(es, x, y)
            BY <2>2, <3>5
        <3>7. PICK z \in es : z.time = u
            BY <3>5, <3>6 DEF Connected
        <3> QED
            BY <2>3, <3>3, <3>7
    <2>5. e.poll \in Nat /\ f.poll \in Nat
        BY <2>2, <2>3 DEF Events
    <2> QED
        BY <2>4, <2>5
<1> QED
    BY <1>1, EventInvariance, PTL

\* DamageIsBounded (EventLog), for any number of events and faults: an event whose
\* append ended well is only lost to the readers if its line was begun on the remains
\* of another, and every remains is owed to a fault of its own
\* (app/persistence.py, _append_events; app/api/main.py, list_events).
THEOREM DamageStaysBounded == Spec => []DamageIsBounded
<1>1. EventInv /\ TextInv => DamageIsBounded
    <2> SUFFICES ASSUME EventInv, TextInv PROVE Cardinality(Unreadable) <= faults
        BY DEF DamageIsBounded
    <2>1. /\ TypeInv /\ file \in Seq(Chars) /\ buffer \in Seq(Chars)
          /\ logged \subseteq Events /\ faults \in Nat /\ Len(file) \in Nat
        BY LenProperties DEF EventInv, TypeInv
    <2>2. Unreadable \subseteq Torn(file)
        <3> SUFFICES ASSUME NEW e \in logged, e.text # "split",
                            e \notin ReadEvents(Len(file))
                     PROVE  e \in Torn(file)
            BY DEF Unreadable
        <3>1. e \in Events /\ Stands(e, file)
            BY <2>1 DEF TextInv, LineInv
        <3>2. PICK k \in 1 .. Len(file) : IsAt(Line(e), file, k)
            BY <3>1 DEF Stands
        <3>3. k # 1 /\ file[k - 1].part \notin Ends
            BY <2>1, <3>1, <3>2, LineIsRead
        <3>4. file[k].part = "begin" /\ file[k].event = e
            <4> DEFINE l == Line(e)
            <4>1. /\ l \in Seq(Chars) /\ Len(l) \in Nat /\ Len(l) # 0
                  /\ \A i \in 1 .. Len(l) :
                         l[i].event = e /\ (l[i].part = "begin" <=> i = 1)
                BY <3>1, LineFacts
            <4>2. k \in 1 .. Len(file) + 1
                BY <2>1
            <4>3. \A i \in 1 .. Len(l) : file[k + i - 1] = l[i]
                BY <2>1, <3>2, <4>1, <4>2, AtPoints
            <4> HIDE DEF l
            <4>4. 1 \in 1 .. Len(l) /\ k + 1 - 1 = k
                BY <2>1, <4>1
            <4> QED
                BY <4>1, <4>3, <4>4
        <3>5. k \in 2 .. Len(file)
            BY <2>1, <3>3
        <3> QED
            BY <3>3, <3>4, <3>5 DEF Torn
    <2>3. Torn(file) \subseteq Torn(file \o buffer)
        BY <2>1, TornBefore
    <2>4. IsFiniteSet(Torn(file \o buffer))
          /\ Cardinality(Torn(file \o buffer)) <= faults
        <3>1. Owed(file \o buffer, faults)
            BY DEF TextInv, TornInv
        <3>2. IsFiniteSet(Torn(file \o buffer))
            BY <3>1 DEF Owed
        <3>3. Cardinality(Torn(file \o buffer)) \in Nat
            BY <3>2, FS_CardinalityType
        <3> QED
            BY <2>1, <3>1, <3>3 DEF Owed
    <2>5. Unreadable \in SUBSET Torn(file \o buffer)
        BY <2>2, <2>3
    <2>6. IsFiniteSet(Unreadable)
          /\ Cardinality(Unreadable) <= Cardinality(Torn(file \o buffer))
        BY <2>4, <2>5, FS_Subset
    <2>7. Cardinality(Unreadable) \in Nat /\ Cardinality(Torn(file \o buffer)) \in Nat
        BY <2>4, <2>6, FS_CardinalityType
    <2> QED
        BY <2>1, <2>4, <2>6, <2>7
<1> QED
    BY <1>1, EventInvariance, TextInvariance, PTL
=============================================================================
