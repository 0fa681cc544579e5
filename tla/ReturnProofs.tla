---------------------------- MODULE ReturnProofs ----------------------------
(***************************************************************************)
(* The return check on any graph of the shape it relies on: it ends, what  *)
(* it accepts returns on every walk, and what it refuses has a node that   *)
(* is no return right before the end.                                      *)
(***************************************************************************)
EXTENDS ReturnCheck, FiniteSetTheorems, SequenceTheorems, WellFoundedInduction, TLAPS

-----------------------------------------------------------------------------
(* Naturals, sequences without duplicates, recursion. *)

LEMMA CountUp ==
  ASSUME NEW S, 0 \in S, \A n \in Nat : n \in S => n + 1 \in S
  PROVE  \A n \in Nat : n \in S
<1> DEFINE less == OpToRel(<, Nat)
           Bad == {n \in Nat : n \notin S}
<1>1. IsWellFoundedOn(less, Nat)  BY NatLessThanWellFounded DEF OpToRel
<1>2. \A m, n \in Nat : m < n => <<m, n>> \in less  BY DEF OpToRel
<1> HIDE DEF less
<1> SUFFICES ASSUME Bad # {} PROVE FALSE  OBVIOUS
<1>3. PICK m \in Bad : \A n \in Bad : ~(<<n, m>> \in less)  BY <1>1, WFMin
<1>4. m \in Nat /\ m # 0 /\ m - 1 \in Nat /\ m = (m - 1) + 1 /\ m - 1 < m  BY <1>3
<1> QED  BY <1>2, <1>3, <1>4

NoDuplicates(s) == \A i, j \in 1 .. Len(s) : s[i] = s[j] => i = j

LEMMA Topped ==
  ASSUME NEW S, NEW s \in Seq(S), s # <<>>, NoDuplicates(s)
  PROVE  /\ Front(s) \in Seq(S) /\ NoDuplicates(Front(s))
         /\ Last(s) \in S /\ Last(s) \notin ToSet(Front(s))
         /\ ToSet(s) = ToSet(Front(s)) \cup {Last(s)}
<1>1. PICK n : n = Len(s)  OBVIOUS
<1>2. n \in Nat \ {0} /\ DOMAIN s = 1 .. n /\ n \in 1 .. n /\ \A i \in 1 .. n : s[i] \in S
  BY <1>1
<1>3. Last(s) = s[n]  BY <1>1 DEF Last
<1>4. /\ Front(s) \in Seq(S) /\ Len(Front(s)) = n - 1 /\ DOMAIN Front(s) = 1 .. n - 1
      /\ \A i \in 1 .. n - 1 : Front(s)[i] = s[i]
  BY <1>1, <1>2 DEF Front
<1>5. \A i \in 1 .. n : i = n \/ i \in 1 .. n - 1  BY <1>2
<1>6. \A i \in 1 .. n - 1 : i \in 1 .. n /\ i # n  BY <1>2
<1>7. \A i, j \in 1 .. n : s[i] = s[j] => i = j  BY <1>1 DEF NoDuplicates
<1>8. NoDuplicates(Front(s))  BY <1>4, <1>6, <1>7 DEF NoDuplicates
<1>9. Last(s) \notin ToSet(Front(s))  BY <1>2, <1>3, <1>4, <1>6, <1>7 DEF ToSet
<1>10. ToSet(s) = ToSet(Front(s)) \cup {Last(s)}  BY <1>2, <1>3, <1>4, <1>5, <1>6 DEF ToSet
<1> QED  BY <1>2, <1>3, <1>4, <1>8, <1>9, <1>10

LEMMA Single ==
  ASSUME NEW S, NEW p \in S
  PROVE  <<p>> \in Seq(S) /\ NoDuplicates(<<p>>) /\ ToSet(<<p>>) = {p} /\ <<p>> # <<>>
<1>1. PICK s : s = <<p>>  OBVIOUS
<1>2. s \in Seq(S) /\ Len(s) = 1 /\ s[1] = p /\ DOMAIN s = 1 .. 1  BY <1>1
<1>3. \A i \in 1 .. 1 : i = 1  OBVIOUS
<1>4. NoDuplicates(s)  BY <1>2, <1>3 DEF NoDuplicates
<1>5. ToSet(s) = {p}  BY <1>2, <1>3 DEF ToSet
<1> QED  BY <1>1, <1>2, <1>4, <1>5

LEMMA Joined ==
  ASSUME NEW S, NEW s \in Seq(S), NEW u \in Seq(S)
  PROVE  /\ s \o u \in Seq(S) /\ Len(s \o u) = Len(s) + Len(u)
         /\ \A i \in 1 .. Len(s) : (s \o u)[i] = s[i]
         /\ \A i \in 1 .. Len(u) : (s \o u)[Len(s) + i] = u[i]
<1>1. PICK n, m : n = Len(s) /\ m = Len(u)  OBVIOUS
<1>2. PICK v : v = s \o u  OBVIOUS
<1>3. n \in Nat /\ m \in Nat /\ v \in Seq(S) /\ Len(v) = n + m  BY <1>1, <1>2
<1>4. \A i \in 1 .. n : v[i] = s[i]  BY <1>1, <1>2, <1>3
<1>5. \A i \in 1 .. m : v[n + i] = u[i]
  <2> TAKE i \in 1 .. m
  <2>1. n + i \in 1 .. n + m /\ ~(n + i <= n) /\ (n + i) - n = i  BY <1>3
  <2> QED  BY <1>1, <1>2, <1>3, <2>1
<1> QED  BY <1>1, <1>2, <1>3, <1>4, <1>5

LEMMA Prefixed ==
  ASSUME NEW S, NEW x \in S, NEW c \in Seq(S)
  PROVE  /\ <<x>> \o c \in Seq(S) /\ Len(<<x>> \o c) = Len(c) + 1 /\ (<<x>> \o c)[1] = x
         /\ \A i \in 1 .. Len(c) : (<<x>> \o c)[i + 1] = c[i]
<1>1. PICK a, m : a = <<x>> /\ m = Len(c)  OBVIOUS
<1>2. a \in Seq(S) /\ Len(a) = 1 /\ a[1] = x /\ m \in Nat  BY <1>1
<1>3. PICK v : v = a \o c  OBVIOUS
<1>4. v \in Seq(S) /\ Len(v) = 1 + m  BY <1>1, <1>2, <1>3
<1>5. \A i \in 1 .. 1 : v[i] = a[i]  BY <1>2, <1>3, Joined
<1>6. \A i \in 1 .. m : v[1 + i] = c[i]  BY <1>1, <1>2, <1>3, Joined
<1>7. v[1] = x /\ 1 + m = m + 1 /\ \A i \in 1 .. m : i + 1 = 1 + i  BY <1>2, <1>5
<1> QED  BY <1>1, <1>3, <1>4, <1>6, <1>7

LEMMA Stacked ==
  ASSUME NEW S, NEW s \in Seq(S), NEW u \in Seq(S), NoDuplicates(s), NoDuplicates(u),
         ToSet(s) \cap ToSet(u) = {}
  PROVE  /\ s \o u \in Seq(S) /\ NoDuplicates(s \o u)
         /\ ToSet(s \o u) = ToSet(s) \cup ToSet(u)
<1>1. PICK n, m : n = Len(s) /\ m = Len(u)  OBVIOUS
<1>2. PICK v : v = s \o u  OBVIOUS
<1>3. /\ n \in Nat /\ m \in Nat /\ DOMAIN s = 1 .. n /\ DOMAIN u = 1 .. m
      /\ v \in Seq(S) /\ Len(v) = n + m /\ DOMAIN v = 1 .. n + m
  BY <1>1, <1>2
<1>4. \A i \in 1 .. n : v[i] = s[i]  BY <1>1, <1>2, Joined
<1>5. \A i \in 1 .. m : v[n + i] = u[i]  BY <1>1, <1>2, Joined
<1>6. \A i \in 1 .. n + m : i \in 1 .. n \/ (i - n \in 1 .. m /\ i = n + (i - n))  BY <1>3
<1>7. \A i \in 1 .. n : i \in 1 .. n + m  BY <1>3
<1>8. \A i \in 1 .. m : n + i \in 1 .. n + m  BY <1>3
<1>9. ToSet(v) = ToSet(s) \cup ToSet(u)
  <2>1. ASSUME NEW x \in ToSet(v) PROVE x \in ToSet(s) \cup ToSet(u)
    <3>1. PICK i \in 1 .. n + m : x = v[i]  BY <1>3, <2>1 DEF ToSet
    <3>2. CASE i \in 1 .. n  BY <1>3, <1>4, <3>1, <3>2 DEF ToSet
    <3>3. CASE i - n \in 1 .. m /\ i = n + (i - n)  BY <1>3, <1>5, <3>1, <3>3 DEF ToSet
    <3> QED  BY <1>6, <3>2, <3>3
  <2>2. ToSet(s) \subseteq ToSet(v)  BY <1>3, <1>4, <1>7 DEF ToSet
  <2>3. ToSet(u) \subseteq ToSet(v)  BY <1>3, <1>5, <1>8 DEF ToSet
  <2> QED  BY <2>1, <2>2, <2>3
<1>10. ASSUME NEW i \in 1 .. n + m, NEW j \in 1 .. n + m, v[i] = v[j] PROVE i = j
  <2>1. \A k \in 1 .. n : v[k] \in ToSet(s)  BY <1>3, <1>4 DEF ToSet
  <2>2. \A k \in 1 .. m : v[n + k] \in ToSet(u)  BY <1>3, <1>5 DEF ToSet
  <2>3. CASE i \in 1 .. n /\ j \in 1 .. n
    BY <1>1, <1>4, <1>10, <2>3 DEF NoDuplicates
  <2>4. CASE /\ i - n \in 1 .. m /\ i = n + (i - n)
             /\ j - n \in 1 .. m /\ j = n + (j - n)
    <3>1. PICK p, q : p = i - n /\ q = j - n  OBVIOUS
    <3>2. p \in 1 .. m /\ q \in 1 .. m /\ i = n + p /\ j = n + q  BY <2>4, <3>1
    <3>3. u[p] = u[q]  BY <1>5, <1>10, <3>2
    <3> QED  BY <1>1, <3>2, <3>3 DEF NoDuplicates
  <2>5. CASE /\ i \in 1 .. n
             /\ j - n \in 1 .. m /\ j = n + (j - n)
    BY <1>10, <2>1, <2>2, <2>5
  <2>6. CASE /\ i - n \in 1 .. m /\ i = n + (i - n)
             /\ j \in 1 .. n
    BY <1>10, <2>1, <2>2, <2>6
  <2> QED  BY <1>6, <2>3, <2>4, <2>5, <2>6
<1>11. NoDuplicates(v)  BY <1>3, <1>10 DEF NoDuplicates
<1> QED  BY <1>2, <1>3, <1>9, <1>11

-----------------------------------------------------------------------------
(* The rounds of the check. *)

First(g) == Tracing(<<Previous(g, Previous(g, EndNode))>>, {})
IsTrace(g, m, f) == f = [k \in 0 .. m |-> IF k = 0 THEN First(g) ELSE Round(g, f[k - 1])]

LEMMA TraceExists ==
  ASSUME NEW g
  PROVE  \A m \in Nat : \E f : IsTrace(g, m, f)
<1> DEFINE S == {m \in Nat : \E f : IsTrace(g, m, f)}
<1>1. 0 \in S
  <2>1. IsTrace(g, 0, [k \in 0 .. 0 |-> First(g)])
    <3>1. \A k \in 0 .. 0 : k = 0  OBVIOUS
    <3> QED  BY <3>1 DEF IsTrace
  <2> QED  BY <2>1
<1>2. ASSUME NEW m \in Nat, m \in S PROVE m + 1 \in S
  <2>1. PICK f : IsTrace(g, m, f)  BY <1>2
  <2> DEFINE h == [k \in 0 .. m + 1 |-> IF k <= m THEN f[k] ELSE Round(g, f[m])]
  <2>2. \A k \in 0 .. m : f[k] = IF k = 0 THEN First(g) ELSE Round(g, f[k - 1])
    BY <2>1 DEF IsTrace
  <2>3. \A k \in 0 .. m + 1 : h[k] = IF k = 0 THEN First(g) ELSE Round(g, h[k - 1])
    <3> TAKE k \in 0 .. m + 1
    <3>1. CASE k = 0  BY <2>2, <3>1
    <3>2. CASE k # 0 /\ k <= m
      <4>1. k - 1 \in 0 .. m + 1 /\ k - 1 <= m /\ k \in 0 .. m  BY <3>2
      <4> QED  BY <2>2, <3>2, <4>1
    <3>3. CASE k = m + 1
      <4>1. k - 1 = m /\ ~(k <= m) /\ m \in 0 .. m + 1 /\ m <= m /\ k # 0  BY <3>3
      <4> QED  BY <4>1
    <3> QED  BY <3>1, <3>2, <3>3
  <2>4. IsTrace(g, m + 1, h)
    <3> HIDE DEF h
    <3>1. h = [k \in 0 .. m + 1 |-> h[k]]  BY DEF h
    <3> QED  BY <2>3, <3>1 DEF IsTrace
  <2> QED  BY <2>4
<1>3. \A m \in Nat : m \in S
  <2> HIDE DEF S
  <2> QED  BY <1>1, <1>2, CountUp
<1> QED  BY <1>3

LEMMA EachRound ==
  ASSUME NEW g, Len(g.nodes) \in Nat
  PROVE  /\ Trace(g)[0] = First(g)
         /\ \A k \in 1 .. Len(g.nodes) : Trace(g)[k] = Round(g, Trace(g)[k - 1])
<1>1. IsTrace(g, Len(g.nodes), Trace(g))
  BY TraceExists DEF IsTrace, Trace, First
<1>2. \A k \in 0 .. Len(g.nodes) :
        Trace(g)[k] = IF k = 0 THEN First(g) ELSE Round(g, Trace(g)[k - 1])
  BY <1>1 DEF IsTrace
<1> QED  BY <1>2

-----------------------------------------------------------------------------
(* The graph. *)

Joins == {"BranchMerge", "ExitScope"}
Exit(g) == Previous(g, EndNode)
Unknown(g) == Previous(g, Exit(g))
From(g, n) == {e[1] : e \in In(g, n)}

LEMMA SeqOfSet ==
  ASSUME NEW S, IsFiniteSet(S)
  PROVE  /\ SetToSeq(S) \in Seq(S) /\ NoDuplicates(SetToSeq(S))
         /\ ToSet(SetToSeq(S)) = S
<1>1. PICK c, f : c = Cardinality(S) /\ f = SetToSeq(S)  OBVIOUS
<1>2. c \in Nat /\ ExistsBijection(1 .. c, S)  BY <1>1, FS_CardinalityType
<1>3. \E h \in [1 .. c -> S] : IsInjective(h)
  BY <1>2 DEF ExistsBijection, Bijection, Injection
<1>4. f \in [1 .. c -> S] /\ IsInjective(f)  BY <1>1, <1>3 DEF SetToSeq
<1>5. f \in Injection(1 .. c, S)  BY <1>4 DEF Injection
<1>6. Cardinality(1 .. c) = c
  <2>1. c = IF 1 > c THEN 0 ELSE c - 1 + 1  BY <1>2
  <2> QED  BY <1>2, <2>1, FS_Interval
<1>7. f \in Surjection(1 .. c, S)  BY <1>1, <1>5, <1>6, FS_Injection
<1>8. f \in Seq(S) /\ Len(f) = c /\ DOMAIN f = 1 .. c  BY <1>2, <1>4
<1>9. NoDuplicates(f)  BY <1>4, <1>8 DEF NoDuplicates, IsInjective
<1>10. ToSet(f) = S  BY <1>7, <1>8 DEF ToSet, Surjection
<1> QED  BY <1>1, <1>8, <1>9, <1>10

LEMMA Finite ==
  ASSUME NEW g, Traceable(g)
  PROVE  /\ Len(g.nodes) \in Nat /\ DOMAIN g.nodes = 1 .. Len(g.nodes)
         /\ IsFiniteSet(DOMAIN g.nodes) /\ Cardinality(DOMAIN g.nodes) = Len(g.nodes)
         /\ Nowhere \notin DOMAIN g.nodes
         /\ \A n : IsFiniteSet(In(g, n)) /\ IsFiniteSet(From(g, n)) /\ From(g, n) \subseteq DOMAIN g.nodes
<1>1. PICK N : N = Len(g.nodes)  OBVIOUS
<1>2. N \in Nat /\ DOMAIN g.nodes = 1 .. N  BY <1>1 DEF Traceable
<1>3. IsFiniteSet(1 .. N) /\ Cardinality(1 .. N) = N
  <2>1. N = IF 1 > N THEN 0 ELSE N - 1 + 1  BY <1>2
  <2> QED  BY <1>2, <2>1, FS_Interval
<1>4. Nowhere \notin 1 .. N  BY DEF Nowhere
<1>5. ASSUME NEW n
      PROVE  IsFiniteSet(In(g, n)) /\ IsFiniteSet(From(g, n)) /\ From(g, n) \subseteq 1 .. N
  <2>1. In(g, n) \subseteq g.edges  BY DEF In
  <2>2. From(g, n) \subseteq 1 .. N  BY <1>2, <2>1 DEF From, Traceable
  <2> QED  BY <1>3, <2>1, <2>2, FS_Subset DEF Traceable
<1> QED  BY <1>1, <1>2, <1>3, <1>4, <1>5

LEMMA OneWayIn ==
  ASSUME NEW g, Traceable(g), NEW n \in DOMAIN g.nodes, Kind(g, n) \in {"ExitScope", "End"}
  PROVE  /\ From(g, n) = {Previous(g, n)} /\ Previous(g, n) \in DOMAIN g.nodes
         /\ \E e \in g.edges : e[1] = Previous(g, n) /\ e[3] = n
<1>1. Cardinality(In(g, n)) = 1  BY DEF Traceable
<1>2. PICK e : In(g, n) = {e}  BY <1>1, Finite, FS_Singleton
<1>3. Only(In(g, n)) = e  BY <1>2 DEF Only
<1>4. Previous(g, n) = e[1]  BY <1>1, <1>3 DEF Previous
<1>5. From(g, n) = {e[1]}  BY <1>2 DEF From
<1>6. e \in g.edges /\ e[3] = n  BY <1>2 DEF In
<1> QED  BY <1>4, <1>5, <1>6, Finite

LEMMA BeforeAll ==
  ASSUME NEW g, Traceable(g), NEW n \in DOMAIN g.nodes, Kind(g, n) \in Joins
  PROVE  /\ Before(g, n) \in Seq(DOMAIN g.nodes) /\ NoDuplicates(Before(g, n))
         /\ ToSet(Before(g, n)) = From(g, n)
<1>1. CASE Kind(g, n) = "BranchMerge"
  <2>1. Before(g, n) = SetToSeq(From(g, n))  BY <1>1 DEF Before, From
  <2>2. IsFiniteSet(From(g, n)) /\ From(g, n) \subseteq DOMAIN g.nodes  BY Finite
  <2>3. Seq(From(g, n)) \subseteq Seq(DOMAIN g.nodes)  BY <2>2
  <2> QED  BY <2>1, <2>2, <2>3, SeqOfSet
<1>2. CASE Kind(g, n) = "ExitScope"
  <2>1. PICK p : p = Previous(g, n)  OBVIOUS
  <2>2. Before(g, n) = <<p>> /\ p \in DOMAIN g.nodes /\ From(g, n) = {p}
    BY <1>2, <2>1, OneWayIn DEF Before
  <2>3. <<p>> \in Seq(DOMAIN g.nodes) /\ NoDuplicates(<<p>>) /\ ToSet(<<p>>) = {p}
    BY <2>2, Single
  <2> QED  BY <2>2, <2>3
<1> QED  BY <1>1, <1>2 DEF Joins

LEMMA TheEnd ==
  ASSUME NEW g, Traceable(g)
  PROVE  /\ EndNode \in DOMAIN g.nodes /\ StartNode \in DOMAIN g.nodes
         /\ Kind(g, EndNode) = "End" /\ Kind(g, StartNode) = "Start"
         /\ Exit(g) \in DOMAIN g.nodes /\ Kind(g, Exit(g)) = "ExitScope"
         /\ Unknown(g) \in DOMAIN g.nodes /\ Unknown(g) # Exit(g)
         /\ From(g, EndNode) = {Exit(g)} /\ From(g, Exit(g)) = {Unknown(g)}
         /\ \E e \in g.edges : e[1] = Unknown(g) /\ e[3] = Exit(g)
<1>1. /\ EndNode \in DOMAIN g.nodes /\ StartNode \in DOMAIN g.nodes
      /\ Kind(g, EndNode) = "End" /\ Kind(g, StartNode) = "Start"
      /\ Kind(g, Exit(g)) = "ExitScope"
  BY DEF Traceable, Exit
<1>2. From(g, EndNode) = {Exit(g)} /\ Exit(g) \in DOMAIN g.nodes  BY <1>1, OneWayIn DEF Exit
<1>3. /\ From(g, Exit(g)) = {Unknown(g)} /\ Unknown(g) \in DOMAIN g.nodes
      /\ \E e \in g.edges : e[1] = Unknown(g) /\ e[3] = Exit(g)
  BY <1>1, <1>2, OneWayIn DEF Unknown
<1>4. Unknown(g) # Exit(g)
  <2>1. \A d \in g.edges : d[1] = Exit(g) => d[3] = EndNode  BY DEF Traceable, Exit
  <2>2. Exit(g) # EndNode  BY <1>1
  <2> QED  BY <1>3, <2>1, <2>2
<1> QED  BY <1>1, <1>2, <1>3, <1>4

-----------------------------------------------------------------------------
(* What holds between two rounds.                                          *)

\* From n on control comes to the end through merges and ends of scopes only.
Loose(g, n) ==
  \E c \in Seq(DOMAIN g.nodes) :
    /\ Len(c) > 1 /\ c[1] = n /\ c[Len(c)] = Exit(g)
    /\ \A i \in 1 .. Len(c) - 1 :
         (\E e \in g.edges : e[1] = c[i] /\ e[3] = c[i + 1]) /\ Kind(g, c[i + 1]) \in Joins

\* The nodes that were or are on the stack.
Met(t) == t.traced \cup ToSet(t.nodeStack)

Leads(g, n, traced) ==
  \/ n = Unknown(g)
  \/ \E e \in g.edges : e[1] = n /\ e[3] \in traced /\ Kind(g, e[3]) \in Joins

TraceInv(g, k, t) ==
  /\ t = [nodeStack |-> t.nodeStack, traced |-> t.traced, verdict |-> t.verdict]
  /\ t.nodeStack \in Seq(DOMAIN g.nodes) /\ NoDuplicates(t.nodeStack)
  /\ t.traced \subseteq DOMAIN g.nodes /\ t.traced \cap ToSet(t.nodeStack) = {}
  /\ Unknown(g) \in Met(t)
  /\ \A n \in Met(t) : Leads(g, n, t.traced) /\ Loose(g, n)
  /\ \A n \in t.traced : Kind(g, n) \in Traced
  /\ \A n \in t.traced : Kind(g, n) \in Joins => From(g, n) \subseteq Met(t)
  /\ t.verdict \in {"tracing", "ok", "MissingReturn"}
  /\ t.verdict = "tracing" => Cardinality(t.traced) = k
  /\ t.verdict = "ok" => t.nodeStack = <<>>
  /\ t.verdict = "MissingReturn" => \E n \in Met(t) : Kind(g, n) \notin Traced

LEMMA NotTheExit ==
  ASSUME NEW g, Traceable(g), NEW traced, \A n \in traced : Kind(g, n) \in Traced
  PROVE  ~Leads(g, Exit(g), traced)
<1>1. \A d \in g.edges : d[1] = Exit(g) => d[3] = EndNode  BY DEF Traceable, Exit
<1>2. Kind(g, EndNode) = "End" /\ Unknown(g) # Exit(g)  BY TheEnd
<1> QED  BY <1>1, <1>2 DEF Leads, Joins

\* A way into a node that was not traced is a node not met before.
LEMMA Unmet ==
  ASSUME NEW g, Traceable(g), NEW traced, NEW n \in DOMAIN g.nodes \ traced,
         \A m \in traced : Kind(g, m) \in Traced,
         n # Exit(g), Kind(g, n) \in Joins, NEW q \in From(g, n)
  PROVE  ~Leads(g, q, traced)
<1>1. PICK e \in g.edges : e[1] = q /\ e[3] = n  BY DEF From, In
<1>2. \A d \in g.edges : d[1] = q /\ Kind(g, d[3]) \in Joins => d[3] = n
  BY <1>1 DEF Traceable, Joins
<1>3. q # Unknown(g)  BY <1>2, TheEnd DEF Joins
<1> QED  BY <1>2, <1>3 DEF Leads

LEMMA LooseBefore ==
  ASSUME NEW g, Traceable(g), NEW n \in DOMAIN g.nodes, Loose(g, n), Kind(g, n) \in Joins,
         NEW q \in From(g, n)
  PROVE  Loose(g, q)
<1>1. PICK e \in g.edges : e[1] = q /\ e[3] = n  BY DEF From, In
<1>2. PICK c \in Seq(DOMAIN g.nodes) :
        /\ Len(c) > 1 /\ c[1] = n /\ c[Len(c)] = Exit(g)
        /\ \A i \in 1 .. Len(c) - 1 :
             (\E d \in g.edges : d[1] = c[i] /\ d[3] = c[i + 1]) /\ Kind(g, c[i + 1]) \in Joins
  BY DEF Loose
<1>3. PICK m : m = Len(c)  OBVIOUS
<1>4. q \in DOMAIN g.nodes  BY Finite
<1>5. PICK b : b = <<q>> \o c  OBVIOUS
<1>6. /\ m \in Nat \ {0, 1} /\ b \in Seq(DOMAIN g.nodes) /\ Len(b) = m + 1 /\ b[1] = q
      /\ \A i \in 1 .. m : b[i + 1] = c[i]
  <2>1. m \in Nat \ {0, 1}  BY <1>2, <1>3
  <2>2. PICK D : D = DOMAIN g.nodes  OBVIOUS
  <2>3. q \in D /\ c \in Seq(D)  BY <1>4, <2>2
  <2>4. PICK v : v = <<q>> \o c  OBVIOUS
  <2>5. v \in Seq(D) /\ Len(v) = Len(c) + 1 /\ v[1] = q /\ \A i \in 1 .. Len(c) : v[i + 1] = c[i]
    BY ONLY <2>3, <2>4, Prefixed
  <2>6. b = v  BY <1>5, <2>4
  <2> QED  BY <1>3, <2>1, <2>2, <2>5, <2>6
<1>7. b[m + 1] = Exit(g)  BY <1>2, <1>3, <1>6
<1>8. ASSUME NEW i \in 1 .. m
      PROVE  (\E d \in g.edges : d[1] = b[i] /\ d[3] = b[i + 1]) /\ Kind(g, b[i + 1]) \in Joins
  <2>1. CASE i = 1
    <3>1. b[i] = q /\ b[i + 1] = n  BY <1>2, <1>6, <2>1
    <3> QED  BY <1>1, <3>1
  <2>2. CASE i # 1
    <3>1. PICK j : j = i - 1  OBVIOUS
    <3>2. j \in 1 .. m - 1 /\ j \in 1 .. m /\ i = j + 1  BY <1>6, <2>2, <3>1
    <3>3. b[j + 1] = c[j] /\ b[i + 1] = c[i]  BY <1>6, <3>2
    <3> QED  BY <1>2, <1>3, <3>2, <3>3
  <2> QED  BY <2>1, <2>2
<1>9. Len(b) > 1 /\ Len(b) - 1 = m  BY <1>6
<1> QED  BY <1>6, <1>7, <1>8, <1>9 DEF Loose

LEMMA FirstTrace ==
  ASSUME NEW g, Traceable(g)
  PROVE  TraceInv(g, 0, First(g))
<1>1. PICK u, t : u = Unknown(g) /\ t = First(g)  OBVIOUS
<1>2. u \in DOMAIN g.nodes /\ Exit(g) \in DOMAIN g.nodes  BY <1>1, TheEnd
<1>3. /\ <<u>> \in Seq(DOMAIN g.nodes) /\ NoDuplicates(<<u>>) /\ ToSet(<<u>>) = {u}
      /\ Nowhere \notin {u}
  BY <1>2, Single, Finite
<1>4. t = [nodeStack |-> <<u>>, traced |-> {}, verdict |-> "tracing"]
  BY <1>1, <1>3 DEF First, Tracing, Unknown, Exit
<1>5. Met(t) = {u}  BY <1>3, <1>4 DEF Met
<1>6. Loose(g, u)
  <2>1. PICK x : x = Exit(g)  OBVIOUS
  <2>2. PICK c : c = <<u, x>>  OBVIOUS
  <2>3. c \in Seq(DOMAIN g.nodes) /\ Len(c) = 2 /\ c[1] = u /\ c[2] = x
    <3>1. PICK D : D = DOMAIN g.nodes  OBVIOUS
    <3>2. u \in D /\ x \in D  BY <1>2, <2>1, <3>1
    <3>3. c \in Seq(D) /\ Len(c) = 2 /\ c[1] = u /\ c[2] = x  BY ONLY <2>2, <3>2
    <3> QED  BY <3>1, <3>3
  <2>4. \A i \in 1 .. 1 : i = 1  OBVIOUS
  <2>5. (\E e \in g.edges : e[1] = u /\ e[3] = x) /\ Kind(g, x) \in Joins
    BY <1>1, <2>1, TheEnd DEF Joins
  <2>6. Len(c) > 1 /\ Len(c) - 1 = 1 /\ c[Len(c)] = x  BY <2>3
  <2>7. \A i \in 1 .. 1 :
          (\E e \in g.edges : e[1] = c[i] /\ e[3] = c[i + 1]) /\ Kind(g, c[i + 1]) \in Joins
    <3>1. c[1 + 1] = x  BY <2>3
    <3> QED  BY <2>3, <2>4, <2>5, <3>1
  <2> QED  BY <2>1, <2>3, <2>6, <2>7 DEF Loose
<1>7. Leads(g, u, {})  BY <1>1 DEF Leads
<1>8. Cardinality({}) = 0  BY FS_EmptySet
<1>9. t.nodeStack = <<u>> /\ t.traced = {} /\ t.verdict = "tracing"  BY <1>4
<1>10. t = [nodeStack |-> t.nodeStack, traced |-> t.traced, verdict |-> t.verdict]
  BY <1>4, <1>9
<1>11. Unknown(g) \in Met(t) /\ \A n \in Met(t) : Leads(g, n, t.traced) /\ Loose(g, n)
  BY <1>1, <1>5, <1>6, <1>7, <1>9
<1>12. t.nodeStack \in Seq(DOMAIN g.nodes) /\ NoDuplicates(t.nodeStack)  BY <1>3, <1>9
<1>13. Cardinality(t.traced) = 0  BY <1>8, <1>9
<1>14. TraceInv(g, 0, t)  BY <1>9, <1>10, <1>11, <1>12, <1>13 DEF TraceInv
<1> QED  BY <1>1, <1>14

\* A node is popped that was not traced before.
LEMMA NodeTraced ==
  ASSUME NEW g, Traceable(g), NEW k \in Nat, NEW t, TraceInv(g, k, t),
         t.verdict = "tracing", t.nodeStack # <<>>, Kind(g, Last(t.nodeStack)) \in Traced
  PROVE  TraceInv(g, k + 1, Tracing(Front(t.nodeStack) \o Before(g, Last(t.nodeStack)),
                                    t.traced \cup {Last(t.nodeStack)}))
<1>1. PICK stack, T, id, rest, more, next :
        /\ stack = t.nodeStack /\ T = t.traced /\ id = Last(stack) /\ rest = Front(stack)
        /\ more = Before(g, id) /\ next = Tracing(rest \o more, T \cup {id})
  OBVIOUS
<1> DEFINE Nodes == DOMAIN g.nodes
<1> HIDE DEF Nodes
<1>2. /\ stack \in Seq(Nodes) /\ NoDuplicates(stack) /\ stack # <<>>
      /\ T \subseteq Nodes /\ T \cap ToSet(stack) = {}
      /\ \A n \in T : Kind(g, n) \in Traced
      /\ Met(t) = T \cup ToSet(stack) /\ Unknown(g) \in Met(t)
      /\ \A n \in Met(t) : Leads(g, n, T) /\ Loose(g, n)
      /\ \A n \in T : Kind(g, n) \in Joins => From(g, n) \subseteq Met(t)
      /\ Cardinality(T) = k /\ Kind(g, id) \in Traced
  BY <1>1 DEF TraceInv, Met, Nodes
<1>3. /\ rest \in Seq(Nodes) /\ NoDuplicates(rest) /\ id \in Nodes /\ id \notin ToSet(rest)
      /\ ToSet(stack) = ToSet(rest) \cup {id}
  BY <1>1, <1>2, Topped
<1>4. id \in Met(t) /\ id \notin T /\ ToSet(rest) \subseteq Met(t)  BY <1>2, <1>3
<1>5. id # Exit(g)  BY <1>2, <1>4, NotTheExit
<1>6. IsFiniteSet(T) /\ Cardinality(T \cup {id}) = k + 1
  <2>1. IsFiniteSet(T)  BY <1>2, Finite, FS_Subset DEF Nodes
  <2> QED  BY <1>2, <1>4, <2>1, FS_AddElement
<1>7. /\ more \in Seq(Nodes) /\ NoDuplicates(more)
      /\ Kind(g, id) \in Joins => ToSet(more) = From(g, id)
      /\ Kind(g, id) \notin Joins => ToSet(more) = {}
  <2>1. CASE Kind(g, id) \in Joins  BY <1>1, <1>3, <2>1, BeforeAll DEF Nodes
  <2>2. CASE Kind(g, id) \notin Joins
    <3>1. more = <<>>  BY <1>1, <1>2, <2>2 DEF Traced, Joins, Before
    <3>2. Len(<<>>) = 0 /\ DOMAIN <<>> = {} /\ \A i \in 1 .. 0 : FALSE  OBVIOUS
    <3> QED  BY <2>2, <3>1, <3>2 DEF NoDuplicates, ToSet
  <2> QED  BY <2>1, <2>2
<1>8. ASSUME NEW q \in ToSet(more) PROVE q \notin Met(t)
  <2>1. Kind(g, id) \in Joins /\ q \in From(g, id)  BY <1>7
  <2>2. ~Leads(g, q, T)  BY <1>2, <1>3, <1>4, <1>5, <2>1, Unmet DEF Nodes
  <2> QED  BY <1>2, <2>2
<1>9. /\ rest \o more \in Seq(Nodes) /\ NoDuplicates(rest \o more)
      /\ ToSet(rest \o more) = ToSet(rest) \cup ToSet(more)
  <2>1. ToSet(rest) \cap ToSet(more) = {}  BY <1>4, <1>8
  <2> QED  BY <1>3, <1>7, <2>1, Stacked
<1>10. /\ next = [nodeStack |-> rest \o more, traced |-> T \cup {id}, verdict |-> "tracing"]
  <2>1. ToSet(rest \o more) \subseteq Nodes
    <3>1. \A s \in Seq(Nodes) : ToSet(s) \subseteq Nodes  BY DEF ToSet
    <3> QED  BY <1>9, <3>1
  <2>2. Nowhere \notin ToSet(rest \o more)  BY <2>1, Finite DEF Nodes
  <2> QED  BY <1>1, <2>2 DEF Tracing
<1>11. Met(next) = Met(t) \cup ToSet(more)  BY <1>2, <1>3, <1>9, <1>10 DEF Met
<1>12. (T \cup {id}) \cap ToSet(rest \o more) = {}  BY <1>2, <1>3, <1>4, <1>8, <1>9
<1>13. ASSUME NEW n \in Met(next) PROVE Leads(g, n, T \cup {id}) /\ Loose(g, n)
  <2>1. CASE n \in Met(t)
    <3>1. Leads(g, n, T) /\ Loose(g, n)  BY <1>2, <2>1
    <3> QED  BY <3>1 DEF Leads
  <2>2. CASE n \in ToSet(more)
    <3>1. Kind(g, id) \in Joins /\ n \in From(g, id)  BY <1>7, <2>2
    <3>2. PICK e \in g.edges : e[1] = n /\ e[3] = id  BY <3>1 DEF From, In
    <3>3. Leads(g, n, T \cup {id})  BY <3>1, <3>2 DEF Leads
    <3>4. Loose(g, id)  BY <1>2, <1>4
    <3>5. Loose(g, n)  BY <1>3, <3>1, <3>4, LooseBefore DEF Nodes
    <3> QED  BY <3>3, <3>5
  <2> QED  BY <1>11, <2>1, <2>2
<1>14. \A n \in T \cup {id} : Kind(g, n) \in Traced  BY <1>2
<1>15. \A n \in T \cup {id} : Kind(g, n) \in Joins => From(g, n) \subseteq Met(next)
  BY <1>2, <1>7, <1>11
<1>16. T \cup {id} \subseteq Nodes /\ Unknown(g) \in Met(next)  BY <1>2, <1>3, <1>11
<1>17. TraceInv(g, k + 1, next)
  BY <1>6, <1>9, <1>10, <1>12, <1>13, <1>14, <1>15, <1>16 DEF TraceInv, Nodes
<1> QED  BY <1>1, <1>17

LEMMA RoundKeeps ==
  ASSUME NEW g, Traceable(g), NEW k \in Nat, NEW t, TraceInv(g, k, t)
  PROVE  TraceInv(g, k + 1, Round(g, t))
<1>1. CASE t.verdict # "tracing"
  <2>1. Round(g, t) = t  BY <1>1 DEF Round
  <2> QED  BY <1>1, <2>1 DEF TraceInv
<1>2. CASE t.verdict = "tracing" /\ t.nodeStack = <<>>
  <2>1. PICK next : next = [nodeStack |-> t.nodeStack, traced |-> t.traced, verdict |-> "ok"]
    OBVIOUS
  <2>2. Round(g, t) = next
    <3>1. t = [nodeStack |-> t.nodeStack, traced |-> t.traced, verdict |-> t.verdict]
      BY DEF TraceInv
    <3>2. Round(g, t) = [t EXCEPT !.verdict = "ok"]  BY <1>2 DEF Round
    <3> QED  BY <2>1, <3>1, <3>2
  <2>3. Met(next) = Met(t)  BY <2>1 DEF Met
  <2> QED  BY <1>2, <2>1, <2>2, <2>3 DEF TraceInv
<1>3. CASE t.verdict = "tracing" /\ t.nodeStack # <<>>
  <2>1. Last(t.nodeStack) \notin t.traced /\ Last(t.nodeStack) \in Met(t)
    <3>1. PICK stack : stack = t.nodeStack  OBVIOUS
    <3>2. /\ stack \in Seq(DOMAIN g.nodes) /\ NoDuplicates(stack) /\ stack # <<>>
          /\ t.traced \cap ToSet(stack) = {}
      BY <1>3, <3>1 DEF TraceInv
    <3>3. Last(stack) \in ToSet(stack)  BY <3>2, Topped, ZenonT(60)
    <3> QED  BY <3>1, <3>2, <3>3 DEF Met
  <2>2. CASE Kind(g, Last(t.nodeStack)) \in Traced
    <3>1. Round(g, t) = Tracing(Front(t.nodeStack) \o Before(g, Last(t.nodeStack)),
                                t.traced \cup {Last(t.nodeStack)})
      BY <1>3, <2>1, <2>2 DEF Round
    <3> QED  BY <1>3, <2>2, <3>1, NodeTraced
  <2>3. CASE Kind(g, Last(t.nodeStack)) \notin Traced
    <3>1. PICK next :
            next = [nodeStack |-> t.nodeStack, traced |-> t.traced, verdict |-> "MissingReturn"]
      OBVIOUS
    <3>2. Round(g, t) = next
      <4>1. t = [nodeStack |-> t.nodeStack, traced |-> t.traced, verdict |-> t.verdict]
        BY DEF TraceInv
      <4>2. Round(g, t) = [t EXCEPT !.verdict = "MissingReturn"]  BY <1>3, <2>1, <2>3 DEF Round
      <4> QED  BY <3>1, <4>1, <4>2
    <3>3. Met(next) = Met(t)  BY <3>1 DEF Met
    <3> QED  BY <1>3, <2>1, <2>3, <3>1, <3>2, <3>3 DEF TraceInv
  <2> QED  BY <2>2, <2>3
<1> QED  BY <1>1, <1>2, <1>3

LEMMA TraceHolds ==
  ASSUME NEW g, Traceable(g)
  PROVE  \A k \in 0 .. Len(g.nodes) : TraceInv(g, k, Trace(g)[k])
<1>1. PICK N : N = Len(g.nodes)  OBVIOUS
<1>2. N \in Nat  BY <1>1, Finite
<1> DEFINE S == {k \in Nat : k <= N => TraceInv(g, k, Trace(g)[k])}
<1>3. 0 \in S  BY <1>1, <1>2, EachRound, FirstTrace
<1>4. ASSUME NEW k \in Nat, k \in S PROVE k + 1 \in S
  <2> SUFFICES ASSUME k + 1 <= N PROVE TraceInv(g, k + 1, Trace(g)[k + 1])
    OBVIOUS
  <2>1. k <= N /\ k + 1 \in 1 .. N /\ (k + 1) - 1 = k  BY <1>2
  <2>2. Trace(g)[k + 1] = Round(g, Trace(g)[k])  BY <1>1, <1>2, <2>1, EachRound
  <2> QED  BY <1>4, <2>1, <2>2, RoundKeeps
<1>5. \A k \in Nat : k \in S
  <2> HIDE DEF S
  <2> QED  BY <1>3, <1>4, CountUp
<1> QED  BY <1>1, <1>2, <1>5

-----------------------------------------------------------------------------

\* The bound of the loop is never reached (return_trace.rs, unreachable!()), and
\* no node met has more than one way in where CFG::previous wants one: the check
\* of any graph of that shape passes or reports a missing return.
THEOREM CheckEnds ==
  ASSUME NEW g, Traceable(g)
  PROVE  ReturnTrace(g) \in {"ok", "MissingReturn"}
<1>1. PICK N, t : N = Len(g.nodes) /\ t = Trace(g)[N]  OBVIOUS
<1>2. N \in Nat /\ N \in 0 .. N  BY <1>1, Finite
<1>3. TraceInv(g, N, t)  BY <1>1, <1>2, TraceHolds
<1>4. t.verdict # "tracing"
  <2> SUFFICES ASSUME Cardinality(t.traced) = N PROVE FALSE  BY <1>3 DEF TraceInv
  <2>1. t.traced \in SUBSET (DOMAIN g.nodes)  BY <1>3 DEF TraceInv
  <2>2. Cardinality(DOMAIN g.nodes) = N  BY <1>1, Finite
  <2>3. t.traced = DOMAIN g.nodes  BY <2>1, <2>2, Finite, FS_Subset
  <2>4. EndNode \in t.traced /\ Kind(g, EndNode) \notin Traced  BY <2>3, TheEnd DEF Traced
  <2> QED  BY <1>3, <2>4 DEF TraceInv
<1> QED  BY <1>1, <1>3, <1>4 DEF ReturnTrace, TraceInv

\* A set the end is in and the start is not, which is entered at returns only.
Guards(g, late) ==
  /\ late \subseteq DOMAIN g.nodes /\ EndNode \in late /\ StartNode \notin late
  /\ \A e \in g.edges : e[3] \in late /\ Kind(g, e[3]) # "Return" => e[1] \in late

\* The nodes that were traced are such a set, with the last ones.
LEMMA TracedGuards ==
  ASSUME NEW g, Traceable(g), ReturnTrace(g) = "ok"
  PROVE  \E late : Guards(g, late)
<1>1. PICK N, t, T : N = Len(g.nodes) /\ t = Trace(g)[N] /\ T = t.traced  OBVIOUS
<1>2. N \in Nat /\ N \in 0 .. N  BY <1>1, Finite
<1>3. TraceInv(g, N, t)  BY <1>1, <1>2, TraceHolds
<1>4. t.verdict = "ok"  BY <1>1 DEF ReturnTrace
<1>5. Met(t) = T
  <2>1. DOMAIN <<>> = {}  OBVIOUS
  <2>2. ToSet(<<>>) = {}  BY <2>1 DEF ToSet
  <2> QED  BY <1>1, <1>3, <1>4, <2>2 DEF TraceInv, Met
<1>6. /\ T \subseteq DOMAIN g.nodes /\ Unknown(g) \in T /\ \A n \in T : Kind(g, n) \in Traced
      /\ \A n \in T : Kind(g, n) \in Joins => From(g, n) \subseteq T
  BY <1>1, <1>3, <1>5 DEF TraceInv
<1> DEFINE Late == T \cup {Exit(g), EndNode}
<1>7. ASSUME NEW e \in g.edges, e[3] \in Late, Kind(g, e[3]) # "Return" PROVE e[1] \in Late
  <2>1. PICK n : n = e[3]  OBVIOUS
  <2>2. e[1] \in From(g, n)  BY <2>1 DEF From, In
  <2>3. CASE n = EndNode  BY <2>2, <2>3, TheEnd
  <2>4. CASE n = Exit(g)  BY <1>6, <2>2, <2>4, TheEnd
  <2>5. CASE n \in T
    <3>1. Kind(g, n) \in Joins  BY <1>6, <1>7, <2>1, <2>5 DEF Traced, Joins
    <3> QED  BY <1>6, <2>2, <2>5, <3>1
  <2> QED  BY <1>7, <2>1, <2>3, <2>4, <2>5
<1>8. EndNode \in Late /\ StartNode \notin Late /\ Late \subseteq DOMAIN g.nodes
  BY <1>6, TheEnd DEF Traced
<1> QED  BY <1>7, <1>8 DEF Guards

\* A function that the return check lets pass returns on every walk through its
\* graph to the end, however often it goes round its loops.
THEOREM EveryWalkReturns ==
  ASSUME NEW g, Traceable(g), ReturnTrace(g) = "ok", NEW w, IsWalk(g, w)
  PROVE  \E i \in 1 .. Len(w) : Kind(g, w[i]) = "Return"
<1> SUFFICES ASSUME \A i \in 1 .. Len(w) : Kind(g, w[i]) # "Return" PROVE FALSE
  OBVIOUS
<1>1. PICK Late : Guards(g, Late)  BY TracedGuards
<1>2. PICK m : m = Len(w)  OBVIOUS
<1>3. /\ m \in Nat \ {0} /\ w[1] = StartNode /\ w[m] = EndNode
      /\ \A i \in 1 .. m - 1 : \E e \in g.edges : e[1] = w[i] /\ e[3] = w[i + 1]
      /\ \A i \in 1 .. m : Kind(g, w[i]) # "Return"
  BY <1>2 DEF IsWalk
<1>4. ASSUME NEW i \in 1 .. m - 1, w[i + 1] \in Late PROVE w[i] \in Late
  <2>1. PICK e \in g.edges : e[1] = w[i] /\ e[3] = w[i + 1]  BY <1>3
  <2>2. i + 1 \in 1 .. m  BY <1>3
  <2>3. Kind(g, e[3]) # "Return"  BY <1>3, <2>1, <2>2
  <2> QED  BY <1>1, <1>4, <2>1, <2>3 DEF Guards
<1> DEFINE S == {j \in Nat : j < m => w[m - j] \in Late}
<1>5. 0 \in S
  <2>1. m - 0 = m  BY <1>3
  <2> QED  BY <1>1, <1>3, <2>1 DEF Guards
<1>6. ASSUME NEW j \in Nat, j \in S PROVE j + 1 \in S
  <2> SUFFICES ASSUME j + 1 < m PROVE w[m - (j + 1)] \in Late  OBVIOUS
  <2>1. PICK i : i = m - (j + 1)  OBVIOUS
  <2>2. i \in 1 .. m - 1 /\ i + 1 = m - j /\ j < m
    <3>1. m \in Nat /\ j \in Nat /\ j + 1 < m  BY <1>3
    <3> QED  BY ONLY <2>1, <3>1
  <2>3. w[i + 1] \in Late  BY <1>6, <2>2
  <2> QED  BY <1>4, <2>1, <2>2, <2>3
<1>7. \A j \in Nat : j \in S
  <2> HIDE DEF S
  <2> QED  BY <1>5, <1>6, CountUp
<1>8. StartNode \in Late
  <2>1. PICK j : j = m - 1  OBVIOUS
  <2>2. j \in Nat /\ j < m /\ m - j = 1  BY <1>3, <2>1
  <2>3. w[m - j] \in Late  BY <1>7, <2>2
  <2> QED  BY <1>3, <2>2, <2>3
<1> QED  BY <1>1, <1>8 DEF Guards

\* A function is refused only if a node that is no return leads to the end over
\* merges and ends of scopes alone.
THEOREM RefusesTheLoose ==
  ASSUME NEW g, Traceable(g), ReturnTrace(g) = "MissingReturn"
  PROVE  \E n \in DOMAIN g.nodes : Loose(g, n) /\ Kind(g, n) \notin Traced
<1>1. PICK N, t : N = Len(g.nodes) /\ t = Trace(g)[N]  OBVIOUS
<1>2. N \in Nat /\ N \in 0 .. N  BY <1>1, Finite
<1>3. TraceInv(g, N, t)  BY <1>1, <1>2, TraceHolds
<1>4. t.verdict = "MissingReturn"  BY <1>1 DEF ReturnTrace
<1>5. \A s \in Seq(DOMAIN g.nodes) : ToSet(s) \subseteq DOMAIN g.nodes  BY DEF ToSet
<1>6. Met(t) \subseteq DOMAIN g.nodes  BY <1>3, <1>5 DEF TraceInv, Met
<1> QED  BY <1>3, <1>4, <1>6 DEF TraceInv

=============================================================================
