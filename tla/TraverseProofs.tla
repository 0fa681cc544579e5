---------------------------- MODULE TraverseProofs ----------------------------
(***************************************************************************)
(* A walk over any graph of nested paths, whoever is told of the nodes:    *)
(* where the running loops stand, and that no node is met twice.           *)
(***************************************************************************)
EXTENDS Walks, WellFoundedInduction, SequenceTheorems, TLAPS

\* The innermost of the running loops.
Inmost == Last(visits)

Lay == Layout(fn)
Nodes == DOMAIN cfg.nodes
K(n) == Kind(cfg, n)
IdOf(n) == cfg.nodes[n].id
Seen == {visited[i] : i \in DOMAIN visited}

Visits ==
  [path : {"main", "true", "false", "loop"}, at : {Nowhere} \cup Nodes, cur : Nodes, rounds : Nat]

Typed ==
  /\ fn \in Sources /\ cfg = CfgOf(fn)
  /\ visits \in Seq(Visits) /\ visits # <<>>
  /\ visited \in Seq(Nodes)

\* The running loops: each is on a path, the inner ones on one of the split or
\* head that is the current node of the loop around it.
Standing ==
  /\ visits[1].path = "main" /\ visits[1].at = Nowhere
  /\ \A i \in 1 .. Len(visits) :
       /\ Comes(cfg, Lay, visits[i].cur, visits[i].at, visits[i].path, visits[i].rounds)
       /\ i > 1 => /\ visits[i].at = visits[i - 1].cur
                   /\ Lay[visits[i].at].depth = i - 2
                   /\ visits[i].path # "main"
                   /\ \E p \in Paths : p[1] = K(visits[i].at) /\ p[2] = visits[i].path

\* The nodes at places that are behind: of the paths being walked the part
\* before the current node, all of the paths of a split or head that was left.
Past(n) ==
  \/ \E i \in 1 .. Len(visits) :
       /\ LiesOn(Lay, n, visits[i].at, visits[i].path)
       /\ Lay[n].at <= visits[i].rounds + (IF i < Len(visits) THEN 1 ELSE 0)
  \/ \E i \in 1 .. Len(visits) : LiesOn(Lay, n, visits[i].at, "true") /\ visits[i].path = "false"
  \/ Lay[n].of \in Seen /\ \A i \in 1 .. Len(visits) : visits[i].at # Lay[n].of

NoneTwice == \A i, j \in DOMAIN visited : visited[i] = visited[j] => i = j

\* What holds while nodes are visited.
Sound ==
  /\ Typed /\ NestedBy(cfg, Lay) /\ Standing /\ NoneTwice
  /\ \A n \in Nodes : n \in Seen <=> Past(n)

-----------------------------------------------------------------------------
(* Places. *)

Openers == {"BranchSplit", "LoopHead"}
Closers == {"End", "BranchMerge", "LoopFoot"}

\* What it is for a node to have a place.
HasPlace(n) ==
  LET l == Lay[n] IN
  /\ K(n) \in Kinds /\ l.depth \in Nat
  /\ IF l.of = Nowhere THEN l.depth = 0
     ELSE /\ l.of \in Nodes /\ l.of # StartNode /\ K(l.of) \in Openers
          /\ l.depth = Lay[l.of].depth + 1
  /\ K(n) \in Closers <=> l.path = "end"
  /\ K(n) = "End" => l.of = Nowhere
  /\ K(n) = "BranchMerge" => l.of # Nowhere /\ K(l.of) = "BranchSplit" /\ IdOf(n) = IdOf(l.of)
  /\ K(n) = "LoopFoot" => l.of # Nowhere /\ K(l.of) = "LoopHead" /\ IdOf(n) = IdOf(l.of)
  /\ l.path # "end" =>
       /\ l.at \in 1 .. Len(cfg.nodes) - 1
       /\ l.path = "main" <=> l.of = Nowhere
       /\ l.path \in {"true", "false"} <=> (l.of # Nowhere /\ K(l.of) = "BranchSplit")
       /\ l.path = "loop" <=> (l.of # Nowhere /\ K(l.of) = "LoopHead")

LEMMA Places ==
  ASSUME NestedBy(cfg, Lay)
  PROVE  /\ Len(cfg.nodes) \in Nat /\ Nodes = 1 .. Len(cfg.nodes) /\ Nowhere \notin Nodes
         /\ StartNode \in Nodes
         /\ \A n \in Nodes : K(n) = "Start" <=> n = StartNode
         /\ \A n \in Nodes : HasPlace(n)
<1>1. /\ Len(cfg.nodes) \in Nat /\ Nodes = 1 .. Len(cfg.nodes) /\ Nowhere \notin Nodes
      /\ StartNode \in Nodes
  BY DEF NestedBy, Nodes, Nowhere
<1>2. \A n \in Nodes : K(n) = "Start" <=> n = StartNode  BY DEF NestedBy, Nodes, K
<1>3. ASSUME NEW n \in Nodes PROVE HasPlace(n)
  <2>1. PICK l : l = Lay[n]  OBVIOUS
  <2>2. /\ K(n) \in Kinds /\ l.depth \in Nat
        /\ l.of = Nowhere => l.depth = 0
        /\ l.of # Nowhere => l.of \in Nodes /\ l.of # StartNode /\ l.depth = Lay[l.of].depth + 1
    BY <2>1 DEF NestedBy, Placed, Nodes, K
  <2>3. l.path = "end" =>
          /\ \E p \in Paths : p[1] = OpenerKind(cfg, l.of) /\ p[3] = K(n)
          /\ l.of # Nowhere => IdOf(n) = IdOf(l.of)
    BY <2>1 DEF NestedBy, Placed, Nodes, K, IdOf
  <2>4. l.path # "end" =>
          /\ \E p \in Paths : p[1] = OpenerKind(cfg, l.of) /\ p[2] = l.path
          /\ \A p \in Paths : p[3] # K(n)
          /\ l.at \in 1 .. Len(cfg.nodes) - 1
    BY <2>1 DEF NestedBy, Placed, Nodes, K
  <2>5. l.of # Nowhere => OpenerKind(cfg, l.of) = K(l.of) /\ K(l.of) # "Start"
    BY <1>2, <2>2 DEF OpenerKind, K
  <2>6. l.of = Nowhere => OpenerKind(cfg, l.of) = "Start"  BY DEF OpenerKind
  <2>7. CASE l.path = "end"
    <3>1. /\ K(n) \in Closers
          /\ l.of = Nowhere => K(n) = "End"
          /\ l.of # Nowhere =>
               \/ K(l.of) = "BranchSplit" /\ K(n) = "BranchMerge"
               \/ K(l.of) = "LoopHead" /\ K(n) = "LoopFoot"
      BY <2>3, <2>5, <2>6, <2>7 DEF Paths, Closers
    <3> QED  BY <2>1, <2>2, <2>3, <2>7, <3>1 DEF HasPlace, Openers
  <2>8. CASE l.path # "end"
    <3>1. K(n) \notin Closers  BY <2>4, <2>8 DEF Paths, Closers
    <3>2. /\ l.of = Nowhere => l.path = "main"
          /\ l.of # Nowhere =>
               \/ K(l.of) = "BranchSplit" /\ l.path \in {"true", "false"}
               \/ K(l.of) = "LoopHead" /\ l.path = "loop"
      BY <2>4, <2>5, <2>6, <2>8 DEF Paths
    <3> QED  BY <2>1, <2>2, <2>4, <2>8, <3>1, <3>2 DEF HasPlace, Openers, Closers
  <2> QED  BY <2>7, <2>8
<1> QED  BY <1>1, <1>2, <1>3

\* No two nodes have a place, or the end of a path's splits, in common.
LEMMA Unique ==
  ASSUME NestedBy(cfg, Lay), NEW n \in Nodes, NEW m \in Nodes,
         LiesOn(Lay, m, Lay[n].of, Lay[n].path), Lay[n].path = "end" \/ Lay[m].at = Lay[n].at
  PROVE  m = n
BY DEF NestedBy, Placed, Nodes

\* No two splits have an id in common, and no two heads.
LEMMA OwnIds ==
  ASSUME NestedBy(cfg, Lay), NEW n \in Nodes, NEW m \in Nodes, K(n) \in Openers, K(m) = K(n),
         IdOf(m) = IdOf(n)
  PROVE  m = n
BY DEF NestedBy, Placed, Nodes, K, IdOf, Openers

-----------------------------------------------------------------------------
(* Stacks. *)

LEMMA Pushed ==
  ASSUME NEW S, NEW s \in Seq(S), NEW x \in S
  PROVE  /\ Append(s, x) \in Seq(S) /\ Append(s, x) # <<>>
         /\ Len(s) \in Nat /\ Len(Append(s, x)) = Len(s) + 1
         /\ \A i \in 1 .. Len(s) : Append(s, x)[i] = s[i]
         /\ Append(s, x)[Len(s) + 1] = x
OBVIOUS

LEMMA Popped ==
  ASSUME NEW S, NEW s \in Seq(S), s # <<>>
  PROVE  /\ Len(s) \in Nat \ {0} /\ Last(s) = s[Len(s)] /\ Last(s) \in S
         /\ Front(s) \in Seq(S) /\ Len(Front(s)) = Len(s) - 1
         /\ \A i \in 1 .. Len(s) - 1 : Front(s)[i] = s[i]
<1>1. Len(s) \in Nat \ {0} /\ Last(s) = s[Len(s)] /\ Last(s) \in S  BY DEF Last
<1>2. PICK n \in Nat : n = Len(s) - 1  BY <1>1
<1>3. Front(s) = SubSeq(s, 1, n)  BY <1>2 DEF Front
<1>4. \A i \in 1 .. n : s[i] \in S  BY <1>1, <1>2
<1>5. /\ SubSeq(s, 1, n) \in Seq(S)
      /\ Len(SubSeq(s, 1, n)) = IF 1 <= n THEN n - 1 + 1 ELSE 0
      /\ \A i \in 1 .. n - 1 + 1 : SubSeq(s, 1, n)[i] = s[1 + i - 1]
  BY <1>2, <1>4, SubSeqProperties
<1>6. /\ (IF 1 <= n THEN n - 1 + 1 ELSE 0) = n /\ n - 1 + 1 = n
      /\ \A i \in 1 .. n : 1 + i - 1 = i
  BY <1>2
<1> QED  BY <1>1, <1>2, <1>3, <1>5, <1>6

LEMMA Replaced ==
  ASSUME NEW S, NEW s \in Seq(S), s # <<>>, NEW x \in S
  PROVE  LET t == [s EXCEPT ![Len(s)] = x] IN
         /\ t \in Seq(S) /\ t # <<>> /\ Len(t) = Len(s)
         /\ \A i \in 1 .. Len(s) - 1 : t[i] = s[i]
         /\ t[Len(s)] = x
OBVIOUS

LEMMA WentOn ==
  ASSUME NEW loops \in Seq(Visits), loops # <<>>, NEW next \in Nodes
  PROVE  LET on == GoesOn(loops, next)
             n == Len(loops)
         IN  /\ on \in Seq(Visits) /\ on # <<>> /\ Len(on) = n /\ n \in Nat \ {0}
             /\ \A i \in 1 .. n - 1 : on[i] = loops[i]
             /\ on[n] = [path |-> loops[n].path, at |-> loops[n].at, cur |-> next,
                         rounds |-> loops[n].rounds + 1]
<1> DEFINE n == Len(loops)
           x == [path |-> loops[n].path, at |-> loops[n].at, cur |-> next,
                 rounds |-> loops[n].rounds + 1]
<1>1. n \in Nat \ {0} /\ loops[n] \in Visits  OBVIOUS
<1>2. x \in Visits  BY <1>1 DEF Visits
<1>3. GoesOn(loops, next) = [loops EXCEPT ![n] = x]  BY <1>1 DEF GoesOn, Visits
<1> QED  BY <1>1, <1>2, <1>3, Replaced

-----------------------------------------------------------------------------
(* Where control is. *)

\* The innermost loop.
LEMMA Innermost ==
  ASSUME Typed
  PROVE  /\ Len(visits) \in Nat \ {0} /\ Inmost = visits[Len(visits)]
         /\ DOMAIN visits = 1 .. Len(visits)
         /\ \A i \in 1 .. Len(visits) :
              /\ visits[i].path \in {"main", "true", "false", "loop"}
              /\ visits[i].at \in {Nowhere} \cup Nodes /\ visits[i].cur \in Nodes
              /\ visits[i].rounds \in Nat
         /\ cfg.nodes[Inmost.cur].n = K(Inmost.cur)
<1>1. Len(visits) \in Nat \ {0} /\ Inmost = visits[Len(visits)] /\ DOMAIN visits = 1 .. Len(visits)
  BY DEF Typed, Inmost, Last
<1>2. \A i \in 1 .. Len(visits) : visits[i] \in Visits  BY DEF Typed
<1> QED  BY <1>1, <1>2 DEF Visits, K, Kind

\* Each loop stands on its path, or where it ends.
LEMMA Stands ==
  ASSUME Typed, NestedBy(cfg, Lay), Standing, NEW i \in 1 .. Len(visits)
  PROVE  LET v == visits[i]
             l == Lay[v.cur]
         IN  /\ K(v.cur) \notin Closers => l.of = v.at /\ l.path = v.path /\ l.at = v.rounds + 1
             /\ K(v.cur) \in Closers =>
                  /\ l.of = v.at /\ l.path = "end"
                  /\ \A p \in Paths : p[2] = v.path => p[3] = K(v.cur)
                  /\ \A m \in Nodes : LiesOn(Lay, m, v.at, v.path) => Lay[m].at <= v.rounds
<1>1. PICK v : v = visits[i]  OBVIOUS
<1>2. Comes(cfg, Lay, v.cur, v.at, v.path, v.rounds)  BY <1>1 DEF Standing
<1>3. v.cur \in Nodes /\ v.path # "end"  BY <1>1, Innermost
<1>4. K(v.cur) \in Closers <=> Lay[v.cur].path = "end"  BY <1>3, Places DEF HasPlace
<1> QED  BY <1>1, <1>2, <1>3, <1>4 DEF Comes, LiesOn, Nodes, K

\* No split or head is walked twice at a time.
LEMMA Apart ==
  ASSUME Typed, NestedBy(cfg, Lay), Standing, NEW i \in 1 .. Len(visits), NEW j \in 1 .. Len(visits),
         visits[i].at = visits[j].at
  PROVE  i = j
<1>1. \A k \in 1 .. Len(visits) :
        /\ k = 1 => visits[k].at = Nowhere
        /\ k > 1 => visits[k].at \in Nodes /\ Lay[visits[k].at].depth = k - 2
  <2> SUFFICES ASSUME NEW k \in 1 .. Len(visits), k > 1 PROVE visits[k].at \in Nodes
    BY DEF Standing
  <2>1. k - 1 \in 1 .. Len(visits) /\ visits[k].at = visits[k - 1].cur  BY Innermost DEF Standing
  <2> QED  BY <2>1, Innermost
<1>2. Nowhere \notin Nodes  BY Places
<1> QED  BY <1>1, <1>2, Innermost

\* The current node was not visited before.
LEMMA Fresh ==
  ASSUME Sound
  PROVE  Inmost.cur \in Nodes /\ Inmost.cur \notin Seen
<1> DEFINE n == Len(visits)
           cur == Inmost.cur
<1>1. n \in Nat \ {0} /\ Inmost = visits[n] /\ n \in 1 .. n /\ cur \in Nodes
  BY Innermost DEF Sound
<1>2. \A i \in 1 .. n : visits[i].path # "end" /\ visits[i].rounds \in Nat  BY Innermost DEF Sound
<1>3. \A i \in 1 .. n : visits[i].at = visits[n].at => i = n  BY <1>1, Apart DEF Sound
<1>4. SUFFICES ASSUME Past(cur) PROVE FALSE  BY <1>1 DEF Sound
<1>5. Lay[cur].of = visits[n].at  BY <1>1, Stands DEF Sound
<1>6. CASE K(cur) \notin Closers
  <2>1. Lay[cur].path = visits[n].path /\ Lay[cur].at = visits[n].rounds + 1
    BY <1>1, <1>6, Stands DEF Sound
  <2> QED  BY <1>1, <1>2, <1>3, <1>4, <1>5, <2>1 DEF Past, LiesOn
<1>7. CASE K(cur) \in Closers
  <2>1. Lay[cur].path = "end"  BY <1>1, <1>7, Stands DEF Sound
  <2> QED  BY <1>1, <1>2, <1>3, <1>4, <1>5, <2>1 DEF Past, LiesOn
<1> QED  BY <1>6, <1>7

\* Splits and heads that are being walked were visited.
LEMMA Opened ==
  ASSUME Sound, NEW i \in 1 .. Len(visits), i < Len(visits)
  PROVE  /\ visits[i].cur \in Nodes /\ visits[i].cur \in Seen
         /\ K(visits[i].cur) \in Openers
         /\ visits[i + 1].at = visits[i].cur
<1>1. i + 1 \in 1 .. Len(visits) /\ i + 1 > 1 /\ (i + 1) - 1 = i  BY Innermost DEF Sound
<1>2. /\ visits[i + 1].at = visits[i].cur /\ visits[i + 1].path # "main"
      /\ \E p \in Paths : p[1] = K(visits[i + 1].at) /\ p[2] = visits[i + 1].path
  BY <1>1 DEF Sound, Standing
<1>3. visits[i].cur \in Nodes  BY Innermost DEF Sound
<1>4. K(visits[i].cur) \in Openers  BY <1>2 DEF Paths, Openers
<1>5. LiesOn(Lay, visits[i].cur, visits[i].at, visits[i].path)
      /\ Lay[visits[i].cur].at = visits[i].rounds + 1
  BY <1>4, Stands DEF Sound, LiesOn, Openers, Closers
<1>6. Past(visits[i].cur)
  <2>1. Lay[visits[i].cur].at <= visits[i].rounds + (IF i < Len(visits) THEN 1 ELSE 0)
    BY <1>5, Innermost DEF Sound
  <2> QED  BY <1>5, <2>1 DEF Past
<1> QED  BY <1>2, <1>3, <1>4, <1>6 DEF Sound

-----------------------------------------------------------------------------
(* Control moves. *)

\* The graph stays the same one.
LEMMA Same ==
  ASSUME UNCHANGED <<fn, cfg>>
  PROVE  /\ fn' = fn /\ cfg' = cfg /\ Lay' = Lay /\ Nodes' = Nodes /\ Visits' = Visits
         /\ NestedBy(cfg, Lay)' <=> NestedBy(cfg, Lay)
BY DEF Lay, Nodes, Visits

LEMMA SameNodes ==
  ASSUME UNCHANGED <<fn, cfg>>
  PROVE  \A n : IdOf(n)' = IdOf(n) /\ K(n)' = K(n)
BY DEF IdOf, K

\* The current node is visited.
LEMMA Added ==
  ASSUME Sound, UNCHANGED <<fn, cfg>>, visited' = Append(visited, Inmost.cur)
  PROVE  visited' \in Seq(Nodes) /\ NoneTwice' /\ Seen' = Seen \cup {Inmost.cur}
<1>1. visited \in Seq(Nodes) /\ Inmost.cur \in Nodes /\ Inmost.cur \notin Seen
  BY Fresh DEF Sound, Typed
<1>2. PICK n : n = Len(visited)  OBVIOUS
<1>3. /\ visited' \in Seq(Nodes) /\ n \in Nat
      /\ DOMAIN visited = 1 .. n /\ DOMAIN visited' = 1 .. n + 1
      /\ \A i \in 1 .. n : visited'[i] = visited[i]
      /\ visited'[n + 1] = Inmost.cur
  BY <1>1, <1>2
<1>4. Seen' = Seen \cup {Inmost.cur}
  <2>1. \A i \in 1 .. n + 1 : i \in 1 .. n \/ i = n + 1  BY <1>3
  <2>2. 1 .. n \subseteq 1 .. n + 1 /\ n + 1 \in 1 .. n + 1  BY <1>3
  <2> QED  BY <1>3, <2>1, <2>2 DEF Seen
<1>5. NoneTwice'
  <2>1. \A i \in 1 .. n + 1 : i \in 1 .. n \/ i = n + 1  BY <1>3
  <2>2. \A i \in 1 .. n : visited[i] \in Seen  BY <1>3 DEF Seen
  <2> QED  BY <1>1, <1>3, <2>1, <2>2 DEF NoneTwice, Sound
<1> QED  BY <1>3, <1>4, <1>5

\* Control comes to a node of the graph.
LEMMA ComesInside ==
  ASSUME NEW n, NEW of, NEW path, NEW at, NestedBy(cfg, Lay), Comes(cfg, Lay, n, of, path, at)
  PROVE  n \in Nodes /\ n # Nowhere
BY Places DEF Comes, Nodes

\* A node on its path is one of fewer than all, as the start is not on it or
\* the end is not.
LEMMA Rounds ==
  ASSUME Sound, NEW i \in 1 .. Len(visits), K(visits[i].cur) \notin Closers
  PROVE  visits[i].rounds + 1 < Len(cfg.nodes)
<1>1. visits[i].cur \in Nodes /\ visits[i].rounds \in Nat  BY Innermost DEF Sound
<1>2. HasPlace(visits[i].cur) /\ Len(cfg.nodes) \in Nat  BY <1>1, Places DEF Sound
<1>3. Lay[visits[i].cur].at = visits[i].rounds + 1  BY Stands DEF Sound
<1>4. Lay[visits[i].cur].at \in 1 .. Len(cfg.nodes) - 1  BY <1>2 DEF HasPlace
<1> QED  BY <1>1, <1>2, <1>3, <1>4

\* The current node is passed.
LEMMA PassKeeps ==
  ASSUME Sound, UNCHANGED <<fn, cfg>>, NEW next,
         K(Inmost.cur) \notin Closers, K(Inmost.cur) \notin Openers,
         Comes(cfg, Lay, next, Lay[Inmost.cur].of, Lay[Inmost.cur].path, Lay[Inmost.cur].at),
         visits' = GoesOn(visits, next), visited' = Append(visited, Inmost.cur)
  PROVE  Sound'
<1>1. PICK n : n = Len(visits)  OBVIOUS
<1>2. PICK cur : cur = Inmost.cur  OBVIOUS
<1>3. PICK v : v = visits[n]  OBVIOUS
<1>4. /\ n \in Nat \ {0} /\ n \in 1 .. n /\ Inmost = v /\ cur \in Nodes /\ v.cur = cur
      /\ visits \in Seq(Visits) /\ visits # <<>>
      /\ \A i \in 1 .. n : i \in 1 .. n - 1 \/ i = n
      /\ \A i \in 1 .. n - 1 : i \in 1 .. n
  BY <1>1, <1>2, <1>3, Innermost DEF Sound, Typed
<1>5. /\ v.rounds \in Nat /\ v.path # "end"
      /\ Lay[cur].of = v.at /\ Lay[cur].path = v.path /\ Lay[cur].at = v.rounds + 1
  BY <1>1, <1>2, <1>3, <1>4, Innermost, Stands DEF Sound
<1>6. next \in Nodes  BY ComesInside DEF Sound
<1>7. /\ visits' \in Seq(Visits) /\ visits' # <<>> /\ Len(visits') = n
      /\ \A i \in 1 .. n - 1 : visits'[i] = visits[i]
      /\ visits'[n] = [path |-> v.path, at |-> v.at, cur |-> next, rounds |-> v.rounds + 1]
  BY <1>1, <1>3, <1>4, <1>6, WentOn
<1>8. \A i \in 1 .. n : visits'[i].path = visits[i].path /\ visits'[i].at = visits[i].at
  BY <1>3, <1>4, <1>7, SMTT(60)
<1>9. Typed'  BY <1>7, Same, Added DEF Typed, Sound
<1>10. Standing'
  <2>1. \A i \in 1 .. n :
          Comes(cfg, Lay, visits'[i].cur, visits'[i].at, visits'[i].path, visits'[i].rounds)
    <3>1. \A i \in 1 .. n - 1 :
            Comes(cfg, Lay, visits[i].cur, visits[i].at, visits[i].path, visits[i].rounds)
      BY <1>1, <1>4 DEF Sound, Standing
    <3> QED  BY <1>2, <1>4, <1>5, <1>7, <3>1
  <2>2. \A i \in 1 .. n : i > 1 =>
          /\ visits'[i].at = visits'[i - 1].cur
          /\ Lay[visits'[i].at].depth = i - 2 /\ visits'[i].path # "main"
          /\ \E p \in Paths : p[1] = K(visits'[i].at) /\ p[2] = visits'[i].path
    <3>1. \A i \in 1 .. n : i > 1 => i - 1 \in 1 .. n - 1  BY <1>4
    <3>2. \A i \in 1 .. n : i > 1 =>
            /\ visits[i].at = visits[i - 1].cur
            /\ Lay[visits[i].at].depth = i - 2 /\ visits[i].path # "main"
            /\ \E p \in Paths : p[1] = K(visits[i].at) /\ p[2] = visits[i].path
      BY <1>1 DEF Sound, Standing
    <3>3. ASSUME NEW i \in 1 .. n, i > 1
          PROVE  /\ visits'[i].at = visits'[i - 1].cur
                 /\ Lay[visits'[i].at].depth = i - 2 /\ visits'[i].path # "main"
                 /\ \E p \in Paths : p[1] = K(visits'[i].at) /\ p[2] = visits'[i].path
      <4>1. visits'[i - 1] = visits[i - 1]  BY <1>7, <3>1, <3>3
      <4>2. visits'[i].path = visits[i].path /\ visits'[i].at = visits[i].at  BY <1>8
      <4> QED  BY <3>2, <3>3, <4>1, <4>2
    <3> QED  BY <3>3
  <2>3. 1 \in 1 .. n /\ visits[1].path = "main" /\ visits[1].at = Nowhere
    BY <1>4 DEF Sound, Standing
  <2> QED  BY <1>7, <1>8, <2>1, <2>2, <2>3, Same DEF Standing, K
<1>11. ASSUME NEW m \in Nodes PROVE Past(m)' <=> Past(m) \/ m = cur
  <2>1. /\ Lay[m].path # "end" => Lay[m].at \in Nat
        /\ Lay[m].of # Nowhere => Lay[m].of # cur
    <3>1. HasPlace(m)  BY Places DEF Sound
    <3> QED  BY <1>2, <3>1 DEF HasPlace
  <2>2. LiesOn(Lay, m, v.at, v.path) =>
          (Lay[m].at <= v.rounds + 1 <=> Lay[m].at <= v.rounds \/ m = cur)
    <3> SUFFICES ASSUME LiesOn(Lay, m, v.at, v.path)
                 PROVE  Lay[m].at <= v.rounds + 1 <=> Lay[m].at <= v.rounds \/ m = cur
      OBVIOUS
    <3>1. Lay[m].at \in Nat  BY <1>5, <2>1 DEF LiesOn
    <3>2. Lay[m].at = v.rounds + 1 => m = cur  BY <1>4, <1>5, Unique DEF Sound
    <3> QED  BY <1>5, <3>1, <3>2
  <2>3. m = cur => LiesOn(Lay, m, v.at, v.path)  BY <1>5 DEF LiesOn
  <2>4. Past(m)' <=>
          \/ \E i \in 1 .. n :
               /\ LiesOn(Lay, m, visits[i].at, visits[i].path)
               /\ Lay[m].at <= visits'[i].rounds + (IF i < n THEN 1 ELSE 0)
          \/ \E i \in 1 .. n : LiesOn(Lay, m, visits[i].at, "true") /\ visits[i].path = "false"
          \/ Lay[m].of \in Seen' /\ \A i \in 1 .. n : visits[i].at # Lay[m].of
    BY <1>7, <1>8, Same, ZenonT(60) DEF Past
  <2>5. (\E i \in 1 .. n : /\ LiesOn(Lay, m, visits[i].at, visits[i].path)
                           /\ Lay[m].at <= visits'[i].rounds + (IF i < n THEN 1 ELSE 0))
        <=> \/ \E i \in 1 .. n - 1 : /\ LiesOn(Lay, m, visits[i].at, visits[i].path)
                                     /\ Lay[m].at <= visits[i].rounds + 1
            \/ LiesOn(Lay, m, v.at, v.path) /\ Lay[m].at <= v.rounds + 1
    <3>1. \A i \in 1 .. n - 1 : /\ visits'[i].rounds = visits[i].rounds /\ i < n
                                /\ visits[i].rounds \in Nat
      BY <1>1, <1>4, <1>7, Innermost DEF Sound
    <3>2. visits'[n].rounds + (IF n < n THEN 1 ELSE 0) = v.rounds + 1  BY <1>4, <1>5, <1>7
    <3> QED  BY <1>3, <1>4, <3>1, <3>2
  <2>6. (\E i \in 1 .. n : /\ LiesOn(Lay, m, visits[i].at, visits[i].path)
                           /\ Lay[m].at <= visits[i].rounds + (IF i < n THEN 1 ELSE 0))
        <=> \/ \E i \in 1 .. n - 1 : /\ LiesOn(Lay, m, visits[i].at, visits[i].path)
                                     /\ Lay[m].at <= visits[i].rounds + 1
            \/ LiesOn(Lay, m, v.at, v.path) /\ Lay[m].at <= v.rounds
    <3>1. \A i \in 1 .. n - 1 : i < n  BY <1>4
    <3>2. v.rounds + (IF n < n THEN 1 ELSE 0) = v.rounds  BY <1>4, <1>5
    <3> QED  BY <1>3, <1>4, <3>1, <3>2
  <2>7. Lay[m].of \in Seen' <=> Lay[m].of \in Seen
    <3>1. Nowhere \notin Nodes /\ Seen' = Seen \cup {cur}  BY <1>2, Added, Places DEF Sound
    <3> QED  BY <1>4, <2>1, <3>1
  <2> QED  BY <1>1, <2>2, <2>3, <2>4, <2>5, <2>6, <2>7 DEF Past
<1>12. \A m \in Nodes : m \in Seen' <=> Past(m)'  BY <1>2, <1>11, Added DEF Sound
<1> QED
  <2>1. NoneTwice' /\ NestedBy(cfg, Lay)'  BY Added, Same DEF Sound
  <2>2. (\A m \in Nodes : m \in Seen <=> Past(m))'  BY <1>12, Same
  <2> QED  BY <1>9, <1>10, <2>1, <2>2 DEF Sound

\* A split or head is a path less deep than the loop on its path will be.
LEMMA Deep ==
  ASSUME Sound, K(Inmost.cur) \notin Closers
  PROVE  Lay[Inmost.cur].depth = Len(visits) - 1
<1>1. PICK n : n = Len(visits)  OBVIOUS
<1>2. n \in Nat \ {0} /\ n \in 1 .. n /\ Inmost = visits[n] /\ Inmost.cur \in Nodes
  BY <1>1, Innermost DEF Sound
<1>3. Lay[Inmost.cur].of = visits[n].at  BY <1>1, <1>2, Stands DEF Sound
<1>4. HasPlace(Inmost.cur) /\ Nowhere \notin Nodes  BY <1>2, Places DEF Sound
<1>5. CASE n = 1
  <2>1. visits[n].at = Nowhere  BY <1>5 DEF Sound, Standing
  <2> QED  BY <1>1, <1>3, <1>4, <1>5, <2>1 DEF HasPlace
<1>6. CASE n > 1
  <2>1. Lay[visits[n].at].depth = n - 2 /\ visits[n].at = visits[n - 1].cur
    BY <1>1, <1>2, <1>6 DEF Sound, Standing
  <2>2. n - 1 \in 1 .. n  BY <1>2, <1>6
  <2>3. visits[n].at \in Nodes  BY <1>1, <2>1, <2>2, Innermost DEF Sound
  <2>4. Lay[Inmost.cur].depth = Lay[visits[n].at].depth + 1
    BY <1>3, <1>4, <2>3 DEF HasPlace
  <2> QED  BY <1>1, <1>2, <2>1, <2>4
<1> QED  BY <1>2, <1>5, <1>6

\* A path of the current node is entered.
LEMMA DescendKeeps ==
  ASSUME Sound, UNCHANGED <<fn, cfg>>, NEW path \in {"true", "loop"}, NEW next,
         K(Inmost.cur) \in Openers, \E p \in Paths : p[1] = K(Inmost.cur) /\ p[2] = path,
         Comes(cfg, Lay, next, Inmost.cur, path, 0),
         visits' = Append(visits, Visit(path, Inmost.cur, next)),
         visited' = Append(visited, Inmost.cur)
  PROVE  Sound'
<1>1. PICK n : n = Len(visits)  OBVIOUS
<1>2. PICK cur : cur = Inmost.cur  OBVIOUS
<1>3. PICK v : v = visits[n]  OBVIOUS
<1>4. /\ n \in Nat \ {0} /\ n \in 1 .. n /\ Inmost = v /\ cur \in Nodes /\ v.cur = cur
      /\ visits \in Seq(Visits) /\ visits # <<>>
      /\ \A i \in 1 .. n + 1 : i \in 1 .. n \/ i = n + 1
      /\ \A i \in 1 .. n : i \in 1 .. n + 1 /\ (i \in 1 .. n - 1 \/ i = n)
      /\ n + 1 \in 1 .. n + 1
  BY <1>1, <1>2, <1>3, Innermost DEF Sound, Typed
<1>5. /\ v.rounds \in Nat /\ v.path # "end" /\ K(cur) \notin Closers
      /\ Lay[cur].of = v.at /\ Lay[cur].path = v.path /\ Lay[cur].at = v.rounds + 1
  <2>1. K(cur) \notin Closers  BY <1>2 DEF Openers, Closers
  <2> QED  BY <1>1, <1>2, <1>3, <1>4, <2>1, Innermost, Stands, SMTT(60) DEF Sound
<1>6. next \in Nodes  BY ComesInside DEF Sound
<1>7. Visit(path, cur, next) \in Visits  BY <1>4, <1>6 DEF Visit, Visits
<1>8. /\ visits' \in Seq(Visits) /\ visits' # <<>> /\ Len(visits') = n + 1
      /\ \A i \in 1 .. n : visits'[i] = visits[i]
      /\ visits'[n + 1] = Visit(path, cur, next)
  BY <1>1, <1>2, <1>4, <1>7, Pushed
<1>9. /\ visits'[n + 1].path = path /\ visits'[n + 1].at = cur
      /\ visits'[n + 1].cur = next /\ visits'[n + 1].rounds = 0
  BY <1>8 DEF Visit
<1>10. Typed'  BY <1>8, Same, Added DEF Typed, Sound
<1>11. Standing'
  <2>1. \A i \in 1 .. n + 1 :
          Comes(cfg, Lay, visits'[i].cur, visits'[i].at, visits'[i].path, visits'[i].rounds)
    <3>1. \A i \in 1 .. n :
            Comes(cfg, Lay, visits[i].cur, visits[i].at, visits[i].path, visits[i].rounds)
      BY <1>1, <1>4 DEF Sound, Standing
    <3> QED  BY <1>2, <1>4, <1>8, <1>9, <3>1
  <2>2. \A i \in 1 .. n : i > 1 =>
          /\ visits'[i].at = visits'[i - 1].cur
          /\ Lay[visits'[i].at].depth = i - 2 /\ visits'[i].path # "main"
          /\ \E p \in Paths : p[1] = K(visits'[i].at) /\ p[2] = visits'[i].path
    <3>1. \A i \in 1 .. n : i > 1 => i - 1 \in 1 .. n  BY <1>4
    <3>2. \A i \in 1 .. n : i > 1 =>
            /\ visits[i].at = visits[i - 1].cur
            /\ Lay[visits[i].at].depth = i - 2 /\ visits[i].path # "main"
            /\ \E p \in Paths : p[1] = K(visits[i].at) /\ p[2] = visits[i].path
      BY <1>1 DEF Sound, Standing
    <3>3. ASSUME NEW i \in 1 .. n, i > 1
          PROVE  /\ visits'[i].at = visits'[i - 1].cur
                 /\ Lay[visits'[i].at].depth = i - 2 /\ visits'[i].path # "main"
                 /\ \E p \in Paths : p[1] = K(visits'[i].at) /\ p[2] = visits'[i].path
      <4>1. visits'[i] = visits[i] /\ visits'[i - 1] = visits[i - 1]  BY <1>8, <3>1, <3>3
      <4> QED  BY <3>2, <3>3, <4>1
    <3> QED  BY <3>3
  <2>3. /\ visits'[n + 1].at = visits'[(n + 1) - 1].cur
        /\ Lay[visits'[n + 1].at].depth = (n + 1) - 2
        /\ visits'[n + 1].path # "main"
        /\ \E p \in Paths : p[1] = K(visits'[n + 1].at) /\ p[2] = visits'[n + 1].path
    <3>1. (n + 1) - 1 = n /\ (n + 1) - 2 = n - 1  BY <1>4
    <3>2. Lay[cur].depth = n - 1  BY <1>1, <1>2, <1>5, Deep
    <3> QED  BY <1>2, <1>3, <1>4, <1>8, <1>9, <3>1, <3>2
  <2>4. 1 \in 1 .. n /\ visits'[1].path = "main" /\ visits'[1].at = Nowhere
    BY <1>4, <1>8 DEF Sound, Standing
  <2> QED  BY <1>4, <1>8, <2>1, <2>2, <2>3, <2>4, Same DEF Standing, K
<1>12. ASSUME NEW m \in Nodes PROVE Past(m)' <=> Past(m) \/ m = cur
  <2>1. /\ HasPlace(m) /\ Seen' = Seen \cup {cur} /\ cur \notin Seen /\ Nowhere \notin Nodes
        /\ Lay[m].path # "end" => Lay[m].at \in Nat /\ Lay[m].at >= 1
    <3>1. HasPlace(m)  BY Places DEF Sound
    <3> QED  BY <1>2, <3>1, Added, Fresh, Places DEF HasPlace, Sound
  <2>2. LiesOn(Lay, m, v.at, v.path) =>
          (Lay[m].at <= v.rounds + 1 <=> Lay[m].at <= v.rounds \/ m = cur)
    <3> SUFFICES ASSUME LiesOn(Lay, m, v.at, v.path)
                 PROVE  Lay[m].at <= v.rounds + 1 <=> Lay[m].at <= v.rounds \/ m = cur
      OBVIOUS
    <3>1. Lay[m].at \in Nat  BY <1>5, <2>1 DEF LiesOn
    <3>2. Lay[m].at = v.rounds + 1 => m = cur  BY <1>4, <1>5, Unique DEF Sound
    <3> QED  BY <1>5, <3>1, <3>2
  <2>3. m = cur => LiesOn(Lay, m, v.at, v.path)  BY <1>5 DEF LiesOn
  <2>4. ~(LiesOn(Lay, m, cur, path) /\ Lay[m].at <= 0)  BY <2>1 DEF LiesOn
  <2> DEFINE Upto(k) == LiesOn(Lay, m, v.at, v.path) /\ Lay[m].at <= k
             Outer == \E i \in 1 .. n - 1 : /\ LiesOn(Lay, m, visits[i].at, visits[i].path)
                                            /\ Lay[m].at <= visits[i].rounds + 1
             True == \E i \in 1 .. n : LiesOn(Lay, m, visits[i].at, "true") /\ visits[i].path = "false"
  <2>5. Past(m) <=> \/ Outer \/ Upto(v.rounds) \/ True
                    \/ Lay[m].of \in Seen /\ \A i \in 1 .. n : visits[i].at # Lay[m].of
    <3>1. \A i \in 1 .. n - 1 : i < n  BY <1>4
    <3>2. v.rounds + (IF n < n THEN 1 ELSE 0) = v.rounds  BY <1>4, <1>5
    <3>3. (\E i \in 1 .. n : /\ LiesOn(Lay, m, visits[i].at, visits[i].path)
                             /\ Lay[m].at <= visits[i].rounds + (IF i < n THEN 1 ELSE 0))
          <=> Outer \/ Upto(v.rounds)
      BY <1>3, <1>4, <3>1, <3>2
    <3> QED  BY <1>1, <3>3 DEF Past
  <2>6. Past(m)' <=> \/ Outer \/ Upto(v.rounds + 1) \/ True
                     \/ Lay[m].of \in Seen' /\ \A i \in 1 .. n + 1 : visits'[i].at # Lay[m].of
    <3>1. \A i \in 1 .. n : i < n + 1  BY <1>4
    <3>2. 0 + (IF n + 1 < n + 1 THEN 1 ELSE 0) = 0  BY <1>4
    <3>3. (\E i \in 1 .. n + 1 : /\ LiesOn(Lay, m, visits'[i].at, visits'[i].path)
                                 /\ Lay[m].at <= visits'[i].rounds + (IF i < n + 1 THEN 1 ELSE 0))
          <=> \/ \E i \in 1 .. n : /\ LiesOn(Lay, m, visits[i].at, visits[i].path)
                                   /\ Lay[m].at <= visits[i].rounds + 1
              \/ LiesOn(Lay, m, cur, path) /\ Lay[m].at <= 0
      <4>1. \A i \in 1 .. n :
              /\ LiesOn(Lay, m, visits'[i].at, visits'[i].path)
                   <=> LiesOn(Lay, m, visits[i].at, visits[i].path)
              /\ Lay[m].at <= visits'[i].rounds + (IF i < n + 1 THEN 1 ELSE 0)
                   <=> Lay[m].at <= visits[i].rounds + 1
        BY <1>8, <3>1
      <4>2. /\ LiesOn(Lay, m, visits'[n + 1].at, visits'[n + 1].path)
                 <=> LiesOn(Lay, m, cur, path)
            /\ Lay[m].at <= visits'[n + 1].rounds + (IF n + 1 < n + 1 THEN 1 ELSE 0)
                 <=> Lay[m].at <= 0
        BY <1>9, <3>2
      <4> QED  BY <1>4, <4>1, <4>2, ZenonT(60)
    <3>4. (\E i \in 1 .. n : /\ LiesOn(Lay, m, visits[i].at, visits[i].path)
                             /\ Lay[m].at <= visits[i].rounds + 1)
          <=> Outer \/ Upto(v.rounds + 1)
      <4>1. \A i \in 1 .. n - 1 : i \in 1 .. n  BY <1>4
      <4>2. \A i \in 1 .. n : i \in 1 .. n - 1 \/ i = n  BY <1>4
      <4> QED  BY <1>3, <1>4, <4>1, <4>2
    <3>5. (\E i \in 1 .. n + 1 : LiesOn(Lay, m, visits'[i].at, "true") /\ visits'[i].path = "false")
          <=> True
      BY <1>4, <1>8, <1>9
    <3>6. Past(m)' <=>
            \/ \E i \in 1 .. n + 1 : /\ LiesOn(Lay, m, visits'[i].at, visits'[i].path)
                                     /\ Lay[m].at <= visits'[i].rounds + (IF i < n + 1 THEN 1 ELSE 0)
            \/ \E i \in 1 .. n + 1 : LiesOn(Lay, m, visits'[i].at, "true") /\ visits'[i].path = "false"
            \/ Lay[m].of \in Seen' /\ \A i \in 1 .. n + 1 : visits'[i].at # Lay[m].of
      BY <1>8, Same DEF Past
    <3> QED  BY <2>4, <3>3, <3>4, <3>5, <3>6
  <2>7. (Lay[m].of \in Seen' /\ \A i \in 1 .. n + 1 : visits'[i].at # Lay[m].of)
        <=> Lay[m].of \in Seen /\ \A i \in 1 .. n : visits[i].at # Lay[m].of
    BY <1>4, <1>8, <1>9, <2>1
  <2> HIDE DEF Upto, Outer, True
  <2>8. Upto(v.rounds + 1) <=> Upto(v.rounds) \/ m = cur
    BY <2>2, <2>3, <1>5 DEF Upto
  <2> QED  BY <2>5, <2>6, <2>7, <2>8
<1>13. \A m \in Nodes : m \in Seen' <=> Past(m)'  BY <1>2, <1>12, Added DEF Sound
<1> QED
  <2>1. NoneTwice' /\ NestedBy(cfg, Lay)'  BY Added, Same DEF Sound
  <2>2. (\A m \in Nodes : m \in Seen <=> Past(m))'  BY <1>13, Same
  <2> QED  BY <1>10, <1>11, <2>1, <2>2 DEF Sound

\* The true path of a split is left for the false one.
LEMMA TurnKeeps ==
  ASSUME Sound, UNCHANGED <<fn, cfg, visited>>, NEW next,
         K(Inmost.cur) \in Closers, Inmost.path = "true", K(Inmost.at) = "BranchSplit",
         Comes(cfg, Lay, next, Inmost.at, "false", 0),
         visits' = Append(Front(visits), Visit("false", Inmost.at, next))
  PROVE  Sound'
<1>1. PICK n : n = Len(visits)  OBVIOUS
<1>2. PICK v : v = visits[n]  OBVIOUS
<1>3. /\ n \in Nat \ {0} /\ n \in 1 .. n /\ Inmost = v
      /\ visits \in Seq(Visits) /\ visits # <<>>
      /\ v.at \in {Nowhere} \cup Nodes /\ v.path = "true"
  BY <1>1, <1>2, Innermost DEF Sound, Typed
<1>4. n > 1  BY <1>2, <1>3 DEF Sound, Standing
<1>5. /\ n - 1 \in Nat /\ (n - 1) + 1 = n /\ 1 \in 1 .. n - 1
      /\ \A i \in 1 .. n - 1 : i \in 1 .. n /\ i < n
      /\ \A i \in 1 .. n : i \in 1 .. n - 1 \/ i = n
      /\ \A i \in 1 .. n : i > 1 => i - 1 \in 1 .. n - 1
  BY <1>3, <1>4
<1>6. next \in Nodes  BY ComesInside DEF Sound
<1>7. /\ Visit("false", v.at, next) \in Visits
      /\ Visit("false", v.at, next) = [path |-> "false", at |-> v.at, cur |-> next, rounds |-> 0]
  BY <1>3, <1>6 DEF Visit, Visits
<1>8. /\ visits' \in Seq(Visits) /\ visits' # <<>> /\ Len(visits') = n
      /\ \A i \in 1 .. n - 1 : visits'[i] = visits[i]
      /\ visits'[n] = [path |-> "false", at |-> v.at, cur |-> next, rounds |-> 0]
  <2>1. /\ Front(visits) \in Seq(Visits) /\ Len(Front(visits)) = n - 1
        /\ \A i \in 1 .. n - 1 : Front(visits)[i] = visits[i]
    BY <1>1, <1>3, Popped
  <2> QED  BY <1>3, <1>5, <1>7, <2>1, Pushed
<1>9. \A i \in 1 .. n : visits'[i].at = visits[i].at  BY <1>2, <1>5, <1>8
<1>10. Typed'  BY <1>8, Same DEF Typed, Sound
<1>11. Standing'
  <2>1. \A i \in 1 .. n :
          Comes(cfg, Lay, visits'[i].cur, visits'[i].at, visits'[i].path, visits'[i].rounds)
    <3>1. \A i \in 1 .. n - 1 :
            Comes(cfg, Lay, visits[i].cur, visits[i].at, visits[i].path, visits[i].rounds)
      BY <1>1, <1>5 DEF Sound, Standing
    <3> QED  BY <1>3, <1>5, <1>8, <3>1
  <2>2. \A i \in 1 .. n : i > 1 =>
          /\ visits'[i].at = visits'[i - 1].cur
          /\ Lay[visits'[i].at].depth = i - 2 /\ visits'[i].path # "main"
          /\ \E p \in Paths : p[1] = K(visits'[i].at) /\ p[2] = visits'[i].path
    <3>1. \A i \in 1 .. n : i > 1 =>
            /\ visits[i].at = visits[i - 1].cur
            /\ Lay[visits[i].at].depth = i - 2 /\ visits[i].path # "main"
            /\ \E p \in Paths : p[1] = K(visits[i].at) /\ p[2] = visits[i].path
      BY <1>1 DEF Sound, Standing
    <3>2. \E p \in Paths : p[1] = K(v.at) /\ p[2] = "false"  BY <1>3 DEF Paths
    <3>3. visits'[n].at = v.at /\ visits'[n].path = "false"  BY <1>8
    <3>4. \A i \in 1 .. n : i > 1 => visits'[i - 1] = visits[i - 1]  BY <1>5, <1>8
    <3>5. \A i \in 1 .. n - 1 : visits'[i].path = visits[i].path  BY <1>8
    <3>6. ASSUME NEW i \in 1 .. n, i > 1
          PROVE  /\ visits'[i].path # "main"
                 /\ \E p \in Paths : p[1] = K(visits[i].at) /\ p[2] = visits'[i].path
      <4>1. CASE i \in 1 .. n - 1  BY <3>1, <3>5, <3>6, <4>1
      <4>2. CASE i = n  BY <1>2, <3>2, <3>3, <4>2
      <4> QED  BY <1>5, <4>1, <4>2
    <3> QED  BY <1>9, <3>1, <3>4, <3>6
  <2>3. visits'[1].path = "main" /\ visits'[1].at = Nowhere
    BY <1>5, <1>8 DEF Sound, Standing
  <2> QED  BY <1>8, <2>1, <2>2, <2>3, Same DEF Standing, K
<1>12. Seen' = Seen /\ NoneTwice'  BY DEF Seen, NoneTwice, Sound
<1>13. ASSUME NEW m \in Nodes PROVE Past(m)' <=> Past(m)
  <2> DEFINE Outer == \E i \in 1 .. n - 1 : /\ LiesOn(Lay, m, visits[i].at, visits[i].path)
                                            /\ Lay[m].at <= visits[i].rounds + 1
             True == \E i \in 1 .. n - 1 :
                       LiesOn(Lay, m, visits[i].at, "true") /\ visits[i].path = "false"
             Left == Lay[m].of \in Seen /\ \A i \in 1 .. n : visits[i].at # Lay[m].of
  <2>1. LiesOn(Lay, m, v.at, "true") => Lay[m].at <= v.rounds
    BY <1>1, <1>2, <1>3, Stands DEF Sound
  <2>2. ~(LiesOn(Lay, m, v.at, "false") /\ Lay[m].at <= 0)
    <3>1. HasPlace(m)  BY Places DEF Sound
    <3> QED  BY <3>1 DEF HasPlace, LiesOn
  <2>3. Past(m) <=> Outer \/ LiesOn(Lay, m, v.at, "true") \/ True \/ Left
    <3>1. (\E i \in 1 .. n : /\ LiesOn(Lay, m, visits[i].at, visits[i].path)
                             /\ Lay[m].at <= visits[i].rounds + (IF i < n THEN 1 ELSE 0))
          <=> Outer \/ LiesOn(Lay, m, v.at, "true")
      <4>1. v.rounds + (IF n < n THEN 1 ELSE 0) = v.rounds
        BY <1>1, <1>2, <1>3, Innermost DEF Sound
      <4> QED  BY <1>2, <1>3, <1>5, <2>1, <4>1
    <3>2. (\E i \in 1 .. n : LiesOn(Lay, m, visits[i].at, "true") /\ visits[i].path = "false")
          <=> True
      BY <1>2, <1>3, <1>5
    <3> QED  BY <1>1, <3>1, <3>2 DEF Past
  <2>4. Past(m)' <=> Outer \/ LiesOn(Lay, m, v.at, "true") \/ True \/ Left
    <3>1. /\ visits'[n].path = "false" /\ visits'[n].at = v.at
          /\ visits'[n].rounds + (IF n < n THEN 1 ELSE 0) = 0
      BY <1>3, <1>8
    <3>2. (\E i \in 1 .. n : /\ LiesOn(Lay, m, visits'[i].at, visits'[i].path)
                             /\ Lay[m].at <= visits'[i].rounds + (IF i < n THEN 1 ELSE 0))
          <=> Outer
      <4>1. \A i \in 1 .. n - 1 : visits'[i] = visits[i] /\ (IF i < n THEN 1 ELSE 0) = 1
        BY <1>5, <1>8
      <4>2. ~(/\ LiesOn(Lay, m, visits'[n].at, visits'[n].path)
              /\ Lay[m].at <= visits'[n].rounds + (IF n < n THEN 1 ELSE 0))
        BY <2>2, <3>1
      <4> QED  BY <1>5, <4>1, <4>2
    <3>3. (\E i \in 1 .. n : LiesOn(Lay, m, visits'[i].at, "true") /\ visits'[i].path = "false")
          <=> True \/ LiesOn(Lay, m, v.at, "true")
      <4>1. \A i \in 1 .. n - 1 : visits'[i].path = visits[i].path /\ visits'[i].at = visits[i].at
        BY <1>8
      <4> QED  BY <1>3, <1>5, <3>1, <4>1
    <3>4. (Lay[m].of \in Seen /\ \A i \in 1 .. n : visits'[i].at # Lay[m].of) <=> Left
      BY <1>9
    <3>5. Past(m)' <=>
            \/ \E i \in 1 .. n : /\ LiesOn(Lay, m, visits'[i].at, visits'[i].path)
                                 /\ Lay[m].at <= visits'[i].rounds + (IF i < n THEN 1 ELSE 0)
            \/ \E i \in 1 .. n : LiesOn(Lay, m, visits'[i].at, "true") /\ visits'[i].path = "false"
            \/ Lay[m].of \in Seen /\ \A i \in 1 .. n : visits'[i].at # Lay[m].of
      BY <1>8, <1>12, Same DEF Past
    <3> QED  BY <3>2, <3>3, <3>4, <3>5
  <2> QED  BY <2>3, <2>4
<1> QED
  <2>1. NestedBy(cfg, Lay)'  BY Same DEF Sound
  <2>2. (\A m \in Nodes : m \in Seen <=> Past(m))'  BY <1>12, <1>13, Same DEF Sound
  <2> QED  BY <1>10, <1>11, <1>12, <2>1, <2>2 DEF Sound

\* The loop on the last path of a split or head is left at the end of the path.
LEMMA LeaveKeeps ==
  ASSUME Sound, UNCHANGED <<fn, cfg>>, NEW next,
         K(Inmost.cur) \in Closers, Inmost.path \in {"false", "loop"},
         Comes(cfg, Lay, next, Lay[Inmost.at].of, Lay[Inmost.at].path, Lay[Inmost.at].at),
         visits' = GoesOn(Front(visits), next), visited' = Append(visited, Inmost.cur)
  PROVE  Sound'
<1>1. PICK n : n = Len(visits)  OBVIOUS
<1>2. PICK cur : cur = Inmost.cur  OBVIOUS
<1>3. PICK v : v = visits[n]  OBVIOUS
<1>4. /\ n \in Nat \ {0} /\ n \in 1 .. n /\ Inmost = v /\ cur \in Nodes /\ v.cur = cur
      /\ visits \in Seq(Visits) /\ visits # <<>>
      /\ v.path \in {"false", "loop"} /\ v.rounds \in Nat
  BY <1>1, <1>2, <1>3, Innermost DEF Sound, Typed
<1>5. n > 1  BY <1>3, <1>4 DEF Sound, Standing
<1>6. /\ n - 1 \in Nat \ {0} /\ (n - 1) + 1 = n /\ 1 \in 1 .. n - 1 /\ n - 1 \in 1 .. n - 1
      /\ (n - 1) - 1 = n - 2
      /\ \A i \in 1 .. n - 1 : i \in 1 .. n /\ i < n /\ (i \in 1 .. n - 2 \/ i = n - 1)
      /\ \A i \in 1 .. n - 2 : i \in 1 .. n - 1 /\ i \in 1 .. n /\ i < n - 1 /\ i < n
      /\ \A i \in 1 .. n : i \in 1 .. n - 1 \/ i = n
      /\ \A i \in 1 .. n - 1 : i > 1 => i - 1 \in 1 .. n - 2
  BY <1>4, <1>5
<1>7. PICK u : u = visits[n - 1]  OBVIOUS
<1>8. PICK s : s = u.cur  OBVIOUS
<1>9. /\ s \in Nodes /\ s \in Seen /\ K(s) \in Openers /\ v.at = s
      /\ Lay[s].of = u.at /\ Lay[s].path = u.path /\ Lay[s].at = u.rounds + 1
      /\ u.rounds \in Nat /\ u.path # "end"
      /\ \E p \in Paths : p[1] = K(s) /\ p[2] = v.path
  <2>1. /\ s \in Nodes /\ s \in Seen /\ K(s) \in Openers /\ v.at = s
    BY <1>1, <1>3, <1>6, <1>7, <1>8, Opened
  <2>2. K(s) \notin Closers  BY <2>1 DEF Openers, Closers
  <2>3. \E p \in Paths : p[1] = K(v.at) /\ p[2] = v.path
    BY <1>1, <1>3, <1>4, <1>5 DEF Sound, Standing
  <2>4. n - 1 \in 1 .. Len(visits) /\ visits[n - 1] = u /\ u.cur = s  BY <1>1, <1>6, <1>7, <1>8
  <2>5. Lay[s].of = u.at /\ Lay[s].path = u.path /\ Lay[s].at = u.rounds + 1
    BY <2>2, <2>4, Stands DEF Sound
  <2>6. u.rounds \in Nat /\ u.path # "end"  BY <2>4, Innermost DEF Sound
  <2> QED  BY <2>1, <2>3, <2>5, <2>6
<1>10. next \in Nodes  BY ComesInside DEF Sound
<1>11. /\ visits' \in Seq(Visits) /\ visits' # <<>> /\ Len(visits') = n - 1
       /\ \A i \in 1 .. n - 2 : visits'[i] = visits[i]
       /\ visits'[n - 1] = [path |-> u.path, at |-> u.at, cur |-> next, rounds |-> u.rounds + 1]
  <2>1. /\ Front(visits) \in Seq(Visits) /\ Len(Front(visits)) = n - 1
        /\ \A i \in 1 .. n - 1 : Front(visits)[i] = visits[i]
    BY <1>1, <1>4, Popped
  <2>2. PICK loops : loops = Front(visits)  OBVIOUS
  <2>3. /\ loops \in Seq(Visits) /\ loops # <<>> /\ Len(loops) = n - 1
        /\ visits' = GoesOn(loops, next)
    BY <1>6, <2>1, <2>2
  <2>4. /\ visits' \in Seq(Visits) /\ visits' # <<>> /\ Len(visits') = n - 1
        /\ \A i \in 1 .. (n - 1) - 1 : visits'[i] = loops[i]
        /\ visits'[n - 1] = [path |-> loops[n - 1].path, at |-> loops[n - 1].at, cur |-> next,
                             rounds |-> loops[n - 1].rounds + 1]
    BY <1>10, <2>3, WentOn
  <2>5. loops[n - 1] = u /\ \A i \in 1 .. n - 2 : loops[i] = visits[i]
    BY <1>6, <1>7, <2>1, <2>2
  <2> QED  BY <1>6, <2>4, <2>5
<1>12. \A i \in 1 .. n - 1 : visits'[i].path = visits[i].path /\ visits'[i].at = visits[i].at
  BY <1>6, <1>7, <1>11
<1>13. Typed'  BY <1>11, Same, Added DEF Typed, Sound
<1>14. Standing'
  <2>1. \A i \in 1 .. n - 1 :
          Comes(cfg, Lay, visits'[i].cur, visits'[i].at, visits'[i].path, visits'[i].rounds)
    <3>1. \A i \in 1 .. n - 2 :
            Comes(cfg, Lay, visits[i].cur, visits[i].at, visits[i].path, visits[i].rounds)
      BY <1>1, <1>6 DEF Sound, Standing
    <3>2. Comes(cfg, Lay, next, u.at, u.path, u.rounds + 1)  BY <1>4, <1>9
    <3>3. \A i \in 1 .. n - 2 : visits'[i] = visits[i]  BY <1>11
    <3>4. Comes(cfg, Lay, visits'[n - 1].cur, visits'[n - 1].at, visits'[n - 1].path,
                visits'[n - 1].rounds)
      BY <1>11, <3>2
    <3>5. \A i \in 1 .. n - 1 : i \in 1 .. n - 2 \/ i = n - 1  BY <1>6
    <3> QED  BY <3>1, <3>3, <3>4, <3>5
  <2>2. \A i \in 1 .. n - 1 : i > 1 =>
          /\ visits'[i].at = visits'[i - 1].cur
          /\ Lay[visits'[i].at].depth = i - 2 /\ visits'[i].path # "main"
          /\ \E p \in Paths : p[1] = K(visits'[i].at) /\ p[2] = visits'[i].path
    <3>1. \A i \in 1 .. n - 1 : i > 1 =>
            /\ visits[i].at = visits[i - 1].cur
            /\ Lay[visits[i].at].depth = i - 2 /\ visits[i].path # "main"
            /\ \E p \in Paths : p[1] = K(visits[i].at) /\ p[2] = visits[i].path
      BY <1>1, <1>6 DEF Sound, Standing
    <3>2. \A i \in 1 .. n - 1 : i > 1 => visits'[i - 1] = visits[i - 1]  BY <1>6, <1>11
    <3> QED  BY <1>12, <3>1, <3>2
  <2>3. visits'[1].path = "main" /\ visits'[1].at = Nowhere
    BY <1>6, <1>12 DEF Sound, Standing
  <2> QED  BY <1>11, <2>1, <2>2, <2>3, Same DEF Standing, K
<1>15. Lay[cur].of = s /\ Lay[cur].path = "end"  BY <1>1, <1>2, <1>3, <1>4, <1>9, Stands DEF Sound
<1>16. ASSUME NEW m \in Nodes PROVE Past(m)' <=> Past(m) \/ m = cur
  <2> DEFINE Outer == \E i \in 1 .. n - 2 : /\ LiesOn(Lay, m, visits[i].at, visits[i].path)
                                            /\ Lay[m].at <= visits[i].rounds + 1
             Under == LiesOn(Lay, m, u.at, u.path) /\ Lay[m].at <= u.rounds + 1
             True == \E i \in 1 .. n - 1 :
                       LiesOn(Lay, m, visits[i].at, "true") /\ visits[i].path = "false"
             Left == Lay[m].of \in Seen /\ \A i \in 1 .. n : visits[i].at # Lay[m].of
             Inner == LiesOn(Lay, m, s, v.path) \/ (LiesOn(Lay, m, s, "true") /\ v.path = "false")
  <2>1. HasPlace(m) /\ Nowhere \notin Nodes /\ K(cur) \notin Openers
    BY <1>2, <1>4, Places DEF Sound, Openers, Closers, Nodes
  <2>2. LiesOn(Lay, m, s, v.path) => Lay[m].at <= v.rounds
    BY <1>1, <1>2, <1>3, <1>4, <1>9, Stands DEF Sound
  <2>3. Past(m) <=> Outer \/ Under \/ Inner \/ True \/ Left
    <3>1. v.rounds + (IF n < n THEN 1 ELSE 0) = v.rounds  BY <1>4
    <3>2. (\E i \in 1 .. n : /\ LiesOn(Lay, m, visits[i].at, visits[i].path)
                             /\ Lay[m].at <= visits[i].rounds + (IF i < n THEN 1 ELSE 0))
          <=> Outer \/ Under \/ LiesOn(Lay, m, s, v.path)
      <4>1. (\E i \in 1 .. n : /\ LiesOn(Lay, m, visits[i].at, visits[i].path)
                               /\ Lay[m].at <= visits[i].rounds + (IF i < n THEN 1 ELSE 0))
            <=> \/ \E i \in 1 .. n - 1 : /\ LiesOn(Lay, m, visits[i].at, visits[i].path)
                                         /\ Lay[m].at <= visits[i].rounds + 1
                \/ LiesOn(Lay, m, s, v.path) /\ Lay[m].at <= v.rounds
        BY <1>3, <1>4, <1>6, <1>9, <3>1
      <4>2. (\E i \in 1 .. n - 1 : /\ LiesOn(Lay, m, visits[i].at, visits[i].path)
                                   /\ Lay[m].at <= visits[i].rounds + 1)
            <=> Outer \/ Under
        BY <1>6, <1>7
      <4> QED  BY <2>2, <4>1, <4>2
    <3>3. (\E i \in 1 .. n : LiesOn(Lay, m, visits[i].at, "true") /\ visits[i].path = "false")
          <=> True \/ (LiesOn(Lay, m, s, "true") /\ v.path = "false")
      BY <1>3, <1>4, <1>6, <1>9
    <3> QED  BY <1>1, <3>2, <3>3 DEF Past
  <2>4. Past(m)' <=> \/ Outer \/ Under \/ True
                     \/ Lay[m].of \in Seen' /\ \A i \in 1 .. n - 1 : visits[i].at # Lay[m].of
    <3>1. visits'[n - 1].rounds + (IF n - 1 < n - 1 THEN 1 ELSE 0) = u.rounds + 1
      BY <1>6, <1>9, <1>11
    <3>2. (\E i \in 1 .. n - 1 : /\ LiesOn(Lay, m, visits'[i].at, visits'[i].path)
                                 /\ Lay[m].at <= visits'[i].rounds + (IF i < n - 1 THEN 1 ELSE 0))
          <=> Outer \/ Under
      <4>1. \A i \in 1 .. n - 2 :
              visits'[i].rounds + (IF i < n - 1 THEN 1 ELSE 0) = visits[i].rounds + 1
        BY <1>6, <1>11
      <4>2. visits'[n - 1].at = u.at /\ visits'[n - 1].path = u.path  BY <1>11
      <4> QED  BY <1>6, <1>12, <3>1, <4>1, <4>2
    <3>3. (\E i \in 1 .. n - 1 : LiesOn(Lay, m, visits'[i].at, "true") /\ visits'[i].path = "false")
          <=> True
      BY <1>12
    <3>4. (\A i \in 1 .. n - 1 : visits'[i].at # Lay[m].of)
          <=> \A i \in 1 .. n - 1 : visits[i].at # Lay[m].of
      BY <1>12
    <3>5. Past(m)' <=>
            \/ \E i \in 1 .. n - 1 : /\ LiesOn(Lay, m, visits'[i].at, visits'[i].path)
                                     /\ Lay[m].at <= visits'[i].rounds + (IF i < n - 1 THEN 1 ELSE 0)
            \/ \E i \in 1 .. n - 1 : LiesOn(Lay, m, visits'[i].at, "true") /\ visits'[i].path = "false"
            \/ Lay[m].of \in Seen' /\ \A i \in 1 .. n - 1 : visits'[i].at # Lay[m].of
      BY <1>11, Same DEF Past
    <3> QED  BY <3>2, <3>3, <3>4, <3>5
  <2>5. (Lay[m].of \in Seen' /\ \A i \in 1 .. n - 1 : visits[i].at # Lay[m].of)
        <=> Left \/ Lay[m].of = s
    <3>1. Lay[m].of # cur  BY <1>4, <2>1 DEF HasPlace
    <3>2. Lay[m].of \in Seen' <=> Lay[m].of \in Seen  BY <1>2, <3>1, Added
    <3>3. \A i \in 1 .. n - 1 : visits[i].at # s
      BY <1>1, <1>3, <1>4, <1>6, <1>9, Apart DEF Sound
    <3> QED  BY <1>3, <1>4, <1>6, <1>9, <3>2, <3>3
  <2>6. Lay[m].of = s <=> Inner \/ m = cur
    <3>1. Lay[m].of = s /\ Lay[m].path = "end" => m = cur
      BY <1>4, <1>15, Unique DEF Sound, LiesOn
    <3>2. /\ K(s) = "BranchSplit" => v.path = "false"
          /\ K(s) = "LoopHead" => v.path = "loop"
      BY <1>4, <1>9 DEF Paths
    <3>3. Lay[m].of = s /\ Lay[m].path # "end" => Inner
      <4> SUFFICES ASSUME Lay[m].of = s, Lay[m].path # "end" PROVE Inner
        OBVIOUS
      <4>1. s # Nowhere  BY <1>9, <2>1
      <4>2. /\ K(s) = "BranchSplit" => Lay[m].path \in {"true", "false"}
            /\ K(s) = "LoopHead" => Lay[m].path = "loop"
        BY <2>1, <4>1 DEF HasPlace
      <4> QED  BY <1>9, <3>2, <4>2 DEF LiesOn, Openers
    <3>4. Inner => Lay[m].of = s  BY DEF LiesOn
    <3> QED  BY <1>15, <3>1, <3>3, <3>4
  <2> HIDE DEF Outer, Under, True, Left, Inner
  <2> QED  BY <2>3, <2>4, <2>5, <2>6
<1>17. \A m \in Nodes : m \in Seen' <=> Past(m)'  BY <1>2, <1>16, Added DEF Sound
<1> QED
  <2>1. NoneTwice' /\ NestedBy(cfg, Lay)'  BY Added, Same DEF Sound
  <2>2. (\A m \in Nodes : m \in Seen <=> Past(m))'  BY <1>17, Same
  <2> QED  BY <1>13, <1>14, <2>1, <2>2 DEF Sound

\* When the end is the current node all the others were visited: a node that was
\* not would lie on a path of another one, up to the main path.
LEMMA AllButEnd ==
  ASSUME Sound, K(Inmost.cur) = "End"
  PROVE  /\ \A i \in 1 .. Len(visits) : visits[i].path = "main"
         /\ \A n \in Nodes : n \in Seen \/ n = Inmost.cur
<1>1. PICK n : n = Len(visits)  OBVIOUS
<1>2. PICK cur : cur = Inmost.cur  OBVIOUS
<1>3. /\ n \in Nat \ {0} /\ n \in 1 .. n /\ Inmost = visits[n] /\ visits[n].cur = cur /\ cur \in Nodes
  BY <1>1, <1>2, Innermost DEF Sound
<1>4. Lay[cur].of = Nowhere /\ Lay[cur].path = "end" /\ Lay[cur].of = visits[n].at
  <2>1. HasPlace(cur) /\ K(cur) \in Closers  BY <1>2, <1>3, Places DEF Sound, Closers
  <2> QED  BY <1>1, <1>2, <1>3, <2>1, Stands DEF HasPlace, Sound
<1>5. n = 1
  <2>1. n > 1 => visits[n].at = visits[n - 1].cur /\ n - 1 \in 1 .. n
    BY <1>1, <1>3 DEF Sound, Standing
  <2>2. n > 1 => visits[n].at \in Nodes  BY <1>1, <2>1, Innermost DEF Sound
  <2>3. Nowhere \notin Nodes  BY Places DEF Sound
  <2> QED  BY <1>3, <1>4, <2>2, <2>3
<1>6. visits[1].path = "main" /\ visits[1].at = Nowhere  BY DEF Sound, Standing
<1>7. \A i \in 1 .. n : i = 1  BY <1>5
<1>8. ASSUME NEW m \in Nodes, m \notin Seen, m # cur,
             \A k \in Nodes : k \notin Seen /\ k # cur => Lay[k].depth >= Lay[m].depth
      PROVE  FALSE
  <2>1. HasPlace(m) /\ Nowhere \notin Nodes  BY Places DEF Sound
  <2>2. CASE Lay[m].of = Nowhere
    <3>1. Lay[m].path = "end" => m = cur
      BY <1>3, <1>4, <2>2, Unique DEF Sound, LiesOn
    <3>2. LiesOn(Lay, m, visits[1].at, visits[1].path)
      BY <1>6, <1>8, <2>1, <2>2, <3>1 DEF LiesOn, HasPlace
    <3>3. Lay[m].at <= visits[1].rounds
      <4>1. 1 \in 1 .. Len(visits) /\ K(visits[1].cur) \in Closers
        BY <1>1, <1>2, <1>3, <1>5 DEF Closers
      <4> QED  BY <3>2, <4>1, Stands DEF Sound
    <3>4. visits[1].rounds + (IF 1 < 1 THEN 1 ELSE 0) = visits[1].rounds
      BY <1>1, <1>3, <1>5, Innermost DEF Sound
    <3>5. Past(m)  BY <1>1, <1>3, <1>5, <3>2, <3>3, <3>4 DEF Past
    <3> QED  BY <1>8, <3>5 DEF Sound
  <2>3. CASE Lay[m].of # Nowhere
    <3>1. PICK o \in Nodes : o = Lay[m].of /\ K(o) \in Openers /\ Lay[m].depth = Lay[o].depth + 1
      BY <2>1, <2>3 DEF HasPlace
    <3>2. Lay[o].depth \in Nat  BY Places DEF Sound, HasPlace
    <3>3. ~(Lay[o].depth >= Lay[m].depth)  BY <3>1, <3>2
    <3>4. o # cur  BY <1>2, <3>1 DEF Openers
    <3>5. o \in Seen  BY <1>8, <3>3, <3>4
    <3>6. \A i \in 1 .. n : visits[i].at # o  BY <1>6, <1>7, <2>1, <3>1
    <3>7. Past(m)  BY <1>1, <3>1, <3>5, <3>6 DEF Past
    <3> QED  BY <1>8, <3>7 DEF Sound
  <2> QED  BY <2>2, <2>3
<1>9. ASSUME NEW k \in Nodes, k \notin Seen, k # cur PROVE FALSE
  <2> DEFINE less == {p \in Nat \X Nat : p[1] < p[2]}
             T == {Lay[m].depth : m \in {j \in Nodes : j \notin Seen /\ j # cur}}
  <2>1. IsWellFoundedOn(less, Nat)  BY NatLessThanWellFounded DEF OpToRel
  <2>2. T \subseteq Nat /\ T # {}
    <3>1. \A m \in Nodes : Lay[m].depth \in Nat  BY Places DEF Sound, HasPlace
    <3> QED  BY <1>9, <3>1
  <2>3. PICK d \in T : \A e \in T : <<e, d>> \notin less
    <3> HIDE DEF T, less
    <3> QED  BY <2>1, <2>2, WFMin
  <2>4. PICK m \in Nodes : m \notin Seen /\ m # cur /\ d = Lay[m].depth  BY <2>3
  <2>5. ASSUME NEW j \in Nodes, j \notin Seen, j # cur PROVE Lay[j].depth >= Lay[m].depth
    <3>1. Lay[j].depth \in T /\ Lay[j].depth \in Nat /\ d \in Nat  BY <2>2, <2>3, <2>5
    <3>2. <<Lay[j].depth, d>> \notin less  BY <2>3, <3>1
    <3>3. ~(Lay[j].depth < d)  BY <3>1, <3>2
    <3> QED  BY <2>4, <3>1, <3>3
  <2> HIDE DEF T, less
  <2> QED  BY <1>8, <2>4, <2>5
<1> QED  BY <1>1, <1>2, <1>6, <1>7, <1>9

=============================================================================
