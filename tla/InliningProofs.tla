--------------------------- MODULE InliningProofs ---------------------------
(***************************************************************************)
(* Proofs about the later passes of the byte code generator, for every     *)
(* function without a continue: however its loops and branches are nested, *)
(* the code the passes lay out is what the executor relies on.             *)
(***************************************************************************)
EXTENDS CodeFlow, Inlining, FiniteSetTheorems, SequenceTheorems, WellFoundedInduction, TLAPS

-----------------------------------------------------------------------------
(* Naturals and sequences. *)

LEMMA Induct ==
  ASSUME NEW S, 0 \in S, \A n \in Nat : n \in S => n + 1 \in S
  PROVE  \A n \in Nat : n \in S
<1> DEFINE less == OpToRel(<, Nat)
           Bad == {n \in Nat : n \notin S}
<1>1. IsWellFoundedOn(less, Nat)  BY NatLessThanWellFounded DEF OpToRel
<1>2. \A m, n \in Nat : m < n => <<m, n>> \in less  BY DEF OpToRel
<1> HIDE DEF less
<1> SUFFICES ASSUME Bad # {} PROVE FALSE  OBVIOUS
<1>3. PICK m \in Bad : \A n \in Bad : ~(<<n, m>> \in less)  BY <1>1, WFMin
<1>4. m \in Nat /\ m # 0 /\ m - 1 \in Nat /\ m = (m - 1) + 1 /\ m - 1 < m  BY <1>3
<1> QED  BY <1>2, <1>3, <1>4

LEMMA SeqOfAny ==
  ASSUME NEW S, NEW s \in Seq(S)
  PROVE  IsSeq(s)
BY DEF IsSeq, ToSet

LEMMA LenOfAny ==
  ASSUME NEW s, IsSeq(s)
  PROVE  Len(s) \in Nat /\ DOMAIN s = 1 .. Len(s)
BY DEF IsSeq

LEMMA Concat ==
  ASSUME NEW s, NEW t, IsSeq(s), IsSeq(t)
  PROVE  /\ IsSeq(s \o t) /\ Len(s \o t) = Len(s) + Len(t)
         /\ \A i \in 1 .. Len(s) : (s \o t)[i] = s[i]
         /\ \A i \in 1 .. Len(t) : (s \o t)[Len(s) + i] = t[i]
         /\ \A i \in Len(s) + 1 .. Len(s) + Len(t) : (s \o t)[i] = t[i - Len(s)]
<1> DEFINE S == ToSet(s) \cup ToSet(t)
<1>1. s \in Seq(S) /\ t \in Seq(S)  BY DEF IsSeq
<1> HIDE DEF S
<1>2. Len(s) \in Nat /\ Len(t) \in Nat  BY <1>1
<1>3. PICK v : v = s \o t  OBVIOUS
<1>4. /\ v \in Seq(S) /\ Len(v) = Len(s) + Len(t)
      /\ \A i \in 1 .. Len(s) + Len(t) : v[i] = IF i <= Len(s) THEN s[i] ELSE t[i - Len(s)]
  BY <1>1, <1>3, ConcatProperties
<1>5. IsSeq(v)  BY <1>4, SeqOfAny
<1>6. \A i \in 1 .. Len(s) : v[i] = s[i]  BY <1>2, <1>4
<1>7. \A i \in Len(s) + 1 .. Len(s) + Len(t) : v[i] = t[i - Len(s)]  BY <1>2, <1>4
<1>8. \A i \in 1 .. Len(t) : v[Len(s) + i] = t[i]  
  <2> TAKE i \in 1 .. Len(t)
  <2>1. Len(s) + i \in Len(s) + 1 .. Len(s) + Len(t) /\ (Len(s) + i) - Len(s) = i  BY <1>2
  <2> QED  BY <1>7, <2>1
<1> QED  BY <1>3, <1>4, <1>5, <1>6, <1>7, <1>8

LEMMA Empty == IsSeq(<<>>) /\ Len(<<>>) = 0
BY DEF IsSeq

LEMMA Lone ==
  ASSUME NEW x
  PROVE  IsSeq(<<x>>) /\ Len(<<x>>) = 1 /\ <<x>>[1] = x /\ DOMAIN <<x>> = {1}
<1>1. <<x>> \in Seq({x})  OBVIOUS
<1>2. Len(<<x>>) = 1 /\ <<x>>[1] = x /\ DOMAIN <<x>> = 1 .. 1 /\ 1 .. 1 = {1}  OBVIOUS
<1> QED  BY <1>1, <1>2, SeqOfAny

LEMMA ConcatEmpty ==
  ASSUME NEW s, IsSeq(s)
  PROVE  s \o <<>> = s /\ <<>> \o s = s
BY ConcatEmptySeq DEF IsSeq

LEMMA Associative ==
  ASSUME NEW s, NEW t, NEW u, IsSeq(s), IsSeq(t), IsSeq(u)
  PROVE  (s \o t) \o u = s \o (t \o u)
<1> DEFINE S == ToSet(s) \cup ToSet(t) \cup ToSet(u)
<1>1. s \in Seq(S) /\ t \in Seq(S) /\ u \in Seq(S)  BY DEF IsSeq
<1> HIDE DEF S
<1> QED  BY <1>1, ConcatAssociative

-----------------------------------------------------------------------------
(* Flattening, one sequence at a time. *)

Pieces(seqs) == IsSeq(seqs) /\ \A i \in 1 .. Len(seqs) : IsSeq(seqs[i])

\* f[k]: the first k of the sequences, up to the n-th.
IsFlat(seqs, n, f) ==
  f = [k \in 0 .. n |-> IF k = 0 THEN <<>> ELSE f[k - 1] \o seqs[k]]

LEMMA FlatExists ==
  ASSUME NEW seqs, Pieces(seqs)
  PROVE  \E f : IsFlat(seqs, Len(seqs), f)
<1> DEFINE S == {n \in Nat : \E f : IsFlat(seqs, n, f)}
<1>1. 0 \in S
  <2> DEFINE f == [k \in 0 .. 0 |-> <<>>]
  <2>1. IsFlat(seqs, 0, f)  BY DEF IsFlat
  <2> QED  BY <2>1
<1>2. ASSUME NEW n \in Nat, n \in S PROVE n + 1 \in S
  <2>1. PICK f : IsFlat(seqs, n, f)  BY <1>2
  <2> DEFINE x == f[n] \o seqs[n + 1]
             h == [k \in 0 .. n + 1 |-> IF k <= n THEN f[k] ELSE x]
  <2> HIDE DEF x
  <2>2. \A k \in 0 .. n : h[k] = f[k]  OBVIOUS
  <2>3. h[n + 1] = x  OBVIOUS
  <2>4. \A k \in 0 .. n : h[k] = IF k = 0 THEN <<>> ELSE h[k - 1] \o seqs[k]
    <3> TAKE k \in 0 .. n
    <3>1. f[k] = IF k = 0 THEN <<>> ELSE f[k - 1] \o seqs[k]  BY <2>1 DEF IsFlat
    <3>2. k # 0 => k - 1 \in 0 .. n  OBVIOUS
    <3> QED  BY <2>2, <3>1, <3>2
  <2>5. h[n + 1] = h[n] \o seqs[n + 1]  BY <2>2, <2>3 DEF x
  <2>6. \A k \in 0 .. n + 1 : h[k] = IF k = 0 THEN <<>> ELSE h[k - 1] \o seqs[k]
    <3> TAKE k \in 0 .. n + 1
    <3>1. k \in 0 .. n \/ (k = n + 1 /\ k # 0 /\ k - 1 = n)  OBVIOUS
    <3> QED  BY <2>4, <2>5, <3>1
  <2>7. DOMAIN h = 0 .. n + 1  OBVIOUS
  <2>8. h = [k \in 0 .. n + 1 |-> h[k]]  BY <2>7
  <2> HIDE DEF h
  <2>9. IsFlat(seqs, n + 1, h)
    <3>1. h = [k \in 0 .. n + 1 |-> IF k = 0 THEN <<>> ELSE h[k - 1] \o seqs[k]]
      BY <2>6, <2>8
    <3> QED  BY <3>1 DEF IsFlat
  <2> QED  BY <2>9
<1>3. \A n \in Nat : n \in S
  <2> HIDE DEF S
  <2> QED  BY <1>1, <1>2, Induct
<1> QED  BY <1>3 DEF Pieces, IsSeq

Flats(seqs) == CHOOSE f : IsFlat(seqs, Len(seqs), f)

LEMMA FlatSteps ==
  ASSUME NEW seqs, Pieces(seqs)
  PROVE  /\ Flats(seqs)[0] = <<>>
         /\ \A k \in 1 .. Len(seqs) : Flats(seqs)[k] = Flats(seqs)[k - 1] \o seqs[k]
         /\ \A k \in 0 .. Len(seqs) : IsSeq(Flats(seqs)[k])
<1>1. PICK f : f = Flats(seqs)  OBVIOUS
<1>2. PICK n : n = Len(seqs)  OBVIOUS
<1>3. n \in Nat  BY <1>2 DEF Pieces, IsSeq
<1>4. IsFlat(seqs, n, f)  BY <1>1, <1>2, FlatExists DEF Flats
<1>5. \A k \in 0 .. n : f[k] = IF k = 0 THEN <<>> ELSE f[k - 1] \o seqs[k]
  BY <1>4 DEF IsFlat
<1>6. f[0] = <<>> /\ \A k \in 1 .. n : f[k] = f[k - 1] \o seqs[k]
  <2>1. 0 \in 0 .. n /\ \A k \in 1 .. n : k \in 0 .. n /\ k # 0  BY <1>3
  <2> QED  BY <1>5, <2>1
<1> DEFINE S == {k \in Nat : k <= n => IsSeq(f[k])}
<1>7. 0 \in S  BY <1>6, Empty
<1>8. ASSUME NEW k \in Nat, k \in S PROVE k + 1 \in S
  <2> SUFFICES ASSUME k + 1 <= n PROVE IsSeq(f[k + 1])  OBVIOUS
  <2>1. k <= n /\ k + 1 \in 1 .. n /\ (k + 1) - 1 = k  BY <1>3
  <2>2. IsSeq(f[k]) /\ IsSeq(seqs[k + 1])  BY <1>2, <1>8, <2>1 DEF Pieces
  <2>3. f[k + 1] = f[k] \o seqs[k + 1]  BY <1>6, <2>1
  <2> QED  BY <2>2, <2>3, Concat
<1>9. \A k \in Nat : k \in S
  <2> HIDE DEF S
  <2> QED  BY <1>7, <1>8, Induct
<1>10. \A k \in 0 .. n : IsSeq(f[k])  BY <1>3, <1>9
<1> QED  BY <1>1, <1>2, <1>6, <1>10

\* What FlattenSeq ends with.
LEMMA FlatEnd ==
  ASSUME NEW seqs, Pieces(seqs)
  PROVE  FlattenSeq(seqs) = Flats(seqs)[Len(seqs)]
<1>1. PICK f : f = Flats(seqs)  OBVIOUS
<1>2. PICK n : n = Len(seqs)  OBVIOUS
<1>3. n \in Nat  BY <1>2 DEF Pieces, IsSeq
<1>4. f[0] = <<>> /\ \A k \in 1 .. n : f[k] = f[k - 1] \o seqs[k]
  BY <1>1, <1>2, FlatSteps
<1>5. CASE n = 0
  <2>1. seqs = <<>>  BY <1>2, <1>5, EmptySeq DEF Pieces, IsSeq
  <2>2. FlattenSeq(seqs) = <<>>  BY <2>1 DEF FlattenSeq
  <2> QED  BY <1>1, <1>2, <1>4, <1>5, <2>2
<1>6. CASE n # 0
  <2> DEFINE Is(g) == g = [i \in 1 .. n |-> IF i = 1 THEN seqs[i] ELSE g[i - 1] \o seqs[i]]
  <2>1. \E g : Is(g)
    <3> DEFINE h == [i \in 1 .. n |-> f[i]]
    <3>1. f[1] = seqs[1]
      <4>1. 1 \in 1 .. n /\ 1 - 1 = 0  BY <1>3, <1>6
      <4>2. f[1] = <<>> \o seqs[1] /\ IsSeq(seqs[1])  BY <1>2, <1>4, <4>1 DEF Pieces
      <4> QED  BY <4>2, ConcatEmpty
    <3>2. \A i \in 1 .. n : h[i] = IF i = 1 THEN seqs[i] ELSE h[i - 1] \o seqs[i]
      <4> TAKE i \in 1 .. n
      <4>1. i # 1 => i - 1 \in 1 .. n  BY <1>3
      <4> QED  BY <1>4, <3>1, <4>1
    <3>3. h = [i \in 1 .. n |-> h[i]]  OBVIOUS
    <3> HIDE DEF h
    <3>4. h = [i \in 1 .. n |-> IF i = 1 THEN seqs[i] ELSE h[i - 1] \o seqs[i]]
      BY <3>2, <3>3
    <3> QED  BY <3>4
  <2>2. PICK g : g = (CHOOSE h : Is(h))  OBVIOUS
  <2>3. Is(g)  BY <2>1, <2>2
  <2>4. FlattenSeq(seqs) = g[n]  BY <1>2, <1>6, <2>2 DEF FlattenSeq
  <2>5. \A i \in 1 .. n : g[i] = IF i = 1 THEN seqs[i] ELSE g[i - 1] \o seqs[i]
    BY <2>3
  <2> DEFINE S == {k \in Nat : k + 1 <= n => g[k + 1] = f[k + 1]}
  <2> HIDE DEF Is
  <2>6. 0 \in S
    <3>1. 1 \in 1 .. n /\ 1 - 1 = 0 /\ 0 + 1 = 1  BY <1>3, <1>6
    <3>2. f[1] = <<>> \o seqs[1] /\ IsSeq(seqs[1])  BY <1>2, <1>4, <3>1 DEF Pieces
    <3>3. f[1] = seqs[1] /\ g[1] = seqs[1]  BY <2>5, <3>1, <3>2, ConcatEmpty
    <3> QED  BY <3>1, <3>3
  <2>7. ASSUME NEW k \in Nat, k \in S PROVE k + 1 \in S
    <3> SUFFICES ASSUME (k + 1) + 1 <= n PROVE g[(k + 1) + 1] = f[(k + 1) + 1]  OBVIOUS
    <3>1. /\ (k + 1) + 1 \in 1 .. n /\ (k + 1) + 1 # 1 /\ ((k + 1) + 1) - 1 = k + 1
          /\ k + 1 <= n
      BY <1>3
    <3>2. g[k + 1] = f[k + 1]  BY <2>7, <3>1
    <3>3. g[(k + 1) + 1] = g[k + 1] \o seqs[(k + 1) + 1]  BY <2>5, <3>1
    <3>4. f[(k + 1) + 1] = f[k + 1] \o seqs[(k + 1) + 1]  BY <1>4, <3>1
    <3> QED  BY <3>2, <3>3, <3>4
  <2>8. \A k \in Nat : k \in S
    <3> HIDE DEF S
    <3> QED  BY <2>6, <2>7, Induct
  <2>9. n - 1 \in Nat /\ (n - 1) + 1 = n  BY <1>3, <1>6
  <2>10. g[n] = f[n]  BY <2>8, <2>9
  <2> QED  BY <1>1, <1>2, <2>4, <2>10
<1> QED  BY <1>5, <1>6

LEMMA FlatLone ==
  ASSUME NEW x, IsSeq(x)
  PROVE  FlattenSeq(<<x>>) = x
<1>1. PICK s : s = <<x>>  OBVIOUS
<1>2. IsSeq(s) /\ Len(s) = 1 /\ s[1] = x  BY <1>1, Lone
<1>3. Pieces(s)  BY <1>2 DEF Pieces
<1>4. 1 \in 1 .. 1 /\ 1 - 1 = 0  OBVIOUS
<1>5. Flats(s)[1] = <<>> \o x  BY <1>2, <1>3, <1>4, FlatSteps, ZenonT(60)
<1>6. FlattenSeq(s) = <<>> \o x  BY <1>2, <1>3, <1>5, FlatEnd
<1> QED  BY <1>1, <1>6, ConcatEmpty

LEMMA FlatConcat ==
  ASSUME NEW a, NEW b, Pieces(a), Pieces(b)
  PROVE  /\ Pieces(a \o b)
         /\ FlattenSeq(a \o b) = FlattenSeq(a) \o FlattenSeq(b)
<1>1. PICK c : c = a \o b  OBVIOUS
<1>2. PICK n : n = Len(a)  OBVIOUS
<1>3. PICK m : m = Len(b)  OBVIOUS
<1>4. /\ IsSeq(a) /\ IsSeq(b) /\ n \in Nat /\ m \in Nat
      /\ \A i \in 1 .. n : IsSeq(a[i])
      /\ \A i \in 1 .. m : IsSeq(b[i])
  BY <1>2, <1>3, LenOfAny DEF Pieces
<1>5. /\ IsSeq(c) /\ Len(c) = n + m
      /\ \A i \in 1 .. n : c[i] = a[i]
      /\ \A i \in 1 .. m : c[n + i] = b[i]
      /\ \A i \in n + 1 .. n + m : c[i] = b[i - n]
  BY <1>1, <1>2, <1>3, <1>4, Concat
<1>6. Pieces(c)
  <2>1. ASSUME NEW i \in 1 .. n + m PROVE IsSeq(c[i])
    <3>1. i \in 1 .. n \/ (i \in n + 1 .. n + m /\ i - n \in 1 .. m)  BY <1>4
    <3> QED  BY <1>4, <1>5, <3>1
  <2> QED  BY <1>5, <2>1 DEF Pieces
<1>7. PICK fa : fa = Flats(a)  OBVIOUS
<1>8. PICK fb : fb = Flats(b)  OBVIOUS
<1>9. PICK fc : fc = Flats(c)  OBVIOUS
<1>10. /\ fa[0] = <<>> /\ \A k \in 1 .. n : fa[k] = fa[k - 1] \o a[k]
       /\ \A k \in 0 .. n : IsSeq(fa[k])
  BY <1>2, <1>7, FlatSteps
<1>11. /\ fb[0] = <<>> /\ \A k \in 1 .. m : fb[k] = fb[k - 1] \o b[k]
       /\ \A k \in 0 .. m : IsSeq(fb[k])
  BY <1>3, <1>8, FlatSteps
<1>12. fc[0] = <<>> /\ \A k \in 1 .. n + m : fc[k] = fc[k - 1] \o c[k]
  BY <1>5, <1>6, <1>9, FlatSteps
<1>13. \A k \in 0 .. n : fc[k] = fa[k]
  <2> DEFINE S == {k \in Nat : k <= n => fc[k] = fa[k]}
  <2>1. 0 \in S  BY <1>10, <1>12
  <2>2. ASSUME NEW k \in Nat, k \in S PROVE k + 1 \in S
    <3> SUFFICES ASSUME k + 1 <= n PROVE fc[k + 1] = fa[k + 1]  OBVIOUS
    <3>1. k <= n /\ k + 1 \in 1 .. n /\ k + 1 \in 1 .. n + m /\ (k + 1) - 1 = k  BY <1>4
    <3>2. fc[k + 1] = fc[k] \o c[k + 1]  BY <1>12, <3>1
    <3>3. fa[k + 1] = fa[k] \o a[k + 1]  BY <1>10, <3>1
    <3>4. fc[k] = fa[k] /\ c[k + 1] = a[k + 1]  BY <1>5, <2>2, <3>1
    <3> QED  BY <3>2, <3>3, <3>4
  <2>3. \A k \in Nat : k \in S
    <3> HIDE DEF S
    <3> QED  BY <2>1, <2>2, Induct
  <2> QED  BY <1>4, <2>3
<1>14. n \in 0 .. n /\ fc[n] = fa[n] /\ IsSeq(fa[n])  BY <1>4, <1>10, <1>13
<1>15. \A k \in 0 .. m : fc[n + k] = fa[n] \o fb[k]
  <2>0. PICK f : f = [k \in Nat |-> fa[n] \o fb[k]]  OBVIOUS
  <2> DEFINE S == {k \in Nat : k <= m => fc[n + k] = f[k]}
  <2>1. 0 \in S
    <3>1. fa[n] \o fb[0] = fa[n]  BY <1>11, <1>14, ConcatEmpty
    <3>2. n + 0 = n  BY <1>4
    <3> QED  BY <1>14, <2>0, <3>1, <3>2
  <2>2. ASSUME NEW k \in Nat, k \in S PROVE k + 1 \in S
    <3> SUFFICES ASSUME k + 1 <= m PROVE fc[n + (k + 1)] = f[k + 1]  OBVIOUS
    <3>1. /\ k <= m /\ k \in 0 .. m /\ k + 1 \in 1 .. m /\ n + (k + 1) \in 1 .. n + m
          /\ (k + 1) - 1 = k /\ (n + (k + 1)) - 1 = n + k
      BY <1>4
    <3>2. fc[n + (k + 1)] = fc[n + k] \o c[n + (k + 1)]  BY <1>12, <3>1
    <3>3. fb[k + 1] = fb[k] \o b[k + 1]  BY <1>11, <3>1
    <3>4. fc[n + k] = fa[n] \o fb[k] /\ c[n + (k + 1)] = b[k + 1]
      BY <1>5, <2>0, <2>2, <3>1
    <3>5. IsSeq(fb[k]) /\ IsSeq(b[k + 1])  BY <1>4, <1>11, <3>1
    <3>6. (fa[n] \o fb[k]) \o b[k + 1] = fa[n] \o (fb[k] \o b[k + 1])
      <4> HIDE DEF S
      <4> PICK x : x = fa[n]  OBVIOUS
      <4> PICK y : y = fb[k]  OBVIOUS
      <4> PICK z : z = b[k + 1]  OBVIOUS
      <4>1. IsSeq(x) /\ IsSeq(y) /\ IsSeq(z)  BY <1>14, <3>5
      <4>2. (x \o y) \o z = x \o (y \o z)  BY ONLY <4>1, Associative, SMTT(60)
      <4> QED  BY <4>2, Zenon
    <3>7. f[k + 1] = fa[n] \o fb[k + 1]
      <4>1. \A j \in Nat : f[j] = fa[n] \o fb[j]  BY <2>0, Zenon
      <4>2. k + 1 \in Nat  OBVIOUS
      <4> QED  BY <4>1, <4>2, Zenon
    <3> QED  BY <3>2, <3>3, <3>4, <3>6, <3>7, Zenon
  <2>3. \A k \in Nat : k \in S
    <3> HIDE DEF S
    <3> QED  BY <2>1, <2>2, Induct
  <2>4. ASSUME NEW k \in 0 .. m PROVE fc[n + k] = fa[n] \o fb[k]
    <3>1. k \in Nat /\ k <= m  BY <1>4
    <3>2. fc[n + k] = f[k]  BY <2>3, <3>1
    <3> QED  BY <2>0, <3>1, <3>2
  <2> QED  BY <2>4
<1>16. m \in 0 .. m  BY <1>4
<1>17. fc[n + m] = fa[n] \o fb[m]  BY <1>15, <1>16
<1>18. FlattenSeq(c) = fc[n + m]  BY <1>5, <1>6, <1>9, FlatEnd
<1>19. FlattenSeq(a) = fa[n] /\ FlattenSeq(b) = fb[m]  BY <1>2, <1>3, <1>7, <1>8, FlatEnd
<1> QED  BY <1>1, <1>6, <1>17, <1>18, <1>19

-----------------------------------------------------------------------------
(* The instructions among the parts. *)

InstrOf(part) == IF part.p = "Instruction" THEN <<part.instr>> ELSE <<>>
Each(parts) == [i \in DOMAIN parts |-> InstrOf(parts[i])]
Instrs(parts) == FlattenSeq(Each(parts))

\* Nothing is left to be replaced.
Clean(parts) ==
  IsSeq(parts) /\ \A i \in 1 .. Len(parts) : parts[i].p = "Instruction" \/ Marker(parts[i])

LEMMA Tabulated ==
  ASSUME NEW n \in Nat, NEW f, f = [i \in 1 .. n |-> f[i]]
  PROVE  IsSeq(f) /\ Len(f) = n
<1> DEFINE S == {f[i] : i \in 1 .. n}
<1>1. f \in [1 .. n -> S]  OBVIOUS
<1>2. f \in Seq(S)
  <2> HIDE DEF S
  <2> QED  BY <1>1
<1>3. DOMAIN f = 1 .. n  OBVIOUS
<1>4. Len(f) = n  BY <1>2, <1>3, LenProperties
<1> QED  BY <1>2, <1>4, SeqOfAny

LEMMA EachPieces ==
  ASSUME NEW parts, IsSeq(parts)
  PROVE  /\ Pieces(Each(parts)) /\ Len(Each(parts)) = Len(parts)
         /\ \A i \in 1 .. Len(parts) : Each(parts)[i] = InstrOf(parts[i])
<1>1. PICK e : e = Each(parts)  OBVIOUS
<1>2. PICK n : n = Len(parts)  OBVIOUS
<1>3. n \in Nat /\ DOMAIN parts = 1 .. n  BY <1>2, LenOfAny
<1>4. e = [i \in 1 .. n |-> InstrOf(parts[i])]  BY <1>1, <1>3 DEF Each
<1>5. /\ DOMAIN e = 1 .. n /\ e = [i \in 1 .. n |-> e[i]]
      /\ \A i \in 1 .. n : e[i] = InstrOf(parts[i])
  BY <1>4
<1>6. IsSeq(e) /\ Len(e) = n  BY <1>3, <1>5, Tabulated
<1>7. \A i \in 1 .. n : IsSeq(e[i])  BY <1>5, Lone, Empty DEF InstrOf
<1> QED  BY <1>1, <1>2, <1>5, <1>6, <1>7 DEF Pieces

LEMMA InstrsConcat ==
  ASSUME NEW a, NEW b, IsSeq(a), IsSeq(b)
  PROVE  Instrs(a \o b) = Instrs(a) \o Instrs(b)
<1>1. PICK c : c = a \o b  OBVIOUS
<1>2. PICK n : n = Len(a)  OBVIOUS
<1>3. PICK m : m = Len(b)  OBVIOUS
<1>4. /\ n \in Nat /\ m \in Nat
      /\ IsSeq(c) /\ Len(c) = n + m
      /\ \A i \in 1 .. n : c[i] = a[i]
      /\ \A i \in n + 1 .. n + m : c[i] = b[i - n]
  BY <1>1, <1>2, <1>3, LenOfAny, Concat
<1>5. PICK ea : ea = Each(a)  OBVIOUS
<1>6. PICK eb : eb = Each(b)  OBVIOUS
<1>7. PICK ec : ec = Each(c)  OBVIOUS
<1>8. PICK e : e = ea \o eb  OBVIOUS
<1>9. Pieces(ea) /\ Len(ea) = n /\ \A i \in 1 .. n : ea[i] = InstrOf(a[i])
  BY <1>2, <1>5, EachPieces
<1>10. Pieces(eb) /\ Len(eb) = m /\ \A i \in 1 .. m : eb[i] = InstrOf(b[i])
  BY <1>3, <1>6, EachPieces
<1>11. Pieces(ec) /\ Len(ec) = n + m /\ \A i \in 1 .. n + m : ec[i] = InstrOf(c[i])
  BY <1>4, <1>7, EachPieces
<1>12. IsSeq(ea) /\ IsSeq(eb) /\ IsSeq(ec)  BY <1>9, <1>10, <1>11 DEF Pieces
<1>13. /\ IsSeq(e) /\ Len(e) = n + m
       /\ \A i \in 1 .. n : e[i] = ea[i]
       /\ \A i \in n + 1 .. n + m : e[i] = eb[i - n]
  <2>1. /\ IsSeq(ea \o eb) /\ Len(ea \o eb) = Len(ea) + Len(eb)
        /\ \A i \in 1 .. Len(ea) : (ea \o eb)[i] = ea[i]
        /\ \A i \in Len(ea) + 1 .. Len(ea) + Len(eb) : (ea \o eb)[i] = eb[i - Len(ea)]
    BY <1>12, Concat, Zenon
  <2> QED  BY <1>8, <1>9, <1>10, <2>1, Zenon
<1>14. ASSUME NEW i \in 1 .. n + m PROVE e[i] = ec[i]
  <2>1. i \in 1 .. n \/ (i \in n + 1 .. n + m /\ i - n \in 1 .. m)  BY <1>4
  <2>2. CASE i \in 1 .. n  BY <1>4, <1>9, <1>11, <1>13, <2>2
  <2>3. CASE i \in n + 1 .. n + m /\ i - n \in 1 .. m
    BY <1>4, <1>10, <1>11, <1>13, <2>3
  <2> QED  BY <2>1, <2>2, <2>3
<1>15. e = ec
  <2> DEFINE S == ToSet(e) \cup ToSet(ec)
  <2>1. e \in Seq(S) /\ ec \in Seq(S)  BY <1>12, <1>13 DEF IsSeq
  <2> HIDE DEF S
  <2> QED  BY <1>11, <1>13, <1>14, <2>1, SeqEqual
<1> QED  BY <1>1, <1>5, <1>6, <1>7, <1>8, <1>9, <1>10, <1>15, FlatConcat DEF Instrs

LEMMA InstrsLone ==
  ASSUME NEW part
  PROVE  Instrs(<<part>>) = InstrOf(part)
<1>1. PICK s : s = <<part>>  OBVIOUS
<1>2. IsSeq(s) /\ Len(s) = 1 /\ s[1] = part /\ DOMAIN s = {1}  BY <1>1, Lone
<1>3. Each(s) = [i \in {1} |-> InstrOf(part)]  BY <1>2 DEF Each
<1>4. <<InstrOf(part)>> = [i \in {1} |-> InstrOf(part)]  
  <2>1. 1 .. 1 = {1}  OBVIOUS
  <2> QED  BY <2>1
<1>5. IsSeq(InstrOf(part))  BY Lone, Empty DEF InstrOf
<1>6. FlattenSeq(<<InstrOf(part)>>) = InstrOf(part)  BY <1>5, FlatLone
<1> QED  BY <1>1, <1>3, <1>4, <1>6 DEF Instrs

LEMMA InstrsType ==
  ASSUME NEW parts, IsSeq(parts)
  PROVE  IsSeq(Instrs(parts))
<1>1. PICK e : e = Each(parts)  OBVIOUS
<1>2. Pieces(e)  BY <1>1, EachPieces
<1>3. Len(e) \in 0 .. Len(e)  BY <1>2, LenOfAny DEF Pieces
<1> QED  BY <1>1, <1>2, <1>3, FlatSteps, FlatEnd DEF Instrs

\* Flattened::len counts the instructions.
LEMMA FlatLenCounts ==
  ASSUME NEW parts, Clean(parts)
  PROVE  FlatLen(parts) = Len(Instrs(parts))
<1>1. PICK n : n = Len(parts)  OBVIOUS
<1>2. n \in Nat /\ DOMAIN parts = 1 .. n /\ IsSeq(parts)  BY <1>1, LenOfAny DEF Clean
<1>3. PICK w : w = [i \in 1 .. n |-> IF Marker(parts[i]) THEN <<>> ELSE <<parts[i]>>]
  OBVIOUS
<1>4. PICK e : e = Each(parts)  OBVIOUS
<1>5. /\ w = [i \in 1 .. n |-> w[i]]
      /\ \A i \in 1 .. n : w[i] = IF Marker(parts[i]) THEN <<>> ELSE <<parts[i]>>
  BY <1>3
<1>6. IsSeq(w) /\ Len(w) = n  BY <1>2, <1>5, Tabulated
<1>7. \A i \in 1 .. n : IsSeq(w[i])  BY <1>5, Lone, Empty
<1>8. Pieces(w)  BY <1>6, <1>7 DEF Pieces
<1>9. Pieces(e) /\ Len(e) = n /\ \A i \in 1 .. n : e[i] = InstrOf(parts[i])
  BY <1>1, <1>2, <1>4, EachPieces
<1>10. ASSUME NEW i \in 1 .. n PROVE IsSeq(e[i]) /\ Len(w[i]) = Len(e[i])
  <2>1. parts[i].p = "Instruction" \/ Marker(parts[i])  BY <1>1 DEF Clean
  <2>2. CASE Marker(parts[i])
    <3>1. parts[i].p # "Instruction"  BY <2>2 DEF Marker
    <3> QED  BY <1>5, <1>9, <2>2, <3>1, Empty DEF InstrOf
  <2>3. CASE parts[i].p = "Instruction"
    <3>1. ~Marker(parts[i])  BY <2>3 DEF Marker
    <3>2. w[i] = <<parts[i]>> /\ e[i] = <<parts[i].instr>>  BY <1>5, <1>9, <2>3, <3>1 DEF InstrOf
    <3> QED  BY <3>2, Lone
  <2> QED  BY <2>1, <2>2, <2>3
<1>11. PICK fw : fw = Flats(w)  OBVIOUS
<1>12. PICK fe : fe = Flats(e)  OBVIOUS
<1>13. /\ fw[0] = <<>> /\ \A k \in 1 .. n : fw[k] = fw[k - 1] \o w[k]
       /\ \A k \in 0 .. n : IsSeq(fw[k])
  BY <1>6, <1>8, <1>11, FlatSteps
<1>14. /\ fe[0] = <<>> /\ \A k \in 1 .. n : fe[k] = fe[k - 1] \o e[k]
       /\ \A k \in 0 .. n : IsSeq(fe[k])
  BY <1>9, <1>12, FlatSteps
<1> DEFINE S == {k \in Nat : k <= n => Len(fw[k]) = Len(fe[k])}
<1>15. 0 \in S  BY <1>13, <1>14
<1>16. ASSUME NEW k \in Nat, k \in S PROVE k + 1 \in S
  <2> SUFFICES ASSUME k + 1 <= n PROVE Len(fw[k + 1]) = Len(fe[k + 1])  OBVIOUS
  <2>1. k <= n /\ k \in 0 .. n /\ k + 1 \in 1 .. n /\ (k + 1) - 1 = k  BY <1>2
  <2>2. Len(fw[k]) = Len(fe[k])  BY <1>16, <2>1
  <2>3. IsSeq(fw[k]) /\ IsSeq(fe[k]) /\ IsSeq(w[k + 1]) /\ IsSeq(e[k + 1])
    BY <1>7, <1>10, <1>13, <1>14, <2>1
  <2>4. Len(fw[k] \o w[k + 1]) = Len(fw[k]) + Len(w[k + 1])  BY <2>3, Concat
  <2>5. Len(fe[k] \o e[k + 1]) = Len(fe[k]) + Len(e[k + 1])  BY <2>3, Concat
  <2>6. fw[k + 1] = fw[k] \o w[k + 1] /\ fe[k + 1] = fe[k] \o e[k + 1]
    BY <1>13, <1>14, <2>1
  <2>7. Len(w[k + 1]) = Len(e[k + 1])  BY <1>10, <2>1
  <2> QED  BY <2>2, <2>4, <2>5, <2>6, <2>7
<1>17. \A k \in Nat : k \in S
  <2> HIDE DEF S
  <2> QED  BY <1>15, <1>16, Induct
<1>18. Len(fw[n]) = Len(fe[n])  BY <1>2, <1>17
<1>19. FlattenSeq(w) = fw[n] /\ FlattenSeq(e) = fe[n]
  BY <1>6, <1>8, <1>9, <1>11, <1>12, FlatEnd
<1>20. FlatLen(parts) = Len(FlattenSeq(w))  BY <1>2, <1>3 DEF FlatLen
<1> QED  BY <1>4, <1>18, <1>19, <1>20 DEF Instrs

\* Without a continue the third pass only drops the markers.
LEMMA ThirdPassDrops ==
  ASSUME NEW parts, Clean(parts)
  PROVE  ThirdPass(parts) = Instrs(parts)
<1>1. DOMAIN parts = 1 .. Len(parts)  BY LenOfAny DEF Clean
<1> DEFINE t(i) == CASE parts[i].p = "Instruction" -> <<parts[i].instr>>
                     [] parts[i].p = "Continue" -> <<ContinueJump(parts, i)>>
                     [] OTHER -> <<>>
<1>2. ASSUME NEW i \in DOMAIN parts PROVE t(i) = InstrOf(parts[i])
  <2>1. parts[i].p \in {"Instruction", "LoopBegin", "LoopEnd"}
    BY <1>1 DEF Clean, Marker
  <2> QED  BY <2>1 DEF InstrOf
<1>3. [i \in DOMAIN parts |-> t(i)] = [i \in DOMAIN parts |-> InstrOf(parts[i])]
  <2> HIDE DEF t
  <2> QED  BY <1>2
<1> QED  BY <1>3 DEF ThirdPass, Instrs, Each

LEMMA CleanConcat ==
  ASSUME NEW a, NEW b, Clean(a), Clean(b)
  PROVE  Clean(a \o b)
<1>1. PICK c : c = a \o b  OBVIOUS
<1>2. /\ IsSeq(c) /\ Len(c) = Len(a) + Len(b) /\ Len(a) \in Nat /\ Len(b) \in Nat
      /\ \A i \in 1 .. Len(a) : c[i] = a[i]
      /\ \A i \in Len(a) + 1 .. Len(a) + Len(b) : c[i] = b[i - Len(a)]
  BY <1>1, LenOfAny, Concat DEF Clean
<1>3. ASSUME NEW i \in 1 .. Len(a) + Len(b)
      PROVE  c[i].p = "Instruction" \/ Marker(c[i])
  <2>1. i \in 1 .. Len(a) \/ (i \in Len(a) + 1 .. Len(a) + Len(b) /\ i - Len(a) \in 1 .. Len(b))
    BY <1>2
  <2>2. CASE i \in 1 .. Len(a)  BY <1>2, <2>2 DEF Clean
  <2>3. CASE i \in Len(a) + 1 .. Len(a) + Len(b) /\ i - Len(a) \in 1 .. Len(b)
    BY <1>2, <2>3 DEF Clean
  <2> QED  BY <2>1, <2>2, <2>3
<1> QED  BY <1>1, <1>2, <1>3 DEF Clean

LEMMA CleanLone ==
  ASSUME NEW part, part.p = "Instruction" \/ Marker(part)
  PROVE  Clean(<<part>>)
<1>1. PICK s : s = <<part>>  OBVIOUS
<1>2. IsSeq(s) /\ Len(s) = 1 /\ s[1] = part  BY <1>1, Lone
<1> QED  BY <1>1, <1>2 DEF Clean

\* An instruction by itself, and a marker.
LEMMA WholeOne ==
  ASSUME NEW i
  PROVE  Clean(Whole(<<i>>)) /\ Instrs(Whole(<<i>>)) = <<i>>
<1>1. PICK part : part = [p |-> "Instruction", instr |-> i]  OBVIOUS
<1>2. Whole(<<i>>) = <<part>>
  <2>1. DOMAIN <<i>> = {1} /\ <<i>>[1] = i /\ 1 .. 1 = {1}  BY Lone
  <2>2. Whole(<<i>>) = [k \in 1 .. 1 |-> part]  BY <1>1, <2>1 DEF Whole
  <2> QED  BY <2>2
<1>3. part.p = "Instruction" /\ part.instr = i  BY <1>1
<1> QED  BY <1>2, <1>3, CleanLone, InstrsLone DEF InstrOf

LEMMA Marked ==
  ASSUME NEW tag \in {"LoopBegin", "LoopEnd"}, NEW id
  PROVE  Clean(<<Mark(tag, id)>>) /\ Instrs(<<Mark(tag, id)>>) = <<>>
<1>1. Mark(tag, id).p = tag  BY DEF Mark
<1> QED  BY <1>1, CleanLone, InstrsLone DEF InstrOf, Marker

-----------------------------------------------------------------------------
(* The shape of code; its places are counted from 1 here. *)

Jumps == {"Jump", "JumpIf"}

\* There is a call right before the place, an answer is taken at it.
Called(c, p) == p > 1 /\ c[p - 1].op = "FnCall"
Taken(c, p) == p <= Len(c) /\ c[p].op = "TakeReturn"
EndsInCall(c) == Called(c, Len(c) + 1)

\* A jump stays in the code or goes to its end, never to after a call.
Lands(c, p) ==
  c[p].op \in Jumps =>
    /\ c[p].rel = TRUE /\ c[p].dest \in Int
    /\ p + c[p].dest \in 1 .. Len(c) + 1
    /\ ~Called(c, p + c[p].dest)

Shaped(c) ==
  IsSeq(c) /\ \A p \in 1 .. Len(c) : Lands(c, p) /\ (Taken(c, p) <=> Called(c, p))

\* Where control goes from a place.
Nexts(c, p) ==
  CASE c[p].op = "Return" -> {}
    [] c[p].op = "Jump" -> {p + c[p].dest}
    [] c[p].op = "JumpIf" -> {p + c[p].dest, p + 1}
    [] OTHER -> {p + 1}

\* Control never comes to the end.
Stops(c) ==
  \E F \in SUBSET (1 .. Len(c)) : 1 \in F /\ \A p \in F : Nexts(c, p) \subseteq F

LEMMA NextsIn ==
  ASSUME NEW c, Shaped(c), NEW p \in 1 .. Len(c)
  PROVE  Nexts(c, p) \subseteq 1 .. Len(c) + 1
<1>1. Len(c) \in Nat  BY LenOfAny DEF Shaped
<1>2. Lands(c, p)  BY DEF Shaped
<1>3. CASE c[p].op = "Return"  BY <1>3 DEF Nexts
<1>4. CASE c[p].op = "Jump"  BY <1>2, <1>4 DEF Nexts, Lands, Jumps
<1>5. CASE c[p].op = "JumpIf"  BY <1>1, <1>2, <1>5 DEF Nexts, Lands, Jumps
<1>6. CASE c[p].op \notin {"Return", "Jump", "JumpIf"}  BY <1>1, <1>6 DEF Nexts
<1> QED  BY <1>3, <1>4, <1>5, <1>6

\* Code followed by other code.
LEMMA CalledConcat ==
  ASSUME NEW a, NEW b, IsSeq(a), IsSeq(b)
  PROVE  /\ \A p \in 1 .. Len(a) + 1 : Called(a \o b, p) <=> Called(a, p)
         /\ \A p \in 2 .. Len(b) + 1 : Called(a \o b, Len(a) + p) <=> Called(b, p)
         /\ ~EndsInCall(a) =>
              \A p \in 1 .. Len(b) + 1 : Called(a \o b, Len(a) + p) <=> Called(b, p)
<1>1. PICK c : c = a \o b  OBVIOUS
<1>2. PICK n : n = Len(a)  OBVIOUS
<1>3. PICK m : m = Len(b)  OBVIOUS
<1>4. /\ n \in Nat /\ m \in Nat
      /\ \A i \in 1 .. n : c[i] = a[i]
      /\ \A i \in 1 .. m : c[n + i] = b[i]
  BY <1>1, <1>2, <1>3, LenOfAny, Concat
<1>5. ASSUME NEW p \in 1 .. n + 1 PROVE Called(c, p) <=> Called(a, p)
  <2>1. p > 1 => p - 1 \in 1 .. n  BY <1>4
  <2> QED  BY <1>4, <2>1 DEF Called
<1>6. ASSUME NEW p \in 2 .. m + 1 PROVE Called(c, n + p) <=> Called(b, p)
  <2>1. /\ p > 1 /\ n + p > 1 /\ p - 1 \in 1 .. m /\ (n + p) - 1 = n + (p - 1)
    BY <1>4
  <2>2. c[(n + p) - 1] = b[p - 1]  BY <1>4, <2>1
  <2> QED  BY <2>1, <2>2 DEF Called
<1>7. ASSUME ~EndsInCall(a), NEW p \in 1 .. m + 1 PROVE Called(c, n + p) <=> Called(b, p)
  <2>1. CASE p = 1
    <3>1. n + 1 \in 1 .. n + 1 /\ ~Called(a, n + 1)  BY <1>2, <1>4, <1>7 DEF EndsInCall
    <3>2. ~Called(c, n + 1)  BY <1>5, <3>1
    <3>3. ~Called(b, 1)  BY DEF Called
    <3> QED  BY <2>1, <3>2, <3>3
  <2>2. CASE p # 1
    <3>1. p \in 2 .. m + 1  BY <1>4, <2>2
    <3> QED  BY <1>6, <3>1
  <2> QED  BY <2>1, <2>2
<1> QED  BY <1>1, <1>2, <1>3, <1>5, <1>6, <1>7

LEMMA LandsLeft ==
  ASSUME NEW a, NEW b, IsSeq(a), IsSeq(b), NEW p \in 1 .. Len(a), Lands(a, p)
  PROVE  Lands(a \o b, p)
<1>1. PICK c : c = a \o b  OBVIOUS
<1>2. /\ Len(a) \in Nat /\ Len(b) \in Nat /\ Len(c) = Len(a) + Len(b) /\ c[p] = a[p]
      /\ \A q \in 1 .. Len(a) + 1 : Called(c, q) <=> Called(a, q)
  BY <1>1, LenOfAny, Concat, CalledConcat
<1>3. SUFFICES ASSUME a[p].op \in Jumps
               PROVE  /\ c[p].rel = TRUE /\ c[p].dest \in Int
                      /\ p + c[p].dest \in 1 .. Len(c) + 1
                      /\ ~Called(c, p + c[p].dest)
  BY <1>1, <1>2 DEF Lands
<1>4. /\ a[p].rel = TRUE /\ a[p].dest \in Int /\ p + a[p].dest \in 1 .. Len(a) + 1
      /\ ~Called(a, p + a[p].dest)
  BY <1>3 DEF Lands
<1>5. p + a[p].dest \in 1 .. (Len(a) + Len(b)) + 1  BY <1>2, <1>4
<1> QED  BY <1>2, <1>4, <1>5

LEMMA LandsRight ==
  ASSUME NEW a, NEW b, IsSeq(a), IsSeq(b), ~EndsInCall(a),
         NEW p \in 1 .. Len(b), Lands(b, p)
  PROVE  Lands(a \o b, Len(a) + p)
<1>1. PICK c : c = a \o b  OBVIOUS
<1>2. PICK n : n = Len(a)  OBVIOUS
<1>3. /\ n \in Nat /\ Len(b) \in Nat /\ Len(c) = n + Len(b) /\ c[n + p] = b[p]
      /\ \A q \in 1 .. Len(b) + 1 : Called(c, n + q) <=> Called(b, q)
  BY <1>1, <1>2, LenOfAny, Concat, CalledConcat
<1>4. SUFFICES ASSUME b[p].op \in Jumps
               PROVE  /\ c[n + p].rel = TRUE /\ c[n + p].dest \in Int
                      /\ (n + p) + c[n + p].dest \in 1 .. Len(c) + 1
                      /\ ~Called(c, (n + p) + c[n + p].dest)
  BY <1>1, <1>2, <1>3 DEF Lands
<1>5. PICK d : d = b[p].dest  OBVIOUS
<1>6. /\ b[p].rel = TRUE /\ d \in Int /\ p + d \in 1 .. Len(b) + 1 /\ ~Called(b, p + d)
  BY <1>4, <1>5 DEF Lands
<1>7. (n + p) + d = n + (p + d) /\ n + (p + d) \in 1 .. (n + Len(b)) + 1  BY <1>3, <1>6
<1>8. ~Called(c, n + (p + d))  BY <1>3, <1>6
<1> QED  BY <1>3, <1>5, <1>6, <1>7, <1>8

Answered(c) == IsSeq(c) /\ \A p \in 1 .. Len(c) : Taken(c, p) <=> Called(c, p)

LEMMA AnsweredConcat ==
  ASSUME NEW a, NEW b, Answered(a), Answered(b), ~EndsInCall(a)
  PROVE  /\ Answered(a \o b)
         /\ EndsInCall(a \o b) <=> EndsInCall(b)
<1>1. PICK c : c = a \o b  OBVIOUS
<1>2. PICK n : n = Len(a)  OBVIOUS
<1>3. PICK m : m = Len(b)  OBVIOUS
<1>4. /\ n \in Nat /\ m \in Nat /\ Len(c) = n + m /\ IsSeq(c)
      /\ \A i \in 1 .. n : c[i] = a[i]
      /\ \A i \in 1 .. m : c[n + i] = b[i]
      /\ \A q \in 1 .. n + 1 : Called(c, q) <=> Called(a, q)
      /\ \A q \in 1 .. m + 1 : Called(c, n + q) <=> Called(b, q)
  BY <1>1, <1>2, <1>3, LenOfAny, Concat, CalledConcat DEF Answered
<1>5. ASSUME NEW p \in 1 .. n PROVE Taken(c, p) <=> Called(c, p)
  <2>1. p \in 1 .. n + 1 /\ p <= n + m /\ p <= n  BY <1>4
  <2>2. Taken(c, p) <=> Taken(a, p)  BY <1>2, <1>4, <2>1 DEF Taken
  <2>3. Taken(a, p) <=> Called(a, p)  BY <1>2 DEF Answered
  <2> QED  BY <1>4, <2>1, <2>2, <2>3
<1>6. ASSUME NEW p \in 1 .. m PROVE Taken(c, n + p) <=> Called(c, n + p)
  <2>1. p \in 1 .. m + 1 /\ p <= m /\ n + p <= n + m  BY <1>4
  <2>2. Taken(c, n + p) <=> Taken(b, p)  BY <1>3, <1>4, <2>1 DEF Taken
  <2>3. Taken(b, p) <=> Called(b, p)  BY <1>3 DEF Answered
  <2> QED  BY <1>4, <2>1, <2>2, <2>3
<1>7. ASSUME NEW p \in 1 .. n + m PROVE Taken(c, p) <=> Called(c, p)
  <2>1. p \in 1 .. n \/ (p - n \in 1 .. m /\ n + (p - n) = p)  BY <1>4
  <2> QED  BY <1>5, <1>6, <2>1
<1>8. EndsInCall(c) <=> EndsInCall(b)
  <2>1. m + 1 \in 1 .. m + 1 /\ (n + m) + 1 = n + (m + 1)  BY <1>4
  <2> QED  BY <1>3, <1>4, <2>1 DEF EndsInCall
<1> QED  BY <1>1, <1>4, <1>7, <1>8 DEF Answered

LEMMA ShapedIs ==
  ASSUME NEW c
  PROVE  Shaped(c) <=> Answered(c) /\ \A p \in 1 .. Len(c) : Lands(c, p)
BY DEF Shaped, Answered

\* Shaped code after shaped code that does not end in a call.
LEMMA ShapedConcat ==
  ASSUME NEW a, NEW b, Shaped(a), Shaped(b), ~EndsInCall(a)
  PROVE  /\ Shaped(a \o b)
         /\ EndsInCall(a \o b) <=> EndsInCall(b)
<1>1. PICK c : c = a \o b  OBVIOUS
<1>2. PICK n : n = Len(a)  OBVIOUS
<1>3. PICK m : m = Len(b)  OBVIOUS
<1>4. Answered(a) /\ Answered(b)  BY ShapedIs
<1>5. IsSeq(a) /\ IsSeq(b)  BY DEF Shaped
<1>6. n \in Nat /\ m \in Nat /\ Len(c) = n + m  BY <1>1, <1>2, <1>3, <1>5, LenOfAny, Concat
<1>7. Answered(c) /\ (EndsInCall(c) <=> EndsInCall(b))  BY <1>1, <1>4, AnsweredConcat
<1>8. \A p \in 1 .. n : Lands(c, p)  BY <1>1, <1>2, <1>5, LandsLeft DEF Shaped
<1>9. \A p \in 1 .. m : Lands(c, n + p)  BY <1>1, <1>2, <1>3, <1>5, LandsRight DEF Shaped
<1>10. ASSUME NEW p \in 1 .. n + m PROVE Lands(c, p)
  <2>1. p \in 1 .. n \/ (p - n \in 1 .. m /\ n + (p - n) = p)  BY <1>6
  <2> QED  BY <1>8, <1>9, <2>1
<1> QED  BY <1>1, <1>6, <1>7, <1>10, ShapedIs

LEMMA ShapedEmpty == Shaped(<<>>) /\ ~EndsInCall(<<>>)
BY Empty DEF Shaped, EndsInCall, Called

LEMMA AnsweredLone ==
  ASSUME NEW i, i.op # "TakeReturn"
  PROVE  Answered(<<i>>) /\ (EndsInCall(<<i>>) <=> i.op = "FnCall")
<1>1. PICK c : c = <<i>>  OBVIOUS
<1>2. IsSeq(c) /\ Len(c) = 1 /\ c[1] = i  BY <1>1, Lone
<1>3. \A p \in 1 .. 1 : p = 1 /\ ~(p > 1)  OBVIOUS
<1>4. \A p \in 1 .. Len(c) : ~Taken(c, p) /\ ~Called(c, p)  BY <1>2, <1>3 DEF Taken, Called
<1>5. 1 + 1 = 2 /\ 2 > 1 /\ 2 - 1 = 1  OBVIOUS
<1>6. EndsInCall(c) <=> i.op = "FnCall"  BY <1>2, <1>5 DEF EndsInCall, Called
<1> QED  BY <1>1, <1>2, <1>4, <1>6 DEF Answered

\* An instruction that is no jump and takes no answer.
LEMMA ShapedLone ==
  ASSUME NEW i, i.op \notin Jumps, i.op # "TakeReturn"
  PROVE  Shaped(<<i>>) /\ (EndsInCall(<<i>>) <=> i.op = "FnCall")
<1>1. PICK c : c = <<i>>  OBVIOUS
<1>2. IsSeq(c) /\ Len(c) = 1 /\ c[1] = i  BY <1>1, Lone
<1>3. \A p \in 1 .. 1 : p = 1  OBVIOUS
<1>4. \A p \in 1 .. Len(c) : Lands(c, p)  BY <1>2, <1>3 DEF Lands
<1> QED  BY <1>1, <1>4, AnsweredLone, ShapedIs

\* The answer is taken right after the call.
LEMMA ShapedTake ==
  ASSUME NEW a, NEW i, Shaped(a), EndsInCall(a), i.op = "TakeReturn"
  PROVE  Shaped(a \o <<i>>) /\ ~EndsInCall(a \o <<i>>)
<1>1. PICK b : b = <<i>>  OBVIOUS
<1>2. IsSeq(b) /\ Len(b) = 1 /\ b[1] = i  BY <1>1, Lone
<1>3. PICK c : c = a \o b  OBVIOUS
<1>4. PICK n : n = Len(a)  OBVIOUS
<1>5. IsSeq(a)  BY DEF Shaped
<1>6. 1 \in 1 .. 1  OBVIOUS
<1>7. /\ n \in Nat /\ Len(c) = n + 1 /\ IsSeq(c) /\ c[n + 1] = i
      /\ \A p \in 1 .. n : c[p] = a[p]
      /\ \A p \in 1 .. n + 1 : Called(c, p) <=> Called(a, p)
  <2>0. IsSeq(b)  BY <1>2
  <2>1. /\ n \in Nat /\ Len(c) = n + Len(b) /\ IsSeq(c)
        /\ \A p \in 1 .. n : c[p] = a[p]
        /\ \A p \in 1 .. Len(b) : c[n + p] = b[p]
    BY <2>0, <1>3, <1>4, <1>5, LenOfAny, Concat
  <2>2. c[n + 1] = i  BY <1>2, <1>6, <2>1
  <2>3. \A p \in 1 .. n + 1 : Called(c, p) <=> Called(a, p)
    BY <1>2, <1>3, <1>4, <1>5, CalledConcat
  <2> QED  BY <1>2, <2>1, <2>2, <2>3
<1>8. ASSUME NEW p \in 1 .. n PROVE Lands(c, p) /\ (Taken(c, p) <=> Called(c, p))
  <2>1. Lands(a, p) /\ (Taken(a, p) <=> Called(a, p))  BY <1>4 DEF Shaped
  <2>2. Lands(c, p)  BY <1>2, <1>3, <1>4, <1>5, <2>1, LandsLeft
  <2>3. p \in 1 .. n + 1 /\ p <= n + 1 /\ p <= n  BY <1>7
  <2>4. Taken(c, p) <=> Taken(a, p)  BY <1>4, <1>7, <2>3 DEF Taken
  <2> QED  BY <1>7, <2>1, <2>2, <2>3, <2>4
<1>9. Lands(c, n + 1)  BY <1>7 DEF Lands, Jumps
<1>10. Taken(c, n + 1) /\ Called(c, n + 1)
  <2>1. n + 1 \in 1 .. n + 1 /\ n + 1 <= n + 1  BY <1>7
  <2> QED  BY <1>4, <1>7, <2>1 DEF Taken, EndsInCall
<1>11. ~EndsInCall(c)
  <2>1. ((n + 1) + 1) - 1 = n + 1  BY <1>7
  <2> QED  BY <1>7, <2>1 DEF EndsInCall, Called
<1>12. \A p \in 1 .. n + 1 : p \in 1 .. n \/ p = n + 1  BY <1>7
<1> QED  BY <1>1, <1>3, <1>7, <1>8, <1>9, <1>10, <1>11, <1>12 DEF Shaped

\* Control can stop in code that other code follows, or that follows other code.
LEMMA StopsLeft ==
  ASSUME NEW a, NEW b, IsSeq(a), IsSeq(b), Stops(a)
  PROVE  Stops(a \o b)
<1>1. PICK c : c = a \o b  OBVIOUS
<1>2. /\ Len(a) \in Nat /\ Len(b) \in Nat /\ Len(c) = Len(a) + Len(b)
      /\ \A p \in 1 .. Len(a) : c[p] = a[p]
  BY <1>1, LenOfAny, Concat
<1>3. PICK F \in SUBSET (1 .. Len(a)) : 1 \in F /\ \A p \in F : Nexts(a, p) \subseteq F
  BY DEF Stops
<1>4. \A p \in F : Nexts(c, p) = Nexts(a, p)  BY <1>2, <1>3 DEF Nexts
<1>5. F \in SUBSET (1 .. Len(c))  BY <1>2, <1>3
<1> QED  BY <1>1, <1>3, <1>4, <1>5 DEF Stops

\* The places of b in a \o b.
Shifted(n, F) == {n + p : p \in F}

LEMMA NextsRight ==
  ASSUME NEW a, NEW b, IsSeq(a), IsSeq(b), NEW p \in 1 .. Len(b), Lands(b, p)
  PROVE  Nexts(a \o b, Len(a) + p) = Shifted(Len(a), Nexts(b, p))
<1>1. PICK c : c = a \o b  OBVIOUS
<1>2. PICK n : n = Len(a)  OBVIOUS
<1>3. n \in Nat /\ Len(b) \in Nat /\ c[n + p] = b[p]  BY <1>1, <1>2, LenOfAny, Concat
<1>4. PICK d : d = b[p].dest  OBVIOUS
<1>5. (n + p) + 1 = n + (p + 1)  BY <1>3
<1>6. b[p].op \in Jumps => (n + p) + d = n + (p + d)  BY <1>3, <1>4 DEF Lands
<1>7. CASE b[p].op = "Return"  BY <1>1, <1>2, <1>3, <1>7 DEF Nexts, Shifted
<1>8. CASE b[p].op = "Jump"
  <2>1. Nexts(c, n + p) = {n + (p + d)} /\ Nexts(b, p) = {p + d}
    BY <1>3, <1>4, <1>6, <1>8 DEF Nexts, Jumps
  <2> QED  BY <1>1, <1>2, <2>1 DEF Shifted
<1>9. CASE b[p].op = "JumpIf"
  <2>1. Nexts(c, n + p) = {n + (p + d), n + (p + 1)}
    BY <1>3, <1>4, <1>5, <1>6, <1>9 DEF Nexts, Jumps
  <2>2. Nexts(b, p) = {p + d, p + 1}  BY <1>4, <1>9 DEF Nexts
  <2> QED  BY <1>1, <1>2, <2>1, <2>2 DEF Shifted
<1>10. CASE b[p].op \notin {"Return", "Jump", "JumpIf"}
  <2>1. Nexts(c, n + p) = {n + (p + 1)} /\ Nexts(b, p) = {p + 1}
    BY <1>3, <1>5, <1>10 DEF Nexts
  <2> QED  BY <1>1, <1>2, <2>1 DEF Shifted
<1> QED  BY <1>7, <1>8, <1>9, <1>10

LEMMA StopsRight ==
  ASSUME NEW a, NEW b, Shaped(a), Shaped(b), Stops(b)
  PROVE  Stops(a \o b)
<1>1. PICK c : c = a \o b  OBVIOUS
<1>2. PICK n : n = Len(a)  OBVIOUS
<1>3. IsSeq(a) /\ IsSeq(b)  BY DEF Shaped
<1>4. /\ n \in Nat /\ Len(b) \in Nat /\ Len(c) = n + Len(b)
      /\ \A p \in 1 .. n : c[p] = a[p]
  BY <1>1, <1>2, <1>3, LenOfAny, Concat
<1>5. PICK F \in SUBSET (1 .. Len(b)) : 1 \in F /\ \A p \in F : Nexts(b, p) \subseteq F
  BY DEF Stops
<1>6. PICK G : G = 1 .. n \cup Shifted(n, F)  OBVIOUS
<1>7. G \subseteq 1 .. Len(c)  BY <1>4, <1>5, <1>6 DEF Shifted
<1>8. n + 1 \in G  BY <1>5, <1>6 DEF Shifted
<1>9. 1 .. n + 1 \subseteq G  BY <1>4, <1>6, <1>8
<1>10. ASSUME NEW p \in 1 .. n PROVE Nexts(c, p) \subseteq G
  <2>1. Nexts(c, p) = Nexts(a, p)  BY <1>4 DEF Nexts
  <2>2. Nexts(a, p) \subseteq 1 .. n + 1  BY <1>2, NextsIn
  <2> QED  BY <1>9, <2>1, <2>2
<1>11. ASSUME NEW p \in F PROVE Nexts(c, n + p) \subseteq G
  <2>1. p \in 1 .. Len(b) /\ Lands(b, p)  BY <1>5 DEF Shaped
  <2>2. Nexts(c, n + p) = Shifted(n, Nexts(b, p))  BY <1>1, <1>2, <1>3, <2>1, NextsRight
  <2>3. Nexts(b, p) \subseteq F  BY <1>5
  <2> QED  BY <1>6, <2>2, <2>3 DEF Shifted
<1>12. \A p \in G : Nexts(c, p) \subseteq G  BY <1>6, <1>10, <1>11 DEF Shifted
<1>13. 1 \in G  BY <1>4, <1>9
<1> QED  BY <1>1, <1>7, <1>12, <1>13 DEF Stops

-----------------------------------------------------------------------------
(* Loops and branches: code with jumps whose places are not there yet. *)

\* Shaped but for the jumps at the places P.
Half(c, P) ==
  Answered(c) /\ ~EndsInCall(c) /\ \A p \in 1 .. Len(c) : p \notin P => Lands(c, p)

LEMMA HalfConcat ==
  ASSUME NEW a, NEW b, NEW P, Half(a, P), Shaped(b), ~EndsInCall(b)
  PROVE  Half(a \o b, P)
<1>1. PICK c : c = a \o b  OBVIOUS
<1>2. PICK n : n = Len(a)  OBVIOUS
<1>3. PICK m : m = Len(b)  OBVIOUS
<1>4. Answered(a) /\ Answered(b) /\ ~EndsInCall(a)  BY ShapedIs DEF Half
<1>5. IsSeq(a) /\ IsSeq(b)  BY <1>4 DEF Answered
<1>6. n \in Nat /\ m \in Nat /\ Len(c) = n + m  BY <1>1, <1>2, <1>3, <1>5, LenOfAny, Concat
<1>7. Answered(c) /\ ~EndsInCall(c)  BY <1>1, <1>4, AnsweredConcat
<1>8. \A p \in 1 .. n : p \notin P => Lands(c, p)
  BY <1>1, <1>2, <1>5, LandsLeft DEF Half
<1>9. \A p \in 1 .. m : Lands(c, n + p)
  BY <1>1, <1>2, <1>3, <1>4, <1>5, LandsRight DEF Shaped
<1>10. ASSUME NEW p \in 1 .. n + m, p \notin P PROVE Lands(c, p)
  <2>1. p \in 1 .. n \/ (p - n \in 1 .. m /\ n + (p - n) = p)  BY <1>6
  <2> QED  BY <1>8, <1>9, <1>10, <2>1
<1> QED  BY <1>1, <1>6, <1>7, <1>10 DEF Half

LEMMA HalfJump ==
  ASSUME NEW a, NEW i, NEW P, Half(a, P), i.op \in Jumps
  PROVE  Half(a \o <<i>>, P \cup {Len(a) + 1})
<1>1. PICK b : b = <<i>>  OBVIOUS
<1>2. IsSeq(b) /\ Len(b) = 1  BY <1>1, Lone
<1>3. PICK c : c = a \o b  OBVIOUS
<1>4. PICK n : n = Len(a)  OBVIOUS
<1>5. Answered(b) /\ ~EndsInCall(b)  BY <1>1, AnsweredLone DEF Jumps
<1>6. Answered(a) /\ ~EndsInCall(a) /\ IsSeq(a)  BY DEF Half, Answered
<1>7. Answered(c) /\ ~EndsInCall(c)  BY <1>3, <1>5, <1>6, AnsweredConcat
<1>8. n \in Nat /\ Len(c) = n + Len(b)  BY <1>2, <1>3, <1>4, <1>6, LenOfAny, Concat
<1>9. \A p \in 1 .. n : p \notin P => Lands(c, p)
  BY <1>2, <1>3, <1>4, <1>6, LandsLeft DEF Half
<1>10. ASSUME NEW p \in 1 .. n + 1, p \notin P \cup {n + 1} PROVE Lands(c, p)
  <2>1. p \in 1 .. n  BY <1>8, <1>10
  <2> QED  BY <1>9, <1>10, <2>1
<1> QED  BY <1>1, <1>2, <1>3, <1>4, <1>7, <1>8, <1>10 DEF Half

\* The condition, the jump over the body, the body and the jump back.
LEMMA LoopShaped ==
  ASSUME NEW cond, NEW body, NEW skip, NEW loop,
         Shaped(cond), ~EndsInCall(cond), Shaped(body), ~EndsInCall(body),
         skip.op = "JumpIf", skip.rel = TRUE, skip.dest = Len(body) + 2,
         loop.op = "Jump", loop.rel = TRUE, loop.dest = -(Len(body) + Len(cond)) - 1
  PROVE  LET code == ((cond \o <<skip>>) \o body) \o <<loop>>
         IN  Shaped(code) /\ ~EndsInCall(code)
<1>1. PICK n : n = Len(cond)  OBVIOUS
<1>2. PICK m : m = Len(body)  OBVIOUS
<1>3. PICK c1 : c1 = cond \o <<skip>>  OBVIOUS
<1>4. PICK c2 : c2 = c1 \o body  OBVIOUS
<1>5. PICK c : c = c2 \o <<loop>>  OBVIOUS
<1>6. Half(cond, {})  BY ShapedIs DEF Half
<1>7. Half(c1, {} \cup {n + 1})  BY <1>1, <1>3, <1>6, HalfJump DEF Jumps
<1>8. Half(c2, {} \cup {n + 1})  BY <1>4, <1>7, HalfConcat
<1>9. IsSeq(cond) /\ IsSeq(body) /\ n \in Nat /\ m \in Nat
  BY <1>1, <1>2, LenOfAny DEF Shaped
<1>10. IsSeq(<<skip>>) /\ Len(<<skip>>) = 1 /\ <<skip>>[1] = skip  BY Lone
<1>11. IsSeq(<<loop>>) /\ Len(<<loop>>) = 1 /\ <<loop>>[1] = loop  BY Lone
<1>12. IsSeq(c1) /\ Len(c1) = n + 1 /\ c1[n + 1] = skip
  <2>1. 1 \in 1 .. 1  OBVIOUS
  <2> QED  BY <1>1, <1>3, <1>9, <1>10, <2>1, Concat
<1>13. IsSeq(c2) /\ Len(c2) = (n + 1) + m /\ c2[n + 1] = skip
  <2>1. n + 1 \in 1 .. n + 1  BY <1>9
  <2>2. /\ IsSeq(c2) /\ Len(c2) = Len(c1) + m
        /\ \A p \in 1 .. Len(c1) : c2[p] = c1[p]
    <3>1. IsSeq(c1)  BY <1>12
    <3> QED  BY <1>2, <1>4, <1>9, <3>1, Concat
  <2> QED  BY <1>12, <2>1, <2>2
<1>14. PICK k : k = (n + 1) + m  OBVIOUS
<1>15. k \in Nat /\ n + 1 \in 1 .. k  BY <1>9, <1>14
<1>16. IsSeq(c) /\ Len(c) = k + 1 /\ c[n + 1] = skip /\ c[k + 1] = loop
  <2>1. 1 \in 1 .. 1  OBVIOUS
  <2> QED  BY <1>5, <1>11, <1>13, <1>14, <1>15, <2>1, Concat
<1>17. Half(c, ({} \cup {n + 1}) \cup {k + 1})
  BY <1>5, <1>8, <1>13, <1>14, HalfJump DEF Jumps
<1>18. Lands(c, n + 1)
  <2>1. skip.dest \in Int /\ (n + 1) + skip.dest = (k + 1) + 1  BY <1>2, <1>9, <1>14
  <2>2. (k + 1) + 1 \in 1 .. (k + 1) + 1  BY <1>15
  <2>3. ~Called(c, (k + 1) + 1)  BY <1>16, <1>17 DEF Half, EndsInCall
  <2> QED  BY <1>16, <2>1, <2>2, <2>3 DEF Lands
<1>19. Lands(c, k + 1)
  <2>1. loop.dest \in Int /\ (k + 1) + loop.dest = 1  BY <1>1, <1>2, <1>9, <1>14
  <2>2. 1 \in 1 .. (k + 1) + 1 /\ ~(1 > 1)  BY <1>15
  <2> QED  BY <1>16, <2>1, <2>2 DEF Lands, Called
<1>20. Shaped(c) /\ ~EndsInCall(c)
  BY <1>17, <1>18, <1>19, ShapedIs DEF Half
<1> QED  BY <1>3, <1>4, <1>5, <1>20

\* The condition, the jump to the true path, the false path, the jump to the
\* end and the true path.
UpToEnter(cond, enter) == cond \o <<enter>>
UpToNo(cond, enter, no) == UpToEnter(cond, enter) \o no
UpToLeave(cond, enter, no, leave) == UpToNo(cond, enter, no) \o <<leave>>
BranchCode(cond, enter, no, leave, yes) == UpToLeave(cond, enter, no, leave) \o yes

IsBranch(cond, enter, no, leave, yes) ==
  /\ Shaped(cond) /\ Shaped(no) /\ Shaped(yes)
  /\ ~EndsInCall(cond) /\ ~EndsInCall(no) /\ ~EndsInCall(yes)
  /\ enter.op = "JumpIf" /\ enter.rel = TRUE /\ enter.dest = Len(no) + 2
  /\ leave.op = "Jump" /\ leave.rel = TRUE /\ leave.dest = Len(yes) + 1

\* What is where; k is the length of the code before the true path.
SidesPlaced(cond, enter, no, leave, yes) ==
  LET c == BranchCode(cond, enter, no, leave, yes)
      c1 == UpToEnter(cond, enter)
      c2 == UpToNo(cond, enter, no)
      c3 == UpToLeave(cond, enter, no, leave)
      n == Len(cond)
      k == ((n + 1) + Len(no)) + 1
  IN  /\ n \in Nat /\ Len(no) \in Nat /\ Len(yes) \in Nat
      /\ IsSeq(c1) /\ Len(c1) = n + 1
      /\ IsSeq(c3) /\ Len(c3) = k
      /\ IsSeq(c) /\ Len(c) = k + Len(yes)
      /\ \A p \in 1 .. n : c[p] = cond[p]
      /\ c[n + 1] = enter /\ c[k] = leave
      /\ \A p \in 1 .. (n + 1) + Len(no) : c[p] = c2[p]
      /\ Half(c, {n + 1, k})

LEMMA BranchPlaces ==
  ASSUME NEW cond, NEW enter, NEW no, NEW leave, NEW yes,
         IsBranch(cond, enter, no, leave, yes)
  PROVE  SidesPlaced(cond, enter, no, leave, yes)
<1>1. PICK n : n = Len(cond)  OBVIOUS
<1>2. PICK m : m = Len(no)  OBVIOUS
<1>3. PICK c1 : c1 = cond \o <<enter>>  OBVIOUS
<1>4. PICK c2 : c2 = c1 \o no  OBVIOUS
<1>5. PICK c3 : c3 = c2 \o <<leave>>  OBVIOUS
<1>6. PICK c : c = c3 \o yes  OBVIOUS
<1>7. PICK l : l = Len(yes)  OBVIOUS
<1>8. /\ IsSeq(cond) /\ IsSeq(no) /\ IsSeq(yes)
      /\ n \in Nat /\ m \in Nat /\ l \in Nat
  BY <1>1, <1>2, <1>7, LenOfAny DEF IsBranch, Shaped
<1>9. IsSeq(<<enter>>) /\ Len(<<enter>>) = 1 /\ <<enter>>[1] = enter  BY Lone
<1>10. IsSeq(<<leave>>) /\ Len(<<leave>>) = 1 /\ <<leave>>[1] = leave  BY Lone
<1>11. 1 \in 1 .. 1  OBVIOUS
<1>12. /\ IsSeq(c1) /\ Len(c1) = n + 1 /\ c1[n + 1] = enter
       /\ \A p \in 1 .. n : c1[p] = cond[p]
  BY <1>1, <1>3, <1>8, <1>9, <1>11, Concat
<1>13. PICK j : j = (n + 1) + m  OBVIOUS
<1>14. IsSeq(c2) /\ Len(c2) = j /\ \A p \in 1 .. n + 1 : c2[p] = c1[p]
  BY <1>2, <1>4, <1>8, <1>12, <1>13, Concat
<1>15. /\ IsSeq(c3) /\ Len(c3) = j + 1 /\ c3[j + 1] = leave
       /\ \A p \in 1 .. j : c3[p] = c2[p]
  BY <1>5, <1>10, <1>11, <1>14, Concat
<1>16. /\ IsSeq(c) /\ Len(c) = (j + 1) + l
       /\ \A p \in 1 .. j + 1 : c[p] = c3[p]
  BY <1>6, <1>7, <1>8, <1>15, Concat
<1>17. /\ j \in Nat /\ j + 1 \in 1 .. j + 1 /\ n + 1 \in 1 .. n + 1
       /\ \A p \in 1 .. j : p \in 1 .. j + 1
       /\ \A p \in 1 .. n + 1 : p \in 1 .. j
       /\ \A p \in 1 .. n : p \in 1 .. n + 1
  BY <1>8, <1>13
<1>18. \A p \in 1 .. j : c[p] = c2[p]  BY <1>15, <1>16, <1>17
<1>19. \A p \in 1 .. n + 1 : c[p] = c1[p]  BY <1>14, <1>17, <1>18
<1>20. \A p \in 1 .. n : c[p] = cond[p]  BY <1>12, <1>17, <1>19
<1>21. c[n + 1] = enter /\ c[j + 1] = leave  BY <1>12, <1>15, <1>16, <1>17, <1>19
<1>22. Half(cond, {})  BY ShapedIs DEF Half, IsBranch
<1>23. Half(c1, {} \cup {n + 1})  BY <1>1, <1>3, <1>22, HalfJump DEF Jumps, IsBranch
<1>24. Half(c2, {} \cup {n + 1})  BY <1>4, <1>23, HalfConcat DEF IsBranch
<1>25. Half(c3, ({} \cup {n + 1}) \cup {j + 1})
  BY <1>5, <1>14, <1>24, HalfJump DEF Jumps, IsBranch
<1>26. ({} \cup {n + 1}) \cup {j + 1} = {n + 1, j + 1}  OBVIOUS
<1>27. Half(c, {n + 1, j + 1})  BY <1>6, <1>25, <1>26, HalfConcat DEF IsBranch
<1>28. c = BranchCode(cond, enter, no, leave, yes)
  BY <1>3, <1>4, <1>5, <1>6 DEF BranchCode, UpToEnter, UpToNo, UpToLeave
<1>29. /\ c1 = UpToEnter(cond, enter) /\ c2 = UpToNo(cond, enter, no)
       /\ c3 = UpToLeave(cond, enter, no, leave)
  BY <1>3, <1>4, <1>5 DEF UpToEnter, UpToNo, UpToLeave
<1> QED
  BY <1>1, <1>2, <1>3, <1>4, <1>5, <1>7, <1>8, <1>12, <1>13, <1>15, <1>16, <1>18,
     <1>20, <1>21, <1>27, <1>28, <1>29 DEF SidesPlaced

LEMMA BranchShaped ==
  ASSUME NEW cond, NEW enter, NEW no, NEW leave, NEW yes,
         IsBranch(cond, enter, no, leave, yes)
  PROVE  LET code == BranchCode(cond, enter, no, leave, yes)
         IN  Shaped(code) /\ ~EndsInCall(code)
<1>1. PICK c : c = BranchCode(cond, enter, no, leave, yes)  OBVIOUS
<1>2. PICK n : n = Len(cond)  OBVIOUS
<1>3. PICK m : m = Len(no)  OBVIOUS
<1>4. PICK l : l = Len(yes)  OBVIOUS
<1>5. PICK k : k = ((n + 1) + m) + 1  OBVIOUS
<1>6. /\ n \in Nat /\ m \in Nat /\ l \in Nat /\ IsSeq(c) /\ Len(c) = k + l
      /\ c[n + 1] = enter /\ c[k] = leave /\ Half(c, {n + 1, k})
  <2>1. SidesPlaced(cond, enter, no, leave, yes)  BY BranchPlaces
  <2> QED  BY <1>1, <1>2, <1>3, <1>4, <1>5, <2>1 DEF SidesPlaced
<1>7. k \in Nat  BY <1>5, <1>6
<1>10. k + 1 \in 1 .. (k + l) + 1  BY <1>6, <1>7
<1>11. ~Called(c, k + 1)
  <2>1. (k + 1) - 1 = k  BY <1>7
  <2> QED  BY <1>6, <2>1 DEF Called, IsBranch
<1>12. Lands(c, n + 1)
  <2>1. enter.dest = m + 2 /\ enter.rel = TRUE  BY <1>3 DEF IsBranch
  <2>2. enter.dest \in Int /\ (n + 1) + enter.dest = k + 1  BY <1>5, <1>6, <2>1
  <2> QED  BY <1>6, <1>10, <1>11, <2>1, <2>2 DEF Lands
<1>13. Lands(c, k)
  <2>1. leave.dest = l + 1 /\ leave.rel = TRUE  BY <1>4 DEF IsBranch
  <2>2. leave.dest \in Int /\ k + leave.dest = (k + l) + 1  BY <1>6, <1>7, <2>1
  <2>3. (k + l) + 1 \in 1 .. (k + l) + 1 /\ ~Called(c, (k + l) + 1)
    BY <1>6, <1>7 DEF Half, EndsInCall
  <2> QED  BY <1>6, <2>1, <2>2, <2>3 DEF Lands
<1> QED  BY <1>1, <1>6, <1>12, <1>13, ShapedIs DEF Half

\* Control stops in a branch if it does on both paths.
LEMMA BranchStops ==
  ASSUME NEW cond, NEW enter, NEW no, NEW leave, NEW yes,
         IsBranch(cond, enter, no, leave, yes), Stops(no), Stops(yes)
  PROVE  Stops(BranchCode(cond, enter, no, leave, yes))
<1>1. PICK c : c = BranchCode(cond, enter, no, leave, yes)  OBVIOUS
<1>2. PICK n : n = Len(cond)  OBVIOUS
<1>3. PICK m : m = Len(no)  OBVIOUS
<1>4. PICK l : l = Len(yes)  OBVIOUS
<1>5. PICK k : k = ((n + 1) + m) + 1  OBVIOUS
<1>6. PICK c1 : c1 = UpToEnter(cond, enter)  OBVIOUS
<1>7. PICK c2 : c2 = UpToNo(cond, enter, no)  OBVIOUS
<1>8. PICK c3 : c3 = UpToLeave(cond, enter, no, leave)  OBVIOUS
<1>9. c = c3 \o yes /\ c2 = c1 \o no
  BY <1>1, <1>6, <1>7, <1>8 DEF BranchCode, UpToNo
<1>10. /\ n \in Nat /\ m \in Nat /\ l \in Nat /\ IsSeq(c) /\ Len(c) = k + l
       /\ IsSeq(c1) /\ Len(c1) = n + 1 /\ IsSeq(c3) /\ Len(c3) = k
       /\ \A p \in 1 .. n : c[p] = cond[p]
       /\ c[n + 1] = enter
       /\ \A p \in 1 .. (n + 1) + m : c[p] = c2[p]
  <2>1. SidesPlaced(cond, enter, no, leave, yes)  BY BranchPlaces
  <2> QED  BY <1>1, <1>2, <1>3, <1>4, <1>5, <1>6, <1>7, <1>8, <2>1 DEF SidesPlaced
<1>11. Shaped(cond) /\ Shaped(no) /\ Shaped(yes)  BY DEF IsBranch
<1>12. IsSeq(no) /\ IsSeq(yes)  BY <1>11 DEF Shaped
<1>13. PICK F \in SUBSET (1 .. m) : 1 \in F /\ \A p \in F : Nexts(no, p) \subseteq F
  BY <1>3 DEF Stops
<1>14. PICK T \in SUBSET (1 .. l) : 1 \in T /\ \A p \in T : Nexts(yes, p) \subseteq T
  BY <1>4 DEF Stops
<1>15. PICK G : G = 1 .. n + 1 \cup Shifted(n + 1, F) \cup Shifted(k, T)  OBVIOUS
<1>16. G \subseteq 1 .. k + l  BY <1>5, <1>10, <1>13, <1>14, <1>15 DEF Shifted
<1>17. (n + 1) + 1 \in G /\ k + 1 \in G  BY <1>13, <1>14, <1>15 DEF Shifted
<1>18. ASSUME NEW p \in 1 .. n PROVE Nexts(c, p) \subseteq G
  <2>1. Nexts(c, p) = Nexts(cond, p)  BY <1>10 DEF Nexts
  <2>2. Nexts(cond, p) \subseteq 1 .. n + 1  BY <1>2, <1>11, NextsIn
  <2> QED  BY <1>15, <2>1, <2>2
<1>19. Nexts(c, n + 1) \subseteq G
  <2>1. enter.op = "JumpIf" /\ (n + 1) + enter.dest = k + 1
    BY <1>3, <1>5, <1>10 DEF IsBranch
  <2>2. Nexts(c, n + 1) = {k + 1, (n + 1) + 1}  BY <1>10, <2>1 DEF Nexts
  <2> QED  BY <1>17, <2>2
<1>20. ASSUME NEW p \in F PROVE Nexts(c, (n + 1) + p) \subseteq G
  <2>1. p \in 1 .. m /\ Lands(no, p)  BY <1>3, <1>11, <1>13 DEF Shaped
  <2>2. Nexts(c2, (n + 1) + p) = Shifted(n + 1, Nexts(no, p))
    <3>1. IsSeq(c1) /\ IsSeq(no) /\ p \in 1 .. Len(no)  BY <1>3, <1>10, <1>12, <2>1
    <3>2. Nexts(c1 \o no, Len(c1) + p) = Shifted(Len(c1), Nexts(no, p))
      BY <2>1, <3>1, NextsRight
    <3> QED  BY <1>9, <1>10, <3>2
  <2>3. (n + 1) + p \in 1 .. (n + 1) + m  BY <1>10, <2>1
  <2>4. Nexts(c, (n + 1) + p) = Nexts(c2, (n + 1) + p)  BY <1>10, <2>3 DEF Nexts
  <2>5. Nexts(no, p) \subseteq F  BY <1>13
  <2> QED  BY <1>15, <2>2, <2>4, <2>5 DEF Shifted
<1>21. ASSUME NEW p \in T PROVE Nexts(c, k + p) \subseteq G
  <2>1. p \in 1 .. l /\ Lands(yes, p)  BY <1>4, <1>11, <1>14 DEF Shaped
  <2>2. Nexts(c, k + p) = Shifted(k, Nexts(yes, p))
    BY <1>4, <1>9, <1>10, <1>12, <2>1, NextsRight
  <2>3. Nexts(yes, p) \subseteq T  BY <1>14
  <2> QED  BY <1>15, <2>2, <2>3 DEF Shifted
<1>22. ASSUME NEW p \in G PROVE Nexts(c, p) \subseteq G
  <2>1. p \in 1 .. n \/ p = n + 1 \/ p \in Shifted(n + 1, F) \/ p \in Shifted(k, T)
    BY <1>10, <1>15
  <2> QED  BY <1>18, <1>19, <1>20, <1>21, <2>1 DEF Shifted
<1>23. 1 \in G  BY <1>10, <1>15
<1> QED  BY <1>1, <1>10, <1>16, <1>22, <1>23 DEF Stops

-----------------------------------------------------------------------------
(* Every mark has its layout. *)

IsInlining(fp, f) == f = [m \in Marks(fp) |-> Inline(fp, m, f)]

LEMMA FlattenSame ==
  ASSUME NEW parts, NEW f, NEW g,
         \A i \in DOMAIN parts : IsMark(parts[i]) => f[parts[i]] = g[parts[i]]
  PROVE  Flatten(parts, f) = Flatten(parts, g)
<1>1. [i \in DOMAIN parts |-> IF IsMark(parts[i]) THEN f[parts[i]] ELSE <<parts[i]>>]
        = [i \in DOMAIN parts |-> IF IsMark(parts[i]) THEN g[parts[i]] ELSE <<parts[i]>>]
  OBVIOUS
<1> QED  BY <1>1 DEF Flatten

LEMMA MarkKinds ==
  ASSUME NEW fp
  PROVE  \A m \in Marks(fp) : IsMark(m) /\ m.p \in {"Loop", "Branch"}
BY DEF Marks, Mark, IsMark

LEMMA InlineSame ==
  ASSUME NEW fp, NEW height, FramedBy(fp, height), NEW m \in Marks(fp), NEW f, NEW g,
         \A k \in Marks(fp) : height[k] < height[m] => f[k] = g[k]
  PROVE  Inline(fp, m, f) = Inline(fp, m, g)
<1>1. ASSUME NEW parts \in FramesOf(fp, m) PROVE Flatten(parts, f) = Flatten(parts, g)
  <2>1. /\ IsFrame(fp, parts)
        /\ \A i \in DOMAIN parts : IsMark(parts[i]) => height[parts[i]] < height[m]
    BY DEF FramedBy
  <2>2. \A i \in DOMAIN parts : IsMark(parts[i]) => parts[i] \in Marks(fp)
    BY <2>1 DEF IsFrame, FrameOf, IsMark
  <2> QED  BY <2>1, <2>2, FlattenSame
<1>2. CASE m.p = "Loop"
  <2>1. /\ Flatten(fp.loops[m.id].condition, f) = Flatten(fp.loops[m.id].condition, g)
        /\ Flatten(fp.loops[m.id].body, f) = Flatten(fp.loops[m.id].body, g)
    BY <1>1, <1>2 DEF FramesOf
  <2> QED  BY <1>2, <2>1 DEF Inline
<1>3. CASE m.p # "Loop"
  <2>1. /\ Flatten(fp.branches[m.id].condition, f) = Flatten(fp.branches[m.id].condition, g)
        /\ Flatten(fp.branches[m.id].true, f) = Flatten(fp.branches[m.id].true, g)
        /\ Flatten(fp.branches[m.id].false, f) = Flatten(fp.branches[m.id].false, g)
    BY <1>1, <1>3 DEF FramesOf
  <2> QED  BY <1>3, <2>1 DEF Inline
<1> QED  BY <1>2, <1>3

\* Laid out are the marks below a height.
LaidBelow(fp, height, d, f) ==
  \A m \in Marks(fp) : height[m] < d => f[m] = Inline(fp, m, f)

LEMMA InliningExists ==
  ASSUME NEW fp, NEW height, FramedBy(fp, height)
  PROVE  \E f : IsInlining(fp, f)
<1>1. PICK n : n = Cardinality(Marks(fp))  OBVIOUS
<1>2. n \in Nat /\ \A m \in Marks(fp) : height[m] \in 0 .. n
  BY <1>1, FS_CardinalityType DEF FramedBy
<1> DEFINE S == {d \in Nat : \E f : f = [m \in Marks(fp) |-> f[m]] /\ LaidBelow(fp, height, d, f)}
<1>3. 0 \in S
  <2> DEFINE f == [m \in Marks(fp) |-> m]
  <2>1. f = [m \in Marks(fp) |-> f[m]]  OBVIOUS
  <2>2. \A m \in Marks(fp) : ~(height[m] < 0)  BY <1>2
  <2> HIDE DEF f
  <2>3. LaidBelow(fp, height, 0, f)  BY <2>2 DEF LaidBelow
  <2> QED  BY <2>1, <2>3
<1>4. ASSUME NEW d \in Nat, d \in S PROVE d + 1 \in S
  <2>1. PICK f : f = [m \in Marks(fp) |-> f[m]] /\ LaidBelow(fp, height, d, f)  BY <1>4
  <2>2. PICK g : g = [m \in Marks(fp) |-> Inline(fp, m, f)]  OBVIOUS
  <2>3. \A m \in Marks(fp) : g[m] = Inline(fp, m, f)  BY <2>2
  <2>4. \A m \in Marks(fp) : height[m] < d => f[m] = g[m]  BY <2>1, <2>3 DEF LaidBelow
  <2>5. ASSUME NEW m \in Marks(fp), height[m] < d + 1 PROVE g[m] = Inline(fp, m, g)
    <3>1. \A k \in Marks(fp) : height[k] < height[m] => height[k] < d  BY <1>2, <2>5
    <3>2. \A k \in Marks(fp) : height[k] < height[m] => f[k] = g[k]  BY <2>4, <3>1
    <3>3. Inline(fp, m, f) = Inline(fp, m, g)  BY <3>2, InlineSame
    <3> QED  BY <2>3, <3>3
  <2>6. LaidBelow(fp, height, d + 1, g)  BY <2>5 DEF LaidBelow
  <2>7. g = [m \in Marks(fp) |-> g[m]]  BY <2>2
  <2> QED  BY <2>6, <2>7
<1>5. \A d \in Nat : d \in S
  <2> HIDE DEF S
  <2> QED  BY <1>3, <1>4, Induct
<1>6. n + 1 \in S  BY <1>2, <1>5
<1>7. PICK f : f = [m \in Marks(fp) |-> f[m]] /\ LaidBelow(fp, height, n + 1, f)  BY <1>6
<1>8. \A m \in Marks(fp) : height[m] < n + 1  BY <1>2
<1>9. \A m \in Marks(fp) : f[m] = Inline(fp, m, f)  BY <1>7, <1>8 DEF LaidBelow
<1>10. f = [m \in Marks(fp) |-> Inline(fp, m, f)]  BY <1>7, <1>9
<1> QED  BY <1>10 DEF IsInlining

LEMMA InlinedIs ==
  ASSUME NEW fp, NEW height, FramedBy(fp, height)
  PROVE  \A m \in Marks(fp) : Inlined(fp)[m] = Inline(fp, m, Inlined(fp))
<1>1. Inlined(fp) = CHOOSE f : IsInlining(fp, f)  BY DEF Inlined, IsInlining
<1>2. IsInlining(fp, Inlined(fp))  BY <1>1, InliningExists
<1>3. PICK f : f = Inlined(fp)  OBVIOUS
<1>4. f = [m \in Marks(fp) |-> Inline(fp, m, f)]  BY <1>2, <1>3 DEF IsInlining
<1>5. \A m \in Marks(fp) : f[m] = Inline(fp, m, f)  BY <1>4
<1> QED  BY <1>3, <1>5

-----------------------------------------------------------------------------
(* A frame whose marks are inlined. *)

\* Code that a frame may have in place of a mark.
Good(parts) ==
  Clean(parts) /\ Shaped(Instrs(parts)) /\ ~EndsInCall(Instrs(parts))

Inserted(parts, f) ==
  [i \in DOMAIN parts |-> IF IsMark(parts[i]) THEN f[parts[i]] ELSE <<parts[i]>>]

GoodMarks(fp, f, parts) ==
  IsFrame(fp, parts) /\ \A i \in 1 .. Len(parts) : IsMark(parts[i]) => Good(f[parts[i]])

LEMMA InsertedPieces ==
  ASSUME NEW fp, NEW f, NEW parts, GoodMarks(fp, f, parts)
  PROVE  /\ IsSeq(parts) /\ Pieces(Inserted(parts, f)) /\ Len(Inserted(parts, f)) = Len(parts)
         /\ \A i \in 1 .. Len(parts) :
              Inserted(parts, f)[i] = IF IsMark(parts[i]) THEN f[parts[i]] ELSE <<parts[i]>>
<1>1. PICK e : e = Inserted(parts, f)  OBVIOUS
<1>2. PICK n : n = Len(parts)  OBVIOUS
<1>3. IsSeq(parts)  BY DEF GoodMarks, IsFrame, FrameOf, IsSeq
<1>4. n \in Nat /\ DOMAIN parts = 1 .. n  BY <1>2, <1>3, LenOfAny
<1>5. e = [i \in 1 .. n |-> IF IsMark(parts[i]) THEN f[parts[i]] ELSE <<parts[i]>>]
  BY <1>1, <1>4 DEF Inserted
<1>6. /\ e = [i \in 1 .. n |-> e[i]]
      /\ \A i \in 1 .. n : e[i] = IF IsMark(parts[i]) THEN f[parts[i]] ELSE <<parts[i]>>
  BY <1>5
<1>7. IsSeq(e) /\ Len(e) = n  BY <1>4, <1>6, Tabulated
<1>8. \A i \in 1 .. n : IsSeq(e[i])  BY <1>2, <1>6, Lone DEF GoodMarks, Good, Clean
<1> QED  BY <1>1, <1>2, <1>3, <1>6, <1>7, <1>8 DEF Pieces

\* What the first k parts have become.
Prefix(parts, f, k) == Flats(Inserted(parts, f))[k]

GoodPrefix(parts, f, k) ==
  LET code == Instrs(Prefix(parts, f, k))
  IN  /\ Clean(Prefix(parts, f, k)) /\ Shaped(code)
      /\ EndsInCall(code) <=> k > 0 /\ Performs(parts[k], "FnCall")

PrefixStep(parts, f, k) ==
  Prefix(parts, f, k) = Prefix(parts, f, k - 1) \o Inserted(parts, f)[k]

LEMMA PrefixSteps ==
  ASSUME NEW fp, NEW f, NEW parts, GoodMarks(fp, f, parts)
  PROVE  /\ Prefix(parts, f, 0) = <<>>
         /\ Flatten(parts, f) = Prefix(parts, f, Len(parts))
         /\ \A k \in 1 .. Len(parts) : PrefixStep(parts, f, k)
         /\ \A k \in 0 .. Len(parts) : IsSeq(Prefix(parts, f, k))
<1>1. PICK e : e = Inserted(parts, f)  OBVIOUS
<1>2. Pieces(e) /\ Len(e) = Len(parts)  BY <1>1, InsertedPieces
<1>3. /\ Flats(e)[0] = <<>>
      /\ \A k \in 1 .. Len(e) : Flats(e)[k] = Flats(e)[k - 1] \o e[k]
      /\ \A k \in 0 .. Len(e) : IsSeq(Flats(e)[k])
      /\ FlattenSeq(e) = Flats(e)[Len(e)]
  BY <1>2, FlatSteps, FlatEnd
<1>4. Flatten(parts, f) = FlattenSeq(e)  BY <1>1 DEF Flatten, Inserted
<1> QED  BY <1>1, <1>2, <1>3, <1>4 DEF Prefix, PrefixStep

\* A part of a frame is a mark or an instruction.
LEMMA PartKinds ==
  ASSUME NEW fp, NEW parts, IsFrame(fp, parts), NEW i \in 1 .. Len(parts)
  PROVE  \/ IsMark(parts[i]) /\ parts[i] \in Marks(fp) /\ parts[i].p # "Instruction"
         \/ /\ ~IsMark(parts[i]) /\ parts[i].p = "Instruction"
            /\ parts[i].instr.op \notin Jumps
<1>1. i \in DOMAIN parts  BY LenOfAny DEF IsFrame, FrameOf, IsSeq
<1>2. CASE parts[i] \in Marks(fp)
  <2>1. IsMark(parts[i])  BY <1>2, MarkKinds
  <2> QED  BY <1>2, <2>1 DEF IsMark
<1>3. CASE parts[i].p = "Instruction" /\ parts[i].instr.op \notin {"Jump", "JumpIf"}
  BY <1>3 DEF IsMark, Jumps
<1> QED  BY <1>1, <1>2, <1>3 DEF IsFrame, FrameOf

LEMMA PrefixGood ==
  ASSUME NEW fp, NEW f, NEW parts, GoodMarks(fp, f, parts)
  PROVE  \A k \in 0 .. Len(parts) : GoodPrefix(parts, f, k)
<1>1. PICK n : n = Len(parts)  OBVIOUS
<1>2. PICK e : e = Inserted(parts, f)  OBVIOUS
<1>3. n \in Nat /\ IsFrame(fp, parts)
  BY <1>1, InsertedPieces, LenOfAny DEF GoodMarks
<1>4. \A i \in 0 .. n :
        (i > 0 /\ Performs(parts[i], "FnCall"))
          <=> (i < n /\ Performs(parts[i + 1], "TakeReturn"))
  BY <1>1, <1>3 DEF IsFrame, FrameOf
<1> DEFINE S == {k \in Nat : k <= n => GoodPrefix(parts, f, k)}
<1>5. 0 \in S
  <2>1. Prefix(parts, f, 0) = <<>>  BY PrefixSteps
  <2>2. Clean(<<>>)  BY Empty DEF Clean
  <2>3. Instrs(<<>>) = <<>>
    <3>1. Each(<<>>) = <<>>  BY Empty DEF Each
    <3> QED  BY <3>1 DEF Instrs, FlattenSeq
  <2> QED  BY <2>1, <2>2, <2>3, ShapedEmpty DEF GoodPrefix
<1>6. ASSUME NEW k \in Nat, k \in S PROVE k + 1 \in S
  <2> SUFFICES ASSUME k + 1 <= n PROVE GoodPrefix(parts, f, k + 1)  OBVIOUS
  <2>1. /\ k <= n /\ k \in 0 .. n /\ k < n /\ k + 1 \in 1 .. n /\ (k + 1) - 1 = k
        /\ k + 1 > 0
    BY <1>3
  <2>2. PICK a : a = Prefix(parts, f, k)  OBVIOUS
  <2>3. PICK b : b = e[k + 1]  OBVIOUS
  <2>4. PICK part : part = parts[k + 1]  OBVIOUS
  <2>5. Prefix(parts, f, k + 1) = a \o b
    <3>1. PrefixStep(parts, f, k + 1)  BY <1>1, <2>1, PrefixSteps
    <3>2. Prefix(parts, f, k + 1) = Prefix(parts, f, (k + 1) - 1) \o e[k + 1]
      BY <1>2, <3>1, Zenon DEF PrefixStep
    <3>3. Prefix(parts, f, (k + 1) - 1) = a  BY <2>1, <2>2
    <3> QED  BY <2>3, <3>2, <3>3, Zenon
  <2>6. GoodPrefix(parts, f, k)  BY <1>6, <2>1
  <2>7. /\ Clean(a) /\ Shaped(Instrs(a))
        /\ EndsInCall(Instrs(a)) <=> Performs(part, "TakeReturn")
    BY <1>4, <2>1, <2>2, <2>4, <2>6 DEF GoodPrefix
  <2>8. b = IF IsMark(part) THEN f[part] ELSE <<part>>
    BY <1>1, <1>2, <2>1, <2>3, <2>4, InsertedPieces
  <2>9. \/ IsMark(part) /\ part.p # "Instruction"
        \/ ~IsMark(part) /\ part.p = "Instruction" /\ part.instr.op \notin Jumps
    BY <1>1, <1>3, <2>1, <2>4, PartKinds
  <2>10. Clean(b)
    <3>1. CASE IsMark(part)  BY <1>1, <2>1, <2>4, <2>8, <3>1 DEF GoodMarks, Good
    <3>2. CASE ~IsMark(part)  BY <2>8, <2>9, <3>2, CleanLone
    <3> QED  BY <3>1, <3>2
  <2>11. Clean(a \o b)  BY <2>7, <2>10, CleanConcat
  <2>12. Instrs(a \o b) = Instrs(a) \o Instrs(b)  BY <2>7, <2>10, InstrsConcat DEF Clean
  <2>13. /\ Shaped(Instrs(a) \o Instrs(b))
         /\ EndsInCall(Instrs(a) \o Instrs(b)) <=> Performs(part, "FnCall")
    <3>1. CASE IsMark(part)
      <4>1. Good(b)  BY <1>1, <2>1, <2>4, <2>8, <3>1 DEF GoodMarks
      <4>2. ~Performs(part, "FnCall") /\ ~Performs(part, "TakeReturn")
        BY <2>9, <3>1 DEF Performs
      <4> QED  BY <2>7, <4>1, <4>2, ShapedConcat DEF Good
    <3>2. CASE ~IsMark(part) /\ part.instr.op = "TakeReturn"
      <4>1. Instrs(b) = <<part.instr>>  BY <2>8, <2>9, <3>2, InstrsLone DEF InstrOf
      <4>2. Performs(part, "TakeReturn") /\ ~Performs(part, "FnCall")
        BY <2>9, <3>2 DEF Performs
      <4> QED  BY <2>7, <3>2, <4>1, <4>2, ShapedTake
    <3>3. CASE ~IsMark(part) /\ part.instr.op # "TakeReturn"
      <4>1. Instrs(b) = <<part.instr>>  BY <2>8, <2>9, <3>3, InstrsLone DEF InstrOf
      <4>2. ~Performs(part, "TakeReturn")  BY <3>3 DEF Performs
      <4>3. Performs(part, "FnCall") <=> part.instr.op = "FnCall"
        BY <2>9, <3>3 DEF Performs
      <4>4. Shaped(Instrs(b)) /\ (EndsInCall(Instrs(b)) <=> part.instr.op = "FnCall")
        BY <2>9, <3>3, <4>1, ShapedLone
      <4> QED  BY <2>7, <4>2, <4>3, <4>4, ShapedConcat
    <3> QED  BY <3>1, <3>2, <3>3
  <2> QED  BY <2>1, <2>4, <2>5, <2>11, <2>12, <2>13 DEF GoodPrefix
<1>7. \A k \in Nat : k \in S
  <2> HIDE DEF S
  <2> QED  BY <1>5, <1>6, Induct
<1>8. \A k \in 0 .. n : k \in Nat /\ k <= n  BY <1>3
<1>9. \A k \in 0 .. n : GoodPrefix(parts, f, k)  BY <1>7, <1>8
<1> QED  BY <1>1, <1>9

LEMMA FrameGood ==
  ASSUME NEW fp, NEW f, NEW parts, GoodMarks(fp, f, parts)
  PROVE  Good(Flatten(parts, f))
<1>1. PICK n : n = Len(parts)  OBVIOUS
<1>2. n \in Nat /\ n \in 0 .. n /\ ~(n < n)  BY <1>1, InsertedPieces, LenOfAny
<1>3. GoodPrefix(parts, f, n)  BY <1>1, <1>2, PrefixGood
<1>4. ~(n > 0 /\ Performs(parts[n], "FnCall"))  BY <1>1, <1>2 DEF GoodMarks, IsFrame, FrameOf
<1>5. Flatten(parts, f) = Prefix(parts, f, n)  BY <1>1, PrefixSteps
<1> QED  BY <1>3, <1>4, <1>5 DEF GoodPrefix, Good

\* Control stops in a frame if there is a part it does not get past.
LEMMA FrameStops ==
  ASSUME NEW fp, NEW f, NEW parts, NEW falls, GoodMarks(fp, f, parts),
         ~FrameFalls(parts, falls),
         \A i \in 1 .. Len(parts) :
           IsMark(parts[i]) /\ ~falls[parts[i]] => Stops(Instrs(f[parts[i]]))
  PROVE  Stops(Instrs(Flatten(parts, f)))
<1>1. PICK n : n = Len(parts)  OBVIOUS
<1>2. PICK e : e = Inserted(parts, f)  OBVIOUS
<1>3. n \in Nat /\ IsFrame(fp, parts) /\ DOMAIN parts = 1 .. n
  BY <1>1, InsertedPieces, LenOfAny DEF GoodMarks
<1>4. /\ Pieces(e) /\ Len(e) = n
      /\ \A i \in 1 .. n : e[i] = IF IsMark(parts[i]) THEN f[parts[i]] ELSE <<parts[i]>>
  BY <1>1, <1>2, InsertedPieces
<1>5. /\ \A k \in 1 .. n : Prefix(parts, f, k) = Prefix(parts, f, k - 1) \o e[k]
      /\ \A k \in 0 .. n : IsSeq(Prefix(parts, f, k))
  <2>1. /\ \A k \in 1 .. n : PrefixStep(parts, f, k)
        /\ \A k \in 0 .. n : IsSeq(Prefix(parts, f, k))
    BY <1>1, PrefixSteps
  <2> QED  BY <1>2, <2>1, Zenon DEF PrefixStep
<1>6. \A k \in 1 .. n :
        Instrs(Prefix(parts, f, k)) = Instrs(Prefix(parts, f, k - 1)) \o Instrs(e[k])
  <2> TAKE k \in 1 .. n
  <2>1. k - 1 \in 0 .. n  BY <1>3
  <2>2. IsSeq(Prefix(parts, f, k - 1)) /\ IsSeq(e[k])  BY <1>4, <1>5, <2>1 DEF Pieces
  <2> QED  BY <1>5, <2>2, InstrsConcat
<1>7. PICK j \in 1 .. n :
        IF IsMark(parts[j]) THEN ~falls[parts[j]] ELSE Performs(parts[j], "Return")
  BY <1>3 DEF FrameFalls
<1>8. Stops(Instrs(e[j])) /\ Shaped(Instrs(e[j]))
  <2>1. CASE IsMark(parts[j])
    BY <1>1, <1>4, <1>7, <2>1 DEF GoodMarks, Good
  <2>2. CASE ~IsMark(parts[j])
    <3>1. PICK c : c = <<parts[j].instr>>  OBVIOUS
    <3>2. parts[j].p = "Instruction" /\ parts[j].instr.op = "Return"
      BY <1>7, <2>2 DEF Performs
    <3>3. Instrs(e[j]) = c  BY <1>4, <2>2, <3>1, <3>2, InstrsLone DEF InstrOf
    <3>4. Len(c) = 1 /\ c[1].op = "Return"  BY <3>1, <3>2, Lone
    <3>5. Stops(c)
      <4>1. {1} \in SUBSET (1 .. 1)  OBVIOUS
      <4>2. Nexts(c, 1) = {}  BY <3>4 DEF Nexts
      <4> QED  BY <3>4, <4>1, <4>2 DEF Stops
    <3>6. Shaped(c)  BY <3>1, <3>2, ShapedLone DEF Jumps
    <3> QED  BY <3>3, <3>5, <3>6
  <2> QED  BY <2>1, <2>2
<1> DEFINE S == {k \in Nat : j + k <= n => Stops(Instrs(Prefix(parts, f, j + k)))}
<1>9. 0 \in S
  <2>1. j - 1 \in 0 .. n /\ j + 0 = j  BY <1>3
  <2>2. GoodPrefix(parts, f, j - 1)  BY <1>1, <2>1, PrefixGood
  <2>3. Shaped(Instrs(Prefix(parts, f, j - 1)))  BY <2>2 DEF GoodPrefix
  <2>4. Stops(Instrs(Prefix(parts, f, j - 1)) \o Instrs(e[j]))  BY <1>8, <2>3, StopsRight
  <2> QED  BY <1>6, <2>1, <2>4
<1>10. ASSUME NEW k \in Nat, k \in S PROVE k + 1 \in S
  <2> SUFFICES ASSUME j + (k + 1) <= n PROVE Stops(Instrs(Prefix(parts, f, j + (k + 1))))
    OBVIOUS
  <2>1. /\ j + k <= n /\ j + k \in 0 .. n /\ j + (k + 1) \in 1 .. n
        /\ (j + (k + 1)) - 1 = j + k
    BY <1>3
  <2>2. PICK a : a = Prefix(parts, f, j + k)  OBVIOUS
  <2>3. PICK b : b = e[j + (k + 1)]  OBVIOUS
  <2>4. Stops(Instrs(a))  BY <1>10, <2>1, <2>2
  <2>5. IsSeq(a) /\ IsSeq(b)  BY <1>4, <1>5, <2>1, <2>2, <2>3 DEF Pieces
  <2>6. IsSeq(Instrs(a)) /\ IsSeq(Instrs(b))  BY <2>5, InstrsType
  <2>7. Stops(Instrs(a) \o Instrs(b))  BY <2>4, <2>6, StopsLeft
  <2> QED  BY <1>6, <2>1, <2>2, <2>3, <2>7
<1>11. \A k \in Nat : k \in S
  <2> HIDE DEF S
  <2> QED  BY <1>9, <1>10, Induct
<1>12. n - j \in Nat /\ j + (n - j) = n  BY <1>3
<1>13. Stops(Instrs(Prefix(parts, f, n)))  BY <1>11, <1>12
<1> QED  BY <1>1, <1>13, PrefixSteps

-----------------------------------------------------------------------------
(* The layouts. *)

Has(parts, code) == Clean(parts) /\ Instrs(parts) = code

\* The instructions of one more piece of a layout.
LEMMA HasMore ==
  ASSUME NEW a, NEW b, NEW code, NEW more, Has(a, code), Has(b, more)
  PROVE  Has(a \o b, code \o more)
<1>1. Clean(a) /\ Clean(b) /\ Instrs(a) = code /\ Instrs(b) = more  BY DEF Has
<1>2. IsSeq(a) /\ IsSeq(b)  BY <1>1 DEF Clean
<1>3. Instrs(a \o b) = Instrs(a) \o Instrs(b)  BY <1>2, InstrsConcat
<1>4. Clean(a \o b)  BY <1>1, CleanConcat
<1> QED  BY <1>1, <1>3, <1>4, Zenon DEF Has

LEMMA LoopGood ==
  ASSUME NEW id, NEW cond, NEW res, NEW body, Good(cond), Good(body)
  PROVE  Good(LoopLayout(id, cond, res, body))
<1>1. PICK skip : skip = RelJumpIf(FlatLen(body) + 2, FALSE, res)  OBVIOUS
<1>2. PICK loop : loop = RelJump(-(FlatLen(body) + FlatLen(cond)) - 1)  OBVIOUS
<1>3. PICK ic : ic = Instrs(cond)  OBVIOUS
<1>4. PICK ib : ib = Instrs(body)  OBVIOUS
<1>5. FlatLen(cond) = Len(ic) /\ FlatLen(body) = Len(ib)
  BY <1>3, <1>4, FlatLenCounts DEF Good
<1>6. skip.op = "JumpIf" /\ skip.rel = TRUE /\ skip.dest = Len(ib) + 2
  BY <1>1, <1>5 DEF RelJumpIf
<1>7. loop.op = "Jump" /\ loop.rel = TRUE /\ loop.dest = -(Len(ib) + Len(ic)) - 1
  BY <1>2, <1>5 DEF RelJump
<1>8. /\ Clean(cond) /\ Shaped(ic) /\ ~EndsInCall(ic)
      /\ Clean(body) /\ Shaped(ib) /\ ~EndsInCall(ib)
  BY <1>3, <1>4 DEF Good
<1>9. PICK code : code = ((ic \o <<skip>>) \o ib) \o <<loop>>  OBVIOUS
<1>10. Shaped(code) /\ ~EndsInCall(code)  BY <1>6, <1>7, <1>8, <1>9, LoopShaped
<1>11. PICK p1 : p1 = <<Mark("LoopBegin", id)>> \o cond  OBVIOUS
<1>12. PICK p2 : p2 = p1 \o Whole(<<skip>>)  OBVIOUS
<1>13. PICK p3 : p3 = p2 \o body  OBVIOUS
<1>14. PICK p4 : p4 = p3 \o Whole(<<loop>>)  OBVIOUS
<1>15. PICK p5 : p5 = p4 \o <<Mark("LoopEnd", id)>>  OBVIOUS
<1>16. Has(p1, ic)
  <2>1. Has(<<Mark("LoopBegin", id)>>, <<>>)  BY Marked DEF Has
  <2>2. Has(cond, ic)  BY <1>3, <1>8 DEF Has
  <2>3. Has(<<Mark("LoopBegin", id)>> \o cond, <<>> \o ic)  BY <2>1, <2>2, HasMore
  <2>4. IsSeq(ic)  BY <1>8 DEF Shaped
  <2>5. <<>> \o ic = ic  BY <2>4, ConcatEmpty
  <2> QED  BY <1>11, <2>3, <2>5, Zenon
<1>17. PICK i2 : i2 = ic \o <<skip>>  OBVIOUS
<1>18. Has(p2, i2)
  <2>1. Has(Whole(<<skip>>), <<skip>>)  BY WholeOne DEF Has
  <2>2. Has(p1 \o Whole(<<skip>>), ic \o <<skip>>)  BY <1>16, <2>1, HasMore
  <2> QED  BY <1>12, <1>17, <2>2, Zenon
<1>19. PICK i3 : i3 = i2 \o ib  OBVIOUS
<1>20. Has(p3, i3)
  <2>1. Has(body, ib)  BY <1>4, <1>8 DEF Has
  <2>2. Has(p2 \o body, i2 \o ib)  BY <1>18, <2>1, HasMore
  <2> QED  BY <1>13, <1>19, <2>2, Zenon
<1>21. code = i3 \o <<loop>>  BY <1>9, <1>17, <1>19, Zenon
<1>22. Has(p4, code)
  <2>1. Has(Whole(<<loop>>), <<loop>>)  BY WholeOne DEF Has
  <2>2. Has(p3 \o Whole(<<loop>>), i3 \o <<loop>>)  BY <1>20, <2>1, HasMore
  <2> QED  BY <1>14, <1>21, <2>2, Zenon
<1>23. Has(p5, code)
  <2>1. Has(<<Mark("LoopEnd", id)>>, <<>>)  BY Marked DEF Has
  <2>2. Has(p4 \o <<Mark("LoopEnd", id)>>, code \o <<>>)  BY <1>22, <2>1, HasMore
  <2>3. IsSeq(code)  BY <1>10 DEF Shaped
  <2>4. code \o <<>> = code  BY <2>3, ConcatEmpty
  <2> QED  BY <1>15, <2>2, <2>4, Zenon
<1>24. LoopLayout(id, cond, res, body) = p5
  BY <1>1, <1>2, <1>11, <1>12, <1>13, <1>14, <1>15 DEF LoopLayout
<1> QED  BY <1>10, <1>23, <1>24 DEF Good, Has

LEMMA BranchGood ==
  ASSUME NEW cond, NEW res, NEW yes, NEW no, Good(cond), Good(yes), Good(no)
  PROVE  /\ Good(BranchLayout(cond, res, yes, no))
         /\ Stops(Instrs(yes)) /\ Stops(Instrs(no)) =>
              Stops(Instrs(BranchLayout(cond, res, yes, no)))
<1>1. PICK enter : enter = RelJumpIf(FlatLen(no) + 2, TRUE, res)  OBVIOUS
<1>2. PICK leave : leave = RelJump(FlatLen(yes) + 1)  OBVIOUS
<1>3. PICK ic : ic = Instrs(cond)  OBVIOUS
<1>4. PICK iy : iy = Instrs(yes)  OBVIOUS
<1>5. PICK in : in = Instrs(no)  OBVIOUS
<1>6. FlatLen(yes) = Len(iy) /\ FlatLen(no) = Len(in)
  BY <1>4, <1>5, FlatLenCounts DEF Good
<1>7. enter.op = "JumpIf" /\ enter.rel = TRUE /\ enter.dest = Len(in) + 2
  BY <1>1, <1>6 DEF RelJumpIf
<1>8. leave.op = "Jump" /\ leave.rel = TRUE /\ leave.dest = Len(iy) + 1
  BY <1>2, <1>6 DEF RelJump
<1>9. /\ Clean(cond) /\ Shaped(ic) /\ ~EndsInCall(ic)
      /\ Clean(yes) /\ Shaped(iy) /\ ~EndsInCall(iy)
      /\ Clean(no) /\ Shaped(in) /\ ~EndsInCall(in)
  BY <1>3, <1>4, <1>5 DEF Good
<1>10. IsBranch(ic, enter, in, leave, iy)  BY <1>7, <1>8, <1>9 DEF IsBranch
<1>11. PICK code : code = BranchCode(ic, enter, in, leave, iy)  OBVIOUS
<1>12. Shaped(code) /\ ~EndsInCall(code)  BY <1>10, <1>11, BranchShaped
<1>13. Stops(iy) /\ Stops(in) => Stops(code)  BY <1>10, <1>11, BranchStops
<1>14. PICK p1 : p1 = cond \o Whole(<<enter>>)  OBVIOUS
<1>15. PICK p2 : p2 = p1 \o no  OBVIOUS
<1>16. PICK p3 : p3 = p2 \o Whole(<<leave>>)  OBVIOUS
<1>17. PICK p4 : p4 = p3 \o yes  OBVIOUS
<1>18. PICK i1 : i1 = UpToEnter(ic, enter)  OBVIOUS
<1>19. PICK i2 : i2 = UpToNo(ic, enter, in)  OBVIOUS
<1>20. PICK i3 : i3 = UpToLeave(ic, enter, in, leave)  OBVIOUS
<1>21. /\ i1 = ic \o <<enter>> /\ i2 = i1 \o in /\ i3 = i2 \o <<leave>>
       /\ code = i3 \o iy
  BY <1>11, <1>18, <1>19, <1>20 DEF UpToEnter, UpToNo, UpToLeave, BranchCode
<1>22. Has(p1, i1)
  <2>1. Has(cond, ic) /\ Has(Whole(<<enter>>), <<enter>>)
    BY <1>3, <1>9, WholeOne DEF Has
  <2>2. Has(cond \o Whole(<<enter>>), ic \o <<enter>>)  BY <2>1, HasMore
  <2> QED  BY <1>14, <1>21, <2>2, Zenon
<1>23. Has(p2, i2)
  <2>1. Has(no, in)  BY <1>5, <1>9 DEF Has
  <2>2. Has(p1 \o no, i1 \o in)  BY <1>22, <2>1, HasMore
  <2> QED  BY <1>15, <1>21, <2>2, Zenon
<1>24. Has(p3, i3)
  <2>1. Has(Whole(<<leave>>), <<leave>>)  BY WholeOne DEF Has
  <2>2. Has(p2 \o Whole(<<leave>>), i2 \o <<leave>>)  BY <1>23, <2>1, HasMore
  <2> QED  BY <1>16, <1>21, <2>2, Zenon
<1>25. Has(p4, code)
  <2>1. Has(yes, iy)  BY <1>4, <1>9 DEF Has
  <2>2. Has(p3 \o yes, i3 \o iy)  BY <1>24, <2>1, HasMore
  <2> QED  BY <1>17, <1>21, <2>2, Zenon
<1>26. BranchLayout(cond, res, yes, no) = p4
  BY <1>1, <1>2, <1>14, <1>15, <1>16, <1>17 DEF BranchLayout
<1> QED  BY <1>4, <1>5, <1>12, <1>13, <1>25, <1>26 DEF Good, Has

\* Marks are of one of two kinds, their frames those of the kind.
LEMMA MarkGood ==
  ASSUME NEW fp, NEW m \in Marks(fp), NEW f,
         \A parts \in FramesOf(fp, m) : GoodMarks(fp, f, parts)
  PROVE  Good(Inline(fp, m, f))
<1>1. \A parts \in FramesOf(fp, m) : Good(Flatten(parts, f))  BY FrameGood
<1>2. CASE m.p = "Loop"
  <2>1. PICK loop : loop = fp.loops[m.id]  OBVIOUS
  <2>2. Good(Flatten(loop.condition, f)) /\ Good(Flatten(loop.body, f))
    BY <1>1, <1>2, <2>1 DEF FramesOf
  <2>3. Inline(fp, m, f) =
          LoopLayout(m.id, Flatten(loop.condition, f), loop.result, Flatten(loop.body, f))
    BY <1>2, <2>1 DEF Inline
  <2> QED  BY <2>2, <2>3, LoopGood
<1>3. CASE m.p # "Loop"
  <2>1. PICK branch : branch = fp.branches[m.id]  OBVIOUS
  <2>2. /\ Good(Flatten(branch.condition, f)) /\ Good(Flatten(branch.true, f))
        /\ Good(Flatten(branch.false, f))
    BY <1>1, <1>3, <2>1 DEF FramesOf
  <2>3. Inline(fp, m, f) =
          BranchLayout(Flatten(branch.condition, f), branch.result,
                       Flatten(branch.true, f), Flatten(branch.false, f))
    BY <1>3, <2>1 DEF Inline
  <2> QED  BY <2>2, <2>3, BranchGood
<1> QED  BY <1>2, <1>3

-----------------------------------------------------------------------------
(* From the innermost frames outwards. *)

\* The frames of a mark, when the marks that are lower are good.
LEMMA LowerGood ==
  ASSUME NEW fp, NEW height, FramedBy(fp, height), NEW m \in Marks(fp), NEW f,
         \A k \in Marks(fp) : height[k] < height[m] => Good(f[k])
  PROVE  \A parts \in FramesOf(fp, m) : GoodMarks(fp, f, parts)
<1> TAKE parts \in FramesOf(fp, m)
<1>1. /\ IsFrame(fp, parts)
      /\ \A i \in DOMAIN parts : IsMark(parts[i]) => height[parts[i]] < height[m]
  BY DEF FramedBy
<1>2. DOMAIN parts = 1 .. Len(parts)  BY <1>1, LenOfAny DEF IsFrame, FrameOf, IsSeq
<1>3. ASSUME NEW i \in 1 .. Len(parts), IsMark(parts[i]) PROVE Good(f[parts[i]])
  <2>1. parts[i] \in Marks(fp)  BY <1>1, <1>3, PartKinds
  <2> QED  BY <1>1, <1>2, <1>3, <2>1
<1> QED  BY <1>1, <1>3 DEF GoodMarks

LEMMA Heights ==
  ASSUME NEW fp, NEW height, FramedBy(fp, height)
  PROVE  /\ Cardinality(Marks(fp)) \in Nat
         /\ \A m \in Marks(fp) : height[m] \in 0 .. Cardinality(Marks(fp))
BY FS_CardinalityType DEF FramedBy

LEMMA InlinedGood ==
  ASSUME NEW fp, NEW height, FramedBy(fp, height)
  PROVE  \A m \in Marks(fp) : Good(Inlined(fp)[m])
<1>1. PICK f : f = Inlined(fp)  OBVIOUS
<1>2. PICK n : n = Cardinality(Marks(fp))  OBVIOUS
<1>3. n \in Nat /\ \A m \in Marks(fp) : height[m] \in 0 .. n  BY <1>2, Heights
<1>4. \A m \in Marks(fp) : f[m] = Inline(fp, m, f)  BY <1>1, InlinedIs
<1> DEFINE S == {d \in Nat : \A m \in Marks(fp) : height[m] < d => Good(f[m])}
<1>5. 0 \in S  BY <1>3
<1>6. ASSUME NEW d \in Nat, d \in S PROVE d + 1 \in S
  <2>1. ASSUME NEW m \in Marks(fp), height[m] < d + 1 PROVE Good(f[m])
    <3>1. \A k \in Marks(fp) : height[k] < height[m] => height[k] < d  BY <1>3, <2>1
    <3>2. \A k \in Marks(fp) : height[k] < height[m] => Good(f[k])  BY <1>6, <3>1
    <3>3. \A parts \in FramesOf(fp, m) : GoodMarks(fp, f, parts)  BY <3>2, LowerGood
    <3>4. Good(Inline(fp, m, f))  BY <3>3, MarkGood
    <3> QED  BY <1>4, <3>4
  <2> QED  BY <2>1
<1>7. \A d \in Nat : d \in S
  <2> HIDE DEF S
  <2> QED  BY <1>5, <1>6, Induct
<1>8. n + 1 \in S  BY <1>3, <1>7
<1>9. \A m \in Marks(fp) : height[m] < n + 1  BY <1>3
<1> QED  BY <1>1, <1>8, <1>9

LEMMA MainGood ==
  ASSUME NEW fp, NEW height, FramedBy(fp, height)
  PROVE  GoodMarks(fp, Inlined(fp), fp.main)
<1>1. PICK parts : parts = fp.main  OBVIOUS
<1>2. IsFrame(fp, parts)  BY <1>1 DEF FramedBy
<1>3. \A i \in 1 .. Len(parts) : IsMark(parts[i]) => parts[i] \in Marks(fp)
  BY <1>2, PartKinds
<1> QED  BY <1>1, <1>2, <1>3, InlinedGood DEF GoodMarks

\* Control stops in the code for a mark it does not get past.
LEMMA InlinedStops ==
  ASSUME NEW fp, NEW height, NEW falls, FramedBy(fp, height), IsFalling(fp, falls)
  PROVE  \A m \in Marks(fp) : ~falls[m] => Stops(Instrs(Inlined(fp)[m]))
<1>1. PICK f : f = Inlined(fp)  OBVIOUS
<1>2. PICK n : n = Cardinality(Marks(fp))  OBVIOUS
<1>3. n \in Nat /\ \A m \in Marks(fp) : height[m] \in 0 .. n  BY <1>2, Heights
<1>4. \A m \in Marks(fp) : f[m] = Inline(fp, m, f) /\ Good(f[m])
  BY <1>1, InlinedIs, InlinedGood
<1> DEFINE S == {d \in Nat : \A m \in Marks(fp) :
                   height[m] < d /\ ~falls[m] => Stops(Instrs(f[m]))}
<1>5. 0 \in S  BY <1>3
<1>6. ASSUME NEW d \in Nat, d \in S PROVE d + 1 \in S
  <2>1. ASSUME NEW m \in Marks(fp), height[m] < d + 1, ~falls[m]
        PROVE  Stops(Instrs(f[m]))
    <3>1. \A k \in Marks(fp) : height[k] < height[m] => height[k] < d  BY <1>3, <2>1
    <3>2. \A k \in Marks(fp) : height[k] < height[m] /\ ~falls[k] => Stops(Instrs(f[k]))
      BY <1>6, <3>1
    <3>3. \A parts \in FramesOf(fp, m) : GoodMarks(fp, f, parts)  BY <1>4, LowerGood
    <3>4. ASSUME NEW parts \in FramesOf(fp, m), ~FrameFalls(parts, falls)
          PROVE  Stops(Instrs(Flatten(parts, f)))
      <4>1. /\ IsFrame(fp, parts)
            /\ \A i \in DOMAIN parts : IsMark(parts[i]) => height[parts[i]] < height[m]
        BY DEF FramedBy
      <4>2. DOMAIN parts = 1 .. Len(parts)  BY <4>1, LenOfAny DEF IsFrame, FrameOf, IsSeq
      <4>3. \A i \in 1 .. Len(parts) : IsMark(parts[i]) => parts[i] \in Marks(fp)
        BY <4>1, PartKinds
      <4>4. \A i \in 1 .. Len(parts) :
              IsMark(parts[i]) /\ ~falls[parts[i]] => Stops(Instrs(f[parts[i]]))
        BY <3>2, <4>1, <4>2, <4>3
      <4> QED  BY <3>3, <3>4, <4>4, FrameStops
    <3>5. PICK branch : branch = fp.branches[m.id]  OBVIOUS
    <3>6. /\ m.p # "Loop" /\ ~FrameFalls(branch.true, falls)
          /\ ~FrameFalls(branch.false, falls)
      BY <2>1, <3>5 DEF IsFalling, MarkFalls
    <3>7. FramesOf(fp, m) = {branch.condition, branch.true, branch.false}
      BY <3>5, <3>6 DEF FramesOf
    <3>8. /\ Good(Flatten(branch.condition, f)) /\ Good(Flatten(branch.true, f))
          /\ Good(Flatten(branch.false, f))
      BY <3>3, <3>7, FrameGood
    <3>9. /\ Stops(Instrs(Flatten(branch.true, f)))
          /\ Stops(Instrs(Flatten(branch.false, f)))
      BY <3>4, <3>6, <3>7
    <3>10. Inline(fp, m, f) =
             BranchLayout(Flatten(branch.condition, f), branch.result,
                          Flatten(branch.true, f), Flatten(branch.false, f))
      BY <3>5, <3>6 DEF Inline
    <3> QED  BY <1>4, <3>8, <3>9, <3>10, BranchGood
  <2> QED  BY <2>1
<1>7. \A d \in Nat : d \in S
  <2> HIDE DEF S
  <2> QED  BY <1>5, <1>6, Induct
<1>8. n + 1 \in S  BY <1>3, <1>7
<1>9. \A m \in Marks(fp) : height[m] < n + 1  BY <1>3
<1> QED  BY <1>1, <1>8, <1>9

-----------------------------------------------------------------------------
(* What the executor is given. *)

LEMMA CompiledShaped ==
  ASSUME NEW fp, NEW height, FramedBy(fp, height)
  PROVE  Compiled(fp) = Instrs(SecondPass(fp)) /\ Shaped(Compiled(fp))
<1>1. Good(SecondPass(fp))  BY MainGood, FrameGood DEF SecondPass
<1> QED  BY <1>1, ThirdPassDrops DEF Good, Compiled

\* Addresses are counted from 0, places from 1.
LEMMA SuccessorsNext ==
  ASSUME NEW code, Shaped(code), NEW a \in Addresses(code), NEW b
  PROVE  b \in Successors(code, a) <=> b \in Int /\ b + 1 \in Nexts(code, a + 1)
<1>1. PICK n : n = Len(code)  OBVIOUS
<1>2. n \in Nat  BY <1>1, LenOfAny DEF Shaped
<1>3. a \in Int /\ a + 1 \in 1 .. n  BY <1>1, <1>2 DEF Addresses
<1>4. PICK i : i = code[a + 1]  OBVIOUS
<1>5. Lands(code, a + 1)  BY <1>1, <1>3 DEF Shaped
<1>6. i.op \in Jumps => i.rel = TRUE /\ i.dest \in Int /\ Target(i, a) = a + i.dest
  BY <1>4, <1>5 DEF Lands, Target
<1>7. CASE i.op = "Return"  BY <1>4, <1>7 DEF Successors, Nexts
<1>8. CASE i.op = "Jump"
  <2>1. Successors(code, a) = {a + i.dest} /\ Nexts(code, a + 1) = {(a + 1) + i.dest}
    BY <1>4, <1>6, <1>8 DEF Successors, Nexts, Jumps
  <2>2. i.dest \in Int  BY <1>6, <1>8 DEF Jumps
  <2> QED  BY <1>3, <2>1, <2>2
<1>9. CASE i.op = "JumpIf"
  <2>1. /\ Successors(code, a) = {a + i.dest, a + 1}
        /\ Nexts(code, a + 1) = {(a + 1) + i.dest, (a + 1) + 1}
    BY <1>4, <1>6, <1>9 DEF Successors, Nexts, Jumps
  <2>2. i.dest \in Int  BY <1>6, <1>9 DEF Jumps
  <2> QED  BY <1>3, <2>1, <2>2
<1>10. CASE i.op \notin {"Return", "Jump", "JumpIf"}
  <2>1. Successors(code, a) = {a + 1} /\ Nexts(code, a + 1) = {(a + 1) + 1}
    BY <1>4, <1>10 DEF Successors, Nexts
  <2> QED  BY <1>3, <2>1
<1> QED  BY <1>7, <1>8, <1>9, <1>10

\* Control goes from a call to where its answer is taken, and to there from
\* nowhere else.
LEMMA AnswersTaken ==
  ASSUME NEW code, Shaped(code), NEW a \in Addresses(code), NEW b \in Successors(code, a),
         b \in Addresses(code)
  PROVE  code[a + 1].op = "FnCall" <=> code[b + 1].op = "TakeReturn"
<1>1. PICK n : n = Len(code)  OBVIOUS
<1>2. n \in Nat  BY <1>1, LenOfAny DEF Shaped
<1>3. a \in Int /\ b \in Int /\ a + 1 \in 1 .. n /\ b + 1 \in 1 .. n /\ b + 1 <= n
  BY <1>1, <1>2 DEF Addresses
<1>4. /\ Lands(code, a + 1)
      /\ Taken(code, b + 1) <=> Called(code, b + 1)
  BY <1>1, <1>3 DEF Shaped
<1>5. Taken(code, b + 1) <=> code[b + 1].op = "TakeReturn"  BY <1>1, <1>3 DEF Taken
<1>6. b + 1 \in Nexts(code, a + 1)  BY SuccessorsNext
<1>7. Called(code, b + 1) <=> code[a + 1].op = "FnCall"
  <2>1. CASE b + 1 = (a + 1) + 1
    <3>1. (b + 1) - 1 = a + 1 /\ b + 1 > 1  BY <1>3, <2>1
    <3> QED  BY <3>1 DEF Called
  <2>2. CASE b + 1 # (a + 1) + 1
    <3>1. code[a + 1].op \in Jumps /\ b + 1 = (a + 1) + code[a + 1].dest
      BY <1>6, <2>2 DEF Nexts, Jumps
    <3>2. ~Called(code, b + 1)  BY <1>4, <3>1 DEF Lands
    <3> QED  BY <3>1, <3>2 DEF Jumps
  <2> QED  BY <2>1, <2>2
<1> QED  BY <1>4, <1>5, <1>7

LEMMA ShapedOK ==
  ASSUME NEW code, Shaped(code), NEW flow, 0 \in flow, flow \subseteq Addresses(code),
         \A a \in flow : Successors(code, a) \subseteq flow, Len(code) <= MaxIP
  PROVE  CodeOK(code, flow)
<1>1. PICK n : n = Len(code)  OBVIOUS
<1>2. n \in Nat /\ n > 0  BY <1>1, LenOfAny DEF Shaped, Addresses
<1>3. code[1].op # "TakeReturn"
  <2>1. 1 \in 1 .. n /\ 1 <= n /\ ~(1 > 1)  BY <1>2
  <2>2. Taken(code, 1) <=> Called(code, 1)  BY <1>1, <2>1 DEF Shaped
  <2> QED  BY <1>1, <2>1, <2>2 DEF Taken, Called
<1>4. ASSUME NEW a \in flow
      PROVE  /\ code[a + 1].op = "FnCall" => code[a + 2].op = "TakeReturn"
             /\ code[a + 1].op # "FnCall" =>
                  \A b \in Successors(code, a) : code[b + 1].op # "TakeReturn"
  <2>1. /\ a \in Addresses(code)
        /\ \A b \in Successors(code, a) : b \in Addresses(code)
    OBVIOUS
  <2>2. \A b \in Successors(code, a) :
          code[a + 1].op = "FnCall" <=> code[b + 1].op = "TakeReturn"
    BY <2>1, AnswersTaken
  <2>3. code[a + 1].op = "FnCall" => a + 1 \in Successors(code, a)  BY DEF Successors
  <2>4. a \in Int  BY <1>1, <1>2, <2>1 DEF Addresses
  <2>5. (a + 1) + 1 = a + 2  BY <2>4
  <2> QED  BY <2>2, <2>3, <2>5
<1> QED  BY <1>3, <1>4 DEF CodeOK

\* The code of a function whose body is well nested stays inside, or goes just
\* past its end, and keeps every call with the instruction that takes its
\* answer: whatever part of it control reaches is what the executor relies on
\* if the end is no part of it (second_pass.rs, third_pass.rs).
THEOREM InliningKeepsCalls ==
  ASSUME NEW fp, NEW height, FramedBy(fp, height)
  PROVE  LET code == ThirdPass(SecondPass(fp)) IN
         /\ \A a \in Addresses(code) : Successors(code, a) \subseteq 0 .. Len(code)
         /\ \A flow \in SUBSET Addresses(code) :
              /\ 0 \in flow /\ Len(code) <= MaxIP
              /\ \A a \in flow : Successors(code, a) \subseteq flow
              => CodeOK(code, flow)
<1>1. PICK code : code = Compiled(fp)  OBVIOUS
<1>2. Shaped(code)  BY <1>1, CompiledShaped
<1>3. PICK n : n = Len(code)  OBVIOUS
<1>4. n \in Nat  BY <1>2, <1>3, LenOfAny DEF Shaped
<1>5. ASSUME NEW a \in Addresses(code), NEW b \in Successors(code, a)
      PROVE  b \in 0 .. n
  <2>1. b \in Int /\ b + 1 \in Nexts(code, a + 1)  BY <1>2, SuccessorsNext
  <2>2. a + 1 \in 1 .. n  BY <1>3, <1>4 DEF Addresses
  <2>3. Nexts(code, a + 1) \subseteq 1 .. n + 1  BY <1>2, <1>3, <2>2, NextsIn
  <2>4. b + 1 \in 1 .. n + 1  BY <2>1, <2>3
  <2> QED  BY <1>4, <2>1, <2>4
<1>6. ASSUME NEW flow \in SUBSET Addresses(code), 0 \in flow, Len(code) <= MaxIP,
             \A a \in flow : Successors(code, a) \subseteq flow
      PROVE  CodeOK(code, flow)
  BY <1>2, <1>6, ShapedOK
<1> QED  BY <1>1, <1>3, <1>5, <1>6 DEF Compiled

\* A function control cannot get past: control never leaves its code, so there
\* is a flow for which the executor may rely on it.  It is what makes refusing
\* the functions that may not return enough (return_trace.rs, second_pass.rs).
THEOREM ReturningStaysInside ==
  ASSUME NEW fp, NEW height, NEW falls, FramedBy(fp, height), IsFalling(fp, falls),
         ~FrameFalls(fp.main, falls), Len(ThirdPass(SecondPass(fp))) <= MaxIP
  PROVE  \E flow : CodeOK(ThirdPass(SecondPass(fp)), flow)
<1>1. PICK code : code = Compiled(fp)  OBVIOUS
<1>2. Shaped(code) /\ code = Instrs(SecondPass(fp))  BY <1>1, CompiledShaped
<1>3. PICK parts : parts = fp.main  OBVIOUS
<1>4. PICK f : f = Inlined(fp)  OBVIOUS
<1>5. GoodMarks(fp, f, parts) /\ IsFrame(fp, parts)  BY <1>3, <1>4, MainGood DEF GoodMarks
<1>6. \A i \in 1 .. Len(parts) :
        IsMark(parts[i]) /\ ~falls[parts[i]] => Stops(Instrs(f[parts[i]]))
  BY <1>4, <1>5, PartKinds, InlinedStops
<1>7. Stops(Instrs(Flatten(parts, f)))  BY <1>3, <1>5, <1>6, FrameStops
<1>8. Stops(code)  BY <1>2, <1>3, <1>4, <1>7 DEF SecondPass
<1>9. PICK n : n = Len(code)  OBVIOUS
<1>10. n \in Nat  BY <1>2, <1>9, LenOfAny DEF Shaped
<1>11. PICK F \in SUBSET (1 .. n) : 1 \in F /\ \A p \in F : Nexts(code, p) \subseteq F
  BY <1>8, <1>9 DEF Stops
<1>12. PICK flow : flow = {a \in Addresses(code) : a + 1 \in F}  OBVIOUS
<1>13. 0 \in flow  BY <1>9, <1>10, <1>11, <1>12 DEF Addresses
<1>14. ASSUME NEW a \in flow, NEW b \in Successors(code, a) PROVE b \in flow
  <2>1. a \in Addresses(code) /\ a + 1 \in F  BY <1>12
  <2>2. b \in Int /\ b + 1 \in Nexts(code, a + 1)  BY <1>2, <2>1, SuccessorsNext
  <2>3. b + 1 \in F  BY <1>11, <2>1, <2>2
  <2>4. b + 1 \in 1 .. n  BY <1>11, <2>3
  <2>5. b \in 0 .. n - 1  BY <1>10, <2>2, <2>4
  <2> QED  BY <1>9, <1>12, <2>3, <2>5 DEF Addresses
<1>15. flow \subseteq Addresses(code)  BY <1>12
<1>16. CodeOK(code, flow)
  <2>1. Len(code) <= MaxIP  BY <1>1 DEF Compiled
  <2> QED  BY <1>2, <1>13, <1>14, <1>15, <2>1, ShapedOK
<1> QED  BY <1>1, <1>16 DEF Compiled

=============================================================================
