----------------------------- MODULE ScopeProofs -----------------------------
(***************************************************************************)
(* Scope resolution on any graph of nested paths that follows a text: the  *)
(* scopes that are open where control is see the declarations that reach   *)
(* the place, so every name denotes what the text says.                    *)
(***************************************************************************)
EXTENDS Resolving, TraverseProofs, FiniteSetTheorems

Place == Seq(Nat \X Nat)

-----------------------------------------------------------------------------
(* Places. *)

LEMMA Coordinates ==
  ASSUME NEW u \in Place
  PROVE  /\ Len(u) \in Nat /\ u = <<>> <=> Len(u) = 0
         /\ \A i \in 1 .. Len(u) : u[i] = <<u[i][1], u[i][2]>> /\ u[i][1] \in Nat /\ u[i][2] \in Nat
<1>1. Len(u) \in Nat /\ (u = <<>> <=> Len(u) = 0)  BY DEF Place
<1>2. \A i \in 1 .. Len(u) : u[i] \in Nat \X Nat  BY DEF Place
<1> QED  BY <1>1, <1>2

\* Places with the same coordinates are the same.
LEMMA SamePlace ==
  ASSUME NEW u \in Place, NEW v \in Place, Len(u) = Len(v), \A i \in 1 .. Len(u) : u[i] = v[i]
  PROVE  u = v
BY SeqEqual DEF Place

LEMMA Moved ==
  ASSUME NEW u \in Place, u # <<>>, NEW k \in Nat
  PROVE  LET v == Later(u, k)
             n == Len(u)
         IN  /\ v \in Place /\ v # <<>> /\ Len(v) = n /\ n \in Nat \ {0} /\ n \in 1 .. n
             /\ \A i \in 1 .. n - 1 : v[i] = u[i]
             /\ v[n][1] = u[n][1] /\ v[n][2] = u[n][2] + k
<1> DEFINE n == Len(u)
           x == <<u[n][1], u[n][2] + k>>
<1>1. n \in Nat \ {0} /\ n \in 1 .. n  BY Coordinates
<1>2. x \in Nat \X Nat /\ x[1] = u[n][1] /\ x[2] = u[n][2] + k  BY <1>1, Coordinates
<1>3. Later(u, k) = [u EXCEPT ![n] = x]  BY <1>1 DEF Later, Place
<1>4. PICK y : y = x  OBVIOUS
<1>5. LET v == [u EXCEPT ![n] = y] IN
      /\ v \in Place /\ v # <<>> /\ Len(v) = n
      /\ \A i \in 1 .. n - 1 : v[i] = u[i]
      /\ v[n] = y
  BY <1>1, <1>2, <1>4, Replaced DEF Place
<1> QED  BY <1>1, <1>2, <1>3, <1>4, <1>5

LEMMA NotMoved ==
  ASSUME NEW u \in Place, u # <<>>
  PROVE  Later(u, 0) = u
<1>1. PICK n : n = Len(u)  OBVIOUS
<1>2. PICK v : v = Later(u, 0)  OBVIOUS
<1>3. /\ v \in Place /\ Len(v) = n /\ n \in 1 .. n /\ n \in Nat
      /\ \A i \in 1 .. n - 1 : v[i] = u[i]
      /\ v[n][1] = u[n][1] /\ v[n][2] = u[n][2] + 0
  BY <1>1, <1>2, Moved
<1>4. v[n] = u[n]  BY <1>1, <1>3, Coordinates
<1>5. \A i \in 1 .. n : i \in 1 .. n - 1 \/ i = n  BY <1>3
<1> QED  BY <1>1, <1>2, <1>3, <1>4, <1>5, SamePlace

LEMMA MovedOn ==
  ASSUME NEW u \in Place, u # <<>>, NEW k \in Nat
  PROVE  Later(Later(u, k), 1) = Later(u, k + 1)
<1>1. PICK n : n = Len(u)  OBVIOUS
<1>2. PICK v : v = Later(u, k)  OBVIOUS
<1>3. PICK w : w = Later(v, 1)  OBVIOUS
<1>4. PICK x : x = Later(u, k + 1)  OBVIOUS
<1>5. /\ v \in Place /\ v # <<>> /\ Len(v) = n /\ n \in 1 .. n /\ n \in Nat
      /\ \A i \in 1 .. n - 1 : v[i] = u[i]
      /\ v[n][1] = u[n][1] /\ v[n][2] = u[n][2] + k
  BY <1>1, <1>2, Moved
<1>6. /\ w \in Place /\ Len(w) = n
      /\ \A i \in 1 .. n - 1 : w[i] = v[i]
      /\ w[n][1] = v[n][1] /\ w[n][2] = v[n][2] + 1
  BY <1>3, <1>5, Moved
<1>7. /\ x \in Place /\ Len(x) = n
      /\ \A i \in 1 .. n - 1 : x[i] = u[i]
      /\ x[n][1] = u[n][1] /\ x[n][2] = u[n][2] + (k + 1)
  BY <1>1, <1>4, Moved
<1>8. w[n][2] = x[n][2]
  <2>1. u[n][2] \in Nat  BY <1>1, <1>5, Coordinates
  <2> QED  BY <1>5, <1>6, <1>7, <2>1
<1>9. w[n] = x[n]
  <2>1. w[n] = <<w[n][1], w[n][2]>> /\ x[n] = <<x[n][1], x[n][2]>>
    BY <1>5, <1>6, <1>7, Coordinates
  <2> QED  BY <1>5, <1>6, <1>7, <1>8, <2>1
<1>10. \A i \in 1 .. n : i \in 1 .. n - 1 \/ i = n  BY <1>5
<1>11. w = x  BY <1>5, <1>6, <1>7, <1>9, <1>10, SamePlace
<1> QED  BY <1>2, <1>3, <1>4, <1>11

LEMMA MovedIn ==
  ASSUME NEW u \in Place, NEW v \in Place, Inside(u, v)
  PROVE  /\ Len(v) = Len(u) + 1 /\ v[Len(u) + 1][2] = 1
         /\ \A i \in 1 .. Len(u) : v[i] = u[i]
<1>1. /\ Len(v) \in Nat \ {0} /\ Last(v) = v[Len(v)] /\ Len(Front(v)) = Len(v) - 1
      /\ \A i \in 1 .. Len(v) - 1 : Front(v)[i] = v[i]
  BY Popped DEF Inside, Place
<1>2. Front(v) = u /\ Last(v)[2] = 1  BY DEF Inside
<1>3. Len(v) - 1 = Len(u) /\ Len(v) = Len(u) + 1  BY <1>1, <1>2
<1> QED  BY <1>1, <1>2, <1>3

-----------------------------------------------------------------------------
(* Declarations that reach a place. *)

LEMMA NoneReach ==
  ASSUME NEW f, NEW name
  PROVE  Reaching(f, name, <<>>) = {}
BY DEF Reaching, Reaches

LEMMA SameReachInside ==
  ASSUME NEW f, PlacedOnce(f), NEW name, NEW u \in Place, NEW v \in Place, Inside(u, v)
  PROVE  Reaching(f, name, v) = Reaching(f, name, u)
<1>1. PICK n : n = Len(u)  OBVIOUS
<1>2. n \in Nat /\ Len(v) = n + 1 /\ v[n + 1][2] = 1 /\ \A i \in 1 .. n : v[i] = u[i]
  BY <1>1, MovedIn, Coordinates
<1>3. ASSUME NEW d \in Decls(f) PROVE Reaches(d.place, v) <=> Reaches(d.place, u)
  <2>1. PICK e : e = d.place  OBVIOUS
  <2>2. PICK k : k = Len(e)  OBVIOUS
  <2>3. k \in Nat \ {0} /\ \A i \in 1 .. k : e[i][2] \in Nat \ {0}
    <3>1. e \in Seq(Nat \X (Nat \ {0})) /\ e # <<>>  BY <2>1 DEF PlacedOnce
    <3>2. \A i \in 1 .. Len(e) : e[i] \in Nat \X (Nat \ {0})  BY <3>1
    <3> QED  BY <2>2, <3>1, <3>2
  <2>4. Reaches(e, v) <=> /\ k \in 1 .. n + 1 /\ \A i \in 1 .. k - 1 : e[i] = v[i]
                          /\ e[k][1] = v[k][1] /\ e[k][2] < v[k][2]
    BY <1>2, <2>2 DEF Reaches
  <2>5. Reaches(e, u) <=> /\ k \in 1 .. n /\ \A i \in 1 .. k - 1 : e[i] = u[i]
                          /\ e[k][1] = u[k][1] /\ e[k][2] < u[k][2]
    BY <1>1, <2>2 DEF Reaches
  <2>6. CASE k \in 1 .. n
    <3>1. k \in 1 .. n + 1 /\ \A i \in 1 .. k - 1 : i \in 1 .. n  BY <1>2, <2>6
    <3> QED  BY <1>2, <2>1, <2>4, <2>5, <2>6, <3>1
  <2>7. CASE k = n + 1
    <3>1. k \in 1 .. k /\ ~(e[k][2] < 1)  BY <2>3
    <3>2. ~(k \in 1 .. n)  BY <1>2, <2>7
    <3> QED  BY <1>2, <2>1, <2>4, <2>5, <2>7, <3>1, <3>2
  <2>8. CASE ~(k \in 1 .. n + 1)
    <3>1. ~(k \in 1 .. n)  BY <1>2, <2>8
    <3> QED  BY <2>1, <2>4, <2>5, <2>8, <3>1
  <2>9. k \in 1 .. n \/ k = n + 1 \/ ~(k \in 1 .. n + 1)  BY <1>2, <2>3
  <2> QED  BY <2>6, <2>7, <2>8, <2>9
<1> QED  BY <1>3 DEF Reaching

LEMMA ReachLater ==
  ASSUME NEW f, PlacedOnce(f), NEW name, NEW u \in Place, u # <<>>
  PROVE  Reaching(f, name, Later(u, 1)) =
           Reaching(f, name, u) \cup {d \in Decls(f) : d.name = name /\ d.place = u}
<1>1. PICK n : n = Len(u)  OBVIOUS
<1>2. PICK v : v = Later(u, 1)  OBVIOUS
<1>3. /\ Len(v) = n /\ n \in 1 .. n /\ n \in Nat \ {0}
      /\ \A i \in 1 .. n - 1 : v[i] = u[i]
      /\ v[n][1] = u[n][1] /\ v[n][2] = u[n][2] + 1
  BY <1>1, <1>2, Moved
<1>4. u[n][2] \in Nat  BY <1>1, <1>3, Coordinates
<1>5. ASSUME NEW d \in Decls(f)
      PROVE  Reaches(d.place, v) <=> Reaches(d.place, u) \/ d.place = u
  <2>1. PICK e : e = d.place  OBVIOUS
  <2>2. PICK k : k = Len(e)  OBVIOUS
  <2>3. e \in Place /\ k \in Nat \ {0} /\ \A i \in 1 .. k : e[i][2] \in Nat
    <3>1. e \in Seq(Nat \X (Nat \ {0})) /\ e # <<>>  BY <2>1 DEF PlacedOnce
    <3>2. \A i \in 1 .. Len(e) : e[i] \in Nat \X Nat  BY <3>1
    <3>3. e \in Place  BY <3>1, <3>2 DEF Place
    <3> QED  BY <2>2, <3>1, <3>2, <3>3
  <2>4. Reaches(e, v) <=> /\ k \in 1 .. n /\ \A i \in 1 .. k - 1 : e[i] = v[i]
                          /\ e[k][1] = v[k][1] /\ e[k][2] < v[k][2]
    BY <1>3, <2>2 DEF Reaches
  <2>5. Reaches(e, u) <=> /\ k \in 1 .. n /\ \A i \in 1 .. k - 1 : e[i] = u[i]
                          /\ e[k][1] = u[k][1] /\ e[k][2] < u[k][2]
    BY <1>1, <2>2 DEF Reaches
  <2>6. CASE k \in 1 .. n - 1
    <3>1. k \in 1 .. n /\ \A i \in 1 .. k - 1 : i \in 1 .. n - 1  BY <1>3, <2>6
    <3>2. e # u  BY <1>1, <1>3, <2>2, <2>6
    <3> QED  BY <1>3, <2>1, <2>4, <2>5, <2>6, <3>1, <3>2
  <2>7. CASE k = n
    <3>1. e[n][2] \in Nat  BY <1>3, <2>3, <2>7
    <3>2. e[n][2] < u[n][2] + 1 <=> e[n][2] < u[n][2] \/ e[n][2] = u[n][2]  BY <1>4, <3>1
    <3>3. /\ \A i \in 1 .. n - 1 : e[i] = u[i]
          /\ e[n][1] = u[n][1] /\ e[n][2] = u[n][2]
          => e = u
      <4> SUFFICES ASSUME \A i \in 1 .. n - 1 : e[i] = u[i], e[n][1] = u[n][1], e[n][2] = u[n][2]
                   PROVE  e = u
        OBVIOUS
      <4>1. e[n] = u[n]
        <5>1. n \in 1 .. Len(e) /\ n \in 1 .. Len(u)  BY <1>1, <1>3, <2>2, <2>7
        <5>2. e[n] = <<e[n][1], e[n][2]>>  BY <2>3, <5>1, Coordinates
        <5>3. u[n] = <<u[n][1], u[n][2]>>  BY <5>1, Coordinates
        <5> QED  BY <5>2, <5>3
      <4>2. \A i \in 1 .. n : i \in 1 .. n - 1 \/ i = n  BY <1>3
      <4>3. \A i \in 1 .. n : e[i] = u[i]  BY <4>1, <4>2
      <4> QED  BY <1>1, <2>2, <2>3, <2>7, <4>3, SamePlace
    <3> QED  BY <1>3, <2>1, <2>4, <2>5, <2>7, <3>2, <3>3
  <2>8. CASE ~(k \in 1 .. n)
    <3>1. e # u  BY <1>1, <1>3, <2>2, <2>8
    <3> QED  BY <2>1, <2>4, <2>5, <2>8, <3>1
  <2>9. k \in 1 .. n - 1 \/ k = n \/ ~(k \in 1 .. n)  BY <1>3, <2>3
  <2> QED  BY <2>6, <2>7, <2>8, <2>9
<1> QED  BY <1>2, <1>5 DEF Reaching

\* The declaration at a place is the nearest one behind it.
LEMMA NearestIsLast ==
  ASSUME NEW f, PlacedOnce(f), NEW name, NEW u \in Place, u # <<>>,
         NEW d \in Decls(f), d.name = name, d.place = u
  PROVE  Reaching(f, name, Later(u, 1)) # {} /\ Nearest(Reaching(f, name, Later(u, 1))) = d
<1>1. PICK R : R = Reaching(f, name, Later(u, 1))  OBVIOUS
<1>2. d \in R  BY <1>1, ReachLater
<1>3. PICK n : n = Len(u)  OBVIOUS
<1>4. n \in Nat \ {0} /\ n \in 1 .. n /\ Last(u) = u[n] /\ u[n][2] \in Nat
  BY <1>3, Coordinates, Popped DEF Place, Last
<1>5. ASSUME NEW e \in R
      PROVE  /\ e \in Decls(f) /\ AsNear(u, e.place)
             /\ AsNear(e.place, u) => e.place = u
  <2>1. e \in Decls(f) /\ (Reaches(e.place, u) \/ e.place = u)
    BY <1>1, ReachLater DEF Reaching
  <2>2. CASE e.place = u  BY <1>3, <1>4, <2>1, <2>2 DEF AsNear
  <2>3. CASE Reaches(e.place, u)
    <3>1. PICK x : x = e.place  OBVIOUS
    <3>2. PICK k : k = Len(x)  OBVIOUS
    <3>3. k \in 1 .. n /\ x[k][1] = u[k][1] /\ x[k][2] < u[k][2]
      BY <1>3, <2>3, <3>1, <3>2 DEF Reaches
    <3>4. Last(x) = x[k]  BY <3>2 DEF Last
    <3>5. x[k][2] \in Nat
      <4>1. x \in Seq(Nat \X (Nat \ {0}))  BY <2>1, <3>1 DEF PlacedOnce
      <4>2. k \in 1 .. k  BY <1>4, <3>3
      <4>3. x[k] \in Nat \X (Nat \ {0})  BY <3>2, <4>1, <4>2
      <4> QED  BY <4>3
    <3>6. n > k \/ (n = k /\ u[n][2] >= x[k][2])  BY <1>4, <3>3, <3>5
    <3>7. ~(k > n) /\ ~(k = n /\ x[k][2] >= u[n][2])  BY <1>4, <3>3, <3>5
    <3> QED  BY <1>3, <1>4, <2>1, <3>1, <3>2, <3>4, <3>6, <3>7 DEF AsNear
  <2> QED  BY <2>1, <2>2, <2>3
<1>6. Nearest(R) \in R /\ \A e \in R : AsNear(Nearest(R).place, e.place)
  <2>1. \E x \in R : \A e \in R : AsNear(x.place, e.place)  BY <1>2, <1>5
  <2> QED  BY <2>1 DEF Nearest
<1>7. Nearest(R).place = u  BY <1>2, <1>5, <1>6
<1>8. Nearest(R) = d  BY <1>2, <1>5, <1>6, <1>7 DEF PlacedOnce
<1> QED  BY <1>1, <1>2, <1>8

-----------------------------------------------------------------------------
(* Scopes. *)

\* The scope in which the names denote what they denote at place u.
Sees(f, scope, u) ==
  /\ scope = Scoped(scope.vars, scope.fns) /\ scope.fns = f.outer.fns
  /\ \A name : name \in DOMAIN scope.vars <=> Reaching(f, name, u) # {} \/ name \in ToSet(f.params)
  /\ \A name \in DOMAIN scope.vars : scope.vars[name] = Denoted(f, name, {"var"}, u)

LEMMA LookedUp ==
  ASSUME NEW f, NEW scope, NEW u, Sees(f, scope, u), NEW name
  PROVE  /\ VarId(scope, name) = Denoted(f, name, {"var"}, u)
         /\ GetFn(scope, name) = Denoted(f, name, {"fn"}, u)
         /\ BindingInfo(scope, name) = Denoted(f, name, {"var", "fn"}, u)
<1> DEFINE has == Reaching(f, name, u) # {} \/ name \in ToSet(f.params)
<1>1. name \in DOMAIN scope.vars <=> has  BY DEF Sees
<1>2. name \in DOMAIN scope.vars => scope.vars[name] = Denoted(f, name, {"var"}, u)  BY DEF Sees
<1>3. ~has => Denoted(f, name, {"var"}, u) = Unknown  BY DEF Denoted
<1>4. has => Denoted(f, name, {"var", "fn"}, u) = Denoted(f, name, {"var"}, u)  BY DEF Denoted
<1>5. ~has => Denoted(f, name, {"var", "fn"}, u) = Denoted(f, name, {"fn"}, u)  BY DEF Denoted
<1>6. GetFn(scope, name) = Denoted(f, name, {"fn"}, u)  BY DEF Sees, GetFn, Denoted
<1> HIDE DEF has
<1> QED  BY <1>1, <1>2, <1>3, <1>4, <1>5, <1>6 DEF VarId, BindingInfo

\* Nothing is declared between two places.
LEMMA SeesAlso ==
  ASSUME NEW f, NEW scope, NEW u, NEW v, Sees(f, scope, u),
         \A name : Reaching(f, name, v) = Reaching(f, name, u)
  PROVE  Sees(f, scope, v)
<1>1. \A name : Denoted(f, name, {"var"}, v) = Denoted(f, name, {"var"}, u)  BY DEF Denoted
<1> QED  BY <1>1 DEF Sees

\* The declaration at a place is one of a name.
LEMMA SeesDeclared ==
  ASSUME NEW f, PlacedOnce(f), NEW scope, NEW u \in Place, u # <<>>, Sees(f, scope, u),
         NEW d \in Decls(f), d.place = u
  PROVE  Sees(f, InsertVar(scope, d.name, d.var), Later(u, 1))
<1> DEFINE v == Later(u, 1)
<1>1. PICK known, fns : known = scope.vars /\ fns = scope.fns  OBVIOUS
<1>2. scope = [vars |-> known, fns |-> fns]  BY <1>1 DEF Sees, Scoped
<1>3. PICK more : more = Put(known, d.name, d.var)  OBVIOUS
<1>4. InsertVar(scope, d.name, d.var) = [vars |-> more, fns |-> fns]  BY <1>2, <1>3 DEF InsertVar
<1>5. /\ DOMAIN more = DOMAIN known \cup {d.name} /\ more[d.name] = d.var
      /\ \A name \in DOMAIN known : name # d.name => more[name] = known[name]
  BY <1>3 DEF Put
<1>6. Reaching(f, d.name, v) # {} /\ Nearest(Reaching(f, d.name, v)) = d  BY NearestIsLast
<1>7. ASSUME NEW name, name # d.name PROVE Reaching(f, name, v) = Reaching(f, name, u)
  <2>1. \A e \in Decls(f) : e.place = u => e = d  BY DEF PlacedOnce
  <2>2. {e \in Decls(f) : e.name = name /\ e.place = u} = {}  BY <1>7, <2>1
  <2>3. PICK none : none = {e \in Decls(f) : e.name = name /\ e.place = u}  OBVIOUS
  <2>4. Reaching(f, name, v) = Reaching(f, name, u) \cup none  BY <2>3, ReachLater
  <2> QED  BY <2>2, <2>3, <2>4
<1> HIDE DEF v
<1>8. ASSUME NEW name
      PROVE  name \in DOMAIN more <=> Reaching(f, name, v) # {} \/ name \in ToSet(f.params)
  <2>1. CASE name = d.name  BY <1>5, <1>6, <2>1
  <2>2. CASE name # d.name  BY <1>1, <1>5, <1>7, <2>2 DEF Sees
  <2> QED  BY <2>1, <2>2
<1>9. ASSUME NEW name \in DOMAIN more PROVE more[name] = Denoted(f, name, {"var"}, v)
  <2>1. CASE name = d.name
    <3>1. Denoted(f, name, {"var"}, v) = d.var  BY <1>6, <2>1 DEF Denoted
    <3> QED  BY <1>5, <2>1, <3>1
  <2>2. CASE name # d.name
    <3>1. Denoted(f, name, {"var"}, v) = Denoted(f, name, {"var"}, u)  BY <1>7, <2>2 DEF Denoted
    <3>2. name \in DOMAIN known  BY <1>5, <2>2
    <3> QED  BY <1>1, <1>5, <2>2, <3>1, <3>2 DEF Sees
  <2> QED  BY <2>1, <2>2
<1>10. fns = f.outer.fns  BY <1>1 DEF Sees
<1>11. PICK in : in = [vars |-> more, fns |-> fns]  OBVIOUS
<1>12. in.vars = more /\ in.fns = fns /\ in = Scoped(in.vars, in.fns)  BY <1>11 DEF Scoped
<1>13. Sees(f, in, v)  BY <1>8, <1>9, <1>10, <1>12 DEF Sees
<1> QED  BY <1>4, <1>11, <1>13 DEF v

LEMMA SeesOwn ==
  ASSUME NEW f, f.outer = Scoped(f.outer.vars, f.outer.fns)
  PROVE  Sees(f, FnScope(f.outer, f.params), <<>>)
<1>1. PICK fns : fns = f.outer.fns  OBVIOUS
<1>2. [f.outer EXCEPT !.vars = <<>>] = [vars |-> <<>>, fns |-> fns]  BY <1>1 DEF Scoped
<1> DEFINE bare == [vars |-> <<>>, fns |-> fns]
           known == [name \in DOMAIN <<>> \cup ToSet(f.params) |->
                      IF name \in ToSet(f.params) THEN Parameter(f.params, name) ELSE <<>>[name]]
<1>3. bare.vars = <<>>  OBVIOUS
<1>4. Parameters(bare, f.params) = [bare EXCEPT !.vars = known]  BY <1>3 DEF Parameters
<1>5. DOMAIN known = ToSet(f.params) /\ \A name \in ToSet(f.params) : known[name] = Parameter(f.params, name)
  <2>1. DOMAIN <<>> = {}  OBVIOUS
  <2> QED  BY <2>1
<1> HIDE DEF known
<1>6. FnScope(f.outer, f.params) = [vars |-> known, fns |-> fns]
  BY <1>2, <1>4 DEF FnScope
<1>7. PICK scope : scope = FnScope(f.outer, f.params)  OBVIOUS
<1>8. scope.vars = known /\ scope.fns = fns /\ scope = Scoped(known, fns)  BY <1>6, <1>7 DEF Scoped
<1>9. \A name \in ToSet(f.params) : Denoted(f, name, {"var"}, <<>>) = Parameter(f.params, name)
  BY NoneReach DEF Denoted
<1>10. Sees(f, scope, <<>>)  BY <1>1, <1>5, <1>8, <1>9, NoneReach DEF Sees
<1> QED  BY <1>7, <1>10

-----------------------------------------------------------------------------
(* The scopes that are open. *)

Prefix(v, u) == Len(v) <= Len(u) /\ \A i \in 1 .. Len(v) : v[i] = u[i]

\* One scope for each block around place u, and the function's.
Stacked(f, scopes, u) ==
  /\ Listed(scopes) /\ Len(scopes) = Len(u) + 1
  /\ scopes[1] = FnScope(f.outer, f.params)
  /\ \A v \in Place : Prefix(v, u) => Sees(f, scopes[Len(v) + 1], v)

LEMMA AnyList ==
  ASSUME NEW S, NEW s \in Seq(S)
  PROVE  Listed(s)
BY DEF Listed, ToSet

LEMMA OnTop ==
  ASSUME NEW f, NEW u \in Place, NEW scopes, Stacked(f, scopes, u)
  PROVE  /\ scopes # <<>> /\ Len(u) \in Nat /\ Len(scopes) = Len(u) + 1
         /\ Last(scopes) = scopes[Len(u) + 1] /\ Sees(f, Last(scopes), u)
<1>1. Len(u) \in Nat /\ Len(scopes) = Len(u) + 1  BY Coordinates DEF Stacked
<1>2. Len(scopes) # 0  BY <1>1
<1>3. scopes # <<>>  BY <1>2
<1>4. Prefix(u, u)  BY <1>1 DEF Prefix
<1>5. Sees(f, scopes[Len(u) + 1], u)  BY <1>4 DEF Stacked
<1> QED  BY <1>1, <1>3, <1>5 DEF Last

\* The scopes around a block are those at the places around it.
LEMMA StackedAround ==
  ASSUME NEW f, NEW u \in Place, NEW v \in Place, NEW scopes, Stacked(f, scopes, u),
         NEW more, Listed(more), Len(v) > 0, Len(more) = Len(v) + 1, Len(v) <= Len(u) + 1,
         \A i \in 1 .. Len(v) - 1 : v[i] = u[i],
         \A i \in 1 .. Len(v) : more[i] = scopes[i],
         Sees(f, more[Len(v) + 1], v)
  PROVE  Stacked(f, more, v)
<1>1. PICK n : n = Len(v)  OBVIOUS
<1>2. n \in Nat \ {0} /\ Len(u) \in Nat  BY <1>1, Coordinates
<1>3. more[1] = scopes[1]
  <2>1. 1 \in 1 .. n  BY <1>2
  <2> QED  BY <1>1, <2>1
<1>4. ASSUME NEW w \in Place, Prefix(w, v) PROVE Sees(f, more[Len(w) + 1], w)
  <2>1. PICK m : m = Len(w)  OBVIOUS
  <2>2. m \in Nat /\ m <= n /\ \A i \in 1 .. m : w[i] = v[i]  BY <1>1, <1>4, <2>1, Coordinates DEF Prefix
  <2>3. CASE m = n
    <3>1. w = v  BY <1>1, <2>1, <2>2, <2>3, SamePlace
    <3> QED  BY <3>1
  <2>4. CASE m < n
    <3>1. m <= Len(u) /\ m + 1 \in 1 .. n /\ \A i \in 1 .. m : i \in 1 .. n - 1
      BY <1>1, <1>2, <2>2, <2>4
    <3>2. Prefix(w, u)  BY <1>1, <2>1, <2>2, <3>1 DEF Prefix
    <3>3. Sees(f, scopes[m + 1], w)  BY <2>1, <3>2 DEF Stacked
    <3> QED  BY <1>1, <2>1, <3>1, <3>3
  <2> QED  BY <1>2, <2>2, <2>3, <2>4
<1> QED  BY <1>3, <1>4 DEF Stacked

LEMMA Enters ==
  ASSUME NEW f, PlacedOnce(f), NEW u \in Place, NEW v \in Place, Inside(u, v),
         NEW scopes, Stacked(f, scopes, u)
  PROVE  Stacked(f, Append(scopes, Last(scopes)), v)
<1>1. PICK top : top = Last(scopes)  OBVIOUS
<1>2. PICK more : more = Append(scopes, top)  OBVIOUS
<1>3. PICK n : n = Len(u)  OBVIOUS
<1>4. n \in Nat /\ Len(scopes) = n + 1 /\ Sees(f, top, u)  BY <1>1, <1>3, OnTop
<1>5. Len(v) = n + 1 /\ \A i \in 1 .. n : v[i] = u[i]  BY <1>3, MovedIn
<1>6. Sees(f, top, v)  BY <1>4, SameReachInside, SeesAlso
<1>7. /\ Listed(more) /\ Len(more) = n + 2 /\ more[n + 2] = top
      /\ \A i \in 1 .. n + 1 : more[i] = scopes[i]
  <2> DEFINE S == ToSet(scopes) \cup {top}
  <2>1. scopes \in Seq(S) /\ top \in S  BY DEF Stacked, Listed
  <2> HIDE DEF S
  <2>2. more \in Seq(S) /\ Len(more) = Len(scopes) + 1 /\ more[Len(scopes) + 1] = top
        /\ \A i \in 1 .. Len(scopes) : more[i] = scopes[i]
    BY <1>2, <2>1, Pushed
  <2>3. (n + 1) + 1 = n + 2  BY <1>4
  <2> QED  BY <1>4, <2>2, <2>3, AnyList
<1>8. /\ Len(v) > 0 /\ Len(more) = Len(v) + 1 /\ Len(v) <= Len(u) + 1 /\ (n + 1) - 1 = n
      /\ Len(v) + 1 = n + 2
  BY <1>3, <1>4, <1>5, <1>7
<1>9. Stacked(f, more, v)  BY <1>3, <1>5, <1>6, <1>7, <1>8, StackedAround
<1> QED  BY <1>1, <1>2, <1>9

LEMMA Leaves ==
  ASSUME NEW f, NEW u \in Place, u # <<>>, NEW scopes, Stacked(f, scopes, u)
  PROVE  /\ Front(u) \in Place /\ Len(u) = Len(Front(u)) + 1 /\ Stacked(f, Front(scopes), Front(u))
<1>1. PICK n : n = Len(u)  OBVIOUS
<1>2. PICK v : v = Front(u)  OBVIOUS
<1>3. PICK less : less = Front(scopes)  OBVIOUS
<1>4. /\ n \in Nat \ {0} /\ v \in Place /\ Len(v) = n - 1 /\ \A i \in 1 .. n - 1 : v[i] = u[i]
  BY <1>1, <1>2, Popped DEF Place
<1>5. scopes # <<>> /\ Len(scopes) = n + 1  BY <1>1, OnTop
<1>6. /\ Listed(less) /\ Len(less) = n /\ \A i \in 1 .. n : less[i] = scopes[i]
  <2>1. /\ less \in Seq(ToSet(scopes)) /\ Len(less) = Len(scopes) - 1
        /\ \A i \in 1 .. Len(scopes) - 1 : less[i] = scopes[i]
    BY <1>3, <1>5, Popped DEF Stacked, Listed
  <2>2. (n + 1) - 1 = n  BY <1>4
  <2> QED  BY <1>5, <2>1, <2>2, AnyList
<1>7. less[1] = scopes[1] /\ Len(less) = Len(v) + 1 /\ n = Len(v) + 1
  <2>1. 1 \in 1 .. n  BY <1>4
  <2> QED  BY <1>4, <1>6, <2>1
<1>8. ASSUME NEW w \in Place, Prefix(w, v) PROVE Sees(f, less[Len(w) + 1], w)
  <2>1. PICK m : m = Len(w)  OBVIOUS
  <2>2. m \in Nat /\ m <= n - 1 /\ \A i \in 1 .. m : w[i] = v[i]
    BY <1>4, <1>8, <2>1, Coordinates DEF Prefix
  <2>3. m <= n /\ m + 1 \in 1 .. n /\ \A i \in 1 .. m : i \in 1 .. n - 1  BY <1>4, <2>2
  <2>4. Prefix(w, u)  BY <1>1, <1>4, <2>1, <2>2, <2>3 DEF Prefix
  <2>5. Sees(f, scopes[m + 1], w)  BY <2>1, <2>4 DEF Stacked
  <2> QED  BY <1>6, <2>1, <2>3, <2>5
<1>9. Stacked(f, less, v)  BY <1>6, <1>7, <1>8 DEF Stacked
<1> QED  BY <1>1, <1>2, <1>3, <1>4, <1>7, <1>9

\* A statement that declares nothing.
LEMMA GoesPast ==
  ASSUME NEW f, PlacedOnce(f), NEW u \in Place, u # <<>>, NEW scopes, Stacked(f, scopes, u),
         {d \in Decls(f) : d.place = u} = {}
  PROVE  Stacked(f, scopes, Later(u, 1))
<1>1. PICK n : n = Len(u)  OBVIOUS
<1>2. PICK v : v = Later(u, 1)  OBVIOUS
<1>3. v \in Place /\ Len(v) = n /\ n \in Nat \ {0} /\ \A i \in 1 .. n - 1 : v[i] = u[i]
  BY <1>1, <1>2, Moved
<1>4. \A name : Reaching(f, name, v) = Reaching(f, name, u)  BY <1>2, ReachLater
<1>5. Sees(f, scopes[n + 1], v) /\ Len(scopes) = n + 1
  BY <1>1, <1>4, OnTop, SeesAlso
<1>6. Listed(scopes) /\ Len(v) > 0 /\ Len(v) <= Len(u) + 1  BY <1>1, <1>3 DEF Stacked
<1>7. Stacked(f, scopes, v)  BY <1>1, <1>3, <1>5, <1>6, StackedAround
<1> QED  BY <1>2, <1>7

\* A statement that declares.
LEMMA GoesPastDecl ==
  ASSUME NEW f, PlacedOnce(f), NEW u \in Place, u # <<>>, NEW scopes, Stacked(f, scopes, u),
         NEW d \in Decls(f), d.place = u
  PROVE  Stacked(f, [scopes EXCEPT ![Len(scopes)] = InsertVar(@, d.name, d.var)], Later(u, 1))
<1>1. PICK n : n = Len(u)  OBVIOUS
<1>2. PICK v : v = Later(u, 1)  OBVIOUS
<1>3. v \in Place /\ Len(v) = n /\ n \in Nat \ {0} /\ \A i \in 1 .. n - 1 : v[i] = u[i]
  BY <1>1, <1>2, Moved
<1>4. scopes # <<>> /\ Len(scopes) = n + 1 /\ Sees(f, scopes[n + 1], u)  BY <1>1, OnTop
<1>5. PICK top : top = InsertVar(scopes[n + 1], d.name, d.var)  OBVIOUS
<1>6. Sees(f, top, v)  BY <1>2, <1>4, <1>5, SeesDeclared
<1>7. PICK more : more = [scopes EXCEPT ![Len(scopes)] = top]  OBVIOUS
<1>8. more = [scopes EXCEPT ![Len(scopes)] = InsertVar(@, d.name, d.var)]  BY <1>4, <1>5, <1>7
<1>9. /\ Listed(more) /\ Len(more) = n + 1 /\ more[n + 1] = top
      /\ \A i \in 1 .. n : more[i] = scopes[i]
  <2> DEFINE S == ToSet(scopes) \cup {top}
  <2>1. scopes \in Seq(S) /\ top \in S  BY DEF Stacked, Listed
  <2> HIDE DEF S
  <2>2. more \in Seq(S) /\ Len(more) = Len(scopes) /\ more[Len(scopes)] = top
        /\ \A i \in 1 .. Len(scopes) - 1 : more[i] = scopes[i]
    BY <1>4, <1>7, <2>1, Replaced
  <2>3. (n + 1) - 1 = n  BY <1>3
  <2> QED  BY <1>4, <2>2, <2>3, AnyList
<1>10. Len(v) > 0 /\ Len(v) <= Len(u) + 1  BY <1>1, <1>3
<1>11. Stacked(f, more, v)  BY <1>1, <1>3, <1>6, <1>9, <1>10, StackedAround
<1> QED  BY <1>2, <1>8, <1>11

-----------------------------------------------------------------------------
(* The passenger. *)

IsPassenger(p) == p = [outcome |-> p.outcome, scopes |-> p.scopes, bound |-> p.bound, anon |-> p.anon]

LEMMA OutcomeSet ==
  ASSUME NEW p, IsPassenger(p), NEW x, NEW q, q = [p EXCEPT !.outcome = x]
  PROVE  /\ IsPassenger(q) /\ q.outcome = x /\ q.scopes = p.scopes
         /\ q.bound = p.bound /\ q.anon = p.anon
<1>1. PICK o, s, b, a : o = p.outcome /\ s = p.scopes /\ b = p.bound /\ a = p.anon  OBVIOUS
<1>2. p = [outcome |-> o, scopes |-> s, bound |-> b, anon |-> a]  BY <1>1 DEF IsPassenger
<1> QED  BY <1>1, <1>2 DEF IsPassenger

LEMMA ScopesSet ==
  ASSUME NEW p, IsPassenger(p), NEW x, NEW q, q = [p EXCEPT !.scopes = x]
  PROVE  /\ IsPassenger(q) /\ q.outcome = p.outcome /\ q.scopes = x
         /\ q.bound = p.bound /\ q.anon = p.anon
<1>1. PICK o, s, b, a : o = p.outcome /\ s = p.scopes /\ b = p.bound /\ a = p.anon  OBVIOUS
<1>2. p = [outcome |-> o, scopes |-> s, bound |-> b, anon |-> a]  BY <1>1 DEF IsPassenger
<1> QED  BY <1>1, <1>2 DEF IsPassenger

LEMMA BoundSet ==
  ASSUME NEW p, IsPassenger(p), NEW x, NEW q, q = [p EXCEPT !.bound = x]
  PROVE  /\ IsPassenger(q) /\ q.outcome = p.outcome /\ q.scopes = p.scopes
         /\ q.bound = x /\ q.anon = p.anon
<1>1. PICK o, s, b, a : o = p.outcome /\ s = p.scopes /\ b = p.bound /\ a = p.anon  OBVIOUS
<1>2. p = [outcome |-> o, scopes |-> s, bound |-> b, anon |-> a]  BY <1>1 DEF IsPassenger
<1> QED  BY <1>1, <1>2 DEF IsPassenger

LEMMA AnonSet ==
  ASSUME NEW p, IsPassenger(p), NEW x, NEW q, q = [p EXCEPT !.anon = x]
  PROVE  /\ IsPassenger(q) /\ q.outcome = p.outcome /\ q.scopes = p.scopes
         /\ q.bound = p.bound /\ q.anon = x
<1>1. PICK o, s, b, a : o = p.outcome /\ s = p.scopes /\ b = p.bound /\ a = p.anon  OBVIOUS
<1>2. p = [outcome |-> o, scopes |-> s, bound |-> b, anon |-> a]  BY <1>1 DEF IsPassenger
<1> QED  BY <1>1, <1>2 DEF IsPassenger

Pairs(map) == {<<k, map[k]>> : k \in DOMAIN map}
LexOf(f, names) == {<<x.key, Denoted(f, x.name, x.kinds, x.place)>> : x \in names}
Kept(f, anon, anons) == \A a \in anons : a.fn \in DOMAIN anon /\ Sees(f, anon[a.fn], a.place)

\* q is p with names and anonymous functions resolved, up to the first error.
Resolved(f, p, q, names, anons) ==
  /\ IsPassenger(q) /\ q.outcome \in {"going", "failed", "panicked"}
  /\ Pairs(q.bound) \subseteq Pairs(p.bound) \cup LexOf(f, names)
  /\ q.outcome = "going" =>
       /\ Pairs(p.bound) \cup LexOf(f, names) \subseteq Pairs(q.bound)
       /\ \A k \in DOMAIN p.anon : k \in DOMAIN q.anon /\ q.anon[k] = p.anon[k]
       /\ Kept(f, q.anon, anons)
  /\ q.outcome = "failed" => \E x \in LexOf(f, names) : x[2] = Unknown

LEMMA LexJoined ==
  ASSUME NEW f, NEW names, NEW more
  PROVE  LexOf(f, names \cup more) = LexOf(f, names) \cup LexOf(f, more)
BY DEF LexOf

LEMMA NothingResolved ==
  ASSUME NEW f, NEW p, IsPassenger(p), p.outcome \in {"going", "panicked"}
  PROVE  Resolved(f, p, p, {}, {})
BY DEF Resolved, LexOf, Kept

LEMMA SameResolved ==
  ASSUME NEW f, NEW p, NEW q, NEW r, NEW names, NEW anons, Resolved(f, p, q, names, anons),
         IsPassenger(r), r.outcome = q.outcome, r.bound = q.bound, r.anon = q.anon
  PROVE  Resolved(f, p, r, names, anons)
BY DEF Resolved

\* One after the other.
LEMMA ThenResolved ==
  ASSUME NEW f, NEW p, NEW q, NEW r, NEW names, NEW anons, NEW more, NEW others,
         Resolved(f, p, q, names, anons),
         q.outcome = "going" => Resolved(f, q, r, more, others),
         q.outcome # "going" => r = q
  PROVE  Resolved(f, p, r, names \cup more, anons \cup others)
<1>1. LexOf(f, names \cup more) = LexOf(f, names) \cup LexOf(f, more)  BY LexJoined
<1>2. CASE q.outcome # "going"
  <2>1. IsPassenger(r) /\ r.outcome \in {"failed", "panicked"}  BY <1>2 DEF Resolved
  <2>2. Pairs(r.bound) \subseteq Pairs(p.bound) \cup (LexOf(f, names) \cup LexOf(f, more))
    BY <1>2 DEF Resolved
  <2>3. r.outcome = "failed" => \E x \in LexOf(f, names) \cup LexOf(f, more) : x[2] = Unknown
    BY <1>2 DEF Resolved
  <2> QED  BY <1>1, <2>1, <2>2, <2>3 DEF Resolved
<1>3. CASE q.outcome = "going"
  <2>1. Resolved(f, q, r, more, others)  BY <1>3
  <2>2. IsPassenger(r) /\ r.outcome \in {"going", "failed", "panicked"}  BY <2>1 DEF Resolved
  <2>3. Pairs(q.bound) = Pairs(p.bound) \cup LexOf(f, names)  BY <1>3 DEF Resolved
  <2>4. Pairs(r.bound) \subseteq Pairs(p.bound) \cup (LexOf(f, names) \cup LexOf(f, more))
    BY <2>1, <2>3 DEF Resolved
  <2>5. r.outcome = "failed" => \E x \in LexOf(f, names) \cup LexOf(f, more) : x[2] = Unknown
    BY <2>1 DEF Resolved
  <2>6. ASSUME r.outcome = "going"
        PROVE  /\ Pairs(p.bound) \cup (LexOf(f, names) \cup LexOf(f, more)) \subseteq Pairs(r.bound)
               /\ \A k \in DOMAIN p.anon : k \in DOMAIN r.anon /\ r.anon[k] = p.anon[k]
               /\ Kept(f, r.anon, anons \cup others)
    <3>1. Pairs(q.bound) \cup LexOf(f, more) \subseteq Pairs(r.bound)  BY <2>1, <2>6 DEF Resolved
    <3>2. \A k \in DOMAIN p.anon : k \in DOMAIN q.anon /\ q.anon[k] = p.anon[k]
      BY <1>3 DEF Resolved
    <3>3. \A k \in DOMAIN q.anon : k \in DOMAIN r.anon /\ r.anon[k] = q.anon[k]
      BY <2>1, <2>6 DEF Resolved
    <3>4. Kept(f, q.anon, anons) /\ Kept(f, r.anon, others)  BY <1>3, <2>1, <2>6 DEF Resolved
    <3>5. Kept(f, r.anon, anons \cup others)  BY <3>3, <3>4 DEF Kept
    <3> QED  BY <2>3, <3>1, <3>2, <3>3, <3>5
  <2> QED  BY <1>1, <2>2, <2>4, <2>5, <2>6 DEF Resolved
<1> QED  BY <1>2, <1>3

NameAt(key, name, kinds, u) == [key |-> key, name |-> name, kinds |-> kinds, place |-> u]

\* A name is looked up.
LEMMA SetAt ==
  ASSUME NEW f, NEW p, IsPassenger(p), p.outcome = "going", NEW key, NEW name, NEW kinds, NEW u,
         NEW id, id = Denoted(f, name, kinds, u)
  PROVE  /\ Resolved(f, p, Set(p, key, id), {NameAt(key, name, kinds, u)}, {})
         /\ Set(p, key, id).scopes = p.scopes
<1>1. PICK x : x = NameAt(key, name, kinds, u)  OBVIOUS
<1>2. LexOf(f, {x}) = {<<key, id>>}
  <2>1. x.key = key /\ x.name = name /\ x.kinds = kinds /\ x.place = u  BY <1>1 DEF NameAt
  <2> QED  BY <2>1 DEF LexOf
<1>3. PICK q : q = Set(p, key, id)  OBVIOUS
<1>4. CASE id = Unknown
  <2>1. q = [p EXCEPT !.outcome = "failed"]  BY <1>3, <1>4 DEF Set
  <2>2. /\ IsPassenger(q) /\ q.outcome = "failed" /\ q.scopes = p.scopes /\ q.bound = p.bound
    BY <2>1, OutcomeSet
  <2>3. <<key, id>>[2] = Unknown  BY <1>4
  <2>4. \E y \in LexOf(f, {x}) : y[2] = Unknown  BY <1>2, <2>3
  <2> QED  BY <1>1, <1>3, <2>2, <2>4 DEF Resolved
<1>5. CASE id # Unknown /\ key \in DOMAIN p.bound
  <2>1. q = [p EXCEPT !.outcome = "panicked"]  BY <1>3, <1>5 DEF Set, Panics
  <2>2. /\ IsPassenger(q) /\ q.outcome = "panicked" /\ q.scopes = p.scopes /\ q.bound = p.bound
    BY <2>1, OutcomeSet
  <2> QED  BY <1>1, <1>3, <2>2 DEF Resolved
<1>6. CASE id # Unknown /\ key \notin DOMAIN p.bound
  <2>1. PICK map : map = p.bound  OBVIOUS
  <2>2. PICK more : more = Put(map, key, id)  OBVIOUS
  <2>3. q = [p EXCEPT !.bound = more]  BY <1>3, <1>6, <2>1, <2>2 DEF Set
  <2>4. /\ IsPassenger(q) /\ q.outcome = "going" /\ q.scopes = p.scopes
        /\ q.bound = more /\ q.anon = p.anon
    BY <2>3, BoundSet
  <2>5. Pairs(more) = Pairs(map) \cup {<<key, id>>}
    <3>1. key \notin DOMAIN map  BY <1>6, <2>1
    <3> QED  BY <2>2, <3>1 DEF Put, Pairs
  <2>6. Pairs(q.bound) = Pairs(p.bound) \cup LexOf(f, {x})  BY <1>2, <2>1, <2>4, <2>5
  <2>7. Kept(f, q.anon, {})  BY DEF Kept
  <2> QED  BY <1>1, <1>3, <2>4, <2>6, <2>7 DEF Resolved
<1> QED  BY <1>4, <1>5, <1>6

\* A temporary is resolved.
LEMMA TmpResolves ==
  ASSUME NEW f, NEW p, IsPassenger(p), p.outcome = "going", NEW u, Sees(f, Current(p), u), NEW t
  PROVE  /\ Resolved(f, p, ResolveTmp(p, t), TmpNames(t, u), TmpAnons(t, u))
         /\ ResolveTmp(p, t).scopes = p.scopes
<1> DEFINE Name(name, kinds) == NameAt(TmpKey(t), name, kinds, u)
<1>1. ASSUME NEW name, NEW kinds, NEW id, id = Denoted(f, name, kinds, u)
      PROVE  /\ Resolved(f, p, Set(p, TmpKey(t), id), {Name(name, kinds)}, {})
             /\ Set(p, TmpKey(t), id).scopes = p.scopes
  BY <1>1, SetAt
<1> HIDE DEF Name
<1>2. CASE t.value.v = "Binding"
  <2>1. /\ TmpNames(t, u) = {Name(t.value.name, {"var", "fn"})} /\ TmpAnons(t, u) = {}
        /\ ResolveTmp(p, t) = Set(p, TmpKey(t), BindingInfo(Current(p), t.value.name))
    BY <1>2 DEF Name, NameAt, TmpNames, TmpAnons, ResolveTmp
  <2>2. BindingInfo(Current(p), t.value.name) = Denoted(f, t.value.name, {"var", "fn"}, u)  BY LookedUp
  <2> QED  BY <1>1, <2>1, <2>2
<1>3. CASE t.value.v = "Access"
  <2>1. /\ TmpNames(t, u) = {Name(t.value.root, {"var"})} /\ TmpAnons(t, u) = {}
        /\ ResolveTmp(p, t) = Set(p, TmpKey(t), VarId(Current(p), t.value.root))
    BY <1>3 DEF Name, NameAt, TmpNames, TmpAnons, ResolveTmp
  <2>2. VarId(Current(p), t.value.root) = Denoted(f, t.value.root, {"var"}, u)  BY LookedUp
  <2> QED  BY <1>1, <2>1, <2>2
<1>4. CASE t.value.v \in {"ModAccess", "TypeInst"}
  <2>1. /\ TmpNames(t, u) = {Name(t.value.path, {"fn"})} /\ TmpAnons(t, u) = {}
        /\ ResolveTmp(p, t) = Set(p, TmpKey(t), GetFn(Current(p), t.value.path))
    BY <1>4 DEF Name, NameAt, TmpNames, TmpAnons, ResolveTmp
  <2>2. GetFn(Current(p), t.value.path) = Denoted(f, t.value.path, {"fn"}, u)  BY LookedUp
  <2> QED  BY <1>1, <2>1, <2>2
<1>5. CASE t.value.v = "AnonymousFn"
  <2>1. TmpNames(t, u) = {} /\ TmpAnons(t, u) = {[fn |-> t.value.fn, place |-> u]}
    BY <1>5 DEF TmpNames, TmpAnons
  <2>2. LexOf(f, {}) = {}  BY DEF LexOf
  <2>3. PICK q : q = ResolveTmp(p, t)  OBVIOUS
  <2>4. CASE t.value.fn \in DOMAIN p.anon
    <3>1. q = [p EXCEPT !.outcome = "panicked"]  BY <1>5, <2>3, <2>4 DEF ResolveTmp, Panics
    <3>2. /\ IsPassenger(q) /\ q.outcome = "panicked" /\ q.scopes = p.scopes /\ q.bound = p.bound
      BY <3>1, OutcomeSet
    <3> QED  BY <2>3, <3>2 DEF Resolved
  <2>5. CASE t.value.fn \notin DOMAIN p.anon
    <3>1. PICK map : map = p.anon  OBVIOUS
    <3>2. PICK more : more = Put(map, t.value.fn, Current(p))  OBVIOUS
    <3>3. q = [p EXCEPT !.anon = more]  BY <1>5, <2>3, <2>5, <3>1, <3>2 DEF ResolveTmp
    <3>4. /\ IsPassenger(q) /\ q.outcome = "going" /\ q.scopes = p.scopes
          /\ q.bound = p.bound /\ q.anon = more
      BY <3>3, AnonSet
    <3>5. /\ DOMAIN more = DOMAIN map \cup {t.value.fn} /\ more[t.value.fn] = Current(p)
          /\ \A k \in DOMAIN map : more[k] = map[k]
      <4>1. t.value.fn \notin DOMAIN map  BY <2>5, <3>1
      <4> QED  BY <3>2, <4>1 DEF Put
    <3>6. Kept(f, q.anon, TmpAnons(t, u))  BY <2>1, <3>4, <3>5 DEF Kept
    <3> QED  BY <2>1, <2>2, <2>3, <3>1, <3>4, <3>5, <3>6 DEF Resolved
  <2> QED  BY <2>4, <2>5
<1>6. CASE t.value.v \notin {"Binding", "Access", "ModAccess", "TypeInst", "AnonymousFn"}
  <2>1. TmpNames(t, u) = {} /\ TmpAnons(t, u) = {} /\ ResolveTmp(p, t) = p
    BY <1>6 DEF TmpNames, TmpAnons, ResolveTmp
  <2> QED  BY <2>1, NothingResolved
<1> QED  BY <1>2, <1>3, <1>4, <1>5, <1>6

-----------------------------------------------------------------------------
(* One after the other. *)

LEMMA Climb ==
  ASSUME NEW S, 0 \in S, \A n \in Nat : n \in S => n + 1 \in S
  PROVE  \A n \in Nat : n \in S
<1> DEFINE less == OpToRel(<, Nat)
           left == {n \in Nat : n \notin S}
<1>1. IsWellFoundedOn(less, Nat)  BY NatLessThanWellFounded DEF OpToRel
<1>2. \A m, n \in Nat : m < n => <<m, n>> \in less  BY DEF OpToRel
<1> HIDE DEF less
<1> SUFFICES ASSUME left # {} PROVE FALSE  OBVIOUS
<1>3. PICK m \in left : \A n \in left : ~(<<n, m>> \in less)  BY <1>1, WFMin
<1>4. m \in Nat /\ m # 0 /\ m - 1 \in Nat /\ m = (m - 1) + 1 /\ m - 1 < m  BY <1>3
<1> QED  BY <1>2, <1>3, <1>4

\* The passenger after each of n steps, of which the k-th resolves the given
\* names and anonymous functions.
Stepwise(f, n, after, names, anons) ==
  \A k \in 0 .. n - 1 :
    IF after[k].outcome = "going"
    THEN Resolved(f, after[k], after[k + 1], names[k + 1], anons[k + 1])
    ELSE after[k + 1] = after[k]

All(of, n) == UNION {of[k] : k \in 1 .. n}

LEMMA AllResolved ==
  ASSUME NEW f, NEW n \in Nat, NEW after, NEW names, NEW anons,
         IsPassenger(after[0]), after[0].outcome = "going", Stepwise(f, n, after, names, anons)
  PROVE  Resolved(f, after[0], after[n], All(names, n), All(anons, n))
<1> DEFINE S == {m \in Nat : m <= n =>
                   Resolved(f, after[0], after[m], All(names, m), All(anons, m))}
<1>1. ASSUME NEW m \in Nat, NEW of PROVE All(of, m + 1) = All(of, m) \cup of[m + 1]
  <2>1. \A k \in 1 .. m + 1 : k \in 1 .. m \/ k = m + 1  OBVIOUS
  <2>2. m + 1 \in 1 .. m + 1 /\ \A k \in 1 .. m : k \in 1 .. m + 1  OBVIOUS
  <2> QED  BY <2>1, <2>2 DEF All
<1>2. 0 \in S
  <2>1. All(names, 0) = {} /\ All(anons, 0) = {}  BY DEF All
  <2> QED  BY <2>1, NothingResolved
<1>3. ASSUME NEW m \in Nat, m \in S PROVE m + 1 \in S
  <2> SUFFICES ASSUME m + 1 <= n
               PROVE  Resolved(f, after[0], after[m + 1], All(names, m + 1), All(anons, m + 1))
    OBVIOUS
  <2>1. m \in 0 .. n - 1 /\ m <= n  OBVIOUS
  <2>2. Resolved(f, after[0], after[m], All(names, m), All(anons, m))  BY <1>3, <2>1
  <2>3. /\ after[m].outcome = "going" =>
             Resolved(f, after[m], after[m + 1], names[m + 1], anons[m + 1])
        /\ after[m].outcome # "going" => after[m + 1] = after[m]
    BY <2>1 DEF Stepwise
  <2>4. PICK p, q, r : p = after[0] /\ q = after[m] /\ r = after[m + 1]  OBVIOUS
  <2>5. PICK ns, more : ns = All(names, m) /\ more = names[m + 1]  OBVIOUS
  <2>6. PICK as, others : as = All(anons, m) /\ others = anons[m + 1]  OBVIOUS
  <2>7. Resolved(f, p, r, ns \cup more, as \cup others)
    <3>1. Resolved(f, p, q, ns, as)  BY <2>2, <2>4, <2>5, <2>6
    <3>2. q.outcome = "going" => Resolved(f, q, r, more, others)  BY <2>3, <2>4, <2>5, <2>6
    <3>3. q.outcome # "going" => r = q  BY <2>3, <2>4
    <3> QED  BY <3>1, <3>2, <3>3, ThenResolved
  <2>8. All(names, m + 1) = ns \cup more /\ All(anons, m + 1) = as \cup others
    BY <1>1, <2>5, <2>6
  <2> QED  BY <2>4, <2>7, <2>8
<1>4. n \in S
  <2> HIDE DEF S
  <2> QED  BY <1>2, <1>3, Climb
<1>5. n <= n  OBVIOUS
<1> QED  BY <1>4, <1>5

\* The steps of Each.
TriesTmps(p, xs, m, after) ==
  after = [k \in 0 .. m |-> IF k = 0 THEN p ELSE Try(after[k - 1], xs[k], ResolveTmp)]
TriesStmts(p, xs, m, after) ==
  after = [k \in 0 .. m |-> IF k = 0 THEN p ELSE Try(after[k - 1], xs[k], Stmt)]

\* Of the one kind or the other.
Tried(of, p, x) == IF of = "tmps" THEN Try(p, x, ResolveTmp) ELSE Try(p, x, Stmt)
Tries(of, p, xs, m, after) ==
  after = [k \in 0 .. m |-> IF k = 0 THEN p ELSE Tried(of, after[k - 1], xs[k])]

LEMMA TriesExist ==
  ASSUME NEW of, NEW p, NEW xs
  PROVE  \A m \in Nat : \E after : Tries(of, p, xs, m, after)
<1> DEFINE S == {m \in Nat : \E after : Tries(of, p, xs, m, after)}
<1>1. 0 \in S
  <2>1. Tries(of, p, xs, 0, [k \in 0 .. 0 |-> p])
    <3>1. \A k \in 0 .. 0 : k = 0  OBVIOUS
    <3> QED  BY <3>1 DEF Tries
  <2> QED  BY <2>1
<1>2. ASSUME NEW m \in Nat, m \in S PROVE m + 1 \in S
  <2>1. PICK f : Tries(of, p, xs, m, f)  BY <1>2
  <2> DEFINE h == [k \in 0 .. m + 1 |-> IF k <= m THEN f[k] ELSE Tried(of, f[m], xs[m + 1])]
  <2>2. \A k \in 0 .. m : f[k] = IF k = 0 THEN p ELSE Tried(of, f[k - 1], xs[k])
    BY <2>1 DEF Tries
  <2>3. \A k \in 0 .. m + 1 : h[k] = IF k = 0 THEN p ELSE Tried(of, h[k - 1], xs[k])
    <3> TAKE k \in 0 .. m + 1
    <3>1. CASE k = 0  BY <2>2, <3>1
    <3>2. CASE k # 0 /\ k <= m
      <4>1. k - 1 \in 0 .. m + 1 /\ k - 1 <= m /\ k \in 0 .. m  BY <3>2
      <4> QED  BY <2>2, <3>2, <4>1
    <3>3. CASE k = m + 1
      <4>1. k - 1 = m /\ ~(k <= m) /\ m \in 0 .. m + 1 /\ m <= m /\ k # 0  BY <3>3
      <4> QED  BY <3>3, <4>1
    <3> QED  BY <3>1, <3>2, <3>3
  <2>4. Tries(of, p, xs, m + 1, h)
    <3> HIDE DEF h
    <3>1. h = [k \in 0 .. m + 1 |-> h[k]]  BY DEF h
    <3> QED  BY <2>3, <3>1 DEF Tries
  <2> QED  BY <2>4
<1>3. \A m \in Nat : m \in S
  <2> HIDE DEF S
  <2> QED  BY <1>1, <1>2, Climb
<1> QED  BY <1>3

LEMMA TmpsTried ==
  ASSUME NEW p, NEW xs, Len(xs) \in Nat
  PROVE  \E after : /\ Each(p, xs, ResolveTmp) = after[Len(xs)] /\ after[0] = p
                    /\ \A k \in 0 .. Len(xs) - 1 : after[k + 1] = Try(after[k], xs[k + 1], ResolveTmp)
<1> DEFINE tried == CHOOSE after : TriesTmps(p, xs, Len(xs), after)
<1>1. TriesTmps(p, xs, Len(xs), tried)
  <2>1. PICK after : Tries("tmps", p, xs, Len(xs), after)  BY TriesExist
  <2>2. TriesTmps(p, xs, Len(xs), after)  BY <2>1 DEF Tries, TriesTmps, Tried
  <2> QED  BY <2>2
<1>2. Each(p, xs, ResolveTmp) = tried[Len(xs)]  BY DEF Each, TriesTmps
<1> HIDE DEF tried
<1>3. \A k \in 0 .. Len(xs) : tried[k] = IF k = 0 THEN p ELSE Try(tried[k - 1], xs[k], ResolveTmp)
  BY <1>1 DEF TriesTmps
<1>4. tried[0] = p  BY <1>3
<1>5. ASSUME NEW k \in 0 .. Len(xs) - 1 PROVE tried[k + 1] = Try(tried[k], xs[k + 1], ResolveTmp)
  <2>1. k + 1 \in 0 .. Len(xs) /\ k + 1 # 0 /\ (k + 1) - 1 = k  OBVIOUS
  <2> QED  BY <1>3, <2>1
<1> QED  BY <1>2, <1>4, <1>5

LEMMA StmtsTried ==
  ASSUME NEW p, NEW xs, Len(xs) \in Nat
  PROVE  \E after : /\ Each(p, xs, Stmt) = after[Len(xs)] /\ after[0] = p
                    /\ \A k \in 0 .. Len(xs) - 1 : after[k + 1] = Try(after[k], xs[k + 1], Stmt)
<1> DEFINE tried == CHOOSE after : TriesStmts(p, xs, Len(xs), after)
<1>1. TriesStmts(p, xs, Len(xs), tried)
  <2>1. PICK after : Tries("stmts", p, xs, Len(xs), after)  BY TriesExist
  <2>2. TriesStmts(p, xs, Len(xs), after)  BY <2>1 DEF Tries, TriesStmts, Tried
  <2> QED  BY <2>2
<1>2. Each(p, xs, Stmt) = tried[Len(xs)]  BY DEF Each, TriesStmts
<1> HIDE DEF tried
<1>3. \A k \in 0 .. Len(xs) : tried[k] = IF k = 0 THEN p ELSE Try(tried[k - 1], xs[k], Stmt)
  BY <1>1 DEF TriesStmts
<1>4. tried[0] = p  BY <1>3
<1>5. ASSUME NEW k \in 0 .. Len(xs) - 1 PROVE tried[k + 1] = Try(tried[k], xs[k + 1], Stmt)
  <2>1. k + 1 \in 0 .. Len(xs) /\ k + 1 # 0 /\ (k + 1) - 1 = k  OBVIOUS
  <2> QED  BY <1>3, <2>1
<1> QED  BY <1>2, <1>4, <1>5

-----------------------------------------------------------------------------
(* Temporaries, statements and blocks. *)

LEMMA TmpsResolve ==
  ASSUME NEW f, NEW p, IsPassenger(p), p.outcome = "going", NEW u, Sees(f, Current(p), u),
         NEW tmps, Listed(tmps)
  PROVE  LET q == Each(p, tmps, ResolveTmp) IN
         Resolved(f, p, q, NamesIn(tmps, u), AnonsIn(tmps, u)) /\ q.scopes = p.scopes
<1>1. PICK n \in Nat : n = Len(tmps) /\ DOMAIN tmps = 1 .. n  BY DEF Listed
<1>2. PICK after : /\ Each(p, tmps, ResolveTmp) = after[n] /\ after[0] = p
                   /\ \A k \in 0 .. n - 1 : after[k + 1] = Try(after[k], tmps[k + 1], ResolveTmp)
  BY <1>1, TmpsTried
<1> DEFINE names == [k \in 1 .. n |-> TmpNames(tmps[k], u)]
           anons == [k \in 1 .. n |-> TmpAnons(tmps[k], u)]
           S == {k \in Nat : k <= n => IsPassenger(after[k]) /\ after[k].scopes = p.scopes}
<1>3. ASSUME NEW k \in 0 .. n - 1, IsPassenger(after[k]), after[k].scopes = p.scopes,
             after[k].outcome = "going"
      PROVE  /\ Resolved(f, after[k], after[k + 1], TmpNames(tmps[k + 1], u), TmpAnons(tmps[k + 1], u))
             /\ after[k + 1].scopes = p.scopes
  <2>1. PICK q, t : q = after[k] /\ t = tmps[k + 1]  OBVIOUS
  <2>2. Current(q) = Current(p)  BY <1>3, <2>1 DEF Current
  <2>3. /\ Resolved(f, q, ResolveTmp(q, t), TmpNames(t, u), TmpAnons(t, u))
        /\ ResolveTmp(q, t).scopes = q.scopes
    BY <1>3, <2>1, <2>2, TmpResolves
  <2>4. after[k + 1] = ResolveTmp(q, t)  BY <1>2, <1>3, <2>1 DEF Try
  <2> QED  BY <1>3, <2>1, <2>3, <2>4
<1>4. ASSUME NEW k \in 0 .. n - 1, after[k].outcome # "going"
      PROVE  after[k + 1] = after[k]
  BY <1>2, <1>4 DEF Try
<1>5. 0 \in S  BY <1>2
<1>6. ASSUME NEW k \in Nat, k \in S PROVE k + 1 \in S
  <2> SUFFICES ASSUME k + 1 <= n
               PROVE  IsPassenger(after[k + 1]) /\ after[k + 1].scopes = p.scopes
    OBVIOUS
  <2>1. k \in 0 .. n - 1 /\ IsPassenger(after[k]) /\ after[k].scopes = p.scopes  BY <1>6
  <2>2. CASE after[k].outcome = "going"  BY <1>3, <2>1, <2>2 DEF Resolved
  <2>3. CASE after[k].outcome # "going"  BY <1>4, <2>1, <2>3
  <2> QED  BY <2>2, <2>3
<1>7. \A k \in Nat : k \in S
  <2> HIDE DEF S
  <2> QED  BY <1>5, <1>6, Climb
<1>8. \A k \in 0 .. n : IsPassenger(after[k]) /\ after[k].scopes = p.scopes  BY <1>7
<1>9. Stepwise(f, n, after, names, anons)
  <2> SUFFICES ASSUME NEW k \in 0 .. n - 1
               PROVE  IF after[k].outcome = "going"
                      THEN Resolved(f, after[k], after[k + 1], names[k + 1], anons[k + 1])
                      ELSE after[k + 1] = after[k]
    BY DEF Stepwise
  <2>1. k + 1 \in 1 .. n /\ k \in 0 .. n  OBVIOUS
  <2>2. names[k + 1] = TmpNames(tmps[k + 1], u) /\ anons[k + 1] = TmpAnons(tmps[k + 1], u)  BY <2>1
  <2> HIDE DEF names, anons
  <2> QED  BY <1>3, <1>4, <1>8, <2>1, <2>2
<1>10. All(names, n) = NamesIn(tmps, u) /\ All(anons, n) = AnonsIn(tmps, u)
  <2>1. ToSet(tmps) = {tmps[k] : k \in 1 .. n}  BY <1>1 DEF ToSet
  <2> QED  BY <2>1 DEF NamesIn, AnonsIn, All
<1> HIDE DEF names, anons
<1>11. Resolved(f, after[0], after[n], NamesIn(tmps, u), AnonsIn(tmps, u))
  <2>1. IsPassenger(after[0]) /\ after[0].outcome = "going"  BY <1>2
  <2>2. Resolved(f, after[0], after[n], All(names, n), All(anons, n))  BY <1>9, <2>1, AllResolved
  <2> QED  BY <1>10, <2>2
<1>12. after[n].scopes = p.scopes  BY <1>8
<1> QED  BY <1>2, <1>11, <1>12

\* What a statement is that lies at a place.
Lies(f, s, u) ==
  /\ s.s \in {"Decl", "Assign", "Expr"} /\ Listed(StmtTmps(s))
  /\ {d \in Decls(f) : d.place = u} = StmtDecls(s, u)

LEMMA StmtResolves ==
  ASSUME NEW f, PlacedOnce(f), NEW p, IsPassenger(p), p.outcome = "going", NEW u \in Place, u # <<>>,
         Stacked(f, p.scopes, u), NEW s, Lies(f, s, u)
  PROVE  /\ Resolved(f, p, Stmt(p, s), StmtNames(s, u), AnonsIn(StmtTmps(s), u))
         /\ Stmt(p, s).outcome = "going" => Stacked(f, Stmt(p, s).scopes, Later(u, 1))
<1>1. Sees(f, Current(p), u)  BY OnTop DEF Current
<1>2. PICK tmps : tmps = StmtTmps(s)  OBVIOUS
<1>3. Listed(tmps)  BY <1>2 DEF Lies
<1>4. PICK r : r = Stmt(p, s)  OBVIOUS
<1>5. CASE s.s = "Decl"
  <2>1. PICK q : q = Each(p, tmps, ResolveTmp)  OBVIOUS
  <2>2. Resolved(f, p, q, NamesIn(tmps, u), AnonsIn(tmps, u)) /\ q.scopes = p.scopes
    BY <1>1, <1>3, <2>1, TmpsResolve
  <2>3. IsPassenger(q)  BY <2>2 DEF Resolved
  <2>4. PICK scopes : scopes = [q.scopes EXCEPT ![Len(q.scopes)] = InsertVar(@, s.name, VarOf(s))]
    OBVIOUS
  <2>5. r = IF q.outcome = "going" THEN [q EXCEPT !.scopes = scopes] ELSE q
    <3>1. tmps = Tmps(<<s.value>>)  BY <1>2, <1>5 DEF StmtTmps
    <3>2. q = Resolve(p, <<s.value>>)  BY <2>1, <3>1 DEF Resolve
    <3>3. r = LocalVarDecl(p, s)  BY <1>4, <1>5 DEF Stmt
    <3>4. [q EXCEPT !.scopes[Len(q.scopes)] = InsertVar(@, s.name, VarOf(s))]
          = [q EXCEPT !.scopes = scopes]
      BY <2>3, <2>4 DEF IsPassenger
    <3> QED  BY <3>2, <3>3, <3>4 DEF LocalVarDecl
  <2>6. StmtNames(s, u) = NamesIn(tmps, u)  BY <1>2, <1>5 DEF StmtNames
  <2>7. CASE q.outcome # "going"
    <3>1. r = q  BY <2>5, <2>7
    <3> QED  BY <1>2, <1>4, <2>2, <2>6, <2>7, <3>1
  <2>8. CASE q.outcome = "going"
    <3>1. r = [q EXCEPT !.scopes = scopes]  BY <2>5, <2>8
    <3>2. /\ IsPassenger(r) /\ r.outcome = q.outcome /\ r.scopes = scopes
          /\ r.bound = q.bound /\ r.anon = q.anon
      BY <2>3, <3>1, ScopesSet
    <3>3. Resolved(f, p, r, NamesIn(tmps, u), AnonsIn(tmps, u))  BY <2>2, <3>2, SameResolved
    <3>4. PICK d : d = [name |-> s.name, var |-> VarOf(s), place |-> u]  OBVIOUS
    <3>5. d \in Decls(f) /\ d.place = u /\ d.name = s.name /\ d.var = VarOf(s)
      <4>1. {e \in Decls(f) : e.place = u} = {d}  BY <1>5, <3>4 DEF Lies, StmtDecls
      <4>2. d \in {e \in Decls(f) : e.place = u}  BY <4>1
      <4> QED  BY <3>4, <4>2
    <3>6. Stacked(f, scopes, Later(u, 1))
      <4>1. scopes = [p.scopes EXCEPT ![Len(p.scopes)] = InsertVar(@, d.name, d.var)]
        BY <2>2, <2>4, <3>5
      <4> QED  BY <3>5, <4>1, GoesPastDecl
    <3> QED  BY <1>2, <1>4, <2>6, <3>2, <3>3, <3>6
  <2> QED  BY <2>7, <2>8
<1>6. ASSUME s.s # "Decl" PROVE Stacked(f, p.scopes, Later(u, 1))
  <2>1. {d \in Decls(f) : d.place = u} = {}  BY <1>6 DEF Lies, StmtDecls
  <2> QED  BY <2>1, GoesPast
<1>7. CASE s.s = "Assign"
  <2>1. PICK x : x = NameAt(PathKey(s), s.to.root, {"var"}, u)  OBVIOUS
  <2>2. PICK id : id = VarId(Current(p), s.to.root)  OBVIOUS
  <2>3. PICK q : q = Set(p, PathKey(s), id)  OBVIOUS
  <2>4. Resolved(f, p, q, {x}, {}) /\ q.scopes = p.scopes
    <3>1. id = Denoted(f, s.to.root, {"var"}, u)  BY <1>1, <2>2, LookedUp
    <3> QED  BY <2>1, <2>3, <3>1, SetAt
  <2>5. r = IF q.outcome = "going" THEN Each(q, tmps, ResolveTmp) ELSE q
    <3>1. tmps = Tmps(Assigned(s))  BY <1>2, <1>7 DEF StmtTmps
    <3>2. r = Assignment(p, s)  BY <1>4, <1>7 DEF Stmt
    <3> QED  BY <2>2, <2>3, <3>1, <3>2 DEF Assignment, Resolve
  <2>6. StmtNames(s, u) = {x} \cup NamesIn(tmps, u)  BY <1>2, <1>7, <2>1 DEF StmtNames, NameAt
  <2>7. q.outcome = "going" =>
          Resolved(f, q, r, NamesIn(tmps, u), AnonsIn(tmps, u)) /\ r.scopes = q.scopes
    <3> SUFFICES ASSUME q.outcome = "going"
                 PROVE  Resolved(f, q, r, NamesIn(tmps, u), AnonsIn(tmps, u)) /\ r.scopes = q.scopes
      OBVIOUS
    <3>1. IsPassenger(q)  BY <2>4 DEF Resolved
    <3>2. Sees(f, Current(q), u)  BY <1>1, <2>4 DEF Current
    <3>3. r = Each(q, tmps, ResolveTmp)  BY <2>5
    <3> QED  BY <1>3, <3>1, <3>2, <3>3, TmpsResolve
  <2>8. Resolved(f, p, r, {x} \cup NamesIn(tmps, u), {} \cup AnonsIn(tmps, u))
    <3>1. q.outcome # "going" => r = q  BY <2>5
    <3> QED  BY <2>4, <2>7, <3>1, ThenResolved
  <2>9. r.outcome = "going" => r.scopes = p.scopes
    <3>1. q.outcome # "going" => r = q  BY <2>5
    <3> QED  BY <2>4, <2>7, <3>1
  <2>10. {} \cup AnonsIn(tmps, u) = AnonsIn(tmps, u)  OBVIOUS
  <2> QED  BY <1>2, <1>4, <1>6, <1>7, <2>6, <2>8, <2>9, <2>10
<1>8. CASE s.s = "Expr"
  <2>1. r = Each(p, tmps, ResolveTmp)
    <3>1. tmps = Tmps(<<s.value>>)  BY <1>2, <1>8 DEF StmtTmps
    <3> QED  BY <1>4, <1>8, <3>1 DEF Stmt, Resolve
  <2>2. Resolved(f, p, r, NamesIn(tmps, u), AnonsIn(tmps, u)) /\ r.scopes = p.scopes
    BY <1>1, <1>3, <2>1, TmpsResolve
  <2>3. StmtNames(s, u) = NamesIn(tmps, u)  BY <1>2, <1>8 DEF StmtNames
  <2> QED  BY <1>2, <1>4, <1>6, <1>8, <2>2, <2>3
<1> QED  BY <1>5, <1>7, <1>8 DEF Lies

\* The names and anonymous functions in the statements of a block at place u.
BlockNames(stmts, u) == UNION {StmtNames(stmts[i], Later(u, i - 1)) : i \in DOMAIN stmts}
BlockAnons(stmts, u) == UNION {AnonsIn(StmtTmps(stmts[i]), Later(u, i - 1)) : i \in DOMAIN stmts}

LEMMA BlockResolves ==
  ASSUME NEW f, PlacedOnce(f), NEW p, IsPassenger(p), p.outcome = "going", NEW u \in Place, u # <<>>,
         Stacked(f, p.scopes, u), NEW stmts, Listed(stmts),
         \A i \in DOMAIN stmts : Lies(f, stmts[i], Later(u, i - 1))
  PROVE  LET q == Each(p, stmts, Stmt) IN
         /\ Resolved(f, p, q, BlockNames(stmts, u), BlockAnons(stmts, u))
         /\ q.outcome = "going" => Stacked(f, q.scopes, Later(u, Len(stmts)))
<1>1. PICK n \in Nat : n = Len(stmts) /\ DOMAIN stmts = 1 .. n  BY DEF Listed
<1>2. PICK after : /\ Each(p, stmts, Stmt) = after[n] /\ after[0] = p
                   /\ \A k \in 0 .. n - 1 : after[k + 1] = Try(after[k], stmts[k + 1], Stmt)
  BY <1>1, StmtsTried
<1> DEFINE Spot(i) == Later(u, i - 1)
           names == [i \in 1 .. n |-> StmtNames(stmts[i], Spot(i))]
           anons == [i \in 1 .. n |-> AnonsIn(StmtTmps(stmts[i]), Spot(i))]
           Ready(k) == /\ IsPassenger(after[k])
                       /\ after[k].outcome = "going" => Stacked(f, after[k].scopes, Later(u, k))
           S == {k \in Nat : k <= n => Ready(k)}
<1>3. ASSUME NEW k \in 0 .. n - 1, Ready(k), after[k].outcome = "going"
      PROVE  /\ Resolved(f, after[k], after[k + 1], StmtNames(stmts[k + 1], Spot(k + 1)),
                         AnonsIn(StmtTmps(stmts[k + 1]), Spot(k + 1)))
             /\ after[k + 1].outcome = "going" => Stacked(f, after[k + 1].scopes, Later(u, k + 1))
  <2>1. k \in Nat /\ k + 1 \in 1 .. n /\ (k + 1) - 1 = k  OBVIOUS
  <2>2. PICK q, s, v, r : q = after[k] /\ s = stmts[k + 1] /\ v = Later(u, k) /\ r = after[k + 1]
    OBVIOUS
  <2>3. v \in Place /\ v # <<>> /\ Later(v, 1) = Later(u, k + 1)  BY <2>1, <2>2, Moved, MovedOn
  <2>4. Lies(f, s, v)  BY <1>1, <2>1, <2>2
  <2>5. /\ Resolved(f, q, Stmt(q, s), StmtNames(s, v), AnonsIn(StmtTmps(s), v))
        /\ Stmt(q, s).outcome = "going" => Stacked(f, Stmt(q, s).scopes, Later(v, 1))
    BY <1>3, <2>2, <2>3, <2>4, StmtResolves
  <2>6. r = Stmt(q, s)  BY <1>2, <1>3, <2>2 DEF Try
  <2>7. Spot(k + 1) = v  BY <2>1, <2>2
  <2> HIDE DEF Spot
  <2> QED  BY <2>2, <2>3, <2>5, <2>6, <2>7
<1>4. ASSUME NEW k \in 0 .. n - 1, after[k].outcome # "going"
      PROVE  after[k + 1] = after[k]
  BY <1>2, <1>4 DEF Try
<1>5. 0 \in S
  <2>1. Later(u, 0) = u  BY NotMoved
  <2> QED  BY <1>2, <2>1
<1>6. ASSUME NEW k \in Nat, k \in S PROVE k + 1 \in S
  <2> SUFFICES ASSUME k + 1 <= n PROVE Ready(k + 1)
    OBVIOUS
  <2>1. k \in 0 .. n - 1 /\ Ready(k)  BY <1>6
  <2>2. CASE after[k].outcome = "going"
    <3>1. IsPassenger(after[k + 1])  BY <1>3, <2>1, <2>2 DEF Resolved
    <3> QED  BY <1>3, <2>1, <2>2, <3>1
  <2>3. CASE after[k].outcome # "going"  BY <1>4, <2>1, <2>3
  <2> QED  BY <2>2, <2>3
<1>7. \A k \in Nat : k \in S
  <2> HIDE DEF S
  <2> QED  BY <1>5, <1>6, Climb
<1>8. \A k \in 0 .. n : Ready(k)  BY <1>7
<1>9. Stepwise(f, n, after, names, anons)
  <2> SUFFICES ASSUME NEW k \in 0 .. n - 1
               PROVE  IF after[k].outcome = "going"
                      THEN Resolved(f, after[k], after[k + 1], names[k + 1], anons[k + 1])
                      ELSE after[k + 1] = after[k]
    BY DEF Stepwise
  <2>1. k + 1 \in 1 .. n /\ k \in 0 .. n  OBVIOUS
  <2>2. /\ names[k + 1] = StmtNames(stmts[k + 1], Spot(k + 1))
        /\ anons[k + 1] = AnonsIn(StmtTmps(stmts[k + 1]), Spot(k + 1))
    BY <2>1
  <2> HIDE DEF names, anons, Spot, Ready
  <2> QED  BY <1>3, <1>4, <1>8, <2>1, <2>2
<1>10. All(names, n) = BlockNames(stmts, u) /\ All(anons, n) = BlockAnons(stmts, u)
  BY <1>1 DEF All, BlockNames, BlockAnons
<1> HIDE DEF names, anons
<1>11. Resolved(f, after[0], after[n], All(names, n), All(anons, n))
  <2>1. IsPassenger(after[0]) /\ after[0].outcome = "going"  BY <1>2
  <2> QED  BY <1>9, <2>1, AllResolved
<1>12. after[n].outcome = "going" => Stacked(f, after[n].scopes, Later(u, n))
  <2>1. n \in 0 .. n  OBVIOUS
  <2> QED  BY <1>8, <2>1
<1> HIDE DEF Ready, S
<1> QED  BY <1>1, <1>2, <1>10, <1>11, <1>12

-----------------------------------------------------------------------------
(* What the nodes that were visited leave behind. *)

NamesAt(f, g, nodes) == UNION {NodeNames(g.nodes[n], Where(f)[n]) : n \in nodes}
AnonsAt(f, g, nodes) == UNION {NodeAnons(g.nodes[n], Where(f)[n]) : n \in nodes}

\* The scopes open after the first n of the nodes met.
Met(g, met, n, kind) == {i \in 1 .. n : Kind(g, met[i]) = kind}
OpenIn(g, met, n) ==
  1 + Cardinality(Met(g, met, n, "EnterScope")) - Cardinality(Met(g, met, n, "ExitScope"))

\* The passenger when it was told of the nodes met and control is at node cur.
CarriedTo(f, g, p, cur, met) ==
  /\ IsPassenger(p) /\ p.outcome = "going"
  /\ Stacked(f, p.scopes, Where(f)[cur])
  /\ Pairs(p.bound) = LexOf(f, NamesAt(f, g, ToSet(met)))
  /\ Kept(f, p.anon, AnonsAt(f, g, ToSet(met)))
  /\ OpenIn(g, met, Len(met)) = Len(Where(f)[cur]) + 1
  /\ \A m \in DOMAIN met :
       Kind(g, met[m]) \in Openers => OpenIn(g, met, m) = Len(Where(f)[met[m]]) + 1

\* How much deeper control is behind a node.
Deepens(kind, from, to) ==
  /\ kind = "EnterScope" => to = from + 1
  /\ kind = "ExitScope" => from = to + 1
  /\ kind \notin {"EnterScope", "ExitScope"} => to = from

LEMMA CountsOn ==
  ASSUME NEW g, NEW S, NEW met \in Seq(S), NEW cur \in S, NEW kind
  PROVE  LET n == Len(met)
             more == Append(met, cur)
         IN  /\ n \in Nat
             /\ \A m \in 0 .. n : /\ Met(g, more, m, kind) = Met(g, met, m, kind)
                                  /\ Cardinality(Met(g, met, m, kind)) \in Nat
             /\ Cardinality(Met(g, more, n + 1, kind)) =
                  Cardinality(Met(g, met, n, kind)) + IF Kind(g, cur) = kind THEN 1 ELSE 0
<1>1. PICK n \in Nat : n = Len(met)  OBVIOUS
<1>2. PICK more : more = Append(met, cur)  OBVIOUS
<1>3. /\ \A i \in 1 .. n : more[i] = met[i]
      /\ more[n + 1] = cur
  BY <1>1, <1>2, Pushed
<1>4. ASSUME NEW m \in 0 .. n PROVE Met(g, more, m, kind) = Met(g, met, m, kind)
  <2>1. \A i \in 1 .. m : i \in 1 .. n  OBVIOUS
  <2> QED  BY <1>3, <2>1 DEF Met
<1>5. ASSUME NEW m \in 0 .. n
      PROVE  IsFiniteSet(Met(g, met, m, kind)) /\ Cardinality(Met(g, met, m, kind)) \in Nat
  <2>1. IsFiniteSet(1 .. m)  BY FS_Interval
  <2>2. Met(g, met, m, kind) \subseteq 1 .. m  BY DEF Met
  <2>3. IsFiniteSet(Met(g, met, m, kind))  BY <2>1, <2>2, FS_Subset
  <2> QED  BY <2>3, FS_CardinalityType
<1>6. n \in 0 .. n  BY <1>1
<1>7. PICK before : before = Met(g, met, n, kind)  OBVIOUS
<1>8. IsFiniteSet(before) /\ Cardinality(before) \in Nat /\ n + 1 \notin before
  <2>1. n + 1 \notin 1 .. n  OBVIOUS
  <2>2. before \subseteq 1 .. n  BY <1>7 DEF Met
  <2> QED  BY <1>5, <1>6, <1>7, <2>1, <2>2
<1>9. Cardinality(Met(g, more, n + 1, kind)) =
        Cardinality(before) + IF Kind(g, cur) = kind THEN 1 ELSE 0
  <2>1. \A i : i \in 1 .. n + 1 <=> i \in 1 .. n \/ i = n + 1  BY <1>1
  <2>2. Met(g, more, n + 1, kind) = {i \in 1 .. n : Kind(g, more[i]) = kind}
                                    \cup {i \in {n + 1} : Kind(g, more[i]) = kind}
    BY <2>1 DEF Met
  <2>3. {i \in 1 .. n : Kind(g, more[i]) = kind} = before  BY <1>3, <1>7 DEF Met
  <2>4. CASE Kind(g, cur) = kind
    <3>1. Met(g, more, n + 1, kind) = before \cup {n + 1}  BY <1>3, <2>2, <2>3, <2>4
    <3> QED  BY <1>8, <2>4, <3>1, FS_AddElement
  <2>5. CASE Kind(g, cur) # kind
    <3>1. Met(g, more, n + 1, kind) = before  BY <1>3, <2>2, <2>3, <2>5
    <3> QED  BY <1>8, <2>5, <3>1
  <2> QED  BY <2>4, <2>5
<1> QED  BY <1>1, <1>2, <1>4, <1>5, <1>7, <1>9

LEMMA OpensOn ==
  ASSUME NEW g, NEW S, NEW met \in Seq(S), NEW cur \in S, NEW from \in Nat, NEW to \in Nat,
         OpenIn(g, met, Len(met)) = from + 1, Deepens(Kind(g, cur), from, to)
  PROVE  /\ OpenIn(g, Append(met, cur), Len(met) + 1) = to + 1
         /\ \A m \in 0 .. Len(met) : OpenIn(g, Append(met, cur), m) = OpenIn(g, met, m)
<1>1. PICK more : more = Append(met, cur)  OBVIOUS
<1>2. PICK n \in Nat : n = Len(met)  OBVIOUS
<1>3. PICK a : a = Cardinality(Met(g, met, n, "EnterScope"))  OBVIOUS
<1>4. PICK b : b = Cardinality(Met(g, met, n, "ExitScope"))  OBVIOUS
<1>5. a \in Nat /\ b \in Nat
  <2>1. n \in 0 .. n  BY <1>2
  <2> QED  BY <1>2, <1>3, <1>4, <2>1, CountsOn
<1>6. PICK x : x = Cardinality(Met(g, more, n + 1, "EnterScope"))  OBVIOUS
<1>7. PICK y : y = Cardinality(Met(g, more, n + 1, "ExitScope"))  OBVIOUS
<1>8. x = a + IF Kind(g, cur) = "EnterScope" THEN 1 ELSE 0  BY <1>1, <1>2, <1>3, <1>6, CountsOn
<1>9. y = b + IF Kind(g, cur) = "ExitScope" THEN 1 ELSE 0  BY <1>1, <1>2, <1>4, <1>7, CountsOn
<1>10. 1 + a - b = from + 1  BY <1>2, <1>3, <1>4 DEF OpenIn
<1>11. 1 + x - y = to + 1
  <2>1. CASE Kind(g, cur) = "EnterScope"
    <3>1. x = a + 1 /\ y = b /\ to = from + 1  BY <1>5, <1>8, <1>9, <2>1 DEF Deepens
    <3> QED  BY ONLY <1>5, <1>10, <3>1, from \in Nat, to \in Nat
  <2>2. CASE Kind(g, cur) = "ExitScope"
    <3>1. x = a /\ y = b + 1 /\ from = to + 1  BY <1>5, <1>8, <1>9, <2>2 DEF Deepens
    <3> QED  BY ONLY <1>5, <1>10, <3>1, from \in Nat, to \in Nat
  <2>3. CASE Kind(g, cur) \notin {"EnterScope", "ExitScope"}
    <3>1. x = a /\ y = b /\ from = to  BY <1>5, <1>8, <1>9, <2>3 DEF Deepens
    <3> QED  BY ONLY <1>5, <1>10, <3>1, from \in Nat, to \in Nat
  <2> QED  BY <2>1, <2>2, <2>3
<1>12. \A m \in 0 .. n : OpenIn(g, more, m) = OpenIn(g, met, m)
  <2>1. \A m \in 0 .. n : /\ Met(g, more, m, "EnterScope") = Met(g, met, m, "EnterScope")
                          /\ Met(g, more, m, "ExitScope") = Met(g, met, m, "ExitScope")
    BY <1>1, <1>2, CountsOn
  <2> QED  BY <2>1 DEF OpenIn
<1> QED  BY <1>1, <1>2, <1>6, <1>7, <1>11, <1>12 DEF OpenIn

\* Control goes on behind a node of which the passenger was told.
LEMMA CarriedOn ==
  ASSUME NEW f, NEW g, NEW p, NEW q, NEW S, NEW met \in Seq(S), NEW cur \in S, NEW next,
         CarriedTo(f, g, p, cur, met),
         Resolved(f, p, q, NodeNames(g.nodes[cur], Where(f)[cur]), NodeAnons(g.nodes[cur], Where(f)[cur])),
         q.outcome = "going", Where(f)[cur] \in Place, Where(f)[next] \in Place,
         Stacked(f, q.scopes, Where(f)[next]),
         Deepens(Kind(g, cur), Len(Where(f)[cur]), Len(Where(f)[next]))
  PROVE  CarriedTo(f, g, q, next, Append(met, cur))
<1>1. PICK more : more = Append(met, cur)  OBVIOUS
<1>2. PICK n \in Nat : n = Len(met)  OBVIOUS
<1>3. /\ Len(more) = n + 1 /\ DOMAIN more = 1 .. n + 1 /\ DOMAIN met = 1 .. n
      /\ \A i \in 1 .. n : more[i] = met[i]
      /\ more[n + 1] = cur
  BY <1>1, <1>2
<1>4. \A i \in 1 .. n + 1 : i \in 1 .. n \/ i = n + 1  BY <1>2
<1>5. ToSet(more) = ToSet(met) \cup {cur}
  <2>1. n + 1 \in 1 .. n + 1 /\ \A i \in 1 .. n : i \in 1 .. n + 1  BY <1>2
  <2> QED  BY <1>3, <1>4, <2>1 DEF ToSet
<1>6. PICK names, anons : /\ names = NodeNames(g.nodes[cur], Where(f)[cur])
                          /\ anons = NodeAnons(g.nodes[cur], Where(f)[cur])
  OBVIOUS
<1>7. NamesAt(f, g, ToSet(more)) = NamesAt(f, g, ToSet(met)) \cup names
  BY <1>5, <1>6 DEF NamesAt
<1>8. AnonsAt(f, g, ToSet(more)) = AnonsAt(f, g, ToSet(met)) \cup anons
  BY <1>5, <1>6 DEF AnonsAt
<1>9. Pairs(q.bound) = LexOf(f, NamesAt(f, g, ToSet(more)))
  <2>1. Pairs(q.bound) = Pairs(p.bound) \cup LexOf(f, names)  BY <1>6 DEF Resolved
  <2>2. Pairs(p.bound) = LexOf(f, NamesAt(f, g, ToSet(met)))  BY DEF CarriedTo
  <2> QED  BY <1>7, <2>1, <2>2, LexJoined
<1>10. Kept(f, q.anon, AnonsAt(f, g, ToSet(more)))
  <2>1. Kept(f, p.anon, AnonsAt(f, g, ToSet(met)))  BY DEF CarriedTo
  <2>2. Kept(f, q.anon, anons) /\ \A k \in DOMAIN p.anon : k \in DOMAIN q.anon /\ q.anon[k] = p.anon[k]
    BY <1>6 DEF Resolved
  <2>3. PICK old : old = AnonsAt(f, g, ToSet(met))  OBVIOUS
  <2>4. Kept(f, q.anon, old \cup anons)  BY <2>1, <2>2, <2>3 DEF Kept
  <2> QED  BY <1>8, <2>3, <2>4
<1>11. PICK from, to \in Nat : from = Len(Where(f)[cur]) /\ to = Len(Where(f)[next])
  <2>1. Len(Where(f)[cur]) \in Nat /\ Len(Where(f)[next]) \in Nat  BY Coordinates
  <2> QED  BY <2>1
<1>12. /\ OpenIn(g, more, n + 1) = to + 1
       /\ \A m \in 0 .. n : OpenIn(g, more, m) = OpenIn(g, met, m)
  <2>1. OpenIn(g, met, Len(met)) = from + 1 /\ from \in Nat  BY <1>11, Coordinates DEF CarriedTo
  <2>2. Deepens(Kind(g, cur), from, to)  BY <1>11
  <2>3. from \in Nat /\ to \in Nat  BY <1>11
  <2>4. /\ OpenIn(g, Append(met, cur), Len(met) + 1) = to + 1
        /\ \A m \in 0 .. Len(met) : OpenIn(g, Append(met, cur), m) = OpenIn(g, met, m)
    BY <2>1, <2>2, <2>3, OpensOn
  <2> QED  BY <1>1, <1>2, <2>4
<1>13. ASSUME NEW m \in 1 .. n + 1, Kind(g, more[m]) \in Openers
       PROVE  OpenIn(g, more, m) = Len(Where(f)[more[m]]) + 1
  <2>1. CASE m \in 1 .. n
    <3>1. m \in 0 .. n  BY <2>1
    <3> QED  BY <1>3, <1>12, <1>13, <2>1, <3>1 DEF CarriedTo
  <2>2. CASE m = n + 1
    <3>1. Kind(g, cur) \in Openers  BY <1>3, <1>13, <2>2
    <3>2. to = from  BY <1>11, <3>1 DEF Deepens, Openers
    <3> QED  BY <1>3, <1>11, <1>12, <2>2, <3>2
  <2> QED  BY <1>4, <2>1, <2>2
<1>14. IsPassenger(q)  BY DEF Resolved
<1> QED  BY <1>1, <1>3, <1>9, <1>10, <1>11, <1>12, <1>13, <1>14 DEF CarriedTo

-----------------------------------------------------------------------------
(* What a name may denote. *)

LEMMA Least ==
  ASSUME NEW T, T \subseteq Nat, T # {}
  PROVE  \E m \in T : \A n \in T : m <= n
<1> DEFINE less == OpToRel(<, Nat)
<1>1. IsWellFoundedOn(less, Nat)  BY NatLessThanWellFounded DEF OpToRel
<1>2. \A m, n \in Nat : m < n => <<m, n>> \in less  BY DEF OpToRel
<1> HIDE DEF less
<1>3. PICK m \in T : \A n \in T : ~(<<n, m>> \in less)  BY <1>1, WFMin
<1>4. ASSUME NEW n \in T PROVE m <= n
  <2>1. m \in Nat /\ n \in Nat  OBVIOUS
  <2>2. ~(n < m)  BY <1>2, <1>3, <2>1
  <2> QED  BY ONLY <2>1, <2>2
<1> QED  BY <1>3, <1>4

\* Of the declarations that reach a place one is the nearest.
LEMMA NearestReaches ==
  ASSUME NEW f, PlacedOnce(f), NEW name, NEW u \in Place, Reaching(f, name, u) # {}
  PROVE  Nearest(Reaching(f, name, u)) \in Decls(f)
<1>1. PICK R : R = Reaching(f, name, u)  OBVIOUS
<1>2. PICK n : n = Len(u)  OBVIOUS
<1>3. n \in Nat /\ \A i \in 1 .. n : u[i][2] \in Nat  BY <1>2, Coordinates
<1>4. ASSUME NEW d \in R
      PROVE  /\ d \in Decls(f) /\ Len(d.place) \in 1 .. n /\ n - Len(d.place) \in Nat
             /\ Last(d.place)[2] \in Nat /\ u[Len(d.place)][2] - Last(d.place)[2] \in Nat
             /\ u[Len(d.place)][2] \in Nat
  <2>1. PICK x : x = d.place  OBVIOUS
  <2>2. d \in Decls(f) /\ Reaches(x, u)  BY <1>1, <2>1 DEF Reaching
  <2>3. PICK k : k = Len(x)  OBVIOUS
  <2>4. k \in 1 .. n /\ x[k][2] < u[k][2]  BY <1>2, <2>2, <2>3 DEF Reaches
  <2>5. x[k][2] \in Nat
    <3>1. x \in Seq(Nat \X (Nat \ {0}))  BY <2>1, <2>2 DEF PlacedOnce
    <3>2. k \in 1 .. k  BY <1>3, <2>4
    <3>3. x[k] \in Nat \X (Nat \ {0})  BY <2>3, <3>1, <3>2
    <3> QED  BY <3>3
  <2>6. Last(x) = x[k]  BY <2>3 DEF Last
  <2>7. u[k][2] \in Nat  BY <1>3, <2>4
  <2>8. n - k \in Nat /\ u[k][2] - x[k][2] \in Nat  BY <1>3, <2>4, <2>5, <2>7
  <2> QED  BY <2>1, <2>2, <2>3, <2>4, <2>5, <2>6, <2>7, <2>8
<1>5. PICK near \in R : \A e \in R : Len(near.place) >= Len(e.place)
  <2> DEFINE T == {n - Len(d.place) : d \in R}
  <2>1. T \subseteq Nat /\ T # {}  BY <1>1, <1>4
  <2>2. PICK m \in T : \A k \in T : m <= k  BY <2>1, Least
  <2>3. PICK d \in R : m = n - Len(d.place)  OBVIOUS
  <2>4. ASSUME NEW e \in R PROVE Len(d.place) >= Len(e.place)
    <3>1. n - Len(d.place) <= n - Len(e.place)  BY <2>2, <2>3
    <3>2. Len(d.place) \in 1 .. n /\ Len(e.place) \in 1 .. n  BY <1>4
    <3> QED  BY ONLY <1>3, <3>1, <3>2
  <2> QED  BY <2>4
<1>6. PICK k : k = Len(near.place)  OBVIOUS
<1> DEFINE S == {d \in R : Len(d.place) = k}
<1>7. PICK d \in S : \A e \in S : Last(d.place)[2] >= Last(e.place)[2]
  <2> DEFINE T == {u[k][2] - Last(e.place)[2] : e \in S}
  <2>1. T \subseteq Nat /\ T # {}  BY <1>4, <1>5, <1>6
  <2>2. PICK m \in T : \A j \in T : m <= j  BY <2>1, Least
  <2>3. PICK d \in S : m = u[k][2] - Last(d.place)[2]  OBVIOUS
  <2>4. ASSUME NEW e \in S PROVE Last(d.place)[2] >= Last(e.place)[2]
    <3>1. u[k][2] - Last(d.place)[2] <= u[k][2] - Last(e.place)[2]  BY <2>2, <2>3
    <3>2. Last(d.place)[2] \in Nat /\ Last(e.place)[2] \in Nat /\ u[k][2] \in Nat  BY <1>4
    <3> QED  BY ONLY <3>1, <3>2
  <2> QED  BY <2>4
<1>8. ASSUME NEW e \in R PROVE AsNear(d.place, e.place)
  <2>1. Len(d.place) = k /\ k >= Len(e.place) /\ k \in Nat /\ Len(e.place) \in Nat
    BY <1>4, <1>5, <1>6
  <2>2. CASE Len(e.place) = k
    <3>1. e \in S  BY <2>2
    <3> QED  BY <1>7, <2>1, <2>2, <3>1 DEF AsNear
  <2>3. CASE Len(e.place) # k
    <3>1. Len(d.place) > Len(e.place)  BY <2>1, <2>3
    <3> QED  BY <3>1 DEF AsNear
  <2> QED  BY <2>2, <2>3
<1>9. \E x \in R : \A e \in R : AsNear(x.place, e.place)  BY <1>8
<1>10. Nearest(R) \in R  BY <1>9 DEF Nearest
<1> QED  BY <1>1, <1>4, <1>10

LEMMA DenotesOwn ==
  ASSUME NEW f, PlacedOnce(f), NEW name, NEW kinds, NEW u \in Place
  PROVE  Denoted(f, name, kinds, u) \in Own(f)
BY NearestReaches DEF Denoted, Own

-----------------------------------------------------------------------------
(* While nodes are visited. *)

Carried == CarriedTo(fn, cfg, passenger, Inmost.cur, visited)

\* What holds at any time.
RInv ==
  /\ fn \in Sources /\ IsPassenger(passenger) /\ Pairs(passenger.bound) \subseteq Lexical(fn)
  /\ \A x \in Pairs(passenger.bound) : x[2] \in Own(fn)
  /\ status = "visiting" => cfg.err = "none" /\ Sound /\ Carried
  /\ status = "failed" => \E x \in Lexical(fn) : x[2] = Unknown
  /\ status = "done" => /\ Pairs(passenger.bound) = Lexical(fn)
                        /\ Kept(fn, passenger.anon, Anons(fn))
                        /\ passenger.scopes = <<FnScope(fn.outer, fn.params)>>

\* The callbacks that do nothing.
Quiet == {"start", "end", "cont", "br", "branch_start_true_path", "loop_start_true_path",
          "branch_end_true_path", "branch_start_false_path", "branch_end_false_path",
          "branch_merge", "loop_end_true_path", "loop_foot"}

LEMMA NothingDone ==
  ASSUME NEW event \in Quiet, NEW p, NEW node
  PROVE  On(event, p, node) = p
BY DEF On, Quiet

LEMMA ToldThis ==
  ASSUME passenger.outcome = "going", NEW event, NEW quiet \in Quiet
  PROVE  /\ Told(<<event>>) = On(event, passenger, Node)
         /\ Told(<<event, quiet>>) = On(event, passenger, Node)
<1>1. PICK q : q = On(event, passenger, Node)  OBVIOUS
<1>2. Tell(passenger, event) = q  BY <1>1 DEF Tell
<1>3. Tell(q, quiet) = q  BY NothingDone DEF Tell
<1>4. Len(<<event>>) = 1 /\ <<event>>[1] = event  OBVIOUS
<1>5. Len(<<event, quiet>>) # 1 /\ <<event, quiet>>[1] = event /\ <<event, quiet>>[2] = quiet  OBVIOUS
<1>6. Told(<<event>>) = q  BY <1>2, <1>4 DEF Told
<1>7. Told(<<event, quiet>>) = q  BY <1>2, <1>3, <1>5 DEF Told
<1> QED  BY <1>1, <1>6, <1>7

\* The node that is visited, its place and the text.
LEMMA ReadText ==
  ASSUME Sound, cfg.err = "none"
  PROVE  /\ fn \in Sources /\ PlacedOnce(fn) /\ PlacesFollow(cfg, Lay, Where(fn))
         /\ SaidBy(fn, cfg, Where(fn)) /\ fn.outer = Scoped(fn.outer.vars, fn.outer.fns)
         /\ Inmost.cur \in Nodes /\ Node = cfg.nodes[Inmost.cur] /\ Node.n = K(Inmost.cur)
         /\ Inmost = Here
<1>1. fn \in Sources /\ cfg = CfgOf(fn)  BY DEF Sound, Typed
<1>2. Inmost.cur \in Nodes /\ Node = cfg.nodes[Inmost.cur] /\ Node.n = K(Inmost.cur) /\ Inmost = Here
  BY Innermost DEF Sound, Node, Here, Inmost
<1> QED  BY <1>1, <1>2, TextFollowed, OwnOnly DEF Lay

LEMMA AtPlace ==
  ASSUME Sound, cfg.err = "none", NEW n \in Nodes
  PROVE  Where(fn)[n] \in Place
BY ReadText DEF PlacesFollow, Nodes, Place

\* The names of a node are names of the function.
LEMMA NodeLexical ==
  ASSUME Sound, cfg.err = "none", NEW n \in Nodes
  PROVE  LexOf(fn, NodeNames(cfg.nodes[n], Where(fn)[n])) \subseteq Lexical(fn)
<1>1. Names(fn) = UNION {NodeNames(cfg.nodes[m], Where(fn)[m]) : m \in DOMAIN cfg.nodes}
  BY ReadText DEF SaidBy
<1>2. PICK names : names = NodeNames(cfg.nodes[n], Where(fn)[n])  OBVIOUS
<1>3. names \subseteq Names(fn)  BY <1>1, <1>2 DEF Nodes
<1> QED  BY <1>2, <1>3 DEF LexOf, Lexical

\* The names of a node are at places.
LEMMA NodePlaces ==
  ASSUME Sound, cfg.err = "none", NEW n \in Nodes, NEW x \in NodeNames(cfg.nodes[n], Where(fn)[n])
  PROVE  x.place \in Place
<1>1. PICK node, u : node = cfg.nodes[n] /\ u = Where(fn)[n]  OBVIOUS
<1>2. u \in Place /\ PlacesFollow(cfg, Lay, Where(fn)) /\ SaidBy(fn, cfg, Where(fn))
  BY <1>1, AtPlace, ReadText
<1>3. \A tmps, v : \A y \in NamesIn(tmps, v) : y.place = v  BY DEF NamesIn, TmpNames
<1>4. CASE node.n # "Block"
  <2>1. x \in NamesIn(NodeTmps(node), u)  BY <1>1, <1>4 DEF NodeNames
  <2> QED  BY <1>2, <1>3, <2>1
<1>5. CASE node.n = "Block"
  <2>1. u # <<>> /\ Listed(node.stmts)  BY <1>1, <1>2, <1>5 DEF PlacesFollow, SaidBy, Nodes, Kind
  <2>2. PICK i \in DOMAIN node.stmts : x \in StmtNames(node.stmts[i], Later(u, i - 1))
    BY <1>1, <1>5 DEF NodeNames
  <2>3. i - 1 \in Nat
    <3>1. DOMAIN node.stmts = 1 .. Len(node.stmts) /\ Len(node.stmts) \in Nat
      BY <2>1 DEF Listed
    <3> QED  BY <3>1
  <2>4. PICK v : v = Later(u, i - 1)  OBVIOUS
  <2>5. v \in Place  BY <1>2, <2>1, <2>3, <2>4, Moved
  <2>6. x.place = v  BY <1>3, <2>2, <2>4 DEF StmtNames
  <2> QED  BY <2>5, <2>6
<1> QED  BY <1>4, <1>5

LEMMA LexicalOwn ==
  ASSUME Sound, cfg.err = "none", NEW x \in Lexical(fn)
  PROVE  x[2] \in Own(fn)
<1>1. PlacedOnce(fn) /\ SaidBy(fn, cfg, Where(fn))  BY ReadText
<1>2. PICK y \in Names(fn) : x = <<y.key, Denoted(fn, y.name, y.kinds, y.place)>>  BY DEF Lexical
<1>3. PICK n \in Nodes : y \in NodeNames(cfg.nodes[n], Where(fn)[n])
  BY <1>1, <1>2 DEF SaidBy, Nodes
<1>4. y.place \in Place  BY <1>3, NodePlaces
<1> QED  BY <1>1, <1>2, <1>4, DenotesOwn

\* What is resolved at a node that has no temporaries.
LEMMA NothingThere ==
  ASSUME NEW node, NEW u, node.n \notin {"Block", "Return", "BranchSplit", "LoopHead"}
  PROVE  NodeNames(node, u) = {} /\ NodeAnons(node, u) = {}
<1>1. NodeTmps(node) = <<>> /\ node.n # "Block"  BY DEF NodeTmps
<1>2. ToSet(<<>>) = {}  BY DEF ToSet
<1>3. NamesIn(<<>>, u) = {} /\ AnonsIn(<<>>, u) = {}  BY <1>2 DEF NamesIn, AnonsIn
<1> QED  BY <1>1, <1>3 DEF NodeNames, NodeAnons

\* Whatever the callbacks do, what holds at any time is kept if that is which
\* holds while nodes are visited.
LEMMA ProceedHolds ==
  ASSUME RInv, Sound, cfg.err = "none", status = "visiting", NEW events, NEW next, NEW loops,
         Proceed(events, next, loops), NEW names, NEW anons, LexOf(fn, names) \subseteq Lexical(fn),
         Resolved(fn, passenger, Told(events), names, anons),
         /\ passenger'.outcome = "going" /\ passenger' = Told(events) /\ UNCHANGED <<fn, cfg>>
         /\ next # Nowhere /\ visits' = loops
         => Sound' /\ Carried'
  PROVE  RInv'
<1>1. UNCHANGED <<fn, cfg>> /\ passenger' = Told(events)  BY DEF Proceed
<1>2. IsPassenger(passenger') /\ Pairs(passenger'.bound) \subseteq Lexical(fn)
  <2>1. Pairs(passenger.bound) \subseteq Lexical(fn)  BY DEF RInv
  <2> QED  BY <1>1, <2>1 DEF Resolved
<1>3. status' = "visiting" => Sound' /\ Carried'  BY <1>1 DEF Proceed
<1>4. status' = "failed" => \E x \in Lexical(fn) : x[2] = Unknown
  <2>1. status' = "failed" => passenger'.outcome = "failed"  BY DEF Proceed
  <2> QED  BY <1>1, <2>1 DEF Resolved
<1>5. status' # "done"  BY DEF Proceed
<1>6. fn' = fn /\ cfg' = cfg /\ fn \in Sources /\ Lexical(fn)' = Lexical(fn)  BY <1>1 DEF RInv
<1>7. \A x \in Pairs(passenger'.bound) : x[2] \in Own(fn)  BY <1>2, LexicalOwn
<1> QED  BY <1>2, <1>3, <1>4, <1>5, <1>6, <1>7 DEF RInv

\* What is carried goes on with control.
LEMMA GoesWith ==
  ASSUME Sound, cfg.err = "none", Carried, UNCHANGED <<fn, cfg>>, NEW next \in Nodes,
         Resolved(fn, passenger, passenger', NodeNames(Node, Where(fn)[Inmost.cur]),
                  NodeAnons(Node, Where(fn)[Inmost.cur])),
         passenger'.outcome = "going", Stacked(fn, passenger'.scopes, Where(fn)[next]),
         Deepens(K(Inmost.cur), Len(Where(fn)[Inmost.cur]), Len(Where(fn)[next])),
         visited' = Append(visited, Inmost.cur), Inmost'.cur = next
  PROVE  Carried'
<1>1. PICK p, q : p = passenger /\ q = passenger'  OBVIOUS
<1>2. PICK cur : cur = Inmost.cur  OBVIOUS
<1>3. visited \in Seq(Nodes) /\ cur \in Nodes /\ Node = cfg.nodes[cur]
  BY <1>2, ReadText DEF Sound, Typed
<1>4. Where(fn)[cur] \in Place /\ Where(fn)[next] \in Place  BY <1>3, AtPlace
<1>5. CarriedTo(fn, cfg, p, cur, visited)  BY <1>1, <1>2 DEF Carried
<1>6. Resolved(fn, p, q, NodeNames(cfg.nodes[cur], Where(fn)[cur]), NodeAnons(cfg.nodes[cur], Where(fn)[cur]))
  BY <1>1, <1>2, <1>3
<1>7. /\ q.outcome = "going" /\ Stacked(fn, q.scopes, Where(fn)[next])
      /\ Deepens(Kind(cfg, cur), Len(Where(fn)[cur]), Len(Where(fn)[next]))
  BY <1>1, <1>2 DEF K
<1>8. CarriedTo(fn, cfg, q, next, Append(visited, cur))
  BY <1>3, <1>4, <1>5, <1>6, <1>7, CarriedOn
<1>9. fn' = fn /\ cfg' = cfg /\ visited' = Append(visited, cur) /\ Inmost'.cur = next
  BY <1>2
<1> QED  BY <1>1, <1>8, <1>9 DEF Carried

LEMMA WentTo ==
  ASSUME NEW loops \in Seq(Visits), loops # <<>>, NEW next \in Nodes
  PROVE  Last(GoesOn(loops, next)).cur = next
<1>1. PICK on : on = GoesOn(loops, next)  OBVIOUS
<1>2. /\ Len(on) = Len(loops)
      /\ on[Len(loops)] = [path |-> loops[Len(loops)].path, at |-> loops[Len(loops)].at,
                           cur |-> next, rounds |-> loops[Len(loops)].rounds + 1]
  BY <1>1, WentOn
<1>3. on[Len(on)].cur = next  BY <1>2
<1> QED  BY <1>1, <1>3 DEF Last

LEMMA WentIn ==
  ASSUME NEW loops \in Seq(Visits), NEW path \in {"true", "false", "loop"}, NEW at \in Nodes,
         NEW next \in Nodes
  PROVE  Last(Append(loops, Visit(path, at, next))).cur = next
<1>1. PICK v : v = Visit(path, at, next)  OBVIOUS
<1>2. v \in Visits /\ v.cur = next  BY <1>1 DEF Visit, Visits
<1>3. PICK on : on = Append(loops, v)  OBVIOUS
<1>4. Len(on) = Len(loops) + 1 /\ on[Len(loops) + 1] = v  BY <1>2, <1>3, Pushed
<1> QED  BY <1>1, <1>2, <1>3, <1>4 DEF Last

\* A node that is passed.
LEMMA PassHolds ==
  ASSUME RInv, status = "visiting", NEW event, NEW next, Pass(<<event>>, next),
         K(Inmost.cur) \notin Closers, K(Inmost.cur) \notin Openers,
         \/ next = Nowhere
         \/ Comes(cfg, Lay, next, Lay[Inmost.cur].of, Lay[Inmost.cur].path, Lay[Inmost.cur].at),
         Resolved(fn, passenger, Told(<<event>>), NodeNames(Node, Where(fn)[Inmost.cur]),
                  NodeAnons(Node, Where(fn)[Inmost.cur])),
         next # Nowhere /\ Told(<<event>>).outcome = "going" =>
           /\ Stacked(fn, Told(<<event>>).scopes, Where(fn)[next])
           /\ Deepens(K(Inmost.cur), Len(Where(fn)[Inmost.cur]), Len(Where(fn)[next]))
  PROVE  RInv'
<1>1. Sound /\ cfg.err = "none" /\ Carried  BY DEF RInv
<1>2. Inmost.cur \in Nodes /\ Node = cfg.nodes[Inmost.cur] /\ Here = Inmost  BY <1>1, ReadText
<1>3. /\ Proceed(<<event>>, next, GoesOn(visits, next)) /\ visited' = Append(visited, Inmost.cur)
  BY <1>2 DEF Pass
<1>4. PICK names, anons : /\ names = NodeNames(Node, Where(fn)[Inmost.cur])
                          /\ anons = NodeAnons(Node, Where(fn)[Inmost.cur])
  OBVIOUS
<1>5. LexOf(fn, names) \subseteq Lexical(fn)  BY <1>1, <1>2, <1>4, NodeLexical
<1>6. Resolved(fn, passenger, Told(<<event>>), names, anons)  BY <1>4
<1>7. ASSUME passenger'.outcome = "going", passenger' = Told(<<event>>), UNCHANGED <<fn, cfg>>,
             next # Nowhere, visits' = GoesOn(visits, next)
      PROVE  Sound' /\ Carried'
  <2>1. Comes(cfg, Lay, next, Lay[Inmost.cur].of, Lay[Inmost.cur].path, Lay[Inmost.cur].at)
    BY <1>7
  <2>2. next \in Nodes  BY <1>1, <2>1, ComesInside DEF Sound
  <2>3. Sound'  BY <1>1, <1>3, <1>7, <2>1, PassKeeps
  <2>4. Inmost'.cur = next
    <3>1. visits \in Seq(Visits) /\ visits # <<>>  BY <1>1 DEF Sound, Typed
    <3> QED  BY <1>7, <2>2, <3>1, WentTo DEF Inmost
  <2>5. Resolved(fn, passenger, passenger', NodeNames(Node, Where(fn)[Inmost.cur]),
                 NodeAnons(Node, Where(fn)[Inmost.cur]))
    BY <1>7
  <2>6. /\ Stacked(fn, passenger'.scopes, Where(fn)[next])
        /\ Deepens(K(Inmost.cur), Len(Where(fn)[Inmost.cur]), Len(Where(fn)[next]))
    BY <1>7
  <2>7. Carried'  BY <1>1, <1>3, <1>7, <2>2, <2>4, <2>5, <2>6, GoesWith
  <2> QED  BY <2>3, <2>7
<1> QED  BY <1>1, <1>3, <1>5, <1>6, <1>7, ProceedHolds

\* What is known of the passenger at the current node.
LEMMA AtHand ==
  ASSUME RInv, status = "visiting"
  PROVE  /\ Sound /\ cfg.err = "none" /\ Carried
         /\ IsPassenger(passenger) /\ passenger.outcome = "going"
         /\ Where(fn)[Inmost.cur] \in Place
         /\ Stacked(fn, passenger.scopes, Where(fn)[Inmost.cur])
         /\ Sees(fn, Current(passenger), Where(fn)[Inmost.cur])
<1>1. Sound /\ cfg.err = "none" /\ Carried  BY DEF RInv
<1>2. Where(fn)[Inmost.cur] \in Place  BY <1>1, ReadText, AtPlace
<1>3. /\ IsPassenger(passenger) /\ passenger.outcome = "going"
      /\ Stacked(fn, passenger.scopes, Where(fn)[Inmost.cur])
  BY <1>1 DEF Carried, CarriedTo
<1>4. Sees(fn, Current(passenger), Where(fn)[Inmost.cur])  BY <1>2, <1>3, OnTop DEF Current
<1> QED  BY <1>1, <1>2, <1>3, <1>4

\* A callback that does nothing, at a node where nothing is resolved.
LEMMA QuietTold ==
  ASSUME RInv, status = "visiting", NEW event \in Quiet, NEW quiet \in Quiet,
         K(Inmost.cur) \notin {"Block", "Return", "BranchSplit", "LoopHead"}
  PROVE  /\ Told(<<event>>) = passenger /\ Told(<<event, quiet>>) = passenger
         /\ Resolved(fn, passenger, passenger, NodeNames(Node, Where(fn)[Inmost.cur]),
                     NodeAnons(Node, Where(fn)[Inmost.cur]))
<1>1. Sound /\ cfg.err = "none" /\ IsPassenger(passenger) /\ passenger.outcome = "going"  BY AtHand
<1>2. Node.n = K(Inmost.cur)  BY <1>1, ReadText
<1>3. PICK node, u : node = Node /\ u = Where(fn)[Inmost.cur]  OBVIOUS
<1>4. NodeNames(node, u) = {} /\ NodeAnons(node, u) = {}  BY <1>2, <1>3, NothingThere
<1>5. Told(<<event>>) = passenger /\ Told(<<event, quiet>>) = passenger
  BY <1>1, ToldThis, NothingDone
<1> QED  BY <1>1, <1>3, <1>4, <1>5, NothingResolved

\* A callback that resolves the temporaries of a node.
LEMMA TmpsTold ==
  ASSUME RInv, status = "visiting", NEW event, NEW quiet \in Quiet,
         \/ K(Inmost.cur) = "Return" /\ event = "ret"
         \/ K(Inmost.cur) = "BranchSplit" /\ event = "branch_split"
         \/ K(Inmost.cur) = "LoopHead" /\ event = "loop_head"
  PROVE  /\ Told(<<event>>) = Told(<<event, quiet>>)
         /\ Resolved(fn, passenger, Told(<<event>>), NodeNames(Node, Where(fn)[Inmost.cur]),
                     NodeAnons(Node, Where(fn)[Inmost.cur]))
         /\ Told(<<event>>).scopes = passenger.scopes
<1>1. /\ Sound /\ cfg.err = "none" /\ IsPassenger(passenger) /\ passenger.outcome = "going"
      /\ Sees(fn, Current(passenger), Where(fn)[Inmost.cur])
  BY AtHand
<1>2. /\ Node.n = K(Inmost.cur) /\ Node = cfg.nodes[Inmost.cur] /\ Inmost.cur \in Nodes
      /\ SaidBy(fn, cfg, Where(fn))
  BY <1>1, ReadText
<1>3. PICK node, u : node = Node /\ u = Where(fn)[Inmost.cur]  OBVIOUS
<1>4. PICK tmps : tmps = NodeTmps(node)  OBVIOUS
<1>5. Listed(tmps)  BY <1>2, <1>3, <1>4 DEF SaidBy, Nodes
<1>6. On(event, passenger, node) = Each(passenger, tmps, ResolveTmp)
  <2>1. CASE event = "ret"
    <3>1. tmps = Tmps(node.stmt.value)  BY <1>2, <1>3, <1>4, <2>1 DEF NodeTmps
    <3> QED  BY <2>1, <3>1 DEF On, Resolve
  <2>2. CASE event \in {"branch_split", "loop_head"}
    <3>1. tmps = Tmps(<<node.cond>>)  BY <1>2, <1>3, <1>4, <2>2 DEF NodeTmps
    <3> QED  BY <2>2, <3>1 DEF On, Resolve
  <2> QED  BY <2>1, <2>2
<1>7. NodeNames(node, u) = NamesIn(tmps, u) /\ NodeAnons(node, u) = AnonsIn(tmps, u)
  <2>1. node.n # "Block"  BY <1>2, <1>3
  <2> QED  BY <1>4, <2>1 DEF NodeNames, NodeAnons
<1>8. PICK p : p = passenger  OBVIOUS
<1>9. PICK q : q = Each(p, tmps, ResolveTmp)  OBVIOUS
<1>10. Resolved(fn, p, q, NamesIn(tmps, u), AnonsIn(tmps, u)) /\ q.scopes = p.scopes
  BY <1>1, <1>3, <1>5, <1>8, <1>9, TmpsResolve
<1>11. Told(<<event>>) = q /\ Told(<<event, quiet>>) = q
  BY <1>1, <1>3, <1>6, <1>8, <1>9, ToldThis
<1> QED  BY <1>3, <1>7, <1>8, <1>10, <1>11

\* Nothing is declared at a node that is not a block.
LEMMA NodeGoesPast ==
  ASSUME RInv, status = "visiting", NEW n \in Nodes, K(n) # "Block", Where(fn)[n] # <<>>,
         Stacked(fn, passenger.scopes, Where(fn)[n])
  PROVE  /\ Stacked(fn, passenger.scopes, Later(Where(fn)[n], 1))
         /\ Len(Later(Where(fn)[n], 1)) = Len(Where(fn)[n])
<1>1. Sound /\ cfg.err = "none"  BY AtHand
<1>2. Where(fn)[n] \in Place /\ PlacedOnce(fn) /\ SaidBy(fn, cfg, Where(fn))
  BY <1>1, ReadText, AtPlace
<1>3. PICK u : u = Where(fn)[n]  OBVIOUS
<1>4. {d \in Decls(fn) : d.place = u} = {}  BY <1>2, <1>3 DEF SaidBy, Nodes, K, Kind
<1>5. Stacked(fn, passenger.scopes, Later(u, 1))  BY <1>2, <1>3, <1>4, GoesPast
<1>6. Len(Later(u, 1)) = Len(u)
  <2>1. 1 \in Nat  OBVIOUS
  <2> QED  BY <1>2, <1>3, <2>1, Moved
<1> QED  BY <1>3, <1>5, <1>6

LEMMA StartHolds ==
  ASSUME RInv, status = "visiting", VisitStart
  PROVE  RInv'
<1> DEFINE next == Next(cfg, Inmost.cur)
           u == Where(fn)[Inmost.cur]
<1>1. /\ Sound /\ cfg.err = "none" /\ Stacked(fn, passenger.scopes, u)
      /\ PlacesFollow(cfg, Lay, Where(fn)) /\ Inmost.cur \in Nodes /\ Here = Inmost
      /\ Node.n = K(Inmost.cur)
  BY AtHand, ReadText
<1>2. K(Inmost.cur) = "Start" /\ Pass(<<"start">>, next)  BY <1>1 DEF VisitStart, At
<1>3. Comes(cfg, Lay, next, Lay[Inmost.cur].of, Lay[Inmost.cur].path, Lay[Inmost.cur].at)
  BY <1>1, <1>2 DEF Sound, NestedBy, Followed, Passed, Behind, Nodes, K
<1>4. next = Nowhere \/ Where(fn)[next] = u  BY <1>1, <1>2 DEF PlacesFollow, Nodes, K
<1> HIDE DEF next, u
<1>5. /\ Told(<<"start">>) = passenger
      /\ Resolved(fn, passenger, passenger, NodeNames(Node, Where(fn)[Inmost.cur]),
                  NodeAnons(Node, Where(fn)[Inmost.cur]))
  BY <1>2, QuietTold DEF Quiet
<1>6. next # Nowhere =>
        /\ Stacked(fn, passenger.scopes, Where(fn)[next])
        /\ Deepens(K(Inmost.cur), Len(Where(fn)[Inmost.cur]), Len(Where(fn)[next]))
  BY <1>1, <1>2, <1>4 DEF Deepens, u
<1>7. K(Inmost.cur) \notin Closers /\ K(Inmost.cur) \notin Openers  BY <1>2 DEF Closers, Openers
<1> QED  BY <1>2, <1>3, <1>5, <1>6, <1>7, PassHolds

\* A node that is passed, with what lies behind it.
LEMMA PassedOn ==
  ASSUME Sound, NEW kind \in Passed, K(Inmost.cur) = kind
  PROVE  /\ Comes(cfg, Lay, Behind(cfg, Inmost.cur), Lay[Inmost.cur].of, Lay[Inmost.cur].path,
                  Lay[Inmost.cur].at)
         /\ K(Inmost.cur) \notin Closers /\ K(Inmost.cur) \notin Openers
         /\ kind = "Return" => Behind(cfg, Inmost.cur) = AfterJump(cfg, Inmost.cur, "End")
         /\ kind = "Continue" => Behind(cfg, Inmost.cur) = AfterJump(cfg, Inmost.cur, "LoopHead")
         /\ kind \notin {"Return", "Continue"} => Behind(cfg, Inmost.cur) = Next(cfg, Inmost.cur)
<1>1. Inmost.cur \in Nodes  BY Innermost DEF Sound
<1>2. Comes(cfg, Lay, Behind(cfg, Inmost.cur), Lay[Inmost.cur].of, Lay[Inmost.cur].path,
            Lay[Inmost.cur].at)
  BY <1>1 DEF Sound, NestedBy, Followed, Nodes, K
<1>3. K(Inmost.cur) \notin Closers /\ K(Inmost.cur) \notin Openers  BY DEF Passed, Closers, Openers
<1> QED  BY <1>2, <1>3 DEF Behind, K

LEMMA ScopeHolds ==
  ASSUME RInv, status = "visiting", VisitScope
  PROVE  RInv'
<1> DEFINE next == Next(cfg, Inmost.cur)
<1>1. /\ Sound /\ cfg.err = "none" /\ IsPassenger(passenger) /\ passenger.outcome = "going"
      /\ PlacedOnce(fn) /\ PlacesFollow(cfg, Lay, Where(fn)) /\ Inmost.cur \in Nodes /\ Here = Inmost
      /\ Node.n = K(Inmost.cur)
  BY AtHand, ReadText
<1>2. PICK p, u : p = passenger /\ u = Where(fn)[Inmost.cur]  OBVIOUS
<1>3. /\ u \in Place /\ Stacked(fn, p.scopes, u) /\ IsPassenger(p) /\ p.outcome = "going"
      /\ p.scopes # <<>>
  BY <1>1, <1>2, AtHand, OnTop
<1>4. PICK node : node = Node  OBVIOUS
<1>5. \/ K(Inmost.cur) = "EnterScope" /\ Pass(<<"enter_scope">>, next)
      \/ K(Inmost.cur) = "ExitScope" /\ Pass(<<"exit_scope">>, next)
  BY <1>1 DEF VisitScope, At
<1>6. /\ Comes(cfg, Lay, next, Lay[Inmost.cur].of, Lay[Inmost.cur].path, Lay[Inmost.cur].at)
      /\ K(Inmost.cur) \notin Closers /\ K(Inmost.cur) \notin Openers
  BY <1>1, <1>5, PassedOn DEF Passed
<1>7. next \in Nodes  BY <1>1, <1>6, ComesInside DEF Sound
<1>8. PICK v : v = Where(fn)[next]  OBVIOUS
<1>9. v \in Place  BY <1>1, <1>7, <1>8, AtPlace
<1>10. NodeNames(node, u) = {} /\ NodeAnons(node, u) = {}
  BY <1>1, <1>4, <1>5, NothingThere
<1>11. CASE K(Inmost.cur) = "EnterScope"
  <2>1. Inside(u, v)  BY <1>1, <1>2, <1>8, <1>11 DEF PlacesFollow, Nodes, K
  <2>2. PICK q : q = EnterScope(p)  OBVIOUS
  <2>3. PICK more : more = Append(p.scopes, Last(p.scopes))  OBVIOUS
  <2>4. q = [p EXCEPT !.scopes = more]  BY <2>2, <2>3 DEF EnterScope, Current
  <2>5. /\ IsPassenger(q) /\ q.outcome = p.outcome /\ q.scopes = more
        /\ q.bound = p.bound /\ q.anon = p.anon
    <3>1. IsPassenger(p)  BY <1>3
    <3> QED  BY ONLY <2>4, <3>1, ScopesSet
  <2>6. Resolved(fn, p, q, {}, {})  BY <1>3, <2>5, NothingResolved, SameResolved
  <2>7. Told(<<"enter_scope">>) = q
    <3>1. On("enter_scope", p, node) = q  BY <2>2 DEF On
    <3>2. "start" \in Quiet  BY DEF Quiet
    <3> QED  BY <1>1, <1>2, <1>4, <3>1, <3>2, ToldThis
  <2>8. Stacked(fn, q.scopes, v)  BY <1>1, <1>3, <1>9, <2>1, <2>3, <2>5, Enters
  <2>9. Deepens("EnterScope", Len(u), Len(v))
    <3>1. Len(v) = Len(u) + 1  BY <1>3, <1>9, <2>1, MovedIn
    <3> QED  BY <3>1 DEF Deepens
  <2>10. Pass(<<"enter_scope">>, next)  BY <1>5, <1>11
  <2>11. Resolved(fn, passenger, Told(<<"enter_scope">>), NodeNames(Node, Where(fn)[Inmost.cur]),
                  NodeAnons(Node, Where(fn)[Inmost.cur]))
    BY <1>2, <1>4, <1>10, <2>6, <2>7
  <2>12. /\ Stacked(fn, Told(<<"enter_scope">>).scopes, Where(fn)[next])
         /\ Deepens(K(Inmost.cur), Len(Where(fn)[Inmost.cur]), Len(Where(fn)[next]))
    BY <1>2, <1>8, <1>11, <2>7, <2>8, <2>9
  <2> HIDE DEF next
  <2> QED  BY <1>6, <2>10, <2>11, <2>12, PassHolds
<1>12. CASE K(Inmost.cur) = "ExitScope"
  <2>1. v = Front(u) /\ u # <<>>
    <3>1. next # Nowhere  BY <1>1, <1>6, ComesInside DEF Sound
    <3> QED  BY <1>1, <1>2, <1>8, <1>12, <3>1 DEF PlacesFollow, Nodes, K
  <2>2. PICK q : q = ExitScope(p)  OBVIOUS
  <2>3. PICK less : less = Front(p.scopes)  OBVIOUS
  <2>4. q = [p EXCEPT !.scopes = less]  BY <1>3, <2>2, <2>3 DEF ExitScope
  <2>5. /\ IsPassenger(q) /\ q.outcome = p.outcome /\ q.scopes = less
        /\ q.bound = p.bound /\ q.anon = p.anon
    <3>1. IsPassenger(p)  BY <1>3
    <3> QED  BY ONLY <2>4, <3>1, ScopesSet
  <2>6. Resolved(fn, p, q, {}, {})  BY <1>3, <2>5, NothingResolved, SameResolved
  <2>7. Told(<<"exit_scope">>) = q
    <3>1. On("exit_scope", p, node) = q  BY <2>2 DEF On
    <3>2. "start" \in Quiet  BY DEF Quiet
    <3> QED  BY <1>1, <1>2, <1>4, <3>1, <3>2, ToldThis
  <2>8. Stacked(fn, q.scopes, v) /\ Len(u) = Len(v) + 1  BY <1>3, <2>1, <2>3, <2>5, Leaves
  <2>9. Deepens("ExitScope", Len(u), Len(v))  BY <2>8 DEF Deepens
  <2>10. Pass(<<"exit_scope">>, next)  BY <1>5, <1>12
  <2>11. Resolved(fn, passenger, Told(<<"exit_scope">>), NodeNames(Node, Where(fn)[Inmost.cur]),
                  NodeAnons(Node, Where(fn)[Inmost.cur]))
    BY <1>2, <1>4, <1>10, <2>6, <2>7
  <2>12. /\ Stacked(fn, Told(<<"exit_scope">>).scopes, Where(fn)[next])
         /\ Deepens(K(Inmost.cur), Len(Where(fn)[Inmost.cur]), Len(Where(fn)[next]))
    BY <1>2, <1>8, <1>12, <2>7, <2>8, <2>9
  <2> HIDE DEF next
  <2> QED  BY <1>6, <2>10, <2>11, <2>12, PassHolds
<1> QED  BY <1>5, <1>11, <1>12

LEMMA BlockHolds ==
  ASSUME RInv, status = "visiting", VisitBlock
  PROVE  RInv'
<1> DEFINE next == Next(cfg, Inmost.cur)
<1>1. /\ Sound /\ cfg.err = "none" /\ IsPassenger(passenger) /\ passenger.outcome = "going"
      /\ PlacedOnce(fn) /\ PlacesFollow(cfg, Lay, Where(fn)) /\ SaidBy(fn, cfg, Where(fn))
      /\ Inmost.cur \in Nodes /\ Here = Inmost /\ Node.n = K(Inmost.cur)
      /\ Node = cfg.nodes[Inmost.cur]
  BY AtHand, ReadText
<1>2. PICK p, u : p = passenger /\ u = Where(fn)[Inmost.cur]  OBVIOUS
<1>3. u \in Place /\ Stacked(fn, p.scopes, u) /\ IsPassenger(p) /\ p.outcome = "going"
  BY <1>1, <1>2, AtHand
<1>4. PICK node : node = Node  OBVIOUS
<1>5. K(Inmost.cur) = "Block" /\ Pass(<<"block">>, next)  BY <1>1 DEF VisitBlock, At
<1>6. /\ Comes(cfg, Lay, next, Lay[Inmost.cur].of, Lay[Inmost.cur].path, Lay[Inmost.cur].at)
      /\ K(Inmost.cur) \notin Closers /\ K(Inmost.cur) \notin Openers
  BY <1>1, <1>5, PassedOn DEF Passed
<1>7. PICK stmts : stmts = node.stmts  OBVIOUS
<1>8. u # <<>> /\ (next = Nowhere \/ Where(fn)[next] = Later(u, Len(stmts)))
  BY <1>1, <1>2, <1>4, <1>5, <1>7 DEF PlacesFollow, Nodes, K
<1>9. Listed(stmts) /\ \A i \in DOMAIN stmts : Lies(fn, stmts[i], Later(u, i - 1))
  BY <1>1, <1>2, <1>4, <1>5, <1>7 DEF SaidBy, Lies, Nodes
<1>10. PICK q : q = Each(p, stmts, Stmt)  OBVIOUS
<1>11. PICK names : names = BlockNames(stmts, u)  OBVIOUS
<1>12. PICK anons : anons = BlockAnons(stmts, u)  OBVIOUS
<1>13. /\ Resolved(fn, p, q, names, anons)
       /\ q.outcome = "going" => Stacked(fn, q.scopes, Later(u, Len(stmts)))
  BY <1>1, <1>3, <1>8, <1>9, <1>10, <1>11, <1>12, BlockResolves
<1>14. NodeNames(node, u) = names /\ NodeAnons(node, u) = anons
  BY <1>1, <1>4, <1>5, <1>7, <1>11, <1>12 DEF NodeNames, NodeAnons, BlockNames, BlockAnons
<1>15. Told(<<"block">>) = q
  <2>1. On("block", p, node) = q  BY <1>7, <1>10 DEF On
  <2>2. "start" \in Quiet  BY DEF Quiet
  <2> QED  BY <1>1, <1>2, <1>4, <2>1, <2>2, ToldThis
<1>16. Deepens("Block", Len(u), Len(Later(u, Len(stmts))))
  <2>1. Len(stmts) \in Nat  BY <1>9 DEF Listed
  <2>2. Len(Later(u, Len(stmts))) = Len(u)  BY <1>3, <1>8, <2>1, Moved
  <2> QED  BY <2>2 DEF Deepens
<1> HIDE DEF next
<1>17. Resolved(fn, passenger, Told(<<"block">>), NodeNames(Node, Where(fn)[Inmost.cur]),
                NodeAnons(Node, Where(fn)[Inmost.cur]))
  BY <1>2, <1>4, <1>13, <1>14, <1>15
<1>18. next # Nowhere /\ Told(<<"block">>).outcome = "going" =>
         /\ Stacked(fn, Told(<<"block">>).scopes, Where(fn)[next])
         /\ Deepens(K(Inmost.cur), Len(Where(fn)[Inmost.cur]), Len(Where(fn)[next]))
  BY <1>2, <1>5, <1>8, <1>13, <1>15, <1>16
<1> QED  BY <1>5, <1>6, <1>17, <1>18, PassHolds

\* A return, a continue or a break: control goes on at the place after it.
LEMMA JumpHolds ==
  ASSUME RInv, status = "visiting", VisitReturn \/ VisitContinue \/ VisitBreak
  PROVE  RInv'
<1>1. /\ Sound /\ cfg.err = "none" /\ passenger.outcome = "going"
      /\ PlacesFollow(cfg, Lay, Where(fn)) /\ Inmost.cur \in Nodes /\ Here = Inmost
      /\ Node.n = K(Inmost.cur) /\ Stacked(fn, passenger.scopes, Where(fn)[Inmost.cur])
  BY AtHand, ReadText
<1>2. PICK event, next :
        /\ Pass(<<event>>, next)
        /\ \/ K(Inmost.cur) = "Return" /\ event = "ret" /\ next = AfterJump(cfg, Inmost.cur, "End")
           \/ K(Inmost.cur) = "Continue" /\ event = "cont"
                /\ next = AfterJump(cfg, Inmost.cur, "LoopHead")
           \/ K(Inmost.cur) = "Break" /\ event = "br" /\ next = AfterBreak(cfg, Inmost.cur)
  BY <1>1 DEF VisitReturn, VisitContinue, VisitBreak, At
<1>3. /\ K(Inmost.cur) \in {"Return", "Continue", "Break"}
      /\ K(Inmost.cur) \notin Closers /\ K(Inmost.cur) \notin Openers
  BY <1>2 DEF Closers, Openers
<1>4. K(Inmost.cur) # "Break" => next = Behind(cfg, Inmost.cur)  BY <1>2 DEF Behind, K
<1>5. \/ next = Nowhere
      \/ Comes(cfg, Lay, next, Lay[Inmost.cur].of, Lay[Inmost.cur].path, Lay[Inmost.cur].at)
  <2>1. CASE K(Inmost.cur) = "Break"
    BY <1>1, <1>2, <2>1 DEF Sound, NestedBy, Followed, Nodes, K
  <2>2. CASE K(Inmost.cur) # "Break"
    <3>1. K(Inmost.cur) \in Passed  BY <1>3, <2>2 DEF Passed
    <3> QED  BY <1>1, <1>4, <2>2, <3>1, PassedOn
  <2> QED  BY <2>1, <2>2
<1>6. PICK u : u = Where(fn)[Inmost.cur]  OBVIOUS
<1>7. u # <<>> /\ (next = Nowhere \/ Where(fn)[next] = Later(u, 1))
  <2>1. u # <<>>  BY <1>1, <1>3, <1>6 DEF PlacesFollow, Nodes, K
  <2>2. CASE K(Inmost.cur) = "Break"  BY <1>1, <1>2, <1>6, <2>1, <2>2 DEF PlacesFollow, Nodes, K
  <2>3. CASE K(Inmost.cur) # "Break"
    BY <1>1, <1>3, <1>4, <1>6, <2>1, <2>3 DEF PlacesFollow, Nodes, K
  <2> QED  BY <2>2, <2>3
<1>8. Stacked(fn, passenger.scopes, Later(u, 1)) /\ Len(Later(u, 1)) = Len(u)
  BY <1>1, <1>3, <1>6, <1>7, NodeGoesPast
<1>9. "start" \in Quiet /\ "cont" \in Quiet /\ "br" \in Quiet  BY DEF Quiet
<1>10. /\ Resolved(fn, passenger, Told(<<event>>), NodeNames(Node, Where(fn)[Inmost.cur]),
                   NodeAnons(Node, Where(fn)[Inmost.cur]))
       /\ Told(<<event>>).scopes = passenger.scopes
  <2>1. CASE K(Inmost.cur) = "Return"  BY <1>2, <1>9, <2>1, TmpsTold
  <2>2. CASE K(Inmost.cur) # "Return"
    <3>1. event \in Quiet /\ K(Inmost.cur) \notin {"Block", "Return", "BranchSplit", "LoopHead"}
      BY <1>2, <1>9, <2>2
    <3> QED  BY <3>1, QuietTold
  <2> QED  BY <2>1, <2>2
<1>11. next # Nowhere =>
         /\ Stacked(fn, Told(<<event>>).scopes, Where(fn)[next])
         /\ Deepens(K(Inmost.cur), Len(Where(fn)[Inmost.cur]), Len(Where(fn)[next]))
  BY <1>3, <1>6, <1>7, <1>8, <1>10 DEF Deepens
<1> QED  BY <1>2, <1>3, <1>5, <1>10, <1>11, PassHolds

\* A split or head is entered: control stays at its place.
LEMMA DescendHolds ==
  ASSUME RInv, status = "visiting", VisitSplit \/ VisitHead
  PROVE  RInv'
<1> DEFINE next == After(cfg, Inmost.cur, "True")
<1>1. /\ Sound /\ cfg.err = "none" /\ Carried /\ passenger.outcome = "going"
      /\ PlacesFollow(cfg, Lay, Where(fn)) /\ Inmost.cur \in Nodes /\ Here = Inmost
      /\ Node.n = K(Inmost.cur) /\ Node = cfg.nodes[Inmost.cur]
      /\ Stacked(fn, passenger.scopes, Where(fn)[Inmost.cur])
  BY AtHand, ReadText
<1>2. PICK path, event, quiet :
        /\ Descend(path, <<event, quiet>>)
        /\ \/ /\ K(Inmost.cur) = "BranchSplit" /\ path = "true"
              /\ event = "branch_split" /\ quiet = "branch_start_true_path"
           \/ /\ K(Inmost.cur) = "LoopHead" /\ path = "loop"
              /\ event = "loop_head" /\ quiet = "loop_start_true_path"
  BY <1>1 DEF VisitSplit, VisitHead, At
<1>3. /\ Proceed(<<event, quiet>>, next, Append(visits, Visit(path, Inmost.cur, next)))
      /\ visited' = Append(visited, Inmost.cur)
  BY <1>1, <1>2 DEF Descend
<1>4. /\ path \in {"true", "loop"} /\ K(Inmost.cur) \in Openers
      /\ \E p \in Paths : p[1] = K(Inmost.cur) /\ p[2] = path
  BY <1>2 DEF Openers, Paths
<1>5. Comes(cfg, Lay, next, Inmost.cur, path, 0)
  BY <1>1, <1>2 DEF Sound, NestedBy, Followed, Nodes, K
<1>6. next \in Nodes /\ next # Nowhere  BY <1>1, <1>5, ComesInside DEF Sound
<1>7. Where(fn)[next] = Where(fn)[Inmost.cur]
  BY <1>1, <1>2, <1>6 DEF PlacesFollow, Nodes, K
<1> HIDE DEF next
<1>8. quiet \in Quiet  BY <1>2 DEF Quiet
<1>9. PICK names, anons : /\ names = NodeNames(Node, Where(fn)[Inmost.cur])
                          /\ anons = NodeAnons(Node, Where(fn)[Inmost.cur])
  OBVIOUS
<1>10. /\ Resolved(fn, passenger, Told(<<event, quiet>>), names, anons)
       /\ Told(<<event, quiet>>).scopes = passenger.scopes
  <2>1. /\ Told(<<event>>) = Told(<<event, quiet>>)
        /\ Resolved(fn, passenger, Told(<<event>>), NodeNames(Node, Where(fn)[Inmost.cur]),
                    NodeAnons(Node, Where(fn)[Inmost.cur]))
        /\ Told(<<event>>).scopes = passenger.scopes
    <3>1. \/ K(Inmost.cur) = "Return" /\ event = "ret"
          \/ K(Inmost.cur) = "BranchSplit" /\ event = "branch_split"
          \/ K(Inmost.cur) = "LoopHead" /\ event = "loop_head"
      BY <1>2
    <3> QED  BY <1>8, <3>1, TmpsTold
  <2> QED  BY <1>9, <2>1
<1>11. LexOf(fn, names) \subseteq Lexical(fn)  BY <1>1, <1>9, NodeLexical
<1>12. PICK loops : loops = Append(visits, Visit(path, Inmost.cur, next))  OBVIOUS
<1>13. ASSUME passenger'.outcome = "going", passenger' = Told(<<event, quiet>>),
              UNCHANGED <<fn, cfg>>, next # Nowhere, visits' = loops
       PROVE  Sound' /\ Carried'
  <2>1. visits' = Append(visits, Visit(path, Inmost.cur, next))  BY <1>12, <1>13
  <2>2. Sound'  BY <1>1, <1>3, <1>4, <1>5, <1>13, <2>1, DescendKeeps
  <2>3. Inmost'.cur = next
    <3>1. visits \in Seq(Visits)  BY <1>1 DEF Sound, Typed
    <3> QED  BY <1>1, <1>4, <1>6, <2>1, <3>1, WentIn DEF Inmost
  <2>4. Resolved(fn, passenger, passenger', NodeNames(Node, Where(fn)[Inmost.cur]),
                 NodeAnons(Node, Where(fn)[Inmost.cur]))
    BY <1>9, <1>10, <1>13
  <2>5. Stacked(fn, passenger'.scopes, Where(fn)[next])  BY <1>1, <1>7, <1>10, <1>13
  <2>6. Deepens(K(Inmost.cur), Len(Where(fn)[Inmost.cur]), Len(Where(fn)[next]))
    BY <1>4, <1>7 DEF Deepens, Openers
  <2>7. Carried'  BY <1>1, <1>3, <1>6, <1>13, <2>3, <2>4, <2>5, <2>6, GoesWith
  <2> QED  BY <2>2, <2>7
<1> QED  BY <1>1, <1>3, <1>10, <1>11, <1>12, <1>13, ProceedHolds

\* A merge or foot is met on a path of its split or head, at whose place it is.
LEMMA MetAt ==
  ASSUME Sound, cfg.err = "none", K(Inmost.cur) \in {"BranchMerge", "LoopFoot"}
  PROVE  /\ Lay[Inmost.cur].of = Inmost.at /\ Inmost.at \in Nodes /\ Inmost.at \in Seen
         /\ Where(fn)[Inmost.cur] = Where(fn)[Inmost.at] /\ Where(fn)[Inmost.cur] # <<>>
         /\ K(Inmost.cur) \in Closers
         /\ K(Inmost.cur) = "BranchMerge" =>
              K(Inmost.at) = "BranchSplit" /\ Inmost.path \in {"true", "false"}
         /\ K(Inmost.cur) = "LoopFoot" => K(Inmost.at) = "LoopHead" /\ Inmost.path = "loop"
<1>1. PICK n : n = Len(visits)  OBVIOUS
<1>2. /\ n \in Nat \ {0} /\ n \in 1 .. n /\ Inmost = visits[n] /\ K(Inmost.cur) \in Closers
      /\ Inmost.cur \in Nodes /\ Inmost.path \in {"main", "true", "false", "loop"}
  BY <1>1, Innermost DEF Sound, Closers
<1>3. Lay[Inmost.cur].of = Inmost.at /\ \A p \in Paths : p[2] = Inmost.path => p[3] = K(Inmost.cur)
  BY <1>1, <1>2, Stands DEF Sound
<1>4. Inmost.path # "main"
  <2>1. <<"Start", "main", "End">> \in Paths  BY DEF Paths
  <2> QED  BY <1>3, <2>1
<1>5. n > 1  BY <1>1, <1>2, <1>4 DEF Sound, Standing
<1>6. n - 1 \in 1 .. n /\ n - 1 < n /\ (n - 1) + 1 = n  BY <1>2, <1>5
<1>7. Inmost.at \in Nodes /\ Inmost.at \in Seen  BY <1>1, <1>2, <1>6, Opened
<1>8. \E p \in Paths : p[1] = K(Inmost.at) /\ p[2] = Inmost.path
  BY <1>1, <1>2, <1>5 DEF Sound, Standing
<1>9. /\ K(Inmost.cur) = "BranchMerge" =>
           K(Inmost.at) = "BranchSplit" /\ Inmost.path \in {"true", "false"}
      /\ K(Inmost.cur) = "LoopFoot" => K(Inmost.at) = "LoopHead" /\ Inmost.path = "loop"
  BY <1>3, <1>8 DEF Paths
<1>10. Where(fn)[Inmost.cur] = Where(fn)[Inmost.at] /\ Where(fn)[Inmost.cur] # <<>>
  <2>1. PlacesFollow(cfg, Lay, Where(fn))  BY ReadText
  <2> QED  BY <1>2, <1>3, <2>1 DEF PlacesFollow, Nodes, K
<1> QED  BY <1>2, <1>3, <1>7, <1>9, <1>10

\* The false path begins at the place of its split.
LEMMA TurnHolds ==
  ASSUME RInv, status = "visiting", EndTruePath
  PROVE  RInv'
<1> DEFINE next == After(cfg, Inmost.at, "False")
           events == <<"branch_end_true_path", "branch_start_false_path">>
<1>1. /\ Sound /\ cfg.err = "none" /\ Carried /\ passenger.outcome = "going"
      /\ PlacesFollow(cfg, Lay, Where(fn)) /\ Inmost.cur \in Nodes /\ Here = Inmost
      /\ Node.n = K(Inmost.cur) /\ IsPassenger(passenger)
  BY AtHand, ReadText
<1>2. K(Inmost.cur) = "BranchMerge" /\ Inmost.path = "true"  BY <1>1 DEF EndTruePath, At
<1>3. /\ Inmost.at \in Nodes /\ K(Inmost.at) = "BranchSplit" /\ K(Inmost.cur) \in Closers
      /\ Where(fn)[Inmost.cur] = Where(fn)[Inmost.at]
  BY <1>1, <1>2, MetAt
<1>4. /\ Proceed(events, next, Append(Front(visits), Visit("false", Inmost.at, next)))
      /\ UNCHANGED visited
  BY <1>1 DEF EndTruePath
<1>5. Comes(cfg, Lay, next, Inmost.at, "false", 0)
  BY <1>1, <1>3 DEF Sound, NestedBy, Followed, Nodes, K
<1>6. next \in Nodes /\ next # Nowhere  BY <1>1, <1>5, ComesInside DEF Sound
<1>7. Where(fn)[next] = Where(fn)[Inmost.cur]
  BY <1>1, <1>3, <1>6 DEF PlacesFollow, Nodes, K
<1>8. Told(events) = passenger  BY <1>2, QuietTold DEF Quiet
<1> HIDE DEF next, events
<1>9. Resolved(fn, passenger, Told(events), {}, {}) /\ LexOf(fn, {}) \subseteq Lexical(fn)
  BY <1>1, <1>8, NothingResolved DEF LexOf
<1>10. PICK loops : loops = Append(Front(visits), Visit("false", Inmost.at, next))  OBVIOUS
<1>11. ASSUME passenger' = Told(events), UNCHANGED <<fn, cfg>>, visits' = loops
       PROVE  Sound' /\ Carried'
  <2>1. visits' = Append(Front(visits), Visit("false", Inmost.at, next))  BY <1>10, <1>11
  <2>2. Sound'  BY <1>1, <1>2, <1>3, <1>4, <1>5, <1>11, <2>1, TurnKeeps
  <2>3. Inmost'.cur = next
    <3>1. visits \in Seq(Visits) /\ visits # <<>>  BY <1>1 DEF Sound, Typed
    <3>2. Front(visits) \in Seq(Visits)  BY <3>1, Popped
    <3> QED  BY <1>3, <1>6, <2>1, <3>2, WentIn DEF Inmost
  <2>4. CarriedTo(fn, cfg, passenger, next, visited)  BY <1>1, <1>7 DEF Carried, CarriedTo
  <2>5. fn' = fn /\ cfg' = cfg /\ visited' = visited /\ passenger' = passenger
    BY <1>4, <1>8, <1>11
  <2>6. Carried'  BY <2>3, <2>4, <2>5 DEF Carried
  <2> QED  BY <2>2, <2>6
<1> QED  BY <1>1, <1>4, <1>9, <1>10, <1>11, ProceedHolds

\* Control goes on behind the split or head.
LEMMA LeaveHolds ==
  ASSUME RInv, status = "visiting", EndFalsePath \/ EndLoop
  PROVE  RInv'
<1>1. /\ Sound /\ cfg.err = "none" /\ Carried /\ passenger.outcome = "going"
      /\ PlacesFollow(cfg, Lay, Where(fn)) /\ Inmost.cur \in Nodes /\ Here = Inmost
      /\ Node.n = K(Inmost.cur) /\ IsPassenger(passenger) /\ Node = cfg.nodes[Inmost.cur]
      /\ Stacked(fn, passenger.scopes, Where(fn)[Inmost.cur])
  BY AtHand, ReadText
<1>2. /\ K(Inmost.cur) \in {"BranchMerge", "LoopFoot"}
      /\ K(Inmost.cur) = "BranchMerge" <=> EndFalsePath
  BY <1>1 DEF EndFalsePath, EndLoop, At
<1>3. /\ Lay[Inmost.cur].of = Inmost.at /\ Inmost.at \in Nodes /\ K(Inmost.cur) \in Closers
      /\ Where(fn)[Inmost.cur] = Where(fn)[Inmost.at] /\ Where(fn)[Inmost.cur] # <<>>
      /\ K(Inmost.cur) = "BranchMerge" =>
           K(Inmost.at) = "BranchSplit" /\ Inmost.path \in {"true", "false"}
      /\ K(Inmost.cur) = "LoopFoot" => K(Inmost.at) = "LoopHead" /\ Inmost.path = "loop"
  BY <1>1, <1>2, MetAt
<1>4. PICK path, first, second, next :
        /\ Leave(path, <<first, second>>, next) /\ Inmost.path = path /\ path \in {"false", "loop"}
        /\ first \in Quiet /\ second \in Quiet
        /\ K(Inmost.cur) = "BranchMerge" => next = Next(cfg, Inmost.cur)
        /\ K(Inmost.cur) = "LoopFoot" => next = AfterLoopFoot(cfg, After(cfg, Inmost.at, "False"))
  <2>1. CASE EndFalsePath
    <3>1. /\ Leave("false", <<"branch_end_false_path", "branch_merge">>, Next(cfg, Inmost.cur))
          /\ Inmost.path = "false" /\ K(Inmost.cur) # "LoopFoot"
      BY <1>1, <1>2, <1>3, <2>1 DEF EndFalsePath
    <3> QED  BY <3>1 DEF Quiet
  <2>2. CASE ~EndFalsePath
    <3>1. EndLoop /\ K(Inmost.cur) = "LoopFoot" /\ Inmost.path = "loop"  BY <1>2, <1>3, <2>2
    <3>2. Leave("loop", <<"loop_end_true_path", "loop_foot">>,
                AfterLoopFoot(cfg, After(cfg, Inmost.at, "False")))
      BY <1>1, <3>1 DEF EndLoop
    <3> QED  BY <3>1, <3>2 DEF Quiet
  <2> QED  BY <2>1, <2>2
<1>5. PICK events : events = <<first, second>>  OBVIOUS
<1>6. /\ Proceed(events, next, GoesOn(Front(visits), next)) /\ visited' = Append(visited, Inmost.cur)
  BY <1>1, <1>4, <1>5 DEF Leave
<1>7. Comes(cfg, Lay, next, Lay[Inmost.at].of, Lay[Inmost.at].path, Lay[Inmost.at].at)
  <2>1. CASE K(Inmost.cur) = "BranchMerge"
    BY <1>1, <1>3, <1>4, <2>1 DEF Sound, NestedBy, Followed, Nodes, K
  <2>2. CASE K(Inmost.cur) = "LoopFoot"
    BY <1>3, <1>4, <1>1, <2>2 DEF Sound, NestedBy, Followed, Nodes, K
  <2> QED  BY <1>2, <2>1, <2>2
<1>8. next \in Nodes /\ next # Nowhere  BY <1>1, <1>7, ComesInside DEF Sound
<1>9. PICK u : u = Where(fn)[Inmost.cur]  OBVIOUS
<1>10. Where(fn)[next] = u \/ Where(fn)[next] = Later(u, 1)
  <2>1. CASE K(Inmost.cur) = "BranchMerge"
    BY <1>1, <1>4, <1>8, <1>9, <2>1 DEF PlacesFollow, Nodes, K
  <2>2. CASE K(Inmost.cur) = "LoopFoot"
    BY <1>1, <1>3, <1>4, <1>8, <1>9, <2>2 DEF PlacesFollow, Nodes, K
  <2> QED  BY <1>2, <2>1, <2>2
<1>11. Stacked(fn, passenger.scopes, Later(u, 1)) /\ Len(Later(u, 1)) = Len(u)
  BY <1>1, <1>2, <1>3, <1>9, NodeGoesPast
<1>12. Told(events) = passenger
       /\ Resolved(fn, passenger, passenger, NodeNames(Node, Where(fn)[Inmost.cur]),
                   NodeAnons(Node, Where(fn)[Inmost.cur]))
  BY <1>2, <1>4, <1>5, QuietTold
<1>13. PICK names, anons : /\ names = NodeNames(Node, Where(fn)[Inmost.cur])
                           /\ anons = NodeAnons(Node, Where(fn)[Inmost.cur])
  OBVIOUS
<1>14. LexOf(fn, names) \subseteq Lexical(fn)  BY <1>1, <1>13, NodeLexical
<1>15. Resolved(fn, passenger, Told(events), names, anons)  BY <1>12, <1>13
<1>16. PICK loops : loops = GoesOn(Front(visits), next)  OBVIOUS
<1>17. ASSUME passenger'.outcome = "going", passenger' = Told(events), UNCHANGED <<fn, cfg>>,
              visits' = loops
       PROVE  Sound' /\ Carried'
  <2>1. visits' = GoesOn(Front(visits), next)  BY <1>16, <1>17
  <2>2. Sound'  BY <1>1, <1>3, <1>4, <1>6, <1>7, <1>17, <2>1, LeaveKeeps
  <2>3. Inmost'.cur = next
    <3>1. PICK less : less = Front(visits)  OBVIOUS
    <3>2. less \in Seq(Visits) /\ less # <<>>
      <4>1. visits \in Seq(Visits) /\ visits # <<>> /\ Len(visits) > 1
        <5>1. visits \in Seq(Visits) /\ visits # <<>>  BY <1>1 DEF Sound, Typed
        <5>2. Len(visits) \in Nat \ {0} /\ Inmost = visits[Len(visits)]  BY <1>1, Innermost DEF Sound
        <5>3. Inmost.path # "main"  BY <1>4
        <5>4. visits[1].path = "main"  BY <1>1 DEF Sound, Standing
        <5> QED  BY <5>1, <5>2, <5>3, <5>4
      <4>2. less \in Seq(Visits) /\ Len(less) = Len(visits) - 1  BY <3>1, <4>1, Popped
      <4> QED  BY <4>1, <4>2
    <3> QED  BY <1>8, <2>1, <3>1, <3>2, WentTo DEF Inmost
  <2>4. Resolved(fn, passenger, passenger', NodeNames(Node, Where(fn)[Inmost.cur]),
                 NodeAnons(Node, Where(fn)[Inmost.cur]))
    BY <1>12, <1>17
  <2>5. Stacked(fn, passenger'.scopes, Where(fn)[next])
    BY <1>1, <1>9, <1>10, <1>11, <1>12, <1>17
  <2>6. Deepens(K(Inmost.cur), Len(Where(fn)[Inmost.cur]), Len(Where(fn)[next]))
    BY <1>2, <1>9, <1>10, <1>11 DEF Deepens
  <2>7. Carried'  BY <1>1, <1>6, <1>8, <1>17, <2>3, <2>4, <2>5, <2>6, GoesWith
  <2> QED  BY <2>2, <2>7
<1> QED  BY <1>1, <1>6, <1>14, <1>15, <1>16, <1>17, ProceedHolds

\* At the end every node was visited, and control is outside the body.
LEMMA EndHolds ==
  ASSUME RInv, status = "visiting", VisitEnd
  PROVE  RInv'
<1>1. /\ Sound /\ cfg.err = "none" /\ Carried /\ passenger.outcome = "going"
      /\ PlacesFollow(cfg, Lay, Where(fn)) /\ SaidBy(fn, cfg, Where(fn)) /\ Inmost.cur \in Nodes
      /\ Here = Inmost /\ Node.n = K(Inmost.cur) /\ Node = cfg.nodes[Inmost.cur]
      /\ Stacked(fn, passenger.scopes, Where(fn)[Inmost.cur])
  BY AtHand, ReadText
<1>2. K(Inmost.cur) = "End"  BY <1>1 DEF VisitEnd, At
<1>3. passenger' = passenger /\ fn' = fn /\ cfg' = cfg
  <2>1. "end" \in Quiet  BY DEF Quiet
  <2>2. Told(<<"end">>) = passenger  BY <1>2, <2>1, QuietTold
  <2> QED  BY <2>2 DEF VisitEnd
<1>4. status' \in {"done", "panicked"}  BY <1>1, <1>3 DEF VisitEnd
<1>5. PICK cur, p, seen : cur = Inmost.cur /\ p = passenger /\ seen = ToSet(visited)  OBVIOUS
<1>6. Nodes = seen \cup {cur}
  <2>1. \A n \in Nodes : n \in Seen \/ n = cur  BY <1>1, <1>2, <1>5, AllButEnd
  <2>2. Seen = seen  BY <1>5 DEF Seen, ToSet
  <2>3. \A n \in Seen : n \in Nodes  BY <1>1 DEF Sound, Typed, Seen
  <2> QED  BY <1>1, <1>5, <2>1, <2>2, <2>3
<1>7. /\ NodeNames(cfg.nodes[cur], Where(fn)[cur]) = {}
      /\ NodeAnons(cfg.nodes[cur], Where(fn)[cur]) = {}
  BY <1>1, <1>2, <1>5, NothingThere
<1>8. Names(fn) = NamesAt(fn, cfg, seen) /\ Anons(fn) = AnonsAt(fn, cfg, seen)
  <2>1. /\ Names(fn) = UNION {NodeNames(cfg.nodes[n], Where(fn)[n]) : n \in Nodes}
        /\ Anons(fn) = UNION {NodeAnons(cfg.nodes[n], Where(fn)[n]) : n \in Nodes}
    BY <1>1 DEF SaidBy, Nodes
  <2>2. Names(fn) = NamesAt(fn, cfg, seen) \cup NodeNames(cfg.nodes[cur], Where(fn)[cur])
    BY <1>6, <2>1 DEF NamesAt
  <2>3. Anons(fn) = AnonsAt(fn, cfg, seen) \cup NodeAnons(cfg.nodes[cur], Where(fn)[cur])
    BY <1>6, <2>1 DEF AnonsAt
  <2> QED  BY <1>7, <2>2, <2>3
<1>9. CarriedTo(fn, cfg, p, cur, visited)  BY <1>1, <1>5 DEF Carried
<1>10. Pairs(p.bound) = Lexical(fn)
  <2>1. Pairs(p.bound) = LexOf(fn, NamesAt(fn, cfg, seen))  BY <1>5, <1>9 DEF CarriedTo
  <2> QED  BY <1>8, <2>1 DEF LexOf, Lexical
<1>11. Kept(fn, p.anon, Anons(fn))  BY <1>5, <1>8, <1>9 DEF CarriedTo
<1>12. p.scopes = <<FnScope(fn.outer, fn.params)>>
  <2>1. Where(fn)[cur] = <<>>  BY <1>1, <1>2, <1>5 DEF PlacesFollow, Nodes, K
  <2>2. Len(<<>>) = 0  OBVIOUS
  <2>3. Stacked(fn, p.scopes, <<>>)  BY <1>1, <1>5, <2>1
  <2>4. Listed(p.scopes) /\ Len(p.scopes) = 1 /\ p.scopes[1] = FnScope(fn.outer, fn.params)
    BY <2>2, <2>3 DEF Stacked
  <2> QED  BY <2>4 DEF Listed
<1>13. IsPassenger(p) /\ fn \in Sources  BY <1>5 DEF RInv
<1>14. p = passenger' /\ p = passenger  BY <1>3, <1>5
<1> HIDE DEF RInv
<1>15. /\ fn \in Sources /\ IsPassenger(passenger') /\ Pairs(passenger'.bound) \subseteq Lexical(fn)
       /\ Pairs(passenger'.bound) = Lexical(fn)
       /\ Kept(fn, passenger'.anon, Anons(fn))
       /\ passenger'.scopes = <<FnScope(fn.outer, fn.params)>>
       /\ \A x \in Pairs(passenger'.bound) : x[2] \in Own(fn)
  BY <1>1, <1>10, <1>11, <1>12, <1>13, <1>14, LexicalOwn
<1> QED  BY <1>3, <1>4, <1>15 DEF RInv

LEMMA StepHolds ==
  ASSUME RInv, Step
  PROVE  RInv'
<1>1. status = "visiting"
  BY DEF Step, VisitStart, VisitScope, VisitBlock, VisitReturn, VisitContinue, VisitBreak,
         VisitSplit, VisitHead, EndTruePath, EndFalsePath, EndLoop, VisitEnd, At
<1>2. CASE VisitStart  BY <1>1, <1>2, StartHolds
<1>3. CASE VisitScope  BY <1>1, <1>3, ScopeHolds
<1>4. CASE VisitBlock  BY <1>1, <1>4, BlockHolds
<1>5. CASE VisitReturn \/ VisitContinue \/ VisitBreak  BY <1>1, <1>5, JumpHolds
<1>6. CASE VisitSplit \/ VisitHead  BY <1>1, <1>6, DescendHolds
<1>7. CASE EndTruePath  BY <1>1, <1>7, TurnHolds
<1>8. CASE EndFalsePath \/ EndLoop  BY <1>1, <1>8, LeaveHolds
<1>9. CASE VisitEnd  BY <1>1, <1>9, EndHolds
<1> QED  BY <1>2, <1>3, <1>4, <1>5, <1>6, <1>7, <1>8, <1>9 DEF Step

LEMMA StillHolds ==
  ASSUME RInv, UNCHANGED vars
  PROVE  RInv'
<1>1. /\ UNCHANGED <<fn, cfg>>
      /\ visits' = visits /\ passenger' = passenger /\ visited' = visited /\ status' = status
  BY DEF vars
<1>2. /\ Lay' = Lay /\ Nodes' = Nodes /\ Visits' = Visits /\ cfg' = cfg /\ fn' = fn
      /\ NestedBy(cfg, Lay)' <=> NestedBy(cfg, Lay)
      /\ \A n : K(n)' = K(n)
  BY <1>1, Same, SameNodes
<1>3. Seen' = Seen /\ Inmost' = Inmost  BY <1>1, <1>2 DEF Seen, Inmost
<1>4. NoneTwice' <=> NoneTwice  BY <1>1 DEF NoneTwice
<1>5. Typed' <=> Typed  BY <1>1, <1>2 DEF Typed
<1>6. Standing' <=> Standing  BY <1>1, <1>2 DEF Standing
<1>7. \A n : Past(n)' <=> Past(n)  BY <1>1, <1>2, <1>3 DEF Past
<1>8. Sound' <=> Sound  BY <1>2, <1>3, <1>4, <1>5, <1>6, <1>7 DEF Sound
<1>9. Carried' <=> Carried  BY <1>1, <1>3 DEF Carried
<1> QED  BY <1>1, <1>8, <1>9 DEF RInv

\* A walk begins at the start of a graph.
LEMMA FirstHolds ==
  ASSUME Init
  PROVE  RInv
<1>1. /\ fn \in Sources /\ cfg = CfgOf(fn) /\ visited = <<>>
      /\ passenger = New(FnScope(fn.outer, fn.params))
      /\ visits = <<Visit("main", Nowhere, StartNode)>>
      /\ status = IF cfg.err = "none" THEN "visiting" ELSE "rejected"
  BY DEF Init, NewPassenger
<1>2. PICK scope : scope = FnScope(fn.outer, fn.params)  OBVIOUS
<1>3. /\ passenger.scopes = <<scope>> /\ passenger.outcome = "going" /\ passenger.bound = <<>>
      /\ passenger.anon = <<>> /\ IsPassenger(passenger)
  BY <1>1, <1>2 DEF New, IsPassenger
<1>4. Pairs(passenger.bound) = {}  BY <1>3 DEF Pairs
<1>5. CASE cfg.err # "none"  BY <1>1, <1>3, <1>4, <1>5 DEF RInv
<1>6. CASE cfg.err = "none"
  <2>1. NestedBy(cfg, Lay)  BY <1>1, <1>6, GraphsNested DEF Lay
  <2>2. Seen = {} /\ NoneTwice  BY <1>1 DEF Seen, NoneTwice
  <2>3. StartNode \in Nodes  BY <2>1, Places
  <2>4. /\ Visit("main", Nowhere, StartNode) \in Visits /\ visits \in Seq(Visits)
        /\ Len(visits) = 1 /\ visits # <<>>
        /\ visits[1] = [path |-> "main", at |-> Nowhere, cur |-> StartNode, rounds |-> 0]
    BY <1>1, <2>3 DEF Visit, Visits
  <2>5. Typed
    <3>1. visited \in Seq(Nodes)  BY <1>1
    <3> QED  BY <1>1, <2>4, <3>1 DEF Typed
  <2>6. \A i \in 1 .. Len(visits) : i = 1  BY <2>4
  <2>7. Standing
    <3>1. /\ LiesOn(Lay, StartNode, Nowhere, "main") /\ Lay[StartNode].at = 0 + 1
      BY <2>1 DEF NestedBy
    <3>2. Comes(cfg, Lay, StartNode, Nowhere, "main", 0)
      BY <2>3, <3>1 DEF Comes, Nodes
    <3> QED  BY <2>4, <2>6, <3>2 DEF Standing
  <2>8. ASSUME NEW n \in Nodes, Past(n) PROVE FALSE
    <3>1. HasPlace(n)  BY <2>1, Places
    <3>2. ~(LiesOn(Lay, n, Nowhere, "main") /\ Lay[n].at <= 0)  BY <3>1 DEF HasPlace, LiesOn
    <3>3. 1 \in 1 .. Len(visits) /\ 0 + (IF 1 < Len(visits) THEN 1 ELSE 0) = 0  BY <2>4
    <3> QED  BY <2>2, <2>4, <2>6, <2>8, <3>2, <3>3 DEF Past
  <2>9. Sound  BY <2>1, <2>2, <2>5, <2>7, <2>8 DEF Sound
  <2>10. Inmost.cur = StartNode /\ K(StartNode) = "Start"  BY <2>1, <2>3, <2>4, <2>5, Innermost, Places
  <2>11. Where(fn)[StartNode] = <<>>
    <3>1. PlacesFollow(cfg, Lay, Where(fn))  BY <1>6, <2>9, ReadText
    <3> QED  BY <2>3, <2>10, <3>1 DEF PlacesFollow, Nodes, K
  <2>12. Stacked(fn, passenger.scopes, <<>>)
    <3>1. Sees(fn, scope, <<>>)  BY <1>2, <1>6, <2>9, ReadText, SeesOwn
    <3>2. ASSUME NEW v \in Place, Prefix(v, <<>>) PROVE v = <<>>
      <4>1. Len(<<>>) = 0  OBVIOUS
      <4>2. Len(v) \in Nat /\ (v = <<>> <=> Len(v) = 0)  BY Coordinates
      <4>3. Len(v) <= 0  BY <3>2, <4>1 DEF Prefix
      <4> QED  BY <4>2, <4>3
    <3>3. <<scope>> \in Seq({scope}) /\ Len(<<scope>>) = 1 /\ <<scope>>[1] = scope  OBVIOUS
    <3>4. Listed(<<scope>>)  BY <3>3, AnyList
    <3>5. Len(<<>>) + 1 = 1  OBVIOUS
    <3> QED  BY <1>2, <1>3, <3>1, <3>2, <3>3, <3>4, <3>5 DEF Stacked
  <2>13. ToSet(visited) = {} /\ Len(visited) = 0 /\ DOMAIN visited = {}  BY <1>1 DEF ToSet
  <2>14. /\ NamesAt(fn, cfg, {}) = {} /\ AnonsAt(fn, cfg, {}) = {} /\ LexOf(fn, {}) = {}
         /\ Kept(fn, passenger.anon, {})
    BY DEF NamesAt, AnonsAt, LexOf, Kept
  <2>15. OpenIn(cfg, visited, 0) = 1
    <3>1. \A kind : Met(cfg, visited, 0, kind) = {}  BY DEF Met
    <3>2. Cardinality({}) = 0  BY FS_EmptySet
    <3> QED  BY <3>1, <3>2 DEF OpenIn
  <2>16. Len(<<>>) + 1 = 1  OBVIOUS
  <2>17. CarriedTo(fn, cfg, passenger, StartNode, visited)
    BY <1>3, <1>4, <2>11, <2>12, <2>13, <2>14, <2>15, <2>16 DEF CarriedTo
  <2>18. Carried  BY <2>10, <2>17 DEF Carried
  <2> QED  BY <1>1, <1>3, <1>4, <1>6, <2>9, <2>18 DEF RInv
<1> QED  BY <1>5, <1>6

LEMMA Holds == Spec => []RInv
<1>1. Init => RInv  BY FirstHolds
<1>2. RInv /\ [Walk]_vars => RInv'  BY StepHolds, StillHolds DEF Walk, Stopped
<1> QED  BY <1>1, <1>2, PTL DEF Spec

-----------------------------------------------------------------------------

\* On any graph of nested paths that follows its text, every temporary and
\* assigned path of a function gets the nearest declaration of its name before
\* it in its block or one around it, then the parameter, then the function; a
\* function is refused only if one of its names denotes nothing
\* (resolve_scope.rs, the callbacks with ScopedData::var_id and get_fn).
THEOREM NamesAreLexical == Spec => []ResolvesLexically
<1>1. RInv => ResolvesLexically  BY DEF RInv, ResolvesLexically, Pairs
<1> QED  BY <1>1, Holds, PTL

\* The scope kept for an anonymous function, in which its own names are
\* resolved later, sees what its place sees, no matter how deep in branches and
\* loops the place is and what was declared after it (resolve_expr_scope).
THEOREM AnonymousSeeTheirPlace == Spec => []AnonymousScoped
<1>1. RInv => AnonymousScoped
  <2> SUFFICES ASSUME RInv, status = "done", NEW a \in Anons(fn), NEW name
               PROVE  /\ a.fn \in DOMAIN passenger.anon
                      /\ BindingInfo(passenger.anon[a.fn], name)
                         = Denoted(fn, name, {"var", "fn"}, a.place)
    BY DEF AnonymousScoped
  <2>1. a.fn \in DOMAIN passenger.anon /\ Sees(fn, passenger.anon[a.fn], a.place)
    BY DEF RInv, Kept
  <2> QED  BY <2>1, LookedUp
<1> QED  BY <1>1, Holds, PTL

\* No name of a function ever denotes a variable of the function around it,
\* whatever the names of the two are (generate_fn_analysis_data).
THEOREM VariablesAreOwn == Spec => []OwnVariables
<1>1. RInv => OwnVariables
  <2> SUFFICES ASSUME RInv, NEW k \in DOMAIN passenger.bound, NEW name \in DOMAIN fn.outer.vars
               PROVE  passenger.bound[k] # fn.outer.vars[name]
    BY DEF OwnVariables
  <2>1. <<k, passenger.bound[k]>> \in Pairs(passenger.bound)  BY DEF Pairs
  <2>2. PICK x \in Pairs(passenger.bound) : x = <<k, passenger.bound[k]>>  BY <2>1
  <2>3. passenger.bound[k] \in Own(fn)  BY <2>2 DEF RInv
  <2>4. fn.outer.vars[name] \notin Own(fn)  BY OwnOnly DEF RInv
  <2> QED  BY <2>3, <2>4
<1> QED  BY <1>1, Holds, PTL

\* Every path of a branch or a loop leaves as many scopes open as there were
\* where it began, dead code behind a return, a break or a continue included,
\* and the function's own is left in the end: whenever a name is looked up or a
\* block is left there is a scope, as resolve_scope.rs expects (current and
\* pop_current, "Should always have a scope").
THEOREM ScopesAreBalanced == Spec => []BalancedScopes
<1>1. RInv => BalancedScopes
  <2> SUFFICES ASSUME RInv, At({"BranchMerge", "LoopFoot"})
               PROVE  \E n \in DOMAIN visited : /\ visited[n] = Here.at
                                                /\ Len(passenger.scopes) = Open(n)
    BY DEF RInv, BalancedScopes
  <2>1. status = "visiting"  BY DEF At
  <2>2. /\ Sound /\ cfg.err = "none" /\ Carried /\ Here = Inmost /\ Node.n = K(Inmost.cur)
        /\ Where(fn)[Inmost.cur] \in Place /\ Stacked(fn, passenger.scopes, Where(fn)[Inmost.cur])
    BY <2>1, AtHand, ReadText
  <2>3. K(Inmost.cur) \in {"BranchMerge", "LoopFoot"}  BY <2>2 DEF At
  <2>4. /\ Inmost.at \in Seen /\ Where(fn)[Inmost.cur] = Where(fn)[Inmost.at]
        /\ K(Inmost.at) \in Openers
    BY <2>2, <2>3, MetAt DEF Openers
  <2>5. PICK n \in DOMAIN visited : visited[n] = Inmost.at  BY <2>4 DEF Seen
  <2>6. OpenIn(cfg, visited, n) = Len(Where(fn)[Inmost.at]) + 1
    BY <2>2, <2>4, <2>5 DEF Carried, CarriedTo, K
  <2>7. Open(n) = OpenIn(cfg, visited, n)  BY DEF Open, OpenIn, Met, Kind
  <2>8. Len(passenger.scopes) = Len(Where(fn)[Inmost.cur]) + 1  BY <2>2 DEF Stacked
  <2> QED  BY <2>2, <2>4, <2>5, <2>6, <2>7, <2>8
<1> QED  BY <1>1, Holds, PTL

=============================================================================
