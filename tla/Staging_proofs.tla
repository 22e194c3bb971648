---------------------------- MODULE Staging_proofs ----------------------------
(* Lemmas of Staging: the cordons count the holds, however they are shared.    *)
EXTENDS Staging, FiniteSetTheorems, SequenceTheorems, WellFoundedInduction, TLAPS

(* A set of numbers has a least one.                                          *)
LEMMA Least ==
    ASSUME NEW T \in SUBSET Nat, T # {}
    PROVE  \E m \in T : \A n \in T : m <= n
<1> DEFINE R == {r \in Nat \X Nat : r[1] < r[2]}
<1>1. IsWellFoundedOn(R, Nat)
  BY NatLessThanWellFounded DEF OpToRel
<1>2. \E x \in T : \A y \in T : ~(<<y, x>> \in R)
  BY <1>1, WFMin
<1>3. PICK x \in T : \A y \in T : ~(y < x)
  BY <1>2
<1> QED  BY <1>3

(* The first cordon near a place is one near it.                              *)
LEMMA FirstIsNear ==
    ASSUME NEW cl \in Seq(Closure), NEW p, NearClosures(cl, p) # {}
    PROVE  /\ FirstNear(cl, p) \in NearClosures(cl, p)
           /\ \A j \in NearClosures(cl, p) : FirstNear(cl, p) <= j
<1>1. NearClosures(cl, p) \in SUBSET Nat
  BY DEF NearClosures
<1>2. \E i \in NearClosures(cl, p) : \A j \in NearClosures(cl, p) : i <= j
  BY <1>1, Least
<1> QED  BY <1>2 DEF FirstNear

(* Nothing else is first.                                                     *)
LEMMA FirstIs ==
    ASSUME NEW cl \in Seq(Closure), NEW p, NEW i \in NearClosures(cl, p),
           \A j \in NearClosures(cl, p) : i <= j
    PROVE  FirstNear(cl, p) = i
<1>1. NearClosures(cl, p) \in SUBSET Nat
  BY DEF NearClosures
<1>2. FirstNear(cl, p) <= i /\ i <= FirstNear(cl, p) /\ FirstNear(cl, p) \in NearClosures(cl, p)
  BY FirstIsNear
<1> QED  BY <1>1, <1>2

(* The cordons `cl' stand for the holds H, held at the places `at'.           *)
Standing(cl, H, at) ==
    /\ \A v \in H : NearClosures(cl, at[v]) # {}
    /\ \A i \in DOMAIN cl : cl[i].refs = Cardinality({v \in H : FirstNear(cl, at[v]) = i})

(* Where nothing is held does not matter.                                     *)
LEMMA SameStanding ==
    ASSUME NEW cl, NEW H, NEW at, NEW bt, \A v \in H : at[v] = bt[v], Standing(cl, H, at)
    PROVE  Standing(cl, H, bt)
<1>1. \A i \in DOMAIN cl : {v \in H : FirstNear(cl, at[v]) = i} = {v \in H : FirstNear(cl, bt[v]) = i}
  OBVIOUS
<1> QED  BY <1>1 DEF Standing

(* A hold more: its cordon is opened, or counts one more.                     *)
LEMMA BeginKeepsStanding ==
    ASSUME NEW H, IsFiniteSet(H), NEW v, v \notin H, NEW at, \A w \in H \cup {v} : at[w] \in Place,
           NEW cl \in Seq(Closure), Standing(cl, H, at)
    PROVE  LET d == BeginClosure(cl, at[v])
           IN  d \in Seq(Closure) /\ Standing(d, H \cup {v}, at)
<1> DEFINE p == at[v]
           d == BeginClosure(cl, p)
           n == Len(cl)
<1> SUFFICES d \in Seq(Closure) /\ Standing(d, H \cup {v}, at)
  OBVIOUS
<1>1. p \in Place /\ n \in Nat /\ DOMAIN cl = 1..n /\ \A w \in H : at[w] \in Place
  OBVIOUS
<1>2. \A i \in 1..n : cl[i] \in Closure
  OBVIOUS
<1>3. CASE NearClosures(cl, p) = {}
  <2> DEFINE e == [center |-> p, refs |-> 1]
  <2>1. e \in Closure /\ d = Append(cl, e)
    BY <1>1, <1>3 DEF BeginClosure, Closure
  <2>2. /\ d \in Seq(Closure) /\ Len(d) = n + 1 /\ DOMAIN d = 1..(n + 1)
        /\ \A i \in 1..n : d[i] = cl[i]
        /\ d[n + 1].center = p /\ d[n + 1].refs = 1
    BY <2>1, AppendProperties
  <2> HIDE DEF d, n
  <2>3. ASSUME NEW q
        PROVE  NearClosures(d, q) = NearClosures(cl, q) \cup
                   (IF <<p, q>> \in Near THEN {n + 1} ELSE {})
    <3> DEFINE m == n + 1
    <3>1. m \in Nat /\ m \notin 1..n /\ DOMAIN d = 1..n \cup {m} /\ d[m].center = p
      BY <1>1, <2>2
    <3> HIDE DEF m, p
    <3>2. NearClosures(d, q) = NearClosures(cl, q) \cup (IF <<p, q>> \in Near THEN {m} ELSE {})
      BY <1>1, <2>2, <3>1 DEF NearClosures
    <3> QED  BY <3>2 DEF m
  <2>4. FirstNear(d, p) = n + 1 /\ NearClosures(d, p) # {}
    <3>1. NearClosures(d, p) = {n + 1}
      BY <1>1, <1>3, <2>3, NearAssumption
    <3>2. n + 1 \in NearClosures(d, p) /\ \A j \in NearClosures(d, p) : n + 1 <= j
      BY <3>1, <1>1
    <3> HIDE DEF p
    <3> QED  BY <3>2, <2>2, FirstIs
  <2>5. ASSUME NEW w \in H
        PROVE  /\ NearClosures(d, at[w]) # {}
               /\ FirstNear(d, at[w]) = FirstNear(cl, at[w]) /\ FirstNear(d, at[w]) \in 1..n
    <3>1. NearClosures(cl, at[w]) # {}
      BY DEF Standing
    <3> DEFINE i == FirstNear(cl, at[w])
    <3>2. i \in NearClosures(cl, at[w]) /\ \A j \in NearClosures(cl, at[w]) : i <= j
      BY <3>1, FirstIsNear
    <3> HIDE DEF i
    <3>3. i \in 1..n
      BY <3>2, <1>1 DEF NearClosures
    <3>4. NearClosures(d, at[w]) \subseteq NearClosures(cl, at[w]) \cup {n + 1}
      BY <2>3
    <3>5. i \in NearClosures(d, at[w]) /\ \A j \in NearClosures(d, at[w]) : i <= j
      <4>1. i <= n + 1
        BY <3>3, <1>1
      <4>2. i \in NearClosures(d, at[w])
        BY <3>2, <2>3
      <4> QED  BY <3>2, <3>4, <4>1, <4>2
    <3> QED  BY <3>3, <3>5, <2>2, FirstIs DEF i
  <2>6. ASSUME NEW i \in DOMAIN d
        PROVE  d[i].refs = Cardinality({w \in H \cup {v} : FirstNear(d, at[w]) = i})
    <3>1. CASE i = n + 1
      <4>1. {w \in H \cup {v} : FirstNear(d, at[w]) = i} = {v}
        BY <3>1, <2>4, <2>5, <1>1
      <4>2. Cardinality({v}) = 1
        BY FS_Singleton
      <4> QED  BY <4>1, <4>2, <3>1, <2>2
    <3>2. CASE i \in 1..n
      <4>1. {w \in H \cup {v} : FirstNear(d, at[w]) = i} = {w \in H : FirstNear(cl, at[w]) = i}
        BY <3>2, <2>4, <2>5, <1>1
      <4> QED  BY <4>1, <3>2, <2>2, <1>1 DEF Standing
    <3> QED  BY <3>1, <3>2, <2>2, <1>1
  <2> QED  BY <2>2, <2>4, <2>5, <2>6 DEF Standing
<1>4. CASE NearClosures(cl, p) # {}
  <2> DEFINE f == FirstNear(cl, p)
  <2>1. f \in NearClosures(cl, p) /\ f \in 1..n
    BY <1>4, <1>1, FirstIsNear DEF NearClosures
  <2>2. d = [cl EXCEPT ![f] = [cl[f] EXCEPT !.refs = @ + 1]]
    BY <1>4 DEF BeginClosure
  <2> HIDE DEF d, f
  <2>3. [cl[f] EXCEPT !.refs = @ + 1] \in Closure
    BY <2>1, <1>2 DEF Closure
  <2>4. /\ d \in Seq(Closure) /\ DOMAIN d = 1..n
        /\ \A i \in 1..n : /\ d[i].center = cl[i].center
                           /\ d[i].refs = IF i = f THEN cl[i].refs + 1 ELSE cl[i].refs
    <3>1. /\ d \in Seq(Closure) /\ Len(d) = n
          /\ \A i \in 1..n : d[i] = IF i = f THEN [cl[f] EXCEPT !.refs = @ + 1] ELSE cl[i]
      BY <2>1, <2>2, <2>3, ExceptSeq
    <3> QED  BY <3>1, <2>1, <1>2, LenProperties DEF Closure
  <2>5. ASSUME NEW q
        PROVE  NearClosures(d, q) = NearClosures(cl, q) /\ FirstNear(d, q) = FirstNear(cl, q)
    BY <1>1, <2>4 DEF NearClosures, FirstNear
  <2>6. ASSUME NEW i \in 1..n
        PROVE  d[i].refs = Cardinality({w \in H \cup {v} : FirstNear(d, at[w]) = i})
    <3> DEFINE G == {w \in H : FirstNear(cl, at[w]) = i}
    <3>1. cl[i].refs = Cardinality(G) /\ IsFiniteSet(G)
      BY <1>1, FS_Subset DEF Standing
    <3>2. CASE i = f
      <4>1. {w \in H \cup {v} : FirstNear(d, at[w]) = i} = G \cup {v}
        BY <3>2, <2>5 DEF f
      <4>2. Cardinality(G \cup {v}) = Cardinality(G) + 1
        BY <3>1, FS_AddElement
      <4> QED  BY <4>1, <4>2, <3>1, <3>2, <2>4
    <3>3. CASE i # f
      <4>1. {w \in H \cup {v} : FirstNear(d, at[w]) = i} = G
        BY <3>3, <2>5 DEF f
      <4> QED  BY <4>1, <3>1, <3>3, <2>4
    <3> QED  BY <3>2, <3>3
  <2>7. \A w \in H \cup {v} : NearClosures(d, at[w]) # {}
    BY <2>5, <1>4 DEF Standing
  <2> QED  BY <2>4, <2>6, <2>7 DEF Standing
<1> QED  BY <1>3, <1>4

(* A hold less: the cordon it counted on counts one less, or is taken down.   *)
LEMMA EndKeepsStanding ==
    ASSUME NEW H, IsFiniteSet(H), NEW v \in H, NEW at, \A w \in H : at[w] \in Place,
           NEW cl \in Seq(Closure), Standing(cl, H, at)
    PROVE  LET d == EndClosure(cl, at[v])
           IN  d \in Seq(Closure) /\ Standing(d, H \ {v}, at)
<1> DEFINE p == at[v]
           d == EndClosure(cl, p)
           n == Len(cl)
           f == FirstNear(cl, p)
           F(w) == FirstNear(cl, at[w])
<1> SUFFICES d \in Seq(Closure) /\ Standing(d, H \ {v}, at)
  OBVIOUS
<1>1. n \in Nat /\ DOMAIN cl = 1..n /\ \A i \in 1..n : cl[i] \in Closure
  OBVIOUS
<1>2. NearClosures(cl, p) # {} /\ f \in NearClosures(cl, p) /\ f \in 1..n
  BY <1>1, FirstIsNear DEF Standing, NearClosures
<1>3. ASSUME NEW w \in H
      PROVE  /\ F(w) \in NearClosures(cl, at[w]) /\ F(w) \in 1..n
             /\ \A j \in NearClosures(cl, at[w]) : F(w) <= j
  BY <1>1, FirstIsNear DEF Standing, NearClosures
<1>4. ASSUME NEW i \in 1..n
      PROVE  /\ IsFiniteSet({w \in H : F(w) = i})
             /\ cl[i].refs = Cardinality({w \in H : F(w) = i}) /\ cl[i].refs \in Nat \ {0}
  <2>1. IsFiniteSet({w \in H : F(w) = i})
    BY FS_Subset
  <2>2. cl[i].refs = Cardinality({w \in H : F(w) = i}) /\ cl[i].refs \in Nat \ {0}
    BY <1>1 DEF Standing, Closure
  <2> QED  BY <2>1, <2>2
<1> HIDE DEF n
<1>5. CASE cl[f].refs # 1
  <2>1. d = [cl EXCEPT ![f] = [cl[f] EXCEPT !.refs = @ - 1]]
    BY <1>2, <1>5 DEF EndClosure
  <2> HIDE DEF d, f
  <2>2. [cl[f] EXCEPT !.refs = @ - 1] \in Closure
    BY <1>1, <1>2, <1>4, <1>5 DEF Closure
  <2>3. /\ d \in Seq(Closure) /\ DOMAIN d = 1..n
        /\ \A i \in 1..n : /\ d[i].center = cl[i].center
                           /\ d[i].refs = IF i = f THEN cl[i].refs - 1 ELSE cl[i].refs
    <3>1. /\ d \in Seq(Closure) /\ Len(d) = n
          /\ \A i \in 1..n : d[i] = IF i = f THEN [cl[f] EXCEPT !.refs = @ - 1] ELSE cl[i]
      BY <1>2, <2>1, <2>2, ExceptSeq DEF n
    <3> QED  BY <3>1, <1>1, <1>2, LenProperties DEF Closure
  <2>4. ASSUME NEW q
        PROVE  NearClosures(d, q) = NearClosures(cl, q) /\ FirstNear(d, q) = FirstNear(cl, q)
    BY <1>1, <2>3 DEF NearClosures, FirstNear
  <2>5. ASSUME NEW i \in 1..n
        PROVE  d[i].refs = Cardinality({w \in H \ {v} : FirstNear(d, at[w]) = i})
    <3> DEFINE G == {w \in H : F(w) = i}
    <3>1. {w \in H \ {v} : FirstNear(d, at[w]) = i} = IF i = f THEN G \ {v} ELSE G
      BY <2>4 DEF f
    <3>2. i = f => v \in G
      BY DEF f
    <3>3. IsFiniteSet(G) /\ cl[i].refs = Cardinality(G) /\ cl[i].refs \in Nat
      BY <1>4
    <3>4. i = f => Cardinality(G \ {v}) = Cardinality(G) - 1
      BY <3>2, <3>3, FS_RemoveElement
    <3> HIDE DEF G
    <3> QED  BY <3>1, <3>3, <3>4, <2>3
  <2>6. \A w \in H \ {v} : NearClosures(d, at[w]) # {}
    BY <2>4, <1>3
  <2> QED  BY <2>3, <2>5, <2>6 DEF Standing
<1>6. CASE cl[f].refs = 1
  <2>1. d = Without(cl, f)
    BY <1>2, <1>6 DEF EndClosure
  <2> DEFINE s(i) == IF i < f THEN i ELSE i + 1        \* where a cordon stood
             r(i) == IF i < f THEN i ELSE i - 1        \* where it stands
  <2>2. d = [j \in 1..(n - 1) |-> cl[s(j)]]
    BY <2>1, <1>1, <1>2 DEF Without, n
  <2>3. n - 1 \in Nat /\ \A j \in 1..(n - 1) : s(j) \in 1..n /\ s(j) # f
    BY <1>1, <1>2
  <2> HIDE DEF d
  <2>4. d \in Seq(Closure) /\ DOMAIN d = 1..(n - 1) /\ \A j \in 1..(n - 1) : d[j] = cl[s(j)]
    <3>1. \A j \in 1..(n - 1) : cl[s(j)] \in Closure
      BY <1>1, <2>3
    <3>2. d \in [1..(n - 1) -> Closure]
      BY <3>1, <2>2
    <3>3. d \in Seq(Closure)
      BY <3>2, <2>3
    <3> QED  BY <3>3, <2>2
  <2>5. ASSUME NEW w \in H \ {v}
        PROVE  /\ F(w) # f
               /\ NearClosures(d, at[w]) # {} /\ FirstNear(d, at[w]) = r(F(w))
    <3>1. F(w) # f
      <4> DEFINE G == {u \in H : F(u) = f}
      <4>1. v \in G /\ Cardinality(G) = 1 /\ IsFiniteSet(G)
        BY <1>2, <1>4, <1>6
      <4>2. \E x : G = {x}
        BY <4>1, FS_Singleton
      <4>3. G = {v}
        BY <4>1, <4>2
      <4>4. w \notin G
        BY <4>3
      <4> QED  BY <4>4
    <3> DEFINE i == F(w)
    <3>2. /\ i \in NearClosures(cl, at[w]) /\ i \in 1..n /\ i # f
          /\ \A j \in NearClosures(cl, at[w]) : i <= j
      BY <3>1, <1>3
    <3> HIDE DEF i, f
    <3>3. r(i) \in 1..(n - 1) /\ s(r(i)) = i
      BY <3>2, <1>1, <1>2
    <3>4. NearClosures(d, at[w]) = {j \in 1..(n - 1) : s(j) \in NearClosures(cl, at[w])}
      BY <2>3, <2>4, <1>1 DEF NearClosures
    <3>5. r(i) \in NearClosures(d, at[w])
      BY <3>2, <3>3, <3>4
    <3>6. ASSUME NEW j \in NearClosures(d, at[w])
          PROVE  r(i) <= j
      <4>1. j \in 1..(n - 1) /\ i <= s(j)
        BY <3>2, <3>4
      <4> QED  BY <4>1, <3>2, <1>1, <1>2
    <3> QED  BY <3>1, <3>5, <3>6, <2>4, FirstIs DEF i
  <2>6. ASSUME NEW i \in 1..(n - 1)
        PROVE  d[i].refs = Cardinality({w \in H \ {v} : FirstNear(d, at[w]) = i})
    <3>1. s(i) \in 1..n /\ s(i) # f /\ d[i] = cl[s(i)]
      BY <2>3, <2>4
    <3>2. ASSUME NEW w \in H
          PROVE  w # v /\ FirstNear(d, at[w]) = i <=> F(w) = s(i)
      <4>1. CASE w = v
        BY <4>1, <3>1
      <4>2. CASE w # v
        <5>1. F(w) \in 1..n /\ F(w) # f /\ FirstNear(d, at[w]) = r(F(w))
          BY <4>2, <2>5, <1>3
        <5> HIDE DEF f, F
        <5> QED  BY <4>2, <5>1, <1>1, <1>2
      <4> QED  BY <4>1, <4>2
    <3>3. {w \in H \ {v} : FirstNear(d, at[w]) = i} = {w \in H : F(w) = s(i)}
      BY <3>2
    <3> QED  BY <3>1, <3>3, <1>4
  <2> QED  BY <2>4, <2>5, <2>6 DEF Standing
<1> QED  BY <1>5, <1>6
==============================================================================
