---------------------------- MODULE CaseFleet_proofs ----------------------------
(* Theorems of CaseFleet, for any cases, vehicles, caps and delays.             *)
EXTENDS CaseFleet, FiniteSetTheorems, TLAPS

RowType == [Vehicles -> Nat]
Heli(k) == Cardinality(k.sent \cap {"heli"})

-----------------------------------------------------------------------------
(* Tasks, and the count of those that may yet list a vehicle.                  *)

(* A task's job says which fields it has.                                      *)
LEMMA Kinds ==
    ASSUME NEW t \in TaskType
    PROVE  /\ t.job \in ChainJobs \cup {"reinforce", "nearby", "heli", "send", "meet"}
           /\ t.in \in Nat
           /\ t.job \in ChainJobs => t \in ChainType
           /\ t.job \in {"nearby", "reinforce"} =>
                 t \in [job : {"nearby", "reinforce"}, wave : Nat, in : Nat]
           /\ t.job = "heli" => t \in [job : {"heli"}, in : Nat]
           /\ t.job \in {"send", "meet"} =>
                 t \in [job : {"send", "meet"}, model : Services, in : Nat]
  BY DEF TaskType, ChainType, ChainJobs

(* Only a helicopter counts as wave -1.                                        *)
LEMMA Waves ==
    ASSUME NEW t \in Lists(TaskType)
    PROVE  /\ t \in TaskType
           /\ Wave(t) \in Nat \cup {-1}
           /\ Wave(t) = -1 <=> t.job = "heli"
<1>1. t \in TaskType /\ t.job \in ChainJobs \cup {"reinforce", "heli"}
  BY DEF Lists
<1>2. t.job # "heli" => t.wave \in Nat /\ Wave(t) = t.wave
  BY <1>1, Kinds DEF ChainType, Wave
<1>3. t.job = "heli" => Wave(t) = -1
  BY DEF Wave
<1> QED  BY <1>1, <1>2, <1>3

(* One helicopter is sent, or none.                                            *)
LEMMA OneHeli ==
    ASSUME NEW k
    PROVE  Heli(k) = IF "heli" \in k.sent THEN 1 ELSE 0
<1>1. CASE "heli" \in k.sent
  <2>1. k.sent \cap {"heli"} = {"heli"}
    BY <1>1
  <2> QED  BY <2>1, <1>1, FS_Singleton DEF Heli
<1>2. CASE "heli" \notin k.sent
  <2>1. k.sent \cap {"heli"} = {}
    BY <1>2
  <2> QED  BY <2>1, <1>2, FS_EmptySet DEF Heli
<1> QED  BY <1>1, <1>2

(* What may yet list a vehicle is bounded by the waves and the helicopter.     *)
LEMMA Fits ==
    ASSUME NEW k \in CaseType, NEW M \in SUBSET TaskType, WavesAreWhole(k, M),
           NEW v \in Vehicles
    PROVE  /\ IsFiniteSet(Unlisted(k, M, v))
           /\ Cardinality(Unlisted(k, M, v)) \in Nat
           /\ Cardinality(Unlisted(k, M, v)) <= 1 + k.waves + Heli(k)
<1> DEFINE U == Unlisted(k, M, v)
<1>0. k.waves \in Nat /\ k.tasks \subseteq TaskType
  BY DEF CaseType
<1>1. \A t \in Lists(k.tasks \cup M) : t \in Lists(TaskType)
  BY <1>0 DEF Lists
<1>2. ASSUME NEW w \in U
      PROVE  w \in 0 .. k.waves \/ (w = -1 /\ "heli" \in k.sent)
  <2>1. CASE w = 0
    BY <2>1, <1>0
  <2>2. CASE w # 0
    <3>1. PICK t \in Lists(k.tasks \cup M) : w = Wave(t)
      BY <1>2, <2>2 DEF Unlisted
    <3>2. Wave(t) <= k.waves /\ (t.job = "heli" => "heli" \in k.sent)
      BY <3>1 DEF WavesAreWhole
    <3>3. Wave(t) \in Nat \cup {-1} /\ (Wave(t) = -1 <=> t.job = "heli")
      BY <1>1, Waves
    <3> QED  BY <3>1, <3>2, <3>3, <1>0
  <2> QED  BY <2>1, <2>2
<1>3. CASE "heli" \in k.sent
  <2>1. U \subseteq (-1) .. k.waves
    BY <1>2, <1>0
  <2>2. IsFiniteSet((-1) .. k.waves) /\ Cardinality((-1) .. k.waves) = k.waves + 2
    BY FS_Interval, <1>0
  <2>3. IsFiniteSet(U) /\ Cardinality(U) <= k.waves + 2
    BY <2>1, <2>2, FS_Subset
  <2> QED  BY <2>3, <1>3, <1>0, OneHeli, FS_CardinalityType
<1>4. CASE "heli" \notin k.sent
  <2>1. U \subseteq 0 .. k.waves
    BY <1>2, <1>4
  <2>2. IsFiniteSet(0 .. k.waves) /\ Cardinality(0 .. k.waves) = k.waves + 1
    BY FS_Interval, <1>0
  <2>3. IsFiniteSet(U) /\ Cardinality(U) <= k.waves + 1
    BY <2>1, <2>2, FS_Subset
  <2> QED  BY <2>3, <1>4, <1>0, OneHeli, FS_CardinalityType
<1> QED  BY <1>3, <1>4

(* A vehicle listed at most once always fits.                                  *)
LEMMA OnceFits ==
    ASSUME NEW k \in CaseType, NEW M \in SUBSET TaskType, WavesAreWhole(k, M),
           NEW r \in RowType, NEW v \in Vehicles, r[v] <= 1
    PROVE  r[v] + Cardinality(Unlisted(k, M, v)) <= 2 + k.waves + Cardinality(k.sent \cap {"heli"})
<1>1. k.waves \in Nat /\ r[v] \in Nat /\ Heli(k) \in Nat
  BY OneHeli DEF CaseType, RowType
<1>2. /\ Cardinality(Unlisted(k, M, v)) \in Nat
      /\ Cardinality(Unlisted(k, M, v)) <= 1 + k.waves + Heli(k)
  BY Fits
<1> QED  BY <1>1, <1>2 DEF Heli

(* Fewer that may list it, and no more listings.                               *)
LEMMA FewerFit ==
    ASSUME NEW k \in CaseType, NEW M \in SUBSET TaskType, NEW r \in RowType, Sound(k, M, r),
           NEW l \in CaseType, NEW N \in SUBSET TaskType, NEW s \in RowType,
           NEW v \in Vehicles, s[v] <= r[v],
           Unlisted(l, N, v) \subseteq Unlisted(k, M, v),
           l.waves = k.waves, l.sent \cap {"heli"} = k.sent \cap {"heli"}
    PROVE  s[v] + Cardinality(Unlisted(l, N, v)) <= 2 + l.waves + Cardinality(l.sent \cap {"heli"})
<1>1. k.waves \in Nat /\ r[v] \in Nat /\ s[v] \in Nat /\ Heli(k) \in Nat /\ Heli(l) = Heli(k)
  BY OneHeli DEF CaseType, RowType, Heli
<1>2. IsFiniteSet(Unlisted(k, M, v)) /\ Cardinality(Unlisted(k, M, v)) \in Nat
  BY Fits DEF Sound
<1>3. /\ Cardinality(Unlisted(l, N, v)) <= Cardinality(Unlisted(k, M, v))
      /\ Cardinality(Unlisted(l, N, v)) \in Nat
  BY <1>2, FS_Subset, FS_CardinalityType
<1>4. r[v] + Cardinality(Unlisted(k, M, v)) <= 2 + k.waves + Heli(k)
  BY DEF Sound, Heli
<1>5. s[v] + Cardinality(Unlisted(l, N, v)) <= 2 + l.waves + Heli(l)
  BY <1>1, <1>2, <1>3, <1>4
<1> QED  BY <1>5 DEF Heli

(* One that may list it has listed it, or was the helicopter given up.         *)
LEMMA OneLessFits ==
    ASSUME NEW k \in CaseType, NEW M \in SUBSET TaskType, NEW r \in RowType, Sound(k, M, r),
           NEW l \in CaseType, NEW N \in SUBSET TaskType, NEW s \in RowType,
           NEW v \in Vehicles, NEW w \in Unlisted(k, M, v),
           Unlisted(l, N, v) \subseteq Unlisted(k, M, v) \ {w},
           l.waves = k.waves,
           \/ s[v] <= r[v] + 1 /\ l.sent \cap {"heli"} = k.sent \cap {"heli"}
           \/ s[v] <= r[v]
    PROVE  s[v] + Cardinality(Unlisted(l, N, v)) <= 2 + l.waves + Cardinality(l.sent \cap {"heli"})
<1>1. /\ k.waves \in Nat /\ r[v] \in Nat /\ s[v] \in Nat /\ Heli(k) \in 0 .. 1 /\ Heli(l) \in 0 .. 1
      /\ l.sent \cap {"heli"} = k.sent \cap {"heli"} => Heli(l) = Heli(k)
  BY OneHeli DEF CaseType, RowType, Heli
<1>2. IsFiniteSet(Unlisted(k, M, v)) /\ Cardinality(Unlisted(k, M, v)) \in Nat
  BY Fits DEF Sound
<1>3. /\ IsFiniteSet(Unlisted(k, M, v) \ {w})
      /\ Cardinality(Unlisted(k, M, v) \ {w}) = Cardinality(Unlisted(k, M, v)) - 1
  BY <1>2, FS_RemoveElement
<1>4. /\ Cardinality(Unlisted(l, N, v)) <= Cardinality(Unlisted(k, M, v)) - 1
      /\ Cardinality(Unlisted(l, N, v)) \in Nat
  BY <1>3, FS_Subset, FS_CardinalityType
<1>5. r[v] + Cardinality(Unlisted(k, M, v)) <= 2 + k.waves + Heli(k)
  BY DEF Sound, Heli
<1>6. s[v] + Cardinality(Unlisted(l, N, v)) <= 2 + l.waves + Heli(l)
  BY <1>1, <1>2, <1>4, <1>5
<1> QED  BY <1>6 DEF Heli

(* One more that may list it, for a wave or a helicopter more.                 *)
LEMMA OneMoreFits ==
    ASSUME NEW k \in CaseType, NEW M \in SUBSET TaskType, NEW r \in RowType, Sound(k, M, r),
           NEW l \in CaseType, NEW N \in SUBSET TaskType,
           NEW v \in Vehicles, NEW w,
           Unlisted(l, N, v) \subseteq Unlisted(k, M, v) \cup {w},
           \/ l.waves = k.waves + 1 /\ l.sent = k.sent
           \/ l.waves = k.waves /\ "heli" \in l.sent \ k.sent
    PROVE  r[v] + Cardinality(Unlisted(l, N, v)) <= 2 + l.waves + Cardinality(l.sent \cap {"heli"})
<1>1. /\ k.waves \in Nat /\ l.waves \in Nat /\ r[v] \in Nat /\ Heli(k) \in 0 .. 1 /\ Heli(l) \in 0 .. 1
      /\ l.sent = k.sent => Heli(l) = Heli(k)
      /\ "heli" \in l.sent \ k.sent => Heli(l) = Heli(k) + 1
  BY OneHeli DEF CaseType, RowType
<1>2. IsFiniteSet(Unlisted(k, M, v)) /\ Cardinality(Unlisted(k, M, v)) \in Nat
  BY Fits DEF Sound
<1>3. /\ IsFiniteSet(Unlisted(k, M, v) \cup {w})
      /\ Cardinality(Unlisted(k, M, v) \cup {w}) <= Cardinality(Unlisted(k, M, v)) + 1
  <2> DEFINE S == Unlisted(k, M, v)
  <2> HIDE DEF S
  <2>1. IsFiniteSet(S) /\ Cardinality(S) \in Nat
    BY <1>2 DEF S
  <2>2. IsFiniteSet(S \cup {w}) /\ (Cardinality(S \cup {w}) = Cardinality(S) \/ Cardinality(S \cup {w}) = Cardinality(S) + 1)
    BY <2>1, FS_AddElement
  <2> QED  BY <2>1, <2>2 DEF S
<1>4. /\ Cardinality(Unlisted(l, N, v)) <= Cardinality(Unlisted(k, M, v) \cup {w})
      /\ Cardinality(Unlisted(l, N, v)) \in Nat
      /\ Cardinality(Unlisted(k, M, v) \cup {w}) \in Nat
  BY <1>3, FS_Subset, FS_CardinalityType
<1>5. r[v] + Cardinality(Unlisted(k, M, v)) <= 2 + k.waves + Heli(k)
  BY DEF Sound, Heli
<1>6. r[v] + Cardinality(Unlisted(l, N, v)) <= 2 + l.waves + Heli(l)
  BY <1>1, <1>2, <1>3, <1>4, <1>5
<1> QED  BY <1>6 DEF Heli

-----------------------------------------------------------------------------
(* What the steps do to a case keeps it sound.                                 *)

(* Lists and Unlisted of the two sets of tasks together.                       *)
LEMMA ListsOfBoth ==
    ASSUME NEW S, NEW T
    PROVE  Lists(S \cup T) = Lists(S) \cup Lists(T)
  BY DEF Lists

(* An empty slot.                                                               *)
LEMMA VacantSound ==
    ASSUME NEW r \in RowType, \A v \in Vehicles : r[v] = 0
    PROVE  Sound(Vacant, {}, r) /\ Vacant \in CaseType
<1>1. Vacant \in CaseType
  BY DEF Vacant, CaseType
<1>2. Lists(Vacant.tasks \cup {}) = {} /\ Lists(Vacant.tasks) = {} /\ Vacant.waves = 0
  BY DEF Lists, Vacant
<1>3. WavesAreWhole(Vacant, {})
  BY <1>2 DEF WavesAreWhole
<1> QED  BY <1>1, <1>3, OnceFits DEF Sound

(* The tasks that list stay, and so does the rest; other vehicles may come to  *)
(* be listed once.                                                              *)
LEMMA Steady ==
    ASSUME NEW k \in CaseType, NEW M \in SUBSET TaskType, NEW r \in RowType, Sound(k, M, r),
           NEW l \in CaseType, NEW N \in SUBSET TaskType, NEW s \in RowType,
           Lists(l.tasks) = Lists(k.tasks), Lists(N) = Lists(M),
           l.waves = k.waves, l.sent \cap {"heli"} = k.sent \cap {"heli"},
           l.state = k.state \/ l.state \in {"scene", "cleanup", "cancelled"},
           l.state = "none" => l = k /\ s = r,
           \A v \in Vehicles : s[v] <= r[v] \/ s[v] <= 1
    PROVE  Sound(l, N, s)
<1>1. Lists(l.tasks \cup N) = Lists(k.tasks \cup M)
  <2>1. Lists(l.tasks \cup N) = Lists(l.tasks) \cup Lists(N)
    BY ListsOfBoth
  <2>2. Lists(k.tasks \cup M) = Lists(k.tasks) \cup Lists(M)
    BY ListsOfBoth
  <2> QED  BY <2>1, <2>2
<1>2. "heli" \in k.sent <=> "heli" \in l.sent
  OBVIOUS
<1>3. WavesAreWhole(l, N)
  BY <1>1, <1>2 DEF WavesAreWhole, Sound
<1>4. ASSUME NEW v \in Vehicles
      PROVE  s[v] + Cardinality(Unlisted(l, N, v)) <= 2 + l.waves + Cardinality(l.sent \cap {"heli"})
  <2>1. CASE s[v] <= 1
    BY <2>1, <1>3, OnceFits
  <2>2. CASE s[v] <= r[v]
    <3>1. Unlisted(l, N, v) \subseteq Unlisted(k, M, v)
      BY <1>1 DEF Unlisted
    <3> QED  BY <3>1, <2>2, FewerFit
  <2> QED  BY <2>1, <2>2
<1> QED  BY <1>3, <1>4 DEF Sound

(* A visit takes the tasks that are due and brings the others nearer.          *)
Nearer(T) == {[t EXCEPT !.in = @ - 1] : t \in {u \in T : u.in > 0}}
Ready(T) == {t \in T : t.in = 0}

(* A task brought one visit nearer stays what it is.                            *)
LEMMA NearerTask ==
    ASSUME NEW t \in TaskType, t.in > 0
    PROVE  LET u == [t EXCEPT !.in = @ - 1]
           IN  /\ u \in TaskType /\ u.job = t.job
               /\ t.job \in ChainJobs \cup {"reinforce"} => u.wave = t.wave
               /\ t.job \in ChainJobs => u.got = t.got
<1>1. t.in - 1 \in Nat
  BY Kinds
<1>2. CASE t.job \in ChainJobs
  BY <1>1, <1>2, Kinds DEF ChainType, TaskType, ChainJobs
<1>3. CASE t.job \in {"nearby", "reinforce"}
  BY <1>1, <1>3, Kinds DEF TaskType, ChainJobs
<1>4. CASE t.job = "heli"
  BY <1>1, <1>4, Kinds DEF TaskType, ChainJobs
<1>5. CASE t.job \in {"send", "meet"}
  BY <1>1, <1>5, Kinds DEF TaskType, ChainJobs
<1> QED  BY <1>2, <1>3, <1>4, <1>5, Kinds

(* The visit of a sound case leaves it sound, its tasks due taken out.          *)
LEMMA Visited ==
    ASSUME NEW k \in CaseType, NEW r \in RowType, Sound(k, {}, r), k.state # "none"
    PROVE  LET l == [k EXCEPT !.tasks = Nearer(@)]
           IN  /\ l \in CaseType /\ Ready(k.tasks) \in SUBSET TaskType
               /\ Sound(l, Ready(k.tasks), r)
<1> DEFINE l == [k EXCEPT !.tasks = Nearer(@)]
           N == Ready(k.tasks)
<1>0. k.tasks \subseteq TaskType /\ l.tasks = Nearer(k.tasks) /\ l.waves = k.waves
      /\ l.sent = k.sent /\ l.state = k.state
  BY DEF CaseType
<1>1. l.tasks \subseteq TaskType
  BY <1>0, NearerTask DEF Nearer
<1>2. l \in CaseType /\ N \in SUBSET TaskType
  BY <1>0, <1>1 DEF CaseType, Ready
<1>3. ASSUME NEW u \in Lists(l.tasks)
      PROVE  \E t \in Lists(k.tasks) :
                /\ t.in > 0 /\ u = [t EXCEPT !.in = @ - 1]
                /\ Wave(u) = Wave(t) /\ u.job = t.job
                /\ t.job \in ChainJobs => u.got = t.got
  <2>1. PICK t \in k.tasks : t.in > 0 /\ u = [t EXCEPT !.in = @ - 1]
    BY <1>0 DEF Lists, Nearer
  <2>2. /\ u.job = t.job /\ (t.job \in ChainJobs => u.got = t.got)
        /\ t.job \in ChainJobs \cup {"reinforce"} => u.wave = t.wave
    BY <2>1, <1>0, NearerTask
  <2>3. t \in Lists(k.tasks)
    BY <2>2 DEF Lists
  <2>4. Wave(u) = Wave(t)
    BY <2>2, <2>3 DEF Wave, Lists
  <2> QED  BY <2>1, <2>2, <2>3, <2>4
<1>4. \A u \in Lists(N) : u \in Lists(k.tasks) /\ u.in = 0
  BY DEF Lists, Ready
<1>5. WavesAreWhole(k, {}) /\ k.tasks \cup {} = k.tasks
  BY DEF Sound
<1>6. Lists(l.tasks \cup N) = Lists(l.tasks) \cup Lists(N)
  BY ListsOfBoth
<1>7. \A t \in k.tasks : t.in \in Nat
  BY <1>0, Kinds
<1>8. WavesAreWhole(l, N)
  <2>1. ASSUME NEW u \in Lists(l.tasks \cup N)
        PROVE  \E t \in Lists(k.tasks) :
                 /\ Wave(u) = Wave(t) /\ u.job = t.job
                 /\ \/ u \in Lists(l.tasks) /\ t.in > 0 /\ u = [t EXCEPT !.in = @ - 1]
                    \/ u \in Lists(N) /\ t.in = 0 /\ u = t
    BY <1>3, <1>4, <1>6, <2>1
  <2>2. ASSUME NEW t \in Lists(l.tasks \cup N)
        PROVE  /\ Wave(t) <= l.waves
               /\ t.job = "heli" => "heli" \in l.sent
    BY <2>1, <1>5, <1>0 DEF WavesAreWhole
  <2>3. ASSUME NEW t \in Lists(l.tasks \cup N), NEW u \in Lists(l.tasks \cup N), Wave(t) = Wave(u)
        PROVE  t = u
    <3>1. PICK t0 \in Lists(k.tasks) :
                 /\ Wave(t) = Wave(t0)
                 /\ \/ t0.in > 0 /\ t = [t0 EXCEPT !.in = @ - 1]
                    \/ t0.in = 0 /\ t = t0
      BY <2>1
    <3>2. PICK u0 \in Lists(k.tasks) :
                 /\ Wave(u) = Wave(u0)
                 /\ \/ u0.in > 0 /\ u = [u0 EXCEPT !.in = @ - 1]
                    \/ u0.in = 0 /\ u = u0
      BY <2>1
    <3>3. t0 = u0
      BY <3>1, <3>2, <2>3, <1>5 DEF WavesAreWhole
    <3> QED  BY <3>1, <3>2, <3>3
  <2>4. Lists(l.tasks) \cap Lists(N) = {}
    <3>1. SUFFICES ASSUME NEW u \in Lists(l.tasks), u \in Lists(N) PROVE FALSE
      OBVIOUS
    <3>2. PICK t \in Lists(k.tasks) : t.in > 0 /\ Wave(u) = Wave(t)
      BY <1>3
    <3>3. u \in Lists(k.tasks) /\ u.in = 0
      BY <3>1, <1>4
    <3>4. u = t
      BY <3>2, <3>3, <1>5 DEF WavesAreWhole
    <3> QED  BY <3>2, <3>3, <3>4
  <2>5. l.state \in {"none", "open"} => l.waves = 0 /\ Lists(l.tasks \cup N) = {}
    BY <1>0, <1>5, <2>1 DEF WavesAreWhole
  <2> QED  BY <2>2, <2>3, <2>4, <2>5 DEF WavesAreWhole
<1>9. ASSUME NEW v \in Vehicles
      PROVE  r[v] + Cardinality(Unlisted(l, N, v)) <= 2 + l.waves + Cardinality(l.sent \cap {"heli"})
  <2>1. ASSUME NEW u \in Lists(l.tasks \cup N), MayList(u, v)
        PROVE  \E t \in Lists(k.tasks \cup {}) : MayList(t, v) /\ Wave(u) = Wave(t)
    <3>1. CASE u \in Lists(N)
      BY <3>1, <2>1, <1>4, <1>5
    <3>2. CASE u \in Lists(l.tasks)
      <4>1. PICK t \in Lists(k.tasks) :
                /\ Wave(u) = Wave(t) /\ u.job = t.job
                /\ t.job \in ChainJobs => u.got = t.got
        BY <3>2, <1>3
      <4>2. MayList(t, v)
        BY <4>1, <2>1 DEF MayList, Claimed
      <4> QED  BY <4>1, <4>2, <1>5
    <3> QED  BY <3>1, <3>2, <1>6, <2>1
  <2>2. Unlisted(l, N, v) \subseteq Unlisted(k, {}, v)
    BY <2>1, <1>0 DEF Unlisted
  <2>3. r[v] <= r[v]
    BY DEF RowType
  <2> QED  BY <2>2, <2>3, <1>2, <1>0, FewerFit
<1> QED  BY <1>2, <1>8, <1>9, <1>0 DEF Sound

(* A task is run and replaced by at most one that lists: the next of its chain. *)
Replaces(t, n) ==
    /\ t.job \in ChainJobs \cup {"reinforce", "heli"}
    /\ n.job = "heli" => t.job = "heli"
    /\ Wave(n) = Wave(t)

(* Then waves stay whole: what lists is old, or takes the wave of the task run. *)
LEMMA Ran ==
    ASSUME NEW k \in CaseType, NEW M \in SUBSET TaskType, WavesAreWhole(k, M),
           NEW l \in CaseType, NEW t \in M, NEW new \in SUBSET TaskType,
           l.state = k.state, l.waves = k.waves, l.tasks = k.tasks \cup new,
           \/ l.sent \cap {"heli"} = k.sent \cap {"heli"}
           \/ t.job = "heli" /\ new = {},
           \A n \in Lists(new) : Replaces(t, n) /\ \A m \in Lists(new) : m = n
    PROVE  /\ WavesAreWhole(l, M \ {t})
           /\ \A u \in Lists(l.tasks \cup (M \ {t})) :
                 \/ u \in Lists(new)
                 \/ /\ u \in Lists(k.tasks \cup M) /\ u # t
                    /\ t \in Lists(M) => Wave(u) # Wave(t)
<1> DEFINE N == M \ {t}
           L == Lists(k.tasks \cup M)
<1>0. l.tasks \subseteq TaskType /\ k.tasks \subseteq TaskType /\ t \in TaskType
  BY DEF CaseType
<1>1. /\ Lists(l.tasks \cup N) = Lists(l.tasks) \cup Lists(N)
      /\ Lists(l.tasks) = Lists(k.tasks) \cup Lists(new)
      /\ L = Lists(k.tasks) \cup Lists(M)
      /\ Lists(N) = Lists(M) \ {t}
  BY DEF Lists
<1>2. Lists(k.tasks) \cap Lists(M) = {}
  BY DEF WavesAreWhole
<1>3. t \in Lists(M) <=> t.job \in ChainJobs \cup {"reinforce", "heli"}
  BY DEF Lists
<1>4. ASSUME NEW u \in Lists(l.tasks \cup N)
      PROVE  \/ u \in Lists(new)
             \/ /\ u \in Lists(k.tasks) \cup Lists(N) /\ u \in L /\ u # t
                /\ t \in Lists(M) => Wave(u) # Wave(t)
  <2>1. CASE u \in Lists(new)
    BY <2>1
  <2>2. CASE u \in Lists(k.tasks) \cup Lists(N)
    <3>1. u \in L
      BY <2>2, <1>1
    <3>2. u # t
      <4>1. u = t => u \in Lists(k.tasks) /\ u \in Lists(M)
        BY <2>2, <1>1 DEF Lists
      <4> QED  BY <4>1, <1>2
    <3>3. t \in Lists(M) => Wave(u) # Wave(t)
      BY <3>1, <3>2, <1>1 DEF WavesAreWhole
    <3> QED  BY <2>2, <3>1, <3>2, <3>3
  <2> QED  BY <2>1, <2>2, <1>1
<1>5. \A n \in Lists(new) : t \in L /\ t \in Lists(M) /\ Wave(n) = Wave(t)
  BY <1>3, <1>1 DEF Replaces
<1>6. ASSUME NEW u \in Lists(l.tasks \cup N)
      PROVE  Wave(u) <= l.waves /\ (u.job = "heli" => "heli" \in l.sent)
  <2>1. CASE u \in Lists(new)
    <3>1. Wave(u) <= l.waves
      BY <2>1, <1>5 DEF WavesAreWhole
    <3>2. ASSUME u.job = "heli" PROVE "heli" \in l.sent
      <4>1. t.job = "heli" /\ t \in L
        BY <3>2, <2>1, <1>5 DEF Replaces
      <4>2. "heli" \in k.sent
        BY <4>1 DEF WavesAreWhole
      <4>3. new # {}
        BY <2>1 DEF Lists
      <4> QED  BY <4>2, <4>3
    <3> QED  BY <3>1, <3>2
  <2>2. CASE u \notin Lists(new)
    <3>1. u \in L /\ (t \in Lists(M) => Wave(u) # Wave(t))
      BY <2>2, <1>4
    <3>2. Wave(u) <= l.waves /\ (u.job = "heli" => "heli" \in k.sent)
      BY <3>1 DEF WavesAreWhole
    <3>3. ASSUME u.job = "heli", t.job = "heli" PROVE FALSE
      BY <3>1, <3>3, <1>3 DEF Wave
    <3> QED  BY <3>2, <3>3
  <2> QED  BY <2>1, <2>2
<1>7. ASSUME NEW u \in Lists(l.tasks \cup N), NEW w \in Lists(l.tasks \cup N), Wave(u) = Wave(w)
      PROVE  u = w
  <2>1. CASE u \in Lists(new)
    <3>1. w \in Lists(new)
      BY <2>1, <1>7, <1>5, <1>4
    <3> QED  BY <2>1, <3>1
  <2>2. CASE u \notin Lists(new)
    <3>1. w \notin Lists(new)
      BY <2>2, <1>7, <1>5, <1>4
    <3>2. u \in L /\ w \in L
      BY <2>2, <3>1, <1>4
    <3> QED  BY <3>2, <1>7 DEF WavesAreWhole
  <2> QED  BY <2>1, <2>2
<1>8. Lists(l.tasks) \cap Lists(N) = {}
  <2>1. SUFFICES ASSUME NEW u \in Lists(N), u \in Lists(l.tasks) PROVE FALSE
    OBVIOUS
  <2>2. u \in Lists(M) /\ u # t /\ u \in L
    BY <2>1, <1>1
  <2>3. u \in Lists(new)
    BY <2>1, <2>2, <1>1, <1>2
  <2>4. Wave(u) = Wave(t) /\ t \in L
    BY <2>3, <1>5
  <2> QED  BY <2>2, <2>4 DEF WavesAreWhole
<1>9. l.state \in {"none", "open"} => l.waves = 0 /\ Lists(l.tasks \cup N) = {}
  BY <1>4, <1>5 DEF WavesAreWhole
<1>10. WavesAreWhole(l, N)
  BY <1>6, <1>7, <1>8, <1>9 DEF WavesAreWhole
<1> QED  BY <1>10, <1>4

(* Running it lists no vehicle without a look, or one that it now claims.      *)
LEMMA RanSound ==
    ASSUME NEW k \in CaseType, NEW M \in SUBSET TaskType, NEW r \in RowType, Sound(k, M, r),
           NEW l \in CaseType, NEW s \in RowType, NEW t \in M, NEW new \in SUBSET TaskType,
           k.state # "none",
           l.state = k.state, l.waves = k.waves, l.tasks = k.tasks \cup new,
           \/ l.sent \cap {"heli"} = k.sent \cap {"heli"}
           \/ t.job = "heli" /\ new = {} /\ s = r,
           \A n \in Lists(new) : Replaces(t, n) /\ \A m \in Lists(new) : m = n,
           \A v \in Vehicles :
              \/ s[v] <= 1
              \/ /\ s[v] <= r[v]
                 /\ \A n \in Lists(new) : MayList(n, v) => MayList(t, v)
              \/ /\ s[v] <= r[v] + 1 /\ t \in Lists(M) /\ MayList(t, v)
                 /\ \A n \in Lists(new) : ~MayList(n, v)
    PROVE  Sound(l, M \ {t}, s)
<1> DEFINE N == M \ {t}
           L == Lists(k.tasks \cup M)
<1>0. WavesAreWhole(k, M) /\ t \in TaskType
  BY DEF Sound
<1>1. \/ l.sent \cap {"heli"} = k.sent \cap {"heli"}
      \/ t.job = "heli" /\ new = {}
  OBVIOUS
<1>2. /\ WavesAreWhole(l, N)
      /\ \A u \in Lists(l.tasks \cup N) :
                 \/ u \in Lists(new)
                 \/ u \in L /\ u # t /\ (t \in Lists(M) => Wave(u) # Wave(t))
  BY <1>0, <1>1, Ran
<1>3. \A n \in Lists(new) : t \in L /\ Wave(n) = Wave(t)
  BY DEF Replaces, Lists
<1>4. ASSUME NEW v \in Vehicles,
             \A n \in Lists(new) : MayList(n, v) => MayList(t, v)
      PROVE  Unlisted(l, N, v) \subseteq Unlisted(k, M, v)
  <2>1. ASSUME NEW u \in Lists(l.tasks \cup N), MayList(u, v)
        PROVE  \E x \in L : MayList(x, v) /\ Wave(u) = Wave(x)
    BY <2>1, <1>2, <1>3, <1>4
  <2> QED  BY <2>1 DEF Unlisted
<1>5. ASSUME NEW v \in Vehicles, t \in Lists(M), MayList(t, v),
             \A n \in Lists(new) : ~MayList(n, v)
      PROVE  /\ Wave(t) \in Unlisted(k, M, v)
             /\ Unlisted(l, N, v) \subseteq Unlisted(k, M, v) \ {Wave(t)}
  <2>0. t \in L
    BY <1>5 DEF Lists
  <2>1. Wave(t) \in Unlisted(k, M, v)
    BY <1>5, <2>0 DEF Unlisted
  <2>2. Unlisted(l, N, v) \subseteq Unlisted(k, M, v)
    BY <1>4, <1>5
  <2>3. l.state # "open"
    BY <2>0, <1>0 DEF WavesAreWhole
  <2>4. Wave(t) \notin Unlisted(l, N, v)
    BY <2>3, <1>2, <1>5 DEF Unlisted
  <2> QED  BY <2>1, <2>2, <2>4
<1>6. ASSUME NEW v \in Vehicles
      PROVE  s[v] + Cardinality(Unlisted(l, N, v)) <= 2 + l.waves + Cardinality(l.sent \cap {"heli"})
  <2>1. CASE s[v] <= 1
    BY <2>1, <1>2, OnceFits
  <2>2. CASE t.job = "heli" /\ new = {} /\ s = r
    <3>1. t \in Lists(M) /\ MayList(t, v) /\ Lists(new) = {}
      BY <2>2 DEF Lists, MayList, ChainJobs
    <3>2. s[v] <= r[v]
      BY <2>2 DEF RowType
    <3> QED  BY <3>1, <3>2, <1>5, OneLessFits
  <2>3. CASE /\ l.sent \cap {"heli"} = k.sent \cap {"heli"} /\ s[v] <= r[v]
             /\ \A n \in Lists(new) : MayList(n, v) => MayList(t, v)
    BY <2>3, <1>4, FewerFit
  <2>4. CASE /\ l.sent \cap {"heli"} = k.sent \cap {"heli"} /\ s[v] <= r[v] + 1
             /\ t \in Lists(M) /\ MayList(t, v)
             /\ \A n \in Lists(new) : ~MayList(n, v)
    BY <2>4, <1>5, OneLessFits
  <2> QED  BY <2>1, <2>2, <2>3, <2>4
<1> QED  BY <1>2, <1>6 DEF Sound

(* A task is scheduled for a wave, or a helicopter, that had none.             *)
LEMMA ScheduledSound ==
    ASSUME NEW k \in CaseType, NEW r \in RowType, Sound(k, {}, r),
           NEW l \in CaseType, NEW new \in SUBSET TaskType, NEW n, Lists(new) = {n},
           l.state = "scene", l.tasks = k.tasks \cup new,
           n.job = "heli" => "heli" \in l.sent,
           \/ k.state = "open" /\ Wave(n) = 0 /\ l.waves = k.waves /\ l.sent = k.sent
           \/ Wave(n) = k.waves + 1 /\ l.waves = k.waves + 1 /\ l.sent = k.sent
           \/ n.job = "heli" /\ l.waves = k.waves /\ k.sent \subseteq l.sent /\ "heli" \notin k.sent
    PROVE  Sound(l, {}, r)
<1>0. /\ k.waves \in Nat /\ l.waves \in Nat /\ k.tasks \subseteq TaskType
      /\ k.tasks \cup {} = k.tasks /\ l.tasks \cup {} = l.tasks /\ Lists({}) = {}
  BY DEF CaseType, Lists
<1>1. Lists(l.tasks) = Lists(k.tasks) \cup {n}
  BY DEF Lists
<1>2. WavesAreWhole(k, {})
  BY DEF Sound
<1>3. \A u \in Lists(k.tasks) :
          /\ Wave(u) <= k.waves /\ Wave(u) # Wave(n)
          /\ u.job = "heli" => "heli" \in k.sent
          /\ \A w \in Lists(k.tasks) : Wave(u) = Wave(w) => u = w
  <2>1. ASSUME NEW u \in Lists(k.tasks)
        PROVE  /\ u \in Lists(TaskType) /\ k.state # "open" /\ Wave(u) <= k.waves
               /\ u.job = "heli" => "heli" \in k.sent
    BY <1>0, <1>2 DEF WavesAreWhole, Lists
  <2>2. ASSUME NEW u \in Lists(k.tasks) PROVE Wave(u) # Wave(n)
    <3>1. CASE Wave(n) = k.waves + 1
      <4>1. Wave(u) \in Nat \cup {-1} /\ Wave(u) <= k.waves
        BY <2>1, Waves
      <4> QED  BY <4>1, <3>1, <1>0
    <3>2. CASE n.job = "heli" /\ "heli" \notin k.sent
      <4>1. Wave(n) = -1 /\ u.job # "heli"
        BY <3>2, <2>1 DEF Wave
      <4>2. Wave(u) # -1
        BY <4>1, <2>1, Waves
      <4> QED  BY <4>1, <4>2
    <3> QED  BY <3>1, <3>2, <2>1
  <2> QED  BY <2>1, <2>2, <1>0, <1>2 DEF WavesAreWhole
<1>4. Wave(n) <= l.waves
  <2>1. CASE n.job = "heli"
    BY <2>1, <1>0 DEF Wave
  <2>2. CASE n.job # "heli"
    BY <2>2, <1>0
  <2> QED  BY <2>1, <2>2
<1>5. k.waves <= l.waves /\ ("heli" \in k.sent => "heli" \in l.sent)
  BY <1>0
<1>6. \A u \in Lists(k.tasks) : Wave(u) <= l.waves
  <2>1. ASSUME NEW u \in Lists(k.tasks) PROVE Wave(u) \in Nat \cup {-1}
    <3>1. u \in Lists(TaskType)
      BY <1>0 DEF Lists
    <3> QED  BY <3>1, Waves
  <2> QED  BY <2>1, <1>0, <1>3, <1>5
<1>7. WavesAreWhole(l, {})
  <2>1. ASSUME NEW u \in Lists(l.tasks)
        PROVE  /\ Wave(u) <= l.waves
               /\ u.job = "heli" => "heli" \in l.sent
               /\ \A w \in Lists(l.tasks) : Wave(u) = Wave(w) => u = w
    BY <1>1, <1>3, <1>4, <1>5, <1>6
  <2> QED  BY <2>1, <1>0 DEF WavesAreWhole
<1>8. ASSUME NEW v \in Vehicles
      PROVE  r[v] + Cardinality(Unlisted(l, {}, v)) <= 2 + l.waves + Cardinality(l.sent \cap {"heli"})
  <2>1. Unlisted(l, {}, v) \subseteq Unlisted(k, {}, v) \cup {Wave(n)}
    BY <1>0, <1>1 DEF Unlisted
  <2>2. CASE k.state = "open" /\ Wave(n) = 0 /\ l.waves = k.waves /\ l.sent = k.sent
    <3>1. 0 \in Unlisted(k, {}, v)
      BY <2>2 DEF Unlisted
    <3>2. Unlisted(l, {}, v) \subseteq Unlisted(k, {}, v)
      BY <2>1, <2>2, <3>1
    <3>3. r[v] <= r[v]
      BY DEF RowType
    <3> QED  BY <3>2, <3>3, <2>2, FewerFit
  <2>3. CASE l.waves = k.waves + 1 /\ l.sent = k.sent
    BY <2>1, <2>3, OneMoreFits
  <2>4. CASE l.waves = k.waves /\ "heli" \in l.sent \ k.sent
    BY <2>1, <2>4, OneMoreFits
  <2> QED  BY <2>2, <2>3, <2>4
<1> QED  BY <1>7, <1>8 DEF Sound

-----------------------------------------------------------------------------
(* Orders and lists.                                                            *)

(* Orders keep their type.                                                      *)
LEMMA OrdersKept ==
    ASSUME NEW w \in OrdersType, NEW S \in SUBSET Vehicles,
           NEW near \in Answers, NEW crewed \in Answers
    PROVE  /\ Bind(w, S, crewed) \in OrdersType
           /\ Command(w, S, crewed) \in OrdersType
           /\ SetUp(w, S, crewed) \in OrdersType
           /\ OrderOut(w, S) \in OrdersType
           /\ SendServices(w, S, near, crewed) \in OrdersType
<1>1. \A z \in OrdersType : Bind(z, S, crewed) \in OrdersType
  BY DEF Bind, OrdersType
<1>2. Command(w, S, crewed) \in OrdersType
  BY <1>1 DEF Command
<1>3. SetUp(w, S, crewed) \in OrdersType
  BY <1>1, <1>2 DEF SetUp
<1>4. \A T \in SUBSET Vehicles : OrderOut(w, T) \in OrdersType
  BY DEF OrderOut, OrdersType
<1>5. SendServices(w, S, near, crewed) \in OrdersType
  <2>1. OrderOut(w, S \cap crewed \cap near) \in OrdersType /\ S \cap crewed \subseteq Vehicles
    BY <1>4
  <2> QED  BY <2>1 DEF SendServices, OrdersType
<1> QED  BY <1>1, <1>2, <1>3, <1>4, <1>5

(* Listing vehicles changes one row, and a search before it lists them once.    *)
LEMMA ListedRow ==
    ASSUME cars \in [Cases -> RowType], NEW c \in Cases
    PROVE  /\ \A S \in SUBSET Vehicles :
                 /\ ListedOnce(c, S) \in [Cases -> RowType]
                 /\ \A d \in Cases \ {c} : ListedOnce(c, S)[d] = cars[d]
                 /\ \A v \in Vehicles : \/ ListedOnce(c, S)[c][v] <= cars[c][v]
                                        \/ ListedOnce(c, S)[c][v] <= 1
           /\ \A u \in Vehicles :
                 /\ Listed(c, u) \in [Cases -> RowType]
                 /\ \A d \in Cases \ {c} : Listed(c, u)[d] = cars[d]
                 /\ \A v \in Vehicles : Listed(c, u)[c][v] =
                                          IF v = u THEN cars[c][v] + 1 ELSE cars[c][v]
<1>0. \A d \in Cases, v \in Vehicles : cars[d][v] \in Nat
  BY DEF RowType
<1>1. ASSUME NEW S \in SUBSET Vehicles
      PROVE  /\ ListedOnce(c, S) \in [Cases -> RowType]
             /\ \A d \in Cases \ {c} : ListedOnce(c, S)[d] = cars[d]
             /\ \A v \in Vehicles : \/ ListedOnce(c, S)[c][v] <= cars[c][v]
                                    \/ ListedOnce(c, S)[c][v] <= 1
  <2> DEFINE row == [v \in Vehicles |-> IF v \in S /\ cars[c][v] = 0 THEN 1 ELSE cars[c][v]]
  <2>1. row \in RowType
    BY <1>0 DEF RowType
  <2>2. ListedOnce(c, S) = [cars EXCEPT ![c] = row]
    BY DEF ListedOnce
  <2> QED  BY <2>1, <2>2, <1>0
<1>2. ASSUME NEW u \in Vehicles
      PROVE  /\ Listed(c, u) \in [Cases -> RowType]
             /\ \A d \in Cases \ {c} : Listed(c, u)[d] = cars[d]
             /\ \A v \in Vehicles : Listed(c, u)[c][v] =
                                      IF v = u THEN cars[c][v] + 1 ELSE cars[c][v]
  BY <1>0 DEF Listed, RowType
<1> QED  BY <1>1, <1>2

-----------------------------------------------------------------------------
(* What a step must show.                                                       *)

AllSound == \A c \in Cases : Sound(case[c], Mine(c), cars[c])

(* The types of a case, its row of vehicles and its tasks due.                  *)
LEMMA Types ==
    ASSUME TypeOK
    PROVE  /\ cars \in [Cases -> RowType]
           /\ \A c \in Cases : case[c] \in CaseType /\ cars[c] \in RowType
                              /\ Mine(c) \in SUBSET TaskType
  BY DEF TypeOK, RowType, Mine

(* The same after the step.                                                     *)
LEMMA NextTypes ==
    ASSUME TypeOK'
    PROVE  \A c \in Cases : case'[c] \in CaseType /\ cars'[c] \in RowType
                          /\ Mine(c)' \in SUBSET TaskType
  BY DEF TypeOK, RowType, Mine

(* A case in which only vehicles are listed, once, or one's place is taken.     *)
IsSteady(c) ==
    /\ Lists(case'[c].tasks) = Lists(case[c].tasks) /\ Lists(Mine(c)') = Lists(Mine(c))
    /\ case'[c].waves = case[c].waves
    /\ case'[c].sent \cap {"heli"} = case[c].sent \cap {"heli"}
    /\ \/ case'[c].state = case[c].state
       \/ case'[c].state \in {"scene", "cleanup", "cancelled"} 
    /\ case'[c].state = "none" => case'[c] = case[c] /\ cars'[c] = cars[c]
    /\ \A v \in Vehicles : cars'[c][v] <= cars[c][v] \/ cars'[c][v] <= 1

(* Such a case stays sound.                                                     *)
LEMMA SteadyIsSound ==
    ASSUME TypeOK, TypeOK', NEW c \in Cases, Sound(case[c], Mine(c), cars[c]), IsSteady(c)
    PROVE  Sound(case[c], Mine(c), cars[c])'
<1>1. /\ case[c] \in CaseType /\ cars[c] \in RowType /\ Mine(c) \in SUBSET TaskType
      /\ case'[c] \in CaseType /\ cars'[c] \in RowType /\ Mine(c)' \in SUBSET TaskType
  BY Types, NextTypes
<1>2. Sound(case'[c], Mine(c)', cars'[c])
  BY <1>1, Steady DEF IsSteady
<1> QED  BY <1>2

(* A case in which nothing changes.                                             *)
LEMMA Untouched ==
    ASSUME TypeOK, NEW c \in Cases, case'[c] = case[c], Mine(c)' = Mine(c),
           \A v \in Vehicles : cars'[c][v] = cars[c][v],
           case[c].state = "none" => cars'[c] = cars[c]
    PROVE  IsSteady(c)
<1>1. \A v \in Vehicles : cars[c][v] \in Nat
  BY DEF TypeOK
<1> QED  BY <1>1 DEF IsSteady

(* Records name live cases as long as cases stay.                               *)
LEMMA StayActive ==
    ASSUME RecordNamesLiveCase, \A v \in Vehicles : record'[v].of \in {record[v].of, NoCase},
           \A c \in Cases : case[c].state # "none" => case'[c].state # "none"
    PROVE  RecordNamesLiveCase'
  BY DEF RecordNamesLiveCase, Active

-----------------------------------------------------------------------------
(* The engine and the hooks.                                                    *)

(* Between ticks nothing is due.                                                *)
LEMMA NoneDue ==
    ASSUME IInv, pc # "tasks"
    PROVE  due = {} /\ \A c \in Cases : Mine(c) = {}
  BY DEF IInv, TickIsWhole, Mine

(* What happens between ticks leaves the tick whole and nothing due.            *)
LEMMA EngineKeepsTick ==
    ASSUME IInv, Rest
    PROVE  /\ TickIsWhole' /\ pc' = "rest" /\ \A c \in Cases : Mine(c)' = Mine(c)
           /\ due = {} /\ due' = {}
  BY DEF IInv, TickIsWhole, Rest, tick, Mine

(* The engine deletes a vehicle or makes a patrol: IInv is kept.                *)
LEMMA TrafficKeeps ==
    ASSUME IInv, NEW v \in Vehicles, Despawn(v) \/ Appear(v)
    PROVE  IInv'
<1> USE DEF IInv
<1>1. /\ TickIsWhole' /\ pc' = "rest" /\ pc = "rest"
      /\ \A c \in Cases : Mine(c)' = Mine(c)
  BY EngineKeepsTick DEF Despawn, Appear, Rest
<1>2. TypeOK'
  BY DEF TypeOK, Despawn, Appear, Rest, tick, Models
<1>3. UNCHANGED <<orders, record, case, cars>>
  BY DEF Despawn, Appear
<1>4. RecordNamesLiveCase' /\ OrdersEndWithTheCases'
  BY <1>1, <1>3 DEF RecordNamesLiveCase, OrdersEndWithTheCases, Active
<1>5. AllSound'
  BY <1>1, <1>3 DEF AllSound
<1> QED  BY <1>1, <1>2, <1>4, <1>5 DEF AllSound

(* A case opens in an empty slot, with no task and no vehicle.                  *)
LEMMA OpenKeeps ==
    ASSUME IInv, NEW c \in Cases, Open(c)
    PROVE  IInv'
<1> USE DEF IInv
<1>1. /\ TickIsWhole' /\ \A d \in Cases : Mine(d)' = Mine(d) /\ Mine(d) = {}
  <2>1. Rest
    BY DEF Open
  <2>2. /\ TickIsWhole' /\ pc' = "rest" /\ due = {} /\ due' = {}
    BY <2>1, EngineKeepsTick
  <2> QED  BY <2>2 DEF Mine
<1>2. case[c] = Vacant /\ \A v \in Vehicles : cars[c][v] = 0
  BY DEF Open, Sound
<1>3. TypeOK'
  BY DEF TypeOK, Open, Rest, tick, CaseType
<1>4. c \in Active'
  BY DEF TypeOK, Open, Active, CaseType
<1>5. RecordNamesLiveCase'
  BY StayActive DEF Open, TypeOK
<1>6. OrdersEndWithTheCases'
  BY <1>4 DEF OrdersEndWithTheCases
<1>7. AllSound'
  <2>1. ASSUME NEW d \in Cases \ {c} PROVE Sound(case[d], Mine(d), cars[d])'
    BY <2>1, <1>1 DEF Open, TypeOK
  <2>2. Sound(case[c], Mine(c), cars[c])'
    <3> DEFINE l == case'[c]
    <3>1. l = [Vacant EXCEPT !.state = "open"] /\ cars' = cars /\ l \in CaseType
      BY <1>2, <1>3 DEF Open, TypeOK
    <3>2. l.tasks = {} /\ l.waves = 0 /\ l.state = "open"
      BY <3>1 DEF Vacant
    <3>3. Lists(l.tasks \cup {}) = {} /\ Lists(l.tasks) = {}
      BY <3>2 DEF Lists
    <3>4. WavesAreWhole(l, {})
      BY <3>2, <3>3 DEF WavesAreWhole
    <3>5. cars[c] \in RowType /\ \A v \in Vehicles : cars[c][v] <= 1
      BY <1>2, Types
    <3>6. Sound(l, {}, cars[c])
      BY <3>1, <3>2, <3>4, <3>5, OnceFits DEF Sound
    <3> QED  BY <3>6, <3>1, <1>1
  <2> QED  BY <2>1, <2>2 DEF AllSound
<1> QED  BY <1>1, <1>3, <1>5, <1>6, <1>7 DEF AllSound

(* Cleaning cases keeps types, and no record of theirs.                          *)
LEMMA CleanKeeps ==
    ASSUME TypeOK, NEW S \in SUBSET Cases, Clean(S)
    PROVE  /\ orders' \in OrdersType /\ cars' \in [Cases -> RowType]
           /\ record' \in [Vehicles -> [of : Cases \cup {NoCase}, as : Services \cup {"none"}]]
           /\ \A v \in Vehicles : record'[v] = record[v] \/ record'[v] = NoRecord
           /\ \A c \in Cases \ S : cars'[c] = cars[c]
           /\ \A c \in S, v \in Vehicles : cars'[c][v] = 0
<1>1. orders' \in OrdersType
  BY DEF Clean, OrdersType, TypeOK
<1>2. cars' \in [Cases -> RowType]
  BY DEF Clean, RowType, TypeOK
<1>3. NoRecord \in [of : Cases \cup {NoCase}, as : Services \cup {"none"}]
  BY DEF NoRecord
<1>4. \A v \in Vehicles : record'[v] = record[v] \/ record'[v] = NoRecord
  BY DEF Clean, Unrecorded
<1>5. record' \in [Vehicles -> [of : Cases \cup {NoCase}, as : Services \cup {"none"}]]
  BY <1>3 DEF Clean, Unrecorded, TypeOK
<1>6. /\ \A c \in Cases \ S : cars'[c] = cars[c]
      /\ \A c \in S, v \in Vehicles : cars'[c][v] = 0
  BY DEF Clean
<1> QED  BY <1>1, <1>2, <1>4, <1>5, <1>6

(* A cancelled case keeps its tasks; cleaned, it lists no vehicle.              *)
LEMMA CancelKeeps ==
    ASSUME IInv, NEW c \in Cases, Cancel(c)
    PROVE  IInv'
<1> USE DEF IInv
<1>0. Rest /\ c \in Live /\ c \in Active /\ case' = [case EXCEPT ![c].state = "cancelled"]
      /\ (Clean({c}) \/ UNCHANGED <<orders, record, cars>>) /\ UNCHANGED <<model, fires>>
  BY DEF Cancel, Live
<1>1. /\ TickIsWhole' /\ pc' = "rest" /\ \A d \in Cases : Mine(d)' = Mine(d)
  BY <1>0, EngineKeepsTick
<1>2. /\ orders' \in OrdersType /\ cars' \in [Cases -> RowType]
      /\ record' \in [Vehicles -> [of : Cases \cup {NoCase}, as : Services \cup {"none"}]]
      /\ \A v \in Vehicles : record'[v] = record[v] \/ record'[v] = NoRecord
      /\ \A d \in Cases \ {c} : cars'[d] = cars[d]
      /\ \A v \in Vehicles : cars'[c][v] = 0 \/ cars'[c] = cars[c]
  <2>1. CASE Clean({c})
    BY <2>1, CleanKeeps
  <2>2. CASE UNCHANGED <<orders, record, cars>>
    BY <2>2, Types DEF TypeOK
  <2> QED  BY <1>0, <2>1, <2>2
<1>3. TypeOK'
  BY <1>0, <1>2 DEF TypeOK, Rest, tick, CaseType, RowType
<1>4. c \in Active'
  BY <1>0 DEF TypeOK, Active
<1>5. RecordNamesLiveCase'
  <2>1. \A v \in Vehicles : record'[v].of \in {record[v].of, NoCase}
    BY <1>2 DEF NoRecord
  <2>2. \A d \in Cases : case[d].state # "none" => case'[d].state # "none"
    BY <1>0 DEF TypeOK
  <2> QED  BY <2>1, <2>2, StayActive
<1>6. OrdersEndWithTheCases'
  BY <1>4 DEF OrdersEndWithTheCases
<1>7. AllSound'
  <2>1. ASSUME NEW d \in Cases \ {c} PROVE Sound(case[d], Mine(d), cars[d])'
    BY <2>1, <1>0, <1>1, <1>2 DEF TypeOK
  <2>2. IsSteady(c)
    <3>1. case'[c] = [case[c] EXCEPT !.state = "cancelled"] /\ case[c] \in CaseType
      BY <1>0 DEF TypeOK
    <3>2. \A v \in Vehicles : cars[c][v] \in Nat
      BY DEF TypeOK
    <3>3. \A v \in Vehicles : cars'[c][v] <= cars[c][v] \/ cars'[c][v] <= 1
      BY <1>2, <3>2
    <3> QED  BY <3>1, <3>3, <1>1 DEF IsSteady, CaseType
  <2> QED  BY <2>1, <2>2, <1>3, SteadyIsSound DEF AllSound
<1> QED  BY <1>1, <1>3, <1>5, <1>6, <1>7 DEF AllSound

(* The purge before a save is loaded leaves nothing to be sound about.          *)
LEMMA PurgeKeeps ==
    ASSUME IInv, Purge
    PROVE  IInv'
<1> USE DEF IInv
<1>1. /\ TickIsWhole' /\ pc' = "rest" /\ \A d \in Cases : Mine(d)' = {}
  BY EngineKeepsTick DEF Purge, Mine
<1>2. /\ \A c \in Cases : case'[c] = Vacant /\ cars'[c] \in RowType
      /\ \A c \in Cases, v \in Vehicles : cars'[c][v] = 0
  BY DEF Purge, RowType
<1>3. AllSound' /\ Vacant \in CaseType
  <2>1. ASSUME NEW c \in Cases PROVE Sound(case'[c], Mine(c)', cars'[c])
    <3>1. Sound(Vacant, {}, cars'[c])
      BY <1>2, VacantSound
    <3> QED  BY <3>1, <1>1, <1>2
  <2> QED  BY <2>1 DEF AllSound, Vacant, CaseType
<1>4. NoRecord \in [of : Cases \cup {NoCase}, as : Services \cup {"none"}]
  BY DEF NoRecord
<1>5. TypeOK'
  BY <1>3, <1>4 DEF TypeOK, Purge, Rest, tick, OrdersType, Forget
<1>6. RecordNamesLiveCase'
  BY DEF Purge, RecordNamesLiveCase, NoRecord
<1>7. OrdersEndWithTheCases'
  <2>1. orders' = [emptied |-> {}, ordered |-> {}]
    BY DEF Purge, Forget, TypeOK, OrdersType
  <2> QED  BY <2>1 DEF Purge, OrdersEndWithTheCases
<1> QED  BY <1>1, <1>3, <1>5, <1>6, <1>7 DEF AllSound

-----------------------------------------------------------------------------
(* The tick, up to its visits.                                                   *)

(* Within a tick nothing is said of idleness.                                   *)
LEMMA Busy ==
    ASSUME pc' # "rest"
    PROVE  OrdersEndWithTheCases'
  BY DEF OrdersEndWithTheCases

(* A step that leaves cases, records and lists alone.                            *)
LEMMA OrdersOnly ==
    ASSUME IInv, UNCHANGED <<record, case, cars>>, due = {}, due' = {}
    PROVE  RecordNamesLiveCase' /\ AllSound'
<1>1. \A c \in Cases : Mine(c) = {} /\ Mine(c)' = {}
  BY DEF Mine
<1> QED  BY <1>1 DEF IInv, RecordNamesLiveCase, Active, AllSound

(* Pruning drops records only.                                                  *)
LEMMA PrunedType ==
    ASSUME TypeOK
    PROVE  /\ Pruned \in [Vehicles -> [of : Cases \cup {NoCase}, as : Services \cup {"none"}]]
           /\ \A v \in Vehicles : Pruned[v].of \in {record[v].of, NoCase}
<1>1. NoRecord \in [of : Cases \cup {NoCase}, as : Services \cup {"none"}] /\ NoRecord.of = NoCase
  BY DEF NoRecord
<1> QED  BY <1>1 DEF Pruned, TypeOK

(* Services that are stuck are sent on, cars are bound or count as emptied.     *)
LEMMA BeginTickKeeps ==
    ASSUME IInv, BeginTick
    PROVE  IInv'
<1> USE DEF IInv
<1>1. /\ due = {} /\ due' = {} /\ moves = {} /\ moves' = {} /\ pc' = "reroute"
      /\ record' = Pruned
      /\ UNCHANGED <<model, fires, case, cars, moves, calls, todo, cur, due>>
  BY DEF BeginTick, TickIsWhole
<1>2. orders' \in OrdersType
  <2> DEFINE held == ((UNION {Holds(c) : c \in Live}) \cap Valid) \ Of("heli")
  <2>1. PICK crewed \in Answers, out \in SUBSET Rescuable, go \in SUBSET Rescuable,
             known \in SUBSET {v \in Cops : Live # {}} :
           orders' = [Bind(Rescue(out, go, crewed), held \cup known, crewed) EXCEPT
                          !.emptied = @ \cup (held \ crewed)]
    BY DEF BeginTick
  <2>2. held \in SUBSET Vehicles /\ known \in SUBSET Vehicles
    BY DEF Valid, Cops
  <2>3. /\ out \in SUBSET Vehicles /\ go \in SUBSET Vehicles
        /\ {} \in Answers /\ crewed \in SUBSET Vehicles
    BY DEF Rescuable, Answers, Valid
  <2>4. OrderOut(orders, out) \in OrdersType
    BY <2>3, OrdersKept DEF TypeOK
  <2>5. Rescue(out, go, crewed) \in OrdersType
    BY <2>3, <2>4, OrdersKept DEF Rescue
  <2> HIDE DEF held
  <2>6. Bind(Rescue(out, go, crewed), held \cup known, crewed) \in OrdersType
    BY <2>2, <2>5, OrdersKept
  <2> QED  BY <2>1, <2>2, <2>6 DEF OrdersType
<1>3. TypeOK'
  BY <1>1, <1>2, PrunedType DEF TypeOK
<1>4. TickIsWhole' /\ OrdersEndWithTheCases'
  BY <1>1, Busy DEF TickIsWhole
<1>5. RecordNamesLiveCase'
  BY <1>1, PrunedType, StayActive
<1>6. AllSound'
  <2>1. ASSUME NEW c \in Cases PROVE Mine(c)' = Mine(c) /\ case'[c] = case[c] /\ cars'[c] = cars[c]
    BY <1>1 DEF Mine
  <2> QED  BY <2>1 DEF AllSound
<1> QED  BY <1>3, <1>4, <1>5, <1>6 DEF AllSound

(* Reroutes are chosen from cases that list the vehicle.                        *)
LEMMA ChooseReroutesKeeps ==
    ASSUME IInv, ChooseReroutes
    PROVE  IInv'
<1> USE DEF IInv
<1>1. due = {} /\ due' = {} /\ pc' \in {"reroute", "evaluate"}
      /\ UNCHANGED <<model, orders, record, fires, case, cars, calls, todo, cur, due>>
  BY DEF ChooseReroutes, TickIsWhole
<1>2. /\ moves' \subseteq Vehicles \X Cases \X Cases
      /\ pc' = IF moves' = {} THEN "evaluate" ELSE "reroute"
      /\ \A m \in moves' :
            /\ {m[2], m[3]} \subseteq Live /\ m[2] # m[3] /\ cars[m[2]][m[1]] > 0
            /\ \A n \in moves' : m[1] = n[1] /\ m[2] = n[2] => m = n
  <2> DEFINE enroute == {m \in Vehicles \X Cases \X Cases :
                            /\ m[1] \in (Valid \cap orders.ordered) \ orders.emptied
                            /\ {m[2], m[3]} \subseteq Live /\ m[2] # m[3]
                            /\ cars[m[2]][m[1]] > 0}
  <2>1. PICK chosen \in SUBSET enroute :
            /\ \A m, n \in chosen : m[1] = n[1] /\ m[2] = n[2] => m = n
            /\ moves' = chosen
            /\ pc' = IF chosen = {} THEN "evaluate" ELSE pc
    BY DEF ChooseReroutes
  <2>2. pc = "reroute"
    BY DEF ChooseReroutes
  <2> QED  BY <2>1, <2>2
<1>3. TypeOK'
  BY <1>1, <1>2 DEF TypeOK
<1>4. TickIsWhole'
  <2>1. Live' = Live
    BY <1>1 DEF Live, Active
  <2> QED  BY <1>1, <1>2, <2>1 DEF TickIsWhole
<1>5. RecordNamesLiveCase' /\ AllSound' /\ OrdersEndWithTheCases'
  BY <1>1, OrdersOnly, Busy
<1> QED  BY <1>3, <1>4, <1>5 DEF AllSound

(* A reroute takes the listings and adds one only where there is none.          *)
LEMMA RerouteKeeps ==
    ASSUME IInv, Reroute
    PROVE  IInv'
<1> USE DEF IInv
<1>1. due = {} /\ due' = {} /\ pc = "reroute" /\ pc' \in {"reroute", "evaluate"}
      /\ pc' = (IF moves' = {} THEN "evaluate" ELSE pc)
      /\ UNCHANGED <<model, record, fires, case, calls, todo, cur, due>>
  BY DEF Reroute, TickIsWhole
<1>2. PICK m \in moves, crewed \in Answers :
         /\ cars' = [cars EXCEPT ![m[2]][m[1]] = 0, ![m[3]][m[1]] = IF @ = 0 THEN 1 ELSE @]
         /\ orders' = SetUp(orders, {m[1]}, crewed)
         /\ moves' = moves \ {m}
  BY DEF Reroute
<1>3. /\ m[1] \in Vehicles /\ m[2] \in Live /\ m[3] \in Live /\ m[2] # m[3]
      /\ cars[m[2]][m[1]] > 0 /\ m[2] \in Cases /\ m[3] \in Cases
  <2>1. m \in Vehicles \X Cases \X Cases
    BY DEF TypeOK
  <2> QED  BY <2>1 DEF TickIsWhole
<1>4. \A c \in Cases, v \in Vehicles : cars[c][v] \in Nat
  BY DEF TypeOK
<1>5. \A c \in Cases, v \in Vehicles :
         cars'[c][v] = IF v = m[1] /\ c = m[2] THEN 0
                       ELSE IF v = m[1] /\ c = m[3] /\ cars[c][v] = 0 THEN 1
                       ELSE cars[c][v]
  BY <1>2, <1>3 DEF TypeOK
<1>6. cars' \in [Cases -> RowType] /\ \A c \in Cases \ {m[2], m[3]} : cars'[c] = cars[c]
  <2> DEFINE one == [cars[m[2]] EXCEPT ![m[1]] = 0]
             two == [cars[m[3]] EXCEPT ![m[1]] = IF @ = 0 THEN 1 ELSE @]
  <2>1. one \in RowType
    BY <1>3, <1>4 DEF TypeOK, RowType
  <2>2. two \in RowType
    BY <1>3, <1>4 DEF TypeOK, RowType
  <2>3. cars' = [cars EXCEPT ![m[2]] = one, ![m[3]] = two]
    BY <1>2, <1>3 DEF TypeOK
  <2> HIDE DEF one, two
  <2> QED  BY <2>1, <2>2, <2>3 DEF TypeOK, RowType
<1>7. orders' \in OrdersType
  BY <1>2, <1>3, OrdersKept DEF TypeOK
<1>8. TypeOK'
  BY <1>1, <1>2, <1>6, <1>7 DEF TypeOK, RowType
<1>9. TickIsWhole'
  <2>1. Live' = Live
    BY <1>1 DEF Live, Active
  <2>2. ASSUME NEW n \in moves'
        PROVE  /\ {n[2], n[3]} \subseteq Live /\ n[2] # n[3] /\ cars'[n[2]][n[1]] > 0
               /\ \A o \in moves' : n[1] = o[1] /\ n[2] = o[2] => n = o
    <3>1. n \in moves /\ n # m /\ n[1] \in Vehicles /\ n[2] \in Cases
      BY <1>2, <2>2 DEF TypeOK
    <3>2. ~(n[1] = m[1] /\ n[2] = m[2])
      BY <3>1 DEF TickIsWhole
    <3>3. cars[n[2]][n[1]] > 0
      BY <3>1 DEF TickIsWhole
    <3>4. cars'[n[2]][n[1]] > 0
      BY <3>1, <3>2, <3>3, <1>4, <1>5
    <3> QED  BY <3>1, <3>4, <1>2 DEF TickIsWhole
  <2> QED  BY <2>1, <2>2, <1>1 DEF TickIsWhole
<1>10. RecordNamesLiveCase'
  BY <1>1 DEF RecordNamesLiveCase, Active
<1>11. AllSound'
  <2>1. ASSUME NEW c \in Cases PROVE IsSteady(c)
    <3>1. Mine(c) = {} /\ Mine(c)' = {} /\ case'[c] = case[c]
      BY <1>1 DEF Mine
    <3>2. \A v \in Vehicles : cars'[c][v] <= cars[c][v] \/ cars'[c][v] <= 1
      BY <1>4, <1>5
    <3>3. case[c].state = "none" => cars'[c] = cars[c]
      BY <1>3, <1>6 DEF Live, Active
    <3> QED  BY <3>1, <3>2, <3>3 DEF IsSteady
  <2> QED  BY <2>1, <1>8, SteadyIsSound DEF AllSound
<1> QED  BY <1>1, <1>8, <1>9, <1>10, <1>11, Busy DEF AllSound

(* Services are scheduled by tasks that look before they list.                  *)
LEMMA EvaluateKeeps ==
    ASSUME IInv, Evaluate
    PROVE  IInv'
<1> USE DEF IInv
<1>1. due = {} /\ due' = {} /\ moves = {} /\ moves' = {} /\ pc' = "fires"
      /\ UNCHANGED <<model, orders, record, fires, cars, moves, calls, todo, cur, due>>
  BY DEF Evaluate, TickIsWhole
<1>2. \/ case' = case
      \/ \E f, a \in SUBSET Live, in \in 0 .. MaxDelay :
            case' = [c \in Cases |->
                  LET new == (IF c \in f THEN {"firetruck"} ELSE {})
                             \cup (IF c \in a THEN {"ambulance"} ELSE {})
                  IN [case[c] EXCEPT !.sent = @ \cup new,
                                     !.tasks = @ \cup {Errand(m, in) : m \in new}]]
  <2>1. SUFFICES ASSUME case' # case
                 PROVE  \E f, a \in SUBSET Live, in \in 0 .. MaxDelay :
            case' = [c \in Cases |->
                  LET new == (IF c \in f THEN {"firetruck"} ELSE {})
                             \cup (IF c \in a THEN {"ambulance"} ELSE {})
                  IN [case[c] EXCEPT !.sent = @ \cup new,
                                     !.tasks = @ \cup {Errand(m, in) : m \in new}]]
    OBVIOUS
  <2>2. PICK hurt \in SUBSET Cases, burning \in SUBSET Cases, in \in 0..MaxDelay,
             trucks \in SUBSET Of("firetruck"), ambulances \in SUBSET Of("ambulance") :
            \E f \in Capped("firetruck",
                            {c \in Live \cap burning : "firetruck" \notin case[c].sent}, trucks),
               a \in Capped("ambulance",
                            {c \in Live \cap hurt : "ambulance" \notin case[c].sent},
                            ambulances) :
               case' = [c \in Cases |->
                  LET new == (IF c \in f THEN {"firetruck"} ELSE {})
                             \cup (IF c \in a THEN {"ambulance"} ELSE {})
                  IN [case[c] EXCEPT !.sent = @ \cup new,
                                     !.tasks = @ \cup {Errand(m, in) : m \in new}]]
    BY <2>1 DEF Evaluate
  <2> DEFINE wantTrucks == {c \in Live \cap burning : "firetruck" \notin case[c].sent}
             wantAmbulances == {c \in Live \cap hurt : "ambulance" \notin case[c].sent}
  <2>3. PICK f \in Capped("firetruck", wantTrucks, trucks),
             a \in Capped("ambulance", wantAmbulances, ambulances) :
               case' = [c \in Cases |->
                  LET new == (IF c \in f THEN {"firetruck"} ELSE {})
                             \cup (IF c \in a THEN {"ambulance"} ELSE {})
                  IN [case[c] EXCEPT !.sent = @ \cup new,
                                     !.tasks = @ \cup {Errand(m, in) : m \in new}]]
    BY <2>2
  <2>4. f \in SUBSET wantTrucks /\ a \in SUBSET wantAmbulances
    BY <2>3 DEF Capped
  <2>5. f \in SUBSET Live /\ a \in SUBSET Live
    BY <2>4
  <2> HIDE DEF wantTrucks, wantAmbulances
  <2> QED  BY <2>3, <2>5
<1>3. ASSUME NEW c \in Cases
      PROVE  /\ case'[c] \in CaseType
             /\ case'[c].state = case[c].state /\ case'[c].waves = case[c].waves
             /\ case'[c].sent \cap {"heli"} = case[c].sent \cap {"heli"}
             /\ Lists(case'[c].tasks) = Lists(case[c].tasks)
             /\ case[c].state = "none" => case'[c] = case[c]
  <2>0. case[c] \in CaseType
    BY DEF TypeOK
  <2>1. CASE case' = case
    BY <2>0, <2>1
  <2>2. CASE case' # case
    <3>1. PICK f \in SUBSET Live, a \in SUBSET Live, in \in 0 .. MaxDelay :
            case' = [d \in Cases |->
                  LET new == (IF d \in f THEN {"firetruck"} ELSE {})
                             \cup (IF d \in a THEN {"ambulance"} ELSE {})
                  IN [case[d] EXCEPT !.sent = @ \cup new,
                                     !.tasks = @ \cup {Errand(m, in) : m \in new}]]
      BY <1>2, <2>2
    <3> DEFINE new == (IF c \in f THEN {"firetruck"} ELSE {})
                      \cup (IF c \in a THEN {"ambulance"} ELSE {})
    <3>2. case'[c] = [case[c] EXCEPT !.sent = @ \cup new,
                                     !.tasks = @ \cup {Errand(m, in) : m \in new}]
      BY <3>1
    <3>3. new \subseteq Services /\ (c \notin Live => new = {})
      BY DEF Services
    <3>4. in \in Nat
      BY BoundsAssumption
    <3> HIDE DEF new
    <3>5. \A m \in new : Errand(m, in) \in TaskType /\ Errand(m, in).job = "send"
      BY <3>3, <3>4 DEF Errand, TaskType
    <3> DEFINE errands == {Errand(m, in) : m \in new}
    <3>a. errands \subseteq TaskType /\ \A t \in errands : t.job = "send"
      BY <3>5
    <3>b. new = {} => errands = {}
      OBVIOUS
    <3>c. case'[c] = [case[c] EXCEPT !.sent = @ \cup new, !.tasks = @ \cup errands]
      BY <3>2
    <3> HIDE DEF errands
    <3>6. case'[c] \in CaseType
      BY <3>c, <3>3, <3>a, <2>0 DEF CaseType, Special
    <3>7. case'[c].sent \cap {"heli"} = case[c].sent \cap {"heli"}
      BY <3>2, <3>3, <2>0 DEF CaseType, Services
    <3>8. Lists(case'[c].tasks) = Lists(case[c].tasks)
      BY <3>c, <3>a, <2>0 DEF CaseType, Lists, ChainJobs
    <3>9. new = {} => case'[c] = case[c]
      BY <3>c, <3>b, <2>0 DEF CaseType
    <3> QED  BY <3>c, <3>3, <3>6, <3>7, <3>8, <3>9, <2>0 DEF CaseType, Live, Active
  <2> QED  BY <2>1, <2>2
<1>4. case' \in [Cases -> CaseType]
  <2>1. DOMAIN case' = Cases /\ case' = [c \in Cases |-> case'[c]]
    BY <1>2 DEF TypeOK
  <2> QED  BY <2>1, <1>3
<1>5. TypeOK'
  BY <1>1, <1>4 DEF TypeOK
<1>6. TickIsWhole'
  BY <1>1 DEF TickIsWhole
<1>7. RecordNamesLiveCase'
  BY <1>1, <1>3, StayActive
<1>8. AllSound'
  <2>1. ASSUME NEW c \in Cases PROVE IsSteady(c)
    <3>1. Mine(c) = {} /\ Mine(c)' = {} /\ cars'[c] = cars[c]
      BY <1>1 DEF Mine
    <3>2. \A v \in Vehicles : cars'[c][v] <= cars[c][v]
      BY <1>1 DEF TypeOK
    <3> QED  BY <3>1, <3>2, <1>3 DEF IsSteady
  <2> QED  BY <2>1, <1>5, SteadyIsSound DEF AllSound
<1> QED  BY <1>1, <1>5, <1>6, <1>7, <1>8, Busy DEF AllSound

(* Enlisting a vehicle of a service for a case that is served, or for none.     *)
LEMMA EnlistKeeps ==
    ASSUME TypeOK, RecordNamesLiveCase, NEW v \in Vehicles, NEW m \in Services,
           NEW c \in Active \cup {NoCase}, NEW near \in Answers, NEW crewed \in Answers,
           Enlist(v, m, c, near, crewed)
    PROVE  /\ orders' \in OrdersType /\ cars' \in [Cases -> RowType]
           /\ record' \in [Vehicles -> [of : Cases \cup {NoCase}, as : Services \cup {"none"}]]
           /\ \A u \in Vehicles : record'[u].of \in Active \cup {NoCase}
           /\ \A d \in Cases : d # c => cars'[d] = cars[d]
           /\ \A d \in Cases, u \in Vehicles : cars'[d][u] <= cars[d][u] \/ cars'[d][u] <= 1
<1>1. orders' \in OrdersType
  <2>1. Bind(orders, {v}, crewed) \in OrdersType
    BY OrdersKept DEF TypeOK
  <2> QED  BY <2>1, OrdersKept DEF Enlist
<1>2. /\ cars' \in [Cases -> RowType]
      /\ \A d \in Cases : d # c => cars'[d] = cars[d]
      /\ \A d \in Cases, u \in Vehicles : cars'[d][u] <= cars[d][u] \/ cars'[d][u] <= 1
  <2>0. cars \in [Cases -> RowType] /\ \A d \in Cases, u \in Vehicles : cars[d][u] \in Nat
    BY DEF TypeOK, RowType
  <2>1. CASE c = NoCase
    BY <2>0, <2>1 DEF Enlist
  <2>2. CASE c # NoCase
    <3>1. c \in Cases /\ cars' = ListedOnce(c, {v}) /\ {v} \in SUBSET Vehicles
      BY <2>2 DEF Enlist, Active
    <3>2. /\ cars' \in [Cases -> RowType]
          /\ \A d \in Cases \ {c} : cars'[d] = cars[d]
          /\ \A u \in Vehicles : cars'[c][u] <= cars[c][u] \/ cars'[c][u] <= 1
      BY <2>0, <3>1, ListedRow
    <3> QED  BY <3>2, <2>0
  <2> QED  BY <2>1, <2>2
<1>3. /\ record' \in [Vehicles -> [of : Cases \cup {NoCase}, as : Services \cup {"none"}]]
      /\ \A u \in Vehicles : record'[u].of \in Active \cup {NoCase}
  <2>1. [of |-> c, as |-> m] \in [of : Cases \cup {NoCase}, as : Services \cup {"none"}]
    BY DEF Active
  <2>2. NoRecord \in [of : Cases \cup {NoCase}, as : Services \cup {"none"}] /\ NoRecord.of = NoCase
    BY DEF NoRecord
  <2>3. record' = [u \in Vehicles |->
          IF u = v THEN [of |-> c, as |-> m]
          ELSE IF u \in Valid THEN record[u] ELSE NoRecord]
    BY DEF Enlist
  <2>4. \A u \in Vehicles :
           /\ record[u] \in [of : Cases \cup {NoCase}, as : Services \cup {"none"}]
           /\ record[u].of \in Active \cup {NoCase}
    BY DEF TypeOK, RecordNamesLiveCase
  <2> QED  BY <2>1, <2>2, <2>3, <2>4
<1> QED  BY <1>1, <1>2, <1>3

(* The engine's answer to a spawn.                                              *)
LEMMA SpawnType ==
    ASSUME TypeOK, NEW m \in Models, Spawn(m)
    PROVE  model' \in [Vehicles -> Models \cup {"gone"}] /\ orders' \in OrdersType
<1>1. model' = model \/ \E v \in Vehicles : model' = [model EXCEPT ![v] = m]
  BY DEF Spawn
<1> QED  BY <1>1 DEF TypeOK, Spawn

(* The truck for a fire of no case is listed by none; no case changes.          *)
LEMMA GlobalFireKeeps ==
    ASSUME IInv, GlobalFire
    PROVE  IInv'
<1> USE DEF IInv
<1>1. due = {} /\ due' = {} /\ moves = {} /\ moves' = {} /\ pc' = "visit" /\ todo' = Active
      /\ UNCHANGED <<case, moves, cur, due>>
  BY DEF GlobalFire, TickIsWhole
<1>2. /\ model' \in [Vehicles -> Models \cup {"gone"}] /\ fires' \in BOOLEAN
      /\ orders' \in OrdersType /\ cars' \in [Cases -> RowType]
      /\ record' \in [Vehicles -> [of : Cases \cup {NoCase}, as : Services \cup {"none"}]]
      /\ \A u \in Vehicles : record'[u].of \in Active \cup {NoCase}
      /\ \A d \in Cases : cars'[d] = cars[d]
  <2>0. /\ cars \in [Cases -> RowType]
        /\ Pruned \in [Vehicles -> [of : Cases \cup {NoCase}, as : Services \cup {"none"}]]
        /\ \A u \in Vehicles : Pruned[u].of \in Active \cup {NoCase}
    BY PrunedType DEF TypeOK, RecordNamesLiveCase, RowType
  <2>1. CASE record' = Pruned /\ UNCHANGED <<model, orders, fires, cars>>
    BY <2>0, <2>1 DEF TypeOK
  <2>2. CASE Spawn("firetruck") /\ fires' = TRUE /\ record' = Pruned /\ UNCHANGED cars
    <3>1. "firetruck" \in Models
      BY DEF Models, Special, Services
    <3> QED  BY <2>0, <2>2, <3>1, SpawnType DEF TypeOK
  <2>3. CASE fires' = FALSE /\ record' = Pruned /\ UNCHANGED <<model, orders, cars>>
    BY <2>0, <2>3 DEF TypeOK
  <2>4. CASE /\ fires' = FALSE /\ UNCHANGED model
             /\ \E v \in Valid, near \in Answers, crewed \in Answers :
                   Enlist(v, "firetruck", NoCase, near, crewed)
    <3>1. PICK v \in Valid, near \in Answers, crewed \in Answers :
                   Enlist(v, "firetruck", NoCase, near, crewed)
      BY <2>4
    <3>2. v \in Vehicles /\ "firetruck" \in Services /\ NoCase \in Active \cup {NoCase}
      BY DEF Valid, Services
    <3>3. /\ orders' \in OrdersType /\ cars' \in [Cases -> RowType]
          /\ record' \in [Vehicles -> [of : Cases \cup {NoCase}, as : Services \cup {"none"}]]
          /\ \A u \in Vehicles : record'[u].of \in Active \cup {NoCase}
          /\ \A d \in Cases : d # NoCase => cars'[d] = cars[d]
      BY <3>1, <3>2, EnlistKeeps
    <3> QED  BY <2>4, <3>3, CasesAssumption DEF TypeOK
  <2> QED  BY <2>1, <2>2, <2>3, <2>4 DEF GlobalFire
<1>3. calls' \subseteq Vehicles
  BY DEF GlobalFire, Valid
<1>4. TypeOK'
  BY <1>1, <1>2, <1>3 DEF TypeOK, RowType, Active
<1>5. TickIsWhole'
  BY <1>1 DEF TickIsWhole
<1>6. RecordNamesLiveCase'
  BY <1>1, <1>2 DEF RecordNamesLiveCase, Active
<1>7. AllSound'
  <2>1. ASSUME NEW c \in Cases PROVE Mine(c)' = Mine(c) /\ case'[c] = case[c] /\ cars'[c] = cars[c]
    BY <1>1, <1>2 DEF Mine
  <2> QED  BY <2>1 DEF AllSound
<1> QED  BY <1>1, <1>4, <1>5, <1>6, <1>7, Busy DEF AllSound

(* A transferred vehicle leaves one case and is listed once in the other.       *)
LEMMA RefreshRecordKeeps ==
    ASSUME IInv, NEW v \in Vehicles, RefreshRecord(v)
    PROVE  IInv'
<1> USE DEF IInv
<1>1. due = {} /\ due' = {} /\ moves = {} /\ moves' = {} /\ pc' = "visit" /\ calls' = calls \ {v}
      /\ UNCHANGED <<model, fires, moves, todo, cur, due>>
  BY DEF RefreshRecord, TickIsWhole
<1>2. orders' \in OrdersType
  <2>1. PICK near \in Answers, crewed \in Answers : orders' = SendServices(orders, {v}, near, crewed)
    BY DEF RefreshRecord
  <2>2. {v} \in SUBSET Vehicles
    OBVIOUS
  <2> QED  BY <2>1, <2>2, OrdersKept DEF TypeOK
<1>3. \A c \in Cases, u \in Vehicles : cars[c][u] \in Nat
  BY DEF TypeOK
<1>4. CASE UNCHANGED <<record, case, cars>>
  <2>1. TypeOK'
    BY <1>1, <1>2, <1>4 DEF TypeOK
  <2>2. TickIsWhole'
    BY <1>1 DEF TickIsWhole
  <2>3. RecordNamesLiveCase' /\ AllSound'
    BY <1>1, <1>4, OrdersOnly
  <2> QED  BY <1>1, <2>1, <2>2, <2>3, Busy DEF AllSound
<1>5. CASE ~ UNCHANGED <<record, case, cars>>
  <2> DEFINE from == record[v].of
  <2>1. PICK to \in Live \ {from} :
             /\ record' = [record EXCEPT ![v].of = to]
             /\ case' = Transferred(v, from, to)
             /\ cars' = [c \in Cases |->
                   IF c = from /\ c \in Live /\ cars[c][v] > 0
                   THEN [cars[c] EXCEPT ![v] = @ - 1] ELSE ListedOnce(to, {v})[c]]
    BY <1>5 DEF RefreshRecord
  <2>2. to \in Cases /\ to \in Live /\ case[to].state # "none"
    BY DEF Live, Active
  <2>3. ASSUME NEW c \in Cases
        PROVE  /\ case'[c] \in CaseType
               /\ case'[c].state = case[c].state /\ case'[c].waves = case[c].waves
               /\ case'[c].tasks = case[c].tasks
               /\ case'[c].sent \cap {"heli"} = case[c].sent \cap {"heli"}
               /\ c \notin {from, to} => case'[c] = case[c]
    <3>1. case[c] \in CaseType /\ case'[c] = IF c = to THEN [case[c] EXCEPT !.sent = @ \cup ({model[v]} \cap Services)]
                    ELSE IF c = from /\ c \in Live THEN [case[c] EXCEPT !.sent = @ \ ({model[v]} \cap Services)]
                    ELSE case[c]
      BY <2>1 DEF Transferred, TypeOK
    <3>2. CASE c = to
      BY <3>1, <3>2 DEF CaseType, Special, Services
    <3>3. CASE c # to /\ c = from /\ c \in Live
      BY <3>1, <3>3 DEF CaseType, Special, Services
    <3>4. CASE c # to /\ ~(c = from /\ c \in Live)
      BY <3>1, <3>4
    <3> QED  BY <3>2, <3>3, <3>4
  <2>4. case' \in [Cases -> CaseType]
    BY <2>1, <2>3 DEF Transferred
  <2>5. /\ ListedOnce(to, {v}) \in [Cases -> RowType]
        /\ \A d \in Cases \ {to} : ListedOnce(to, {v})[d] = cars[d]
        /\ \A u \in Vehicles : \/ ListedOnce(to, {v})[to][u] <= cars[to][u]
                               \/ ListedOnce(to, {v})[to][u] <= 1
    <3>1. {v} \in SUBSET Vehicles /\ cars \in [Cases -> RowType]
      BY DEF TypeOK, RowType
    <3> QED  BY <2>2, <3>1, ListedRow
  <2>6. ASSUME NEW c \in Cases
        PROVE  /\ cars'[c] \in RowType
               /\ \A u \in Vehicles : cars'[c][u] <= cars[c][u] \/ cars'[c][u] <= 1
               /\ case[c].state = "none" => cars'[c] = cars[c]
    <3>1. CASE c = from /\ c \in Live /\ cars[c][v] > 0
      <4>1. cars'[c] = [cars[c] EXCEPT ![v] = @ - 1] /\ cars[c] \in RowType
        BY <2>1, <3>1 DEF TypeOK, RowType
      <4> QED  BY <4>1, <3>1, <1>3 DEF RowType, Live, Active
    <3>2. CASE ~(c = from /\ c \in Live /\ cars[c][v] > 0)
      <4>1. cars'[c] = ListedOnce(to, {v})[c]
        BY <2>1, <3>2
      <4>2. CASE c = to
        BY <4>1, <4>2, <2>2, <2>5
      <4>3. CASE c # to
        <5>1. cars'[c] = cars[c] /\ cars[c] \in RowType
          BY <4>1, <4>3, <2>5 DEF TypeOK, RowType
        <5>2. \A u \in Vehicles : cars[c][u] <= cars[c][u]
          BY <1>3
        <5> QED  BY <5>1, <5>2
      <4> QED  BY <4>2, <4>3
    <3> QED  BY <3>1, <3>2
  <2>7. cars' \in [Cases -> RowType]
    BY <2>1, <2>6
  <2>8. record' \in [Vehicles -> [of : Cases \cup {NoCase}, as : Services \cup {"none"}]]
    BY <2>1, <2>2 DEF TypeOK
  <2>9. TypeOK'
    BY <1>1, <1>2, <2>4, <2>7, <2>8 DEF TypeOK, RowType
  <2>10. RecordNamesLiveCase'
    <3>1. to \in Active'
      BY <2>2, <2>3 DEF Active
    <3>2. \A c \in Active : c \in Active'
      BY <2>3 DEF Active
    <3>3. \A u \in Vehicles : record'[u].of \in {to, record[u].of}
      BY <2>1 DEF TypeOK
    <3> QED  BY <3>1, <3>2, <3>3 DEF RecordNamesLiveCase
  <2>11. AllSound'
    <3>1. ASSUME NEW c \in Cases PROVE IsSteady(c)
      <4>1. Mine(c) = {} /\ Mine(c)' = {}
        BY <1>1 DEF Mine
      <4>2. case[c].state = "none" => case'[c] = case[c]
        <5>1. case[c].state = "none" => c # to
          BY <2>2
        <5>2. case[c].state = "none" => c # from
          BY CasesAssumption DEF RecordNamesLiveCase, Active
        <5> QED  BY <5>1, <5>2, <2>3
      <4> QED  BY <4>1, <4>2, <2>3, <2>6 DEF IsSteady
    <3> QED  BY <3>1, <2>9, SteadyIsSound DEF AllSound
  <2>12. TickIsWhole'
    BY <1>1 DEF TickIsWhole
  <2> QED  BY <1>1, <2>9, <2>10, <2>11, <2>12, Busy DEF AllSound
<1> QED  BY <1>4, <1>5

-----------------------------------------------------------------------------
(* A visit.                                                                      *)

(* A visit takes the tasks due out of the case, or ends the case.               *)
LEMMA VisitKeeps ==
    ASSUME IInv, NEW c \in Cases, Visit(c)
    PROVE  IInv'
<1> USE DEF IInv
<1>1. due = {} /\ pc = "visit" /\ c \in todo /\ c \in Live /\ todo' = todo \ {c} /\ cur' = c
      /\ moves = {} /\ moves' = {} /\ UNCHANGED <<model, record, fires, cars, moves, calls>>
  <2>1. pc = "visit" /\ c \in todo /\ c \in Live /\ todo' = todo \ {c} /\ cur' = c
        /\ UNCHANGED <<model, record, fires, cars, moves, calls>>
    BY DEF Visit
  <2>2. due = {} /\ moves = {}
    BY <2>1 DEF TickIsWhole
  <2>3. moves' = {}
    BY <2>1, <2>2
  <2> QED  BY <2>1, <2>2, <2>3
<1>2. case[c] \in CaseType /\ case[c].state \notin {"none", "cancelled"}
  BY <1>1 DEF TypeOK, Live, Active
<1>3. orders' \in OrdersType
  <2>1. PICK siren \in BOOLEAN, crewed \in Answers :
           orders' = IF siren THEN Command(orders, Refreshed(c), crewed) ELSE orders
    BY DEF Visit
  <2>2. Refreshed(c) \in SUBSET Vehicles
    BY DEF Refreshed, Holds
  <2> QED  BY <2>1, <2>2, OrdersKept DEF TypeOK
<1>4. \/ pc' = "hung" /\ case' = case /\ due' = {}
      \/ pc' = "visit" /\ case' = [case EXCEPT ![c].state = "cancelled"] /\ due' = {}
      \/ /\ pc' = "tasks" /\ due' = Ready(case[c].tasks)
         /\ case' = [case EXCEPT ![c].tasks = Nearer(@)]
  <2>1. PICK siren \in BOOLEAN, crewed \in Answers :
           IF siren /\ Relocks(c, crewed) # {}
            THEN pc' = "hung" /\ UNCHANGED <<case, due>>
            ELSE \/ /\ pc' = "visit"
                    /\ case' = [case EXCEPT ![c].state = "cancelled"]
                    /\ UNCHANGED due
                 \/ /\ pc' = "tasks"
                    /\ due' = {t \in case[c].tasks : t.in = 0}
                    /\ case' = [case EXCEPT ![c].tasks =
                                   {[t EXCEPT !.in = @ - 1] : t \in {u \in @ : u.in > 0}}]
    BY DEF Visit
  <2> QED  BY <2>1, <1>1 DEF Ready, Nearer
<1>5. \A d \in Cases : Mine(d) = {} /\ Sound(case[d], {}, cars[d]) /\ cars[d] \in RowType
  BY <1>1, Types DEF Mine
<1>6. \A d \in Cases \ {c} : Mine(d)' = {} /\ case'[d] = case[d] /\ cars'[d] = cars[d]
  BY <1>1, <1>4 DEF Mine, TypeOK
<1>7. CASE pc' \in {"hung", "visit"}
  <2>1. /\ case'[c] = case[c] \/ case'[c] = [case[c] EXCEPT !.state = "cancelled"]
        /\ due' = {} /\ cars' = cars
    BY <1>1, <1>4, <1>7 DEF TypeOK
  <2>2. TypeOK'
    <3>1. case' \in [Cases -> CaseType]
      <4>1. [case[c] EXCEPT !.state = "cancelled"] \in CaseType
        BY <1>2 DEF CaseType
      <4>2. case' = case \/ case' = [case EXCEPT ![c] = [case[c] EXCEPT !.state = "cancelled"]]
        BY <1>4, <1>7 DEF TypeOK
      <4> QED  BY <4>1, <4>2 DEF TypeOK
    <3> QED  BY <1>1, <1>3, <1>7, <2>1, <3>1 DEF TypeOK
  <2>3. TickIsWhole'
    BY <1>1, <1>7, <2>1 DEF TickIsWhole
  <2>4. RecordNamesLiveCase'
    <3>1. \A d \in Cases : case[d].state # "none" => case'[d].state # "none"
      BY <1>2, <1>6, <2>1 DEF CaseType
    <3> QED  BY <3>1, <1>1, StayActive
  <2>5. IsSteady(c)
    <3>1. Mine(c) = {} /\ Mine(c)' = {}
      BY <1>1, <2>1 DEF Mine
    <3>2. \A v \in Vehicles : cars'[c][v] <= cars[c][v]
      BY <2>1 DEF TypeOK
    <3> QED  BY <1>2, <2>1, <3>1, <3>2 DEF IsSteady, CaseType
  <2>6. AllSound'
    <3>1. ASSUME NEW d \in Cases \ {c} PROVE Sound(case[d], Mine(d), cars[d])'
      BY <1>5, <1>6
    <3> QED  BY <2>2, <2>5, <3>1, SteadyIsSound DEF AllSound
  <2> QED  BY <1>7, <2>2, <2>3, <2>4, <2>6, Busy DEF AllSound
<1>8. CASE pc' = "tasks"
  <2>1. /\ due' = Ready(case[c].tasks) /\ case' = [case EXCEPT ![c].tasks = Nearer(@)]
        /\ case'[c] = [case[c] EXCEPT !.tasks = Nearer(@)]
    BY <1>4, <1>8 DEF TypeOK
  <2>2. /\ case'[c] \in CaseType /\ Ready(case[c].tasks) \in SUBSET TaskType
        /\ Sound(case'[c], Ready(case[c].tasks), cars[c])
    BY <2>1, <1>2, <1>5, Visited
  <2>3. case'[c].state = case[c].state
    BY <2>1, <1>2 DEF CaseType
  <2>4. case' \in [Cases -> CaseType]
    BY <2>1, <2>2 DEF TypeOK
  <2>5. TypeOK'
    BY <1>1, <1>3, <1>8, <2>1, <2>2, <2>4 DEF TypeOK
  <2>6. TickIsWhole'
    BY <1>1, <1>2, <1>8, <2>3 DEF TickIsWhole, Active
  <2>7. RecordNamesLiveCase'
    <3>1. \A d \in Cases : case[d].state # "none" => case'[d].state # "none"
      BY <1>6, <2>3
    <3> QED  BY <3>1, <1>1, StayActive
  <2>8. AllSound'
    <3>1. ASSUME NEW d \in Cases \ {c} PROVE Sound(case[d], Mine(d), cars[d])'
      BY <1>5, <1>6
    <3>2. Mine(c)' = Ready(case[c].tasks)
      BY <1>1, <2>1 DEF Mine
    <3> QED  BY <2>2, <3>1, <3>2, <1>1 DEF AllSound
  <2> QED  BY <1>8, <2>5, <2>6, <2>7, <2>8, Busy DEF AllSound
<1> QED  BY <1>4, <1>7, <1>8

(* What running a task must show.                                                *)
LEMMA TaskKeeps ==
    ASSUME IInv, NEW t \in due, RunTask(t),
           model' \in [Vehicles -> Models \cup {"gone"}], orders' \in OrdersType,
           record' \in [Vehicles -> [of : Cases \cup {NoCase}, as : Services \cup {"none"}]],
           \A u \in Vehicles : record'[u].of \in Active \cup {NoCase},
           cars' \in [Cases -> RowType], case' \in [Cases -> CaseType],
           \A d \in Cases \ {cur} : case'[d] = case[d] /\ cars'[d] = cars[d],
           NEW new \in SUBSET TaskType,
           case'[cur].state = case[cur].state, case'[cur].waves = case[cur].waves,
           case'[cur].tasks = case[cur].tasks \cup new,
           \/ case'[cur].sent \cap {"heli"} = case[cur].sent \cap {"heli"}
           \/ t.job = "heli" /\ new = {} /\ cars'[cur] = cars[cur],
           \A n \in Lists(new) : Replaces(t, n) /\ \A m \in Lists(new) : m = n,
           \A v \in Vehicles :
              \/ cars'[cur][v] <= 1
              \/ /\ cars'[cur][v] <= cars[cur][v]
                 /\ \A n \in Lists(new) : MayList(n, v) => MayList(t, v)
              \/ /\ cars'[cur][v] <= cars[cur][v] + 1 /\ t \in Lists(due) /\ MayList(t, v)
                 /\ \A n \in Lists(new) : ~MayList(n, v)
    PROVE  IInv'
<1> USE DEF IInv
<1>1. /\ pc = "tasks" /\ pc' = "tasks" /\ moves = {} /\ moves' = {} /\ due' = due \ {t}
      /\ UNCHANGED <<fires, pc, moves, calls, todo, cur>>
      /\ cur \in Cases /\ cur \in Active /\ case[cur].state # "none"
  BY DEF RunTask, TickIsWhole, Active
<1>2. TypeOK'
  BY <1>1 DEF TypeOK, RowType
<1>3. TickIsWhole'
  <2>1. cur' \in Active'
    BY <1>1 DEF Active
  <2>2. due # {}
    OBVIOUS
  <2> QED  BY <1>1, <2>1, <2>2 DEF TickIsWhole
<1>4. RecordNamesLiveCase'
  BY <1>1 DEF RecordNamesLiveCase, Active
<1>5. AllSound'
  <2>1. ASSUME NEW d \in Cases \ {cur} PROVE Sound(case[d], Mine(d), cars[d])'
    <3>1. Mine(d) = {} /\ Mine(d)' = {}
      BY <1>1 DEF Mine
    <3>2. case'[d] = case[d] /\ cars'[d] = cars[d] /\ Sound(case[d], {}, cars[d])
      BY <3>1
    <3> QED  BY <3>1, <3>2
  <2>2. Sound(case'[cur], due \ {t}, cars'[cur])
    <3>1. /\ case[cur] \in CaseType /\ cars[cur] \in RowType /\ due \in SUBSET TaskType
          /\ case'[cur] \in CaseType /\ cars'[cur] \in RowType
          /\ Sound(case[cur], due, cars[cur]) /\ case[cur].state # "none"
      BY <1>1, Types DEF Mine, TypeOK
    <3> QED  BY <3>1, RanSound
  <2>3. Mine(cur)' = due \ {t}
    BY <1>1 DEF Mine
  <2> QED  BY <1>1, <2>1, <2>2, <2>3 DEF AllSound
<1> QED  BY <1>1, <1>2, <1>3, <1>4, <1>5, Busy DEF AllSound

(* A task changes only the case that is visited.                                 *)
LEMMA Visiting ==
    ASSUME IInv, NEW t \in due
    PROVE  /\ cur \in Cases /\ cur \in Active /\ t \in TaskType
           /\ \A d \in Cases, v \in Vehicles : cars[d][v] \in Nat /\ cars[d][v] <= cars[d][v]
           /\ cars \in [Cases -> RowType] /\ case \in [Cases -> CaseType]
           /\ \A u \in Vehicles : record[u].of \in Active \cup {NoCase}
<1>1. pc = "tasks"
  BY DEF IInv, TickIsWhole
<1>2. cur \in Active
  BY <1>1 DEF IInv, TickIsWhole
<1>3. \A d \in Cases, v \in Vehicles : cars[d][v] \in Nat
  BY DEF IInv, TypeOK
<1>4. \A d \in Cases, v \in Vehicles : cars[d][v] <= cars[d][v]
  BY <1>3
<1> QED  BY <1>2, <1>3, <1>4 DEF IInv, TypeOK, Active, RecordNamesLiveCase, RowType

(* Queueing tasks changes the tasks of the visited case alone.                  *)
LEMMA QueueKeeps ==
    ASSUME case \in [Cases -> CaseType], cur \in Cases, NEW S \in SUBSET TaskType, Queue(S)
    PROVE  /\ case' \in [Cases -> CaseType]
           /\ \A d \in Cases \ {cur} : case'[d] = case[d]
           /\ case'[cur].state = case[cur].state /\ case'[cur].waves = case[cur].waves
           /\ case'[cur].sent = case[cur].sent /\ case'[cur].tasks = case[cur].tasks \cup S
<1> DEFINE l == [case[cur] EXCEPT !.tasks = @ \cup S]
<1>1. l \in CaseType /\ l.state = case[cur].state /\ l.waves = case[cur].waves
      /\ l.sent = case[cur].sent /\ l.tasks = case[cur].tasks \cup S
  BY DEF CaseType
<1>2. case' = [case EXCEPT ![cur] = l]
  BY DEF Queue
<1> HIDE DEF l
<1> QED  BY <1>1, <1>2

(* The tasks of a chain.                                                         *)
LEMMA IdentifyType ==
    ASSUME NEW t \in ChainType, NEW try \in Nat, NEW again \in BOOLEAN, NEW in \in Nat
    PROVE  /\ Identify(t, try, again, in) \in SUBSET TaskType
           /\ \A n \in Identify(t, try, again, in) :
                 /\ Replaces(t, n) /\ n.got = t.got /\ n.job \in ChainJobs
                 /\ \A m \in Identify(t, try, again, in) : m = n
<1> DEFINE n == [t EXCEPT !.job = "identify", !.try = try, !.again = again, !.in = in]
<1>1. n \in ChainType /\ n.job = "identify" /\ n.wave = t.wave /\ n.got = t.got
      /\ t.job \in ChainJobs
  BY DEF ChainType, ChainJobs
<1>2. Identify(t, try, again, in) = {n}
  BY DEF Identify
<1>3. Wave(n) = Wave(t)
  BY <1>1 DEF Wave, ChainJobs
<1> HIDE DEF n
<1> QED  BY <1>1, <1>2, <1>3 DEF Replaces, TaskType, ChainJobs

(* The next unit of a chain is one task of that chain, or none.                 *)
LEMMA NextUnitType ==
    ASSUME NEW t \in ChainType, NEW got \in Seq(Vehicles), NEW in \in Nat
    PROVE  /\ NextUnit(t, got, in) \in SUBSET TaskType
           /\ \A n \in NextUnit(t, got, in) :
                 /\ Replaces(t, n) /\ n.got = got /\ n.job \in ChainJobs
                 /\ \A m \in NextUnit(t, got, in) : m = n
<1> DEFINE n == [t EXCEPT !.job = "spawn", !.unit = @ + 1, !.try = 1, !.again = FALSE,
                          !.got = got, !.in = in]
<1>1. n \in ChainType /\ n.job = "spawn" /\ n.wave = t.wave /\ n.got = got
      /\ t.job \in ChainJobs
  <2> DEFINE m == [t EXCEPT !.unit = @ + 1]
  <2>1. m \in ChainType /\ m.wave = t.wave
    BY DEF ChainType
  <2>2. n = [m EXCEPT !.job = "spawn", !.try = 1, !.again = FALSE, !.got = got, !.in = in]
    BY DEF ChainType
  <2> HIDE DEF m, n
  <2> QED  BY <2>1, <2>2 DEF ChainType, ChainJobs
<1>2. NextUnit(t, got, in) \subseteq {n}
  BY DEF NextUnit
<1>3. Wave(n) = Wave(t)
  BY <1>1 DEF Wave, ChainJobs
<1> HIDE DEF n
<1> QED  BY <1>1, <1>2, <1>3 DEF Replaces, TaskType, ChainJobs

(* A spawned unit is to be identified by the same chain.                        *)
LEMMA SpawnUnitKeeps ==
    ASSUME IInv, NEW t \in due, SpawnUnit(t)
    PROVE  IInv'
<1>1. t.job = "spawn" /\ RunTask(t) /\ Spawn("police") /\ UNCHANGED <<record, cars>>
  BY DEF SpawnUnit
<1>2. PICK in \in 0 .. MaxDelay : Queue(Identify(t, 1, FALSE, in))
  BY DEF SpawnUnit
<1>3. t \in ChainType /\ in \in Nat
  BY <1>1, Visiting, Kinds, BoundsAssumption DEF ChainJobs
<1> DEFINE new == Identify(t, 1, FALSE, in)
<1>4. new \in SUBSET TaskType /\ \A n \in new : /\ Replaces(t, n) /\ n.got = t.got
                                             /\ n.job \in ChainJobs /\ \A m \in new : m = n
  BY <1>3, IdentifyType
<1>5. /\ case' \in [Cases -> CaseType]
      /\ \A d \in Cases \ {cur} : case'[d] = case[d]
      /\ case'[cur].state = case[cur].state /\ case'[cur].waves = case[cur].waves
      /\ case'[cur].sent = case[cur].sent /\ case'[cur].tasks = case[cur].tasks \cup new
  BY <1>2, <1>4, Visiting, QueueKeeps
<1>6. model' \in [Vehicles -> Models \cup {"gone"}] /\ orders' \in OrdersType
  BY <1>1, SpawnType DEF IInv, Models
<1> HIDE DEF new
<1>7. \A n \in Lists(new) : Replaces(t, n) /\ (\A m \in Lists(new) : m = n)
                           /\ \A v \in Vehicles : MayList(n, v) => MayList(t, v)
  <2>1. \A n \in Lists(new) : n \in new
    BY DEF Lists
  <2>2. ASSUME NEW n \in new, NEW v \in Vehicles, MayList(n, v), n \in Lists(new)
        PROVE  MayList(t, v)
    BY <1>4, <2>2 DEF MayList, Claimed
  <2> QED  BY <1>4, <2>1, <2>2
<1>8. \A v \in Vehicles : cars'[cur][v] <= cars[cur][v]
  BY <1>1, Visiting
<1>9. record' \in [Vehicles -> [of : Cases \cup {NoCase}, as : Services \cup {"none"}]]
      /\ cars' \in [Cases -> RowType] /\ (\A d \in Cases : cars'[d] = cars[d])
      /\ \A u \in Vehicles : record'[u].of \in Active \cup {NoCase}
  BY <1>1, Visiting DEF IInv, TypeOK
<1> QED  BY <1>1, <1>4, <1>5, <1>6, <1>7, <1>8, <1>9, TaskKeeps

(* A found unit is listed once more, by a chain that then claims it.            *)
LEMMA UnitFoundKeeps ==
    ASSUME IInv, NEW t \in due, UnitFound(t)
    PROVE  IInv'
<1>1. t.job = "identify" /\ RunTask(t) /\ UNCHANGED <<model, record>>
  BY DEF UnitFound
<1>2. PICK v \in Unclaimed(t), in \in 0 .. MaxDelay, crewed \in Answers :
         /\ cars' = Listed(cur, v)
         /\ orders' = SetUp(orders, {v}, crewed)
         /\ Queue(NextUnit(t, Append(t.got, v), in))
  BY DEF UnitFound
<1> DEFINE got == Append(t.got, v)
           new == NextUnit(t, got, in)
<1>3. t \in ChainType /\ in \in Nat /\ t.got \in Seq(Vehicles) /\ t \in Lists(due)
  <2>1. t \in ChainType
    BY <1>1, Visiting, Kinds DEF ChainJobs
  <2> QED  BY <2>1, <1>1, BoundsAssumption DEF ChainType, Lists, ChainJobs
<1>4. v \in Vehicles /\ v \notin Claimed(t)
  BY DEF Unclaimed, Of, Valid
<1>5. /\ got \in Seq(Vehicles)
      /\ \A n : n.got = got => v \in Claimed(n) /\ \A u \in Claimed(t) : u \in Claimed(n)
  <2>1. got \in Seq(Vehicles) /\ Len(got) = Len(t.got) + 1 /\ got[Len(got)] = v
        /\ Len(t.got) \in Nat /\ \A i \in 1 .. Len(t.got) : got[i] = t.got[i]
    BY <1>3, <1>4
  <2> HIDE DEF got
  <2>2. ASSUME NEW n, n.got = got
        PROVE  v \in Claimed(n) /\ \A u \in Claimed(t) : u \in Claimed(n)
    <3>1. Len(got) \in 1 .. Len(n.got) /\ n.got[Len(got)] = v
      BY <2>1, <2>2
    <3>2. v \in Claimed(n)
      BY <3>1 DEF Claimed
    <3>3. ASSUME NEW i \in 1 .. Len(t.got) PROVE t.got[i] \in Claimed(n)
      <4>1. i \in 1 .. Len(n.got) /\ n.got[i] = t.got[i]
        BY <2>1, <2>2
      <4> QED  BY <4>1 DEF Claimed
    <3> QED  BY <3>2, <3>3 DEF Claimed
  <2> QED  BY <2>1, <2>2
<1> HIDE DEF got
<1>6. /\ new \in SUBSET TaskType
      /\ \A n \in new : /\ Replaces(t, n) /\ n.got = got /\ n.job \in ChainJobs
                       /\ \A m \in new : m = n
  BY <1>3, <1>5, NextUnitType
<1>7. /\ case' \in [Cases -> CaseType]
      /\ \A d \in Cases \ {cur} : case'[d] = case[d]
      /\ case'[cur].state = case[cur].state /\ case'[cur].waves = case[cur].waves
      /\ case'[cur].sent = case[cur].sent /\ case'[cur].tasks = case[cur].tasks \cup new
  BY <1>2, <1>6, Visiting, QueueKeeps DEF got
<1> HIDE DEF new
<1>8. \A n \in Lists(new) : Replaces(t, n) /\ (\A m \in Lists(new) : m = n)
  BY <1>6 DEF Lists
<1>9. /\ cars' \in [Cases -> RowType]
      /\ \A d \in Cases \ {cur} : cars'[d] = cars[d]
      /\ \A u \in Vehicles : cars'[cur][u] = IF u = v THEN cars[cur][u] + 1 ELSE cars[cur][u]
  BY <1>2, <1>4, Visiting, ListedRow
<1>10. \A u \in Vehicles :
          \/ /\ cars'[cur][u] <= cars[cur][u]
             /\ \A n \in Lists(new) : MayList(n, u) => MayList(t, u)
          \/ /\ cars'[cur][u] <= cars[cur][u] + 1 /\ t \in Lists(due) /\ MayList(t, u)
             /\ \A n \in Lists(new) : ~MayList(n, u)
  <2>1. ASSUME NEW u \in Vehicles, u = v
        PROVE  /\ cars'[cur][u] <= cars[cur][u] + 1 /\ t \in Lists(due) /\ MayList(t, u)
               /\ \A n \in Lists(new) : ~MayList(n, u)
    <3>1. cars'[cur][u] <= cars[cur][u] + 1
      BY <2>1, <1>9, Visiting
    <3>2. MayList(t, u)
      BY <2>1, <1>4 DEF MayList
    <3>3. \A n \in Lists(new) : ~MayList(n, u)
      BY <2>1, <1>5, <1>6 DEF MayList, Lists
    <3> QED  BY <3>1, <3>2, <3>3, <1>3
  <2>2. ASSUME NEW u \in Vehicles, u # v
        PROVE  /\ cars'[cur][u] <= cars[cur][u]
               /\ \A n \in Lists(new) : MayList(n, u) => MayList(t, u)
    <3>1. cars'[cur][u] <= cars[cur][u]
      BY <2>2, <1>9, Visiting
    <3>2. \A n \in Lists(new) : MayList(n, u) => MayList(t, u)
      BY <1>5, <1>6 DEF MayList, Lists
    <3> QED  BY <3>1, <3>2
  <2> QED  BY <2>1, <2>2
<1>11. orders' \in OrdersType
  BY <1>2, <1>4, OrdersKept DEF IInv, TypeOK
<1>12. /\ model' \in [Vehicles -> Models \cup {"gone"}]
       /\ record' \in [Vehicles -> [of : Cases \cup {NoCase}, as : Services \cup {"none"}]]
       /\ \A u \in Vehicles : record'[u].of \in Active \cup {NoCase}
  BY <1>1, Visiting DEF IInv, TypeOK
<1> QED  BY <1>1, <1>6, <1>7, <1>8, <1>9, <1>10, <1>11, <1>12, TaskKeeps

(* A unit not found is tried, spawned once more or left: one task follows.      *)
LEMMA UnitMissingKeeps ==
    ASSUME IInv, NEW t \in due, UnitMissing(t)
    PROVE  IInv'
<1>1. t.job = "identify" /\ RunTask(t) /\ UNCHANGED <<record, cars>>
  BY DEF UnitMissing
<1>2. t \in ChainType /\ t.got \in Seq(Vehicles) /\ t.try + 1 \in Nat /\ t.again \in BOOLEAN
  <2>1. t \in ChainType
    BY <1>1, Visiting, Kinds DEF ChainJobs
  <2> QED  BY <2>1 DEF ChainType
<1>3. PICK in \in 0 .. MaxDelay :
         \/ Queue(Identify(t, t.try + 1, t.again, in)) /\ UNCHANGED <<model, orders>>
         \/ Queue(Identify(t, 1, TRUE, in)) /\ Spawn("police")
         \/ Queue(NextUnit(t, t.got, in)) /\ UNCHANGED <<model, orders>>
  BY DEF UnitMissing, Respawned
<1>4. in \in Nat
  BY BoundsAssumption
<1>5. PICK new \in SUBSET TaskType :
         /\ Queue(new)
         /\ \A n \in new : /\ Replaces(t, n) /\ n.got = t.got /\ n.job \in ChainJobs
                          /\ \A m \in new : m = n
  <2>1. CASE Queue(Identify(t, t.try + 1, t.again, in))
    BY <2>1, <1>2, <1>4, IdentifyType
  <2>2. CASE Queue(Identify(t, 1, TRUE, in))
    BY <2>2, <1>2, <1>4, IdentifyType
  <2>3. CASE Queue(NextUnit(t, t.got, in))
    BY <2>3, <1>2, <1>4, NextUnitType
  <2> QED  BY <1>3, <2>1, <2>2, <2>3
<1>6. /\ case' \in [Cases -> CaseType]
      /\ \A d \in Cases \ {cur} : case'[d] = case[d]
      /\ case'[cur].state = case[cur].state /\ case'[cur].waves = case[cur].waves
      /\ case'[cur].sent = case[cur].sent /\ case'[cur].tasks = case[cur].tasks \cup new
  BY <1>5, Visiting, QueueKeeps
<1>7. \A n \in Lists(new) : Replaces(t, n) /\ (\A m \in Lists(new) : m = n)
                           /\ \A v \in Vehicles : MayList(n, v) => MayList(t, v)
  BY <1>5 DEF Lists, MayList, Claimed
<1>8. \A v \in Vehicles : cars'[cur][v] <= cars[cur][v]
  BY <1>1, Visiting
<1>9. model' \in [Vehicles -> Models \cup {"gone"}] /\ orders' \in OrdersType
  <2>1. CASE UNCHANGED <<model, orders>>
    BY <2>1 DEF IInv, TypeOK
  <2>2. CASE Spawn("police")
    BY <2>2, SpawnType DEF IInv, Models
  <2> QED  BY <1>3, <2>1, <2>2
<1>10. record' \in [Vehicles -> [of : Cases \cup {NoCase}, as : Services \cup {"none"}]]
      /\ cars' \in [Cases -> RowType] /\ (\A d \in Cases : cars'[d] = cars[d])
      /\ \A u \in Vehicles : record'[u].of \in Active \cup {NoCase}
  BY <1>1, Visiting DEF IInv, TypeOK
<1> QED  BY <1>1, <1>5, <1>6, <1>7, <1>8, <1>9, <1>10, TaskKeeps

(* Patrols near the scene are mobilized.                                         *)
LEMMA MobilizeKeeps ==
    ASSUME cars \in [Cases -> RowType], orders \in OrdersType, NEW c \in Cases,
           NEW S \in Patrols, NEW crewed \in Answers, Mobilize(c, S, crewed)
    PROVE  /\ orders' \in OrdersType /\ cars' \in [Cases -> RowType]
           /\ \A d \in Cases \ {c} : cars'[d] = cars[d]
           /\ \A v \in Vehicles : cars'[c][v] <= cars[c][v] \/ cars'[c][v] <= 1
<1>1. S \in SUBSET Vehicles
  BY DEF Patrols, Cops, Valid
<1>2. SetUp(orders, S, crewed) \in OrdersType
  BY <1>1, OrdersKept
<1>3. orders' \in OrdersType
  BY <1>1, <1>2 DEF Mobilize, OrdersType
<1> QED  BY <1>1, <1>3, ListedRow DEF Mobilize

(* No task queued: the visited case is as it was.                               *)
LEMMA SameCase ==
    ASSUME case' = case, cur \in Cases, case \in [Cases -> CaseType]
    PROVE  /\ case' \in [Cases -> CaseType]
           /\ \A d \in Cases \ {cur} : case'[d] = case[d]
           /\ case'[cur].state = case[cur].state /\ case'[cur].waves = case[cur].waves
           /\ case'[cur].sent = case[cur].sent /\ case'[cur].tasks = case[cur].tasks \cup {}
  OBVIOUS

(* A task that mobilizes patrols, and does no more.                              *)
LEMMA PatrolsKeep ==
    ASSUME IInv, NEW t \in due, RunTask(t), UNCHANGED <<model, record, case>>,
           NEW S \in Patrols, NEW crewed \in Answers, Mobilize(cur, S, crewed)
    PROVE  IInv'
<1>1. /\ orders' \in OrdersType /\ cars' \in [Cases -> RowType]
      /\ \A d \in Cases \ {cur} : cars'[d] = cars[d]
      /\ \A v \in Vehicles : cars'[cur][v] <= cars[cur][v] \/ cars'[cur][v] <= 1
  BY Visiting, MobilizeKeeps DEF IInv, TypeOK
<1>2. /\ case' \in [Cases -> CaseType]
      /\ \A d \in Cases \ {cur} : case'[d] = case[d]
      /\ case'[cur].state = case[cur].state /\ case'[cur].waves = case[cur].waves
      /\ case'[cur].sent = case[cur].sent /\ case'[cur].tasks = case[cur].tasks \cup {}
  BY Visiting, SameCase
<1>3. /\ model' \in [Vehicles -> Models \cup {"gone"}]
      /\ record' \in [Vehicles -> [of : Cases \cup {NoCase}, as : Services \cup {"none"}]]
      /\ \A u \in Vehicles : record'[u].of \in Active \cup {NoCase}
  BY Visiting DEF IInv, TypeOK
<1>4. Lists({}) = {} /\ {} \in SUBSET TaskType
  BY DEF Lists
<1> QED  BY <1>1, <1>2, <1>3, <1>4, TaskKeeps

(* Patrols called to a reinforcement are listed once.                           *)
LEMMA NearbyKeeps ==
    ASSUME IInv, NEW t \in due, Nearby(t)
    PROVE  IInv'
  BY PatrolsKeep DEF Nearby

(* A new chain has its wave, and claims nothing.                                *)
LEMMA ChainTask ==
    ASSUME NEW wave \in Nat, NEW n \in PlanSizes
    PROVE  Chain(wave, n) \in ChainType /\ Chain(wave, n).wave = wave /\ Chain(wave, n).job = "spawn"
<1>1. n \in Nat
  BY BoundsAssumption DEF PlanSizes
<1>2. << >> \in Seq(Vehicles)
  OBVIOUS
<1> QED  BY <1>1, <1>2 DEF Chain, ChainType, ChainJobs

(* A reinforcement becomes patrols or the chain of its wave, not both.          *)
LEMMA ReinforceKeeps ==
    ASSUME IInv, NEW t \in due, Reinforce(t)
    PROVE  IInv'
<1>1. t.job = "reinforce" /\ RunTask(t) /\ UNCHANGED <<model, record>>
  BY DEF Reinforce
<1>2. CASE \E S \in Patrols, crewed \in Answers : Mobilize(cur, S, crewed) /\ UNCHANGED case
  BY <1>1, <1>2, PatrolsKeep
<1>3. CASE /\ \E n \in PlanSizes : Queue({Chain(t.wave, n)})
           /\ UNCHANGED <<orders, cars>>
  <2>1. PICK n \in PlanSizes : Queue({Chain(t.wave, n)})
    BY <1>3
  <2> DEFINE new == {Chain(t.wave, n)}
  <2>2. t.wave \in Nat /\ Wave(t) = t.wave
    BY <1>1, Visiting, Kinds DEF Wave
  <2>3. /\ Chain(t.wave, n) \in TaskType /\ Chain(t.wave, n).wave = t.wave
        /\ Chain(t.wave, n).job = "spawn"
    BY <2>2, ChainTask DEF TaskType
  <2>4. new \in SUBSET TaskType /\ \A m \in Lists(new) : /\ Replaces(t, m) /\ (\A k \in Lists(new) : k = m)
                                              /\ \A v \in Vehicles : MayList(t, v)
    BY <1>1, <2>2, <2>3 DEF Lists, Replaces, Wave, MayList, ChainJobs
  <2>5. /\ case' \in [Cases -> CaseType]
        /\ \A d \in Cases \ {cur} : case'[d] = case[d]
        /\ case'[cur].state = case[cur].state /\ case'[cur].waves = case[cur].waves
        /\ case'[cur].sent = case[cur].sent /\ case'[cur].tasks = case[cur].tasks \cup new
    BY <2>1, <2>4, Visiting, QueueKeeps
  <2> HIDE DEF new
  <2>6. \A v \in Vehicles : cars'[cur][v] <= cars[cur][v]
    BY <1>3, Visiting
  <2>7. /\ model' \in [Vehicles -> Models \cup {"gone"}] /\ orders' \in OrdersType
        /\ record' \in [Vehicles -> [of : Cases \cup {NoCase}, as : Services \cup {"none"}]]
        /\ cars' \in [Cases -> RowType] /\ (\A d \in Cases : cars'[d] = cars[d])
        /\ \A u \in Vehicles : record'[u].of \in Active \cup {NoCase}
    BY <1>1, <1>3, Visiting DEF IInv, TypeOK
  <2> QED  BY <1>1, <2>4, <2>5, <2>6, <2>7, TaskKeeps
<1> QED  BY <1>2, <1>3 DEF Reinforce

(* The errand of a service names its model.                                     *)
LEMMA ErrandFields ==
    ASSUME NEW t \in due, IInv, t.job \in {"send", "meet"}
    PROVE  t \in [job : {"send", "meet"}, model : Services, in : Nat] /\ t.model \in Services
<1>1. t \in [job : {"send", "meet"}, model : Services, in : Nat]
  BY Visiting, Kinds
<1> QED  BY <1>1

(* A spawned service is to be met by the same errand.                           *)
LEMMA SendOutKeeps ==
    ASSUME IInv, NEW t \in due, SendOut(t)
    PROVE  IInv'
<1>1. t.job = "send" /\ RunTask(t) /\ Spawn(t.model) /\ UNCHANGED <<record, cars>>
  BY DEF SendOut
<1>2. PICK in \in 0 .. MaxDelay : Queue({[t EXCEPT !.job = "meet", !.in = in]})
  BY DEF SendOut
<1> DEFINE new == {[t EXCEPT !.job = "meet", !.in = in]}
<1>3. in \in Nat /\ t \in [job : {"send", "meet"}, model : Services, in : Nat] /\ t.model \in Models
  BY <1>1, ErrandFields, BoundsAssumption DEF Models, Special
<1>4. new \in SUBSET TaskType /\ Lists(new) = {}
  BY <1>3 DEF TaskType, Lists, ChainJobs
<1>5. /\ case' \in [Cases -> CaseType]
      /\ \A d \in Cases \ {cur} : case'[d] = case[d]
      /\ case'[cur].state = case[cur].state /\ case'[cur].waves = case[cur].waves
      /\ case'[cur].sent = case[cur].sent /\ case'[cur].tasks = case[cur].tasks \cup new
  BY <1>2, <1>4, Visiting, QueueKeeps
<1> HIDE DEF new
<1>6. model' \in [Vehicles -> Models \cup {"gone"}] /\ orders' \in OrdersType
  BY <1>1, <1>3, SpawnType DEF IInv
<1>7. \A v \in Vehicles : cars'[cur][v] <= cars[cur][v]
  BY <1>1, Visiting
<1>8. record' \in [Vehicles -> [of : Cases \cup {NoCase}, as : Services \cup {"none"}]]
      /\ cars' \in [Cases -> RowType] /\ (\A d \in Cases : cars'[d] = cars[d])
      /\ \A u \in Vehicles : record'[u].of \in Active \cup {NoCase}
  BY <1>1, Visiting DEF IInv, TypeOK
<1> QED  BY <1>1, <1>4, <1>5, <1>6, <1>7, <1>8, TaskKeeps

(* A flag is taken back.                                                         *)
LEMMA FlagTakenBack ==
    ASSUME case \in [Cases -> CaseType], cur \in Cases, NEW m,
           case' = [case EXCEPT ![cur].sent = @ \ {m}]
    PROVE  /\ case' \in [Cases -> CaseType]
           /\ \A d \in Cases \ {cur} : case'[d] = case[d]
           /\ case'[cur].state = case[cur].state /\ case'[cur].waves = case[cur].waves
           /\ case'[cur].sent = case[cur].sent \ {m}
           /\ case'[cur].tasks = case[cur].tasks \cup {}
<1> DEFINE l == [case[cur] EXCEPT !.sent = @ \ {m}]
<1>1. l \in CaseType /\ l.state = case[cur].state /\ l.waves = case[cur].waves
      /\ l.sent = case[cur].sent \ {m} /\ l.tasks = case[cur].tasks \cup {}
  BY DEF CaseType
<1>2. case' = [case EXCEPT ![cur] = l]
  OBVIOUS
<1> HIDE DEF l
<1> QED  BY <1>1, <1>2

(* A service met is listed once; one not found gives its flag back.             *)
LEMMA MeetKeeps ==
    ASSUME IInv, NEW t \in due, Meet(t)
    PROVE  IInv'
<1>1. t.job = "meet" /\ RunTask(t) /\ UNCHANGED model
  BY DEF Meet
<1>2. t.model \in Services /\ t.model # "heli"
  BY <1>1, ErrandFields DEF Services
<1>3. Lists({}) = {} /\ {} \in SUBSET TaskType
  BY DEF Lists
<1>4. CASE \E v \in Valid, near \in Answers, crewed \in Answers : Enlist(v, t.model, cur, near, crewed) /\ UNCHANGED case
  <2>1. PICK v \in Valid, near \in Answers, crewed \in Answers : Enlist(v, t.model, cur, near, crewed) /\ UNCHANGED case
    BY <1>4
  <2>2. v \in Vehicles /\ cur \in Active \cup {NoCase}
    BY Visiting DEF Valid
  <2>3. /\ orders' \in OrdersType /\ cars' \in [Cases -> RowType]
        /\ record' \in [Vehicles -> [of : Cases \cup {NoCase}, as : Services \cup {"none"}]]
        /\ \A u \in Vehicles : record'[u].of \in Active \cup {NoCase}
        /\ \A d \in Cases : d # cur => cars'[d] = cars[d]
        /\ \A d \in Cases, u \in Vehicles : cars'[d][u] <= cars[d][u] \/ cars'[d][u] <= 1
    BY <2>1, <2>2, <1>2, EnlistKeeps DEF IInv
  <2>4. /\ case' \in [Cases -> CaseType]
        /\ \A d \in Cases \ {cur} : case'[d] = case[d]
        /\ case'[cur].state = case[cur].state /\ case'[cur].waves = case[cur].waves
        /\ case'[cur].sent = case[cur].sent /\ case'[cur].tasks = case[cur].tasks \cup {}
    BY <2>1, Visiting, SameCase
  <2>5. model' \in [Vehicles -> Models \cup {"gone"}] /\ cur \in Cases
    BY <1>1, Visiting DEF IInv, TypeOK
  <2> QED  BY <1>1, <1>3, <2>3, <2>4, <2>5, TaskKeeps
<1>5. CASE /\ case' = [case EXCEPT ![cur].sent = @ \ {t.model}]
           /\ UNCHANGED <<orders, record, cars>>
  <2>1. /\ case' \in [Cases -> CaseType]
        /\ \A d \in Cases \ {cur} : case'[d] = case[d]
        /\ case'[cur].state = case[cur].state /\ case'[cur].waves = case[cur].waves
        /\ case'[cur].sent = case[cur].sent \ {t.model}
        /\ case'[cur].tasks = case[cur].tasks \cup {}
    BY <1>5, Visiting, FlagTakenBack
  <2>2. case'[cur].sent \cap {"heli"} = case[cur].sent \cap {"heli"}
    BY <2>1, <1>2
  <2>3. /\ model' \in [Vehicles -> Models \cup {"gone"}] /\ orders' \in OrdersType
        /\ record' \in [Vehicles -> [of : Cases \cup {NoCase}, as : Services \cup {"none"}]]
        /\ cars' \in [Cases -> RowType] /\ (\A d \in Cases : cars'[d] = cars[d])
        /\ \A u \in Vehicles : record'[u].of \in Active \cup {NoCase}
    BY <1>1, <1>5, Visiting DEF IInv, TypeOK
  <2>4. \A v \in Vehicles : cars'[cur][v] <= cars[cur][v]
    BY <1>5, Visiting
  <2> QED  BY <1>1, <1>3, <2>1, <2>2, <2>3, <2>4, TaskKeeps
<1> QED  BY <1>4, <1>5 DEF Meet

(* A helicopter is listed once more, or gives its flag back.                    *)
LEMMA HeliArrivesKeeps ==
    ASSUME IInv, NEW t \in due, HeliArrives(t)
    PROVE  IInv'
<1>1. t.job = "heli" /\ RunTask(t) /\ UNCHANGED <<record, orders>>
  BY DEF HeliArrives
<1>2. Lists({}) = {} /\ {} \in SUBSET TaskType /\ t \in Lists(due) /\ \A v \in Vehicles : MayList(t, v)
  BY <1>1 DEF Lists, MayList, ChainJobs
<1>3. /\ orders' \in OrdersType
      /\ record' \in [Vehicles -> [of : Cases \cup {NoCase}, as : Services \cup {"none"}]]
      /\ \A u \in Vehicles : record'[u].of \in Active \cup {NoCase}
  BY <1>1, Visiting DEF IInv, TypeOK
<1>4. model' \in [Vehicles -> Models \cup {"gone"}]
  <2>1. model' = model \/ \E v \in Vehicles : model' = [model EXCEPT ![v] = "heli"]
    BY DEF HeliArrives
  <2> QED  BY <2>1 DEF IInv, TypeOK, Models, Special
<1>5. CASE UNCHANGED case /\ \E v \in Vehicles : cars' = Listed(cur, v)
  <2>1. PICK v \in Vehicles : cars' = Listed(cur, v)
    BY <1>5
  <2>2. /\ cars' \in [Cases -> RowType]
        /\ \A d \in Cases \ {cur} : cars'[d] = cars[d]
        /\ \A u \in Vehicles : cars'[cur][u] = IF u = v THEN cars[cur][u] + 1 ELSE cars[cur][u]
    BY <2>1, Visiting, ListedRow
  <2>3. \A u \in Vehicles : cars'[cur][u] <= cars[cur][u] + 1
    BY <2>2, Visiting
  <2>4. /\ case' \in [Cases -> CaseType]
        /\ \A d \in Cases \ {cur} : case'[d] = case[d]
        /\ case'[cur].state = case[cur].state /\ case'[cur].waves = case[cur].waves
        /\ case'[cur].sent = case[cur].sent /\ case'[cur].tasks = case[cur].tasks \cup {}
    BY <1>5, Visiting, SameCase
  <2> QED  BY <1>1, <1>2, <1>3, <1>4, <2>2, <2>3, <2>4, TaskKeeps
<1>6. CASE case' = [case EXCEPT ![cur].sent = @ \ {"heli"}] /\ UNCHANGED cars
  <2>1. /\ case' \in [Cases -> CaseType]
        /\ \A d \in Cases \ {cur} : case'[d] = case[d]
        /\ case'[cur].state = case[cur].state /\ case'[cur].waves = case[cur].waves
        /\ case'[cur].tasks = case[cur].tasks \cup {}
    BY <1>6, Visiting, FlagTakenBack
  <2>2. cars' \in [Cases -> RowType] /\ (\A d \in Cases : cars'[d] = cars[d])
        /\ \A v \in Vehicles : cars'[cur][v] <= cars[cur][v]
    BY <1>6, Visiting
  <2>3. t.job = "heli" /\ cars'[cur] = cars[cur]
    BY <1>1, <1>6
  <2>4. \A n \in Lists({}) : FALSE
    BY <1>2
  <2> QED  BY <1>1, <1>2, <1>3, <1>4, <2>1, <2>2, <2>3, <2>4, TaskKeeps
<1> QED  BY <1>5, <1>6 DEF HeliArrives, Valid

-----------------------------------------------------------------------------
(* The state of the case that is visited, and the end of the tick.               *)

(* What is known of the visited case when its state is looked at.               *)
LEMMA LookedAt ==
    ASSUME IInv, pc \in {"tasks", "scene"}, due = {}
    PROVE  /\ cur \in Cases /\ case[cur].state # "none" /\ case[cur] \in CaseType
           /\ Mine(cur) = {} /\ Sound(case[cur], {}, cars[cur])
           /\ cars \in [Cases -> RowType] /\ case \in [Cases -> CaseType] /\ orders \in OrdersType
           /\ \A d \in Cases, v \in Vehicles : cars[d][v] \in Nat /\ cars[d][v] <= cars[d][v]
<1>1. cur \in Active
  BY DEF IInv, TickIsWhole
<1>2. Mine(cur) = {}
  BY DEF Mine
<1>3. \A d \in Cases, v \in Vehicles : cars[d][v] \in Nat
  BY DEF IInv, TypeOK
<1>4. \A d \in Cases, v \in Vehicles : cars[d][v] <= cars[d][v]
  BY <1>3
<1>5. cur \in Cases /\ case[cur].state # "none"
  BY <1>1 DEF Active
<1>6. cars \in [Cases -> RowType] /\ case \in [Cases -> CaseType] /\ orders \in OrdersType
  BY DEF IInv, TypeOK, RowType
<1> QED  BY <1>2, <1>3, <1>4, <1>5, <1>6 DEF IInv

(* The same when the visit is over.                                             *)
LEMMA Leaving ==
    ASSUME IInv, NEW from \in {"tasks", "scene"}, Leave(from)
    PROVE  /\ cur \in Cases /\ case[cur].state # "none" /\ case[cur] \in CaseType
           /\ due = {} /\ Mine(cur) = {} /\ Sound(case[cur], {}, cars[cur])
           /\ cars \in [Cases -> RowType] /\ case \in [Cases -> CaseType] /\ orders \in OrdersType
           /\ \A d \in Cases, v \in Vehicles : cars[d][v] \in Nat /\ cars[d][v] <= cars[d][v]
<1>1. pc \in {"tasks", "scene"} /\ due = {}
  BY DEF Leave
<1> QED  BY <1>1, LookedAt

(* A visit may leave its case as it likes, if sound and not empty.              *)
LEMMA LeaveKeeps ==
    ASSUME IInv, NEW from \in {"tasks", "scene"}, Leave(from), orders' \in OrdersType, cars' \in [Cases -> RowType],
           case' \in [Cases -> CaseType],
           \A d \in Cases \ {cur} : case'[d] = case[d] /\ cars'[d] = cars[d],
           case'[cur].state # "none", Sound(case'[cur], {}, cars'[cur])
    PROVE  IInv'
<1> USE DEF IInv
<1>1. /\ pc \in {"tasks", "scene"} /\ due = {} /\ pc' = "visit" /\ cur' = NoCase
      /\ UNCHANGED <<model, record, fires, moves, calls, todo, due>>
  BY DEF Leave
<1>2. moves = {} /\ moves' = {} /\ due = {} /\ due' = {}
  BY <1>1 DEF TickIsWhole
<1>3. TypeOK'
  BY <1>1 DEF TypeOK, RowType
<1>4. TickIsWhole'
  BY <1>1, <1>2 DEF TickIsWhole
<1>5. RecordNamesLiveCase'
  <2>1. \A d \in Cases : case[d].state # "none" => case'[d].state # "none"
    OBVIOUS
  <2> QED  BY <2>1, <1>1, StayActive
<1>6. AllSound'
  <2>1. ASSUME NEW d \in Cases PROVE Sound(case'[d], Mine(d)', cars'[d])
    <3>1. Mine(d) = {} /\ Mine(d)' = {}
      BY <1>2 DEF Mine
    <3>2. CASE d = cur
      BY <3>1, <3>2
    <3>3. CASE d # cur
      <4>1. case'[d] = case[d] /\ cars'[d] = cars[d] /\ Sound(case[d], {}, cars[d])
        BY <3>1, <3>3
      <4> QED  BY <4>1, <3>1
    <3> QED  BY <3>2, <3>3
  <2> QED  BY <2>1 DEF AllSound
<1> QED  BY <1>1, <1>3, <1>4, <1>5, <1>6, Busy DEF AllSound

(* No task that lists is added.                                                  *)
LEMMA LeaveSteadily ==
    ASSUME IInv, NEW from \in {"tasks", "scene"}, Leave(from), orders' \in OrdersType, cars' \in [Cases -> RowType],
           case' = case \/ \E s \in {"scene", "cleanup", "cancelled"} :
                              case' = [case EXCEPT ![cur].state = s],
           \A d \in Cases \ {cur} : cars'[d] = cars[d],
           \A v \in Vehicles : cars'[cur][v] <= cars[cur][v] \/ cars'[cur][v] <= 1
    PROVE  IInv'
<1>1. /\ cur \in Cases /\ case[cur].state # "none" /\ case[cur] \in CaseType
      /\ Sound(case[cur], {}, cars[cur]) /\ case \in [Cases -> CaseType]
      /\ cars \in [Cases -> RowType]
  BY Leaving
<1> DEFINE l == case'[cur]
<1>2. l = case[cur] \/ \E s \in {"scene", "cleanup", "cancelled"} : l = [case[cur] EXCEPT !.state = s]
  BY <1>1
<1>3. l \in CaseType /\ l.tasks = case[cur].tasks /\ l.waves = case[cur].waves
      /\ l.sent = case[cur].sent
      /\ (l.state = case[cur].state \/ l.state \in {"scene", "cleanup", "cancelled"})
  BY <1>1, <1>2 DEF CaseType
<1>4. case' \in [Cases -> CaseType] /\ \A d \in Cases \ {cur} : case'[d] = case[d]
  BY <1>1, <1>3
<1>5. Sound(l, {}, cars'[cur])
  <2> HIDE DEF l
  <2>1. cars[cur] \in RowType /\ cars'[cur] \in RowType /\ {} \in SUBSET TaskType
    BY <1>1
  <2>2. l.state # "none"
    BY <1>1, <1>3
  <2> QED  BY <1>1, <1>3, <2>1, <2>2, Steady
<1> QED  BY <1>1, <1>3, <1>4, <1>5, LeaveKeeps

(* A case that waits, or ends while it does.                                    *)
LEMMA WaitsKeeps ==
    ASSUME IInv, Waits
    PROVE  IInv'
<1>1. "tasks" \in {"tasks", "scene"} /\ Leave("tasks") /\ UNCHANGED <<orders, cars>>
      /\ (case' = case \/ case' = [case EXCEPT ![cur].state = "cleanup"])
  BY DEF Waits
<1>2. /\ orders' \in OrdersType /\ cars' \in [Cases -> RowType]
      /\ \A v \in Vehicles : cars'[cur][v] <= cars[cur][v]
  BY <1>1, Leaving
<1> QED  BY <1>1, <1>2, LeaveSteadily

(* Patrols are called to an open case, each listed once.                        *)
LEMMA MobilizesKeeps ==
    ASSUME IInv, Mobilizes
    PROVE  IInv'
<1>1. "tasks" \in {"tasks", "scene"} /\ Leave("tasks") /\ case' = [case EXCEPT ![cur].state = "scene"]
  BY DEF Mobilizes
<1>2. PICK S \in Patrols, crewed \in Answers : Mobilize(cur, S, crewed)
  BY DEF Mobilizes
<1>3. /\ orders' \in OrdersType /\ cars' \in [Cases -> RowType]
      /\ \A d \in Cases \ {cur} : cars'[d] = cars[d]
      /\ \A v \in Vehicles : cars'[cur][v] <= cars[cur][v] \/ cars'[cur][v] <= 1
  BY <1>1, <1>2, Leaving, MobilizeKeeps
<1> QED  BY <1>1, <1>3, LeaveSteadily

(* An open case starts chain 0, which counted as one that may list already.     *)
LEMMA SpawnsKeeps ==
    ASSUME IInv, Spawns
    PROVE  IInv'
<1>1. "tasks" \in {"tasks", "scene"} /\ Leave("tasks") /\ case[cur].state = "open" /\ UNCHANGED <<orders, cars>>
  BY DEF Spawns
<1>2. PICK n \in PlanSizes :
          case' = [case EXCEPT ![cur].state = "scene",
                               ![cur].tasks = @ \cup {Chain(0, n)}]
  BY DEF Spawns
<1>3. /\ cur \in Cases /\ case[cur] \in CaseType
      /\ Sound(case[cur], {}, cars[cur]) /\ case \in [Cases -> CaseType]
      /\ cars \in [Cases -> RowType] /\ orders \in OrdersType
  BY <1>1, Leaving
<1> DEFINE t == Chain(0, n)
           new == {t}
           l == [case[cur] EXCEPT !.state = "scene", !.tasks = @ \cup new]
<1>4. t \in TaskType /\ t.job = "spawn" /\ Wave(t) = 0
  BY ChainTask DEF TaskType, Wave
<1> HIDE DEF t
<1>5. new \in SUBSET TaskType /\ Lists(new) = {t}
  BY <1>4 DEF Lists, ChainJobs
<1>6. l \in CaseType /\ l.state = "scene" /\ l.tasks = case[cur].tasks \cup new
      /\ l.waves = case[cur].waves /\ l.sent = case[cur].sent
  BY <1>3, <1>5 DEF CaseType
<1>7. case' = [case EXCEPT ![cur] = l]
  BY <1>2, <1>3 DEF t
<1> HIDE DEF l, new
<1>8. case' \in [Cases -> CaseType] /\ case'[cur] = l /\ \A d \in Cases \ {cur} : case'[d] = case[d]
  BY <1>3, <1>6, <1>7
<1>9. Sound(l, {}, cars[cur])
  <2>1. cars[cur] \in RowType
    BY <1>3
  <2> QED  BY <1>1, <1>3, <1>4, <1>5, <1>6, <2>1, ScheduledSound
<1> QED  BY <1>1, <1>3, <1>6, <1>8, <1>9, LeaveKeeps

(* The attack pass changes orders alone.                                        *)
LEMMA OnSceneKeeps ==
    ASSUME IInv, OnScene
    PROVE  IInv'
<1> USE DEF IInv
<1>1. /\ pc = "tasks" /\ due = {} /\ due' = {} /\ case[cur].state = "scene" /\ pc' = "scene"
      /\ UNCHANGED <<model, record, fires, case, cars, moves, calls, todo, cur, due>>
  BY DEF OnScene
<1>2. orders' \in OrdersType
  <2>1. PICK out \in SUBSET ((((Holds(cur) \cap Valid) \ Of("heli")) \cup Cops) \ orders.emptied),
             on \in SUBSET (Cops \ (orders.emptied \cup orders.ordered)) :
           orders' = AttackPass(out, on)
    BY DEF OnScene
  <2>2. out \in SUBSET Vehicles /\ on \in SUBSET Vehicles
    BY DEF Valid, Cops
  <2>3. OrderOut(orders, out) \in OrdersType
    BY <2>2 DEF OrderOut, OrdersType, TypeOK
  <2> QED  BY <2>1, <2>2, <2>3 DEF AttackPass, OrdersType
<1>3. TypeOK'
  BY <1>1, <1>2 DEF TypeOK
<1>4. TickIsWhole'
  BY <1>1 DEF TickIsWhole, Live, Active
<1>5. RecordNamesLiveCase' /\ AllSound'
  BY <1>1, OrdersOnly
<1> QED  BY <1>1, <1>3, <1>4, <1>5, Busy DEF AllSound

(* At the scene, what is scheduled for the case may be any that leaves it sound. *)
LEMMA SchedulesKeeps ==
    ASSUME IInv, pc = "scene", NEW l \in CaseType, Schedules(l), l.state = "scene",
           Sound(l, {}, cars[cur])
    PROVE  IInv'
<1> USE DEF IInv
<1>1. /\ due = {} /\ due' = {} /\ moves = {} /\ moves' = {} /\ pc' = "scene" /\ cur' = cur
      /\ case' = [case EXCEPT ![cur] = l]
      /\ UNCHANGED <<model, orders, record, fires, cars, pc, moves, calls, todo, cur, due>>
  BY DEF Schedules, TickIsWhole
<1>2. cur \in Cases /\ case \in [Cases -> CaseType] /\ case[cur].state # "none"
  BY <1>1, LookedAt
<1>3. /\ case' \in [Cases -> CaseType] /\ case'[cur] = l
      /\ \A d \in Cases \ {cur} : case'[d] = case[d]
  BY <1>1, <1>2
<1>4. TypeOK'
  BY <1>1, <1>3 DEF TypeOK
<1>5. TickIsWhole'
  BY <1>1, <1>2, <1>3 DEF TickIsWhole, Active
<1>6. RecordNamesLiveCase'
  <2>1. \A d \in Cases : case[d].state # "none" => case'[d].state # "none"
    BY <1>3
  <2> QED  BY <2>1, <1>1, StayActive
<1>7. AllSound'
  <2>1. ASSUME NEW d \in Cases PROVE Sound(case'[d], Mine(d)', cars'[d])
    <3>1. Mine(d) = {} /\ Mine(d)' = {} /\ cars'[d] = cars[d]
      BY <1>1 DEF Mine
    <3>2. CASE d = cur
      BY <3>1, <3>2, <1>3
    <3>3. CASE d # cur
      <4>1. case'[d] = case[d] /\ Sound(case[d], {}, cars[d])
        BY <3>1, <3>3, <1>3
      <4> QED  BY <4>1, <3>1
    <3> QED  BY <3>2, <3>3
  <2> QED  BY <2>1 DEF AllSound
<1> QED  BY <1>1, <1>4, <1>5, <1>6, <1>7, Busy DEF AllSound

(* A reinforcement has a wave of its own.                                       *)
LEMMA ReinforcesKeeps ==
    ASSUME IInv, Reinforces
    PROVE  IInv'
<1> DEFINE k == case[cur]
           w == k.waves + 1
<1>1. pc = "scene" /\ due = {} /\ k.state = "scene"
  BY DEF Reinforces, IInv, TickIsWhole
<1>2. k \in CaseType /\ Sound(k, {}, cars[cur]) /\ cars[cur] \in RowType
  BY <1>1, LookedAt
<1>3. PICK i \in 0 .. MaxDelay, j \in 0 .. MaxDelay :
         Schedules([k EXCEPT !.waves = w, !.tasks = @ \cup
                       {[job |-> "nearby", wave |-> w, in |-> i],
                        [job |-> "reinforce", wave |-> w, in |-> j]}])
  BY DEF Reinforces
<1> DEFINE t == [job |-> "reinforce", wave |-> w, in |-> j]
           u == [job |-> "nearby", wave |-> w, in |-> i]
           new == {u, t}
           l == [k EXCEPT !.waves = w, !.tasks = @ \cup new]
<1>4. i \in Nat /\ j \in Nat /\ w \in Nat
  BY <1>2, BoundsAssumption DEF CaseType
<1>5. t \in TaskType /\ u \in TaskType
  BY <1>4 DEF TaskType
<1>6. t.job = "reinforce" /\ u.job = "nearby" /\ Wave(t) = w
  BY DEF Wave
<1>7. Schedules(l)
  BY <1>3
<1> HIDE DEF t, u
<1>8. new \in SUBSET TaskType /\ Lists(new) = {t}
  BY <1>5, <1>6 DEF Lists, ChainJobs
<1>9. l \in CaseType /\ l.state = "scene" /\ l.tasks = k.tasks \cup new
      /\ l.waves = k.waves + 1 /\ l.sent = k.sent
  BY <1>1, <1>2, <1>4, <1>8 DEF CaseType
<1> HIDE DEF l, new
<1>10. Sound(l, {}, cars[cur])
  <2>1. Wave(t) = k.waves + 1
    BY <1>6
  <2> HIDE DEF k, w
  <2> QED  BY <2>1, <1>2, <1>6, <1>8, <1>9, ScheduledSound
<1> QED  BY <1>1, <1>7, <1>9, <1>10, SchedulesKeeps

(* A helicopter is sent once.                                                   *)
LEMMA SendsHeliKeeps ==
    ASSUME IInv, SendsHeli
    PROVE  IInv'
<1> DEFINE k == case[cur]
<1>1. pc = "scene" /\ due = {} /\ k.state = "scene" /\ "heli" \notin k.sent
  BY DEF SendsHeli, NeedsHeli, IInv, TickIsWhole
<1>2. k \in CaseType /\ Sound(k, {}, cars[cur]) /\ cars[cur] \in RowType
  BY <1>1, LookedAt
<1>3. PICK i \in 0 .. MaxDelay :
         Schedules([k EXCEPT !.sent = @ \cup {"heli"},
                             !.tasks = @ \cup {[job |-> "heli", in |-> i]}])
  BY DEF SendsHeli
<1> DEFINE t == [job |-> "heli", in |-> i]
           new == {t}
           l == [k EXCEPT !.sent = @ \cup {"heli"}, !.tasks = @ \cup new]
<1>4. i \in Nat
  BY BoundsAssumption
<1>5. t \in TaskType /\ t.job = "heli"
  BY <1>4 DEF TaskType
<1>6. Schedules(l)
  BY <1>3
<1> HIDE DEF t
<1>7. new \in SUBSET TaskType /\ Lists(new) = {t}
  BY <1>5 DEF Lists, ChainJobs
<1>8. l \in CaseType /\ l.state = "scene" /\ l.tasks = k.tasks \cup new
      /\ l.waves = k.waves /\ l.sent = k.sent \cup {"heli"}
  BY <1>1, <1>2, <1>7 DEF CaseType, Special
<1> HIDE DEF l, new
<1>9. Sound(l, {}, cars[cur])
  <2>1. k.sent \subseteq l.sent /\ "heli" \in l.sent
    BY <1>8
  <2> HIDE DEF k
  <2> QED  BY <2>1, <1>1, <1>2, <1>5, <1>7, <1>8, ScheduledSound
<1> QED  BY <1>1, <1>6, <1>8, <1>9, SchedulesKeeps

(* The case goes on, or ends.                                                   *)
LEMMA LeavesSceneKeeps ==
    ASSUME IInv, LeavesScene
    PROVE  IInv'
<1>1. "scene" \in {"tasks", "scene"} /\ Leave("scene") /\ UNCHANGED <<orders, cars>>
      /\ (case' = case \/ case' = [case EXCEPT ![cur].state = "cleanup"])
  BY DEF LeavesScene
<1>2. /\ orders' \in OrdersType /\ cars' \in [Cases -> RowType]
      /\ \A v \in Vehicles : cars'[cur][v] <= cars[cur][v]
  BY <1>1, Leaving
<1> QED  BY <1>1, <1>2, LeaveSteadily

(* Ended cases are erased whole, the last of them with all orders and records.  *)
LEMMA EndTickKeeps ==
    ASSUME IInv, EndTick
    PROVE  IInv'
<1> USE DEF IInv
<1>1. /\ pc = "visit" /\ pc' = "rest" /\ todo' = {}
      /\ UNCHANGED <<model, fires, moves, calls, cur, due>>
  BY DEF EndTick
<1>2. due = {} /\ due' = {} /\ moves = {} /\ moves' = {}
  BY <1>1 DEF TickIsWhole
<1> DEFINE ended == {c \in Active : case[c].state \in {"cancelled", "cleanup"}}
           held == UNION {Holds(c) : c \in ended}
           w == [orders EXCEPT !.emptied = @ \ held, !.ordered = @ \ held]
<1>3. /\ case' = [c \in Cases |-> IF c \in ended THEN Vacant ELSE case[c]]
      /\ cars' = [c \in Cases |-> IF c \in ended THEN [v \in Vehicles |-> 0] ELSE cars[c]]
      /\ orders' = IF ended = Active THEN Forget(w) ELSE w
      /\ record' = IF ended = Active THEN [v \in Vehicles |-> NoRecord] ELSE Unrecorded(ended)
  BY DEF EndTick
<1>4. ended \subseteq Active /\ Active \subseteq Cases
  BY DEF Active
<1> HIDE DEF ended, held
<1>5. w \in OrdersType
  BY DEF TypeOK, OrdersType
<1>6. orders' \in OrdersType /\ (ended = Active => orders' = [emptied |-> {}, ordered |-> {}])
  <2> HIDE DEF w
  <2> QED  BY <1>3, <1>5 DEF Forget, OrdersType
<1>7. NoRecord \in [of : Cases \cup {NoCase}, as : Services \cup {"none"}] /\ NoRecord.of = NoCase
  BY DEF NoRecord
<1>8. record' \in [Vehicles -> [of : Cases \cup {NoCase}, as : Services \cup {"none"}]]
  <2>1. Unrecorded(ended) \in [Vehicles -> [of : Cases \cup {NoCase}, as : Services \cup {"none"}]]
    BY <1>7 DEF Unrecorded, TypeOK
  <2> QED  BY <1>3, <1>7, <2>1
<1>9. \A r \in {[v \in Vehicles |-> 0]} : r \in RowType /\ \A v \in Vehicles : r[v] = 0
  BY DEF RowType
<1>10. cars' \in [Cases -> RowType] /\ \A c \in ended, v \in Vehicles : cars'[c][v] = 0
  BY <1>3, <1>4, <1>9, Types
<1>11. Vacant \in CaseType
  BY DEF Vacant, CaseType
<1>12. case' \in [Cases -> CaseType]
  BY <1>3, <1>11 DEF TypeOK
<1>13. TypeOK'
  BY <1>1, <1>6, <1>8, <1>10, <1>12 DEF TypeOK, RowType
<1>14. TickIsWhole'
  BY <1>1, <1>2 DEF TickIsWhole
<1>15. Active' = Active \ ended
  BY <1>3, <1>4 DEF Active, Vacant
<1>16. RecordNamesLiveCase'
  <2>1. CASE ended = Active
    BY <2>1, <1>3, <1>7 DEF RecordNamesLiveCase
  <2>2. CASE ended # Active
    BY <2>2, <1>3, <1>7, <1>15 DEF RecordNamesLiveCase, Unrecorded
  <2> QED  BY <2>1, <2>2
<1>17. OrdersEndWithTheCases'
  <2>1. Active' = {} => ended = Active
    BY <1>4, <1>15
  <2> QED  BY <2>1, <1>3, <1>6 DEF OrdersEndWithTheCases
<1>18. AllSound'
  <2>1. ASSUME NEW c \in Cases PROVE Sound(case'[c], Mine(c)', cars'[c])
    <3>1. Mine(c) = {} /\ Mine(c)' = {}
      BY <1>2 DEF Mine
    <3>2. CASE c \in ended
      <4>1. Sound(Vacant, {}, cars'[c])
        BY <3>2, <1>10, VacantSound
      <4> QED  BY <3>1, <3>2, <4>1, <1>3
    <3>3. CASE c \notin ended
      <4>1. case'[c] = case[c] /\ cars'[c] = cars[c] /\ Sound(case[c], {}, cars[c])
        BY <3>1, <3>3, <1>3
      <4> QED  BY <3>1, <4>1
    <3> QED  BY <3>2, <3>3
  <2> QED  BY <2>1 DEF AllSound
<1> QED  BY <1>13, <1>14, <1>16, <1>17, <1>18 DEF AllSound

-----------------------------------------------------------------------------
(* The invariant, and what follows from it.                                     *)

(* A step that changes nothing keeps it.                                        *)
LEMMA StutterKeeps ==
    ASSUME IInv, UNCHANGED vars
    PROVE  IInv'
<1> USE DEF IInv, vars, tick
<1>1. TypeOK'
  BY DEF TypeOK
<1>2. TickIsWhole'
  BY DEF TickIsWhole, Live, Active
<1>3. RecordNamesLiveCase' /\ OrdersEndWithTheCases'
  BY DEF RecordNamesLiveCase, OrdersEndWithTheCases, Active
<1>4. AllSound'
  BY DEF AllSound, Mine
<1> QED  BY <1>1, <1>2, <1>3, <1>4 DEF AllSound

(* The dispatcher starts with no case, no vehicle and no tick under way.        *)
THEOREM InitIInv == Init => IInv
<1> SUFFICES ASSUME Init PROVE IInv
  OBVIOUS
<1> USE DEF Init
<1>1. Vacant \in CaseType /\ NoRecord \in [of : Cases \cup {NoCase}, as : Services \cup {"none"}]
  BY DEF Vacant, CaseType, NoRecord
<1>2. TypeOK
  BY <1>1 DEF TypeOK, OrdersType
<1>3. TickIsWhole
  BY DEF TickIsWhole
<1>4. RecordNamesLiveCase /\ OrdersEndWithTheCases
  BY DEF RecordNamesLiveCase, OrdersEndWithTheCases, NoRecord
<1>5. ASSUME NEW c \in Cases PROVE Sound(case[c], Mine(c), cars[c])
  <2>1. cars[c] \in RowType /\ \A v \in Vehicles : cars[c][v] = 0
    BY DEF RowType
  <2>2. case[c] = Vacant /\ Mine(c) = {}
    BY DEF Mine
  <2> QED  BY <2>1, <2>2, VacantSound
<1> QED  BY <1>2, <1>3, <1>4, <1>5 DEF IInv

(* Every call of the tick, and whatever the engine and the hooks do between     *)
(* ticks, keeps the records, the waves and the lists of the cases sound.        *)
THEOREM StepIInv == IInv /\ [Next]_vars => IInv'
<1> SUFFICES ASSUME IInv, [Next]_vars PROVE IInv'
  OBVIOUS
<1>1. CASE Engine
  BY <1>1, TrafficKeeps, OpenKeeps, CancelKeeps, PurgeKeeps DEF Engine
<1>2. CASE BeginTick
  BY <1>2, BeginTickKeeps
<1>3. CASE Task
  BY <1>3, SpawnUnitKeeps, UnitFoundKeeps, UnitMissingKeeps, NearbyKeeps, ReinforceKeeps,
     SendOutKeeps, MeetKeeps, HeliArrivesKeeps DEF Task
<1>4. CASE \/ ChooseReroutes \/ Reroute \/ Evaluate \/ GlobalFire
           \/ (\E v \in Vehicles : RefreshRecord(v)) \/ (\E c \in Cases : Visit(c))
  BY <1>4, ChooseReroutesKeeps, RerouteKeeps, EvaluateKeeps, GlobalFireKeeps,
     RefreshRecordKeeps, VisitKeeps
<1>5. CASE \/ Waits \/ Mobilizes \/ Spawns
           \/ OnScene \/ Reinforces \/ SendsHeli \/ LeavesScene \/ EndTick
  BY <1>5, WaitsKeeps, MobilizesKeeps, SpawnsKeeps, OnSceneKeeps, ReinforcesKeeps, SendsHeliKeeps,
     LeavesSceneKeeps, EndTickKeeps
<1>6. CASE UNCHANGED vars
  BY <1>6, StutterKeeps
<1> QED  BY <1>1, <1>2, <1>3, <1>4, <1>5, <1>6 DEF Next, Tick

(* So IInv always holds.                                                        *)
THEOREM AlwaysIInv == Spec => []IInv
  BY InitIInv, StepIInv, PTL DEF Spec

(* The state of the dispatcher's vehicles and cases always has its type.        *)
THEOREM TypeCorrect == Spec => []TypeOK
<1>1. IInv => TypeOK
  BY DEF IInv
<1> QED  BY <1>1, AlwaysIInv, PTL

(* No emergency record names a case that is no more.                            *)
THEOREM RecordsNameLiveCases == Spec => []RecordNamesLiveCase
<1>1. IInv => RecordNamesLiveCase
  BY DEF IInv
<1> QED  BY <1>1, AlwaysIInv, PTL

(* No order to a vehicle and no record of a service outlives the last case.     *)
THEOREM OrdersAlwaysEndWithTheCases == Spec => []OrdersEndWithTheCases
<1>1. IInv => OrdersEndWithTheCases
  BY DEF IInv
<1> QED  BY <1>1, AlwaysIInv, PTL

(* No chain of retries, respawns and next units ever forks.                     *)
THEOREM ChainsNeverFork == Spec => []OneTaskPerChain
<1>1. ASSUME IInv PROVE OneTaskPerChain
  <2>1. ASSUME NEW c \in Cases, NEW t \in ChainTasks(c), NEW u \in ChainTasks(c),
               t.wave = u.wave
        PROVE  t = u
    <3>1. {t, u} \subseteq Lists(case[c].tasks \cup Mine(c)) /\ Wave(t) = Wave(u)
      BY <2>1 DEF ChainTasks, Lists, ChainJobs, Mine, Wave
    <3>2. WavesAreWhole(case[c], Mine(c))
      BY <1>1 DEF IInv, Sound
    <3> QED  BY <3>1, <3>2 DEF WavesAreWhole
  <2> QED  BY <2>1 DEF OneTaskPerChain
<1> QED  BY <1>1, AlwaysIInv, PTL

(* No case lists a vehicle more often than chains, helicopter and look allow.   *)
THEOREM VehiclesListedOncePerChain == Spec => []ListedOncePerChain
<1>1. ASSUME IInv PROVE ListedOncePerChain
  <2>1. ASSUME NEW c \in Cases, NEW v \in Vehicles
        PROVE  cars[c][v] <= 2 + case[c].waves + Cardinality(case[c].sent \cap {"heli"})
    <3> DEFINE k == case[c]
               n == Cardinality(Unlisted(k, Mine(c), v))
    <3>1. k \in CaseType /\ cars[c] \in RowType /\ Mine(c) \in SUBSET TaskType
      BY <1>1, Types DEF IInv
    <3>2. WavesAreWhole(k, Mine(c)) /\ cars[c][v] + n <= 2 + k.waves + Heli(k)
      BY <1>1 DEF IInv, Sound, Heli
    <3>3. n \in Nat
      BY <3>1, <3>2, Fits
    <3>4. cars[c][v] \in Nat /\ k.waves \in Nat /\ Heli(k) \in Nat
      BY <3>1, OneHeli DEF RowType, CaseType
    <3> HIDE DEF n, k
    <3>5. cars[c][v] <= 2 + k.waves + Heli(k)
      BY <3>2, <3>3, <3>4
    <3> QED  BY <3>5 DEF Heli, k
  <2> QED  BY <2>1 DEF ListedOncePerChain
<1> QED  BY <1>1, AlwaysIInv, PTL
=============================================================================
