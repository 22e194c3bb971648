-------------------------- MODULE CrimeCases_proofs --------------------------
(* Theorems of CrimeCases, for any peds, places, slots, caps and timeouts.     *)
EXTENDS CrimeCases, FiniteSetTheorems, TLAPS

USE DEF Weapon, UNARMED, MELEE, FIREARM

(* What a step must leave true of the cases.                                   *)
Safe == PrimaryIsSuspect /\ CasesAreCapped /\ SceneClockRuns /\ EveryClosureHasItsCase
ClockRuns(k) == k.state = "ON_SCENE" /\ ~k.spawnPending => k.onScene # Never
SlotsTyped(cases) == cases \in [Slots -> CrimeEvent]

(* A case slot that was erased, or whose clocks ran on, is a case slot.        *)
LEMMA VacantTyped ==
    ASSUME Places # {}
    PROVE  Vacant \in CrimeEvent
<1>1. (CHOOSE x \in Places : TRUE) \in Places
  OBVIOUS
<1>2. PICK x \in Places : Vacant = [NewCase(NoPed, x, FALSE) EXCEPT !.criminals = {}]
  BY <1>1 DEF Vacant
<1>3. Vacant = [place |-> x, criminals |-> {}, criminal |-> NoPed, firearm |-> FALSE,
                state |-> "IDLE", cancelled |-> FALSE, spawnPending |-> FALSE,
                vehicles |-> FALSE, timer |-> Never, onScene |-> Never, newDeaths |-> 0,
                reinforcements |-> 0, tasks |-> {}, closed |-> FALSE]
  BY <1>2 DEF NewCase
<1> QED  BY <1>3, CapsAssumption DEF CrimeEvent, Age, Never, DispatchState

(* A case as it is opened is a case slot.                                      *)
LEMMA NewCaseTyped ==
    ASSUME NEW p \in Peds, NEW x \in Places, NEW gun \in BOOLEAN
    PROVE  NewCase(p, x, gun) \in CrimeEvent
  BY CapsAssumption DEF NewCase, CrimeEvent, Age, Never, DispatchState

(* A clock that runs on stays a clock.                                         *)
LEMMA OlderTyped ==
    ASSUME NEW age \in Age
    PROVE  Older(age) \in Age
  BY TimesAssumption DEF Older, Age, Never

(* Passing time moves only the clocks and task delays of a case.               *)
LEMMA AgedTyped ==
    ASSUME NEW k \in CrimeEvent
    PROVE  /\ Aged(k) \in CrimeEvent
           /\ Aged(k).place = k.place /\ Aged(k).criminals = k.criminals
           /\ Aged(k).criminal = k.criminal /\ Aged(k).cancelled = k.cancelled
           /\ Aged(k).closed = k.closed /\ (ClockRuns(k) => ClockRuns(Aged(k)))
<1>1. k.timer \in Age /\ k.onScene \in Age /\ k.tasks \subseteq Task
  BY DEF CrimeEvent
<1>2. Older(k.timer) \in Age /\ Older(k.onScene) \in Age
  BY <1>1, OlderTyped
<1>3. \A t \in Task : [t EXCEPT !.in = IF @ > 0 THEN @ - 1 ELSE 0] \in Task
  BY TimesAssumption DEF Task
<1>4. {[t EXCEPT !.in = IF @ > 0 THEN @ - 1 ELSE 0] : t \in k.tasks} \subseteq Task
  BY <1>1, <1>3
<1>5. k.onScene # Never => Older(k.onScene) # Never
  BY <1>1, TimesAssumption DEF Older, Age, Never
<1> QED  BY <1>2, <1>4, <1>5 DEF Aged, CrimeEvent, ClockRuns

-----------------------------------------------------------------------------
(* The safety part of the invariant.                                           *)

(* Live cases are finitely many.                                               *)
LEMMA LiveFinite ==
    ASSUME TypeOK
    PROVE  Live \subseteq Slots /\ IsFiniteSet(Live) /\ Cardinality(Live) \in Nat
<1>1. Live \subseteq Slots
  BY DEF Live, TypeOK
<1> QED  BY <1>1, SlotsAssumption, FS_Subset, FS_CardinalityType

(* A step that opens no case and closes no road is safe if it brings no case
   back, keeps each primary a suspect, and lifts the cordon of every case that
   leaves the list or forgets that it holds one.                               *)
LEMMA KeptSafe ==
    ASSUME TypeOK, Safe, active' \subseteq active, roads' \subseteq roads,
           \A c \in active' :
               /\ case'[c].place = case[c].place
               /\ case[c].cancelled => case'[c].cancelled
               /\ ~case'[c].cancelled =>
                     case'[c].criminal \in case'[c].criminals /\ ClockRuns(case'[c])
               /\ case[c].closed => case'[c].closed \/ case[c].place \notin roads',
           \A c \in active \ active' : case[c].closed => case[c].place \notin roads'
    PROVE  Safe'
<1>1. Live' \subseteq Live
  BY DEF Live
<1>2. CasesAreCapped'
  <2>1. Cardinality(Live') <= Cardinality(Live) /\ Cardinality(Live') \in Nat
    BY <1>1, LiveFinite, FS_Subset, FS_CardinalityType
  <2> QED  BY <2>1, LiveFinite, CapsAssumption DEF Safe, CasesAreCapped
<1>3. PrimaryIsSuspect' /\ SceneClockRuns'
  BY DEF PrimaryIsSuspect, SceneClockRuns, ClockRuns, Live
<1>4. EveryClosureHasItsCase'
  <2> SUFFICES ASSUME NEW x \in roads'
               PROVE  \E c \in active' : case'[c].closed /\ case'[c].place = x
    BY DEF EveryClosureHasItsCase
  <2>1. PICK c \in active : case[c].closed /\ case[c].place = x
    BY DEF Safe, EveryClosureHasItsCase
  <2> QED  BY <2>1
<1> QED  BY <1>2, <1>3, <1>4 DEF Safe

(* When a case is admitted, its evictions leave room for it.                   *)
LEMMA AdmissionMakesRoom ==
    ASSUME TypeOK, CasesAreCapped, NEW x, NEW gun, NEW short,
           NEW evicted \in Admissions(x, gun, short)
    PROVE  evicted \subseteq Live /\ Cardinality(Live \ evicted) < MAX_CONCURRENT_CASES
<1>1. RemoteCases \subseteq Live /\ Farthest(RemoteCases) \subseteq RemoteCases
  BY DEF RemoteCases, Farthest
<1>2. \/ evicted = {} /\ Cardinality(Live) < MAX_CONCURRENT_CASES
      \/ evicted = {} /\ Live = {}
      \/ \E c \in Live : evicted = {c}
  BY <1>1, LiveFinite, CapsAssumption DEF Admissions
<1>3. CASE evicted = {} /\ Cardinality(Live) < MAX_CONCURRENT_CASES
  <2>1. Live \ evicted = Live
    BY <1>3
  <2> QED  BY <1>3, <2>1
<1>4. CASE evicted = {} /\ Live = {}
  BY <1>4, FS_EmptySet, CapsAssumption
<1>5. ASSUME NEW c \in Live, evicted = {c} PROVE Cardinality(Live \ evicted) < MAX_CONCURRENT_CASES
  <2>1. Cardinality(Live \ {c}) = Cardinality(Live) - 1
    BY LiveFinite, FS_RemoveElement
  <2> QED  BY <2>1, <1>5, LiveFinite, CapsAssumption DEF CasesAreCapped
<1> QED  BY <1>2, <1>3, <1>4, <1>5

(* A change of primaries changes nothing else of the cases, and keeps every
   primary among the suspects of its case.                                     *)
LEMMA ReprioritizeKeeps ==
    ASSUME NEW open \in SUBSET Slots, NEW cases, SlotsTyped(cases), NEW m,
           NEW target \in Peds \cup {NoPed}, Reprioritize(open, cases, m, target)
    PROVE  /\ SlotsTyped(case') /\ tracked' \in Peds \cup {NoPed}
           /\ \A c \in Slots :
                 /\ case'[c].place = cases[c].place /\ case'[c].criminals = cases[c].criminals
                 /\ case'[c].cancelled = cases[c].cancelled /\ case'[c].closed = cases[c].closed
                 /\ cases[c].criminal \in cases[c].criminals
                       => case'[c].criminal \in case'[c].criminals
                 /\ ClockRuns(cases[c]) => ClockRuns(case'[c])
<1>1. PICK lead \in [open -> Peds \cup {NoPed}] :
        /\ \A c \in open : lead[c] \in Primaries(cases[c], m)
        /\ case' = [c \in Slots |->
                       IF c \in open THEN [cases[c] EXCEPT !.criminal = lead[c]] ELSE cases[c]]
        /\ LET switched == {c \in open : lead[c] # cases[c].criminal}
           IN tracked' \in IF switched = {} THEN {target} ELSE {lead[c] : c \in switched}
  BY DEF Reprioritize
<1>2. \A c \in open : lead[c] = cases[c].criminal \/ lead[c] \in cases[c].criminals
  BY <1>1 DEF Primaries
<1>3. tracked' \in Peds \cup {NoPed}
  BY <1>1
<1>4. ASSUME NEW c \in Slots
      PROVE  /\ case'[c] \in CrimeEvent
             /\ case'[c].place = cases[c].place /\ case'[c].criminals = cases[c].criminals
             /\ case'[c].cancelled = cases[c].cancelled /\ case'[c].closed = cases[c].closed
             /\ cases[c].criminal \in cases[c].criminals
                   => case'[c].criminal \in case'[c].criminals
             /\ ClockRuns(cases[c]) => ClockRuns(case'[c])
  <2>1. cases[c] \in CrimeEvent
    BY DEF SlotsTyped
  <2>2. CASE c \in open
    BY <1>1, <1>2, <2>1, <2>2 DEF CrimeEvent, ClockRuns
  <2>3. CASE c \notin open
    BY <1>1, <2>1, <2>3
  <2> QED  BY <2>2, <2>3
<1>5. SlotsTyped(case')
  BY <1>1, <1>4 DEF SlotsTyped
<1> QED  BY <1>3, <1>4, <1>5

(* The handler of a crime report leaves the cases safe, whether the crime is
   merged into a case, refused, or admitted with evictions.                    *)
LEMMA ReportKeeps ==
    ASSUME TypeOK, Safe, NEW p \in Peds, NEW x \in Places, NEW w \in Weapon,
           NEW hurt \in BOOLEAN, NEW short \in BOOLEAN, Report(p, x, w, hurt, short),
           roads' = roads
    PROVE  /\ active' \subseteq Slots /\ active \subseteq active' /\ SlotsTyped(case')
           /\ crim' \in [Peds -> Component] /\ tracked' \in Peds \cup {NoPed}
           /\ Safe'
<1> DEFINE gun == w = FIREARM
           near == {c \in Live : Distance(x, case[c].place) <= CONSOLIDATE_RANGE}
           nearest == {c \in near : \A d \in near :
                          Distance(x, case[c].place) <= Distance(x, case[d].place)}
           merged(c) == [case EXCEPT ![c].criminals = @ \cup {p}, ![c].firearm = @ \/ gun]
           admitted(evicted, c) ==
               [d \in Slots |->
                   IF d = c THEN NewCase(p, x, gun)
                   ELSE IF d \in evicted THEN [case[d] EXCEPT !.cancelled = TRUE]
                   ELSE case[d]]
<1>1. crim' \in [Peds -> Component]
  BY DEF Report, Accused, TypeOK, Component
<1>2. /\ case \in [Slots -> CrimeEvent] /\ active \subseteq Slots
      /\ tracked \in Peds \cup {NoPed} /\ gun \in BOOLEAN /\ SlotsTyped(case)
  BY DEF TypeOK, SlotsTyped
<1>3. ASSUME NEW c \in nearest, active' = active,
             Reprioritize(active, merged(c), crim', tracked)
      PROVE  SlotsTyped(case') /\ tracked' \in Peds \cup {NoPed} /\ Safe'
  <2> DEFINE cases == merged(c)
  <2>1. c \in Live /\ c \in Slots
    BY <1>2 DEF Live
  <2>2. ASSUME NEW d \in Slots
        PROVE  /\ cases[d] \in CrimeEvent
               /\ cases[d].place = case[d].place /\ cases[d].cancelled = case[d].cancelled
               /\ cases[d].closed = case[d].closed /\ cases[d].criminal = case[d].criminal
               /\ case[d].criminals \subseteq cases[d].criminals
               /\ ClockRuns(case[d]) => ClockRuns(cases[d])
    <3>1. case[d] \in CrimeEvent /\ case[c] \in CrimeEvent
      BY <1>2, <2>1
    <3>2. CASE d = c
      BY <1>2, <2>1, <3>1, <3>2 DEF CrimeEvent, ClockRuns
    <3>3. CASE d # c
      BY <1>2, <2>1, <3>1, <3>3
    <3> QED  BY <3>2, <3>3
  <2>3. SlotsTyped(cases) /\ Reprioritize(active, cases, crim', tracked)
    BY <1>2, <1>3, <2>2 DEF SlotsTyped
  <2> HIDE DEF cases
  <2>4. /\ SlotsTyped(case') /\ tracked' \in Peds \cup {NoPed}
        /\ \A d \in Slots :
              /\ case'[d].place = cases[d].place /\ case'[d].cancelled = cases[d].cancelled
              /\ case'[d].closed = cases[d].closed
              /\ cases[d].criminal \in cases[d].criminals
                    => case'[d].criminal \in case'[d].criminals
              /\ ClockRuns(cases[d]) => ClockRuns(case'[d])
    BY <1>2, <2>3, ReprioritizeKeeps
  <2>5. \A d \in active : ~case[d].cancelled =>
            case[d].criminal \in case[d].criminals /\ ClockRuns(case[d])
    BY DEF Safe, PrimaryIsSuspect, SceneClockRuns, ClockRuns, Live
  <2>6. \A d \in active' :
          /\ case'[d].place = case[d].place
          /\ case[d].cancelled => case'[d].cancelled
          /\ ~case'[d].cancelled =>
                case'[d].criminal \in case'[d].criminals /\ ClockRuns(case'[d])
          /\ case[d].closed => case'[d].closed \/ case[d].place \notin roads'
    BY <1>2, <1>3, <2>2, <2>4, <2>5
  <2> QED  BY <1>3, <2>4, <2>6, KeptSafe
<1>4. ASSUME active' = active, Reprioritize(active, case, crim', tracked)
      PROVE  SlotsTyped(case') /\ tracked' \in Peds \cup {NoPed} /\ Safe'
  <2>1. /\ SlotsTyped(case') /\ tracked' \in Peds \cup {NoPed}
        /\ \A d \in Slots :
              /\ case'[d].place = case[d].place /\ case'[d].cancelled = case[d].cancelled
              /\ case'[d].closed = case[d].closed
              /\ case[d].criminal \in case[d].criminals
                    => case'[d].criminal \in case'[d].criminals
              /\ ClockRuns(case[d]) => ClockRuns(case'[d])
    BY <1>2, <1>4, ReprioritizeKeeps
  <2>2. \A d \in active : ~case[d].cancelled =>
            case[d].criminal \in case[d].criminals /\ ClockRuns(case[d])
    BY DEF Safe, PrimaryIsSuspect, SceneClockRuns, ClockRuns, Live
  <2> QED  BY <1>2, <1>4, <2>1, <2>2, KeptSafe
<1>5. ASSUME NEW evicted \in Admissions(x, gun, short), NEW c \in Slots \ active,
             active' = active \cup {c},
             Reprioritize(active \cup {c}, admitted(evicted, c), crim', p)
      PROVE  SlotsTyped(case') /\ tracked' \in Peds \cup {NoPed} /\ Safe'
  <2> DEFINE cases == admitted(evicted, c)
  <2>1. evicted \subseteq Live /\ Cardinality(Live \ evicted) < MAX_CONCURRENT_CASES
    BY AdmissionMakesRoom DEF Safe
  <2>2. NewCase(p, x, gun) \in CrimeEvent
    BY <1>2, NewCaseTyped
  <2>3. ASSUME NEW d \in Slots
        PROVE  /\ cases[d] \in CrimeEvent
               /\ d # c => /\ cases[d].place = case[d].place
                           /\ cases[d].cancelled = (case[d].cancelled \/ d \in evicted)
                           /\ cases[d].closed = case[d].closed
                           /\ cases[d].criminal = case[d].criminal
                           /\ cases[d].criminals = case[d].criminals
                           /\ ClockRuns(case[d]) => ClockRuns(cases[d])
               /\ d = c => cases[d].criminal \in cases[d].criminals /\ ClockRuns(cases[d])
    <3>1. case[d] \in CrimeEvent
      BY <1>2
    <3>2. CASE d = c
      BY <2>2, <3>2 DEF NewCase, ClockRuns
    <3>3. CASE d # c /\ d \in evicted
      BY <3>1, <3>3 DEF CrimeEvent, ClockRuns
    <3>4. CASE d # c /\ d \notin evicted
      BY <3>1, <3>4 DEF CrimeEvent, ClockRuns
    <3> QED  BY <3>2, <3>3, <3>4
  <2>4. SlotsTyped(cases)
    BY <2>3 DEF SlotsTyped
  <2> HIDE DEF cases
  <2>5. /\ SlotsTyped(case') /\ tracked' \in Peds \cup {NoPed}
        /\ \A d \in Slots :
              /\ case'[d].place = cases[d].place /\ case'[d].criminals = cases[d].criminals
              /\ case'[d].cancelled = cases[d].cancelled /\ case'[d].closed = cases[d].closed
              /\ cases[d].criminal \in cases[d].criminals
                    => case'[d].criminal \in case'[d].criminals
              /\ ClockRuns(cases[d]) => ClockRuns(case'[d])
    BY <1>2, <1>5, <2>4, ReprioritizeKeeps DEF cases
  <2>6. PrimaryIsSuspect' /\ SceneClockRuns'
    <3> SUFFICES ASSUME NEW d \in active', ~case'[d].cancelled
                 PROVE  case'[d].criminal \in case'[d].criminals /\ ClockRuns(case'[d])
      BY DEF PrimaryIsSuspect, SceneClockRuns, ClockRuns, Live
    <3>1. \A e \in active : ~case[e].cancelled =>
              case[e].criminal \in case[e].criminals /\ ClockRuns(case[e])
      BY DEF Safe, PrimaryIsSuspect, SceneClockRuns, ClockRuns, Live
    <3> QED  BY <1>2, <1>5, <2>3, <2>5, <3>1
  <2>7. CasesAreCapped'
    <3>1. Live' \subseteq (Live \ evicted) \cup {c}
      BY <1>2, <1>5, <2>3, <2>5 DEF Live
    <3>2. IsFiniteSet(Live \ evicted) /\ Cardinality(Live \ evicted) \in Nat
      BY LiveFinite, FS_Subset, FS_CardinalityType
    <3>3. /\ IsFiniteSet((Live \ evicted) \cup {c})
          /\ Cardinality((Live \ evicted) \cup {c}) <= Cardinality(Live \ evicted) + 1
      <4> DEFINE rest == Live \ evicted
      <4> HIDE DEF rest
      <4>1. IsFiniteSet(rest) /\ Cardinality(rest) \in Nat
        BY <3>2 DEF rest
      <4>2. /\ IsFiniteSet(rest \cup {c})
            /\ Cardinality(rest \cup {c}) = IF c \in rest THEN Cardinality(rest)
                                             ELSE Cardinality(rest) + 1
        BY <4>1, FS_AddElement
      <4>3. Cardinality(rest \cup {c}) <= Cardinality(rest) + 1
        BY <4>1, <4>2
      <4> QED  BY <4>2, <4>3 DEF rest
    <3>4. Cardinality(Live') \in Nat /\ Cardinality((Live \ evicted) \cup {c}) \in Nat
          /\ Cardinality(Live') <= Cardinality((Live \ evicted) \cup {c})
      BY <3>1, <3>3, FS_Subset, FS_CardinalityType
    <3> QED  BY <2>1, <3>2, <3>3, <3>4, CapsAssumption DEF CasesAreCapped
  <2>8. EveryClosureHasItsCase'
    BY <1>2, <1>5, <2>3, <2>5 DEF Safe, EveryClosureHasItsCase
  <2> QED  BY <2>5, <2>6, <2>7, <2>8 DEF Safe
<1>6. \/ active' = active /\ \E c \in nearest : Reprioritize(active, merged(c), crim', tracked)
      \/ active' = active /\ Reprioritize(active, case, crim', tracked)
      \/ \E evicted \in Admissions(x, gun, short), c \in Slots \ active :
            /\ active' = active \cup {c}
            /\ Reprioritize(active \cup {c}, admitted(evicted, c), crim', p)
  BY DEF Report
<1> QED  BY <1>1, <1>2, <1>3, <1>4, <1>5, <1>6

-----------------------------------------------------------------------------
(* The steps.                                                                  *)

(* The dispatcher starts with no case, no load and all roads open.             *)
THEOREM InitIInv == Init => IInv
<1> SUFFICES ASSUME Init PROVE IInv
  OBVIOUS
<1>1. Vacant \in CrimeEvent
  BY VacantTyped DEF Init
<1>2. TypeOK
  BY <1>1 DEF Init, TypeOK, NoCrime, Component
<1>3. Live = {} /\ Cardinality(Live) = 0
  BY FS_EmptySet DEF Init, Live
<1> QED
  BY <1>2, <1>3, CapsAssumption DEF Init, IInv, TickIsWhole, PrimaryIsSuspect,
     CasesAreCapped, SceneClockRuns, EveryClosureHasItsCase, LoadEndsEveryCase

(* A report happens while no load is on.                                       *)
LEMMA ReportCrimeKeeps ==
    ASSUME IInv, NEW p \in Peds, ReportCrime(p)
    PROVE  IInv'
<1>1. PICK x \in Places, w \in Weapon, hurt \in BOOLEAN, short \in BOOLEAN :
        Report(p, x, w, hurt, short)
  BY DEF ReportCrime
<1>2. /\ active' \subseteq Slots /\ active \subseteq active' /\ SlotsTyped(case')
      /\ crim' \in [Peds -> Component] /\ tracked' \in Peds \cup {NoPed} /\ Safe'
  BY <1>1, ReportKeeps DEF ReportCrime, IInv, Safe
<1>3. TypeOK'
  BY <1>2 DEF ReportCrime, Hook, HookTime, engine, frame, IInv, TypeOK, SlotsTyped
<1> QED
  BY <1>2, <1>3 DEF ReportCrime, Hook, HookTime, engine, frame, IInv, TickIsWhole,
     Safe, LoadEndsEveryCase

(* A change of weapon changes components and marks a case.                     *)
LEMMA SwitchWeaponKeeps ==
    ASSUME IInv, NEW p \in Peds, SwitchWeapon(p)
    PROVE  IInv'
<1>1. PICK w \in Weapon, c \in CaseOf(p) :
        /\ crim' = Rearmed(p, w)
        /\ case' = [case EXCEPT ![c].firearm = @ \/ w = FIREARM]
  BY DEF SwitchWeapon
<1>2. c \in Slots /\ c \in active
  BY DEF CaseOf, Live, IInv, TypeOK
<1>3. ASSUME NEW d \in Slots
      PROVE  /\ case'[d] \in CrimeEvent /\ case'[d].place = case[d].place
             /\ case'[d].cancelled = case[d].cancelled /\ case'[d].closed = case[d].closed
             /\ case'[d].criminals = case[d].criminals /\ case'[d].criminal = case[d].criminal
             /\ ClockRuns(case[d]) => ClockRuns(case'[d])
  <2>1. case[d] \in CrimeEvent /\ case[c] \in CrimeEvent /\ case \in [Slots -> CrimeEvent]
    BY <1>2 DEF IInv, TypeOK
  <2>2. CASE d = c
    BY <1>1, <2>1, <2>2 DEF CrimeEvent, ClockRuns
  <2>3. CASE d # c
    BY <1>1, <2>1, <2>3
  <2> QED  BY <2>2, <2>3
<1>4. SlotsTyped(case')
  BY <1>1, <1>3 DEF SlotsTyped, IInv, TypeOK
<1>5. crim' \in [Peds -> Component]
  <2>1. crim \in [Peds -> Component]
    BY DEF IInv, TypeOK
  <2>2. crim[p] \in Component /\ w \in Int /\ crim[p].cat \in Int
    BY <2>1 DEF Component
  <2>3. (IF w > crim[p].cat THEN w ELSE crim[p].cat) \in Weapon /\ (w > crim[p].cat) \in BOOLEAN
    BY <2>2 DEF Component
  <2>4. CASE Rearmed(p, w) = crim
    BY <1>1, <2>1, <2>4
  <2>5. CASE Rearmed(p, w) # crim
    <3>1. crim' = [crim EXCEPT ![p].cat = IF w > @ THEN w ELSE @,
                               ![p].attacking = w > crim[p].cat]
      BY <1>1, <2>5 DEF Rearmed
    <3>2. crim'[p] \in Component
      BY <2>1, <2>2, <2>3, <3>1 DEF Component
    <3>3. \A q \in Peds \ {p} : crim'[q] = crim[q]
      BY <2>1, <3>1
    <3> QED  BY <2>1, <3>1, <3>2, <3>3
  <2> QED  BY <2>4, <2>5
<1>6. UNCHANGED <<active, tracked, wanted, roads, engine, frame>> /\ ~loading /\ pc = "rest"
  BY DEF SwitchWeapon, Hook, HookTime
<1>7. Safe'
  <2>1. \A d \in active : ~case[d].cancelled =>
            case[d].criminal \in case[d].criminals /\ ClockRuns(case[d])
    BY DEF IInv, PrimaryIsSuspect, SceneClockRuns, ClockRuns, Live
  <2>2. active \subseteq Slots
    BY DEF IInv, TypeOK
  <2> QED  BY <1>3, <1>6, <2>1, <2>2, KeptSafe DEF IInv, Safe
<1>8. TypeOK'
  BY <1>4, <1>5, <1>6 DEF engine, frame, IInv, TypeOK, SlotsTyped
<1> QED
  BY <1>6, <1>7, <1>8 DEF engine, frame, IInv, TickIsWhole, Safe, LoadEndsEveryCase

(* A kill that a handler sees takes the dead out of every case: a case left
   with nobody is cancelled and its cordon lifted, any other has an heir.      *)
LEMMA RegisterKillKeeps ==
    ASSUME IInv, NEW p \in Peds, RegisterKill(p)
    PROVE  IInv'
<1> DEFINE left(c) == case[c].criminals \ {p}
           solved == {c \in CaseOf(p) : left(c) = {}}
           deciding == {c \in CaseOf(p) : case[c].criminal = p \/ c \in solved}
<1>1. /\ UNCHANGED <<player, loading, frame, active, wanted>> /\ pc = "rest"
      /\ ped' \in [Peds -> {"alive", "dead", "gone"}]
  BY DEF RegisterKill, HookTime, IInv, TypeOK
<1>2. /\ case \in [Slots -> CrimeEvent] /\ active \subseteq Slots
      /\ CaseOf(p) \subseteq Live /\ Live \subseteq active
  BY DEF IInv, TypeOK, CaseOf, Live
<1>3. SlotsTyped(case') /\ crim' \in [Peds -> Component] /\ tracked' \in Peds \cup {NoPed}
      /\ roads' \subseteq Places /\ Safe'
  <2>1. CASE UNCHANGED <<case, crim, tracked, roads>>
    <3>1. Live' = Live
      BY <1>1, <2>1 DEF Live
    <3> QED
      BY <1>1, <2>1, <3>1 DEF IInv, TypeOK, SlotsTyped, Safe, PrimaryIsSuspect,
         CasesAreCapped, SceneClockRuns, EveryClosureHasItsCase
  <2>2. CASE ~UNCHANGED <<case, crim, tracked, roads>>
    <3>1. PICK heir \in [CaseOf(p) -> Peds \cup {NoPed}] :
            /\ \A c \in CaseOf(p) : heir[c] \in Heirs(c, p)
            /\ case' = [c \in Slots |->
                  IF c \notin CaseOf(p) THEN case[c]
                  ELSE [(IF c \in solved THEN Cleaned(case[c]) ELSE case[c])
                          EXCEPT !.criminals = left(c), !.criminal = heir[c],
                                 !.cancelled = c \in solved]]
            /\ roads' = Lifted(solved)
            /\ tracked' \in IF tracked # p \/ deciding = {} THEN {tracked}
                            ELSE {IF c \in solved THEN NoPed ELSE heir[c] : c \in deciding}
            /\ crim' = [crim EXCEPT ![p] = NoCrime]
      BY <2>2 DEF RegisterKill
    <3>2. crim' \in [Peds -> Component] /\ roads' \subseteq Places /\ roads' \subseteq roads
      BY <3>1 DEF IInv, TypeOK, NoCrime, Component, Weapon, UNARMED, Lifted
    <3>3. tracked' \in Peds \cup {NoPed}
      <4>1. \A c \in deciding : (IF c \in solved THEN NoPed ELSE heir[c]) \in Peds \cup {NoPed}
        BY <3>1
      <4>2. tracked \in Peds \cup {NoPed}
        BY DEF IInv, TypeOK
      <4> HIDE DEF solved, deciding
      <4> QED  BY <3>1, <4>1, <4>2
    <3>4. ASSUME NEW c \in Slots
          PROVE  /\ case'[c] \in CrimeEvent /\ case'[c].place = case[c].place
                 /\ case[c].cancelled => case'[c].cancelled
                 /\ c \in active /\ ~case'[c].cancelled =>
                       case'[c].criminal \in case'[c].criminals /\ ClockRuns(case'[c])
                 /\ c \in active /\ case[c].closed => case'[c].closed \/ case[c].place \notin roads'
      <4>1. case[c] \in CrimeEvent
        BY <1>2
      <4>2. CASE c \notin CaseOf(p)
        BY <1>2, <3>1, <4>1, <4>2
           DEF IInv, PrimaryIsSuspect, SceneClockRuns, ClockRuns, Live
      <4>3. CASE c \in solved
        <5>1. c \in CaseOf(p) /\ heir[c] \in Peds \cup {NoPed} /\ left(c) \subseteq Peds
          BY <3>1, <4>1, <4>3 DEF CrimeEvent
        <5>2. case'[c] = [Cleaned(case[c]) EXCEPT !.criminals = left(c), !.criminal = heir[c],
                                                   !.cancelled = TRUE]
          BY <3>1, <4>3, <5>1
        <5>3. case'[c] \in CrimeEvent /\ case'[c].place = case[c].place /\ case'[c].cancelled
          BY <4>1, <5>1, <5>2 DEF Cleaned, CrimeEvent
        <5>4. case[c].closed => case[c].place \notin roads'
          BY <3>1, <4>3 DEF Lifted
        <5> QED  BY <5>3, <5>4
      <4>4. CASE c \in CaseOf(p) \ solved
        <5>1. heir[c] \in Peds \cup {NoPed} /\ left(c) \subseteq Peds /\ left(c) # {}
          BY <3>1, <4>1, <4>4 DEF CrimeEvent
        <5>2. case'[c] = [case[c] EXCEPT !.criminals = left(c), !.criminal = heir[c],
                                          !.cancelled = c \in solved]
          <6> HIDE DEF left, solved
          <6> QED  BY <3>1, <4>4
        <5>3. /\ case'[c] \in CrimeEvent /\ case'[c].place = case[c].place
              /\ case'[c].closed = case[c].closed /\ case'[c].criminals = left(c)
              /\ case'[c].criminal = heir[c]
              /\ ClockRuns(case[c]) => ClockRuns(case'[c])
          <6> DEFINE gone == c \in solved
          <6>1. gone \in BOOLEAN
            OBVIOUS
          <6>2. case'[c] = [case[c] EXCEPT !.criminals = left(c), !.criminal = heir[c],
                                            !.cancelled = gone]
            BY <5>2
          <6> HIDE DEF gone, left
          <6> QED  BY <4>1, <5>1, <6>1, <6>2 DEF CrimeEvent, ClockRuns
        <5>4. /\ ~case[c].cancelled /\ case[c].criminal \in case[c].criminals
              /\ ClockRuns(case[c])
          BY <1>2, <4>4 DEF IInv, PrimaryIsSuspect, SceneClockRuns, ClockRuns, Live
        <5>5. heir[c] \in left(c)
          BY <3>1, <4>4, <5>1, <5>4 DEF Heirs
        <5> QED  BY <5>3, <5>4, <5>5
      <4> QED  BY <4>2, <4>3, <4>4
    <3>5. SlotsTyped(case')
      BY <3>1, <3>4 DEF SlotsTyped
    <3>6. Safe'
      BY <1>1, <1>2, <3>2, <3>4, KeptSafe DEF IInv, Safe
    <3> QED  BY <3>2, <3>3, <3>5, <3>6
  <2> QED  BY <2>1, <2>2
<1>4. TypeOK'
  BY <1>1, <1>3 DEF frame, IInv, TypeOK, SlotsTyped
<1> QED
  BY <1>1, <1>3, <1>4 DEF frame, IInv, TickIsWhole, Safe, LoadEndsEveryCase

(* A dead cop is counted to his case, or his killer is put on the list.        *)
LEMMA CopDiesKeeps ==
    ASSUME IInv, CopDies
    PROVE  IInv'
<1>1. PICK c \in Live, killer \in Peds :
        \/ /\ case[c].newDeaths < MaxNewDeaths
           /\ case' = [case EXCEPT ![c].newDeaths = @ + 1]
           /\ UNCHANGED wanted
        \/ wanted' = wanted \cup {killer} /\ UNCHANGED case
  BY DEF CopDies, RegisterPending
<1>2. UNCHANGED <<active, crim, tracked, roads, engine, frame>> /\ ~loading /\ pc = "rest"
  BY DEF CopDies, Hook, HookTime
<1>3. /\ case \in [Slots -> CrimeEvent] /\ active \subseteq Slots /\ c \in Slots
      /\ wanted' \subseteq Peds
  BY <1>1 DEF IInv, TypeOK, Live
<1>4. ASSUME NEW d \in Slots
      PROVE  /\ case'[d] \in CrimeEvent /\ case'[d].place = case[d].place
             /\ case'[d].cancelled = case[d].cancelled /\ case'[d].closed = case[d].closed
             /\ case'[d].criminals = case[d].criminals /\ case'[d].criminal = case[d].criminal
             /\ ClockRuns(case[d]) => ClockRuns(case'[d])
  <2>1. case[d] \in CrimeEvent /\ case[c] \in CrimeEvent
    BY <1>3
  <2>2. CASE UNCHANGED case
    BY <2>1, <2>2
  <2>3. CASE ~UNCHANGED case
    <3>1. case' = [case EXCEPT ![c].newDeaths = @ + 1] /\ case[c].newDeaths < MaxNewDeaths
      BY <1>1, <2>3
    <3>2. case[c].newDeaths + 1 \in 0..MaxNewDeaths
      BY <2>1, <3>1, CapsAssumption DEF CrimeEvent
    <3>3. CASE d = c
      BY <1>3, <2>1, <3>1, <3>2, <3>3 DEF CrimeEvent, ClockRuns
    <3>4. CASE d # c
      BY <1>3, <2>1, <3>1, <3>4
    <3> QED  BY <3>3, <3>4
  <2> QED  BY <2>2, <2>3
<1>5. SlotsTyped(case')
  BY <1>1, <1>3, <1>4 DEF SlotsTyped
<1>6. Safe'
  <2>1. \A d \in active : ~case[d].cancelled =>
            case[d].criminal \in case[d].criminals /\ ClockRuns(case[d])
    BY DEF IInv, PrimaryIsSuspect, SceneClockRuns, ClockRuns, Live
  <2> QED  BY <1>2, <1>3, <1>4, <2>1, KeptSafe DEF IInv, Safe
<1>7. TypeOK'
  BY <1>2, <1>3, <1>5 DEF engine, frame, IInv, TypeOK, SlotsTyped
<1> QED
  BY <1>2, <1>6, <1>7 DEF engine, frame, IInv, TickIsWhole, Safe, LoadEndsEveryCase

(* The engine moves peds and the player and begins and ends loads between frames.
   A load begins before any poll has seen it.                                  *)
LEMMA EngineKeeps ==
    ASSUME IInv, PlayerMoves \/ BeginLoad \/ EndLoad \/ \E p \in Peds : Despawn(p)
    PROVE  IInv'
<1>1. /\ UNCHANGED <<frame, store>> /\ pc = "rest"
      /\ loading' \in BOOLEAN /\ (loading' => loading \/ ~prevLoading)
  <2>1. UNCHANGED <<frame, store>> /\ pc = "rest"
    BY DEF PlayerMoves, BeginLoad, EndLoad, Despawn, HookTime
  <2>2. loading' = loading \/ (loading' = TRUE /\ ~prevLoading) \/ loading' = FALSE
    BY DEF PlayerMoves, BeginLoad, EndLoad, Despawn
  <2>3. loading \in BOOLEAN
    BY DEF IInv, TypeOK
  <2>4. CASE loading' = loading
    BY <2>1, <2>3, <2>4
  <2>5. CASE loading' = TRUE /\ ~prevLoading
    BY <2>1, <2>5
  <2>6. CASE loading' = FALSE
    BY <2>1, <2>6
  <2> QED  BY <2>2, <2>4, <2>5, <2>6
<1>2. ped' \in [Peds -> {"alive", "dead", "gone"}] /\ player' \in Places
  BY DEF PlayerMoves, BeginLoad, EndLoad, Despawn, HookTime, IInv, TypeOK
<1>3. Live' = Live
  BY <1>1 DEF store, Live
<1>4. TypeOK'
  BY <1>1, <1>2 DEF frame, store, IInv, TypeOK
<1>5. Safe'
  BY <1>1, <1>3 DEF store, IInv, Safe, PrimaryIsSuspect, CasesAreCapped, SceneClockRuns,
     EveryClosureHasItsCase
<1>6. LoadEndsEveryCase'
  BY <1>1 DEF frame, store, IInv, LoadEndsEveryCase
<1>7. TickIsWhole'
  BY <1>1 DEF frame, store, IInv, TickIsWhole
<1> QED  BY <1>4, <1>5, <1>6, <1>7 DEF IInv, Safe

-----------------------------------------------------------------------------
(* The frame.                                                                  *)

(* A poll purges everything when it sees a load begin; otherwise clocks run.   *)
LEMMA PollKeeps ==
    ASSUME IInv, NEW late \in BOOLEAN, pc = "rest", Poll(late),
           UNCHANGED <<engine, todo, cur, due>>,
           pc' \in {"rest"} \cup (IF loading THEN {} ELSE {"hunt"})
    PROVE  IInv'
<1>1. todo = {} /\ UNCHANGED <<ped, player, loading, todo, cur, due>>
  BY DEF engine, IInv, TickIsWhole
<1>2. /\ case \in [Slots -> CrimeEvent] /\ active \subseteq Slots /\ roads \subseteq Places
      /\ Places # {} /\ prevLoading' = loading /\ loading \in BOOLEAN
  BY DEF IInv, TypeOK, Poll
<1>3. CASE loading /\ ~prevLoading
  <2>1. Purge
    BY <1>3 DEF Poll
  <2>2. Vacant \in CrimeEvent
    BY <1>2, VacantTyped
  <2>3. SlotsTyped(case') /\ active' = {} /\ roads' = {}
    <3>1. roads' = {}
      BY <2>1 DEF Purge, Lifted, IInv, EveryClosureHasItsCase
    <3> QED  BY <2>1, <2>2, <3>1 DEF Purge, SlotsTyped
  <2>4. TypeOK'
    BY <1>1, <1>2, <2>1, <2>3 DEF Purge, IInv, TypeOK, SlotsTyped
  <2>5. Live' = {} /\ Cardinality(Live') = 0
    BY <2>3, FS_EmptySet DEF Live
  <2> QED
    BY <1>1, <1>2, <1>3, <2>1, <2>3, <2>4, <2>5, CapsAssumption DEF Purge, IInv, TickIsWhole,
       PrimaryIsSuspect, CasesAreCapped, SceneClockRuns, EveryClosureHasItsCase,
       LoadEndsEveryCase
<1>4. CASE ~(loading /\ ~prevLoading)
  <2>1. /\ case' = [c \in Slots |-> IF late /\ c \in active THEN Aged(case[c]) ELSE case[c]]
        /\ UNCHANGED <<active, crim, tracked, wanted, roads>>
    BY <1>4 DEF Poll
  <2>2. ASSUME NEW c \in Slots
        PROVE  /\ case'[c] \in CrimeEvent /\ case'[c].place = case[c].place
               /\ case'[c].cancelled = case[c].cancelled /\ case'[c].closed = case[c].closed
               /\ case'[c].criminals = case[c].criminals /\ case'[c].criminal = case[c].criminal
               /\ ClockRuns(case[c]) => ClockRuns(case'[c])
    <3>1. case[c] \in CrimeEvent
      BY <1>2
    <3>2. case'[c] = Aged(case[c]) \/ case'[c] = case[c]
      BY <2>1
    <3> QED  BY <3>1, <3>2, AgedTyped
  <2>3. SlotsTyped(case')
    BY <2>1, <2>2 DEF SlotsTyped
  <2>4. Safe'
    <3>1. \A d \in active : ~case[d].cancelled =>
              case[d].criminal \in case[d].criminals /\ ClockRuns(case[d])
      BY DEF IInv, PrimaryIsSuspect, SceneClockRuns, ClockRuns, Live
    <3> QED  BY <1>2, <2>1, <2>2, <3>1, KeptSafe DEF IInv, Safe
  <2>5. TypeOK'
    BY <1>1, <1>2, <2>1, <2>3 DEF IInv, TypeOK, SlotsTyped
  <2> QED
    BY <1>1, <1>2, <1>4, <2>1, <2>4, <2>5 DEF IInv, TickIsWhole, Safe, LoadEndsEveryCase
<1> QED  BY <1>3, <1>4

(* The hit-and-run pass reports one fugitive, or only shortens its list.       *)
LEMMA HuntKeeps ==
    ASSUME IInv, Hunt
    PROVE  IInv'
<1> DEFINE left(expired) == {p \in wanted \ expired : ped[p] = "alive" /\ CaseOf(p) = {}}
<1>1. PICK expired \in SUBSET wanted :
        \/ \E p \in left(expired), x \in Places, short, idle \in BOOLEAN :
             /\ HasIdlePolice(idle) /\ Admissions(x, FALSE, short) # {}
             /\ Report(p, x, MELEE, FALSE, short)
             /\ wanted' = left(expired) \ {p}
        \/ wanted' = left(expired) /\ UNCHANGED <<active, case, crim, tracked>>
  BY DEF Hunt
<1>2. /\ pc = "hunt" /\ pc' = "cool" /\ todo = {} /\ ~loading
      /\ UNCHANGED <<engine, todo, cur, due, prevLoading, roads>>
  BY DEF Hunt, IInv, TickIsWhole
<1>3. wanted \subseteq Peds /\ wanted' \subseteq wanted
  BY <1>1 DEF IInv, TypeOK
<1>4. CASE UNCHANGED <<active, case, crim, tracked>>
  <2>1. Live' = Live
    BY <1>4 DEF Live
  <2>2. TypeOK'
    BY <1>2, <1>3, <1>4 DEF engine, IInv, TypeOK
  <2> QED
    BY <1>2, <1>4, <2>1, <2>2 DEF engine, IInv, TickIsWhole, PrimaryIsSuspect, CasesAreCapped,
       SceneClockRuns, EveryClosureHasItsCase, LoadEndsEveryCase
<1>5. CASE ~UNCHANGED <<active, case, crim, tracked>>
  <2>1. PICK p \in Peds, x \in Places, short \in BOOLEAN : Report(p, x, MELEE, FALSE, short)
    BY <1>1, <1>3, <1>5
  <2>2. /\ active' \subseteq Slots /\ active \subseteq active' /\ SlotsTyped(case')
        /\ crim' \in [Peds -> Component] /\ tracked' \in Peds \cup {NoPed} /\ Safe'
    <3>1. MELEE \in Weapon /\ FALSE \in BOOLEAN
      OBVIOUS
    <3> QED  BY <1>2, <2>1, <3>1, ReportKeeps DEF IInv, Safe
  <2>3. TypeOK'
    BY <1>2, <1>3, <2>2 DEF engine, IInv, TypeOK, SlotsTyped
  <2> QED
    BY <1>2, <2>2, <2>3 DEF engine, IInv, TickIsWhole, Safe, LoadEndsEveryCase
<1> QED  BY <1>4, <1>5

(* The criminals of the tick calm down; primaries change with the threat, and
   the cases to visit are those that are live.                                 *)
LEMMA CoolDownKeeps ==
    ASSUME IInv, CoolDown
    PROVE  IInv'
<1>1. PICK calm \in SUBSET Peds :
        /\ crim' = [p \in Peds |-> IF ped[p] # "alive" THEN NoCrime
                                   ELSE [crim[p] EXCEPT !.attacking = @ /\ p \notin calm]]
        /\ Reprioritize(active, case, crim', tracked)
  BY DEF CoolDown
<1>2. /\ pc = "cool" /\ pc' = "case" /\ todo' = Live /\ ~loading
      /\ UNCHANGED <<engine, cur, due, prevLoading, active, wanted, roads>>
      /\ active \subseteq Slots /\ SlotsTyped(case) /\ tracked \in Peds \cup {NoPed}
  BY DEF CoolDown, IInv, TickIsWhole, TypeOK, SlotsTyped
<1>3. crim' \in [Peds -> Component]
  <2>1. crim \in [Peds -> Component] /\ NoCrime \in Component
    BY DEF IInv, TypeOK, NoCrime, Component
  <2> QED  BY <1>1, <2>1 DEF Component
<1>4. /\ SlotsTyped(case') /\ tracked' \in Peds \cup {NoPed}
      /\ \A d \in Slots :
            /\ case'[d].place = case[d].place /\ case'[d].cancelled = case[d].cancelled
            /\ case'[d].closed = case[d].closed
            /\ case[d].criminal \in case[d].criminals
                  => case'[d].criminal \in case'[d].criminals
            /\ ClockRuns(case[d]) => ClockRuns(case'[d])
  BY <1>1, <1>2, ReprioritizeKeeps
<1>5. Safe'
  <2>1. \A d \in active : ~case[d].cancelled =>
            case[d].criminal \in case[d].criminals /\ ClockRuns(case[d])
    BY DEF IInv, PrimaryIsSuspect, SceneClockRuns, ClockRuns, Live
  <2> QED  BY <1>2, <1>4, <2>1, KeptSafe DEF IInv, Safe
<1>6. Live \subseteq active /\ Live' = Live
  BY <1>2, <1>4 DEF Live
<1>7. TypeOK'
  BY <1>2, <1>3, <1>4, <1>6 DEF engine, IInv, TypeOK, SlotsTyped
<1> QED
  BY <1>2, <1>5, <1>6, <1>7 DEF engine, IInv, TickIsWhole, Safe, LoadEndsEveryCase

(* The visit of a case begins: suspects who left the pool are struck, and one who
   is left leads, or the case is cancelled.                                    *)
LEMMA BeginCaseKeeps ==
    ASSUME IInv, NEW c \in Slots, BeginCase(c)
    PROVE  IInv'
<1> DEFINE left == {p \in case[c].criminals : ped[p] # "gone"}
           ready == IF left = {} THEN {} ELSE {t \in case[c].tasks : t.in = 0}
           none == left = {}
<1>1. PICK p \in IF case[c].criminal \in left \/ left = {} THEN {case[c].criminal} ELSE left :
        /\ case' = [case EXCEPT ![c].criminals = left, ![c].criminal = p,
                                ![c].cancelled = none, ![c].tasks = @ \ ready]
        /\ tracked' \in IF p = case[c].criminal THEN {tracked} ELSE {tracked, p}
  BY DEF BeginCase
<1>2. /\ pc = "case" /\ c \in active /\ ~loading /\ todo' \subseteq todo /\ due' = ready
      /\ \/ pc' = "case" /\ cur' = NoCase
         \/ pc' = "tasks" /\ cur' = c
      /\ UNCHANGED <<engine, prevLoading, active, crim, wanted, roads>>
  <2>1. c \in active /\ ~loading
    BY DEF BeginCase, IInv, TickIsWhole, Live
  <2> QED  BY <2>1 DEF BeginCase
<1>3. /\ case \in [Slots -> CrimeEvent] /\ active \subseteq Slots /\ tracked \in Peds \cup {NoPed}
      /\ case[c] \in CrimeEvent
  BY DEF IInv, TypeOK
<1>4. /\ left \subseteq Peds /\ ready \subseteq Task /\ case[c].tasks \ ready \subseteq Task
      /\ p \in Peds \cup {NoPed} /\ none \in BOOLEAN /\ (none \/ p \in left)
  <2>1. left \subseteq Peds /\ case[c].tasks \subseteq Task /\ case[c].criminal \in Peds \cup {NoPed}
    BY <1>3 DEF CrimeEvent
  <2> QED  BY <1>1, <2>1
<1> HIDE DEF left, ready, none
<1>5. tracked' \in Peds \cup {NoPed}
  BY <1>1, <1>3, <1>4
<1>6. /\ case'[c] \in CrimeEvent /\ case'[c].place = case[c].place
      /\ case'[c].cancelled = none /\ case'[c].closed = case[c].closed
      /\ case'[c].criminals = left /\ case'[c].criminal = p
      /\ ClockRuns(case[c]) => ClockRuns(case'[c])
  BY <1>1, <1>3, <1>4 DEF CrimeEvent, ClockRuns
<1>7. \A d \in Slots \ {c} : case'[d] = case[d]
  BY <1>1, <1>3
<1>8. SlotsTyped(case')
  BY <1>1, <1>3, <1>6, <1>7 DEF SlotsTyped
<1>9. ~case[c].cancelled /\ todo \subseteq Live /\ todo' = todo \ {c}
  BY DEF BeginCase, IInv, TickIsWhole, Live
<1>10. Safe'
  <2>1. \A d \in active : ~case[d].cancelled =>
            case[d].criminal \in case[d].criminals /\ ClockRuns(case[d])
    BY DEF IInv, PrimaryIsSuspect, SceneClockRuns, ClockRuns, Live
  <2> QED  BY <1>2, <1>3, <1>4, <1>6, <1>7, <1>9, <2>1, KeptSafe DEF IInv, Safe
<1>11. TypeOK'
  BY <1>2, <1>3, <1>4, <1>5, <1>8 DEF engine, IInv, TypeOK, SlotsTyped
<1>12. todo' \subseteq Live'
  BY <1>2, <1>3, <1>7, <1>9 DEF Live
<1> QED
  BY <1>2, <1>10, <1>11, <1>12 DEF engine, IInv, TickIsWhole, Safe, LoadEndsEveryCase

(* What every other step of a visit does to its case: neither suspects, primary
   nor place change, a cordon is never forgotten, and a road is closed only for
   a cordon.                                                                   *)
Visits(k) ==
    /\ pc \in {"tasks", "state"}
    /\ Step(k)
    /\ k.place = case[cur].place /\ k.criminals = case[cur].criminals
    /\ k.criminal = case[cur].criminal /\ k.cancelled = case[cur].cancelled
    /\ case[cur].closed => k.closed
    /\ ClockRuns(case[cur]) => ClockRuns(k)
    /\ roads' = roads \/ (roads' = roads \cup {case[cur].place} /\ k.closed)
    /\ \/ due' \subseteq due /\ UNCHANGED <<pc, todo, cur>>
       \/ pc' = "case" /\ cur' = NoCase /\ UNCHANGED <<todo, due>>

(* Such a step keeps the inductive invariant.                                  *)
LEMMA VisitKeeps ==
    ASSUME IInv, NEW k \in CrimeEvent, Visits(k)
    PROVE  IInv'
<1>1. /\ case' = [case EXCEPT ![cur] = k] /\ cur \in active /\ ~loading
      /\ UNCHANGED <<engine, prevLoading, active, crim, tracked, wanted>>
  BY DEF Visits, Step, IInv, TickIsWhole
<1>2. case \in [Slots -> CrimeEvent] /\ active \subseteq Slots /\ cur \in Slots
  BY <1>1 DEF IInv, TypeOK
<1>3. case'[cur] = k /\ (\A d \in Slots \ {cur} : case'[d] = case[d]) /\ SlotsTyped(case')
  BY <1>1, <1>2 DEF SlotsTyped
<1>4. Live' = Live
  BY <1>1, <1>2, <1>3 DEF Visits, Live
<1>5. PrimaryIsSuspect' /\ CasesAreCapped' /\ SceneClockRuns'
  BY <1>1, <1>2, <1>3, <1>4 DEF Visits, IInv, PrimaryIsSuspect, CasesAreCapped,
     SceneClockRuns, ClockRuns, Live
<1>6. EveryClosureHasItsCase'
  <2>0. active' = active
    BY <1>1
  <2>1. \A d \in active :
            /\ case'[d].place = case[d].place
            /\ case[d].closed => case'[d].closed
    BY <1>2, <1>3 DEF Visits
  <2> SUFFICES ASSUME NEW x \in roads'
               PROVE  \E d \in active' : case'[d].closed /\ case'[d].place = x
    BY DEF EveryClosureHasItsCase
  <2>2. CASE x \in roads
    <3>1. PICK d \in active : case[d].closed /\ case[d].place = x
      BY <2>2 DEF IInv, EveryClosureHasItsCase
    <3> QED  BY <2>0, <2>1, <3>1
  <2>3. CASE x = case[cur].place /\ k.closed
    <3>1. case'[cur].closed /\ case'[cur].place = x /\ cur \in active
      BY <1>1, <1>3, <2>1, <2>3
    <3> QED  BY <2>0, <3>1
  <2> QED  BY <2>2, <2>3 DEF Visits
<1>7. roads' \subseteq Places /\ due' \subseteq Task
  <2>1. case[cur].place \in Places
    BY <1>2 DEF CrimeEvent
  <2> QED  BY <2>1 DEF Visits, IInv, TypeOK
<1>8. TypeOK'
  BY <1>1, <1>3, <1>7 DEF Visits, engine, IInv, TypeOK, SlotsTyped
<1> QED
  BY <1>1, <1>4, <1>5, <1>6, <1>8 DEF Visits, engine, IInv, TickIsWhole, LoadEndsEveryCase

(* What a car that joins a case changes is no more than whether it has one.    *)
LEMMA JoinedTyped ==
    ASSUME NEW k \in CrimeEvent, NEW car \in BOOLEAN
    PROVE  /\ Joined(k, car) \in CrimeEvent /\ Joined(k, car).tasks = k.tasks
           /\ Joined(k, car).place = k.place /\ Joined(k, car).criminals = k.criminals
           /\ Joined(k, car).criminal = k.criminal /\ Joined(k, car).cancelled = k.cancelled
           /\ Joined(k, car).closed = k.closed
           /\ ClockRuns(k) => ClockRuns(Joined(k, car))
  BY DEF Joined, CrimeEvent, ClockRuns

(* The first unit of any spawn chain is a task.                                *)
LEMMA FirstUnitTyped ==
    ASSUME NEW n \in 0..MAX_REINFORCEMENTS
    PROVE  FirstUnit(n) \in Task
<1>1. 0 \in 0..(MaxUnits - 1)
  BY CapsAssumption
<1> QED  BY <1>1 DEF FirstUnit, Task

(* A task adds tasks to its case and may set its clocks.                       *)
LEMMA TaskKeeps ==
    ASSUME IInv, NearbyTask \/ SpawnTask \/ UnitTask
    PROVE  IInv'
<1> DEFINE k == case[cur]
<1>1. /\ pc = "tasks" /\ UNCHANGED <<pc, todo, cur, roads>>
      /\ k \in CrimeEvent /\ due \subseteq Task
  <2>1. pc = "tasks" /\ UNCHANGED <<pc, todo, cur, roads>>
    BY DEF NearbyTask, SpawnTask, UnitTask
  <2> QED  BY <2>1 DEF IInv, TickIsWhole, TypeOK
<1>2. CASE NearbyTask
  <2>1. PICK car \in BOOLEAN : Step(Joined(k, car)) /\ due' \subseteq due
    BY <1>2 DEF NearbyTask
  <2>2. Visits(Joined(k, car))
    BY <1>1, <2>1, JoinedTyped DEF Visits
  <2> QED  BY <1>1, <2>2, JoinedTyped, VisitKeeps
<1>3. CASE SpawnTask
  <2>1. PICK t \in due, car, mobilized \in BOOLEAN :
          /\ t.kind = "spawn" /\ due' \subseteq due
          /\ Step(IF mobilized THEN Joined(k, car)
                  ELSE [k EXCEPT !.tasks = @ \cup {FirstUnit(t.of)}])
    BY <1>3 DEF SpawnTask
  <2>2. CASE mobilized
    <3>1. Visits(Joined(k, car))
      BY <1>1, <2>1, <2>2, JoinedTyped DEF Visits
    <3> QED  BY <1>1, <3>1, JoinedTyped, VisitKeeps
  <2>3. CASE ~mobilized
    <3> DEFINE n == [k EXCEPT !.tasks = @ \cup {FirstUnit(t.of)}]
    <3>1. t \in Task
      BY <1>1, <2>1
    <3>2. t.of \in 0..MAX_REINFORCEMENTS
      BY <2>1, <3>1, CapsAssumption DEF Task
    <3>3. n \in CrimeEvent
      BY <1>1, <3>2, FirstUnitTyped DEF CrimeEvent
    <3>4. Visits(n)
      BY <1>1, <2>1, <2>3 DEF Visits, CrimeEvent, ClockRuns
    <3> HIDE DEF n
    <3> QED  BY <3>3, <3>4, VisitKeeps
  <2> QED  BY <2>2, <2>3
<1>4. CASE UnitTask
  <2> DEFINE next(t, last) == IF last \/ t.unit + 1 = MaxUnits THEN {}
                              ELSE {[t EXCEPT !.unit = @ + 1]}
             n(t, arrives, last) ==
                 [Joined(k, arrives /\ t.unit # 0) EXCEPT
                  !.tasks = @ \cup next(t, last),
                  !.vehicles = @ /\ ~(arrives /\ t.unit = 0),
                  !.spawnPending = @ /\ ~(arrives /\ t.unit = 0),
                  !.onScene = IF arrives /\ t.unit = 0 THEN 0 ELSE @,
                  !.timer = IF arrives /\ t.unit = 0 THEN Never ELSE @]
  <2>1. PICK t \in due, arrives, last \in BOOLEAN :
          /\ t.kind = "unit"
          /\ due' = due \ {t}
          /\ Step(n(t, arrives, last))
    BY <1>4, Zenon DEF UnitTask
  <2>2. next(t, last) \subseteq Task
    <3>1. t \in [kind : {"unit"}, of : 0..MAX_REINFORCEMENTS, unit : 0..(MaxUnits - 1), in : {0}]
      BY <1>1, <2>1 DEF Task
    <3>2. t.unit + 1 # MaxUnits => t.unit + 1 \in 0..(MaxUnits - 1)
      BY <3>1, CapsAssumption
    <3> QED  BY <3>1, <3>2 DEF Task
  <2> DEFINE j == Joined(k, arrives /\ t.unit # 0)
             first == arrives /\ t.unit = 0
             new == next(t, last)
             m == [j EXCEPT !.tasks = @ \cup new, !.vehicles = @ /\ ~first,
                            !.spawnPending = @ /\ ~first,
                            !.onScene = IF first THEN 0 ELSE @,
                            !.timer = IF first THEN Never ELSE @]
  <2>3. /\ j \in CrimeEvent /\ j.place = k.place /\ j.criminals = k.criminals
        /\ j.criminal = k.criminal /\ j.cancelled = k.cancelled /\ j.closed = k.closed
        /\ ClockRuns(k) => ClockRuns(j)
    <3>1. (arrives /\ t.unit # 0) \in BOOLEAN
      OBVIOUS
    <3> QED  BY <1>1, <3>1, JoinedTyped
  <2>4. Step(m)
    BY <2>1, Zenon
  <2>4a. first \in BOOLEAN
    OBVIOUS
  <2> HIDE DEF j, first, new
  <2>5. new \subseteq Task
    BY <2>2 DEF new
  <2>6. /\ m \in CrimeEvent /\ m.place = j.place /\ m.criminals = j.criminals
        /\ m.criminal = j.criminal /\ m.cancelled = j.cancelled /\ m.closed = j.closed
        /\ ClockRuns(j) => ClockRuns(m)
    <3> DEFINE tasks == j.tasks \cup new
               vehicles == j.vehicles /\ ~first
               pending == j.spawnPending /\ ~first
               scene == IF first THEN 0 ELSE j.onScene
               timer == IF first THEN Never ELSE j.timer
    <3>1. tasks \subseteq Task /\ vehicles \in BOOLEAN /\ pending \in BOOLEAN
      BY <2>3, <2>4a, <2>5 DEF CrimeEvent
    <3>2. scene \in Age /\ timer \in Age
      BY <2>3, <2>4a, TimesAssumption DEF CrimeEvent, Age, Never
    <3>3. m = [j EXCEPT !.tasks = tasks, !.vehicles = vehicles, !.spawnPending = pending,
                        !.onScene = scene, !.timer = timer]
      BY Zenon
    <3>4. (pending = j.spawnPending /\ scene = j.onScene) \/ scene # Never
      BY <2>3, <2>4a DEF CrimeEvent, Never
    <3> HIDE DEF m, tasks, vehicles, pending, scene, timer
    <3> QED  BY <2>3, <3>1, <3>2, <3>3, <3>4 DEF CrimeEvent, ClockRuns
  <2> HIDE DEF m
  <2>7. Visits(m)
    BY <1>1, <2>1, <2>3, <2>4, <2>6 DEF Visits
  <2> QED  BY <2>6, <2>7, VisitKeeps
<1> QED  BY <1>2, <1>3, <1>4

(* A step of the state machine keeps what a visit must keep. IDLE is the only one
   that closes roads, for a cordon its case then holds.                        *)
LEMMA IdleKeeps ==
    ASSUME IInv, Idle
    PROVE  IInv'
<1> DEFINE k == [case[cur] EXCEPT !.closed = TRUE]
           onScene == [k EXCEPT !.state = "ON_SCENE", !.onScene = 0]
           timing == [k EXCEPT !.state = "TIMING", !.timer = 0]
<1>1. /\ pc = "state" /\ pc' = "case" /\ cur' = NoCase /\ UNCHANGED <<todo, due>>
      /\ Step(onScene) \/ Step(timing)
      /\ roads' = roads \cup {case[cur].place}
  BY DEF Idle, InState
<1>2. case[cur] \in CrimeEvent
  BY <1>1 DEF IInv, TickIsWhole, TypeOK
<1>3. 0 \in Age
  BY TimesAssumption DEF Age
<1>4. \A n \in {onScene, timing} :
        /\ n \in CrimeEvent /\ n.place = case[cur].place
        /\ n.criminals = case[cur].criminals /\ n.criminal = case[cur].criminal
        /\ n.cancelled = case[cur].cancelled /\ n.closed = TRUE /\ ClockRuns(n)
  <2> DEFINE Whole(n) ==
        /\ n \in CrimeEvent /\ n.place = case[cur].place
        /\ n.criminals = case[cur].criminals /\ n.criminal = case[cur].criminal
        /\ n.cancelled = case[cur].cancelled /\ n.closed = TRUE /\ ClockRuns(n)
  <2>0. ClockRuns(onScene)
    BY <1>2 DEF CrimeEvent, ClockRuns, Never
  <2>1. Whole(onScene)
    BY <1>2, <1>3, <2>0 DEF CrimeEvent, DispatchState
  <2>2. Whole(timing)
    BY <1>2, <1>3 DEF CrimeEvent, DispatchState, ClockRuns, Never
  <2> HIDE DEF onScene, timing
  <2> QED  BY <2>1, <2>2
<1> HIDE DEF onScene, timing
<1>5. PICK n \in {onScene, timing} : Visits(n)
  BY <1>1, <1>4 DEF Visits
<1> QED  BY <1>4, <1>5, VisitKeeps

(* TIMING waits, or moves its case on with a fresh clock.                      *)
LEMMA TimingKeeps ==
    ASSUME IInv, \/ TooFar("TIMING") \/ TooFar("ON_SCENE") \/ TimingSeen
                 \/ TimingMobilizes \/ TimingWaits \/ TimingSpawns
    PROVE  IInv'
<1> DEFINE k == case[cur]
           cleanup == [k EXCEPT !.state = "CLEANUP"]
           onScene == [k EXCEPT !.state = "ON_SCENE", !.onScene = 0, !.timer = Never]
           spawning == [k EXCEPT !.state = "ON_SCENE", !.spawnPending = TRUE, !.timer = 0,
                                 !.onScene = Never, !.tasks = @ \cup {FirstUnit(0)}]
<1>1. /\ pc = "state" /\ pc' = "case" /\ cur' = NoCase /\ UNCHANGED <<todo, due, roads>>
      /\ Step(cleanup) \/ Step(onScene) \/ Step(k) \/ Step(spawning)
  BY DEF TooFar, TimingSeen, TimingMobilizes, TimingWaits, TimingSpawns, InState
<1>2. k \in CrimeEvent
  BY <1>1 DEF IInv, TickIsWhole, TypeOK
<1>3. 0 \in Age /\ Never \in Age /\ FirstUnit(0) \in Task
  BY TimesAssumption, CapsAssumption, FirstUnitTyped DEF Age
<1>4. \A n \in {cleanup, onScene, k, spawning} :
        /\ n \in CrimeEvent /\ n.place = k.place /\ n.criminals = k.criminals
        /\ n.criminal = k.criminal /\ n.cancelled = k.cancelled /\ n.closed = k.closed
        /\ ClockRuns(k) => ClockRuns(n)
  <2> DEFINE Whole(n) ==
        /\ n \in CrimeEvent /\ n.place = k.place /\ n.criminals = k.criminals
        /\ n.criminal = k.criminal /\ n.cancelled = k.cancelled /\ n.closed = k.closed
        /\ ClockRuns(k) => ClockRuns(n)
  <2>1. Whole(cleanup)
    BY <1>2, <1>3 DEF CrimeEvent, DispatchState, ClockRuns, Never
  <2>0. ClockRuns(onScene)
    BY <1>2 DEF CrimeEvent, ClockRuns, Never
  <2>2. Whole(onScene)
    BY <1>2, <1>3, <2>0 DEF CrimeEvent, DispatchState
  <2>3. Whole(spawning)
    BY <1>2, <1>3 DEF CrimeEvent, DispatchState, ClockRuns, Never
  <2>4. Whole(k)
    BY <1>2
  <2> HIDE DEF cleanup, onScene, spawning, k
  <2> QED  BY <2>1, <2>2, <2>3, <2>4
<1> HIDE DEF cleanup, onScene, spawning
<1>5. PICK n \in {cleanup, onScene, k, spawning} : Visits(n)
  BY <1>1, <1>4 DEF Visits
<1> QED  BY <1>4, <1>5, VisitKeeps

(* Reinforcements stay within their cap.                                       *)
LEMMA ReinforcedTyped ==
    ASSUME NEW k \in CrimeEvent
    PROVE  /\ Reinforced(k) \in CrimeEvent
           /\ Reinforced(k).place = k.place /\ Reinforced(k).criminals = k.criminals
           /\ Reinforced(k).criminal = k.criminal /\ Reinforced(k).cancelled = k.cancelled
           /\ Reinforced(k).closed = k.closed
           /\ ClockRuns(k) => ClockRuns(Reinforced(k))
<1> DEFINE n == IF k.newDeaths < MAX_REINFORCEMENTS - k.reinforcements THEN k.newDeaths
                ELSE MAX_REINFORCEMENTS - k.reinforcements
           calls == {[kind |-> q, of |-> r, unit |-> 0, in |-> ReinforceDelay] :
                        q \in {"nearby", "spawn"},
                        r \in (k.reinforcements + 1)..(k.reinforcements + n)}
<1>1. k.newDeaths \in Nat /\ k.reinforcements \in 0..MAX_REINFORCEMENTS
  BY CapsAssumption DEF CrimeEvent
<1>2. n \in Nat /\ k.reinforcements + n \in 0..MAX_REINFORCEMENTS
  BY <1>1, CapsAssumption
<1>3. calls \subseteq Task
  <2>1. \A r \in (k.reinforcements + 1)..(k.reinforcements + n) : r \in 1..MAX_REINFORCEMENTS
    BY <1>1, <1>2, CapsAssumption
  <2>2. ReinforceDelay \in 0..ReinforceDelay
    BY TimesAssumption
  <2> QED  BY <2>1, <2>2 DEF Task
<1>4. Reinforced(k) = [k EXCEPT !.newDeaths = 0, !.reinforcements = @ + n, !.tasks = @ \cup calls]
  BY DEF Reinforced
<1>5. 0 \in 0..MaxNewDeaths
  BY CapsAssumption
<1> HIDE DEF n, calls
<1> QED  BY <1>2, <1>3, <1>4, <1>5 DEF CrimeEvent, ClockRuns

(* ON_SCENE counts its dead and times out.                                     *)
LEMMA SceneKeeps ==
    ASSUME IInv, Scene
    PROVE  IInv'
<1>1. PICK others \in BOOLEAN :
        LET k == [Reinforced(case[cur]) EXCEPT !.vehicles = others /\ case[cur].spawnPending]
        IN Step([k EXCEPT !.state = IF TimedOut(k) THEN "CLEANUP" ELSE @])
  BY DEF Scene
<1>2. /\ pc = "state" /\ pc' = "case" /\ cur' = NoCase /\ UNCHANGED <<todo, due, roads>>
  BY DEF Scene, InState
<1>3. case[cur] \in CrimeEvent
  BY <1>2 DEF IInv, TickIsWhole, TypeOK
<1> DEFINE r == Reinforced(case[cur])
           cars == others /\ case[cur].spawnPending
           k == [r EXCEPT !.vehicles = cars]
           s == IF TimedOut(k) THEN "CLEANUP" ELSE k.state
           n == [k EXCEPT !.state = s]
<1>4. Step(n)
  BY <1>1, Zenon
<1>5. /\ r \in CrimeEvent /\ r.place = case[cur].place /\ r.criminals = case[cur].criminals
      /\ r.criminal = case[cur].criminal /\ r.cancelled = case[cur].cancelled
      /\ r.closed = case[cur].closed
      /\ ClockRuns(case[cur]) => ClockRuns(r)
  BY <1>3, ReinforcedTyped
<1>6. cars \in BOOLEAN
  OBVIOUS
<1> HIDE DEF r, cars
<1>7. /\ k \in CrimeEvent /\ k.place = r.place /\ k.criminals = r.criminals
      /\ k.criminal = r.criminal /\ k.cancelled = r.cancelled /\ k.closed = r.closed
      /\ ClockRuns(r) => ClockRuns(k)
  BY <1>5, <1>6 DEF CrimeEvent, ClockRuns
<1> HIDE DEF k
<1>8. s \in DispatchState /\ (s = k.state \/ s = "CLEANUP")
  BY <1>7 DEF CrimeEvent, DispatchState
<1> HIDE DEF s
<1>9. /\ n \in CrimeEvent /\ n.place = k.place /\ n.criminals = k.criminals
      /\ n.criminal = k.criminal /\ n.cancelled = k.cancelled /\ n.closed = k.closed
      /\ ClockRuns(k) => ClockRuns(n)
  BY <1>7, <1>8 DEF CrimeEvent, ClockRuns
<1> HIDE DEF n
<1>10. Visits(n)
  BY <1>2, <1>4, <1>5, <1>7, <1>9 DEF Visits
<1> QED  BY <1>9, <1>10, VisitKeeps

(* The collection erases the cases that ended and lifts their cordons.         *)
LEMMA CollectKeeps ==
    ASSUME IInv, Collect
    PROVE  IInv'
<1>1. /\ pc = "case" /\ pc' = "rest" /\ todo = {} /\ ~loading
      /\ active' = active \ Ended /\ Ended \subseteq active
      /\ case' = [c \in Slots |-> IF c \in Ended THEN Vacant ELSE case[c]]
      /\ roads' = Lifted(Ended) /\ tracked' \in {NoPed, tracked} /\ wanted' \subseteq wanted
      /\ UNCHANGED <<engine, todo, cur, due, prevLoading, crim>>
  BY DEF Collect, Ended, IInv, TickIsWhole
<1>2. /\ case \in [Slots -> CrimeEvent] /\ active \subseteq Slots /\ Vacant \in CrimeEvent
      /\ roads \subseteq Places
  BY VacantTyped DEF IInv, TypeOK
<1>3. SlotsTyped(case') /\ (\A c \in active' : case'[c] = case[c]) /\ roads' \subseteq roads
  BY <1>1, <1>2 DEF SlotsTyped, Lifted
<1>4. \A c \in active \ active' : case[c].closed => case[c].place \notin roads'
  BY <1>1 DEF Lifted
<1>5. Safe'
  <2>1. \A d \in active : ~case[d].cancelled =>
            case[d].criminal \in case[d].criminals /\ ClockRuns(case[d])
    BY DEF IInv, PrimaryIsSuspect, SceneClockRuns, ClockRuns, Live
  <2> QED  BY <1>1, <1>3, <1>4, <2>1, KeptSafe DEF IInv, Safe
<1>6. TypeOK'
  BY <1>1, <1>2, <1>3 DEF engine, IInv, TypeOK, SlotsTyped
<1> QED
  BY <1>1, <1>5, <1>6 DEF engine, IInv, TickIsWhole, Safe, LoadEndsEveryCase

-----------------------------------------------------------------------------
(* The theorems.                                                               *)

(* Every step of the hooks, the engine, the frame and the tick keeps the
   inductive invariant.                                                        *)
THEOREM StepIInv == IInv /\ [Next]_vars => IInv'
<1> SUFFICES ASSUME IInv, [Next]_vars PROVE IInv'
  OBVIOUS
<1>1. CASE Hooks
  BY <1>1, ReportCrimeKeeps, SwitchWeaponKeeps, RegisterKillKeeps, CopDiesKeeps, EngineKeeps
     DEF Hooks
<1>2. CASE BeginFrame \/ EndScripts(FALSE) \/ EndScripts(TRUE)
  <2>1. CASE BeginFrame
    BY <2>1, PollKeeps DEF BeginFrame
  <2>2. ASSUME NEW late \in BOOLEAN, EndScripts(late) PROVE IInv'
    BY <2>2, PollKeeps DEF EndScripts
  <2> QED  BY <1>2, <2>1, <2>2
<1>3. CASE Tick
  <2>1. CASE TasksDone
    <3>1. /\ UNCHANGED <<engine, todo, cur, due, prevLoading, store>>
          /\ pc = "tasks" /\ pc' = "state"
      BY <2>1 DEF TasksDone
    <3>2. Live' = Live
      BY <3>1 DEF store, Live
    <3>3. TypeOK' /\ TickIsWhole'
      BY <3>1, <3>2 DEF engine, store, IInv, TypeOK, TickIsWhole
    <3> QED
      BY <3>1, <3>2, <3>3 DEF engine, store, IInv, PrimaryIsSuspect, CasesAreCapped,
         SceneClockRuns, EveryClosureHasItsCase, LoadEndsEveryCase
  <2> QED
    BY <1>3, <2>1, HuntKeeps, CoolDownKeeps, BeginCaseKeeps, TaskKeeps, IdleKeeps, TimingKeeps,
       SceneKeeps, CollectKeeps DEF Tick
<1>4. CASE UNCHANGED vars
  <2>1. Live' = Live
    BY <1>4 DEF vars, store, Live
  <2>2. TypeOK' /\ TickIsWhole'
    BY <1>4, <2>1 DEF vars, engine, frame, store, IInv, TypeOK, TickIsWhole
  <2> QED
    BY <1>4, <2>1, <2>2 DEF vars, engine, frame, store, IInv, PrimaryIsSuspect,
       CasesAreCapped, SceneClockRuns, EveryClosureHasItsCase, LoadEndsEveryCase
<1> QED  BY <1>1, <1>2, <1>3, <1>4 DEF Next

(* The inductive invariant holds in every reachable state.                     *)
THEOREM AlwaysIInv == Spec => []IInv
  BY InitIInv, StepIInv, PTL DEF Spec

(* Every variable keeps its type, for any peds, places, caps and timeouts.     *)
THEOREM TypeCorrect == Spec => []TypeOK
<1>1. IInv => TypeOK
  BY DEF IInv
<1> QED  BY <1>1, AlwaysIInv, PTL

(* However cases are merged, handed over, left by the dead and the despawned, a
   live case pursues one of its own suspects (dispatch_logic, dispatch_hooks).  *)
THEOREM PrimaryIsAlwaysSuspect == Spec => []PrimaryIsSuspect
<1>1. IInv => PrimaryIsSuspect
  BY DEF IInv
<1> QED  BY <1>1, AlwaysIInv, PTL

(* Admission and eviction keep any number of crimes under any cap.             *)
THEOREM CasesAreAlwaysCapped == Spec => []CasesAreCapped
<1>1. IInv => CasesAreCapped
  BY DEF IInv
<1> QED  BY <1>1, AlwaysIInv, PTL

(* A case on scene that awaits no car is on the clock, so its timeout will come
   (dispatch_timing), whatever its reinforcements and tasks do meanwhile.      *)
THEOREM SceneClockAlwaysRuns == Spec => []SceneClockRuns
<1>1. IInv => SceneClockRuns
  BY DEF IInv
<1> QED  BY <1>1, AlwaysIInv, PTL

(* No road stays closed without an open case that holds it, whichever of the six
   ways a case ends.                                                           *)
THEOREM ClosuresAlwaysHaveCases == Spec => []EveryClosureHasItsCase
<1>1. IInv => EveryClosureHasItsCase
  BY DEF IInv
<1> QED  BY <1>1, AlwaysIInv, PTL

(* A load that a frame has seen leaves no case and no fugitive, and none is opened
   while it lasts.                                                             *)
THEOREM LoadsAlwaysEndCases == Spec => []LoadEndsEveryCase
<1>1. IInv => LoadEndsEveryCase
  BY DEF IInv
<1> QED  BY <1>1, AlwaysIInv, PTL

(* Only the hunt itself, or the end of the last case, takes a living driver off
   the hit-and-run list (tick_pending_wanted, the fallback of the tick).       *)
THEOREM FugitivesAreKept == Spec => FugitiveIsKept
<1>1. ASSUME [Next]_vars, NEW p \in wanted, p \notin wanted', ped[p] = "alive"
      PROVE  pc = "hunt" \/ active' = {}
  <2>1. CASE UNCHANGED wanted
    BY <1>1, <2>1
  <2>2. CASE CopDies
    BY <1>1, <2>2 DEF CopDies, RegisterPending
  <2>3. CASE BeginFrame \/ EndScripts(FALSE) \/ EndScripts(TRUE)
    BY <1>1, <2>3 DEF BeginFrame, EndScripts, Poll, Purge
  <2>4. CASE Hunt
    BY <2>4 DEF Hunt
  <2>5. CASE Collect
    BY <1>1, <2>5 DEF Collect, NoneLeft
  <2>6. \/ UNCHANGED wanted \/ CopDies \/ Hunt \/ Collect
        \/ BeginFrame \/ EndScripts(FALSE) \/ EndScripts(TRUE)
    <3>1. CASE Hooks
      BY <3>1 DEF Hooks, ReportCrime, SwitchWeapon, RegisterKill, Despawn, PlayerMoves,
         BeginLoad, EndLoad, store
    <3>2. CASE Tick
      BY <3>2 DEF Tick, CoolDown, BeginCase, NearbyTask, SpawnTask, UnitTask, TasksDone, Idle,
         TooFar, TimingSeen, TimingMobilizes, TimingWaits, TimingSpawns, Scene, Step, store
    <3>3. CASE UNCHANGED vars
      BY <3>3 DEF vars, store
    <3> QED  BY <1>1, <3>1, <3>2, <3>3 DEF Next
  <2> QED  BY <2>1, <2>2, <2>3, <2>4, <2>5, <2>6
<1>2. [Next]_vars => [\A p \in wanted : p \notin wanted' /\ ped[p] = "alive" =>
                         pc = "hunt" \/ active' = {}]_vars
  BY <1>1
<1> QED  BY <1>2, PTL DEF Spec, FugitiveIsKept

=============================================================================
