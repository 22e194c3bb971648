--------------------------- MODULE PoliceSpawn_proofs ---------------------------
(* Theorems of PoliceSpawn, for any cases, plans, delays, gaps and places.     *)
EXTENDS PoliceSpawn, Staging_proofs

(* A case waits for a chain that is not released, or is just being released.  *)
Awaits(k) == k \in releasing \/ (Scheduled(k) /\ ~chain[k].released)
Served == \A c \in Cases : cases[c].pending => \E k \in ChainId : k[1] = c /\ Awaits(k)

(* What the inductive invariant says of chains and top-ups.                   *)
Whole ==
    /\ \A t \in Work : t.what = "TopUp" => t.chain[2] = 0
    /\ \A k, l \in releasing : k = l
    /\ \A k \in ChainId : ChainIsWhole(k)
    /\ \A c \in Cases : TopUpsAreCounted(c)

(* The parts make up the inductive invariant.                                 *)
LEMMA Parts ==
    ASSUME TypeOK', WorkIsUnique', Whole', Served', CordonsMatchHolds', NoStaleVehicle'
    PROVE  IInv'
<1>1. ASSUME NEW c \in Cases, cases'[c].pending
      PROVE  (\E k \in ChainId :
            /\ k[1] = c
            /\ \/ k \in releasing
               \/ /\ Scheduled(k) /\ ~chain[k].released
                  /\ \E t \in Tasks : t.chain = k /\ t.what \in {"BeginChain", "SpawnUnit"})'
  <2>1. PICK k \in ChainId : k[1] = c /\ Awaits(k)'
    BY <1>1 DEF Served
  <2>2. (Scheduled(k) /\ ~chain[k].released => Steps(k) # {})'
    BY DEF Whole, ChainIsWhole
  <2> QED  BY <2>1, <2>2 DEF Awaits, Steps, Work
<1> QED  BY <1>1 DEF IInv, Whole, PendingIsServed

(* And follow from it.                                                        *)
LEMMA Uses == IInv => TypeOK /\ WorkIsUnique /\ Whole /\ Served /\ CordonsMatchHolds /\ NoStaleVehicle
  BY DEF IInv, Whole, Served, Awaits, PendingIsServed

-----------------------------------------------------------------------------
(* The work to be done.                                                       *)

(* Work is what it was if tasks only come due.                                *)
LEMMA SameWork ==
    ASSUME agenda' = agenda, due' = due, WorkIsUnique
    PROVE  Work' = Work /\ WorkIsUnique'
  BY DEF Work, Tasks, WorkIsUnique

(* Handling a task takes it off; timeouts may come with it.                   *)
LEMMA Handled ==
    ASSUME TypeOK, WorkIsUnique, NEW t \in due, due' = due \ {t},
           NEW late \in SUBSET Timer, \A n \in late : n.task.what = "BatchReleaseTimeout",
           agenda' = agenda \cup late
    PROVE  /\ Work' = Work \ {t} /\ WorkIsUnique'
           /\ agenda' \subseteq Timer /\ due' \subseteq Task
<1>1. agenda' \subseteq Timer /\ due' \subseteq Task
  BY DEF TypeOK
<1>2. \A u \in Work : u \in due <=> ~ \E a \in agenda : a.task = u
  BY DEF Work, Tasks, WorkIsUnique
<1>3. Work' = Work \ {t}
  <2>1. \A u \in Work' : u \in Work \ {t}
    BY <1>2 DEF Work, Tasks
  <2>2. \A u \in Work \ {t} : u \in Work'
    BY DEF Work, Tasks
  <2> QED  BY <2>1, <2>2
<1>4. WorkIsUnique'
  <2> SUFFICES ASSUME NEW a \in agenda', a.task \in Work'
               PROVE  a.task \notin due' /\ \A u \in agenda' : u.task = a.task => u = a
    BY DEF WorkIsUnique
  <2>1. a.task.what # "BatchReleaseTimeout" /\ a.task \in Work
    BY <1>3 DEF Work
  <2>2. a \in agenda
    BY <2>1
  <2> QED  BY <2>1, <2>2 DEF WorkIsUnique
<1> QED  BY <1>1, <1>3, <1>4

(* Or one other task comes with it.                                           *)
LEMMA HandledOn ==
    ASSUME TypeOK, WorkIsUnique, NEW t \in due, due' = due \ {t},
           NEW late \in SUBSET Timer, \A n \in late : n.task.what = "BatchReleaseTimeout",
           NEW b \in Timer, b.task.what # "BatchReleaseTimeout", b.task \notin Work,
           agenda' = (agenda \cup late) \cup {b}
    PROVE  /\ Work' = (Work \ {t}) \cup {b.task} /\ WorkIsUnique'
           /\ agenda' \subseteq Timer /\ due' \subseteq Task
<1>1. agenda' \subseteq Timer /\ due' \subseteq Task
  BY DEF TypeOK
<1>2. \A u \in Work : u \in due <=> ~ \E a \in agenda : a.task = u
  BY DEF Work, Tasks, WorkIsUnique
<1>3. Work' = (Work \ {t}) \cup {b.task}
  <2>1. \A u \in Work' : u \in (Work \ {t}) \cup {b.task}
    BY <1>2 DEF Work, Tasks
  <2>2. \A u \in (Work \ {t}) \cup {b.task} : u \in Work'
    BY DEF Work, Tasks
  <2> QED  BY <2>1, <2>2
<1>4. WorkIsUnique'
  <2> SUFFICES ASSUME NEW a \in agenda', a.task \in Work'
               PROVE  a.task \notin due' /\ \A u \in agenda' : u.task = a.task => u = a
    BY DEF WorkIsUnique
  <2>1. a.task.what # "BatchReleaseTimeout" /\ (a.task \in Work \/ a.task = b.task)
    BY <1>3 DEF Work
  <2>2. CASE a \in agenda
    <3>1. a.task \in Work /\ a.task # b.task
      BY <2>1, <2>2 DEF Work, Tasks
    <3> QED  BY <2>1, <2>2, <3>1 DEF WorkIsUnique
  <2>3. CASE a = b
    <3>1. b.task \notin due /\ \A u \in agenda : u.task # b.task
      BY DEF Work, Tasks
    <3> QED  BY <2>1, <2>3, <3>1
  <2> QED  BY <2>1, <2>2, <2>3
<1> QED  BY <1>1, <1>3, <1>4

(* A task comes on.                                                           *)
LEMMA Added ==
    ASSUME TypeOK, WorkIsUnique, due' = due, NEW a \in Timer, agenda' = agenda \cup {a},
           a.task.what # "BatchReleaseTimeout", a.task \notin Work
    PROVE  Work' = Work \cup {a.task} /\ WorkIsUnique' /\ agenda' \subseteq Timer
<1>1. Work' = Work \cup {a.task}
  BY DEF Work, Tasks
<1>2. a.task \notin due /\ \A u \in agenda : u.task # a.task
  BY DEF Work, Tasks
<1>3. WorkIsUnique'
  BY <1>1, <1>2 DEF WorkIsUnique
<1> QED  BY <1>1, <1>3 DEF TypeOK

(* A timer for a task.                                                        *)
LEMMA TimerType ==
    ASSUME NEW k \in ChainId, NEW w \in TaskKind, NEW i \in Nat, NEW l \in Nat
    PROVE  /\ In(k, w, i, l) \in Timer
           /\ In(k, w, i, l).task = ATask(k, w, i) /\ ATask(k, w, i) \in Task
           /\ ATask(k, w, i).chain = k /\ ATask(k, w, i).what = w /\ ATask(k, w, i).index = i
  BY DEF In, ATask, Timer, Task

(* A chain nothing touches stays whole.                                       *)
LEMMA ChainKept ==
    ASSUME NEW k \in ChainId, ChainIsWhole(k), Steps(k)' = Steps(k),
           chain'[k] = chain[k], unit'[k] = unit[k],
           (k[2] < cases'[k[1]].chains) <=> (k[2] < cases[k[1]].chains)
    PROVE  ChainIsWhole(k)'
  BY DEF ChainIsWhole, Scheduled

(* Top-ups nothing touches stay counted.                                      *)
LEMMA TopUpsKept ==
    ASSUME NEW c \in Cases, TopUpsAreCounted(c), TopUps(c)' = TopUps(c), TypeOK,
           cases'[c].topUps = cases[c].topUps, cases'[c].chains = cases[c].chains,
           cases[c].state = "OnScene" => cases'[c].state = "OnScene"
    PROVE  TopUpsAreCounted(c)'
<1>1. IsFiniteSet(TopUps(c)) /\ Cardinality(TopUps(c)) \in Nat
  <2>1. cases[c].topUps \in Nat /\ TopUps(c) \subseteq 1..cases[c].topUps
    BY DEF TypeOK, Case, TopUpsAreCounted
  <2>2. IsFiniteSet(1..cases[c].topUps)
    BY <2>1, FS_Interval
  <2>3. IsFiniteSet(TopUps(c))
    BY <2>1, <2>2, FS_Subset
  <2> QED  BY <2>3, FS_CardinalityType
<1>2. cases[c].chains \in Nat /\ cases[c].topUps \in Nat
  BY DEF TypeOK, Case
<1> QED  BY <1>1, <1>2 DEF TopUpsAreCounted

(* Steps that leave the work, the chains and the units alone.                 *)
LEMMA WholeKept ==
    ASSUME TypeOK, Whole, Work' = Work, chain' = chain, unit' = unit, releasing' = releasing,
           \A c \in Cases :
              /\ cases'[c].topUps = cases[c].topUps /\ cases'[c].chains = cases[c].chains
              /\ cases[c].state = "OnScene" => cases'[c].state = "OnScene"
    PROVE  Whole'
<1>1. \A k \in ChainId : k[1] \in Cases
  BY DEF ChainId
<1>2. \A k \in ChainId : ChainIsWhole(k)'
  BY <1>1, ChainKept DEF Whole, Steps
<1>3. \A c \in Cases : TopUpsAreCounted(c)'
  BY TopUpsKept DEF Whole, TopUps
<1> QED  BY <1>2, <1>3 DEF Whole

(* Cases stay served by the chains they wait for.                             *)
LEMMA ServedKept ==
    ASSUME Served, chain' = chain, releasing' = releasing,
           \A c \in Cases : cases'[c].pending => cases[c].pending
    PROVE  Served'
  BY DEF Served, Awaits, Scheduled

(* Cordons stay as they are.                                                  *)
LEMMA CordonsKept ==
    ASSUME CordonsMatchHolds, unit' = unit, center' = center, closures' = closures
    PROVE  CordonsMatchHolds'
  BY DEF CordonsMatchHolds

(* The parts of TypeOK a step may leave alone.                                *)
LEMMA FleetTypes ==
    ASSUME TypeOK, UNCHANGED fleetVars
    PROVE  /\ unit' \in [ChainId -> [Unit -> UnitState]] /\ center' \in [ChainId -> [Unit -> Place]]
           /\ registered' \subseteq Vehicle /\ force' \in [Cases -> SUBSET Vehicle]
           /\ ordered' \subseteq Vehicle /\ closures' \in Seq(Closure)
           /\ NoStaleVehicle => NoStaleVehicle'
           /\ CordonsMatchHolds => CordonsMatchHolds'
<1>1. CordonsMatchHolds => CordonsMatchHolds'
  BY CordonsKept DEF fleetVars
<1> QED  BY <1>1 DEF TypeOK, fleetVars, NoStaleVehicle

-----------------------------------------------------------------------------
(* The hooks.                                                                 *)

(* Reports end, clues come, suspects and vehicles go.                         *)
LEMMA HooksKeep ==
    ASSUME IInv, Hooks
    PROVE  IInv'
<1>1. /\ TypeOK /\ WorkIsUnique /\ Whole /\ Served /\ CordonsMatchHolds /\ NoStaleVehicle
  BY Uses
<1>2. ASSUME NEW c \in Cases, FinalizeReport(c) \/ PoliceClue(c) \/ CriminalGone(c)
      PROVE  IInv'
  <2>1. /\ UNCHANGED <<chain, fleetVars, frameVars>>
        /\ cases' \in [Cases -> Case]
        /\ \A d \in Cases : /\ cases'[d].state = cases[d].state
                            /\ cases'[d].topUps = cases[d].topUps
                            /\ cases'[d].chains = cases[d].chains
                            /\ cases'[d].pending = cases[d].pending
    <3>1. cases[c] \in Case /\ cases \in [Cases -> Case]
      BY <1>1 DEF TypeOK
    <3>2. CASE FinalizeReport(c)
      BY <3>1, <3>2 DEF FinalizeReport, Case
    <3>3. CASE PoliceClue(c)
      BY <3>1, <3>3 DEF PoliceClue, Case
    <3>4. CASE CriminalGone(c)
      <4>1. cases[c].criminals - 1 \in 0..MaxCriminals
        BY <3>1, <3>4, SpawnAssumption DEF CriminalGone, Case
      <4> QED  BY <3>1, <3>4, <4>1 DEF CriminalGone, Case
    <3> QED  BY <1>2, <3>2, <3>3, <3>4
  <2>2. TypeOK'
    BY <1>1, <2>1, FleetTypes DEF TypeOK, frameVars
  <2>3. Work' = Work /\ WorkIsUnique'
    BY <1>1, <2>1, SameWork DEF frameVars
  <2>4. Whole' /\ Served'
    BY <1>1, <2>1, <2>3, WholeKept, ServedKept DEF frameVars, fleetVars
  <2>5. CordonsMatchHolds' /\ NoStaleVehicle'
    BY <1>1, <2>1, FleetTypes
  <2> QED  BY <2>2, <2>3, <2>4, <2>5, Parts
<1>3. ASSUME NEW v \in registered, RemoveVehicle(v)
      PROVE  IInv'
  <2>1. /\ UNCHANGED <<cases, chain, unit, center, closures, frameVars>>
        /\ registered' \subseteq Vehicle /\ ordered' \subseteq Vehicle
        /\ force' \in [Cases -> SUBSET Vehicle]
        /\ NoStaleVehicle'
    BY <1>1, <1>3 DEF RemoveVehicle, TypeOK, NoStaleVehicle
  <2>2. TypeOK'
    BY <1>1, <2>1 DEF TypeOK, frameVars
  <2>3. Work' = Work /\ WorkIsUnique'
    BY <1>1, <2>1, SameWork DEF frameVars
  <2>4. Whole' /\ Served'
    BY <1>1, <2>1, <2>3, WholeKept, ServedKept DEF frameVars
  <2>5. CordonsMatchHolds'
    BY <1>1, <2>1, CordonsKept
  <2> QED  BY <2>1, <2>2, <2>3, <2>4, <2>5, Parts
<1> QED  BY <1>2, <1>3 DEF Hooks

-----------------------------------------------------------------------------
(* The frame begins.                                                          *)

(* Timers run, and what is due is handled once.                               *)
LEMMA BeginFrameKeeps ==
    ASSUME IInv, NEW gap \in Gaps, BeginFrame(gap)
    PROVE  IInv'
<1>1. /\ TypeOK /\ WorkIsUnique /\ Whole /\ Served /\ CordonsMatchHolds /\ NoStaleVehicle
  BY Uses
<1>2. gap \in Nat
  BY SpawnAssumption
<1>3. /\ UNCHANGED <<chain, fleetVars, releasing>> /\ todo' = Cases
      /\ cases' \in [Cases -> Case]
      /\ \A d \in Cases : /\ cases[d].state = "OnScene" => cases'[d].state = "OnScene"
                          /\ cases'[d].topUps = cases[d].topUps
                          /\ cases'[d].chains = cases[d].chains
                          /\ cases'[d].pending = cases[d].pending
  <2>1. /\ UNCHANGED <<chain, fleetVars, releasing>> /\ todo' = Cases
        /\ cases' = [c \in Cases |-> IF cases[c].state = "Idle" /\ cases[c].finalized
                                     THEN [cases[c] EXCEPT !.state = "Timing"] ELSE cases[c]]
    BY DEF BeginFrame
  <2>2. ASSUME NEW d \in Cases
        PROVE  /\ cases'[d] \in Case
               /\ cases[d].state = "OnScene" => cases'[d].state = "OnScene"
               /\ cases'[d].topUps = cases[d].topUps
               /\ cases'[d].chains = cases[d].chains
               /\ cases'[d].pending = cases[d].pending
    <3>1. cases[d] \in Case
      BY <1>1 DEF TypeOK
    <3> QED  BY <2>1, <3>1 DEF Case
  <2>3. cases' \in [Cases -> Case]
    BY <2>1, <2>2
  <2> QED  BY <2>1, <2>2, <2>3
<1> DEFINE later(t) == [t EXCEPT !.left = @ - gap]
<1>4. ASSUME NEW t \in agenda, ~Elapsed(t, gap)
      PROVE  later(t) \in Timer /\ later(t).task = t.task
  <2>1. t \in Timer
    BY <1>1 DEF TypeOK
  <2>2. t.left - gap \in Nat
    BY <1>2, <1>4, <2>1 DEF Elapsed, Timer
  <2> QED  BY <2>1, <2>2 DEF Timer
<1>5. /\ due' = {t.task : t \in {u \in agenda : Elapsed(u, gap)}}
      /\ agenda' = {later(t) : t \in {u \in agenda : ~Elapsed(u, gap)}}
      /\ due = {}
  BY DEF BeginFrame, BetweenFrames
<1> HIDE DEF later
<1>6. Tasks' = Tasks
  BY <1>4, <1>5 DEF Tasks
<1>7. Work' = Work
  BY <1>6 DEF Work
<1>8. WorkIsUnique'
  <2> SUFFICES ASSUME NEW a \in agenda', a.task \in Work
               PROVE  a.task \notin due' /\ \A u \in agenda' : u.task = a.task => u = a
    BY <1>7 DEF WorkIsUnique
  <2>1. PICK t \in agenda : ~Elapsed(t, gap) /\ a = later(t) /\ a.task = t.task
    BY <1>4, <1>5
  <2>2. \A u \in agenda : u.task = t.task => u = t
    BY <1>1, <2>1 DEF WorkIsUnique
  <2>3. a.task \notin due'
    BY <1>5, <2>1, <2>2
  <2>4. ASSUME NEW u \in agenda', u.task = a.task PROVE u = a
    BY <1>4, <1>5, <2>1, <2>2, <2>4
  <2> QED  BY <2>3, <2>4
<1>9. agenda' \subseteq Timer /\ due' \subseteq Task
  BY <1>1, <1>4, <1>5 DEF TypeOK, Timer
<1>10. TypeOK' /\ CordonsMatchHolds' /\ NoStaleVehicle'
  BY <1>1, <1>3, <1>9, FleetTypes DEF TypeOK
<1>11. Whole' /\ Served'
  BY <1>1, <1>3, <1>7, WholeKept, ServedKept DEF fleetVars
<1> QED  BY <1>7, <1>8, <1>10, <1>11, Parts

-----------------------------------------------------------------------------
(* A new chain.                                                               *)

(* What a case has queued can be counted.                                     *)
LEMMA TopUpsFinite ==
    ASSUME TypeOK, NEW c \in Cases, TopUpsAreCounted(c)
    PROVE  /\ IsFiniteSet(TopUps(c)) /\ Cardinality(TopUps(c)) \in Nat
           /\ cases[c].chains \in Nat /\ cases[c].topUps \in 0..MaxTopUps
<1>1. cases[c].topUps \in 0..MaxTopUps /\ MaxTopUps \in Nat /\ cases[c].chains \in Nat
  BY SpawnAssumption DEF TypeOK, Case
<1>2. IsFiniteSet(1..cases[c].topUps) /\ TopUps(c) \subseteq 1..cases[c].topUps
  <2>1. 1 \in Int /\ cases[c].topUps \in Int
    BY <1>1
  <2>2. IsFiniteSet(1..cases[c].topUps)
    BY <2>1, FS_Interval
  <2> QED  BY <2>2 DEF TopUpsAreCounted
<1>3. IsFiniteSet(TopUps(c))
  BY <1>2, FS_Subset
<1> QED  BY <1>1, <1>3, FS_CardinalityType

(* The new chain is whole, and the others stay so.                            *)
LEMMA ScheduleKeeps ==
    ASSUME TypeOK, Whole, NEW c \in Cases, NEW n \in Unit, NEW s \in Nat, NEW k \in ChainId,
           k = <<c, cases[c].chains>>,
           chain' = [chain EXCEPT ![k] = [NoChain EXCEPT !.size = n, !.stagger = s]],
           unit' = unit,
           \A d \in Cases : cases'[d].chains = IF d = c THEN cases[d].chains + 1 ELSE cases[d].chains,
           NEW D, \A u \in D : u.what = "TopUp",
           Work' = (Work \ D) \cup {ATask(k, "BeginChain", 0)}
    PROVE  \A j \in ChainId : ChainIsWhole(j)'
<1> DEFINE b == ATask(k, "BeginChain", 0)
<1>1. b \in Task /\ b.chain = k /\ b.what = "BeginChain" /\ b.index = 0
  BY TimerType DEF TaskKind
<1> HIDE DEF b
<1>2. \A d \in Cases : cases[d].chains \in Nat
  BY DEF TypeOK, Case
<1>3. n \in Nat \ {0} /\ n \in 0..MaxUnits
  BY SpawnAssumption DEF Unit
<1>4. ASSUME NEW j \in ChainId, j # k
      PROVE  ChainIsWhole(j)'
  <2>1. j[1] \in Cases /\ j[2] \in Nat /\ j = <<j[1], j[2]>>
    BY SpawnAssumption DEF ChainId
  <2>2. Steps(j)' = Steps(j)
    BY <1>1, <1>4 DEF Steps, b
  <2>3. j[2] < cases'[j[1]].chains <=> j[2] < cases[j[1]].chains
    BY <1>2, <1>4, <2>1
  <2> QED  BY <2>2, <2>3, <1>4, ChainKept DEF Whole, TypeOK
<1>5. ChainIsWhole(k)'
  <2>1. k[1] = c /\ k[2] = cases[c].chains
    OBVIOUS
  <2>2. ~Scheduled(k) /\ Steps(k) = {} /\ \A i \in Unit : unit[k][i] = "none"
    BY <1>2, <2>1 DEF Whole, ChainIsWhole
  <2>3. Steps(k)' = {b}
    BY <1>1, <2>2 DEF Steps, b
  <2>4. /\ chain'[k].size = n /\ chain'[k].completed = 0 /\ ~chain'[k].released
    BY DEF TypeOK, NoChain
  <2>5. Scheduled(k)' /\ k[2] < cases'[k[1]].chains
    BY <1>2, <1>3, <2>1, <2>4 DEF Scheduled
  <2> QED  BY <1>1, <2>2, <2>3, <2>4, <2>5 DEF ChainIsWhole
<1> QED  BY <1>4, <1>5

(* The case waits for its new chain.                                          *)
LEMMA ScheduleServes ==
    ASSUME Served, TypeOK, NEW c \in Cases, NEW n \in Unit, NEW s \in Nat, NEW k \in ChainId,
           k = <<c, cases[c].chains>>, ~Scheduled(k),
           chain' = [chain EXCEPT ![k] = [NoChain EXCEPT !.size = n, !.stagger = s]],
           releasing' = releasing,
           \A d \in Cases \ {c} : cases'[d].pending = cases[d].pending
    PROVE  Served'
<1>1. /\ chain'[k].size = n /\ ~chain'[k].released
      /\ \A j \in ChainId : j # k => chain'[j] = chain[j]
  BY DEF TypeOK, NoChain
<1>2. n > 0
  BY SpawnAssumption DEF Unit
<1>3. ASSUME NEW d \in Cases, cases'[d].pending
      PROVE  \E j \in ChainId : j[1] = d /\ Awaits(j)'
  <2>1. CASE d = c
    <3>1. k[1] = d /\ Awaits(k)'
      BY <1>1, <1>2, <2>1 DEF Awaits, Scheduled
    <3> QED  BY <3>1
  <2>2. CASE d # c
    <3>1. PICK j \in ChainId : j[1] = d /\ Awaits(j)
      BY <1>3, <2>2 DEF Served
    <3>2. j # k
      BY <2>2, <3>1
    <3>3. Awaits(j)'
      BY <1>1, <3>1, <3>2 DEF Awaits, Scheduled
    <3> QED  BY <3>1, <3>3
  <2> QED  BY <2>1, <2>2
<1> QED  BY <1>3 DEF Served

(* The record of a new chain.                                                 *)
LEMMA NewChainType ==
    ASSUME TypeOK, NEW n \in Unit, NEW s \in Nat, NEW k \in ChainId
    PROVE  [chain EXCEPT ![k] = [NoChain EXCEPT !.size = n, !.stagger = s]] \in [ChainId -> Chain]
<1>1. n \in 0..MaxUnits
  BY SpawnAssumption DEF Unit
<1>2. [NoChain EXCEPT !.size = n, !.stagger = s] \in Chain
  BY <1>1 DEF NoChain, Chain
<1> QED  BY <1>2 DEF TypeOK

(* A top-up becomes a chain of one unit.                                      *)
LEMMA TopUpKeeps ==
    ASSUME IInv, NEW t \in due, TopUp(t)
    PROVE  IInv'
<1>1. /\ TypeOK /\ WorkIsUnique /\ Whole /\ Served /\ CordonsMatchHolds /\ NoStaleVehicle
  BY Uses
<1> DEFINE c == t.chain[1]
           k == <<c, cases[c].chains>>
           b == ATask(k, "BeginChain", 0)
<1>2. t \in Task /\ t.what = "TopUp" /\ t \in Work /\ t.chain[2] = 0 /\ c \in Cases
  <2>1. t \in Task /\ t.what = "TopUp"
    BY <1>1 DEF TypeOK, TopUp
  <2>2. t \in Work
    BY <2>1 DEF Work, Tasks
  <2> QED  BY <1>1, <2>1, <2>2 DEF Whole, Task, ChainId
<1>3. /\ \E s \in Staggers :
            /\ chain' = [chain EXCEPT ![k] = [NoChain EXCEPT !.size = 1, !.stagger = s]]
            /\ agenda' = agenda \cup {In(k, "BeginChain", 0, 0)}
      /\ cases' = [cases EXCEPT ![c].pending = TRUE, ![c].chains = @ + 1]
      /\ due' = due \ {t}
      /\ UNCHANGED <<fleetVars, releasing, todo>>
  BY DEF TopUp, Schedule
<1>4. PICK s \in Staggers :
            /\ chain' = [chain EXCEPT ![k] = [NoChain EXCEPT !.size = 1, !.stagger = s]]
            /\ agenda' = agenda \cup {In(k, "BeginChain", 0, 0)}
  BY <1>3
<1>5. s \in Nat /\ 1 \in Unit /\ MaxTopUps \in Nat
  BY SpawnAssumption DEF Unit
<1>6. /\ IsFiniteSet(TopUps(c)) /\ Cardinality(TopUps(c)) \in Nat
      /\ cases[c].chains \in Nat /\ cases[c].topUps \in 0..MaxTopUps
      /\ cases[c].chains + Cardinality(TopUps(c)) <=
            cases[c].topUps + (IF cases[c].state = "OnScene" THEN 1 ELSE 0)
      /\ TopUps(c) \subseteq 1..cases[c].topUps
  BY <1>1, <1>2, TopUpsFinite DEF Whole, TopUpsAreCounted
<1>7. t.index \in TopUps(c) /\ Cardinality(TopUps(c) \ {t.index}) = Cardinality(TopUps(c)) - 1
  <2>1. t.index \in TopUps(c)
    BY <1>2 DEF TopUps
  <2> QED  BY <2>1, <1>6, FS_RemoveElement
<1>8. Cardinality(TopUps(c)) # 0
  BY <1>6, <1>7, FS_EmptySet
<1>9. cases[c].chains \in 0..MaxTopUps /\ k \in ChainId
  <2>1. cases[c].chains \in 0..MaxTopUps
    BY <1>5, <1>6, <1>8
  <2> QED  BY <1>2, <2>1 DEF ChainId
<1>10. /\ cases' \in [Cases -> Case]
       /\ \A d \in Cases \ {c} : cases'[d] = cases[d]
       /\ cases'[c].pending /\ cases'[c].chains = cases[c].chains + 1
       /\ cases'[c].topUps = cases[c].topUps /\ cases'[c].state = cases[c].state
  <2>1. cases[c].chains + 1 \in 0..(MaxTopUps + 1)
    BY <1>5, <1>9
  <2>2. cases \in [Cases -> Case] /\ cases[c] \in Case
    BY <1>1, <1>2 DEF TypeOK
  <2> DEFINE e == [cases[c] EXCEPT !.pending = TRUE, !.chains = @ + 1]
  <2>3. /\ e \in Case /\ e.pending /\ e.chains = cases[c].chains + 1
        /\ e.topUps = cases[c].topUps /\ e.state = cases[c].state
    BY <2>1, <2>2 DEF Case
  <2>4. cases' = [cases EXCEPT ![c] = e]
    BY <1>3
  <2> HIDE DEF e
  <2> QED  BY <1>2, <2>2, <2>3, <2>4
<1>11. ~Scheduled(k) /\ b \notin Work /\ b.what # "BatchReleaseTimeout"
  <2>1. ~Scheduled(k) /\ Steps(k) = {}
    BY <1>1, <1>6, <1>9 DEF Whole, ChainIsWhole
  <2>2. b.chain = k /\ b.what = "BeginChain"
    BY <1>9, TimerType DEF TaskKind
  <2> QED  BY <2>1, <2>2 DEF Steps
<1>12. In(k, "BeginChain", 0, 0) \in Timer /\ In(k, "BeginChain", 0, 0).task = b
  BY <1>9, TimerType DEF TaskKind
<1> HIDE DEF b
<1>13. /\ Work' = (Work \ {t}) \cup {b} /\ WorkIsUnique'
       /\ agenda' \subseteq Timer /\ due' \subseteq Task
  <2> DEFINE a == In(k, "BeginChain", 0, 0)
             late == {}
  <2>1. a \in Timer /\ a.task = b /\ b.what # "BatchReleaseTimeout" /\ b \notin Work
    BY <1>11, <1>12
  <2>2. late \in SUBSET Timer /\ \A n \in late : n.task.what = "BatchReleaseTimeout"
    OBVIOUS
  <2>3. agenda' = (agenda \cup late) \cup {a} /\ due' = due \ {t}
    BY <1>3, <1>4
  <2> HIDE DEF a, late
  <2> QED  BY <1>1, <2>1, <2>2, <2>3, HandledOn
<1> HIDE DEF k
<1>14. \A j \in ChainId : ChainIsWhole(j)'
  <2> DEFINE D == {t}
             n == 1
  <2>1. \A u \in D : u.what = "TopUp"
    BY <1>2
  <2>2. \A d \in Cases : cases'[d].chains = IF d = c THEN cases[d].chains + 1 ELSE cases[d].chains
    BY <1>10
  <2>3. k = <<c, cases[c].chains>> /\ k \in ChainId
    BY <1>9 DEF k
  <2>4. Work' = (Work \ D) \cup {ATask(k, "BeginChain", 0)}
    BY <1>13 DEF b
  <2>6. n \in Unit /\ s \in Nat /\ chain' = [chain EXCEPT ![k] = [NoChain EXCEPT !.size = n, !.stagger = s]]
    BY <1>4, <1>5
  <2>5. unit' = unit
    BY <1>3 DEF fleetVars
  <2>7. c \in Cases
    BY <1>2
  <2> HIDE DEF c, D, n
  <2> QED  BY <1>1, <2>1, <2>2, <2>3, <2>4, <2>5, <2>6, <2>7, ScheduleKeeps
<1>15. b.what = "BeginChain"
  BY <1>9, TimerType DEF TaskKind, b
<1>16. ASSUME NEW d \in Cases PROVE TopUpsAreCounted(d)'
  <2>1. CASE d # c
    <3>1. TopUps(d)' = TopUps(d)
      BY <1>13, <1>15, <2>1 DEF TopUps
    <3> QED  BY <1>1, <1>10, <2>1, <3>1, TopUpsKept DEF Whole
  <2>2. CASE d = c
    <3>1. ASSUME NEW u \in Work, u.what = "TopUp", u.chain[1] = c, u.index = t.index
          PROVE  u = t
      <4>1. u \in Task /\ u.chain[2] = 0
        BY <1>1, <3>1 DEF TypeOK, Work, Tasks, Timer, Whole
      <4>2. u.chain = t.chain
        BY <1>2, <3>1, <4>1 DEF Task, ChainId
      <4> QED  BY <1>2, <3>1, <4>1, <4>2 DEF Task
    <3>2. TopUps(c)' = TopUps(c) \ {t.index}
      BY <1>2, <1>13, <1>15, <3>1 DEF TopUps
    <3>3. TopUps(c)' \subseteq 1..cases'[c].topUps
      BY <1>6, <1>10, <3>2
    <3>4. cases'[c].chains + Cardinality(TopUps(c)') <=
             cases'[c].topUps + (IF cases'[c].state = "OnScene" THEN 1 ELSE 0)
      BY <1>6, <1>7, <1>10, <3>2
    <3> QED  BY <2>2, <3>3, <3>4 DEF TopUpsAreCounted
  <2> QED  BY <2>1, <2>2
<1>17. Whole'
  <2>1. \A u \in Work' : u.what = "TopUp" => u.chain[2] = 0
    BY <1>1, <1>13, <1>15 DEF Whole
  <2> QED  BY <1>1, <1>3, <1>14, <1>16, <2>1 DEF Whole
<1>18. Served'
  <2>1. \A d \in Cases \ {c} : cases'[d].pending = cases[d].pending
    BY <1>10
  <2> QED  BY <1>1, <1>2, <1>3, <1>4, <1>5, <1>9, <1>11, <2>1, ScheduleServes DEF k
<1>19. chain' \in [ChainId -> Chain]
  BY <1>1, <1>4, <1>5, <1>9, NewChainType
<1>20. TypeOK' /\ CordonsMatchHolds' /\ NoStaleVehicle'
  BY <1>1, <1>3, <1>10, <1>13, <1>19, FleetTypes DEF TypeOK
<1> QED  BY <1>13, <1>17, <1>18, <1>20, Parts

-----------------------------------------------------------------------------
(* The tick of a case.                                                        *)

(* Cars that join a case, and those ordered to the scene, are registered.     *)
LEMMA DispatchKeeps ==
    ASSUME TypeOK, NoStaleVehicle, NEW c \in Cases, NEW tried, NEW driven,
           Dispatch(c, tried, driven), registered' = registered
    PROVE  /\ force' \in [Cases -> SUBSET Vehicle] /\ ordered' \subseteq Vehicle
           /\ NoStaleVehicle'
  BY DEF TypeOK, NoStaleVehicle, Dispatch

(* Cops found nearby.                                                         *)
LEMMA MobilizeKeeps ==
    ASSUME TypeOK, NoStaleVehicle, CordonsMatchHolds, NEW c \in Cases, NEW tried, NEW driven,
           Mobilize(c, tried, driven)
    PROVE  /\ unit' \in [ChainId -> [Unit -> UnitState]] /\ center' \in [ChainId -> [Unit -> Place]]
           /\ registered' \subseteq Vehicle /\ force' \in [Cases -> SUBSET Vehicle]
           /\ ordered' \subseteq Vehicle /\ closures' \in Seq(Closure)
           /\ unit' = unit /\ NoStaleVehicle' /\ CordonsMatchHolds'
<1>1. Dispatch(c, tried, driven) /\ UNCHANGED <<unit, center, registered, closures>>
  BY DEF Mobilize
<1>2. CordonsMatchHolds'
  BY <1>1, CordonsKept
<1> QED  BY <1>1, <1>2, DispatchKeeps DEF TypeOK

(* A tick that starts nothing, or finds cops nearby.                          *)
LEMMA TickIdlyKeeps ==
    ASSUME IInv, NEW c \in Cases, TickIdly(c) \/ CommitNearby(c)
    PROVE  IInv'
<1>1. /\ TypeOK /\ WorkIsUnique /\ Whole /\ Served /\ CordonsMatchHolds /\ NoStaleVehicle
  BY Uses
<1>2. UNCHANGED <<chain, agenda, due, releasing>> /\ todo' = todo \ {c}
  BY DEF TickIdly, CommitNearby
<1>3. UNCHANGED fleetVars \/ \E tried, driven : Mobilize(c, tried, driven)
  BY DEF TickIdly, CommitNearby
<1>4. /\ unit' \in [ChainId -> [Unit -> UnitState]] /\ center' \in [ChainId -> [Unit -> Place]]
      /\ registered' \subseteq Vehicle /\ force' \in [Cases -> SUBSET Vehicle]
      /\ ordered' \subseteq Vehicle /\ closures' \in Seq(Closure)
      /\ unit' = unit /\ NoStaleVehicle' /\ CordonsMatchHolds'
  BY <1>1, <1>3, FleetTypes, MobilizeKeeps DEF fleetVars
<1>5. /\ cases' \in [Cases -> Case]
      /\ \A d \in Cases : /\ cases[d].state = "OnScene" => cases'[d].state = "OnScene"
                          /\ cases'[d].topUps = cases[d].topUps
                          /\ cases'[d].chains = cases[d].chains
                          /\ cases'[d].pending = cases[d].pending
  <2>1. cases \in [Cases -> Case] /\ cases[c] \in Case
    BY <1>1 DEF TypeOK
  <2> DEFINE e == [cases[c] EXCEPT !.state = "OnScene", !.onScene = TRUE]
  <2>2. /\ e \in Case /\ e.state = "OnScene" /\ e.topUps = cases[c].topUps
        /\ e.chains = cases[c].chains /\ e.pending = cases[c].pending
    BY <2>1 DEF Case
  <2>3. cases' = cases \/ cases' = [cases EXCEPT ![c] = e]
    BY DEF TickIdly, CommitNearby
  <2> HIDE DEF e
  <2> QED  BY <2>1, <2>2, <2>3
<1>6. Work' = Work /\ WorkIsUnique'
  BY <1>1, <1>2, SameWork
<1>7. Whole' /\ Served'
  BY <1>1, <1>2, <1>4, <1>5, <1>6, WholeKept, ServedKept
<1>8. TypeOK'
  BY <1>1, <1>2, <1>4, <1>5 DEF TypeOK
<1> QED  BY <1>4, <1>6, <1>7, <1>8, Parts

(* A top-up is queued under a number of its own.                              *)
LEMMA QueueTopUpKeeps ==
    ASSUME IInv, NEW c \in Cases, QueueTopUp(c)
    PROVE  IInv'
<1>1. /\ TypeOK /\ WorkIsUnique /\ Whole /\ Served /\ CordonsMatchHolds /\ NoStaleVehicle
  BY Uses
<1> DEFINE i == cases[c].topUps + 1
           b == ATask(<<c, 0>>, "TopUp", i)
           a == In(<<c, 0>>, "TopUp", i, TopUpDelay)
<1>2. /\ cases' = [cases EXCEPT ![c].topUps = @ + 1] /\ agenda' = agenda \cup {a}
      /\ todo' = todo \ {c} /\ cases[c].topUps < MaxTopUps
      /\ UNCHANGED <<chain, fleetVars, due, releasing>>
  BY DEF QueueTopUp
<1>3. /\ IsFiniteSet(TopUps(c)) /\ Cardinality(TopUps(c)) \in Nat
      /\ cases[c].chains \in Nat /\ cases[c].topUps \in Nat /\ MaxTopUps \in Nat
      /\ TopUps(c) \subseteq 1..cases[c].topUps
  BY <1>1, TopUpsFinite, SpawnAssumption DEF Whole, TopUpsAreCounted
<1>4. i \in Nat /\ i \in 0..MaxTopUps /\ TopUpDelay \in Nat /\ <<c, 0>> \in ChainId
  BY <1>2, <1>3, SpawnAssumption DEF ChainId
<1>5. /\ a \in Timer /\ a.task = b /\ b.chain = <<c, 0>> /\ b.chain[1] = c /\ b.chain[2] = 0
      /\ b.what = "TopUp" /\ b.index = i
  BY <1>4, TimerType DEF TaskKind
<1>6. i \notin TopUps(c) /\ Cardinality(TopUps(c) \cup {i}) = Cardinality(TopUps(c)) + 1
  <2>1. i \notin TopUps(c)
    BY <1>3
  <2> QED  BY <2>1, <1>3, FS_AddElement
<1>7. b \notin Work
  BY <1>5, <1>6 DEF TopUps
<1> HIDE DEF a, b
<1>8. Work' = Work \cup {b} /\ WorkIsUnique' /\ agenda' \subseteq Timer
  BY <1>1, <1>2, <1>5, <1>7, Added
<1>9. /\ cases' \in [Cases -> Case]
      /\ \A d \in Cases \ {c} : cases'[d] = cases[d]
      /\ cases'[c].state = cases[c].state /\ cases'[c].pending = cases[c].pending
      /\ cases'[c].chains = cases[c].chains /\ cases'[c].topUps = i
  <2>1. cases \in [Cases -> Case] /\ cases[c] \in Case
    BY <1>1 DEF TypeOK
  <2>2. [cases[c] EXCEPT !.topUps = @ + 1] \in Case
    BY <1>4, <2>1 DEF Case
  <2> QED  BY <1>2, <2>1, <2>2 DEF Case
<1>10. \A j \in ChainId : ChainIsWhole(j)'
  <2> SUFFICES ASSUME NEW j \in ChainId PROVE ChainIsWhole(j)'
    OBVIOUS
  <2>1. Steps(j)' = Steps(j)
    BY <1>5, <1>8 DEF Steps
  <2>2. j[1] \in Cases /\ cases'[j[1]].chains = cases[j[1]].chains
    BY <1>9 DEF ChainId
  <2> QED  BY <1>1, <1>2, <2>1, <2>2, ChainKept DEF Whole, fleetVars
<1>11. ASSUME NEW d \in Cases PROVE TopUpsAreCounted(d)'
  <2>1. CASE d # c
    <3>1. TopUps(d)' = TopUps(d)
      BY <1>5, <1>8, <2>1 DEF TopUps
    <3> QED  BY <1>1, <1>9, <2>1, <3>1, TopUpsKept DEF Whole
  <2>2. CASE d = c
    <3>1. TopUps(c)' = TopUps(c) \cup {i}
      BY <1>5, <1>8 DEF TopUps
    <3>2. /\ cases[c].chains + Cardinality(TopUps(c)) <=
                cases[c].topUps + (IF cases[c].state = "OnScene" THEN 1 ELSE 0)
      BY <1>1 DEF Whole, TopUpsAreCounted
    <3>3. cases'[c].chains + Cardinality(TopUps(c)') <=
             cases'[c].topUps + (IF cases'[c].state = "OnScene" THEN 1 ELSE 0)
      BY <1>3, <1>6, <1>9, <3>1, <3>2
    <3>4. TopUps(c)' \subseteq 1..cases'[c].topUps
      BY <1>3, <1>9, <3>1
    <3> QED  BY <2>2, <3>3, <3>4 DEF TopUpsAreCounted
  <2> QED  BY <2>1, <2>2
<1>12. Whole'
  <2>1. \A u \in Work' : u.what = "TopUp" => u.chain[2] = 0
    BY <1>1, <1>5, <1>8 DEF Whole
  <2> QED  BY <1>1, <1>2, <1>10, <1>11, <2>1 DEF Whole
<1>13. Served'
  <2>1. \A d \in Cases : cases'[d].pending => cases[d].pending
    BY <1>9
  <2> QED  BY <1>1, <1>2, <2>1, ServedKept
<1>14. TypeOK' /\ CordonsMatchHolds' /\ NoStaleVehicle'
  BY <1>1, <1>2, <1>8, <1>9, FleetTypes DEF TypeOK
<1> QED  BY <1>8, <1>12, <1>13, <1>14, Parts

(* Nobody was nearby: the first chain.                                        *)
LEMMA CommitSpawnKeeps ==
    ASSUME IInv, NEW c \in Cases, CommitSpawn(c)
    PROVE  IInv'
<1>1. /\ TypeOK /\ WorkIsUnique /\ Whole /\ Served /\ CordonsMatchHolds /\ NoStaleVehicle
  BY Uses
<1> DEFINE k == <<c, cases[c].chains>>
           b == ATask(k, "BeginChain", 0)
           a == In(k, "BeginChain", 0, 0)
           e == [cases[c] EXCEPT !.state = "OnScene", !.onScene = FALSE,
                                 !.pending = TRUE, !.chains = @ + 1]
<1>2. PICK tried \in SUBSET registered : Mobilize(c, tried, {})
  BY DEF CommitSpawn
<1>3. PICK n \in Unit, s \in Staggers :
            /\ chain' = [chain EXCEPT ![k] = [NoChain EXCEPT !.size = n, !.stagger = s]]
            /\ agenda' = agenda \cup {a}
  BY DEF CommitSpawn, Schedule
<1>4. /\ cases' = [cases EXCEPT ![c] = e] /\ cases[c].state = "Timing"
      /\ todo' = todo \ {c} /\ UNCHANGED <<due, releasing>>
  BY DEF CommitSpawn
<1>5. /\ unit' \in [ChainId -> [Unit -> UnitState]] /\ center' \in [ChainId -> [Unit -> Place]]
      /\ registered' \subseteq Vehicle /\ force' \in [Cases -> SUBSET Vehicle]
      /\ ordered' \subseteq Vehicle /\ closures' \in Seq(Closure)
      /\ unit' = unit /\ NoStaleVehicle' /\ CordonsMatchHolds'
  BY <1>1, <1>2, MobilizeKeeps
<1>6. s \in Nat /\ MaxTopUps \in Nat
  BY SpawnAssumption
<1>7. /\ Cardinality(TopUps(c)) \in Nat
      /\ cases[c].chains \in Nat /\ cases[c].topUps \in 0..MaxTopUps
      /\ cases[c].chains + Cardinality(TopUps(c)) <= cases[c].topUps
      /\ TopUps(c) \subseteq 1..cases[c].topUps
  BY <1>1, <1>4, TopUpsFinite DEF Whole, TopUpsAreCounted
<1>8. cases[c].chains \in 0..MaxTopUps /\ k \in ChainId
  <2>1. cases[c].chains \in 0..MaxTopUps
    BY <1>6, <1>7
  <2> QED  BY <2>1 DEF ChainId
<1>9. /\ cases' \in [Cases -> Case]
      /\ \A d \in Cases \ {c} : cases'[d] = cases[d]
      /\ cases'[c].chains = cases[c].chains + 1
      /\ cases'[c].topUps = cases[c].topUps /\ cases'[c].state = "OnScene"
  <2>1. cases \in [Cases -> Case] /\ cases[c] \in Case
    BY <1>1 DEF TypeOK
  <2>2. cases[c].chains + 1 \in 0..(MaxTopUps + 1)
    BY <1>6, <1>8
  <2>3. /\ e \in Case /\ e.chains = cases[c].chains + 1
        /\ e.topUps = cases[c].topUps /\ e.state = "OnScene"
    BY <2>1, <2>2 DEF Case
  <2> HIDE DEF e
  <2> QED  BY <1>4, <2>1, <2>3
<1> HIDE DEF e
<1>10. /\ a \in Timer /\ a.task = b /\ b.chain = k /\ b.what = "BeginChain"
  BY <1>8, TimerType DEF TaskKind
<1>11. ~Scheduled(k) /\ b \notin Work
  <2>1. ~Scheduled(k) /\ Steps(k) = {}
    BY <1>1, <1>7, <1>8 DEF Whole, ChainIsWhole
  <2> QED  BY <1>10, <2>1 DEF Steps
<1> HIDE DEF a, b
<1>12. Work' = Work \cup {b} /\ WorkIsUnique' /\ agenda' \subseteq Timer
  BY <1>1, <1>3, <1>4, <1>10, <1>11, Added
<1> HIDE DEF k
<1>13. k = <<c, cases[c].chains>>
  BY DEF k
<1>14. \A j \in ChainId : ChainIsWhole(j)'
  <2> DEFINE D == {}
  <2>1. \A u \in D : u.what = "TopUp"
    OBVIOUS
  <2>2. Work' = (Work \ D) \cup {ATask(k, "BeginChain", 0)}
    BY <1>12 DEF b
  <2>3. \A d \in Cases : cases'[d].chains = IF d = c THEN cases[d].chains + 1 ELSE cases[d].chains
    BY <1>9
  <2> HIDE DEF D
  <2> QED  BY <1>1, <1>3, <1>5, <1>6, <1>8, <1>13, <2>1, <2>2, <2>3, ScheduleKeeps
<1>15. ASSUME NEW d \in Cases PROVE TopUpsAreCounted(d)'
  <2>1. TopUps(d)' = TopUps(d)
    BY <1>10, <1>12 DEF TopUps
  <2>2. CASE d # c
    BY <1>1, <1>9, <2>1, <2>2, TopUpsKept DEF Whole
  <2>3. CASE d = c
    BY <1>7, <1>9, <2>1, <2>3 DEF TopUpsAreCounted
  <2> QED  BY <2>2, <2>3
<1>16. Whole'
  <2>1. \A u \in Work' : u.what = "TopUp" => u.chain[2] = 0
    BY <1>1, <1>10, <1>12 DEF Whole
  <2> QED  BY <1>1, <1>4, <1>14, <1>15, <2>1 DEF Whole
<1>17. Served'
  <2>1. \A d \in Cases \ {c} : cases'[d].pending = cases[d].pending
    BY <1>9
  <2> QED  BY <1>1, <1>3, <1>4, <1>6, <1>8, <1>11, <1>13, <2>1, ScheduleServes
<1>18. chain' \in [ChainId -> Chain]
  BY <1>1, <1>3, <1>6, <1>8, NewChainType
<1>19. TypeOK'
  BY <1>1, <1>4, <1>5, <1>9, <1>12, <1>18 DEF TypeOK
<1> QED  BY <1>5, <1>12, <1>16, <1>17, <1>19, Parts

-----------------------------------------------------------------------------
(* A chain runs.                                                              *)

(* One chain takes a step of its own; top-ups are left alone.                 *)
LEMMA OneChainSteps ==
    ASSUME TypeOK, Whole, NEW k \in ChainId, ChainIsWhole(k)',
           \A j \in ChainId : j # k =>
              chain'[j] = chain[j] /\ unit'[j] = unit[j] /\ Steps(j)' = Steps(j),
           \A c \in Cases :
              /\ cases'[c].topUps = cases[c].topUps /\ cases'[c].chains = cases[c].chains
              /\ cases'[c].state = cases[c].state,
           {t \in Work' : t.what = "TopUp"} = {t \in Work : t.what = "TopUp"},
           \A j, l \in releasing' : j = l
    PROVE  Whole'
<1>1. ASSUME NEW j \in ChainId PROVE ChainIsWhole(j)'
  <2>1. j[1] \in Cases
    BY DEF ChainId
  <2>2. CASE j # k
    BY <2>1, <2>2, ChainKept DEF Whole
  <2> QED  BY <2>2
<1>2. \A t \in Work' : t.what = "TopUp" => t.chain[2] = 0
  BY DEF Whole
<1>3. ASSUME NEW c \in Cases PROVE TopUpsAreCounted(c)'
  <2>1. TopUps(c)' = TopUps(c)
    BY DEF TopUps
  <2> QED  BY <2>1, TopUpsKept DEF Whole
<1> QED  BY <1>1, <1>2, <1>3 DEF Whole

(* A due step of a chain is its only one.                                     *)
LEMMA ChainsAreSteps ==
    ASSUME TypeOK, Whole, NEW t \in due, t.what \in {"BeginChain", "SpawnUnit"}
    PROVE  /\ t \in Task /\ t.chain \in ChainId /\ t \in Work /\ Steps(t.chain) = {t}
           /\ Scheduled(t.chain) /\ ChainIsWhole(t.chain)
<1>1. t \in Task /\ t.chain \in ChainId /\ t \in Work
  BY DEF TypeOK, Task, Work, Tasks
<1>2. t \in Steps(t.chain) /\ ChainIsWhole(t.chain)
  BY <1>1 DEF Steps, Whole
<1>3. Steps(t.chain) = {t} /\ Scheduled(t.chain)
  BY <1>2 DEF ChainIsWhole
<1> QED  BY <1>1, <1>2, <1>3

(* A chain begins: its timeout and its first unit.                            *)
LEMMA BeginChainKeeps ==
    ASSUME IInv, NEW t \in due, BeginChain(t)
    PROVE  IInv'
<1>1. /\ TypeOK /\ WorkIsUnique /\ Whole /\ Served /\ CordonsMatchHolds /\ NoStaleVehicle
  BY Uses
<1> DEFINE k == t.chain
           b == ATask(k, "SpawnUnit", 1)
           late == IF chain[k].timed THEN {}
                   ELSE {In(k, "BatchReleaseTimeout", 0, ReleaseTimeout)}
           a == In(k, "SpawnUnit", 1, 0)
<1>2. /\ t.what = "BeginChain" /\ chain' = [chain EXCEPT ![k].timed = TRUE]
      /\ agenda' = (agenda \cup late) \cup {In(k, "SpawnUnit", 1, 0)}
      /\ due' = due \ {t} /\ UNCHANGED <<cases, fleetVars, releasing, todo>>
  BY DEF BeginChain
<1>3. /\ t \in Task /\ k \in ChainId /\ t \in Work /\ Steps(k) = {t}
      /\ Scheduled(k) /\ ChainIsWhole(k)
  BY <1>1, <1>2, ChainsAreSteps
<1>4. /\ a \in Timer /\ a.task = b
      /\ b.chain = k /\ b.what = "SpawnUnit" /\ b.index = 1
  BY <1>3, TimerType DEF TaskKind
<1>5. late \in SUBSET Timer /\ \A n \in late : n.task.what = "BatchReleaseTimeout"
  <2>1. ReleaseTimeout \in Nat
    BY SpawnAssumption
  <2> QED  BY <1>3, <2>1, TimerType DEF TaskKind
<1>6. b \notin Work
  BY <1>2, <1>3, <1>4 DEF Steps
<1> HIDE DEF a, b, late, k
<1>7. /\ Work' = (Work \ {t}) \cup {b} /\ WorkIsUnique'
      /\ agenda' \subseteq Timer /\ due' \subseteq Task
  <2>1. agenda' = (agenda \cup late) \cup {a} /\ due' = due \ {t}
    BY <1>2 DEF a, late
  <2> QED  BY <1>1, <1>4, <1>5, <1>6, <2>1, HandledOn
<1>9. /\ chain' \in [ChainId -> Chain] /\ \A j \in ChainId : j # k => chain'[j] = chain[j]
      /\ chain'[k].size = chain[k].size /\ chain'[k].completed = chain[k].completed
      /\ chain'[k].released = chain[k].released
  <2>1. chain \in [ChainId -> Chain] /\ chain[k] \in Chain
    BY <1>1, <1>3 DEF TypeOK
  <2> QED  BY <1>2, <1>3, <2>1 DEF Chain
<1>10. Work' = (Work \ {t}) \cup {b} /\ t.chain = k
  BY <1>7 DEF k
<1>11. ChainIsWhole(k)'
  <2>1. Steps(k)' = {b}
    BY <1>3, <1>4, <1>10 DEF Steps
  <2>2. chain[k].size \in Nat \ {0}
    BY <1>1, <1>3, SpawnAssumption DEF TypeOK, Chain, Scheduled
  <2>3. /\ \A i \in Unit : unit[k][i] = "none"
        /\ chain[k].released \/ chain[k].completed + 1 = 1
    <3>1. \A i \in Unit : i >= t.index
      BY <1>2, <1>3 DEF ChainIsWhole, Unit
    <3> QED  BY <1>2, <1>3, <3>1 DEF ChainIsWhole
  <2>4. unit' = unit /\ cases' = cases
    BY <1>2 DEF fleetVars
  <2>5. Scheduled(k)' /\ k[2] < cases'[k[1]].chains
    BY <1>3, <1>9, <2>4 DEF ChainIsWhole, Scheduled
  <2>6. b.index = 1 /\ 1 \in 1..chain[k].size
    BY <1>4, <2>2
  <2> QED  BY <1>4, <1>9, <2>1, <2>3, <2>4, <2>5, <2>6 DEF ChainIsWhole
<1>12. Whole'
  <2>1. \A j \in ChainId : j # k => Steps(j)' = Steps(j)
    BY <1>4, <1>10 DEF Steps
  <2>2. {u \in Work' : u.what = "TopUp"} = {u \in Work : u.what = "TopUp"}
    BY <1>2, <1>4, <1>10
  <2>3. \A j, l \in releasing' : j = l
    BY <1>1, <1>2 DEF Whole
  <2> QED  BY <1>1, <1>2, <1>3, <1>9, <1>11, <2>1, <2>2, <2>3, OneChainSteps DEF fleetVars
<1>13. Served'
  <2>1. \A j \in ChainId : Awaits(j)' = Awaits(j)
    BY <1>2, <1>9 DEF Awaits, Scheduled
  <2> QED  BY <1>1, <1>2, <2>1 DEF Served
<1>14. TypeOK' /\ CordonsMatchHolds' /\ NoStaleVehicle'
  BY <1>1, <1>2, <1>7, <1>9, FleetTypes DEF TypeOK
<1> QED  BY <1>7, <1>12, <1>13, <1>14, Parts

(* A chain is released, or not yet: either way the cases that wait are served. *)
LEMMA ReleaseShows ==
    ASSUME TypeOK, Served, releasing = {}, NEW k \in ChainId, NEW ch \in Chain,
           ch.size = chain[k].size, ch.released = chain[k].released, NEW held,
           StartRelease(k, ch, held)
    PROVE  /\ chain' \in [ChainId -> Chain] /\ cases' \in [Cases -> Case]
           /\ \A j \in ChainId : j # k => chain'[j] = chain[j]
           /\ chain'[k].size = chain[k].size /\ chain'[k].released
           /\ \A c \in Cases : /\ cases'[c].topUps = cases[c].topUps
                               /\ cases'[c].chains = cases[c].chains
                               /\ cases'[c].state = cases[c].state
           /\ releasing' \subseteq {k} /\ Served'
<1> DEFINE e == [ch EXCEPT !.released = TRUE]
<1>1. e \in Chain /\ e.size = chain[k].size /\ e.released
  BY DEF Chain
<1>2. chain' = [chain EXCEPT ![k] = e] /\ chain \in [ChainId -> Chain]
  BY DEF StartRelease, TypeOK
<1> HIDE DEF e
<1>3. /\ chain' \in [ChainId -> Chain] /\ \A j \in ChainId : j # k => chain'[j] = chain[j]
      /\ chain'[k].size = chain[k].size /\ chain'[k].released
  BY <1>1, <1>2
<1>4. \A j \in ChainId : j # k => (Awaits(j) => Awaits(j)')
  BY <1>3 DEF Awaits, Scheduled
<1>5. k[1] \in Cases
  BY DEF ChainId
<1>6. CASE ch.released
  <2>1. cases' = cases /\ releasing' = {}
    BY <1>6 DEF StartRelease
  <2>2. ~Awaits(k)
    BY <1>6 DEF Awaits
  <2>3. \A j \in ChainId : Awaits(j) => Awaits(j)'
    BY <1>4, <2>2
  <2>4. Served'
    BY <2>1, <2>3 DEF Served
  <2> QED  BY <1>3, <2>1, <2>4 DEF TypeOK
<1>7. CASE ~ch.released /\ held = {}
  <2>1. cases' = [cases EXCEPT ![k[1]].pending = FALSE] /\ releasing' = {}
    BY <1>7 DEF StartRelease
  <2>2. cases \in [Cases -> Case] /\ cases[k[1]] \in Case
    BY <1>5 DEF TypeOK
  <2>3. /\ cases' \in [Cases -> Case]
        /\ \A c \in Cases : c # k[1] => cases'[c] = cases[c]
        /\ ~cases'[k[1]].pending /\ cases'[k[1]].topUps = cases[k[1]].topUps
        /\ cases'[k[1]].chains = cases[k[1]].chains /\ cases'[k[1]].state = cases[k[1]].state
    BY <1>5, <2>1, <2>2 DEF Case
  <2>4. ASSUME NEW c \in Cases, cases'[c].pending
        PROVE  \E j \in ChainId : j[1] = c /\ Awaits(j)'
    <3>1. c # k[1] /\ cases[c].pending
      BY <2>3, <2>4
    <3>2. PICK j \in ChainId : j[1] = c /\ Awaits(j)
      BY <3>1 DEF Served
    <3> QED  BY <1>4, <3>1, <3>2
  <2>5. Served'
    BY <2>4 DEF Served
  <2> QED  BY <1>3, <2>1, <2>3, <2>5
<1>8. CASE ~ch.released /\ held # {}
  <2>1. cases' = cases /\ releasing' = {k}
    BY <1>8 DEF StartRelease
  <2>2. Awaits(k)'
    BY <2>1 DEF Awaits
  <2>3. \A j \in ChainId : Awaits(j) => Awaits(j)'
    BY <1>4, <2>2
  <2>4. Served'
    BY <2>1, <2>3 DEF Served
  <2> QED  BY <1>3, <2>1, <2>4 DEF TypeOK
<1> QED  BY <1>6, <1>7, <1>8

(* on_spawn_unit_done, whether the unit came or not.                          *)
LEMMA UnitDoneShows ==
    ASSUME TypeOK, Served, releasing = {}, NEW k \in ChainId, NEW held, UnitDone(k, held)
    PROVE  /\ chain' \in [ChainId -> Chain] /\ cases' \in [Cases -> Case]
           /\ \A j \in ChainId : j # k => chain'[j] = chain[j]
           /\ chain'[k].size = chain[k].size
           /\ \/ chain'[k].released
              \/ /\ ~chain[k].released /\ chain'[k].completed = chain[k].completed + 1
                 /\ chain[k].completed + 1 < chain[k].size
           /\ \A c \in Cases : /\ cases'[c].topUps = cases[c].topUps
                               /\ cases'[c].chains = cases[c].chains
                               /\ cases'[c].state = cases[c].state
           /\ releasing' \subseteq {k} /\ Served'
<1> DEFINE ch == [chain[k] EXCEPT !.completed = @ + 1]
<1>1. chain \in [ChainId -> Chain] /\ chain[k] \in Chain
  BY DEF TypeOK
<1>2. /\ ch \in Chain /\ ch.size = chain[k].size /\ ch.released = chain[k].released
      /\ ch.completed = chain[k].completed + 1
  BY <1>1 DEF Chain
<1>3. /\ ch.completed >= ch.size => StartRelease(k, ch, held)
      /\ ~(ch.completed >= ch.size) =>
             chain' = [chain EXCEPT ![k] = ch] /\ UNCHANGED <<cases, releasing>>
  BY DEF UnitDone
<1> HIDE DEF ch
<1>4. CASE ch.completed >= ch.size
  <2>1. StartRelease(k, ch, held)
    BY <1>3, <1>4
  <2> QED  BY <1>2, <2>1, ReleaseShows
<1>5. CASE ~(ch.completed >= ch.size)
  <2>1. chain' = [chain EXCEPT ![k] = ch] /\ UNCHANGED <<cases, releasing>>
    BY <1>3, <1>5
  <2>2. /\ chain' \in [ChainId -> Chain] /\ \A j \in ChainId : j # k => chain'[j] = chain[j]
        /\ chain'[k] = ch
    BY <1>1, <1>2, <2>1
  <2>3. chain[k].completed + 1 < chain[k].size
    BY <1>1, <1>2, <1>5, SpawnAssumption DEF Chain
  <2>4. \A j \in ChainId : Awaits(j)' = Awaits(j)
    BY <1>2, <2>1, <2>2 DEF Awaits, Scheduled
  <2>5. Served'
    BY <2>1, <2>4 DEF Served
  <2>6. chain'[k].released \/ ~chain[k].released
    BY <1>2, <2>2
  <2> QED  BY <1>2, <2>1, <2>2, <2>3, <2>5, <2>6 DEF TypeOK
<1> QED  BY <1>4, <1>5

(* The unit whose turn it is came or did not come; the next one follows.      *)
LEMMA UnitKeeps ==
    ASSUME IInv, NEW t \in due, t.what = "SpawnUnit", releasing = {},
           NEW x \in {"failed", "waiting"}, NEW held, UnitDone(t.chain, held),
           unit' = [unit EXCEPT ![t.chain][t.index] = x],
           agenda' = agenda \cup NextUnit(t.chain, t.index), due' = due \ {t}
    PROVE  /\ t.chain \in ChainId /\ t.index \in Unit /\ unit[t.chain][t.index] = "none"
           /\ chain' \in [ChainId -> Chain] /\ cases' \in [Cases -> Case]
           /\ unit' \in [ChainId -> [Unit -> UnitState]]
           /\ agenda' \subseteq Timer /\ due' \subseteq Task /\ releasing' \subseteq ChainId
           /\ WorkIsUnique' /\ Whole' /\ Served'
<1>1. /\ TypeOK /\ WorkIsUnique /\ Whole /\ Served
  BY Uses
<1> DEFINE k == t.chain
           i == t.index
           b == ATask(k, "SpawnUnit", i + 1)
           a == In(k, "SpawnUnit", i + 1, chain[k].stagger)
<1>2. /\ t \in Task /\ k \in ChainId /\ t \in Work /\ Steps(k) = {t}
      /\ Scheduled(k) /\ ChainIsWhole(k)
  BY <1>1, ChainsAreSteps
<1>3. chain[k] \in Chain /\ chain[k].size \in 0..MaxUnits /\ MaxUnits \in Nat
  BY <1>1, <1>2, SpawnAssumption DEF TypeOK, Chain
<1>4. /\ i \in 1..chain[k].size /\ i \in Unit /\ i \in Nat
      /\ \A j \in Unit : j >= i => unit[k][j] = "none"
      /\ chain[k].released \/ chain[k].completed + 1 = i
  <2>1. i \in 1..chain[k].size
    BY <1>2 DEF ChainIsWhole
  <2>2. i \in Unit /\ i \in Nat
    BY <1>3, <2>1 DEF Unit
  <2> QED  BY <1>2, <2>1, <2>2 DEF ChainIsWhole
<1>5. /\ chain' \in [ChainId -> Chain] /\ cases' \in [Cases -> Case]
      /\ \A j \in ChainId : j # k => chain'[j] = chain[j]
      /\ chain'[k].size = chain[k].size
      /\ \/ chain'[k].released
         \/ /\ ~chain[k].released /\ chain'[k].completed = chain[k].completed + 1
            /\ chain[k].completed + 1 < chain[k].size
      /\ \A c \in Cases : /\ cases'[c].topUps = cases[c].topUps
                          /\ cases'[c].chains = cases[c].chains
                          /\ cases'[c].state = cases[c].state
      /\ releasing' \subseteq {k} /\ Served'
  BY <1>1, <1>2, UnitDoneShows
<1>6. /\ unit' \in [ChainId -> [Unit -> UnitState]]
      /\ \A j \in ChainId : j # k => unit'[j] = unit[j]
      /\ \A j \in Unit : j # i => unit'[k][j] = unit[k][j]
  <2>1. unit \in [ChainId -> [Unit -> UnitState]] /\ x \in UnitState
    BY <1>1 DEF TypeOK, UnitState
  <2> QED  BY <1>2, <1>4, <2>1
<1>7. /\ a \in Timer /\ a.task = b
      /\ b.chain = k /\ b.what = "SpawnUnit" /\ b.index = i + 1 /\ b # t
  <2>1. i + 1 \in Nat /\ chain[k].stagger \in Nat /\ i + 1 # i
    BY <1>3, <1>4 DEF Chain
  <2> QED  BY <1>2, <2>1, TimerType DEF TaskKind
<1>8. NextUnit(k, i) = IF i < chain[k].size THEN {a} ELSE {}
  BY DEF NextUnit
<1>9. b \notin Work
  BY <1>2, <1>7 DEF Steps
<1> HIDE DEF a, b
<1> DEFINE late == {}
<1>10. late \in SUBSET Timer /\ \A n \in late : n.task.what = "BatchReleaseTimeout"
  OBVIOUS
<1>11. /\ Work' = (Work \ {t}) \cup (IF i < chain[k].size THEN {b} ELSE {})
       /\ WorkIsUnique' /\ agenda' \subseteq Timer /\ due' \subseteq Task
  <2>1. CASE i < chain[k].size
    <3>1. agenda' = (agenda \cup late) \cup {a}
      BY <1>8, <2>1
    <3>2. a \in Timer /\ a.task.what # "BatchReleaseTimeout" /\ a.task \notin Work
      BY <1>7, <1>9
    <3> HIDE DEF late, k, i
    <3>3. /\ Work' = (Work \ {t}) \cup {a.task} /\ WorkIsUnique'
          /\ agenda' \subseteq Timer /\ due' \subseteq Task
      BY <1>1, <1>10, <3>1, <3>2, HandledOn
    <3> QED  BY <1>7, <2>1, <3>3
  <2>2. CASE ~(i < chain[k].size)
    <3>1. agenda' = agenda \cup late
      BY <1>8, <2>2
    <3> HIDE DEF late, k, i
    <3>2. /\ Work' = Work \ {t} /\ WorkIsUnique'
          /\ agenda' \subseteq Timer /\ due' \subseteq Task
      BY <1>1, <1>10, <3>1, Handled
    <3> QED  BY <2>2, <3>2
  <2> QED  BY <2>1, <2>2
<1>12. Steps(k)' = IF i < chain[k].size THEN {b} ELSE {}
  BY <1>2, <1>7, <1>11 DEF Steps
<1>13. ChainIsWhole(k)'
  <2>1. (Scheduled(k) <=> k[2] < cases[k[1]].chains)'
    <3>1. k[1] \in Cases
      BY <1>2 DEF ChainId
    <3> QED  BY <1>2, <1>5, <3>1 DEF ChainIsWhole, Scheduled
  <2>2. Scheduled(k)'
    BY <1>2, <1>5 DEF Scheduled
  <2>3. \A u \in Steps(k)' : u = b /\ i < chain[k].size
    BY <1>12
  <2>4. ASSUME i < chain[k].size
        PROVE  /\ b.index \in 1..chain'[k].size
               /\ \A j \in Unit : j >= b.index => unit'[k][j] = "none"
               /\ chain'[k].released \/ chain'[k].completed + 1 = b.index
    <3>1. b.index \in 1..chain'[k].size
      BY <1>3, <1>4, <1>5, <1>7, <2>4
    <3>2. \A j \in Unit : j >= b.index => j # i /\ j >= i
      BY <1>4, <1>7 DEF Unit
    <3>3. \A j \in Unit : j >= b.index => unit'[k][j] = "none"
      BY <1>4, <1>6, <3>2
    <3>4. chain'[k].released \/ chain'[k].completed + 1 = b.index
      BY <1>4, <1>5, <1>7
    <3> QED  BY <3>1, <3>3, <3>4
  <2>5. ~chain'[k].released => Steps(k)' # {}
    <3>1. ~chain'[k].released => i < chain[k].size
      BY <1>4, <1>5
    <3> QED  BY <1>12, <3>1
  <2>6. \A u \in Steps(k)' :
           /\ u.index \in IF u.what = "BeginChain" THEN {0} ELSE 1 .. chain'[k].size
           /\ \A j \in Unit : j >= u.index => unit'[k][j] = "none"
           /\ chain'[k].released \/ chain'[k].completed + 1 =
                 IF u.what = "BeginChain" THEN 1 ELSE u.index
    BY <1>7, <2>3, <2>4
  <2> HIDE DEF k, i
  <2> QED  BY <2>1, <2>2, <2>3, <2>5, <2>6 DEF ChainIsWhole
<1>14. Whole'
  <2>1. \A j \in ChainId : j # k => Steps(j)' = Steps(j)
    BY <1>7, <1>11 DEF Steps
  <2>2. {u \in Work' : u.what = "TopUp"} = {u \in Work : u.what = "TopUp"}
    BY <1>7, <1>11
  <2>3. \A j, l \in releasing' : j = l
    BY <1>5
  <2> HIDE DEF k, i
  <2> QED  BY <1>1, <1>2, <1>5, <1>6, <1>13, <2>1, <2>2, <2>3, OneChainSteps
<1>15. releasing' \subseteq ChainId
  BY <1>2, <1>5
<1> QED  BY <1>2, <1>4, <1>5, <1>6, <1>11, <1>14, <1>15

(* The holds, and where they are.                                             *)
Held == {v \in Vehicle : unit[v[1]][v[2]] = "waiting"}
Spot == [v \in Vehicle |-> center[v[1]][v[2]]]

(* There are finitely many vehicles.                                          *)
LEMMA VehiclesFinite ==
    /\ IsFiniteSet(Vehicle)
    /\ \A k \in ChainId, i \in Unit : <<k, i>> \in Vehicle
    /\ \A v \in Vehicle : v[1] \in ChainId /\ v[2] \in Unit /\ v = <<v[1], v[2]>>
<1>1. IsFiniteSet(0..MaxTopUps) /\ IsFiniteSet(Unit) /\ IsFiniteSet(Cases)
  <2>1. 0 \in Int /\ 1 \in Int /\ MaxTopUps \in Int /\ MaxUnits \in Int /\ IsFiniteSet(Cases)
    BY SpawnAssumption
  <2> QED  BY <2>1, FS_Interval DEF Unit
<1>2. IsFiniteSet(ChainId)
  BY <1>1, FS_Product DEF ChainId
<1>3. IsFiniteSet(Vehicle)
  BY <1>1, <1>2, FS_Product DEF Vehicle
<1> QED  BY <1>3 DEF Vehicle

(* The cordons stand for the holds,                                           *)
LEMMA CordonsStand == CordonsMatchHolds => Standing(closures, Held, Spot)
<1> DEFINE At(v) == center[v[1]][v[2]]
<1>1. \A v \in Held : Spot[v] = At(v)
  BY DEF Held, Spot
<1> SUFFICES ASSUME CordonsMatchHolds PROVE Standing(closures, Held, Spot)
  OBVIOUS
<1>2. /\ \A v \in Held : NearClosures(closures, At(v)) # {}
      /\ \A i \in DOMAIN closures :
            closures[i].refs = Cardinality({v \in Held : FirstNear(closures, At(v)) = i})
  BY DEF CordonsMatchHolds, Held
<1>3. \A i \in DOMAIN closures : {v \in Held : FirstNear(closures, At(v)) = i}
                                 = {v \in Held : FirstNear(closures, Spot[v]) = i}
  BY <1>1
<1> QED  BY <1>1, <1>2, <1>3 DEF Standing

(* and whatever does so matches them.                                         *)
LEMMA StandingIsCordons ==
    ASSUME Standing(closures, Held, Spot)'
    PROVE  CordonsMatchHolds'
<1> DEFINE At(v) == center'[v[1]][v[2]]
<1>1. \A v \in Held' : Spot'[v] = At(v)
  BY DEF Held, Spot
<1>2. \A i \in DOMAIN closures' : {v \in Held' : FirstNear(closures', At(v)) = i}
                                 = {v \in Held' : FirstNear(closures', Spot'[v]) = i}
  BY <1>1
<1>3. /\ \A v \in Held' : NearClosures(closures', At(v)) # {}
      /\ \A i \in DOMAIN closures' :
            closures'[i].refs = Cardinality({v \in Held' : FirstNear(closures', At(v)) = i})
  BY <1>1, <1>2 DEF Standing
<1> QED  BY <1>3 DEF CordonsMatchHolds, Held

(* No car: nothing is held.                                                   *)
LEMMA SpawnFailsKeeps ==
    ASSUME IInv, NEW t \in due, SpawnFails(t)
    PROVE  IInv'
<1>1. /\ TypeOK /\ CordonsMatchHolds /\ NoStaleVehicle
  BY Uses
<1>2. /\ t.what = "SpawnUnit" /\ releasing = {}
      /\ unit' = [unit EXCEPT ![t.chain][t.index] = "failed"]
      /\ UnitDone(t.chain, Waiting(t.chain))
      /\ agenda' = agenda \cup NextUnit(t.chain, t.index) /\ due' = due \ {t}
      /\ UNCHANGED <<center, registered, force, ordered, closures, todo>>
  BY DEF SpawnFails, Turn
<1> DEFINE x == "failed"
<1>3. x \in {"failed", "waiting"} /\ unit' = [unit EXCEPT ![t.chain][t.index] = x]
  BY <1>2
<1> HIDE DEF x
<1>4. /\ t.chain \in ChainId /\ t.index \in Unit /\ unit[t.chain][t.index] = "none"
      /\ chain' \in [ChainId -> Chain] /\ cases' \in [Cases -> Case]
      /\ unit' \in [ChainId -> [Unit -> UnitState]]
      /\ agenda' \subseteq Timer /\ due' \subseteq Task /\ releasing' \subseteq ChainId
      /\ WorkIsUnique' /\ Whole' /\ Served'
  BY <1>2, <1>3, UnitKeeps
<1>5. TypeOK' /\ NoStaleVehicle'
  BY <1>1, <1>2, <1>4 DEF TypeOK, NoStaleVehicle
<1>6. CordonsMatchHolds'
  <2>1. \A k \in ChainId, i \in Unit : unit'[k][i] = "waiting" <=> unit[k][i] = "waiting"
    BY <1>1, <1>2, <1>4 DEF TypeOK
  <2>2. Held' = Held /\ Spot' = Spot
    BY <1>2, <2>1, VehiclesFinite DEF Held, Spot
  <2>3. Standing(closures, Held, Spot)'
    BY <1>1, <1>2, <2>2, CordonsStand DEF Standing
  <2> QED  BY <2>3, StandingIsCordons
<1> QED  BY <1>4, <1>5, <1>6, Parts

(* A car is held at a place.                                                  *)
LEMMA SpawnUnitKeeps ==
    ASSUME IInv, NEW t \in due, NEW p \in Place, SpawnUnit(t, p)
    PROVE  IInv'
<1>1. /\ TypeOK /\ CordonsMatchHolds /\ NoStaleVehicle
  BY Uses
<1> DEFINE k == t.chain
           i == t.index
           v == <<k, i>>
           held == Waiting(k) \cup {i}
           x == "waiting"
<1>2. /\ t.what = "SpawnUnit" /\ releasing = {}
      /\ registered' = registered \cup {v}
      /\ unit' = [unit EXCEPT ![k][i] = x]
      /\ center' = [center EXCEPT ![k][i] = p]
      /\ force' = [force EXCEPT ![k[1]] = @ \cup {v}]
      /\ closures' = BeginClosure(closures, p)
      /\ UnitDone(k, held)
      /\ agenda' = agenda \cup NextUnit(k, i) /\ due' = due \ {t}
      /\ UNCHANGED <<ordered, todo>>
  BY DEF SpawnUnit, Turn
<1>3. x \in {"failed", "waiting"}
  OBVIOUS
<1> HIDE DEF x, held
<1>4. /\ t.chain \in ChainId /\ t.index \in Unit /\ unit[t.chain][t.index] = "none"
      /\ chain' \in [ChainId -> Chain] /\ cases' \in [Cases -> Case]
      /\ unit' \in [ChainId -> [Unit -> UnitState]]
      /\ agenda' \subseteq Timer /\ due' \subseteq Task /\ releasing' \subseteq ChainId
      /\ WorkIsUnique' /\ Whole' /\ Served'
  BY <1>2, <1>3, UnitKeeps
<1>5. v \in Vehicle /\ k[1] \in Cases
  BY <1>4, VehiclesFinite DEF ChainId
<1>6. /\ center' \in [ChainId -> [Unit -> Place]] /\ registered' \subseteq Vehicle
      /\ force' \in [Cases -> SUBSET Vehicle]
  BY <1>1, <1>2, <1>4, <1>5 DEF TypeOK
<1>7. NoStaleVehicle'
  <2>1. force \in [Cases -> SUBSET Vehicle]
    BY <1>1 DEF TypeOK
  <2> QED  BY <1>1, <1>2, <1>5, <2>1 DEF NoStaleVehicle
<1>8. CordonsMatchHolds' /\ closures' \in Seq(Closure)
  <2>1. /\ unit \in [ChainId -> [Unit -> UnitState]] /\ center \in [ChainId -> [Unit -> Place]]
        /\ closures \in Seq(Closure)
    BY <1>1 DEF TypeOK
  <2>2. /\ \A j \in ChainId, l \in Unit : <<j, l>> # v =>
              unit'[j][l] = unit[j][l] /\ center'[j][l] = center[j][l]
        /\ unit'[k][i] = "waiting" /\ center'[k][i] = p
    BY <1>2, <1>4, <2>1 DEF x
  <2>3. v \notin Held
    BY <1>4 DEF Held
  <2>4. Held' = Held \cup {v}
    <3>1. \A u \in Vehicle : u # v => unit'[u[1]][u[2]] = unit[u[1]][u[2]]
      BY <2>2, VehiclesFinite
    <3> QED  BY <1>5, <2>2, <3>1 DEF Held
  <2>5. Spot'[v] = p /\ \A u \in Held : Spot[u] = Spot'[u]
    BY <1>5, <2>2, <2>3, VehiclesFinite DEF Held, Spot
  <2>6. \A u \in Held \cup {v} : Spot'[u] \in Place
    BY <1>5, <1>6, VehiclesFinite DEF Held, Spot
  <2>7. Standing(closures, Held, Spot')
    BY <1>1, <2>5, CordonsStand, SameStanding
  <2>8. IsFiniteSet(Held)
    BY VehiclesFinite, FS_Subset DEF Held
  <2> HIDE DEF v
  <2>9. closures' \in Seq(Closure) /\ Standing(closures', Held \cup {v}, Spot')
    BY <1>2, <2>1, <2>3, <2>5, <2>6, <2>7, <2>8, BeginKeepsStanding
  <2>10. Standing(closures, Held, Spot)'
    BY <2>4, <2>9 DEF Standing
  <2> QED  BY <2>9, <2>10, StandingIsCordons
<1>9. TypeOK'
  BY <1>1, <1>2, <1>4, <1>6, <1>8 DEF TypeOK
<1> QED  BY <1>4, <1>7, <1>8, <1>9, Parts

-----------------------------------------------------------------------------
(* A batch is released.                                                       *)

(* The timeout releases the chain, or comes too late.                         *)
LEMMA ReleaseTimesOutKeeps ==
    ASSUME IInv, NEW t \in due, ReleaseTimesOut(t)
    PROVE  IInv'
<1>1. /\ TypeOK /\ WorkIsUnique /\ Whole /\ Served /\ CordonsMatchHolds /\ NoStaleVehicle
  BY Uses
<1> DEFINE k == t.chain
           ch == [chain[k] EXCEPT !.completed = chain[k].size]
           late == {}
<1>2. /\ t.what = "BatchReleaseTimeout" /\ releasing = {} /\ due' = due \ {t}
      /\ UNCHANGED <<fleetVars, agenda, todo>>
      /\ UNCHANGED <<cases, chain, releasing>> \/ StartRelease(k, ch, Waiting(k))
  BY DEF ReleaseTimesOut, Turn
<1>3. t \in Task /\ k \in ChainId /\ t \notin Work
  BY <1>1, <1>2 DEF TypeOK, Task, Work
<1>4. chain \in [ChainId -> Chain] /\ chain[k] \in Chain
  BY <1>1, <1>3 DEF TypeOK
<1>5. ch \in Chain /\ ch.size = chain[k].size /\ ch.released = chain[k].released
  BY <1>4, SpawnAssumption DEF Chain
<1> HIDE DEF ch
<1>6. late \in SUBSET Timer /\ (\A n \in late : n.task.what = "BatchReleaseTimeout")
      /\ agenda' = agenda \cup late
  BY <1>2
<1> HIDE DEF late, k
<1>7. Work' = Work /\ WorkIsUnique' /\ agenda' \subseteq Timer /\ due' \subseteq Task
  <2>1. /\ Work' = Work \ {t} /\ WorkIsUnique'
        /\ agenda' \subseteq Timer /\ due' \subseteq Task
    BY <1>1, <1>2, <1>6, Handled
  <2> QED  BY <1>3, <2>1
<1>8. CASE UNCHANGED <<cases, chain, releasing>>
  <2>1. Whole' /\ Served'
    BY <1>1, <1>2, <1>7, <1>8, WholeKept, ServedKept DEF fleetVars
  <2>2. TypeOK' /\ CordonsMatchHolds' /\ NoStaleVehicle'
    BY <1>1, <1>2, <1>7, <1>8, FleetTypes DEF TypeOK
  <2> QED  BY <1>7, <2>1, <2>2, Parts
<1>9. CASE StartRelease(k, ch, Waiting(k))
  <2>1. /\ chain' \in [ChainId -> Chain] /\ cases' \in [Cases -> Case]
        /\ \A j \in ChainId : j # k => chain'[j] = chain[j]
        /\ chain'[k].size = chain[k].size /\ chain'[k].released
        /\ \A c \in Cases : /\ cases'[c].topUps = cases[c].topUps
                            /\ cases'[c].chains = cases[c].chains
                            /\ cases'[c].state = cases[c].state
        /\ releasing' \subseteq {k} /\ Served'
    BY <1>1, <1>2, <1>3, <1>5, <1>9, ReleaseShows
  <2>2. unit' = unit /\ \A j \in ChainId : Steps(j)' = Steps(j)
    BY <1>2, <1>7 DEF Steps, fleetVars
  <2>3. ChainIsWhole(k)'
    <3>1. ChainIsWhole(k) /\ k[1] \in Cases
      BY <1>1, <1>3 DEF Whole, ChainId
    <3> QED  BY <2>1, <2>2, <3>1, <1>3 DEF ChainIsWhole, Scheduled
  <2>4. Whole'
    <3>1. \A j, l \in releasing' : j = l
      BY <2>1
    <3> QED  BY <1>1, <1>3, <1>7, <2>1, <2>2, <2>3, <3>1, OneChainSteps
  <2>5. releasing' \subseteq ChainId
    BY <1>3, <2>1
  <2>6. TypeOK' /\ CordonsMatchHolds' /\ NoStaleVehicle'
    BY <1>1, <1>2, <1>7, <2>1, <2>5, FleetTypes DEF TypeOK
  <2> QED  BY <1>7, <2>1, <2>4, <2>6, Parts
<1> QED  BY <1>2, <1>8, <1>9

(* A held car is sent, refused or lost.                                       *)
LEMMA ReleaseUnitKeeps ==
    ASSUME IInv, NEW k \in releasing, NEW i \in Unit, NEW outcome \in {"sent", "refused", "lost"},
           ReleaseUnit(k, i, outcome)
    PROVE  IInv'
<1>1. /\ TypeOK /\ WorkIsUnique /\ Whole /\ Served /\ CordonsMatchHolds /\ NoStaleVehicle
  BY Uses
<1> DEFINE v == <<k, i>>
           tried == {v} \cap registered
           driven == IF outcome = "sent" THEN {v} ELSE {}
<1>2. /\ unit[k][i] = "waiting" /\ closures' = EndClosure(closures, center[k][i])
      /\ unit' = [unit EXCEPT ![k][i] = outcome] /\ Dispatch(k[1], tried, driven)
      /\ UNCHANGED <<cases, chain, center, registered, frameVars>>
  BY DEF ReleaseUnit, Waiting
<1>3. k \in ChainId /\ k[1] \in Cases /\ v \in Vehicle
  BY <1>1, VehiclesFinite DEF TypeOK, ChainId
<1> HIDE DEF tried, driven
<1>4. force' \in [Cases -> SUBSET Vehicle] /\ ordered' \subseteq Vehicle /\ NoStaleVehicle'
  BY <1>1, <1>2, <1>3, DispatchKeeps
<1>5. /\ unit \in [ChainId -> [Unit -> UnitState]] /\ center \in [ChainId -> [Unit -> Place]]
      /\ closures \in Seq(Closure)
  BY <1>1 DEF TypeOK
<1>6. /\ unit' \in [ChainId -> [Unit -> UnitState]] /\ unit'[k][i] = outcome
      /\ \A j \in ChainId : j # k => unit'[j] = unit[j]
      /\ \A j \in Unit : j # i => unit'[k][j] = unit[k][j]
  BY <1>2, <1>3, <1>5 DEF UnitState
<1>7. Work' = Work /\ WorkIsUnique'
  BY <1>1, <1>2, SameWork DEF frameVars
<1>8. ChainIsWhole(k)'
  <2>1. ChainIsWhole(k) /\ Steps(k)' = Steps(k) /\ Scheduled(k)' = Scheduled(k)
    BY <1>1, <1>2, <1>3, <1>7 DEF Whole, Steps, Scheduled
  <2>2. Scheduled(k)
    BY <1>2, <2>1 DEF ChainIsWhole
  <2>3. \A t \in Steps(k), j \in Unit : j >= t.index => unit'[k][j] = "none"
    <3>1. \A t \in Steps(k), j \in Unit : j >= t.index => unit[k][j] = "none"
      BY <2>1 DEF ChainIsWhole
    <3>2. \A t \in Steps(k), j \in Unit : j >= t.index => j # i
      BY <1>2, <3>1
    <3> QED  BY <1>6, <3>1, <3>2
  <2>4. \A t \in Steps(k) :
           /\ t.index \in IF t.what = "BeginChain" THEN {0} ELSE 1 .. chain[k].size
           /\ chain[k].released \/ chain[k].completed + 1 =
                 IF t.what = "BeginChain" THEN 1 ELSE t.index
    BY <2>1 DEF ChainIsWhole
  <2> QED  BY <1>2, <2>1, <2>2, <2>3, <2>4 DEF ChainIsWhole
<1>9. Whole'
  <2>1. \A j \in ChainId : Steps(j)' = Steps(j)
    BY <1>7 DEF Steps
  <2>2. \A j, l \in releasing' : j = l
    BY <1>1, <1>2 DEF Whole, frameVars
  <2> QED  BY <1>1, <1>2, <1>3, <1>6, <1>7, <1>8, <2>1, <2>2, OneChainSteps
<1>10. Served'
  BY <1>1, <1>2, ServedKept DEF frameVars
<1>11. CordonsMatchHolds' /\ closures' \in Seq(Closure)
  <2>1. Held' = Held \ {v} /\ v \in Held
    <3>1. \A u \in Vehicle : u # v => unit'[u[1]][u[2]] = unit[u[1]][u[2]]
      BY <1>6, VehiclesFinite
    <3> QED  BY <1>2, <1>3, <1>6, <3>1 DEF Held
  <2>2. Spot[v] = center[k][i] /\ Spot' = Spot
    BY <1>2, <1>3 DEF Spot
  <2>3. \A u \in Held : Spot[u] \in Place
    BY <1>5, VehiclesFinite DEF Held, Spot
  <2>4. IsFiniteSet(Held) /\ Standing(closures, Held, Spot)
    BY <1>1, CordonsStand, VehiclesFinite, FS_Subset DEF Held
  <2> HIDE DEF v
  <2>5. closures' \in Seq(Closure) /\ Standing(closures', Held \ {v}, Spot)
    BY <1>2, <1>5, <2>1, <2>2, <2>3, <2>4, EndKeepsStanding
  <2>6. Standing(closures, Held, Spot)'
    BY <2>1, <2>2, <2>5 DEF Standing
  <2> QED  BY <2>5, <2>6, StandingIsCordons
<1>12. TypeOK'
  BY <1>1, <1>2, <1>4, <1>6, <1>11 DEF TypeOK, frameVars
<1> QED  BY <1>4, <1>7, <1>9, <1>10, <1>11, <1>12, Parts

(* The last held car is gone: the case waits no more.                         *)
LEMMA FinishReleaseKeeps ==
    ASSUME IInv, NEW k \in releasing, FinishRelease(k)
    PROVE  IInv'
<1>1. /\ TypeOK /\ WorkIsUnique /\ Whole /\ Served /\ CordonsMatchHolds /\ NoStaleVehicle
  BY Uses
<1> DEFINE c == k[1]
           e == [cases[c] EXCEPT !.pending = FALSE, !.onScene = TRUE]
<1>2. /\ cases' = [cases EXCEPT ![c] = e] /\ releasing' = {}
      /\ UNCHANGED <<chain, fleetVars, agenda, due, todo>>
  BY DEF FinishRelease
<1>3. c \in Cases /\ releasing = {k}
  BY <1>1 DEF TypeOK, Whole, ChainId
<1>4. cases \in [Cases -> Case] /\ cases[c] \in Case
  BY <1>1, <1>3 DEF TypeOK
<1>5. /\ e \in Case /\ ~e.pending /\ e.topUps = cases[c].topUps
      /\ e.chains = cases[c].chains /\ e.state = cases[c].state
  BY <1>4 DEF Case
<1> HIDE DEF e
<1>6. /\ cases' \in [Cases -> Case] /\ \A d \in Cases : d # c => cases'[d] = cases[d]
      /\ cases'[c] = e
  BY <1>2, <1>3, <1>4, <1>5
<1>7. Work' = Work /\ WorkIsUnique'
  BY <1>1, <1>2, SameWork
<1>8. Whole'
  <2>1. \A j \in ChainId : ChainIsWhole(j)'
    <3> SUFFICES ASSUME NEW j \in ChainId PROVE ChainIsWhole(j)'
      OBVIOUS
    <3>1. Steps(j)' = Steps(j) /\ j[1] \in Cases /\ cases'[j[1]].chains = cases[j[1]].chains
      BY <1>5, <1>6, <1>7 DEF Steps, ChainId
    <3> QED  BY <1>1, <1>2, <3>1, ChainKept DEF Whole, fleetVars
  <2>2. \A d \in Cases : TopUpsAreCounted(d)'
    <3> SUFFICES ASSUME NEW d \in Cases PROVE TopUpsAreCounted(d)'
      OBVIOUS
    <3>1. TopUps(d)' = TopUps(d)
      BY <1>7 DEF TopUps
    <3>2. /\ cases'[d].topUps = cases[d].topUps /\ cases'[d].chains = cases[d].chains
          /\ cases'[d].state = cases[d].state
      BY <1>5, <1>6
    <3> QED  BY <1>1, <3>1, <3>2, TopUpsKept DEF Whole
  <2> QED  BY <1>1, <1>2, <1>7, <2>1, <2>2 DEF Whole
<1>9. Served'
  <2>1. ASSUME NEW d \in Cases, cases'[d].pending
        PROVE  \E j \in ChainId : j[1] = d /\ Awaits(j)'
    <3>1. d # c /\ cases[d].pending
      BY <1>5, <1>6, <2>1
    <3>2. PICK j \in ChainId : j[1] = d /\ Awaits(j)
      BY <1>1, <3>1 DEF Served
    <3>3. j \notin releasing
      BY <1>3, <3>1, <3>2
    <3>4. Awaits(j)'
      BY <1>2, <3>2, <3>3 DEF Awaits, Scheduled
    <3> QED  BY <3>2, <3>4
  <2> QED  BY <2>1 DEF Served
<1>10. TypeOK' /\ CordonsMatchHolds' /\ NoStaleVehicle'
  BY <1>1, <1>2, <1>6, FleetTypes DEF TypeOK
<1> QED  BY <1>7, <1>8, <1>9, <1>10, Parts

-----------------------------------------------------------------------------
(* The theorems.                                                              *)

(* Every task, every release, every tick and every hook keeps the inductive
   invariant.                                                                 *)
THEOREM StepIInv == IInv /\ [Next]_vars => IInv'
<1> SUFFICES ASSUME IInv, [Next]_vars PROVE IInv'
  OBVIOUS
<1>1. CASE \E gap \in Gaps : BeginFrame(gap)
  BY <1>1, BeginFrameKeeps
<1>2. CASE HandleTask
  BY <1>2, TopUpKeeps, BeginChainKeeps, SpawnFailsKeeps, SpawnUnitKeeps, ReleaseTimesOutKeeps
  DEF HandleTask
<1>3. CASE Release
  BY <1>3, ReleaseUnitKeeps, FinishReleaseKeeps DEF Release
<1>4. CASE TickCase
  <2>1. todo \subseteq Cases
    BY Uses DEF TypeOK
  <2> QED  BY <1>4, <2>1, TickIdlyKeeps, CommitSpawnKeeps, QueueTopUpKeeps DEF TickCase
<1>5. CASE Hooks
  BY <1>5, HooksKeep
<1>6. CASE UNCHANGED vars
  <2>1. /\ TypeOK /\ WorkIsUnique /\ Whole /\ Served /\ CordonsMatchHolds /\ NoStaleVehicle
    BY Uses
  <2>2. UNCHANGED <<cases, chain, fleetVars, frameVars>>
    BY <1>6 DEF vars, fleetVars, frameVars
  <2>3. Work' = Work /\ WorkIsUnique'
    BY <2>1, <2>2, SameWork DEF frameVars
  <2>4. Whole' /\ Served'
    BY <2>1, <2>2, <2>3, WholeKept, ServedKept DEF fleetVars, frameVars
  <2>5. TypeOK' /\ CordonsMatchHolds' /\ NoStaleVehicle'
    BY <2>1, <2>2, FleetTypes DEF TypeOK, frameVars
  <2> QED  BY <2>3, <2>4, <2>5, Parts
<1> QED  BY <1>1, <1>2, <1>3, <1>4, <1>5, <1>6 DEF Next, Frame

(* No case waits, no unit is held and no cordon stands at first.              *)
THEOREM InitIInv == Init => IInv
<1> SUFFICES ASSUME Init PROVE IInv
  OBVIOUS
<1>1. Tasks = {} /\ Work = {}
  BY DEF Init, Tasks, Work
<1>2. \A k \in ChainId : ~Scheduled(k) /\ Steps(k) = {} /\ k[1] \in Cases /\ k[2] \in Nat
  BY <1>1, SpawnAssumption DEF Init, Scheduled, NoChain, Steps, ChainId
<1>3. \A c \in Cases : /\ cases[c].chains = 0 /\ cases[c].topUps = 0 /\ ~cases[c].pending
                       /\ cases[c].state = "Idle"
  BY DEF Init
<1>4. \A k \in ChainId : ChainIsWhole(k)
  BY <1>2, <1>3 DEF ChainIsWhole, Init
<1>5. ASSUME NEW c \in Cases PROVE TopUpsAreCounted(c)
  <2>1. TopUps(c) = {}
    BY <1>1 DEF TopUps
  <2> QED  BY <1>3, <2>1, FS_EmptySet DEF TopUpsAreCounted
<1>6. TypeOK
  <2>1. (CHOOSE p \in Place : TRUE) \in Place
    BY NearAssumption
  <2>2. center \in [ChainId -> [Unit -> Place]]
    BY <2>1 DEF Init
  <2>3. chain \in [ChainId -> Chain]
    BY SpawnAssumption DEF Init, NoChain, Chain
  <2>4. cases \in [Cases -> Case] /\ closures \in Seq(Closure)
    BY DEF Init
  <2> QED  BY <2>2, <2>3, <2>4 DEF Init, TypeOK, UnitState
<1>7. CordonsMatchHolds
  BY DEF Init, CordonsMatchHolds, Vehicle
<1>8. WorkIsUnique /\ PendingIsServed /\ NoStaleVehicle
  BY <1>3 DEF Init, WorkIsUnique, PendingIsServed, NoStaleVehicle
<1> QED  BY <1>1, <1>4, <1>5, <1>6, <1>7, <1>8 DEF IInv, Init

(* The inductive invariant holds in every reachable state.                    *)
THEOREM AlwaysIInv == Spec => []IInv
  BY InitIInv, StepIInv, PTL DEF Spec

(* Every record keeps its type for any cases, units, delays and gaps: a case
   never starts more chains than its top-ups allow.                           *)
THEOREM TypeCorrect == Spec => []TypeOK
<1>1. IInv => TypeOK
  BY DEF IInv
<1> QED  BY <1>1, AlwaysIInv, PTL

(* However long frames stall and whatever fails to spawn, a case that waits has
   a chain that will end the wait (coordinator.rs).                           *)
THEOREM PendingIsAlwaysServed == Spec => []PendingIsServed
<1>1. IInv => PendingIsServed
  BY DEF IInv
<1> QED  BY <1>1, AlwaysIInv, PTL

(* However places are near one another and cordons are shared, a cordon stands
   for the units held at it and no unit is held without one (staging.rs).     *)
THEOREM CordonsAlwaysMatchHolds == Spec => []CordonsMatchHolds
<1>1. IInv => CordonsMatchHolds
  BY DEF IInv
<1> QED  BY <1>1, AlwaysIInv, PTL

(* No removed vehicle stays with a case or under an order (runtime.rs:817).   *)
THEOREM NeverStaleVehicle == Spec => []NoStaleVehicle
<1>1. IInv => NoStaleVehicle
  BY DEF IInv
<1> QED  BY <1>1, AlwaysIInv, PTL
================================================================================
