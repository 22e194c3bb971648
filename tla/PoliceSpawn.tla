----------------------------- MODULE PoliceSpawn -----------------------------
(***************************************************************************)
(* How a case gets its police units: the commit of the response, the       *)
(* chains that spawn the units one by one and hold them, the release of    *)
(* the batch (or its timeout), and the top-ups asked for on scene.         *)
(* It composes the spawn half of ExecCoordinator, spawn.rs, the dispatch   *)
(* fields of CaseRecord and the staging cordons.                           *)
(*                                                                         *)
(* A frame is BeginFrame, then the due tasks one by one, then one tick of  *)
(* every case.  Hooks act between frames only.  Time passes between        *)
(* frames, by any of Gaps: the clock is the wall clock (boot.elapsed), and *)
(* frames stop while the gate is shut (cutscene, loading, menu).           *)
(*                                                                         *)
(* No case is removed here: each has a report channel, and                 *)
(* should_enter_cleanup refuses those.                                     *)
(***************************************************************************)
EXTENDS Staging

CONSTANTS
    Cases,           \* open cases
    MaxCriminals,    \* bound: suspects a case knows of (the code has none)
    MaxUnits,        \* units of the largest spawn plan
    MaxTopUps,       \* MAX_ON_SCENE_TOPUP_ATTEMPTS
    Staggers,        \* REINFORCEMENT_SPAWN_STAGGER_URBAN_MS, .._RURAL_MS
    ReleaseTimeout,  \* REINFORCEMENT_BATCH_RELEASE_TIMEOUT_MS
    TopUpDelay,      \* REINFORCE_NEARBY_ATTEMPT_MS
    Gaps             \* time that may pass from one frame to the next

ASSUME SpawnAssumption ==
    /\ IsFiniteSet(Cases)
    /\ MaxCriminals \in Nat
    /\ MaxUnits \in Nat \ {0}
    /\ MaxTopUps \in Nat
    /\ Staggers \subseteq Nat \ {0}
    /\ ReleaseTimeout \in Nat \ {0}
    /\ TopUpDelay \in Nat \ {0}
    /\ Gaps \subseteq Nat \ {0}

VARIABLES
    cases,      \* dispatch fields of each case record
    chain,      \* ExecGlobals.spawn_chains; a chain is named by its case and
                \* its number among the chains of that case
    unit,       \* unit[k][i]: what became of unit i of chain k's plan
    center,     \* center[k][i]: held_staging_centers
    registered, \* vehicles of the mod in the ResourceRegistry
    force,      \* force[c]: CaseRecord.case_vehicles
    ordered,    \* ExecGlobals.vehicles_ordered_to_scene
    closures,   \* StagingState.closures
    agenda,     \* ExecGlobals.pending_spawn and ExecCoordinator.pending
    due,        \* tasks of this frame still to be handled
    releasing,  \* the chain whose release loop runs, if one does
    todo        \* cases still to be ticked in this frame

vars == <<cases, chain, unit, center, registered, force, ordered, closures,
          agenda, due, releasing, todo>>

fleetVars == <<unit, center, registered, force, ordered, closures>>
frameVars == <<agenda, due, releasing, todo>>

ChainId == Cases \X (0 .. MaxTopUps)
Unit    == 1 .. MaxUnits
Vehicle == ChainId \X Unit      \* the vehicle spawned for a unit, if any

UnitState == {"none", "failed", "waiting", "sent", "refused", "lost"}
TaskKind  == {"TopUp", "BeginChain", "SpawnUnit", "BatchReleaseTimeout"}

Case  == [state : {"Idle", "Timing", "OnScene"}, finalized : BOOLEAN,
          criminals : 0 .. MaxCriminals, clue : BOOLEAN,
          pending : BOOLEAN, onScene : BOOLEAN,
          topUps : 0 .. MaxTopUps, chains : 0 .. MaxTopUps + 1]
Chain == [size : 0 .. MaxUnits, stagger : Nat, completed : Nat,
          timed : BOOLEAN, released : BOOLEAN]
Task  == [chain : ChainId, what : TaskKind, index : Nat]
Timer == [task : Task, left : Nat]

NoChain == [size |-> 0, stagger |-> 0, completed |-> 0, timed |-> FALSE,
            released |-> FALSE]

Police(c)    == cases[c].criminals > 0 \/ cases[c].clue
Scheduled(k) == chain[k].size > 0
Waiting(k)   == {i \in Unit : unit[k][i] = "waiting"}
BetweenFrames == due = {} /\ releasing = {} /\ todo = {}

ATask(k, what, i)   == [chain |-> k, what |-> what, index |-> i]
In(k, what, i, t)   == [task |-> ATask(k, what, i), left |-> t]

Init ==
    /\ cases \in [Cases -> {r \in Case :
                              /\ r.state = "Idle"
                              /\ ~r.finalized /\ ~r.pending /\ ~r.onScene
                              /\ r.topUps = 0 /\ r.chains = 0}]
    /\ chain = [k \in ChainId |-> NoChain]
    /\ unit = [k \in ChainId |-> [i \in Unit |-> "none"]]
    /\ center = [k \in ChainId |-> [i \in Unit |-> CHOOSE p \in Place : TRUE]]
    /\ registered = {}
    /\ force = [c \in Cases |-> {}]
    /\ ordered = {}
    /\ closures = <<>>
    /\ agenda = {}
    /\ due = {}
    /\ releasing = {}
    /\ todo = {}

-----------------------------------------------------------------------------
(* Between frames: the report ends, the scene changes, vehicles go.        *)

FinalizeReport(c) ==
    /\ BetweenFrames
    /\ ~cases[c].finalized
    /\ cases' = [cases EXCEPT ![c].finalized = TRUE]
    /\ UNCHANGED <<chain, fleetVars, frameVars>>

(* A WeaponDischarge or VehiclePropertyDamage signal reaches the case: it
   needs police even when no suspect is known.                             *)
PoliceClue(c) ==
    /\ BetweenFrames
    /\ ~cases[c].clue
    /\ cases' = [cases EXCEPT ![c].clue = TRUE]
    /\ UNCHANGED <<chain, fleetVars, frameVars>>

CriminalGone(c) ==
    /\ BetweenFrames
    /\ cases[c].criminals > 0
    /\ cases' = [cases EXCEPT ![c].criminals = @ - 1]
    /\ UNCHANGED <<chain, fleetVars, frameVars>>

(* detour_possibly_remove_vehicle: the id leaves every set that holds it,
   but not the chain that holds the unit.                                  *)
MutantRemoveVehicle(v) ==   \* the cases are not told
    /\ BetweenFrames
    /\ v \in registered
    /\ registered' = registered \ {v}
    /\ ordered' = ordered \ {v}
    /\ UNCHANGED <<cases, chain, unit, center, force, closures, frameVars>>

RemoveVehicle(v) ==
    /\ BetweenFrames
    /\ v \in registered
    /\ registered' = registered \ {v}
    /\ ordered' = ordered \ {v}
    /\ force' = [c \in Cases |-> force[c] \ {v}]
    /\ UNCHANGED <<cases, chain, unit, center, closures, frameVars>>

-----------------------------------------------------------------------------
(* The frame begins: CaseStore::tick starts the dispatch timers, then
   flush_globals_pending and drain_pending_tasks collect what is due.      *)

Elapsed(timer, gap) == timer.left <= gap

BeginFrame(gap) ==
    /\ BetweenFrames
    /\ cases' = [c \in Cases |->
                    IF cases[c].state = "Idle" /\ cases[c].finalized
                    THEN [cases[c] EXCEPT !.state = "Timing"]
                    ELSE cases[c]]
    /\ due' = {t.task : t \in {u \in agenda : Elapsed(u, gap)}}
    /\ agenda' = {[t EXCEPT !.left = @ - gap] :
                     t \in {u \in agenda : ~Elapsed(u, gap)}}
    /\ todo' = Cases
    /\ UNCHANGED <<chain, fleetVars, releasing>>

(* The queues are in the order of scheduling: top-ups stand before spawn
   tasks, and a chain's timeout before its units.  The order of tasks of
   different chains is left open.                                          *)
Before(t, u) ==
    \/ t.what = "TopUp" /\ u.what # "TopUp"
    \/ /\ t.what = "BatchReleaseTimeout" /\ u.what = "SpawnUnit"
       /\ t.chain = u.chain

Turn(t) == t \in due /\ releasing = {} /\ \A u \in due : ~Before(u, t)

(* schedule_police_vehicle_spawns: a new chain of n units.                 *)
Schedule(c, n, s) ==
    LET k == <<c, cases[c].chains>> IN
    /\ chain' = [chain EXCEPT ![k] = [NoChain EXCEPT !.size = n, !.stagger = s]]
    /\ agenda' = agenda \cup {In(k, "BeginChain", 0, 0)}

TopUp(t) ==
    /\ t.what = "TopUp" /\ Turn(t)
    /\ LET c == t.chain[1] IN
        /\ \E s \in Staggers : Schedule(c, 1, s)
        /\ cases' = [cases EXCEPT ![c].pending = TRUE, ![c].chains = @ + 1]
    /\ due' = due \ {t}
    /\ UNCHANGED <<fleetVars, releasing, todo>>

(* begin_police_spawn_chain with schedule_batch_release_timeout.           *)
BeginChain(t) ==
    /\ t.what = "BeginChain" /\ Turn(t)
    /\ LET k == t.chain IN
        /\ chain' = [chain EXCEPT ![k].timed = TRUE]
        /\ agenda' = agenda
              \cup (IF chain[k].timed THEN {}
                    ELSE {In(k, "BatchReleaseTimeout", 0, ReleaseTimeout)})
              \cup {In(k, "SpawnUnit", 1, 0)}
    /\ due' = due \ {t}
    /\ UNCHANGED <<cases, fleetVars, releasing, todo>>

MutantStartRelease(k, ch, held) ==   \* an empty batch leaves the case waiting
    /\ chain' = [chain EXCEPT ![k] = [ch EXCEPT !.released = TRUE]]
    /\ releasing' = IF ch.released \/ held = {} THEN releasing ELSE {k}
    /\ UNCHANGED cases

(* release_police_spawn_batch up to its loop: an empty batch ends at once.
   `ch' and `held' are the chain and its held units after the caller's own
   changes.                                                                *)
StartRelease(k, ch, held) ==
    /\ chain' = [chain EXCEPT ![k] = [ch EXCEPT !.released = TRUE]]
    /\ IF ch.released THEN UNCHANGED <<cases, releasing>>
       ELSE IF held = {}
       THEN /\ cases' = [cases EXCEPT ![k[1]].pending = FALSE]
            /\ UNCHANGED releasing
       ELSE /\ releasing' = {k}
            /\ UNCHANGED cases

MutantUnitDoneLate(k, held) ==    \* > for >=
    LET ch == [chain[k] EXCEPT !.completed = @ + 1] IN
    IF ch.completed > ch.size THEN StartRelease(k, ch, held)
    ELSE chain' = [chain EXCEPT ![k] = ch] /\ UNCHANGED <<cases, releasing>>

(* on_spawn_unit_done.                                                     *)
UnitDone(k, held) ==
    LET ch == [chain[k] EXCEPT !.completed = @ + 1] IN
    IF ch.completed >= ch.size THEN StartRelease(k, ch, held)
    ELSE chain' = [chain EXCEPT ![k] = ch] /\ UNCHANGED <<cases, releasing>>

NextUnit(k, i) ==
    IF i < chain[k].size THEN {In(k, "SpawnUnit", i + 1, chain[k].stagger)}
    ELSE {}

MutantSpawnFails(t) ==   \* the first failure ends the chain
    /\ t.what = "SpawnUnit" /\ Turn(t)
    /\ LET k == t.chain IN
        /\ unit' = [unit EXCEPT ![k][t.index] = "failed"]
        /\ UnitDone(k, Waiting(k))
    /\ due' = due \ {t}
    /\ UNCHANGED <<center, registered, force, ordered, closures, agenda, todo>>

(* execute_spawn_unit: the engine creates the car, or fails to.            *)
SpawnFails(t) ==
    /\ t.what = "SpawnUnit" /\ Turn(t)
    /\ LET k == t.chain IN
        /\ unit' = [unit EXCEPT ![k][t.index] = "failed"]
        /\ UnitDone(k, Waiting(k))
        /\ agenda' = agenda \cup NextUnit(k, t.index)
    /\ due' = due \ {t}
    /\ UNCHANGED <<center, registered, force, ordered, closures, todo>>

SpawnUnit(t, p) ==
    /\ t.what = "SpawnUnit" /\ Turn(t)
    /\ LET k == t.chain
           v == <<k, t.index>> IN
        /\ registered' = registered \cup {v}
        /\ unit' = [unit EXCEPT ![k][t.index] = "waiting"]
        /\ center' = [center EXCEPT ![k][t.index] = p]
        /\ force' = [force EXCEPT ![k[1]] = @ \cup {v}]
        /\ closures' = BeginClosure(closures, p)
        /\ UnitDone(k, Waiting(k) \cup {t.index})
        /\ agenda' = agenda \cup NextUnit(k, t.index)
    /\ due' = due \ {t}
    /\ UNCHANGED <<ordered, todo>>

(* handle_batch_release_timeout.                                           *)
ReleaseTimesOut(t) ==
    /\ t.what = "BatchReleaseTimeout" /\ Turn(t)
    /\ LET k  == t.chain
           ch == [chain[k] EXCEPT !.completed = chain[k].size] IN
        IF chain[k].released \/ chain[k].completed >= chain[k].size
        THEN UNCHANGED <<cases, chain, releasing>>
        ELSE StartRelease(k, ch, Waiting(k))
    /\ due' = due \ {t}
    /\ UNCHANGED <<fleetVars, agenda, todo>>

(* dispatch_vehicle_to_disturbance: `tried' cars join the case, those with
   a live driver are ordered to the scene.                                 *)
Dispatch(c, tried, driven) ==
    /\ tried \subseteq registered /\ driven \subseteq tried
    /\ force' = [force EXCEPT ![c] = @ \cup tried]
    /\ ordered' = ordered \cup driven

(* The loop of release_police_spawn_batch: a car that left the registry is
   passed over.                                                            *)
ReleaseUnit(k, i, outcome) ==
    /\ k \in releasing
    /\ i \in Waiting(k)
    /\ \A j \in Waiting(k) : i <= j
    /\ closures' = EndClosure(closures, center[k][i])
    /\ unit' = [unit EXCEPT ![k][i] = outcome]
    /\ LET v == <<k, i>> IN
        /\ (outcome = "lost") <=> (v \notin registered)
        /\ Dispatch(k[1], {v} \cap registered,
                    IF outcome = "sent" THEN {v} ELSE {})
    /\ UNCHANGED <<cases, chain, center, registered, frameVars>>

FinishRelease(k) ==
    /\ k \in releasing
    /\ Waiting(k) = {}
    /\ cases' = [cases EXCEPT ![k[1]].pending = FALSE, ![k[1]].onScene = TRUE]
    /\ releasing' = {}
    /\ UNCHANGED <<chain, fleetVars, agenda, due, todo>>

-----------------------------------------------------------------------------
(* One tick of each case.  The clues, the timer and the retry interval
   decide whether a response is tried; here it may be tried in any frame.  *)

Ticking(c) == c \in todo /\ due = {} /\ releasing = {}

(* dispatch_nearby_available_cops_to_crime: cops found nearby may sit in
   cars of the mod, even in held ones.                                     *)
Mobilize(c, tried, driven) ==
    /\ Dispatch(c, tried, driven)
    /\ UNCHANGED <<unit, center, registered, closures>>

CommitNearby(c) ==
    /\ Ticking(c)
    /\ cases[c].state = "Timing" /\ Police(c)
    /\ \E tried \in SUBSET registered : \E driven \in SUBSET tried :
          Mobilize(c, tried, driven)
    /\ cases' = [cases EXCEPT ![c].state = "OnScene", ![c].onScene = TRUE]
    /\ todo' = todo \ {c}
    /\ UNCHANGED <<chain, agenda, due, releasing>>

(* Nobody nearby could go: build_initial_spawn_plan.                       *)
CommitSpawn(c) ==
    /\ Ticking(c)
    /\ cases[c].state = "Timing" /\ Police(c)
    /\ \E tried \in SUBSET registered : Mobilize(c, tried, {})
    /\ \E n \in Unit, s \in Staggers : Schedule(c, n, s)
    /\ cases' = [cases EXCEPT ![c].state = "OnScene", ![c].onScene = FALSE,
                              ![c].pending = TRUE, ![c].chains = @ + 1]
    /\ todo' = todo \ {c}
    /\ UNCHANGED <<due, releasing>>

(* tick_on_scene: a top-up may be queued (on_scene_needs_reinforcement).   *)
QueueTopUp(c) ==
    /\ Ticking(c)
    /\ cases[c].state = "OnScene"
    /\ cases[c].criminals > 0
    /\ cases[c].topUps < MaxTopUps
    /\ cases' = [cases EXCEPT ![c].topUps = @ + 1]
    /\ agenda' = agenda \cup
          {In(<<c, 0>>, "TopUp", cases[c].topUps + 1, TopUpDelay)}
    /\ todo' = todo \ {c}
    /\ UNCHANGED <<chain, fleetVars, due, releasing>>

(* The tick changes nothing, or cars without a driver join the case.       *)
TickIdly(c) ==
    /\ Ticking(c)
    /\ IF cases[c].state = "Timing" /\ Police(c)
       THEN \E tried \in SUBSET registered : Mobilize(c, tried, {})
       ELSE UNCHANGED fleetVars
    /\ todo' = todo \ {c}
    /\ UNCHANGED <<cases, chain, agenda, due, releasing>>

-----------------------------------------------------------------------------

HandleTask ==
    \E t \in due : \/ TopUp(t)
                   \/ BeginChain(t)
                   \/ SpawnFails(t)
                   \/ \E p \in Place : SpawnUnit(t, p)
                   \/ ReleaseTimesOut(t)

Release ==
    \E k \in releasing : \/ \E i \in Unit, outcome \in {"sent", "refused", "lost"} :
                               ReleaseUnit(k, i, outcome)
                         \/ FinishRelease(k)

TickCase ==
    \E c \in todo : \/ CommitNearby(c)
                    \/ CommitSpawn(c)
                    \/ QueueTopUp(c)
                    \/ TickIdly(c)

Frame == (\E gap \in Gaps : BeginFrame(gap)) \/ HandleTask \/ Release \/ TickCase

Hooks ==
    \/ \E c \in Cases : FinalizeReport(c) \/ PoliceClue(c) \/ CriminalGone(c)
    \/ \E v \in registered : RemoveVehicle(v)

Next == Frame \/ Hooks

Spec == Init /\ [][Next]_vars

FairSpec == Spec /\ WF_vars(Frame)

-----------------------------------------------------------------------------
(* Properties.                                                             *)

TypeOK ==
    /\ cases \in [Cases -> Case]
    /\ chain \in [ChainId -> Chain]
    /\ unit \in [ChainId -> [Unit -> UnitState]]
    /\ center \in [ChainId -> [Unit -> Place]]
    /\ registered \subseteq Vehicle
    /\ force \in [Cases -> SUBSET Vehicle]
    /\ ordered \subseteq Vehicle
    /\ closures \in Seq(Closure)
    /\ agenda \subseteq Timer
    /\ due \subseteq Task
    /\ releasing \subseteq ChainId
    /\ todo \subseteq Cases

Tasks == due \cup {t.task : t \in agenda}

(* A case that waits for units has a chain that will end the wait: one not
   released whose next task is on the agenda, or the one being released.   *)
PendingIsServed ==
    \A c \in Cases : cases[c].pending =>
        \E k \in ChainId :
            /\ k[1] = c
            /\ \/ k \in releasing
               \/ /\ Scheduled(k) /\ ~chain[k].released
                  /\ \E t \in Tasks : t.chain = k
                                     /\ t.what \in {"BeginChain", "SpawnUnit"}

(* Every cordon stands for the units held at it, each unit counted on the
   first cordon near it, and no unit is held without one: however cordons
   are shared, an end closes the cordon its begin opened.                  *)
CordonsMatchHolds ==
    LET Holds == {v \in Vehicle : unit[v[1]][v[2]] = "waiting"}
        At(v) == center[v[1]][v[2]]
    IN  /\ \A v \in Holds : NearClosures(closures, At(v)) # {}
        /\ \A i \in DOMAIN closures :
              closures[i].refs =
                 Cardinality({v \in Holds : FirstNear(closures, At(v)) = i})

(* A vehicle the engine removed stays in no case and on no order, though a
   chain may still hold it (runtime.rs:817).                               *)
NoStaleVehicle ==
    ordered \subseteq registered /\ \A c \in Cases : force[c] \subseteq registered

(* Every batch is released, whatever fails to spawn.                       *)
EveryBatchIsReleased ==
    \A k \in ChainId : Scheduled(k) ~> chain[k].released

(* No case waits for units for ever, however long frames stall.            *)
SpawnWaitEnds == \A c \in Cases : cases[c].pending ~> ~cases[c].pending

(* The inductive invariant. What is yet to be done, timeouts aside, is done
   once.                                                                    *)
Work == {t \in Tasks : t.what # "BatchReleaseTimeout"}

WorkIsUnique ==
    \A t \in agenda : t.task \in Work =>
        t.task \notin due /\ \A u \in agenda : u.task = t.task => u = t

(* The next step of a chain, if there is one left.                          *)
Steps(k) == {t \in Work : t.chain = k /\ t.what \in {"BeginChain", "SpawnUnit"}}

ChainIsWhole(k) ==
    /\ Scheduled(k) <=> k[2] < cases[k[1]].chains
    /\ ~Scheduled(k) => Steps(k) = {} /\ \A i \in Unit : unit[k][i] = "none"
    /\ \A t, u \in Steps(k) : t = u
    /\ \A t \in Steps(k) :
          /\ t.index \in IF t.what = "BeginChain" THEN {0} ELSE 1 .. chain[k].size
          /\ \A i \in Unit : i >= t.index => unit[k][i] = "none"
          /\ chain[k].released \/ chain[k].completed + 1 =
                IF t.what = "BeginChain" THEN 1 ELSE t.index
    /\ Scheduled(k) /\ ~chain[k].released => Steps(k) # {}

(* A top-up on the agenda has not had its chain.                            *)
TopUps(c) == {t.index : t \in {u \in Work : u.what = "TopUp" /\ u.chain[1] = c}}

TopUpsAreCounted(c) ==
    /\ TopUps(c) \subseteq 1 .. cases[c].topUps
    /\ cases[c].chains + Cardinality(TopUps(c)) <=
          cases[c].topUps + (IF cases[c].state = "OnScene" THEN 1 ELSE 0)

IInv ==
    /\ TypeOK
    /\ WorkIsUnique
    /\ \A t \in Work : t.what = "TopUp" => t.chain[2] = 0
    /\ \A k, l \in releasing : k = l
    /\ \A k \in ChainId : ChainIsWhole(k)
    /\ \A c \in Cases : TopUpsAreCounted(c)
    /\ PendingIsServed
    /\ CordonsMatchHolds
    /\ NoStaleVehicle
==============================================================================
