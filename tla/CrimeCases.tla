------------------------------ MODULE CrimeCases ------------------------------
(* The cases of the C++ dispatcher: how a crime seen by a hook is merged into  *)
(* a case, opens one, evicts one or is refused; what the main-thread tick does *)
(* with every case (IDLE, TIMING, ON_SCENE, clean-up, its delayed tasks); the  *)
(* hit-and-run drivers waiting for idle police; and the purge at a save load.  *)
(*                                                                             *)
(* Everything runs on the game's main thread: a frame polls for a save load,   *)
(* runs the scripts, polls again and ticks. A tick is split into its calls     *)
(* (pc); hooks run outside it, between the frames or from the scripts. Vectors *)
(* that are only searched are sets, so the first element is any element.       *)
EXTENDS Integers, FiniteSets

CONSTANTS
    Peds,           \* peds that commit crimes
    NoPed,
    Slots,          \* cases that may exist at once, the erased ones reused
    NoCase,
    Places,         \* metres along a line: where crimes happen
    MAX_CONCURRENT_CASES,   \* 4 in the code
    MAX_REINFORCEMENTS,     \* 3 in the code
    MaxUnits,       \* bound: units of a spawn plan
    MaxWanted,      \* bound: fugitives waiting at once
    MaxNewDeaths,   \* bound: cops killed between two visits of a case
    DispatchDelay,  \* TIMING before cars are spawned          (8 to 16 s)
    ReinforceDelay, \* before a reinforcement is spawned       (3 to 12 s)
    SceneTimeout,   \* ON_SCENE without spawned cars           (30 s)
    PendingTimeout, \* waiting for the first spawned car       (45 s)
    ArrivedTimeout, \* ON_SCENE while a spawn is pending       (60 s)
    MaxAge          \* bound: where the clocks stop counting

ASSUME PedsAssumption == NoPed \notin Peds
ASSUME SlotsAssumption == NoCase \notin Slots /\ IsFiniteSet(Slots)
ASSUME PlacesAssumption == Places \subseteq Int
ASSUME CapsAssumption ==
    /\ MAX_CONCURRENT_CASES \in Nat \ {0} /\ MAX_REINFORCEMENTS \in Nat
    /\ MaxUnits \in Nat \ {0} /\ MaxNewDeaths \in Nat /\ MaxWanted \in Nat
ASSUME TimesAssumption ==
    /\ DispatchDelay \in Nat /\ ReinforceDelay \in Nat
    /\ SceneTimeout \in Nat /\ PendingTimeout \in Nat /\ ArrivedTimeout \in Nat
    /\ MaxAge \in Nat /\ MaxAge >= DispatchDelay
    /\ MaxAge > SceneTimeout /\ MaxAge > PendingTimeout /\ MaxAge > ArrivedTimeout

(* Operators named Mutant... break the one they precede the way a slip in the  *)
(* code would; with it, the property PROJECT.json pairs with it must fail.      *)

VARIABLES
    ped,      \* the engine's peds: alive, dead or gone from the pool
    player,   \* where the player is
    loading,  \* is_save_load_active
    pc,       \* the call of the frame that is running, "rest" between frames
    todo,     \* the cases of the tick's snapshot still to be processed
    cur,      \* the case being processed
    due,      \* its tasks collected for this tick
    prevLoading, \* g_prev_save_loading
    active,   \* g_active_crimes
    case,     \* the CrimeEvent of every slot
    crim,     \* CriminalComponent of every ped
    tracked,  \* g_tracked_criminal
    wanted,   \* g_pending_hit_and_run
    roads     \* places the engine's road switch holds closed

engine == <<ped, player, loading>>
frame == <<pc, todo, cur, due, prevLoading>>
store == <<active, case, crim, tracked, wanted, roads>>
vars == <<engine, frame, store>>

UNARMED == 0    \* weapon categories
MELEE == 1
FIREARM == 2
Weapon == {UNARMED, MELEE, FIREARM}
AV_RANGE_FIREARM == 75
AV_RANGE_MELEE == 35
CONSOLIDATE_RANGE == 40

\* A component: the worst weapon seen and whether its bearer still attacks.
NoCrime == [cat |-> UNARMED, attacking |-> FALSE, known |-> FALSE]
Component == [cat : Weapon, attacking : BOOLEAN, known : BOOLEAN]

\* A case's timer is timer_start in TIMING and spawn_time_ms while its first car
\* is awaited; it is read at no other time.
Never == -1     \* a clock that was not started
Age == {Never} \cup 0..MaxAge
Task ==
    [kind : {"nearby", "spawn"}, of : 1..MAX_REINFORCEMENTS, unit : {0}, in : 0..ReinforceDelay]
    \cup [kind : {"unit"}, of : 0..MAX_REINFORCEMENTS, unit : 0..(MaxUnits - 1), in : {0}]
DispatchState == {"IDLE", "TIMING", "ON_SCENE", "CLEANUP"}
CrimeEvent ==
    [place : Places, criminals : SUBSET Peds, criminal : Peds \cup {NoPed}, firearm : BOOLEAN,
     state : DispatchState, cancelled : BOOLEAN, spawnPending : BOOLEAN,
     vehicles : BOOLEAN, timer : Age, onScene : Age,
     newDeaths : 0..MaxNewDeaths, reinforcements : 0..MAX_REINFORCEMENTS,
     tasks : SUBSET Task, closed : BOOLEAN]

Live == {c \in active : ~case[c].cancelled}
Distance(x, y) == IF x > y THEN x - y ELSE y - x
CaseRange(gun) == IF gun THEN AV_RANGE_FIREARM ELSE AV_RANGE_MELEE
CaseOf(p) == {c \in Live : p \in case[c].criminals}

\* The order of CriminalThreatLevel; the component outlives the case.
Threat(m, p) ==
    IF ped[p] # "alive" \/ ~m[p].known THEN 0
    ELSE 2 * m[p].cat + (IF m[p].attacking THEN 1 ELSE 0)
\* Only an unarmed attacker is kept out of a case that is worse than he is.
ShouldMerge(m, c, w) ==
    \/ w \in {MELEE, FIREARM}
    \/ ~case[c].firearm /\ \A p \in case[c].criminals : Threat(m, p) < 2 * MELEE + 1

-----------------------------------------------------------------------------
(* Admission: which live cases a new one may take the place of.               *)

RemoteCases == {c \in Live : Distance(player, case[c].place) > CaseRange(case[c].firearm)}
Farthest(S) ==
    {c \in S : \A d \in S : Distance(player, case[d].place) <= Distance(player, case[c].place)}

MutantAdmissions(x, gun, policeShort) ==   \* one case too many near the player
    IF Distance(player, x) <= CaseRange(gun)
    THEN IF Cardinality(Live) <= MAX_CONCURRENT_CASES THEN {{}}
         ELSE {{c} : c \in Farthest(RemoteCases)}
    ELSE {}
\* The evictions that admit a crime at x: none when it is refused.
Admissions(x, gun, policeShort) ==
    IF Distance(player, x) <= CaseRange(gun)
    THEN IF Cardinality(Live) < MAX_CONCURRENT_CASES THEN {{}}
         ELSE {{c} : c \in Farthest(RemoteCases)}
    ELSE IF Cardinality(Live) >= MAX_CONCURRENT_CASES THEN {}
    ELSE IF gun
         THEN IF \E c \in RemoteCases : case[c].firearm THEN {}
              ELSE IF RemoteCases # {} THEN {{c} : c \in RemoteCases}
              ELSE {{}}
    ELSE IF Live = {} /\ policeShort THEN {{}}
    ELSE {}

NewCase(p, x, gun) ==
    [place |-> x, criminals |-> {p}, criminal |-> p, firearm |-> gun, state |-> "IDLE",
     cancelled |-> FALSE, spawnPending |-> FALSE, vehicles |-> FALSE, timer |-> Never,
     onScene |-> Never, newDeaths |-> 0, reinforcements |-> 0,
     tasks |-> {}, closed |-> FALSE]
Vacant ==      \* an erased case
    [NewCase(NoPed, CHOOSE x \in Places : TRUE, FALSE) EXCEPT !.criminals = {}]

\* A case keeps its primary while nobody living in it is a greater threat.
Primaries(k, m) ==
    LET living == {p \in k.criminals : ped[p] = "alive"}
        worst == {p \in living : \A q \in living : Threat(m, q) <= Threat(m, p)}
    IN IF k.cancelled \/ worst = {} \/ k.criminal \in worst THEN {k.criminal} ELSE worst

\* update_primary_criminal_by_threat over the cases open and components m.
Reprioritize(open, cases, m, target) ==
    \E lead \in [open -> Peds \cup {NoPed}] :
        /\ \A c \in open : lead[c] \in Primaries(cases[c], m)
        /\ case' = [c \in Slots |->
                       IF c \in open THEN [cases[c] EXCEPT !.criminal = lead[c]] ELSE cases[c]]
        /\ LET switched == {c \in open : lead[c] # cases[c].criminal}
           IN tracked' \in IF switched = {} THEN {target} ELSE {lead[c] : c \in switched}

Accused(p, w, hurt) ==
    [crim EXCEPT ![p] =
        [cat |-> IF crim[p].known /\ crim[p].cat > w THEN crim[p].cat ELSE w,
         attacking |-> hurt \/ w = FIREARM, known |-> TRUE]]

\* The handler of CrimeReportEvent.
Report(p, x, w, hurt, policeShort) ==
    LET m == Accused(p, w, hurt)
        gun == w = FIREARM
        near == {c \in Live : Distance(x, case[c].place) <= CONSOLIDATE_RANGE}
        nearest == {c \in near : \A d \in near :
                        Distance(x, case[c].place) <= Distance(x, case[d].place)}
        admissions == Admissions(x, gun, policeShort)
    IN /\ crim' = m
       /\ \/ \E c \in nearest :                       \* try_consolidate_crime
                /\ ShouldMerge(m, c, w)
                /\ active' = active
                /\ Reprioritize(active,
                       [case EXCEPT ![c].criminals = @ \cup {p}, ![c].firearm = @ \/ gun],
                       m, tracked)
          \/ /\ nearest = {} \/ \E c \in nearest : ~ShouldMerge(m, c, w)
             /\ IF admissions = {}
                THEN active' = active /\ Reprioritize(active, case, m, tracked)
                ELSE \E evicted \in admissions, c \in Slots \ active :
                        /\ active' = active \cup {c}
                        /\ Reprioritize(active \cup {c},
                               [d \in Slots |->
                                   IF d = c THEN NewCase(p, x, gun)
                                   ELSE IF d \in evicted THEN [case[d] EXCEPT !.cancelled = TRUE]
                                   ELSE case[d]],
                               m, p)

-----------------------------------------------------------------------------
(* The hooks: they run between frames and while the scripts run.              *)

HookTime == pc = "rest"
MutantHook == HookTime /\ UNCHANGED <<engine, frame>>   \* hooks act on a load
Hook == HookTime /\ ~loading /\ UNCHANGED <<engine, frame>>

\* proxy_report_crime, proxy_generate_damage_event and the damage event's
\* constructors: a ped, dead ones included, is seen committing a crime.
ReportCrime(p) ==
    /\ Hook
    /\ ped[p] # "gone"
    /\ \E x \in Places, w \in Weapon, hurt, policeShort \in BOOLEAN :
           Report(p, x, w, hurt, policeShort)
    /\ UNCHANGED <<wanted, roads>>

\* The handler of WeaponSwitchEvent: a worse weapon makes p attack, a lesser one flee.
Rearmed(p, w) ==
    IF ~crim[p].known \/ w = crim[p].cat THEN crim
    ELSE [crim EXCEPT ![p].cat = IF w > @ THEN w ELSE @, ![p].attacking = w > crim[p].cat]
\* proxy_SetCurrentWeapon
SwitchWeapon(p) ==
    /\ Hook
    /\ ped[p] = "alive"
    /\ CaseOf(p) # {}
    /\ \E w \in Weapon :
          /\ crim' = Rearmed(p, w)
          /\ \E c \in CaseOf(p) :
                case' = [case EXCEPT ![c].firearm = @ \/ w = FIREARM]
    /\ UNCHANGED <<active, tracked, wanted, roads>>

MutantLifted(ended) == roads   \* the cordon's flag is cleared, not the roads
\* cleanup_single_case_vehicles, over all the cases ended: their cordons are
\* lifted, whoever else stands there.
Lifted(ended) == roads \ {case[c].place : c \in {d \in ended : case[d].closed}}
Cleaned(k) == [k EXCEPT !.closed = FALSE, !.vehicles = FALSE]

\* Who is sought once p is out of case c, left behind by its other suspects.
MutantHeirs(c, p) == {case[c].criminal}   \* the primary is not handed over
Heirs(c, p) ==
    IF case[c].criminal # p \/ case[c].criminals = {p} THEN {case[c].criminal}
    ELSE case[c].criminals \ {p}

\* proxy_register_kill: a criminal leaves every case, the last one ends it. A
\* kill while dispatch is paused (a load, a scene transition, an unstable world)
\* goes unseen.
RegisterKill(p) ==
    /\ HookTime
    /\ ped[p] = "alive"
    /\ ped' = [ped EXCEPT ![p] = "dead"]
    /\ UNCHANGED <<player, loading, frame, active, wanted>>
    /\ \/ UNCHANGED <<case, crim, tracked, roads>>
       \/ /\ ~loading
          /\ LET left(c) == case[c].criminals \ {p}
                 solved == {c \in CaseOf(p) : left(c) = {}}
                 deciding == {c \in CaseOf(p) : case[c].criminal = p \/ c \in solved}
             IN \E heir \in [CaseOf(p) -> Peds \cup {NoPed}] :
                  /\ \A c \in CaseOf(p) : heir[c] \in Heirs(c, p)
                  /\ case' = [c \in Slots |->
                        IF c \notin CaseOf(p) THEN case[c]
                        ELSE [(IF c \in solved THEN Cleaned(case[c]) ELSE case[c])
                                EXCEPT !.criminals = left(c), !.criminal = heir[c],
                                       !.cancelled = c \in solved]]
                  /\ roads' = Lifted(solved)
                  /\ tracked' \in IF tracked # p \/ deciding = {} THEN {tracked}
                                  ELSE {IF c \in solved THEN NoPed ELSE heir[c] : c \in deciding}
                  /\ crim' = [crim EXCEPT ![p] = NoCrime]

\* register_pending_hit_and_run: the list holds a driver once.
RegisterPending(p) == wanted' = wanted \cup {p}
\* handle_cop_death_near_case: the nearest case within 80 m of the dead cop.
CopDies ==
    /\ Hook
    /\ \E c \in Live, killer \in Peds, byVehicle \in BOOLEAN :
          /\ ped[killer] # "gone"
          /\ IF killer \in case[c].criminals
             THEN /\ case[c].newDeaths < MaxNewDeaths
                  /\ case' = [case EXCEPT ![c].newDeaths = @ + 1]
                  /\ UNCHANGED wanted
             ELSE /\ byVehicle
                  /\ Cardinality(wanted) < MaxWanted
                  /\ RegisterPending(killer)
                  /\ UNCHANGED case
    /\ UNCHANGED <<active, crim, tracked, roads>>

\* The engine takes a ped out of its pool; no hook of the dispatcher runs.
Despawn(p) ==
    /\ HookTime
    /\ ped[p] # "gone"
    /\ ped' = [ped EXCEPT ![p] = "gone"]
    /\ UNCHANGED <<player, loading, frame, store>>

PlayerMoves ==
    /\ HookTime
    /\ player' \in Places \ {player}
    /\ UNCHANGED <<ped, loading, frame, store>>

\* The end of the last load was polled: its ten quiet seconds outlast a frame.
BeginLoad ==
    /\ HookTime
    /\ ~loading /\ ~prevLoading
    /\ loading' = TRUE
    /\ UNCHANGED <<ped, player, frame, store>>

\* The load ends after frames that saw it (poll_save_load_hydration_state is
\* itself polled), in a new world.
EndLoad ==
    /\ pc = "rest"
    /\ loading /\ prevLoading
    /\ loading' = FALSE
    /\ ped' = [p \in Peds |-> "alive"]
    /\ UNCHANGED <<player, frame, store>>

-----------------------------------------------------------------------------
(* The frame: proxy_the_scripts_process.                                      *)

Older(age) == IF age = Never \/ age = MaxAge THEN age ELSE age + 1
Aged(k) ==
    [k EXCEPT !.timer = Older(@), !.onScene = Older(@),
              !.tasks = {[t EXCEPT !.in = IF @ > 0 THEN @ - 1 ELSE 0] : t \in @}]

\* purge_dispatch_state_for_save_load: no case of the old world is left.
Purge ==
    /\ active' = {}
    /\ case' = [c \in Slots |-> Vacant]
    /\ roads' = Lifted(active)
    /\ tracked' = NoPed
    /\ wanted' = {}
    /\ UNCHANGED crim

\* poll_save_load_transition; late says whether time passed since the last poll.
Poll(late) ==
    /\ prevLoading' = loading
    /\ IF loading /\ ~prevLoading THEN Purge
       ELSE /\ case' = [c \in Slots |-> IF late /\ c \in active THEN Aged(case[c]) ELSE case[c]]
            /\ UNCHANGED <<active, crim, tracked, wanted, roads>>

BeginFrame ==
    /\ pc = "rest"
    /\ Poll(FALSE)
    /\ UNCHANGED <<engine, pc, todo, cur, due>>

\* The tick runs unless dispatch is paused, every 250 ms.
EndScripts(late) ==
    /\ pc = "rest"
    /\ Poll(late)
    /\ pc' \in {"rest"} \cup (IF loading THEN {} ELSE {"hunt"})
    /\ UNCHANGED <<engine, todo, cur, due>>

\* any_case_deploying_resources, count_on_scene_cases.
Deploying == \E c \in Live : case[c].state = "TIMING" \/ case[c].tasks # {}
HasIdlePolice(idleNearby) ==
    /\ Cardinality(Live) < MAX_CONCURRENT_CASES
    /\ ~Deploying
    /\ idleNearby \/ \A c \in Live : case[c].state # "ON_SCENE"

\* tick_pending_wanted: drop who is gone, too old or in a case; pursue one.
Hunt ==
    /\ pc = "hunt"
    /\ pc' = "cool"
    /\ UNCHANGED <<engine, todo, cur, due, prevLoading, roads>>
    /\ \E expired \in SUBSET wanted :
         LET left == {p \in wanted \ expired : ped[p] = "alive" /\ CaseOf(p) = {}}
         IN \/ \E p \in left, x \in Places, policeShort, idleNearby \in BOOLEAN :
                 /\ HasIdlePolice(idleNearby)
                 /\ Admissions(x, FALSE, policeShort) # {}
                 /\ Report(p, x, MELEE, FALSE, policeShort)
                 /\ wanted' = left \ {p}
            \/ /\ wanted' = left
               /\ UNCHANGED <<active, case, crim, tracked>>

\* The criminals' part of the TickEvent handler: a victim died or 8 s passed.
CoolDown ==
    /\ pc = "cool"
    /\ pc' = "case"
    /\ todo' = Live
    /\ \E calm \in SUBSET {p \in Peds : crim[p].attacking} :
         /\ crim' = [p \in Peds |-> IF ped[p] # "alive" THEN NoCrime
                                    ELSE [crim[p] EXCEPT !.attacking = @ /\ p \notin calm]]
         /\ Reprioritize(active, case, crim', tracked)
    /\ UNCHANGED <<engine, cur, due, prevLoading, active, wanted, roads>>

\* dispatch_tick_process_crime up to the collection of the due tasks.
BeginCase(c) ==
    /\ pc = "case"
    /\ c \in todo
    /\ todo' = todo \ {c}
    /\ LET left == {p \in case[c].criminals : ped[p] # "gone"}
           ready == IF left = {} THEN {} ELSE {t \in case[c].tasks : t.in = 0}
       IN /\ pc' = IF left = {} THEN "case" ELSE "tasks"
          /\ cur' = IF left = {} THEN NoCase ELSE c
          /\ due' = ready
          /\ \E p \in IF case[c].criminal \in left \/ left = {} THEN {case[c].criminal} ELSE left :
                /\ case' = [case EXCEPT ![c].criminals = left, ![c].criminal = p,
                                       ![c].cancelled = (left = {}), ![c].tasks = @ \ ready]
                /\ tracked' \in IF p = case[c].criminal THEN {tracked} ELSE {tracked, p}
    /\ UNCHANGED <<engine, prevLoading, active, crim, wanted, roads>>

Step(new) ==
    /\ case' = [case EXCEPT ![cur] = new]
    /\ UNCHANGED <<engine, prevLoading, active, crim, tracked, wanted>>

\* case_vehicles is followed while the first car is awaited: it is read then.
Joined(k, car) == [k EXCEPT !.vehicles = @ \/ (car /\ k.spawnPending)]

\* A nearby attempt; it may send a car of the case's own.
NearbyTask ==
    /\ pc = "tasks"
    /\ \E t \in due, car \in BOOLEAN :
         /\ t.kind = "nearby"
         /\ due' = due \ {t}
         /\ Step(Joined(case[cur], car))
    /\ UNCHANGED <<pc, todo, cur, roads>>

FirstUnit(n) == [kind |-> "unit", of |-> n, unit |-> 0, in |-> 0]

\* A reinforcement: nearby cops once more, else a chain of spawned cars.
SpawnTask ==
    /\ pc = "tasks"
    /\ \E t \in due, car, mobilized \in BOOLEAN :
         /\ t.kind = "spawn"
         /\ due' = due \ {t}
         /\ Step(IF mobilized THEN Joined(case[cur], car)
                 ELSE [case[cur] EXCEPT !.tasks = @ \cup {FirstUnit(t.of)}])
    /\ UNCHANGED <<pc, todo, cur, roads>>

\* One unit of a chain: it is identified and put on the case, or given up; then
\* the next one. Only the first unit starts the scene's clock.
UnitTask ==
    /\ pc = "tasks"
    /\ \E t \in due, arrives, last \in BOOLEAN :
         /\ t.kind = "unit"
         /\ due' = due \ {t}
         /\ LET k == case[cur]
                next == IF last \/ t.unit + 1 = MaxUnits THEN {}
                        ELSE {[t EXCEPT !.unit = @ + 1]}
            IN Step([Joined(k, arrives /\ t.unit # 0) EXCEPT
                  !.tasks = @ \cup next,
                  !.vehicles = @ /\ ~(arrives /\ t.unit = 0),
                  !.spawnPending = @ /\ ~(arrives /\ t.unit = 0),
                  !.onScene = IF arrives /\ t.unit = 0 THEN 0 ELSE @,
                  !.timer = IF arrives /\ t.unit = 0 THEN Never ELSE @])
    /\ UNCHANGED <<pc, todo, cur, roads>>

TasksDone ==
    /\ pc = "tasks"
    /\ due = {}
    /\ pc' = "state"
    /\ UNCHANGED <<engine, todo, cur, due, prevLoading, store>>

InState(s) ==
    /\ pc = "state"
    /\ case[cur].state = s
    /\ pc' = "case"
    /\ cur' = NoCase
    /\ UNCHANGED <<todo, due>>

\* dispatch_tick_state_idle: the cordon, then ON_SCENE if a cop saw it.
Idle ==
    /\ InState("IDLE")
    /\ LET k == [case[cur] EXCEPT !.closed = TRUE]
       IN \/ Step([k EXCEPT !.state = "ON_SCENE", !.onScene = 0])
          \/ Step([k EXCEPT !.state = "TIMING", !.timer = 0])
    /\ roads' = roads \cup {case[cur].place}

\* dispatch_tick_state_timing.
TooFar(s) == InState(s) /\ Step([case[cur] EXCEPT !.state = "CLEANUP"]) /\ UNCHANGED roads
TimingSeen ==
    /\ InState("TIMING")
    /\ Step([case[cur] EXCEPT !.state = "ON_SCENE", !.onScene = 0, !.timer = Never])
    /\ UNCHANGED roads
MutantTimingMobilizes ==   \* on_scene_start is not stamped
    /\ InState("TIMING")
    /\ Step([case[cur] EXCEPT !.state = "ON_SCENE", !.timer = Never])
    /\ UNCHANGED roads
TimingMobilizes ==
    /\ InState("TIMING")
    /\ Step([case[cur] EXCEPT !.state = "ON_SCENE", !.onScene = 0, !.timer = Never])
    /\ UNCHANGED roads
TimingWaits ==
    /\ InState("TIMING")
    /\ case[cur].timer < DispatchDelay
    /\ Step(case[cur])
    /\ UNCHANGED roads
TimingSpawns ==
    /\ InState("TIMING")
    /\ case[cur].timer >= DispatchDelay
    /\ Step([case[cur] EXCEPT !.state = "ON_SCENE", !.spawnPending = TRUE, !.timer = 0,
                              !.onScene = Never, !.tasks = @ \cup {FirstUnit(0)}])
    /\ UNCHANGED roads

\* dispatch_tick_state_on_scene. The other services and the reroutes put cars
\* on a case and take them off (CaseFleet): others says what is left of them.
MutantReinforced(k) ==   \* sent before the cap is looked at
    [k EXCEPT !.newDeaths = 0, !.reinforcements = @ + k.newDeaths]
Reinforced(k) ==
    LET n == IF k.newDeaths < MAX_REINFORCEMENTS - k.reinforcements THEN k.newDeaths
             ELSE MAX_REINFORCEMENTS - k.reinforcements
        calls == {[kind |-> q, of |-> r, unit |-> 0, in |-> ReinforceDelay] :
                     q \in {"nearby", "spawn"}, r \in (k.reinforcements + 1)..(k.reinforcements + n)}
    IN [k EXCEPT !.newDeaths = 0, !.reinforcements = @ + n, !.tasks = @ \cup calls]
MutantTimedOut(k) ==   \* no timeout while no car has come
    k.onScene # Never /\ k.onScene > (IF k.spawnPending THEN ArrivedTimeout ELSE SceneTimeout)
TimedOut(k) ==
    IF k.spawnPending /\ ~k.vehicles THEN k.timer > PendingTimeout
    ELSE k.onScene # Never /\ k.onScene > (IF k.spawnPending THEN ArrivedTimeout ELSE SceneTimeout)
Scene ==
    /\ InState("ON_SCENE")
    /\ \E others \in BOOLEAN :
         LET k == [Reinforced(case[cur]) EXCEPT !.vehicles = others /\ case[cur].spawnPending]
         IN Step([k EXCEPT !.state = IF TimedOut(k) THEN "CLEANUP" ELSE @])
    /\ UNCHANGED roads

MutantNoneLeft(gone) == gone # {}   \* the fallback whenever a case ended
NoneLeft(gone) == active \subseteq gone
\* The garbage collection and, without a case, the fallback clean-up.
Ended == {c \in active : case[c].cancelled \/ case[c].state = "CLEANUP"}
Collect ==
    /\ pc = "case"
    /\ todo = {}
    /\ pc' = "rest"
    /\ active' = active \ Ended
    /\ case' = [c \in Slots |-> IF c \in Ended THEN Vacant ELSE case[c]]
    /\ roads' = Lifted(Ended)
    /\ tracked' = IF NoneLeft(Ended) THEN NoPed ELSE tracked
    /\ wanted' = IF NoneLeft(Ended) THEN {} ELSE wanted
    /\ UNCHANGED <<engine, todo, cur, due, prevLoading, crim>>


-----------------------------------------------------------------------------

Init ==
    /\ ped = [p \in Peds |-> "alive"]
    /\ player \in Places
    /\ loading = FALSE
    /\ pc = "rest" /\ todo = {} /\ cur = NoCase /\ due = {} /\ prevLoading = FALSE
    /\ active = {} /\ case = [c \in Slots |-> Vacant]
    /\ crim = [p \in Peds |-> NoCrime]
    /\ tracked = NoPed /\ wanted = {} /\ roads = {}

Hooks ==
    \/ \E p \in Peds : ReportCrime(p) \/ SwitchWeapon(p) \/ RegisterKill(p) \/ Despawn(p)
    \/ CopDies \/ PlayerMoves \/ BeginLoad \/ EndLoad
Tick ==
    \/ Hunt \/ CoolDown \/ \E c \in Slots : BeginCase(c)
    \/ NearbyTask \/ SpawnTask \/ UnitTask \/ TasksDone
    \/ Idle \/ TooFar("TIMING") \/ TooFar("ON_SCENE") \/ Scene
    \/ TimingSeen \/ TimingMobilizes \/ TimingWaits \/ TimingSpawns
    \/ Collect
Next == Hooks \/ BeginFrame \/ EndScripts(FALSE) \/ EndScripts(TRUE) \/ Tick

Spec == Init /\ [][Next]_vars

\* The game loop runs frames, time passes in them, and the calls of a tick run to
\* the end. Scene transitions and unstable worlds do not last for ever: when no
\* load is on for good, ticks keep coming. Nothing is asked of hooks or loads.
TickBegins == EndScripts(TRUE) /\ pc' = "hunt"
Fairness == WF_vars(BeginFrame) /\ SF_vars(TickBegins) /\ WF_vars(Tick)
FairSpec == Spec /\ Fairness

-----------------------------------------------------------------------------
(* Properties.                                                                *)

TypeOK ==
    /\ ped \in [Peds -> {"alive", "dead", "gone"}]
    /\ player \in Places /\ loading \in BOOLEAN
    /\ pc \in {"rest", "hunt", "cool", "case", "tasks", "state"}
    /\ todo \subseteq Slots /\ cur \in Slots \cup {NoCase} /\ due \subseteq Task
    /\ prevLoading \in BOOLEAN
    /\ active \subseteq Slots /\ case \in [Slots -> CrimeEvent]
    /\ crim \in [Peds -> Component]
    /\ tracked \in Peds \cup {NoPed} /\ wanted \subseteq Peds /\ roads \subseteq Places

\* The criminal a live case sends its units after is one of its suspects, through
\* merges, changes of primary, kills and despawned peds.
PrimaryIsSuspect == \A c \in Live : case[c].criminal \in case[c].criminals

\* Evictions and refusals together keep the concurrent cases under the cap.
CasesAreCapped == Cardinality(Live) <= MAX_CONCURRENT_CASES

\* A case on scene that awaits no car has its clock running: without it the
\* on-scene timeout never comes.
SceneClockRuns ==
    \A c \in Live :
        case[c].state = "ON_SCENE" /\ ~case[c].spawnPending => case[c].onScene # Never

\* Roads stay closed only where an open case holds a cordon: whichever way a
\* case ended (kill, timeout, eviction, purge), its cordon was lifted.
EveryClosureHasItsCase ==
    roads \subseteq {case[c].place : c \in {d \in active : case[d].closed}}

\* Once a frame has seen the load, no case of the old world is left or opened.
LoadEndsEveryCase == loading /\ prevLoading => active = {} /\ wanted = {}

\* A hit-and-run driver is dropped by the tick only when gone, expired or put
\* in a case, or when no case at all is left.
FugitiveIsKept ==
    [][\A p \in wanted : p \notin wanted' /\ ped[p] = "alive" =>
          pc = "hunt" \/ active' = {}]_vars

\* What the proofs need besides: the tick runs while no load is on, over cases that
\* are still live, and visits none before its snapshot is taken.
TickIsWhole ==
    /\ pc # "rest" => ~loading
    /\ todo \subseteq Live /\ (pc \in {"rest", "hunt", "cool"} => todo = {})
    /\ pc \in {"tasks", "state"} => cur \in active
IInv ==
    /\ TypeOK /\ TickIsWhole
    /\ PrimaryIsSuspect /\ CasesAreCapped /\ SceneClockRuns
    /\ EveryClosureHasItsCase /\ LoadEndsEveryCase

\* Every case ends, unless its first car was lost and another stands in for it:
\* then it waits for good.
Stranded(c) == case[c].spawnPending /\ case[c].onScene = Never /\ case[c].vehicles
CaseEndsOrStrands == \A c \in Slots : c \in active ~> (c \notin active \/ Stranded(c))

=============================================================================
