# TLA+ models of Zygisk-DispatchModule

The module is loaded into a game process and takes over its police. It hooks the
game's functions, learns of crimes, opens cases, sends police, ambulances, fire
trucks and helicopters to them, and cleans up behind them. The repository holds
two implementations, and both are modelled:

* the C++ module, `src/src/main/cpp`, in which a crime seen by a hook becomes a
  case at once: `CrimeCases`, `CaseFleet`, `CopDuty`, `SaveLoad`;
* the Rust library, `src/rust/crates` (`docs/BASELINE.md` describes its ship path), in
  which a witness must first report the crime by phone, or a cop by radio:
  `ReportPipeline`, `PoliceSpawn`, `Custody`.

## Inventory

### C++

Everything of the dispatcher runs on the game thread. A frame is
`proxy_the_scripts_process` (`dispatch_tick.cpp`): poll for a save load, run the
game's scripts, poll again, and every 250 ms `on_main_thread_tick`
(`dispatch_tick_main.cpp`), which dispatches a TickEvent to the ECS systems and
then processes every case. The other hooks run between frames and from the
scripts. There is no concurrency but this interleaving; mutexes guard every
container all the same, most of them not recursive.

| Part | State | Operations | Hard because |
| --- | --- | --- | --- |
| Crime hooks, consolidation, admission (`dispatch_hooks`, `dispatch_logic`, `dispatch_threat`, `ecs_systems`) | `g_active_crimes`, the components of criminals, `g_tracked_criminal` | report, arm, kill; merge, admit, evict, refuse | one suspect in several cases; the primary changes in four places |
| Case tick (`dispatch_tick*`) | state, timers and `pending_tasks` of a case | IDLE, TIMING, ON_SCENE, CLEANUP, collection, fallback, purge | clocks are reset in one state and read in another; a case ends in six ways |
| Hit-and-run list (`dispatch_hit_and_run`) | `g_pending_hit_and_run` | register, expire, pursue | waits for capacity that the cases take |
| Police spawn chains (`dispatch_police_spawn`) | tasks of a chain, vehicles claimed | spawn, identify, retry, respawn, next | a spawned car is looked for by model and distance, seconds later |
| Emergency services, helicopters (`dispatch_emergency_services`, `dispatch_heli_support`) | records by vehicle, flags of the case | evaluate, spawn, meet, transfer, refresh | records and cases refer to each other by address and id |
| Vehicles (`dispatch_reroute`, `dispatch_cop_response`, attack passes) | `g_vehicles_emptied`, `..._ordered_to_scene`, `case_vehicles` | order, empty, reroute, mobilize, bind | raw addresses, reused by the pool |
| Cops (`dispatch_cop_state`, `ecs_systems`, `dispatch_cop_response`) | components, bindings, driver locks, exits | attack, defend, release, send back to the car | a cop is ordered by hooks, tick, passes and engine |
| Save load (`hooks_stability`) | session, kind of load, recovery flags and clocks | the storage hooks, the poll, the fade recovery | mutual recursion; flags of one load seen by the next |
| Pointer guards, hook installation, stuck and civilian manoeuvres | maps of vehicles, addresses of functions | | engine memory, geometry |

What makes each correct:

* no more cases than the cap; each pursues one of its own suspects; every case
  ends; its cordon goes with it; none survives a load;
* a chain stays one chain, claims a vehicle once and ends; the orders given to
  vehicles and the records of services are forgotten with the last case; a record names a
  live case;
* a cop on his way to the wheel keeps it; a cop getting out is not sent back; all cops
  are released in the end; the tick returns;
* the recovery of one load never touches the next; a continued game stays one.

### Rust

Everything runs on the game thread. `TheScripts::Process` is hooked: once per
frame it runs `frame_tick` (`dispatch-hook/src/runtime.rs`). Between frames the
engine calls the other hooks (damage, kill, removal, event group). A hook that
fires *inside* a frame is refused by `with_runtime`, which is not reentrant, so
its news is lost.

| Part | State | Operations | Hard because |
| --- | --- | --- | --- |
| IncidentStore (`dispatch-case/incident.rs`) | incidents with kinds, entities, `reporting_exhausted`; an index from addresses to incidents | `ingest`, `find_correlated`, `mark_reporting_exhausted` | a signal must reach the incident it belongs to; addresses are reused |
| WitnessReportCoordinator (`witness_report.rs`) | vector of sessions, this frame's observations | elect, dialing, active, ended, interrupted, causal signal, tick | lookups find the *first* session of a reporter; calls end in many orders |
| CaseStore (`store.rs`, `record.rs`) | cases, index by incident | open, update, finalize, tick, despawn, cleanup | a case must be opened once, closed once, removed once |
| CivilianReportDriver (`dispatch-hook/civilian_report.rs`) | `task_dispatched`, `last_task_phase`, both per ped | assign the phone task, poll it, turn transitions into callbacks | memory per ped while sessions are per incident |
| Engine phone task (external, polled in `dispatch-exec/tasks.rs`) | sub-task of each ped | advances between frames; may be aborted | the poll sees phases, not events |
| Runtime (`runtime.rs`, `lifecycle.rs`, `causation.rs`) | the stores, signal queues, pointer caches | `tick_active`, `publish_signal`, the hooks | order of the calls in a frame; reentrancy |
| Perception (`event_perception.rs`, `witness_scan.rs`) | bounded queue of native events, backlog of scans | observe, drain | dropped and late observations |
| ResourceRegistry, EntityRef (`dispatch-core`) | ids by pool key; identity of an entity | adopt, release, compare | slots, generations and addresses are recycled |
| ExecCoordinator, timing, playbook (`dispatch-exec`) | pending tasks with due times, per-case progress | drain, timing, on scene, reinforcement | many conditions over one wall clock that runs on while frames stop |
| Spawn chains (`spawn.rs`) | `spawn_chains`: plan, held units, completed, released | begin, spawn a unit, release, timeout | a timeout races a late unit; two chains of one case share its flags |
| Response (`response.rs`) | `case_vehicles`, `vehicles_ordered_to_scene` | commit, mobilize nearby cops | a car may be held by one case and mobilized by another |
| Staging (`staging.rs`) | counted cordons around held units | begin, end | a cordon is found by distance, which is not transitive |
| Arrest (`arrest.rs`) | arrest states per case, transports with prisoners, `custody_criminals` | apprehend, depart, release, sync | two cases know one criminal; peds and cars vanish |
| Reroute, threat, EMS | truck flags, pending trucks | reroute, schedule, spawn | two cases want one car |
| Gate and loader (`gate.rs`, `loader.rs`) | cached gate inputs | refresh | the cached answer is stale for some frames |
| FFI, symbols, inline hooks, wanted and population overrides, zygisk glue | none of the program's own | | engine memory and machine code |

What makes each correct:

* an incident is reported by one session and opens at most one case;
* a case waits for its caller only while the caller is on the line, is closed
  exactly when the call is over, and is not changed afterwards;
* a lost caller (hurt, killed, despawned, seen or unseen by a hook) leaves a
  case marked as interrupted;
* every report ends, and its case reaches the dispatch timer;
* an identity names one entity, however slots and addresses are recycled;
* a spawned unit is released or given back, whatever order the timeout and the
  spawn come in; a criminal is in one custody; a case is removed in the end.


## Modules

| Module | Models |
| --- | --- |
| `CrimeCases` | C++: crimes into cases, admission, the case tick and its timers, the hit-and-run list, cordons, the purge of a save load |
| `CaseFleet` | C++: vehicles of the cases: spawn chains, services, helicopters, reroutes, orders, clean-up |
| `CopDuty` | C++: cops: targets, self-defence, exits, bindings and driver locks, release |
| `SaveLoad` | C++: the session of a save load and the recovery of its fade |
| `IncidentReporting` | Rust, abstract: an incident is seen, reported, dropped or closed |
| `ReportPipeline` | Rust: incidents, calls, cases, the phone driver; implements `IncidentReporting` |
| `Staging` | Rust: counted cordons, found by nearness; instantiated by `PoliceSpawn` |
| `PoliceSpawn` | Rust: response, spawn chains, release and timeout, top-ups |
| `Custody` | Rust: arrest, transports, the attack pass that must respect them |
| `ReportPipeline_proofs`, `PoliceSpawn_proofs` (with the lemmas of `Staging_proofs`), `Custody_proofs`, `CrimeCases_proofs`, `CaseFleet_proofs`, `CopDuty_proofs`, `SaveLoad_proofs` | theorems |
| `MC...` | the instances TLC checks |

The modules of one side meet at what they leave open. `CrimeCases` decides when a
case opens, sends cars and ends; `CaseFleet` lets a case open, send and end whenever it
may, and decides what becomes of cars; `CopDuty` lets suspects come and go and cars move
whenever they may. `SaveLoad` says when a load is on; in `CrimeCases` it begins and
ends at any time. What holds under every such choice holds of the composition.
`Custody` takes from `PoliceSpawn` that a case watches its arrests once cars were sent.

In each module the game thread is a program counter (`pc`, `stage`, `calls`): hooks
are enabled where the game can call them, and a tick that has begun runs call by call.

### CrimeCases: state and actions

* `active` is `g_active_crimes`, `case[c]` a CrimeEvent, `crim[p]` the
  CriminalComponent, `tracked`, `wanted`, `roads` the primary on the player's
  mind, the hit-and-run list and the road switches held off. Slots are reused.
* `ReportCrime`, `SwitchWeapon`, `RegisterKill`, `CopDies`, `Despawn` are hooks and the
  engine. A report merges into a case of its suspect or a near one, else
  `Admissions` gives every set of cases that may have to go for it (and none, when
  it is refused), with the threats and distances of `dispatch_logic.cpp`.
* A frame is `BeginFrame` (poll), the scripts, `EndScripts` (poll, and the tick
  if it is due), `Hunt`, `CoolDown`, then per case `BeginCase`, its due tasks
  (`NearbyTask`, `SpawnTask`, `UnitTask`), `TasksDone` and the step of its state, and
  `Collect`, which erases ended cases and, with the last one, everything else.
* Clocks count ticks up to `MaxAge`, past the last threshold. `timer` is
  `timer_start` in TIMING and `spawn_time_ms` later: no state reads both.

Abstracted: places are points on a line; a kill may be one that no handler sees;
`EndScripts(FALSE)` is a frame without a tick (the 250 ms have not passed, the world is
not stable, the module is paused); vehicles of a case are followed only as long as
its first car is awaited; a load begins only when the last one was seen to end.

### CaseFleet: state and actions

* `model[v]` is what the pool keeps in a slot; `orders` the two sets of addresses;
  `record[v]` the service record; `cars[c][v]` how often case c lists v, since the
  list is a vector that some paths append to unseen.
* Between ticks: `Despawn`, `Appear`, `Open`, `Cancel`, `Purge`. A tick:
  `BeginTick` (stuck services are rescued, cop cars off the lists are bound, driverless
  cars written off), `ChooseReroutes`, `Reroute`*, `Evaluate`, `GlobalFire` (prunes the
  records), `RefreshRecord`*, then per case `Visit` (siren refresh), its due tasks,
  and the step of its state; last `EndTick`. At the scene that step is `OnScene` (the
  attack pass, which may empty any car), as many `Reinforces` as waves become due, a
  `SendsHeli` at most, and `LeavesScene`.
* A chain is one task, `spawn` or `identify`, that schedules its successor
  (`schedule_unit_at`, `finalize_spawned_unit`, `schedule_next_unit`), with the units
  claimed so far.

Abstracted: distance, priority, threat and who sits where are answers of the
engine (`Answers`); motion, lead car, exits and casualty counts have no part here; IDLE
and TIMING are one state, "open"; equal tasks of a service due together count once;
listings of one car moved by one reroute pass move together. A
fire that waits for its truck survives the purge, as in the code. The trackers of
stuck vehicles are not followed (see "Not modelled").

### CopDuty: state and actions

* `book`, `foe`, `aim` are the cop's two components; `told` the enter-car task
  under way, `bound`, `lock`, `exits`, `stamped` the four maps `dispatch_cop_state` keeps:
  binding, driver lock, exit (8 s) and the stamp of an enter command (1.5 s). `told` is the
  engine's: the fallback, which empties the four maps, leaves it as it is.
* `BeginTick` starts the TickEvent, `TickCop` is what `ecs_systems.cpp` does with one
  cop (defend, attack, release), `BeginCases` and `Visit` are the passes of the
  cases, `EndTick` the fallback when none is left. Hits, exits, arrivals, deaths,
  removals, purges come between ticks.

Abstracted: weapons; `has_exited_vehicle` and `is_in_vehicle`, which are re-read from
the engine before they are used; pool handles beside addresses; civilians at the wheel.
The 500 ms cache of suspects is taken as fresh.

### SaveLoad: state and actions

* `loading`, `failed`, `gs`, `fade`, `skip`, `world`, `generic` belong to the engine; `m` holds
  the module's flags; a clock is kept as the last threshold it passed.
* The poll and the recovery of the fade call each other. `calls` is the stack: a
  frame keeps what its call read when it began, which is how a stale value is used
  by an outer call. `Kick`, `KickAgain`, `ForceFade`, `Advance`, `PollReturns`, `HookReturns`
  are the pieces of these calls between the nested ones; the storage hooks are
  one action each.
* `MaxCalls` = 4 is the thread's stack. `StackOverflows` stands for the crash of a
  recursion without end, after which the game starts anew.

Abstracted: the overlay that game state 9 leaves, string lengths, the HUD and touch
layout restored after a load, the 30 ms before a kick; the queue of resources is
drained or not, as it likes; two abandonments after 120 s are one.

### ReportPipeline: state and actions

* `incidents`, `session`, `cases` are the three stores. An id is a place in a
  sequence; a session is kept under its incident (there is one at most, since
  election exhausts the incident) with `rank`, its place in the code's vector,
  because the code's `find` returns the first match.
* `dispatched`, `lastPhase` are the driver's two collections.
* `ped`, `task` belong to the engine: alive, dead (a corpse still in the pool)
  or gone; and the phone sub-task.
* `stage` is the place in `tick_active`. A frame is
  `DrainEvents`, `ReporterLost`*, `RetainOpen`, `CasesTick`, `StartReports`,
  `ReportByRadio`/`AssignMobilePhone`*, `Assigned`, `TrackMissing`/`TrackPhase`*,
  `EndFrame`. The starred steps are iterations of a loop. No hook acts within a
  frame, so the order of iterations is the only choice, and it is left open: the
  loops run over a vector, whose order is one of those checked.
* Handlers of the coordinator are operators on a *desk*, the pair of sessions
  and cases (`OnActive`, `OnEnded`, ...), because hooks and frame steps call them.
* `DamageHit`, `DamageCaller`, `RegisterKill`, `RemovePed` are the hooks; `LosePed`
  is the same engine event when the hook is refused or the gate is shut.

Abstracted: positions and distances (election keeps "saw before heard"), the
entities of a signal (it may reach any incident it could be indexed under, or
none), lists of perpetrators (their presence, and whether they carry a pool
generation, since `HashSet` lookups distinguish the two), clocks, serials, texts.

### PoliceSpawn: state and actions

* A frame is `BeginFrame(gap)` (time passed: `CaseStore::tick`, then
  `flush_globals_pending` collects the due tasks), one `TopUp`, `BeginChain`,
  `SpawnUnit`/`SpawnFails` or `ReleaseTimesOut` per due task, `ReleaseUnit`* and
  `FinishRelease` when a handler releases a batch, and one tick per case:
  `CommitNearby`, `CommitSpawn`, `QueueTopUp` or `TickIdly`.
* `agenda` is `pending_spawn` and `pending` in one: tasks with the time left. It is
  a set; of the queues' order `Before` keeps what can matter, a top-up before the
  spawn tasks and a chain's timeout before its units. Tasks of different chains
  come in any order.
* A chain is named by its case and its number in the case; the vehicle spawned
  for a unit by chain and place. `unit[k][i]` says what became of the unit:
  waiting is the code's `held_vehicles` of a batch not yet passed by the release
  loop; sent, refused (no live driver) and lost (left the registry while held) are
  what the loop does with it.
* `PoliceClue`, `CriminalGone`, `FinalizeReport`, `RemoveVehicle` come from hooks and
  from the report, between frames. `Init` picks the suspects a case knows of when
  its report ends.

Abstracted: the delay and clues that decide when a response is tried (it may be in
any frame), the retry and evaluation intervals, the models and places of the units
(any plan of 1 to `MaxUnits`, any place), sirens, occupants, transport cars, EMS
vehicles, reroute. `dispatch_sent` is the state OnScene. A vehicle removed while
`with_runtime` is taken is not seen by the code and not modelled here. No case is
removed: `should_enter_cleanup` refuses a case with a report channel, and each has
one.

### Custody: state and actions

* A frame is `BeginFrame` (`sync_custody_criminals`), then per case `BeginTick`,
  one of `LookAtFree`, `Hold`, `GiveBack` per criminal (an iteration of
  `tick_case_arrests`), and `Attack` or `EndTick`, which sync again.
* `heldIn[c][p]` is the arrest state: the car in which case c holds p, or `None`
  (apprehended and transport_vehicle are set together). `carried[v]` are the
  prisoners of a transport; `transport_vehicles` has v while there are any.
* `watched` stands for the condition of `coordinator.rs:289`: set when the
  on-scene clock starts, unset while a case
  waits for a top-up without any car, which `SpawnWaitEnds` shows to end; it
  happens at most `MaxPauses` times, as top-ups are capped.
* `seat`, `tasked`, `away` belong to the engine: where a criminal sits, whom some
  cop is set on, which transports are far from the player and long enough gone.

Abstracted: which cars are candidates (any registered one), positions and clocks,
`vehicles_emptied`, and the per-cop loop of the attack pass.

## Runs

| Run | Question | Instance | Outcome |
| --- | --- | --- | --- |
| `reporting` | safety of reports; refinement of `IncidentReporting`; every civilian report ends and its case is timed | a civilian and a cop, 2 incidents, 1 observation a frame | holds |
| `spawn` | cordons, pending flags, removed cars; every batch and wait ends | 1 case, 2 units and 1 top-up, frames that may stall | holds |
| `custody` | room, duty, holds, custody respected; every transport given back | 2 cases, 2 criminals (1 removable), 1 car with room for 1 | holds |
| `cases` | the primary is a suspect; fugitives are kept | 2 suspects, 2 slots, a cap of 1 | holds |
| `case_cap` | the cap, the cordons, the end of all cases at a load | 1 suspect, 3 slots, a cap of 2, 2 places out of range of each other | holds |
| `case_clock` | timers run, every case ends or strands | 1 suspect, 2 slots, 2 units, 1 reinforcement, all timeouts apart | holds |
| `saveload` | a load is not nudged for another; continue stays continue; what can recurse | all kinds of load, 4 nested calls | holds |
| `fleet` | chains neither fork, claim twice nor hang | 1 case, 2 slots, chains of up to 2 units, 1 reinforcement | holds |
| `services` | records name live cases; no order or record outlives the cases | 2 cases, 1 slot, fire truck and helicopter | holds |
| `copduty` | a driver on his way keeps the wheel, exits respected, everyone stands down | 2 cops, 1 suspect, 1 car, 1 loss at a time | holds |
| `two_drivers` | is one cop at most on his way to a wheel? | as `copduty` | no |
| `hung` | does the siren refresh return? | 1 case, 1 slot, fire truck | no |

### Bounds, and why they are enough

* Two suspects and two slots are the least for a merge, for a primary handed on and
  for an eviction followed by a new case in the same slot. `case_cap` has one slot
  more than the cap, so that an admission at the cap may put an evicted and a new case
  side by side before the collection, and two places, one out of range of the other,
  since eviction looks at the distance. Reinforcements play no part there and are 0.
* In `case_clock` the thresholds are 1, 2 and 3 ticks in the code's order (30, 45, 60 s),
  so a clock may be short of one and past another; two units and one reinforcement let
  one chain end while another spawns.
* `fleet` reuses two slots: the vehicle a chain looks for may be gone and another in
  its place; a chain of two claims both. `VEHICLE_IDENTIFY_MAX_ATTEMPTS` is 2, the least
  with a retry. `MaxDelay` = 0 lets every delay pass before the next visit; tasks of
  two chains still meet in one visit in any order, and a tick is any time after.
* In `services` two cases contend for one slot, which a truck, a helicopter and a
  patrol take in turn: an address that meant one means the other. `Sends` leaves out
  the ambulance, which takes the same path as the truck.
* In `saveload` every nested call repeats what the one below it does, unless a nudge
  or the end of the session intervenes; each of these happens once per load, so four
  levels show whether the recursion ends by itself.
* One car is what two cops contend for. With `MaxLost` = 1 one of two cops, or the
  suspect, is lost while the other acts.
* `MaxIncidents` = 2 is what the hazards of reporting need: one reporter elected for
  two incidents, a call resumed while another waits, a signal attached to the other
  call. The percepts are one that makes a case urgent and names a perpetrator by
  address, and one that does neither. `MCHits` has one explosion, the signal a damage
  hook can publish with or without a caller hurt.
* Times of `spawn` are in ticks: 2 between units (2.5 or 5 s), 6 to the release
  timeout (50 s), 2 to a top-up (4 s); one frame may swallow the timeout. Two units are
  the least for which one is held while another is spawned. Three places in a row, each
  near the next, are the least for which nearness is not transitive.
* Room for one prisoner makes two criminals enough to fill a car; sharing one
  criminal needs two cases. One criminal may be removed by the engine; the other not,
  since a removed one stays on his transport for ever (below).

### What the runs mean

* `PrimaryIsSuspect`: the primary changes in the kill hook, at a visit, on a despawn and
  by threat; none of them leaves a case after somebody it does not suspect.
  `FugitiveIsKept`: only its own pass, or the end of the last case, drops a fugitive.
* `CasesAreCapped`: evictions mark cases before the collection erases them, and the
  count looks at the mark. `EveryClosureHasItsCase`: cordons end with their case in all
  six ways a case can end. `LoadEndsEveryCase`: between the two polls of a frame hooks
  cannot put a case into a load that was seen.
* `CaseEndsOrStrands` is the strongest true form of "every case ends": see stranding
  below. `SceneClockRuns` is why the other cases end.
* `ListedOncePerChain`, `OneTaskPerChain`, `ChainEnds`: units are found by model and
  distance, retried and respawned from nested callbacks, and still a chain is one
  chain and claims no car twice; and a case comes to have no chain under way, found cars
  or not.
* `RecordNamesLiveCase`: records are moved by transfer while lists are rewritten by
  reroute, yet no record survives its case. `OrdersEndWithTheCases`: with the last
  case the vehicles emptied, the vehicles ordered and the records are forgotten, before
  the pool can reuse an address. It says nothing of the trackers of stuck vehicles, which
  do outlive the cases.
* `DriverKeepsTheWheel`: the lock has no timeout, and that is what it takes: binding and
  stamp alone would let a second driver in. No step but the fallback takes the lock from a
  cop on his way to the wheel or sends another there. The state it is meant to exclude,
  two cops on their way to one wheel, is reached through the fallback: `two_drivers` (see
  below). `LeavingIsNotSentBack`: a cop getting out is
  not ordered in by the release pass. `CopsStandDown`: though the fallback forgets
  bindings and locks, the TickEvent releases every cop that still has a component.
* `LoadIsNotNudged`: no game state is written into a load on the strength of a flag
  of an earlier one. `ContinueIsKept`: the menu's hooks, through which a continued game
  loads too, do not change its kind. `EndlessCallsAreStale`: what the poll and the recovery
  can do to each other is limited to loads that were given up or nudged already.
* `NoOrphanCase`, `CallAndCaseAgree`: however a call is lost, its case is closed with
  it. `OneCasePerIncident`: the exhausted flag and `has_case_for_incident` leave no gap.
  It depends on the driver acting on *changes* of the polled phase. `OneCallPerReporter`: a
  ped with several sessions serves them in turn. `FinalizedCaseIsFrozen`: late signals do
  not rewrite a closed record. `ImplementsReporting`: each incident goes through the
  abstract life. `CivilianReportRunsItsCourse`: interrupted, resumed, queued behind another
  call or failed, a civilian's session ends, and a case it opened comes to its timer.
* `CordonsMatchHolds`: shared cordons stay counted right though an end is matched by
  distance. `PendingIsServed`, `EveryBatchIsReleased`, `SpawnWaitEnds`: failed spawns, early
  releases and stalls never leave a case waiting. `NoStaleVehicle`: a removed car leaves
  every case, though a chain still names it.
* `TransportHasRoom`, `TransportIsOffDuty`, `PrisonersAreHeld`: though each case has its own
  arrest state of a shared criminal, a car is not overfilled, is on no order while it
  carries prisoners, and each of them is held by a case that will take him off.
  `CustodyIsLeftAlone`: a case attacked for in the same frame sees whom an earlier case
  apprehended. `TransportIsGivenBack`: unless its prisoner was removed.

Every property of a passing run has a mutant: a form of one definition with a
plausible slip (an operator named `Mutant...` beside it, or a mapped definition
changed) under which TLC finds the property violated.

## Fairness

* `CrimeCases`: WF of `BeginFrame` and `Tick`: the game runs frames and a tick that has
  begun runs on. SF of `TickBegins`: scene transitions and an unstable world make single
  frames skip the tick, but not all of them for ever. Nothing is asked of hooks or loads.
* `CaseFleet`: SF of `BeginTick`, WF of `Tick`, for the same reason; cars need never be
  found. `CopDuty`: WF of the four steps of the tick; cops need never arrive anywhere.
  `SaveLoad` is checked for safety only: the engine's loads may take any time.
* `ReportPipeline`: WF of `Frame`; for a civilian p, SF of `PhoneAdvance(p)`: the engine
  processes the tasks of peds between frames, so a phone task comes to its end; it is
  enabled between frames only, hence strong. SF of `AssignMobilePhone(p)`: giving the task
  may fail (`tasks.rs:228-240`) and is tried again every frame (`civilian_report.rs:54`);
  it succeeds in the end. Were it to fail for ever, the session would stay. A
  cop's report need not end.
* `PoliceSpawn`: WF of `Frame`. `Custody` adds SF of `DriveAway(v)`, a transport told to
  depart gets far from the player in the end, and SF of `Watch(c)`, a case's
  wait for units ends, as `SpawnWaitEnds` shows. The first is the weaker ground: the result of `try_get_car_to_go_to_coors` is ignored
  (`arrest.rs:193-197`), so a transport without a driver never leaves by itself, and
  it is given back only when the player moves away from it. `TransportIsGivenBack`
  holds for players who do.


## Proofs

The theorems of seven modules hold for every value of the constants that satisfies the
named assumptions of the module they are about. Each module has an inductive invariant,
`IInv`, proved initial (`InitIInv`) and kept by every step (`StepIInv`), from which
the listed theorems follow; `ReportPipeline` and `SaveLoad` have a second one on top of it.

`CrimeCases_proofs` (assumptions `PedsAssumption`, `SlotsAssumption`,
`PlacesAssumption`, `CapsAssumption`, `TimesAssumption`: finitely many slots, positive
cap, clocks that can be counted past every timeout) proves

* `TypeCorrect`, `PrimaryIsAlwaysSuspect`, `CasesAreAlwaysCapped`,
  `SceneClockAlwaysRuns`, `ClosuresAlwaysHaveCases`, `LoadsAlwaysEndCases`: the six
  invariants of the runs;
* `FugitivesAreKept`: the action property, from the steps alone.

`IInv` is those six and `TickIsWhole`: a tick runs only while no load is on, over
cases that are live, and looks at none before its snapshot is taken. Without it
nothing says that the case being visited is open, or that no case is opened inside a
load. The steps fall into three kinds, each with a lemma. A step that opens no
case and closes no road keeps what is safe if it brings no case back, keeps each
primary among the suspects, keeps running clocks and lifts the cordon of every case that
leaves or forgets it (`KeptSafe`). An admission leaves room for the new case,
because what it evicts is live (`AdmissionMakesRoom`). A step of a visit
changes only its own case, and closes roads only for a cordon the case then
holds (`VisitKeeps`); tasks, IDLE, TIMING and ON_SCENE are instances of it.

`CaseFleet_proofs` (assumptions `CasesAssumption`, `VehiclesAssumption`,
`BoundsAssumption`: any cases, finitely many slots for vehicles, any caps, plans and
delays) proves `TypeCorrect`, `RecordsNameLiveCases`, `OrdersAlwaysEndWithTheCases`,
`ChainsNeverFork` and `VehiclesListedOncePerChain`. `IInv` is the types, the two about
records and orders, and

* `TickIsWhole`: tasks are due only in the visit of a case that is served, and a reroute
  yet to be made is from a case that lists the car, so no list is emptied below zero;
* `Sound` of every case with its tasks due: each wave, and the helicopter, has at most one
  task that may list a vehicle unseen, due or waiting (`WavesAreWhole`); and for each vehicle
  the listings made plus those still to come (`Unlisted`) fit in the bound.

The second half is what makes the bound inductive. A task is replaced by at most the next
one of its chain (`Ran`, `RanSound`), so a listing uses up the one that made it
(`OneLessFits`): the chain has claimed the car, or the helicopter is there. A wave or a
helicopter that is scheduled brings its own room (`ScheduledSound`, `OneMoreFits`).
Whatever looks before it lists, lists a car once, which always fits (`OnceFits`,
`Steady`).

`CopDuty_proofs` (assumptions `NamesAssumption`, `LostAssumption`) proves `TypeCorrect`,
`LeavingIsNeverSentBack` and the action property `DriverAlwaysKeepsTheWheel`. `IInv` adds
to the two invariants `Turns` (whose turn it is in the tick), `AtWheel` (one cop at the
wheel of a car), `OrdersOnFoot` (an enter command belongs to a cop on foot) and
`WheelIsFree` (nobody sits at a wheel that a cop is told to take). The last carries the
argument: a lock changes hands in two places besides the fallback, to a cop who may drive
and to whoever sits at the wheel as a car is bound. The first refuses while the holder
lives, and a cop on his way does (`OrdersOnFoot`); in the second nobody sits there
(`WheelIsFree`, kept since boarding the driver's seat calls off everyone else on his way to
it). That the lock alone keeps a second driver away cannot be proved: it is false, by
way of the fallback (`two_drivers`).

`SaveLoad_proofs` (assumptions `MaxCallsAssumption`, `AskedAssumption`: any depth of the
stack of calls, any kinds of load) proves `TypeCorrect`, `LoadIsNeverNudged` and the
action property `ContinueIsAlwaysKept`. `IInv == TypeOK /\ LoadIsNotNudged` is inductive:
a poll leaves the recovery, the put-off fade and the nudges as they were or clears them
(`Follows`, `PollKeeps`); only the advance after a recovery nudges (`NudgedKeeps`); and a
kick or an advance needs a flag that `LoadIsNotNudged` says a load does not have
(`CallKeeps`). A new load clears them first (`MenuReadKeeps`).

`EndlessCallsAreAlwaysStale` proves `EndlessCallsAreStale` from a second invariant,
`StackInv`, about the calls under way. The property speaks of a stack that is used up and
says nothing of how one gets there, so `StackInv` says what each call has behind it: a
caller has made its choice (`CallersHaveChosen`); a kick has nudged a hung menu load to 8,
unless it had been (`RecoveryNudges`); a poll that an advance called, of a load not yet
nudged to 8, reads the state the advance left, and would advance in turn only in a state 8
that had been nudged before and is no new edge (`AdvanceNudges`), since an edge restarts
the half second it waits for. So the third call is already stale (`DeepCallsAreStale`). What
is nudged to 8 stays so, and what has left the menu's path does, until the stack is empty
(`PollStays`, `NudgeActs`, `CallPopped`). The theorem's hypothesis is `MaxCalls > 2`: a
stack of one or two calls can be used up by the first poll of any load. TLC finds no
violation of `StackInv` with stacks of 3, 4 and 6 calls.

`ReportPipeline_proofs` (`PipelineAssumption`: any peds, cops, percepts, hits and
bounds) proves `TypeCorrect` and `CallAndCaseAlwaysAgree` from
`IInv == TypeOK /\ SessionsAreWhole /\ CallAndCaseAgree`. `CallAndCaseAgree` is not
inductive alone: the session a handler serves must have a reporter and a kind, and
only an ended session may have lost its reporter; `SessionsAreWhole` says so. Each
handler changes one session and at most the case of that session
(`OneSessionChanges`, `FinalizeOwnCase`) and keeps a desk sound (`OnActiveKeepsDesk`,
...); each action is a handler or leaves the desk alone. `RankBound` counts the exhausted
incidents to bound a session's rank.

`NoCaseIsOrphaned`, `OneCaseForEachIncident`, `OneCallForEachReporter`,
`FinalizedCasesAreFrozen` and `PipelineImplementsReporting` need a second invariant on top
of `IInv`. `ReportInv` is `NoOrphanCase` and `OneCasePerIncident` with

* `SessionsInTurn`: the sessions of one reporter are dialled and served in the order of
  their election, which is also why a ped holds one call at a time;
* `ReportsAreKnown`: a session is about an incident that is exhausted, a case about one
  that was opened, so no incident is opened or claimed behind a case's back;
* `CasesInTurn`: an open session that has no case yet is about an incident without one,
  and only a finalized case is timed;
* `DriverRemembers`: what the driver remembers of a ped, `task_dispatched` and
  `last_task_phase`, cannot make it report one call twice. A phone task is one the driver
  gave; the reporter on the line is marked dispatched, or is lost and found so in the
  next frame; and it does not go from dialling to talking again. Without it a stale phase
  could open a second case, or an undispatched reporter be assigned anew.

One theorem, `StepReportInv`, shows of each step that it keeps `ReportInv`, that it
freezes what is finalized, and that every incident stays or takes one step of its life: the
three are proved together because each handler's lemma (`OnDialingMoves`,
`OnActiveMoves`, `OnEndedMoves`, `OnInterruptedMoves`, `OnCausalSignalMoves`) needs all of
them of the desk it is given. `Place` reads an incident's status off any desk, so a step that
runs several handlers is followed desk by desk (`Moves`, `Advances`), and what one
handler leaves is what the next finds. `StatusSteps` then puts the steps of the single
incidents together into one step of `IncidentReporting`, or a stutter.

`PoliceSpawn_proofs` (`SpawnAssumption`, `NearAssumption`: any cases, sizes of plans,
delays and lengths of frames; at least one place, any reflexive and symmetric nearness)
proves `TypeCorrect`, `PendingIsAlwaysServed`, `CordonsAlwaysMatchHolds` and
`NeverStaleVehicle`. `IInv` adds to these

* `WorkIsUnique`: what is yet to be done, timeouts aside, is on the agenda once;
* `ChainIsWhole`: a chain that is not released has exactly one next step, the units
  behind it are untouched, and `completed` counts those before it;
* `TopUpsAreCounted`: chains and queued top-ups never outnumber the first dispatch and the
  top-ups asked for, which keeps the names of chains in bounds;
* that at most one chain is being released.

Handling a step replaces it by the next one of its chain (`HandledOn`); so a case that
waits keeps what will end its wait, and a release, timely or not, shows every
other waiting case still served (`ReleaseShows`, `UnitDoneShows`). Cordons are the
hard part, since an end looks for the first cordon near a place: `Staging_proofs` shows that
a begin and an end keep each unit counted on the first cordon near it, also when a cordon
goes and those behind it move up (`BeginKeepsStanding`, `EndKeepsStanding`).

`Custody_proofs` (`CustodyAssumption`: finitely many criminals, room for at least one)
proves `TypeCorrect`, `TransportsHaveRoom`, `TransportsAreOffDuty`,
`PrisonersAlwaysHeld` and the action property `CustodyAlwaysLeftAlone`. `IInv` is those
invariants, `TickIsWhole` (one case is ticked at a time and looks at criminals of
its own only, which `PrisonersAreHeld` needs when it takes a prisoner in) and
`CustodyIsFresh` (`custody_criminals` equals what the cases hold, except while a
watched case looks at its arrests; each such case refreshes the list before its own
attack pass, so that pass, the only step that gives arrest tasks, finds everyone
whom any case holds: `AttackSparesCustody`). Room is the one argument about
numbers: `BoardedFits`, from the library's facts on finite sets.

Every invariant, every action property and the refinement that the runs check is proved.
Only model-checked: liveness under fairness, which is outside the prover's reach
(`CivilianReportRunsItsCourse`, `EveryBatchIsReleased`, `SpawnWaitEnds`,
`TransportIsGivenBack`, `CaseEndsOrStrands`, `ChainEnds`, `CopsStandDown`).

## Disagreements

What a comment, a document or a definition of the source says and the code does not do.
The first two have runs of their own, `hung` and `two_drivers`, which show them as
counterexamples; the others came up while modelling and are how the models behave.

C++:

1. `dispatch_tick_states.cpp:49` refreshes routes and sirens of cars on their way. Line
   51 holds `g_vehicles_mutex`, which is not recursive, while line 59 orders a driven
   ambulance or fire truck to the scene; the order adds the vehicle to
   `g_vehicles_ordered_to_scene` under the same mutex (`dispatch_cop_response.cpp:615`). The
   thread waits for itself: the tick does not return (`TickReturns`). `fleet` sends
   police only and is not affected; `services` sends trucks too, so behaviours may end
   there, and its two safety invariants speak of the states before.
2. `dispatch_cop_response.cpp:252` has a cop get in as a passenger while the driver lock
   is held. The fallback (`dispatch_tick_main.cpp:227`) drops every lock, with bindings
   and stamps, in the frame in which the last case is collected; the
   `CTaskComplexEnterCar` that the TickEvent of the same frame may have given a cop
   (`dispatch_cop_response.cpp:257-260`) runs on. A cop who leaves that car later and is
   released finds the lock free: two cops are on their way to one wheel
   (`OneDriverCommanded`).
3. `dispatch_timing.hpp:43` calls the pending spawn a wait. When the first car of a
   chain is lost and another car of the case stands in, no clock runs that could end
   the wait: the case stays for good (`Stranded`). `CaseEndsOrStrands` says that it
   is the only way for a case not to end.
4. `hooks_stability.cpp:67`: "signal-driven", the caps are "safety nets only". Once a cap
   has ended a session, or a nudged load fell back to game state 0, the recovery that
   nothing has forgotten makes the poll advance and the advance poll, and no counter
   bounds it; `EndlessCallsAreStale` says that it happens to no other load.

Three more behaviours contradict no line but surprise:

* `dispatch_logic.cpp:318`: a crime is merged by place, whoever committed it, so a
  criminal who moves on becomes a suspect of two cases;
* `ecs_systems.cpp:430`: a cop within range of a case keeps a living target that is
  nobody's suspect any more; he lets go out of range only;
* `ecs_systems.cpp:478`: a cop is ordered back to his car as he is released, but the
  stamp of an enter command is per car (1.5 s): of two cops released together the
  second is struck off without an order.

Rust:

1. `record.rs:55`, a finalized report means "radio report closed": a cop's report
   opens its case and nothing closes it while the cop lives; the case stays
   `Idle` and is never dispatched.
2. `report_channel.rs:127`, `Approaching` means "engine should start dial task":
   `task_dispatched` and `last_task_phase` are kept per ped, so the end of one
   call may end the ped's next report as `TaskCompleted` before it was dialled.
   The incident is exhausted and stays without a case (`dropped`).
3. `report_channel.rs:8`, `High` is for gunfire and explosions:
   `on_report_task_active` opens the case without refreshing the severity, so a
   call that ends normally is dispatched as `Normal`.
4. `docs/GAMEPLAY_SIMPLIFY.md:58`, "Batch hold → release to disturbance: units
   actually go to scene": the clock is the wall clock and frames stop in menus,
   cutscenes and loading. After a stall longer than the release timeout the
   timeout is handled before the unit due in the same frame; the unit is spawned
   into the released batch, is never sent, and its cordon stays.
5. `game.rs:73`, transports are "police vehicles carrying prisoners": a prisoner
   the engine removes or who dies leaves the case's criminals, hence is never
   looked at again, but stays on the transport's list; the car is refused by
   every dispatch until it is itself removed.

## Not modelled

C++:

* `hooks_stability.cpp` besides the save load, `manage_tasks_guard.cpp`,
  `pointer_sanitizer_vma.cpp`: they look at memory maps and vtables and skip a call
  of the engine; they keep nothing the dispatcher reads.
* `hook_install.cpp`, `module.cpp`, zygisk: symbol lookup, inline hooks and the
  module's entry: I/O and machine code.
* `dispatch_vehicle_escaper.cpp`, the stuck and unstuck manoeuvres,
  `dispatch_emergency.cpp`'s tick and the avoidance of civilians: geometry and engine
  calls per vehicle. They close roads for a while; the expiry of such a closure
  (`dispatch_tick_main.cpp:83`) opens the roads inside a case's cordon too, which
  `EveryClosureHasItsCase` cannot see: it says that no road is closed without a case, not
  that a case's roads stay closed.
* The trackers of stuck vehicles. `g_emergency_stuck_vehicles`
  (`dispatch_emergency.cpp:42`, pruned of dead pointers at 49-55, erased by
  `dispatch_vehicle_escaper.cpp:29-33`) and `g_sideline_traffic_vehicles`
  (`dispatch_vehicle_escaper.cpp:14`) survive the fallback and the purge; the purge
  (`dispatch_tick.cpp:45-98`) also leaves `g_stuck_vehicles` and `g_spawned_swats`, which the
  fallback clears (`dispatch_tick_main.cpp:206-221`). A reused address may therefore
  inherit a stuck vehicle's timers. They choose manoeuvres; where one ends with
  the crew getting out, `BeginTick` and `OnScene` let it be any crew's.
* Whom a reused address means: the models follow addresses as the code does, and
  `Despawn`, `Appear` and `RemovePed` may put another entity into a slot; properties about
  vehicles (`RecordNamesLiveCase`, `OrdersEndWithTheCases`) cover it, none does for
  the targets of cops.
* In `CrimeCases`, `Threat` takes a shot in the air and a shot at somebody
  (`ecs_engine.hpp:219-227`) for one threat. In `SaveLoad`, `Settled` has no limit of 120 s
  on the time after a skip (`hooks_stability.cpp:837-838`): the rule may hold longer.

Rust:

* `ResourceRegistry`, `EntityRef`: an id names one entity in the models; the recycling of
  pool keys is not followed. For the same reason a signal may reach any incident.
* The prisoner the engine removes: `TransportIsGivenBack` excuses his transport, since
  it is never given back (`store.rs:270`; see "Disagreements").
* `EmergencyServices` and reroute: two trucks and cars moved between cases; the C++
  counterparts are in `CaseFleet`.
* Criminals, departments and clean-up of a case; `should_enter_cleanup` refuses a case
  with a report channel, and every case has one.
* Gate and loader (a shut gate is a hook or a frame that does nothing), FFI, symbols,
  inline hooks, wanted-level and population overrides, zygisk glue.

What would come next: the registry with its generations, composed with
`ReportPipeline`; temporary closures in `CrimeCases`.
