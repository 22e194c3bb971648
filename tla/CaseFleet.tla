------------------------------- MODULE CaseFleet -------------------------------
(* The vehicles of the C++ dispatcher's cases: the chains that spawn police    *)
(* cars and pick them out of the engine's pool, patrols mobilized nearby,      *)
(* ambulances, fire trucks and helicopters, the reroutes between cases, the    *)
(* guard on driverless cars, the siren refresh, the orders to get out, and     *)
(* what clean-up, fallback and purge forget. CrimeCases decides when a case    *)
(* opens and ends; here that is any time it may.                               *)
(*                                                                             *)
(* Distances, priorities and threats are answers of the engine: a step reads   *)
(* them as it likes. Everything is on the game's main thread, so a tick is a   *)
(* sequence of calls (pc) that nothing interrupts.                             *)
EXTENDS Integers, Sequences, FiniteSets

CONSTANTS
    Cases,          \* slots for cases, reused once erased
    NoCase,         \* case id 0: a fire with no case
    Vehicles,       \* slots of the engine's vehicle pool, reused too
    VEHICLE_IDENTIFY_MAX_ATTEMPTS,  \* 3 in the code
    MAX_NEAR_PLAYER,                \* ambulances, fire trucks, helis at once
    Sends,          \* bound: the models the instance sends
    MaxUnits,       \* bound: cars of a spawn plan
    MaxWaves,       \* bound: reinforcements of a case
    MaxDelay        \* bound: visits of a case a task can wait

ASSUME CasesAssumption == NoCase \notin Cases
ASSUME VehiclesAssumption == IsFiniteSet(Vehicles)
ASSUME BoundsAssumption ==
    /\ VEHICLE_IDENTIFY_MAX_ATTEMPTS \in Nat \ {0} /\ MaxUnits \in Nat \ {0}
    /\ MaxWaves \in Nat /\ MaxDelay \in Nat
    /\ Sends \subseteq {"police", "ambulance", "firetruck", "heli"}

(* Operators named Mutant... break the one they precede the way a slip in the  *)
(* code would; with it, the property PROJECT.json pairs with it must fail.      *)

VARIABLES
    model,    \* what the engine keeps in every slot
    orders,   \* emptied: g_vehicles_emptied;
              \* ordered: g_vehicles_ordered_to_scene
    record,   \* g_spawned_emergency_services, by vehicle
    fires,    \* g_pending_global_fire_spawns is not empty
    case,     \* the CrimeEvents
    cars,     \* case_vehicles: how often a case lists a vehicle
    pc,       \* the call of the tick that is running, "rest" between ticks
    moves,    \* reroutes decided but not yet made
    calls,    \* emergency records not yet refreshed in this tick
    todo,     \* cases not yet visited in this tick
    cur,      \* the case being visited
    due       \* its tasks collected for this visit

tick == <<pc, moves, calls, todo, cur, due>>
vars == <<model, orders, record, fires, case, cars, tick>>

Services == {"ambulance", "firetruck"}
Special == Services \cup {"heli"}
Models == {"police"} \cup Special
WithCops == {"police", "heli"}      \* the models whose occupants are cops

NoRecord == [of |-> NoCase, as |-> "none"]
Vacant == [state |-> "none", sent |-> {}, waves |-> 0, tasks |-> {}]

Active == {c \in Cases : case[c].state # "none"}
Live == {c \in Active : case[c].state # "cancelled"}
Valid == {v \in Vehicles : model[v] # "gone"}
Cops == {v \in Valid : model[v] \in WithCops}
Of(m) == {v \in Valid : model[v] = m}
Holds(c) == {v \in Vehicles : cars[c][v] > 0}

\* push_back as it is, and behind a search for the vehicle.
Listed(c, v) == [cars EXCEPT ![c][v] = @ + 1]
ListedOnce(c, S) == [cars EXCEPT ![c] = [v \in Vehicles |->
                        IF v \in S /\ @[v] = 0 THEN 1 ELSE @[v]]]

-----------------------------------------------------------------------------
(* Orders to vehicles, by what they change here. near and crewed are what the   *)
(* engine answers in a step: who is close to the scene, and who has a driver at  *)
(* the end, some because the call put one in.                                    *)

Answers == SUBSET Valid

\* bind_vehicle_occupants: a car with cops in it is not empty.
Bind(w, S, crewed) == [w EXCEPT !.emptied = @ \ (S \cap Cops \cap crewed)]

\* command_cop_vehicle_to_scene, then setup_dispatched_cops: each fills and binds a
\* car nobody drives; the road it takes and its siren are not followed.
Command(w, S, crewed) == Bind(w, S, crewed)
SetUp(w, S, crewed) == Bind(Command(w, S, crewed), S, crewed)

\* dispatch_tell_occupants_to_leave_car, then add_vehicle_emptied.
OrderOut(w, S) == [w EXCEPT !.emptied = @ \cup S]

\* command_emergency_vehicle_to_scene, for each of S.
SendServices(w, S, near, crewed) ==
    [OrderOut(w, S \cap crewed \cap near) EXCEPT !.ordered = @ \cup (S \cap crewed)]

\* The engine makes a vehicle, or finds no room.
Spawn(m) ==
    /\ model' \in {model} \cup {[model EXCEPT ![v] = m] : v \in Vehicles \ Valid}
    /\ UNCHANGED orders

\* dispatch_nearby_available_cops_for_crime_auto: patrols driven by cops, with no
\* look at the cases they are on.
Patrols == SUBSET (Cops \ orders.emptied)
Mobilize(c, S, crewed) ==
    /\ orders' = [SetUp(orders, S, crewed) EXCEPT !.ordered = @ \cup S]
    /\ cars' = ListedOnce(c, S)

-----------------------------------------------------------------------------
(* The engine and the hooks, between ticks.                                   *)

Rest == pc = "rest" /\ UNCHANGED tick

\* A slot's vehicle is deleted; the dispatcher keeps its address.
Despawn(v) ==
    /\ Rest /\ v \in Valid
    /\ model' = [model EXCEPT ![v] = "gone"]
    /\ UNCHANGED <<orders, record, fires, case, cars>>

\* A patrol of the engine's own; its ambulances and fire trucks are blocked.
Appear(v) ==
    /\ Rest /\ v \notin Valid
    /\ model' = [model EXCEPT ![v] = "police"]
    /\ UNCHANGED <<orders, record, fires, case, cars>>

Open(c) ==
    /\ Rest /\ case[c].state = "none"
    /\ case' = [case EXCEPT ![c].state = "open"]
    /\ UNCHANGED <<model, orders, record, fires, cars>>

MutantUnrecorded(S) == record   \* clear_case_emergency_records is not called
Unrecorded(S) == [v \in Vehicles |-> IF record[v].of \in S THEN NoRecord ELSE record[v]]

\* cleanup_single_case_vehicles: whoever else holds the vehicles.
Clean(S) ==
    LET held == UNION {Holds(c) : c \in S} IN
    /\ orders' = [orders EXCEPT !.emptied = @ \ held, !.ordered = @ \ held]
    /\ record' = Unrecorded(S)
    /\ cars' = [c \in Cases |-> IF c \in S THEN [v \in Vehicles |-> 0] ELSE cars[c]]

\* A case is solved (and cleaned), or another one takes its place.
Cancel(c) ==
    /\ Rest /\ c \in Live
    /\ case' = [case EXCEPT ![c].state = "cancelled"]
    /\ Clean({c}) \/ UNCHANGED <<orders, record, cars>>
    /\ UNCHANGED <<model, fires>>

MutantForget(w) == [w EXCEPT !.emptied = {}]   \* the orders are kept
\* The trackers of stuck vehicles, which outlive a purge, are not followed.
Forget(w) == [w EXCEPT !.emptied = {}, !.ordered = {}]

\* purge_dispatch_state_for_save_load; fires not yet identified are kept.
Purge ==
    /\ Rest /\ Active # {}
    /\ case' = [c \in Cases |-> Vacant]
    /\ cars' = [c \in Cases |-> [v \in Vehicles |-> 0]]
    /\ orders' = Forget(orders)
    /\ record' = [v \in Vehicles |-> NoRecord]
    /\ UNCHANGED <<model, fires>>

-----------------------------------------------------------------------------
(* The tick, up to its visits of the cases.                                   *)

\* emergency_vehicles_tick: services that are stuck are sent on their way once more;
\* those in water or on fire are given up, as is one that has been sent this close.
Pruned == [v \in Vehicles |-> IF v \in Valid THEN record[v] ELSE NoRecord]
Rescuable == {v \in Valid : record[v] # NoRecord} \ orders.emptied
Rescue(out, go, crewed) == SendServices(OrderOut(orders, out), go, {}, crewed)

\* Then occupants are bound, in the cars the cases list and in the police cars the
\* dispatcher remembers (any, here); driverless cars of the cases count as emptied.
BeginTick ==
    /\ pc = "rest"
    /\ record' = Pruned
    /\ \E crewed \in Answers, out \in SUBSET Rescuable, go \in SUBSET Rescuable,
          known \in SUBSET {v \in Cops : Live # {}} :
         LET held == ((UNION {Holds(c) : c \in Live}) \cap Valid) \ Of("heli")
         IN orders' = [Bind(Rescue(out, go, crewed), held \cup known, crewed) EXCEPT
                          !.emptied = @ \cup (held \ crewed)]
    /\ pc' = "reroute"
    /\ UNCHANGED <<model, fires, case, cars, moves, calls, todo, cur, due>>

\* apply_enroute_vehicle_reroutes: tiers may be equal, and ambulances go too.
ChooseReroutes ==
    /\ pc = "reroute" /\ moves = {}
    /\ LET enroute == {m \in Vehicles \X Cases \X Cases :
                          /\ m[1] \in (Valid \cap orders.ordered) \ orders.emptied
                          /\ {m[2], m[3]} \subseteq Live /\ m[2] # m[3]
                          /\ cars[m[2]][m[1]] > 0}
       IN \E chosen \in SUBSET enroute :
            /\ \A m, n \in chosen : m[1] = n[1] /\ m[2] = n[2] => m = n
            /\ moves' = chosen
            /\ pc' = IF chosen = {} THEN "evaluate" ELSE pc
    /\ UNCHANGED <<model, orders, record, fires, case, cars, calls, todo, cur, due>>

\* Every listing of the vehicle moves, one by one: to the same case, since all are
\* compared before the first one moves.
Reroute ==
    /\ pc = "reroute"
    /\ \E m \in moves, crewed \in Answers :
         /\ cars' = [cars EXCEPT ![m[2]][m[1]] = 0, ![m[3]][m[1]] = IF @ = 0 THEN 1 ELSE @]
         /\ orders' = SetUp(orders, {m[1]}, crewed)
         /\ moves' = moves \ {m}
    /\ pc' = IF moves' = {} THEN "evaluate" ELSE pc
    /\ UNCHANGED <<model, record, fires, case, calls, todo, cur, due>>

Slots(m, near) ==
    IF m \notin Sends \/ Cardinality(near) >= MAX_NEAR_PLAYER[m] THEN 0
    ELSE MAX_NEAR_PLAYER[m] - Cardinality(near)
Capped(m, wanting, near) ==
    {S \in SUBSET wanting : \/ Cardinality(S) = Slots(m, near)
                            \/ S = wanting /\ Cardinality(S) < Slots(m, near)}

Errand(m, in) == [job |-> "send", model |-> m, in |-> in]

\* evaluate_prioritized_emergency_needs, every two seconds: what was scheduled
\* and is not yet spawned takes no slot.
Evaluate ==
    /\ pc = "evaluate"
    /\ \/ case' = case
       \/ \E hurt, burning \in SUBSET Cases, in \in 0..MaxDelay,
             trucks \in SUBSET Of("firetruck"), ambulances \in SUBSET Of("ambulance") :
            \E f \in Capped("firetruck",
                            {c \in Live \cap burning : "firetruck" \notin case[c].sent}, trucks),
               a \in Capped("ambulance",
                            {c \in Live \cap hurt : "ambulance" \notin case[c].sent},
                            ambulances) :
               case' = [c \in Cases |->
                  LET new == (IF c \in f THEN {"firetruck"} ELSE {})
                             \cup (IF c \in a THEN {"ambulance"} ELSE {})
                  IN [case[c] EXCEPT !.sent = @ \cup new,
                                     !.tasks = @ \cup {Errand(m, in) : m \in new}]]
    /\ pc' = "fires"
    /\ UNCHANGED <<model, orders, record, fires, cars, moves, calls, todo, cur, due>>

\* setup_dispatched_emergency_vehicle for a case, or for none.
Enlist(v, m, c, near, crewed) ==
    /\ cars' = IF c = NoCase THEN cars ELSE ListedOnce(c, {v})
    /\ record' = [u \in Vehicles |->
          IF u = v THEN [of |-> c, as |-> m]
          ELSE IF u \in Valid THEN record[u] ELSE NoRecord]
    /\ orders' = SendServices(Bind(orders, {v}, crewed), {v}, near, crewed)

\* evaluate_global_fire_dispatch, and the identification of its truck: the
\* closest vehicle, whatever it is and whoever holds it.
GlobalFire ==
    /\ pc = "fires"
    /\ \/ record' = Pruned /\ UNCHANGED <<model, orders, fires, cars>>
       \/ /\ ~fires /\ Slots("firetruck", Of("firetruck")) > 0
          /\ Spawn("firetruck")
          /\ fires' = TRUE
          /\ record' = Pruned
          /\ UNCHANGED cars
       \/ /\ fires
          /\ fires' = FALSE
          /\ \/ \E v \in Valid, near \in Answers, crewed \in Answers :
                    Enlist(v, "firetruck", NoCase, near, crewed)
             \/ record' = Pruned /\ UNCHANGED <<orders, cars>>
          /\ UNCHANGED model
    /\ pc' = "visit" /\ todo' = Active
    /\ calls' \in SUBSET {v \in Valid : record'[v] # NoRecord /\ v \notin orders'.emptied}
    /\ UNCHANGED <<case, moves, cur, due>>

\* transfer_emergency_vehicle_case: the flags follow the vehicle's model, the
\* lists its address. A cancelled case is not found.
Transferred(v, from, to) ==
    [c \in Cases |->
        IF c = to THEN [case[c] EXCEPT !.sent = @ \cup ({model[v]} \cap Services)]
        ELSE IF c = from /\ c \in Live
             THEN [case[c] EXCEPT !.sent = @ \ ({model[v]} \cap Services)]
        ELSE case[c]]

\* refresh_enroute_emergency_vehicles, for one record: on to a case that needs
\* it more, then the order to go there.
RefreshRecord(v) ==
    /\ pc = "visit" /\ v \in calls
    /\ calls' = calls \ {v}
    /\ \E near \in Answers, crewed \in Answers : orders' = SendServices(orders, {v}, near, crewed)
    /\ \/ UNCHANGED <<record, case, cars>>
       \/ LET from == record[v].of IN
          \E to \in Live \ {from} :
             /\ record' = [record EXCEPT ![v].of = to]
             /\ case' = Transferred(v, from, to)
             /\ cars' = [c \in Cases |->
                   IF c = from /\ c \in Live /\ cars[c][v] > 0
                   THEN [cars[c] EXCEPT ![v] = @ - 1] ELSE ListedOnce(to, {v})[c]]
    /\ UNCHANGED <<model, fires, pc, moves, todo, cur, due>>

-----------------------------------------------------------------------------
(* A visit: dispatch_tick_process_crime.                                      *)

\* Those of its vehicles the siren refresh sends on; a service's is sent with
\* g_vehicles_mutex held, and ordering it takes that mutex again.
Refreshed(c) == (Holds(c) \cap Valid) \ (orders.emptied \cup Of("heli"))
Relocks(c, crewed) == {v \in Refreshed(c) \cap crewed : model[v] \in Services}

\* A cancelled case is passed over.
Visit(c) ==
    /\ pc = "visit" /\ calls = {} /\ c \in todo \cap Live
    /\ todo' = todo \ {c} /\ cur' = c
    /\ \E siren \in BOOLEAN, crewed \in Answers :
         /\ orders' = IF siren THEN Command(orders, Refreshed(c), crewed) ELSE orders
         /\ IF siren /\ Relocks(c, crewed) # {}
            THEN pc' = "hung" /\ UNCHANGED <<case, due>>
            ELSE \/ /\ pc' = "visit"                     \* its last suspect is gone
                    /\ case' = [case EXCEPT ![c].state = "cancelled"]
                    /\ UNCHANGED due
                 \/ /\ pc' = "tasks"
                    /\ due' = {t \in case[c].tasks : t.in = 0}
                    /\ case' = [case EXCEPT ![c].tasks =
                                   {[t EXCEPT !.in = @ - 1] : t \in {u \in @ : u.in > 0}}]
    /\ UNCHANGED <<model, record, fires, cars, moves, calls>>

RunTask(t) ==
    /\ pc = "tasks" /\ t \in due
    /\ due' = due \ {t}
    /\ UNCHANGED <<fires, pc, moves, calls, todo, cur>>

Queue(S) == case' = [case EXCEPT ![cur].tasks = @ \cup S]

\* A chain spawns its units one after the other: one task at a time. got is its
\* list of the vehicles it has claimed.
Chain(wave, units) ==
    [job |-> "spawn", wave |-> wave, unit |-> 1, units |-> units, try |-> 1,
     again |-> FALSE, got |-> << >>, in |-> 0]
Claimed(t) == {t.got[i] : i \in 1..Len(t.got)}
Identify(t, try, again, in) ==
    {[t EXCEPT !.job = "identify", !.try = try, !.again = again, !.in = in]}

MutantNextUnit(t, got, in) ==      \* the unit is tried once more as well
    {[t EXCEPT !.job = "identify", !.try = 1, !.in = in]}
    \cup (IF t.unit = t.units THEN {}
          ELSE {[t EXCEPT !.job = "spawn", !.unit = @ + 1, !.try = 1, !.again = FALSE,
                          !.got = got, !.in = in]})
\* schedule_next_unit
NextUnit(t, got, in) ==
    IF t.unit = t.units THEN {}
    ELSE {[t EXCEPT !.job = "spawn", !.unit = @ + 1, !.try = 1, !.again = FALSE,
                    !.got = got, !.in = in]}

\* schedule_unit_at
SpawnUnit(t) ==
    /\ t.job = "spawn"
    /\ RunTask(t)
    /\ Spawn("police")
    /\ \E in \in 0..MaxDelay : Queue(Identify(t, 1, FALSE, in))
    /\ UNCHANGED <<record, cars>>

MutantUnclaimed(t) == Of("police")   \* the chain's own cars are not left out
\* find_spawned_police_vehicle_near: any other car of the model will do.
Unclaimed(t) == Of("police") \ Claimed(t)

\* finalize_spawned_unit
UnitFound(t) ==
    /\ t.job = "identify"
    /\ RunTask(t)
    /\ \E v \in Unclaimed(t), in \in 0..MaxDelay, crewed \in Answers :
         /\ cars' = Listed(cur, v)
         /\ orders' = SetUp(orders, {v}, crewed)
         /\ Queue(NextUnit(t, Append(t.got, v), in))
    /\ UNCHANGED <<model, record>>

MutantRespawned(t, in) == Identify(t, 1, FALSE, in)   \* and again, and again
Respawned(t, in) == Identify(t, 1, TRUE, in)

UnitMissing(t) ==
    /\ t.job = "identify"
    /\ RunTask(t)
    /\ \E in \in 0..MaxDelay :
         \/ /\ t.try < VEHICLE_IDENTIFY_MAX_ATTEMPTS
            /\ Queue(Identify(t, t.try + 1, t.again, in))
            /\ UNCHANGED <<model, orders>>
         \/ /\ t.try = VEHICLE_IDENTIFY_MAX_ATTEMPTS /\ ~t.again
            /\ Spawn("police")
            /\ Queue(Respawned(t, in))
         \/ /\ t.try = VEHICLE_IDENTIFY_MAX_ATTEMPTS /\ t.again
            /\ Queue(NextUnit(t, t.got, in))
            /\ UNCHANGED <<model, orders>>
    /\ UNCHANGED <<record, cars>>

\* build_initial_spawn_plan, build_reinforcement_spawn_plan: by weapon, density and
\* wave one to some cars.
PlanSizes == 1..MaxUnits

\* The two tasks of a reinforcement: patrols first, cars later if none came.
Nearby(t) ==
    /\ t.job = "nearby"
    /\ RunTask(t)
    /\ \E S \in Patrols, crewed \in Answers : Mobilize(cur, S, crewed)
    /\ UNCHANGED <<model, record, case>>
Reinforce(t) ==
    /\ t.job = "reinforce"
    /\ RunTask(t)
    /\ \/ \E S \in Patrols, crewed \in Answers : Mobilize(cur, S, crewed) /\ UNCHANGED case
       \/ /\ "police" \in Sends
          /\ \E n \in PlanSizes : Queue({Chain(t.wave, n)})
          /\ UNCHANGED <<orders, cars>>
    /\ UNCHANGED <<model, record>>

\* schedule_ambulance_for_crime, schedule_firetruck_for_crime, finalize_spawn_task
SendOut(t) ==
    /\ t.job = "send"
    /\ RunTask(t)
    /\ Spawn(t.model)
    /\ \E in \in 0..MaxDelay : Queue({[t EXCEPT !.job = "meet", !.in = in]})
    /\ UNCHANGED <<record, cars>>
Meet(t) ==
    /\ t.job = "meet"
    /\ RunTask(t)
    /\ \/ \E v \in Valid, near \in Answers, crewed \in Answers :
            Enlist(v, t.model, cur, near, crewed) /\ UNCHANGED case
       \/ /\ case' = [case EXCEPT ![cur].sent = @ \ {t.model}]
          /\ UNCHANGED <<orders, record, cars>>
    /\ UNCHANGED model

\* evaluate_case_heli_support's task: the cap is looked at again.
HeliArrives(t) ==
    /\ t.job = "heli"
    /\ RunTask(t)
    /\ \/ \E v \in (Vehicles \ Valid) \cup Valid :
            /\ \/ v \notin Valid /\ model' = [model EXCEPT ![v] = "heli"]
               \/ v \in Valid /\ UNCHANGED model       \* found where it was to be
            /\ cars' = Listed(cur, v)
            /\ UNCHANGED case
       \/ /\ case' = [case EXCEPT ![cur].sent = @ \ {"heli"}]
          /\ UNCHANGED <<model, cars>>
    /\ UNCHANGED <<record, orders>>

\* Its tasks run, the state of the case decides; then the visit is over.
Leave(from) ==
    /\ pc = from /\ due = {}
    /\ pc' = "visit" /\ cur' = NoCase
    /\ UNCHANGED <<model, record, fires, moves, calls, todo, due>>

\* IDLE and TIMING
Waits ==
    /\ Leave("tasks") /\ case[cur].state = "open"
    /\ case' \in {case, [case EXCEPT ![cur].state = "cleanup"]}
    /\ UNCHANGED <<orders, cars>>
Mobilizes ==
    /\ Leave("tasks") /\ case[cur].state = "open"
    /\ \E S \in Patrols, crewed \in Answers :
          Mobilize(cur, S, crewed)
    /\ case' = [case EXCEPT ![cur].state = "scene"]
Spawns ==
    /\ Leave("tasks") /\ case[cur].state = "open" /\ "police" \in Sends
    /\ \E n \in PlanSizes :
          case' = [case EXCEPT ![cur].state = "scene",
                               ![cur].tasks = @ \cup {Chain(0, n)}]
    /\ UNCHANGED <<orders, cars>>

\* The bulk guard and cop_attack_dispatch_vehicle_cop: a car of the case, or one
\* with cops in it, that has come close enough or tried for long enough is emptied,
\* another is sent on its way.
AttackPass(out, on) == [OrderOut(orders, out) EXCEPT !.ordered = @ \cup (on \ out)]
\* should_dispatch_police_heli, and a slot for it.
NeedsHeli(k) == "heli" \notin k.sent /\ Slots("heli", Of("heli")) > 0

\* dispatch_tick_state_on_scene: the attack pass; the end, if the player is far;
\* else a reinforcement for every cop lost, a helicopter, the timeouts.
OnScene ==
    /\ pc = "tasks" /\ due = {} /\ case[cur].state = "scene"
    /\ pc' = "scene"
    /\ \E out \in SUBSET ((((Holds(cur) \cap Valid) \ Of("heli")) \cup Cops) \ orders.emptied),
          on \in SUBSET (Cops \ (orders.emptied \cup orders.ordered)) :
         orders' = AttackPass(out, on)
    /\ UNCHANGED <<model, record, fires, case, cars, moves, calls, todo, cur, due>>
Schedules(new) ==
    /\ case' = [case EXCEPT ![cur] = new]
    /\ UNCHANGED <<model, orders, record, fires, cars, pc, moves, calls, todo, cur, due>>
Reinforces ==
    LET k == case[cur]
        w == k.waves + 1
    IN /\ pc = "scene" /\ k.waves < MaxWaves
       /\ \E i, j \in 0..MaxDelay :
            Schedules([k EXCEPT !.waves = w, !.tasks = @ \cup
                          {[job |-> "nearby", wave |-> w, in |-> i],
                           [job |-> "reinforce", wave |-> w, in |-> j]}])
SendsHeli ==
    LET k == case[cur]
    IN /\ pc = "scene" /\ NeedsHeli(k)
       /\ \E i \in 0..MaxDelay :
            Schedules([k EXCEPT !.sent = @ \cup {"heli"},
                                !.tasks = @ \cup {[job |-> "heli", in |-> i]}])
LeavesScene ==
    /\ Leave("scene")
    /\ case' \in {case, [case EXCEPT ![cur].state = "cleanup"]}
    /\ UNCHANGED <<orders, cars>>

\* The garbage collection of the cases, and the fallback when none is left: a case
\* in "cleanup" is erased in the tick that put it there and never visited again.
EndTick ==
    /\ pc = "visit" /\ calls = {} /\ todo \cap Live = {}
    /\ pc' = "rest" /\ todo' = {}
    /\ LET ended == {c \in Active : case[c].state \in {"cancelled", "cleanup"}}
           held == UNION {Holds(c) : c \in ended}
           w == [orders EXCEPT !.emptied = @ \ held, !.ordered = @ \ held]
       IN /\ case' = [c \in Cases |-> IF c \in ended THEN Vacant ELSE case[c]]
          /\ cars' = [c \in Cases |-> IF c \in ended THEN [v \in Vehicles |-> 0] ELSE cars[c]]
          /\ orders' = IF ended = Active THEN Forget(w) ELSE w
          /\ record' = IF ended = Active THEN [v \in Vehicles |-> NoRecord] ELSE Unrecorded(ended)
    /\ UNCHANGED <<model, fires, moves, calls, cur, due>>

-----------------------------------------------------------------------------

Init ==
    /\ model = [v \in Vehicles |-> "gone"]
    /\ orders = [emptied |-> {}, ordered |-> {}]
    /\ record = [v \in Vehicles |-> NoRecord] /\ fires = FALSE
    /\ case = [c \in Cases |-> Vacant] /\ cars = [c \in Cases |-> [v \in Vehicles |-> 0]]
    /\ pc = "rest" /\ moves = {} /\ calls = {} /\ todo = {} /\ cur = NoCase
    /\ due = {}

Engine ==
    \/ \E v \in Vehicles : Despawn(v) \/ Appear(v)
    \/ \E c \in Cases : Open(c) \/ Cancel(c)
    \/ Purge
Task ==
    \E t \in due :
        \/ SpawnUnit(t) \/ UnitFound(t) \/ UnitMissing(t) \/ Nearby(t) \/ Reinforce(t)
        \/ SendOut(t) \/ Meet(t) \/ HeliArrives(t)
Tick ==
    \/ ChooseReroutes \/ Reroute \/ Evaluate \/ GlobalFire
    \/ (\E v \in Vehicles : RefreshRecord(v))
    \/ (\E c \in Cases : Visit(c))
    \/ Task \/ Waits \/ Mobilizes \/ Spawns
    \/ OnScene \/ Reinforces \/ SendsHeli \/ LeavesScene \/ EndTick
Next == Engine \/ BeginTick \/ Tick

Spec == Init /\ [][Next]_vars

\* The game loop keeps ticking, and a tick that has begun runs on.
FairSpec == Spec /\ SF_vars(BeginTick) /\ WF_vars(Tick)

-----------------------------------------------------------------------------
(* Properties.                                                                *)

ChainJobs == {"spawn", "identify"}
ChainType == [job : ChainJobs, wave : Nat, unit : Nat, units : Nat, try : Nat,
              again : BOOLEAN, got : Seq(Vehicles), in : Nat]
TaskType ==
    ChainType \cup [job : {"nearby", "reinforce"}, wave : Nat, in : Nat]
              \cup [job : {"heli"}, in : Nat]
              \cup [job : {"send", "meet"}, model : Services, in : Nat]
CaseType == [state : {"none", "open", "scene", "cleanup", "cancelled"},
             sent : SUBSET Special, waves : Nat, tasks : SUBSET TaskType]
OrdersType == [emptied : SUBSET Vehicles, ordered : SUBSET Vehicles]

TypeOK ==
    /\ model \in [Vehicles -> Models \cup {"gone"}]
    /\ orders \in OrdersType
    /\ record \in [Vehicles -> [of : Cases \cup {NoCase}, as : Services \cup {"none"}]]
    /\ fires \in BOOLEAN
    /\ case \in [Cases -> CaseType]
    /\ cars \in [Cases -> [Vehicles -> Nat]]
    /\ pc \in {"rest", "reroute", "evaluate", "fires", "visit", "tasks", "scene", "hung"}
    /\ moves \subseteq Vehicles \X Cases \X Cases /\ calls \subseteq Vehicles
    /\ todo \subseteq Cases /\ cur \in Cases \cup {NoCase} /\ due \subseteq TaskType

\* The emergency records name cases by id, in a list of their own that is cleaned
\* when a case ends: a record never outlives the case it is for, which would make
\* a service's vehicle answer to a case that is no more (or to the next one).
RecordNamesLiveCase == \A v \in Vehicles : record[v].of \in Active \cup {NoCase}

ChainTasks(c) == {t \in case[c].tasks \cup (IF c = cur THEN due ELSE {}) :
                     t.job \in {"spawn", "identify"}}

\* The units of a chain are found by model and distance alone, after delays in
\* which vehicles move, vanish and come back in the same slot, and a case lists
\* what is found without looking: no chain claims a vehicle twice, so a case lists
\* it once for every chain and for a helicopter, and once more for having been
\* mobilized, rerouted or transferred to it before.
ListedOncePerChain ==
    \A c \in Cases, v \in Vehicles :
        cars[c][v] <= 2 + case[c].waves + Cardinality(case[c].sent \cap {"heli"})

\* Retries, respawns and the next unit are all scheduled from inside the task they
\* follow: a chain never forks into two that spawn and claim at once.
OneTaskPerChain ==
    \A c \in Cases : \A t, u \in ChainTasks(c) : t.wave = u.wave => t = u

\* The sets of vehicles emptied and ordered and the records of services are not
\* the cases' own, and are pruned in passing at best. Once no case is left they hold
\* no address: the next vehicle the pool puts there would count as emptied, on its
\* way or in service. (The trackers of stuck vehicles are no part of this.)
OrdersEndWithTheCases ==
    pc = "rest" /\ Active = {} =>
        /\ orders = [emptied |-> {}, ordered |-> {}]
        /\ \A v \in Vehicles : record[v] = NoRecord

\* A chain whose cars are never found gives up unit by unit, and ends: with no more
\* reinforcements than it may have, a case comes to have no chain under way.
ChainEnds ==
    \A c \in Cases : ChainTasks(c) # {} ~> (c \notin Live \/ ChainTasks(c) = {})

\* dispatch_tick_states.cpp:49 has the siren refresh keep every car of a case on its
\* way: it returns, whichever services are on the case. (It does not: the refresh
\* holds g_vehicles_mutex, and ordering a service's vehicle takes it again.)
TickReturns == pc # "hung"

(* The inductive invariant. Tasks are due during a visit only, to a case that   *)
(* is served; a reroute yet to be made is from a case that lists the vehicle.   *)
TickIsWhole ==
    /\ pc \in {"tasks", "scene"} => cur \in Active
    /\ pc = "scene" => case[cur].state = "scene"
    /\ pc # "tasks" => due = {}
    /\ pc # "reroute" => moves = {}
    /\ \A m \in moves :
          /\ {m[2], m[3]} \subseteq Live /\ m[2] # m[3] /\ cars[m[2]][m[1]] > 0
          /\ \A n \in moves : m[1] = n[1] /\ m[2] = n[2] => m = n

(* The tasks of a case that may yet list vehicles without a look: chains, what  *)
(* may become one, and a helicopter, which counts as wave -1. M holds the tasks *)
(* of the case that are due in this visit.                                      *)
Lists(T) == {t \in T : t.job \in ChainJobs \cup {"reinforce", "heli"}}
Wave(t) == IF t.job = "heli" THEN -1 ELSE t.wave

WavesAreWhole(k, M) ==
    /\ \A t \in Lists(k.tasks \cup M) :
          /\ Wave(t) <= k.waves
          /\ t.job = "heli" => "heli" \in k.sent
          /\ \A u \in Lists(k.tasks \cup M) : Wave(t) = Wave(u) => t = u
    /\ Lists(k.tasks) \cap Lists(M) = {}
    /\ k.state \in {"none", "open"} => k.waves = 0 /\ Lists(k.tasks \cup M) = {}

(* Those that have not listed v so far, the first chain of an open case too.    *)
MayList(t, v) == t.job \in ChainJobs => v \notin Claimed(t)
Unlisted(k, M, v) ==
    {Wave(t) : t \in {u \in Lists(k.tasks \cup M) : MayList(u, v)}}
    \cup (IF k.state = "open" THEN {0} ELSE {})

(* A case, the tasks due to it and the vehicles it lists.                       *)
Sound(k, M, r) ==
    /\ WavesAreWhole(k, M)
    /\ \A v \in Vehicles : r[v] + Cardinality(Unlisted(k, M, v))
                              <= 2 + k.waves + Cardinality(k.sent \cap {"heli"})
    /\ k.state = "none" => k = Vacant /\ \A v \in Vehicles : r[v] = 0

Mine(c) == IF c = cur THEN due ELSE {}

IInv ==
    /\ TypeOK /\ TickIsWhole
    /\ RecordNamesLiveCase /\ OrdersEndWithTheCases
    /\ \A c \in Cases : Sound(case[c], Mine(c), cars[c])
=============================================================================
