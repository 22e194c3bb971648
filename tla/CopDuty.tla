-------------------------------- MODULE CopDuty --------------------------------
(* The cops of the C++ dispatcher: who is on its books, whom each pursues, who *)
(* defends itself, who is told to get out of a car or back into it, and who    *)
(* may take the wheel. CrimeCases decides who is a suspect, CaseFleet which    *)
(* car goes where; here either is any time it may be.                          *)
(*                                                                             *)
(* Positions are answers of the engine, read by a step as it likes. The tick   *)
(* runs on the game's main thread: once it began (pc), only its own steps run, *)
(* a cop at a time. The engine moves peds between ticks.                       *)
EXTENDS Integers, FiniteSets

CONSTANTS
    Cops, Others, Cars, Nobody, Foot, NoOrder,
    MaxLost         \* bound: peds dead or deleted at once

ASSUME NamesAssumption ==
    /\ Cops \cap Others = {}
    /\ Nobody \notin Cops \cup Others
    /\ Foot \notin Cars
    /\ NoOrder \notin [car : Cars, as : {"driver", "passenger"}]
ASSUME LostAssumption == MaxLost \in Nat

(* Operators named Mutant... break the one they precede the way a slip in the  *)
(* code would; with it, the property PROJECT.json pairs with it must fail.      *)

VARIABLES
    ped,       \* the engine's peds: "alive", "dead", "gone" from the pool
    seat,      \* the car a cop sits in, or Foot
    wheel,     \* the cop at a car's wheel
    suspects,  \* consolidated_criminals of the live cases
    book,      \* the cops with a CopComponent
    foe,       \* self_defense_attacker, while self_defense_until_ms is ahead
    aim,       \* CombatComponent.target_entity
    told,      \* CTaskComplexEnterCar under way
    bound,     \* g_cop_vehicle_bindings
    lock,      \* g_vehicle_driver_locks
    exits,     \* the cops of g_cop_exits less than 8 s ago
    stamped,   \* g_vehicle_last_enter_command_ms, less than 1500 ms ago
    pc,        \* "rest", "tick" in the TickEvent, "cases" after it
    todo       \* the cops the TickEvent has not visited yet

engine == <<ped, seat, wheel>>
combat == <<book, foe, aim>>
cars == <<told, bound, lock, exits, stamped>>
vars == <<engine, suspects, combat, cars, pc, todo>>

Peds == Cops \cup Others
Place == [car : Cars, as : {"driver", "passenger"}]

Alive(p) == ped[p] = "alive"
Valid == {p \in Others : ped[p] # "gone"}    \* is_ped_pointer_valid_safe
Live == suspects # {}                        \* g_crime_active
FewLost == Cardinality({p \in Peds : ~Alive(p)}) < MaxLost
Seated(v) == {c \in Cops : seat[c] = v}

-----------------------------------------------------------------------------
(* The components of a cop. is_in_vehicle is what the next lookup finds and    *)
(* has_exited_vehicle lives no longer than until then, always under an exit    *)
(* record that says the same; neither is kept here. Nor is what a pool handle  *)
(* of a target adds to its address, since the address is used when it fails.   *)

\* get_self_defense_target: the attacker, unless it died or left the pool.
Defends(c) == IF foe[c] # Nobody /\ Alive(foe[c]) THEN foe[c] ELSE Nobody

\* resolve_combat_target, when nobody attacked the cop.
Resolved(p) == IF p \in Valid THEN p ELSE Nobody

\* make_single_cop_attack_criminal: the weapon and the task the ladder ends with are
\* left to the engine.
Attack(S, p) ==
    /\ book' = book \cup S
    /\ aim' = [c \in Cops |-> IF c \in S THEN p ELSE aim[c]]

\* Only the CopComponent is removed.
MutantStruck(S) ==
    /\ book' = book \ S
    /\ foe' = [c \in Cops |-> IF c \in S THEN Nobody ELSE foe[c]]
    /\ UNCHANGED aim
\* destroy_entity, or both components removed.
Struck(S) ==
    /\ book' = book \ S
    /\ foe' = [c \in Cops |-> IF c \in S THEN Nobody ELSE foe[c]]
    /\ aim' = [c \in Cops |-> IF c \in S THEN Nobody ELSE aim[c]]

-----------------------------------------------------------------------------
(* Cars.                                                                       *)

\* bind_vehicle_occupants: whoever drives holds the lock.
Bind(v) ==
    /\ bound' = [c \in Cops |-> IF c \notin Seated(v) THEN bound[c]
                    ELSE [car |-> v, as |-> IF wheel[v] = c THEN "driver" ELSE "passenger"]]
    /\ lock' = [lock EXCEPT ![v] = IF wheel[v] = Nobody THEN @ ELSE wheel[v]]
    /\ book' = book \cup Seated(v)

MutantMayDrive(v, c) == wheel[v] \in {Nobody, c}    \* the lock's holder is not asked
\* make_cop_enter_vehicle and try_acquire_vehicle_driver_lock: the wheel is free,
\* and the lock too, or held by someone who died.
MayDrive(v, c) ==
    /\ wheel[v] \in {Nobody, c}
    /\ lock[v] \in {Nobody, c} \/ ~Alive(lock[v])

\* The driver promotion of the TickEvent: nobody alive at the wheel.
Drives(c) ==
    LET v == bound[c].car IN
    \/ bound[c].as = "driver"
    \/ wheel[v] = Nobody \/ ~Alive(wheel[v])

\* make_cop_enter_vehicle, which the cop's own cooldown never stops: its
\* component is new whenever it gets here.
GoBack(c) ==
    IF seat[c] # Foot \/ bound[c] = NoOrder THEN UNCHANGED cars
    ELSE LET v == bound[c].car
             told_driver == Drives(c) /\ MayDrive(v, c)
         IN /\ bound' = IF Drives(c) THEN [bound EXCEPT ![c] = [car |-> v, as |-> "driver"]] ELSE bound
            /\ stamped' = stamped \cup {v}
            /\ IF v \in stamped THEN UNCHANGED <<told, lock>>
               ELSE /\ told' = [told EXCEPT ![c] = [car |-> v,
                          as |-> IF told_driver THEN "driver" ELSE "passenger"]]
                    /\ lock' = IF told_driver THEN [lock EXCEPT ![v] = c] ELSE lock
            /\ UNCHANGED exits

MutantKept(c, near) == near     \* an exit under way is not looked up
\* should_block_cop_reenter_vehicle
Kept(c, near) == c \in exits \/ near

\* clear_all_cop_dispatch_state, the bindings, locks, stamps and exits of the
\* fallback and of purge. Who was told to get in goes on.
Forget ==
    /\ foe' = [c \in Cops |-> Nobody]
    /\ aim' = [c \in Cops |-> Nobody]
    /\ bound' = [c \in Cops |-> NoOrder]
    /\ lock' = [v \in Cars |-> Nobody]
    /\ exits' = {} /\ stamped' = {}
    /\ UNCHANGED <<book, told>>

-----------------------------------------------------------------------------
(* The engine, and the hooks it calls, between ticks.                          *)

Rest == pc = "rest" /\ UNCHANGED <<pc, todo>>

\* A cop is done getting in; whoever else was going for the wheel gives up.
GetIn(c, v) ==
    /\ Rest /\ Alive(c) /\ seat[c] = Foot
    /\ seat' = [seat EXCEPT ![c] = v]
    /\ \/ /\ wheel[v] = Nobody
          /\ wheel' = [wheel EXCEPT ![v] = c]
          /\ told' = [d \in Cops |-> IF d = c \/ told[d] = [car |-> v, as |-> "driver"]
                                     THEN NoOrder ELSE told[d]]
       \/ wheel' = wheel /\ told' = [told EXCEPT ![c] = NoOrder]
    /\ UNCHANGED <<ped, suspects, combat, bound, lock, exits, stamped>>

\* Alive, dead or deleted with its body.
GetOut(c) ==
    /\ Rest /\ seat[c] # Foot
    /\ seat' = [seat EXCEPT ![c] = Foot]
    /\ wheel' = [v \in Cars |-> IF wheel[v] = c THEN Nobody ELSE wheel[v]]
    /\ UNCHANGED <<ped, suspects, combat, cars>>

\* A task can be replaced at any time.
GiveUp(c) ==
    /\ Rest /\ told[c] # NoOrder
    /\ told' = [told EXCEPT ![c] = NoOrder]
    /\ UNCHANGED <<engine, suspects, combat, bound, lock, exits, stamped>>

\* RegisterKill and its EntityCleanupEvent, not heard while the mod is paused.
Die(p) ==
    /\ Rest /\ Alive(p) /\ FewLost
    /\ ped' = [ped EXCEPT ![p] = "dead"]
    /\ told' = [c \in Cops |-> IF c = p THEN NoOrder ELSE told[c]]
    /\ \/ p \in Cops /\ Struck({p})
       \/ /\ aim' = [c \in Cops |-> IF aim[c] = p THEN Nobody ELSE aim[c]]
          /\ UNCHANGED <<book, foe>>
       \/ UNCHANGED combat
    /\ UNCHANGED <<seat, wheel, suspects, bound, lock, exits, stamped>>

\* The engine deletes a ped, or puts another one where it was.
Despawn(p) ==
    /\ Rest /\ (Alive(p) => FewLost)
    /\ ped' = [ped EXCEPT ![p] = IF @ = "gone" THEN "alive" ELSE "gone"]
    /\ UNCHANGED <<seat, wheel, suspects, combat, cars>>

\* generate_damage_event: DamageEvent for a cop somebody hit.
Hit(p, c) ==
    /\ Rest /\ Alive(p) /\ Alive(c)
    /\ foe' = [foe EXCEPT ![c] = p]
    /\ Attack({c}, p)
    /\ UNCHANGED <<engine, suspects, cars>>

\* A crime is reported; suspects leave a case or a case ends.
Report(p) ==
    /\ Rest /\ Alive(p)
    /\ suspects' = suspects \cup {p}
    /\ UNCHANGED <<engine, combat, cars>>

Exonerate(p) ==
    /\ Rest /\ p \in suspects
    /\ suspects' = suspects \ {p}
    /\ UNCHANGED <<engine, combat, cars>>

\* collect_cops_targeting_criminal, collect_cops_targeting_case: those assigned in
\* the last 20 s.
Pursuers == {c \in book : Alive(c) /\ aim[c] # Nobody}
\* update_primary_criminal_for_case and update_cops_targeting_criminal_event_driven:
\* its pursuers follow, those who defend themselves too.
Redirect(p, S) ==
    /\ Rest /\ p \in suspects \cap Valid
    /\ S # {} /\ Attack(S, p)
    /\ UNCHANGED <<engine, suspects, foe, cars>>

\* The hook of CCarAI::AddPoliceCarOccupants, the periodic binding of the tick
\* and the other places that bind the occupants of a car.
BindCar(v) ==
    /\ pc \in {"rest", "cases"} /\ Seated(v) # {}
    /\ Bind(v)
    /\ UNCHANGED <<engine, suspects, foe, aim, told, exits, stamped, pc, todo>>

\* TellOccupantsToLeaveCar, by the engine or by the dispatcher.
CallOut(v) ==
    /\ pc \in {"rest", "cases"} /\ Seated(v) # {}
    /\ Bind(v)
    /\ exits' = exits \cup Seated(v)
    /\ UNCHANGED <<engine, suspects, foe, aim, told, stamped, pc, todo>>

\* 8 s, 1500 ms and 20 s pass.
ExitOver(c) == Rest /\ exits' = exits \ {c}
               /\ UNCHANGED <<engine, suspects, combat, told, bound, lock, stamped>>
StampOver(v) == Rest /\ stamped' = stamped \ {v}
                /\ UNCHANGED <<engine, suspects, combat, told, bound, lock, exits>>
FoeOver(c) == Rest /\ foe' = [foe EXCEPT ![c] = Nobody]
              /\ UNCHANGED <<engine, suspects, book, aim, cars>>

\* purge_dispatch_state_for_save_load
Purge == Rest /\ suspects' = {} /\ Forget /\ UNCHANGED engine

-----------------------------------------------------------------------------
(* The TickEvent, a cop at a time.                                             *)

BeginTick ==
    /\ pc = "rest"
    /\ pc' = "tick" /\ todo' = book
    /\ UNCHANGED <<engine, suspects, combat, cars>>

\* The stuck solver attacks the same target anew, the foot reroute a suspect of a
\* graver case; only for a cop on foot with a target.
Pursued(c) ==
    IF seat[c] = Foot /\ aim[c] # Nobody
    THEN {aim[c]} \cup (IF aim[c] \in suspects THEN suspects \cap Valid ELSE {})
    ELSE {aim[c]}

\* should_disarm, before the cop's surroundings are looked at.
Disarms(c, d, t) ==
    \/ seat[c] # Foot
    \/ t = Nobody \/ ~Alive(t)
    \/ d = Nobody /\ t \notin suspects

\* The components go whether or not there is a car to send the cop to.
MutantReleased(c) == IF bound[c] = NoOrder THEN {} ELSE {c}
Released(c) == {c}

\* Disarm and, unless it is kept on the scene, release the cop; one that holds no
\* weapon keeps its target with its place.
StandDown(c, t, near) ==
    IF Kept(c, near)
    THEN /\ aim' \in {[aim EXCEPT ![c] = u] :
                        u \in {Nobody} \cup (IF Defends(c) = Nobody THEN {t} ELSE {})}
         /\ foe' = [foe EXCEPT ![c] = Defends(c)]
         /\ UNCHANGED <<book, cars>>
    ELSE /\ GoBack(c)
         /\ Struck(Released(c))

\* AV-forced: a cop within sight of a live case fights on, its old target first.
Engages(c, t) ==
    LET old == {p \in {t} \ {Nobody} : Alive(p)}
        near == {p \in suspects : Alive(p)}
    IN /\ \/ \E p \in IF old # {} THEN old ELSE near : Attack({c}, p)
          \/ old = {} /\ aim' = [aim EXCEPT ![c] = t] /\ UNCHANGED book
       /\ foe' = [foe EXCEPT ![c] = Defends(c)]
       /\ UNCHANGED cars

\* The cop defends itself, or goes on with its target.
Fights(c, d, t) ==
    /\ Attack({c}, t)
    /\ foe' = [foe EXCEPT ![c] = d]
    /\ UNCHANGED cars

TickCop(c) ==
    /\ pc = "tick" /\ c \in todo
    /\ todo' = todo \ {c}
    /\ UNCHANGED <<engine, suspects, pc>>
    /\ IF ~Alive(c)
       THEN Struck({c}) /\ UNCHANGED cars
       ELSE \E p \in Pursued(c), av, near, far \in BOOLEAN :
            LET d == Defends(c)
                t == IF d # Nobody THEN d ELSE Resolved(p)
                loose == Disarms(c, d, t) \/ (far /\ ~av)
            IN /\ av => Live
               /\ near => \E s \in suspects : Alive(s)
               /\ IF ~loose THEN Fights(c, d, t)
                  ELSE IF av /\ d = Nobody THEN Engages(c, t)
                  ELSE StandDown(c, t, near)

-----------------------------------------------------------------------------
(* The visits of the cases, and the end of the tick.                           *)

BeginCases ==
    /\ pc = "tick" /\ todo = {}
    /\ pc' = "cases"
    /\ UNCHANGED <<engine, suspects, combat, cars, todo>>

\* A cop on foot in the attack pass; it is not taken off its attacker.
Pass(c, p) ==
    /\ pc = "cases" /\ Alive(c) /\ p \in suspects \cap Valid
    /\ seat[c] = Foot \/ Defends(c) \notin {Nobody, p}
    /\ foe' = [foe EXCEPT ![c] = Defends(c)]
    /\ Attack({c}, IF Defends(c) = Nobody THEN p ELSE Defends(c))
    /\ UNCHANGED <<engine, suspects, cars, pc, todo>>

\* dispatch_nearby_available_cops_to_crime: any cop, seated or not.
Mobilize(c, p) ==
    /\ pc = "cases" /\ Alive(c) /\ p \in suspects /\ Alive(p)
    /\ Attack({c}, p)
    /\ UNCHANGED <<engine, suspects, foe, cars, pc, todo>>

\* The cases that ended are erased; with the last one the fallback runs, and in
\* every tick from then on.
EndTick ==
    /\ pc = "cases" /\ pc' = "rest"
    /\ IF Live THEN UNCHANGED <<combat, cars>> ELSE Forget
    /\ UNCHANGED <<engine, suspects, todo>>

-----------------------------------------------------------------------------

\* Nothing is known; cops are on foot or sit in cars.
Init ==
    /\ ped = [p \in Peds |-> "alive"]
    /\ seat \in [Cops -> Cars \cup {Foot}]
    /\ wheel \in [Cars -> Cops \cup {Nobody}]
    /\ \A v \in Cars : wheel[v] # Nobody => seat[wheel[v]] = v
    /\ suspects = {} /\ book = {}
    /\ foe = [c \in Cops |-> Nobody] /\ aim = [c \in Cops |-> Nobody]
    /\ told = [c \in Cops |-> NoOrder] /\ bound = [c \in Cops |-> NoOrder]
    /\ lock = [v \in Cars |-> Nobody]
    /\ exits = {} /\ stamped = {}
    /\ pc = "rest" /\ todo = {}

Engine ==
    \/ \E c \in Cops : GetOut(c) \/ GiveUp(c) \/ ExitOver(c) \/ FoeOver(c)
    \/ \E c \in Cops, v \in Cars : GetIn(c, v)
    \/ \E p \in Peds : Die(p)
    \/ \E p \in Others : Despawn(p) \/ Report(p) \/ Exonerate(p)
    \/ \E p \in Others, c \in Cops : Hit(p, c)
    \/ \E p \in Others, S \in SUBSET Pursuers : Redirect(p, S)
    \/ \E v \in Cars : BindCar(v) \/ CallOut(v) \/ StampOver(v)
    \/ Purge

Visit(c) == \E p \in Others : Pass(c, p) \/ Mobilize(c, p)

Next ==
    \/ Engine
    \/ BeginTick \/ BeginCases \/ EndTick
    \/ \E c \in Cops : TickCop(c) \/ Visit(c)

Spec == Init /\ [][Next]_vars

\* The frames of the game go on and the mod is not paused for good: ticks begin,
\* and the calls of a tick return.
FairSpec ==
    /\ Spec
    /\ WF_vars(BeginTick) /\ WF_vars(BeginCases) /\ WF_vars(EndTick)
    /\ \A c \in Cops : WF_vars(TickCop(c))

-----------------------------------------------------------------------------
(* Properties.                                                                 *)

\* Every variable has its type, and what a cop's components say goes with
\* them: nobody has a target or an attacker once struck off the books.
TypeOK ==
    /\ ped \in [Peds -> {"alive", "dead", "gone"}]
    /\ seat \in [Cops -> Cars \cup {Foot}]
    /\ wheel \in [Cars -> Cops \cup {Nobody}]
    /\ suspects \subseteq Others
    /\ book \subseteq Cops
    /\ foe \in [Cops -> Others \cup {Nobody}]
    /\ aim \in [Cops -> Others \cup {Nobody}]
    /\ \A c \in Cops \ book : foe[c] = Nobody /\ aim[c] = Nobody
    /\ told \in [Cops -> Place \cup {NoOrder}]
    /\ bound \in [Cops -> Place \cup {NoOrder}]
    /\ lock \in [Cars -> Cops \cup {Nobody}]
    /\ exits \subseteq Cops /\ stamped \subseteq Cars
    /\ pc \in {"rest", "tick", "cases"} /\ todo \subseteq Cops

Drive(v) == [car |-> v, as |-> "driver"]

\* A cop told to drive keeps the lock of the car for as long as it is on its way,
\* and nobody else is sent to the wheel meanwhile, whoever is bound to the car,
\* gets in or out of it or is released; save that the lock is dropped with
\* everything else when no case is left.
DriverKeepsTheWheel ==
    [][\A c \in Cops, v \in Cars :
          told[c] = Drive(v) /\ told'[c] = Drive(v) /\ lock[v] = c =>
             \/ suspects' = {} /\ Forget
             \/ /\ lock'[v] = c
                /\ \A d \in Cops \ {c} : told'[d] = Drive(v) => told[d] = Drive(v)]_vars

\* dispatch_cop_response.cpp:252 has a cop get in as a passenger when another has
\* the driver lock: no two cops are on their way to one wheel. (They are: the
\* fallback drops the lock of a cop that is still on its way.)
OneDriverCommanded ==
    \A c, d \in Cops, v \in Cars :
        told[c] = Drive(v) /\ told[d] = Drive(v) => c = d

\* A cop whose exit is under way is not on its way back into a car, whichever of
\* the two was ordered first and by whom (should_block_cop_reenter_vehicle).
LeavingIsNotSentBack == \A c \in Cops : told[c] # NoOrder => c \notin exits

\* What the proofs need besides: the TickEvent visits cops that are still on the
\* books, whoever is at a wheel sits in that car, a cop told to get in is alive and
\* on foot, and nobody is at the wheel that a cop is told to take.
Turns == todo \subseteq book /\ (pc # "tick" => todo = {})
AtWheel == \A v \in Cars : wheel[v] # Nobody => seat[wheel[v]] = v
OrdersOnFoot == \A c \in Cops : told[c] # NoOrder => seat[c] = Foot /\ Alive(c)
WheelIsFree == \A c \in Cops, v \in Cars : told[c] = Drive(v) => wheel[v] = Nobody
IInv == TypeOK /\ Turns /\ AtWheel /\ OrdersOnFoot /\ WheelIsFree /\ LeavingIsNotSentBack

\* Once no case is live and nobody attacks it, a cop that is not getting out of
\* a car leaves the dispatcher's books, whatever it was doing: the TickEvent
\* releases it although the fallback has forgotten its car.
CopsStandDown ==
    \A c \in Cops :
        LET idle == ~Live /\ foe[c] = Nobody /\ c \notin exits IN
        c \in book /\ idle ~> c \notin book \/ ~idle
===============================================================================
