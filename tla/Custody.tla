------------------------------- MODULE Custody -------------------------------
(***************************************************************************)
(* How criminals are taken into custody and driven away: arrest.rs, the    *)
(* transport half of ExecGlobals, and the steps of tick_on_scene around    *)
(* them, for cases that may know the same criminal.                        *)
(*                                                                         *)
(* A frame is BeginFrame, then one tick of every case on scene: BeginTick, *)
(* one step per criminal, EndLook, and the attack pass.  Hooks and the     *)
(* engine act between frames only.                                         *)
(***************************************************************************)
EXTENDS Naturals, FiniteSets

CONSTANTS
    Cases,           \* cases on scene
    Criminals,       \* peds the cases know as suspects
    Vehicles,        \* police cars
    MaxPrisoners,    \* MAX_TRANSPORT_PRISONERS
    MaxPauses,       \* bound: times a case may lose its last car while it
                     \* waits for a top-up (at most one per top-up)
    Removable,       \* criminals the engine may remove
    None             \* no vehicle

ASSUME CustodyAssumption ==
    /\ IsFiniteSet(Criminals)
    /\ MaxPrisoners \in Nat \ {0}
    /\ MaxPauses \in Nat
    /\ Removable \subseteq Criminals
    /\ None \notin Vehicles

VARIABLES
    present,     \* peds in the ResourceRegistry
    registered,  \* vehicles in the ResourceRegistry
    seat,        \* engine: the police car a criminal sits in, or None
    tasked,      \* engine: criminals some cop has a task to arrest
    criminals,   \* criminals[c]: CaseRecord.criminals
    watched,     \* cases whose arrests are looked at: the on-scene clock runs,
                 \* and the case does not wait for units without any
    pauses,      \* pauses[c]: how often it was paused so far
    heldIn,      \* heldIn[c][p]: transport_vehicle in the case's arrest state
                 \* of p; None if p is not apprehended there
    carried,     \* carried[v]: prisoners of v; v is in transport_vehicles if any
    departed,    \* transports with departure_ordered
    away,        \* engine: of those, far from the player and long enough gone
    ordered,     \* ExecGlobals.vehicles_ordered_to_scene
    custody,     \* ExecGlobals.custody_criminals
    todo,        \* cases still to be ticked in this frame
    turn,        \* the case whose tick runs, if one does
    toLook       \* criminals its tick_case_arrests has still to look at

engineVars == <<present, registered, seat, tasked>>
caseVars   == <<criminals, watched, pauses, heldIn>>
carVars    == <<carried, departed, away, ordered>>
frameVars  == <<todo, turn, toLook>>
vars == <<engineVars, caseVars, carVars, custody, frameVars>>

IsTransport(v) == carried[v] # {}
BetweenFrames  == todo = {} /\ turn = {}

(* sync_custody_criminals *)
InCustody(held) == {p \in Criminals : \E c \in Cases : held[c][p] # None}

Init ==
    /\ present = Criminals
    /\ registered = Vehicles
    /\ seat = [p \in Criminals |-> None]
    /\ tasked = {}
    /\ criminals \in [Cases -> SUBSET Criminals]
    /\ watched = {}
    /\ pauses = [c \in Cases |-> 0]
    /\ heldIn = [c \in Cases |-> [p \in Criminals |-> None]]
    /\ carried = [v \in Vehicles |-> {}]
    /\ departed = {}
    /\ away = {}
    /\ ordered = {}
    /\ custody = {}
    /\ todo = {}
    /\ turn = {}
    /\ toLook = {}

-----------------------------------------------------------------------------
(* Between frames: the engine and the hooks.                               *)

GetIn(p, v) ==
    /\ BetweenFrames
    /\ p \in present /\ v \in registered
    /\ seat' = [seat EXCEPT ![p] = v]
    /\ tasked' = tasked \ {p}
    /\ UNCHANGED <<present, registered, caseVars, carVars, custody, frameVars>>

GetOut(p) ==
    /\ BetweenFrames
    /\ seat[p] # None
    /\ seat' = [seat EXCEPT ![p] = None]
    /\ UNCHANGED <<present, registered, tasked, caseVars, carVars, custody, frameVars>>

DriveAway(v) ==
    /\ BetweenFrames
    /\ v \in departed \ away
    /\ away' = away \cup {v}
    /\ UNCHANGED <<engineVars, caseVars, carried, departed, ordered, custody, frameVars>>

(* release_ped with on_ped_despawned, or the retain of the next cases.tick. *)
RemovePed(p) ==
    /\ BetweenFrames
    /\ p \in present \cap Removable
    /\ present' = present \ {p}
    /\ seat' = [seat EXCEPT ![p] = None]
    /\ tasked' = tasked \ {p}
    /\ criminals' = [c \in Cases |-> criminals[c] \ {p}]
    /\ UNCHANGED <<registered, watched, pauses, heldIn, carVars, custody, frameVars>>

(* release_vehicle; who sat in the car is out of it.                       *)
RemoveVehicle(v) ==
    /\ BetweenFrames
    /\ v \in registered
    /\ registered' = registered \ {v}
    /\ seat' = [p \in Criminals |-> IF seat[p] = v THEN None ELSE seat[p]]
    /\ carried' = [carried EXCEPT ![v] = {}]
    /\ departed' = departed \ {v}
    /\ away' = away \ {v}
    /\ ordered' = ordered \ {v}
    /\ UNCHANGED <<present, tasked, caseVars, custody, frameVars>>

(* on_scene_start_ms is stamped, or a car joins a case that had none.      *)
Watch(c) ==
    /\ BetweenFrames
    /\ c \notin watched
    /\ watched' = watched \cup {c}
    /\ UNCHANGED <<engineVars, criminals, pauses, heldIn, carVars, custody, frameVars>>

(* The last car of a case goes while a top-up is pending.                  *)
Pause(c) ==
    /\ BetweenFrames
    /\ c \in watched
    /\ pauses[c] < MaxPauses
    /\ watched' = watched \ {c}
    /\ pauses' = [pauses EXCEPT ![c] = @ + 1]
    /\ UNCHANGED <<engineVars, criminals, heldIn, carVars, custody, frameVars>>

MutantDispatch(v) ==   \* a transport is not spared
    /\ BetweenFrames
    /\ v \in registered
    /\ ordered' = ordered \cup {v}
    /\ UNCHANGED <<engineVars, caseVars, carried, departed, away, custody, frameVars>>

(* dispatch_vehicle_to_disturbance, for whichever case.                    *)
Dispatch(v) ==
    /\ BetweenFrames
    /\ v \in registered /\ ~IsTransport(v)
    /\ ordered' = ordered \cup {v}
    /\ UNCHANGED <<engineVars, caseVars, carried, departed, away, custody, frameVars>>

-----------------------------------------------------------------------------
(* A frame.                                                                *)

BeginFrame ==
    /\ BetweenFrames
    /\ custody' = InCustody(heldIn)
    /\ todo' = Cases
    /\ UNCHANGED <<engineVars, caseVars, carVars, turn, toLook>>

BeginTick(c) ==
    /\ turn = {} /\ c \in todo
    /\ turn' = {c}
    /\ toLook' = IF c \in watched THEN criminals[c] ELSE {}
    /\ UNCHANGED <<engineVars, caseVars, carVars, custody, todo>>

MutantFoundIn(c, p) ==   \* the room in the car is not looked at
    IF heldIn[c][p] # None THEN heldIn[c][p]
    ELSE IF seat[p] \in registered THEN seat[p] ELSE None

(* The car p is held in as this case knows: since earlier, or found now by
   find_police_custody_vehicle, which wants room in it.                    *)
FoundIn(c, p) ==
    IF heldIn[c][p] # None THEN heldIn[c][p]
    ELSE IF seat[p] \in registered /\ Cardinality(carried[seat[p]]) < MaxPrisoners
         THEN seat[p] ELSE None

(* register_transport_prisoner, when p is newly apprehended.               *)
Boarded(c, p, v) ==
    IF heldIn[c][p] = None THEN carried[v] \cup {p} ELSE carried[v]

(* transport_ready_for_release; a departure ordered in this very look is
   not MIN_MS old.                                                         *)
Ready(v, prisoners) ==
    v \notin registered \/ prisoners = {} \/ v \in away

Looking(c, p) == c \in turn /\ p \in toLook

LookAtFree(c, p) ==
    /\ Looking(c, p)
    /\ FoundIn(c, p) = None
    /\ toLook' = toLook \ {p}
    /\ UNCHANGED <<engineVars, caseVars, carVars, custody, todo, turn>>

MutantHold(c, p) ==   \* the departure is not ordered
    LET v == FoundIn(c, p) IN
    /\ Looking(c, p)
    /\ v # None /\ ~Ready(v, Boarded(c, p, v))
    /\ heldIn' = [heldIn EXCEPT ![c][p] = v]
    /\ carried' = [carried EXCEPT ![v] = Boarded(c, p, v)]
    /\ ordered' = ordered \ {v}
    /\ toLook' = toLook \ {p}
    /\ UNCHANGED <<engineVars, criminals, watched, pauses, departed, away, custody, todo, turn>>

(* p is apprehended now or stays so; its transport is told to depart.      *)
Hold(c, p) ==
    LET v == FoundIn(c, p) IN
    /\ Looking(c, p)
    /\ v # None /\ ~Ready(v, Boarded(c, p, v))
    /\ heldIn' = [heldIn EXCEPT ![c][p] = v]
    /\ carried' = [carried EXCEPT ![v] = Boarded(c, p, v)]
    /\ departed' = departed \cup {v}
    /\ ordered' = IF heldIn[c][p] = None THEN ordered \ {v} ELSE ordered
    /\ toLook' = toLook \ {p}
    /\ UNCHANGED <<engineVars, criminals, watched, pauses, away, custody, todo, turn>>

MutantGiveBack(c, p) ==   \* the prisoner is left on the transport's list
    LET v == FoundIn(c, p) IN
    /\ Looking(c, p)
    /\ v # None /\ Ready(v, Boarded(c, p, v))
    /\ carried' = [carried EXCEPT ![v] = Boarded(c, p, v)]
    /\ ordered' = IF heldIn[c][p] = None THEN ordered \ {v} ELSE ordered
    /\ criminals' = [criminals EXCEPT ![c] = @ \ {p}]
    /\ heldIn' = [heldIn EXCEPT ![c][p] = None]
    /\ toLook' = toLook \ {p}
    /\ UNCHANGED <<engineVars, watched, pauses, departed, away, custody, todo, turn>>

MutantGiveBackLate(c, p) ==   \* depart_ms outlives the transport
    LET v == FoundIn(c, p)
        left == Boarded(c, p, v) \ {p} IN
    /\ Looking(c, p)
    /\ v # None /\ Ready(v, Boarded(c, p, v))
    /\ carried' = [carried EXCEPT ![v] = left]
    /\ departed' = IF left = {} THEN departed \ {v} ELSE departed
    /\ criminals' = [criminals EXCEPT ![c] = @ \ {p}]
    /\ heldIn' = [heldIn EXCEPT ![c][p] = None]
    /\ toLook' = toLook \ {p}
    /\ UNCHANGED <<engineVars, watched, pauses, away, ordered, custody, todo, turn>>

(* The transport is gone or far away: p is off it and out of the case.     *)
GiveBack(c, p) ==
    LET v == FoundIn(c, p)
        left == Boarded(c, p, v) \ {p} IN
    /\ Looking(c, p)
    /\ v # None /\ Ready(v, Boarded(c, p, v))
    /\ carried' = [carried EXCEPT ![v] = left]
    /\ departed' = IF left = {} THEN departed \ {v} ELSE departed
    /\ away' = IF left = {} THEN away \ {v} ELSE away
    /\ ordered' = IF heldIn[c][p] = None THEN ordered \ {v} ELSE ordered
    /\ criminals' = [criminals EXCEPT ![c] = @ \ {p}]
    /\ heldIn' = [heldIn EXCEPT ![c][p] = None]
    /\ toLook' = toLook \ {p}
    /\ UNCHANGED <<engineVars, watched, pauses, custody, todo, turn>>

MutantCustodyAfter(c) == custody   \* custody_criminals as the frame began

(* sync_custody_criminals once more, after the case's arrests.             *)
CustodyAfter(c) == IF c \in watched THEN InCustody(heldIn) ELSE custody

(* The attack pass has a cop arrest p, the case's primary suspect, unless
   p is in custody anywhere.                                               *)
Attack(c, p) ==
    /\ c \in turn /\ toLook = {}
    /\ custody' = CustodyAfter(c)
    /\ p \in criminals[c] \cap present
    /\ heldIn[c][p] = None /\ p \notin custody'
    /\ tasked' = tasked \cup {p}
    /\ turn' = {} /\ todo' = todo \ {c}
    /\ UNCHANGED <<present, registered, seat, caseVars, carVars, toLook>>

EndTick(c) ==
    /\ c \in turn /\ toLook = {}
    /\ custody' = CustodyAfter(c)
    /\ turn' = {} /\ todo' = todo \ {c}
    /\ UNCHANGED <<engineVars, caseVars, carVars, toLook>>

-----------------------------------------------------------------------------

Frame ==
    \/ BeginFrame
    \/ \E c \in todo :
          \/ BeginTick(c)
          \/ \E p \in toLook : LookAtFree(c, p) \/ Hold(c, p) \/ GiveBack(c, p)
          \/ \E p \in Criminals : Attack(c, p)
          \/ EndTick(c)

Engine ==
    \/ \E p \in Criminals : GetOut(p) \/ RemovePed(p) \/ \E v \in Vehicles : GetIn(p, v)
    \/ \E v \in Vehicles : DriveAway(v) \/ RemoveVehicle(v) \/ Dispatch(v)
    \/ \E c \in Cases : Watch(c) \/ Pause(c)

Next == Frame \/ Engine

Spec == Init /\ [][Next]_vars

Fairness ==
    /\ WF_vars(Frame)
    /\ \A v \in Vehicles : SF_vars(DriveAway(v))
    /\ \A c \in Cases : SF_vars(Watch(c))

FairSpec == Spec /\ Fairness

-----------------------------------------------------------------------------
(* Properties.                                                             *)

TypeOK ==
    /\ present \subseteq Criminals
    /\ registered \subseteq Vehicles
    /\ seat \in [Criminals -> Vehicles \cup {None}]
    /\ tasked \subseteq Criminals
    /\ criminals \in [Cases -> SUBSET Criminals]
    /\ watched \subseteq Cases
    /\ pauses \in [Cases -> 0 .. MaxPauses]
    /\ heldIn \in [Cases -> [Criminals -> Vehicles \cup {None}]]
    /\ carried \in [Vehicles -> SUBSET Criminals]
    /\ departed \subseteq Vehicles
    /\ away \subseteq departed
    /\ ordered \subseteq Vehicles
    /\ custody \subseteq Criminals
    /\ todo \subseteq Cases
    /\ turn \subseteq todo
    /\ toLook \subseteq Criminals

(* No car carries more prisoners than it has room for, though several
   cases put theirs in (arrest.rs:168).                                    *)
TransportHasRoom == \A v \in Vehicles : Cardinality(carried[v]) <= MaxPrisoners

(* A car that carries prisoners is on no order to a scene: it was taken off
   the order it had and gets no new one (game.rs:29).                      *)
TransportIsOffDuty == \A v \in ordered : ~IsTransport(v)

(* Every prisoner who still exists is held by a case that knows him as a
   criminal and as sitting in that car: that case will take him off.       *)
PrisonersAreHeld ==
    \A v \in Vehicles : \A p \in carried[v] \cap present :
        \E c \in Cases : heldIn[c][p] = v /\ p \in criminals[c]

(* No cop is set on a criminal whom any case has in custody, the case that
   attacks or another one (response.rs:297).                               *)
CustodyIsLeftAlone ==
    [][\A p \in tasked' \ tasked : \A c \in Cases : heldIn[c][p] = None]_vars

(* A car that carries prisoners does not do so for ever, unless the engine
   removes one of them from the game: nothing takes that one off its list
   (game.rs:73, runtime.rs:814).                                           *)
TransportIsGivenBack ==
    \A v \in Vehicles :
        IsTransport(v) ~> ~IsTransport(v) \/ ~(carried[v] \subseteq present)
==============================================================================
