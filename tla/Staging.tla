------------------------------- MODULE Staging -------------------------------
(***************************************************************************)
(* StagingState: the cordons around the places where spawned units are     *)
(* held until their batch is released.  A hold at a place counts on the    *)
(* first cordon near enough to it, whoever opened that cordon; nearness    *)
(* (16 m) is not transitive, so one place may be near two cordons.         *)
(***************************************************************************)
EXTENDS Naturals, Sequences, FiniteSets

CONSTANTS
    Place,   \* where a unit may be held
    Near     \* pairs of places within STAGING_AREA_CLOSURE_DEDUP_M

ASSUME NearAssumption ==
    /\ Place # {}
    /\ Near \subseteq Place \X Place
    /\ \A p \in Place : <<p, p>> \in Near
    /\ \A p, q \in Place : <<p, q>> \in Near => <<q, p>> \in Near

Closure == [center : Place, refs : Nat \ {0}]

NearClosures(cl, p) == {i \in DOMAIN cl : <<cl[i].center, p>> \in Near}

(* find_staging_closure_near and the position() of the end: first match.   *)
FirstNear(cl, p) ==
    CHOOSE i \in NearClosures(cl, p) : \A j \in NearClosures(cl, p) : i <= j

Without(cl, i) ==
    [j \in 1 .. (Len(cl) - 1) |-> IF j < i THEN cl[j] ELSE cl[j + 1]]

BeginClosure(cl, p) ==
    IF NearClosures(cl, p) = {}
    THEN Append(cl, [center |-> p, refs |-> 1])
    ELSE [cl EXCEPT ![FirstNear(cl, p)].refs = @ + 1]

(* A slip: the end looks for a cordon centred at the place itself.         *)
MutantEndClosure(cl, p) ==
    LET at == {i \in DOMAIN cl : cl[i].center = p}
    IN  IF at = {} THEN cl
        ELSE LET i == CHOOSE j \in at : TRUE
             IN  IF cl[i].refs = 1 THEN Without(cl, i)
                 ELSE [cl EXCEPT ![i].refs = @ - 1]

EndClosure(cl, p) ==
    IF NearClosures(cl, p) = {} THEN cl
    ELSE LET i == FirstNear(cl, p)
         IN  IF cl[i].refs = 1 THEN Without(cl, i)
             ELSE [cl EXCEPT ![i].refs = @ - 1]
==============================================================================
