---------------------------- MODULE Custody_proofs ----------------------------
(***************************************************************************)
(* Theorems of Custody, for any cases, criminals, cars and bounds.         *)
(***************************************************************************)
EXTENDS Custody, FiniteSetTheorems, TLAPS

(* One case is ticked at a time; whom it has still to look at are criminals
   of it, and there are some only if it is watched.                        *)
TickIsWhole ==
    \A c \in turn : /\ turn = {c}
                    /\ toLook \subseteq criminals[c]
                    /\ toLook # {} => c \in watched

(* custody_criminals is up to date but for the arrests of the case whose
   tick runs.                                                              *)
CustodyIsFresh ==
    todo # {} /\ (\A c \in turn : c \notin watched) => custody = InCustody(heldIn)

IInv == /\ TypeOK
        /\ TickIsWhole
        /\ CustodyIsFresh
        /\ TransportHasRoom
        /\ TransportIsOffDuty
        /\ PrisonersAreHeld

(* A car found for a criminal is one of the fleet; one found anew is
   registered and has room.                                                *)
LEMMA FoundInCar ==
    ASSUME TypeOK, NEW c \in Cases, NEW p \in Criminals, FoundIn(c, p) # None
    PROVE  /\ FoundIn(c, p) \in Vehicles
           /\ heldIn[c][p] # None => FoundIn(c, p) = heldIn[c][p]
           /\ heldIn[c][p] = None =>
                 Cardinality(carried[FoundIn(c, p)]) < MaxPrisoners
  BY DEF FoundIn, TypeOK

(* One more prisoner keeps within the room there was; fewer do too.        *)
LEMMA BoardedFits ==
    ASSUME TypeOK, TransportHasRoom,
           NEW c \in Cases, NEW p \in Criminals, FoundIn(c, p) # None
    PROVE  LET v == FoundIn(c, p) IN
           /\ Boarded(c, p, v) \subseteq Criminals
           /\ Cardinality(Boarded(c, p, v)) <= MaxPrisoners
           /\ Cardinality(Boarded(c, p, v) \ {p}) <= MaxPrisoners
<1> DEFINE v == FoundIn(c, p)
           S == carried[v]
           B == Boarded(c, p, v)
<1>1. v \in Vehicles /\ S \subseteq Criminals
  BY FoundInCar DEF TypeOK
<1>2. IsFiniteSet(S) /\ Cardinality(S) \in Nat
  BY <1>1, CustodyAssumption, FS_Subset, FS_CardinalityType
<1>3. B \subseteq Criminals /\ IsFiniteSet(B)
  BY <1>1, CustodyAssumption, FS_Subset DEF Boarded
<1>4. Cardinality(B) <= MaxPrisoners /\ Cardinality(B) \in Nat
  <2>1. CASE heldIn[c][p] = None
    <3>1. Cardinality(S) < MaxPrisoners
      BY <2>1, FoundInCar
    <3>2. Cardinality(S \cup {p}) = Cardinality(S) \/ Cardinality(S \cup {p}) = Cardinality(S) + 1
      BY <1>2, FS_AddElement
    <3> QED BY <1>2, <2>1, <3>1, <3>2, CustodyAssumption DEF Boarded
  <2>2. CASE heldIn[c][p] # None
    BY <1>1, <1>2, <2>2 DEF Boarded, TransportHasRoom
  <2> QED BY <2>1, <2>2
<1>5. IsFiniteSet(B \ {p}) /\ Cardinality(B \ {p}) <= Cardinality(B)
  BY <1>3, FS_Subset
<1>6. Cardinality(B \ {p}) \in Nat
  BY <1>5, FS_CardinalityType
<1> QED
  BY <1>3, <1>4, <1>5, <1>6, CustodyAssumption

(* The initial states satisfy it.                                          *)
THEOREM InitIInv == Init => IInv
<1> SUFFICES ASSUME Init PROVE IInv
  OBVIOUS
<1>1. TypeOK
  BY CustodyAssumption DEF Init, TypeOK
<1>2. TransportHasRoom
  BY FS_EmptySet, CustodyAssumption DEF Init, TransportHasRoom
<1> QED
  BY <1>1, <1>2 DEF Init, IInv, TickIsWhole, CustodyIsFresh, TransportIsOffDuty,
     IsTransport, PrisonersAreHeld

(* What the hooks and the engine do between frames keeps IInv.             *)
LEMMA EngineKeepsIInv == IInv /\ Engine => IInv'
<1> SUFFICES ASSUME IInv, Engine PROVE IInv'
  OBVIOUS
<1> USE DEF IInv
<1>1. ASSUME NEW p \in Criminals, NEW v \in Vehicles, GetIn(p, v) PROVE IInv'
  BY <1>1 DEF GetIn, TypeOK, TickIsWhole, CustodyIsFresh, TransportHasRoom,
     TransportIsOffDuty, IsTransport, PrisonersAreHeld, InCustody, caseVars,
     carVars, frameVars
<1>2. ASSUME NEW p \in Criminals, GetOut(p) PROVE IInv'
  BY <1>2 DEF GetOut, TypeOK, TickIsWhole, CustodyIsFresh, TransportHasRoom,
     TransportIsOffDuty, IsTransport, PrisonersAreHeld, InCustody, caseVars,
     carVars, frameVars
<1>3. ASSUME NEW p \in Criminals, RemovePed(p) PROVE IInv'
  <2> USE <1>3 DEF RemovePed
  <2>1. TypeOK'
    BY DEF TypeOK, carVars, frameVars
  <2>2. TickIsWhole' /\ CustodyIsFresh'
    BY DEF TickIsWhole, CustodyIsFresh, BetweenFrames, frameVars
  <2>3. TransportHasRoom' /\ TransportIsOffDuty'
    BY DEF TransportHasRoom, TransportIsOffDuty, IsTransport, carVars
  <2>4. PrisonersAreHeld'
    BY DEF PrisonersAreHeld, TypeOK, carVars
  <2> QED  BY <2>1, <2>2, <2>3, <2>4
<1>4. ASSUME NEW v \in Vehicles, DriveAway(v) PROVE IInv'
  BY <1>4 DEF DriveAway, TypeOK, TickIsWhole, CustodyIsFresh, TransportHasRoom,
     TransportIsOffDuty, IsTransport, PrisonersAreHeld, InCustody, engineVars,
     caseVars, frameVars
<1>5. ASSUME NEW v \in Vehicles, RemoveVehicle(v) PROVE IInv'
  <2> USE <1>5 DEF RemoveVehicle
  <2>1. TypeOK'
    BY DEF TypeOK, caseVars, frameVars
  <2>2. TickIsWhole' /\ CustodyIsFresh'
    BY DEF TickIsWhole, CustodyIsFresh, BetweenFrames, frameVars
  <2>3. TransportHasRoom'
    BY FS_EmptySet, CustodyAssumption DEF TransportHasRoom, TypeOK
  <2>4. TransportIsOffDuty'
    BY DEF TransportIsOffDuty, IsTransport, TypeOK
  <2>5. PrisonersAreHeld'
    BY DEF PrisonersAreHeld, TypeOK, caseVars
  <2> QED  BY <2>1, <2>2, <2>3, <2>4, <2>5
<1>6. ASSUME NEW v \in Vehicles, Dispatch(v) PROVE IInv'
  BY <1>6 DEF Dispatch, TypeOK, TickIsWhole, CustodyIsFresh, TransportHasRoom,
     TransportIsOffDuty, IsTransport, PrisonersAreHeld, InCustody, engineVars,
     caseVars, frameVars
<1>7. ASSUME NEW c \in Cases, Watch(c) PROVE IInv'
  BY <1>7 DEF Watch, BetweenFrames, TypeOK, TickIsWhole, CustodyIsFresh,
     TransportHasRoom, TransportIsOffDuty, IsTransport, PrisonersAreHeld,
     engineVars, carVars, frameVars
<1>8. ASSUME NEW c \in Cases, Pause(c) PROVE IInv'
  <2> USE <1>8 DEF Pause
  <2>1. TypeOK'
    BY CustodyAssumption DEF TypeOK, engineVars, carVars, frameVars
  <2>2. TickIsWhole' /\ CustodyIsFresh'
    BY DEF TickIsWhole, CustodyIsFresh, BetweenFrames, frameVars
  <2>3. TransportHasRoom' /\ TransportIsOffDuty' /\ PrisonersAreHeld'
    BY DEF TransportHasRoom, TransportIsOffDuty, IsTransport, PrisonersAreHeld,
       engineVars, carVars
  <2> QED  BY <2>1, <2>2, <2>3
<1> QED
  BY <1>1, <1>2, <1>3, <1>4, <1>5, <1>6, <1>7, <1>8 DEF Engine

(* A criminal taken into custody, or kept there.                           *)
LEMMA HoldKeepsIInv ==
    ASSUME IInv, NEW c \in Cases, NEW p \in Criminals, Hold(c, p)
    PROVE  IInv'
<1> USE DEF IInv, Hold
<1> DEFINE v == FoundIn(c, p)
<1>1. v \in Vehicles /\ (heldIn[c][p] # None => v = heldIn[c][p])
  BY FoundInCar
<1>2. Boarded(c, p, v) \subseteq Criminals /\ Cardinality(Boarded(c, p, v)) <= MaxPrisoners
  BY BoardedFits
<1>3. p \in criminals[c] /\ turn = {c} /\ c \in watched
  BY DEF Looking, TickIsWhole
<1>4. TypeOK'
  BY <1>1, <1>2 DEF TypeOK, engineVars
<1>5. TickIsWhole' /\ CustodyIsFresh'
  BY <1>3 DEF TickIsWhole, CustodyIsFresh
<1>6. TransportHasRoom'
  BY <1>1, <1>2 DEF TransportHasRoom, TypeOK
<1>7. TransportIsOffDuty'
  BY <1>1 DEF TransportIsOffDuty, IsTransport, TypeOK, Boarded
<1>8. PrisonersAreHeld'
  <2> SUFFICES ASSUME NEW w \in Vehicles, NEW q \in carried'[w] \cap present'
               PROVE  \E d \in Cases : heldIn'[d][q] = w /\ q \in criminals'[d]
    BY DEF PrisonersAreHeld
  <2>1. CASE w = v /\ q = p
    BY <1>1, <1>3, <2>1 DEF TypeOK
  <2>2. CASE ~(w = v /\ q = p)
    <3>1. q \in carried[w] \cap present /\ q \in Criminals
      BY <1>1, <2>2 DEF TypeOK, Boarded, engineVars
    <3>2. PICK d \in Cases : heldIn[d][q] = w /\ q \in criminals[d]
      BY <3>1 DEF PrisonersAreHeld
    <3>3. heldIn'[d][q] = w
      BY <1>1, <2>2, <3>1, <3>2, CustodyAssumption DEF TypeOK
    <3> QED  BY <3>2, <3>3
  <2> QED  BY <2>1, <2>2
<1> QED
  BY <1>4, <1>5, <1>6, <1>7, <1>8

(* A criminal given back by one case: others may still hold theirs.        *)
LEMMA GiveBackKeepsIInv ==
    ASSUME IInv, NEW c \in Cases, NEW p \in Criminals, GiveBack(c, p)
    PROVE  IInv'
<1> USE DEF IInv, GiveBack
<1> DEFINE v == FoundIn(c, p)
           left == Boarded(c, p, v) \ {p}
<1>1. v \in Vehicles /\ (heldIn[c][p] # None => v = heldIn[c][p])
  BY FoundInCar
<1>2. left \subseteq Criminals /\ Cardinality(left) <= MaxPrisoners
  BY BoardedFits
<1>3. left \subseteq carried[v] /\ p \notin left
  BY DEF Boarded
<1>4. turn = {c} /\ c \in watched
  BY DEF Looking, TickIsWhole
<1>5. TypeOK'
  BY <1>1, <1>2 DEF TypeOK, engineVars
<1>6. TickIsWhole' /\ CustodyIsFresh'
  BY <1>4 DEF TickIsWhole, CustodyIsFresh, TypeOK
<1>7. TransportHasRoom'
  BY <1>1, <1>2 DEF TransportHasRoom, TypeOK
<1>8. TransportIsOffDuty'
  BY <1>1, <1>3 DEF TransportIsOffDuty, IsTransport, TypeOK
<1>9. PrisonersAreHeld'
  <2> SUFFICES ASSUME NEW w \in Vehicles, NEW q \in carried'[w] \cap present'
               PROVE  \E d \in Cases : heldIn'[d][q] = w /\ q \in criminals'[d]
    BY DEF PrisonersAreHeld
  <2>1. q \in carried[w] \cap present /\ q \in Criminals
    BY <1>1, <1>3 DEF TypeOK, engineVars
  <2>2. PICK d \in Cases : heldIn[d][q] = w /\ q \in criminals[d]
    BY <2>1 DEF PrisonersAreHeld
  <2>3. ~(d = c /\ q = p)
    BY <1>1, <1>3, <2>2, CustodyAssumption DEF TypeOK
  <2>4. heldIn'[d][q] = w /\ q \in criminals'[d]
    BY <2>1, <2>2, <2>3 DEF TypeOK
  <2> QED  BY <2>4
<1> QED
  BY <1>5, <1>6, <1>7, <1>8, <1>9

(* So does every step of a frame.                                          *)
LEMMA FrameKeepsIInv == IInv /\ Frame => IInv'
<1> SUFFICES ASSUME IInv, Frame PROVE IInv'
  OBVIOUS
<1> USE DEF IInv
<1>1. CASE BeginFrame
  BY <1>1 DEF BeginFrame, BetweenFrames, TypeOK, TickIsWhole, CustodyIsFresh,
     TransportHasRoom, TransportIsOffDuty, IsTransport, PrisonersAreHeld,
     InCustody, engineVars, caseVars, carVars
<1>2. ASSUME NEW c \in todo, BeginTick(c) PROVE IInv'
  <2> USE <1>2 DEF BeginTick
  <2>1. TypeOK'
    BY DEF TypeOK, engineVars, caseVars, carVars
  <2>2. TickIsWhole' /\ CustodyIsFresh'
    BY DEF TickIsWhole, CustodyIsFresh, InCustody, caseVars
  <2>3. TransportHasRoom' /\ TransportIsOffDuty' /\ PrisonersAreHeld'
    BY DEF TransportHasRoom, TransportIsOffDuty, IsTransport, PrisonersAreHeld,
       engineVars, caseVars, carVars
  <2> QED  BY <2>1, <2>2, <2>3
<1>3. ASSUME NEW c \in todo, NEW p \in toLook, LookAtFree(c, p) PROVE IInv'
  <2> USE <1>3 DEF LookAtFree, Looking
  <2>1. TypeOK' /\ TickIsWhole' /\ CustodyIsFresh'
    BY DEF TypeOK, TickIsWhole, CustodyIsFresh, InCustody, engineVars, caseVars, carVars
  <2>2. TransportHasRoom' /\ TransportIsOffDuty' /\ PrisonersAreHeld'
    BY DEF TransportHasRoom, TransportIsOffDuty, IsTransport, PrisonersAreHeld,
       engineVars, caseVars, carVars
  <2> QED  BY <2>1, <2>2
<1>4. ASSUME NEW c \in todo, NEW p \in toLook, Hold(c, p) PROVE IInv'
  BY <1>4, HoldKeepsIInv DEF TypeOK
<1>5. ASSUME NEW c \in todo, NEW p \in toLook, GiveBack(c, p) PROVE IInv'
  BY <1>5, GiveBackKeepsIInv DEF TypeOK
<1>6. ASSUME NEW c \in todo, NEW p \in Criminals, Attack(c, p)
      PROVE  IInv'
  <2>1. turn = {c} /\ turn' = {} /\ todo' = todo \ {c} /\ toLook' = {}
    BY <1>6 DEF Attack, TickIsWhole
  <2>2. custody' = CustodyAfter(c) /\ UNCHANGED <<caseVars, carVars, present, registered, seat>>
    BY <1>6 DEF Attack
  <2>3. tasked' \subseteq tasked \cup {p}
    BY <1>6 DEF Attack
  <2>4. TypeOK'
    BY <2>1, <2>2, <2>3 DEF TypeOK, CustodyAfter, InCustody, caseVars, carVars
  <2>5. TickIsWhole' /\ CustodyIsFresh'
    BY <2>1, <2>2 DEF TickIsWhole, CustodyIsFresh, CustodyAfter, InCustody, caseVars
  <2>6. TransportHasRoom' /\ TransportIsOffDuty' /\ PrisonersAreHeld'
    BY <2>2 DEF TransportHasRoom, TransportIsOffDuty, IsTransport, PrisonersAreHeld,
       caseVars, carVars
  <2> QED  BY <2>4, <2>5, <2>6
<1>7. ASSUME NEW c \in todo, EndTick(c) PROVE IInv'
  <2>1. turn = {c} /\ turn' = {} /\ todo' = todo \ {c} /\ toLook' = {}
    BY <1>7 DEF EndTick, TickIsWhole
  <2>2. custody' = CustodyAfter(c) /\ UNCHANGED <<engineVars, caseVars, carVars>>
    BY <1>7 DEF EndTick
  <2>3. TypeOK'
    BY <2>1, <2>2 DEF TypeOK, CustodyAfter, InCustody, engineVars, caseVars, carVars
  <2>4. TickIsWhole' /\ CustodyIsFresh'
    BY <2>1, <2>2 DEF TickIsWhole, CustodyIsFresh, CustodyAfter, InCustody, caseVars
  <2>5. TransportHasRoom' /\ TransportIsOffDuty' /\ PrisonersAreHeld'
    BY <2>2 DEF TransportHasRoom, TransportIsOffDuty, IsTransport, PrisonersAreHeld,
       engineVars, caseVars, carVars
  <2> QED  BY <2>3, <2>4, <2>5
<1> QED
  BY <1>1, <1>2, <1>3, <1>4, <1>5, <1>6, <1>7 DEF Frame

(* Every step of the frame, the hooks and the engine keeps IInv.           *)
THEOREM StepIInv == IInv /\ [Next]_vars => IInv'
<1> SUFFICES ASSUME IInv, [Next]_vars PROVE IInv'
  OBVIOUS
<1>1. CASE Frame
  BY <1>1, FrameKeepsIInv
<1>2. CASE Engine
  BY <1>2, EngineKeepsIInv
<1>3. CASE UNCHANGED vars
  <2> USE <1>3 DEF IInv, vars, engineVars, caseVars, carVars, frameVars
  <2>1. TypeOK'
    BY DEF TypeOK
  <2>2. TickIsWhole' /\ CustodyIsFresh'
    BY DEF TickIsWhole, CustodyIsFresh, InCustody
  <2>3. TransportHasRoom' /\ TransportIsOffDuty' /\ PrisonersAreHeld'
    BY DEF TransportHasRoom, TransportIsOffDuty, IsTransport, PrisonersAreHeld
  <2> QED  BY <2>1, <2>2, <2>3
<1> QED
  BY <1>1, <1>2, <1>3 DEF Next

(* IInv holds in every reachable state.                                    *)
LEMMA InvariantHolds == Spec => []IInv
  BY InitIInv, StepIInv, PTL DEF Spec

(* Every variable keeps its type, and no car is far away that was not told
   to depart.                                                              *)
THEOREM TypeCorrect == Spec => []TypeOK
<1>1. IInv => TypeOK
  BY DEF IInv
<1> QED  BY <1>1, InvariantHolds, PTL

(* However many cases put their prisoners in it, no car carries more than
   MAX_TRANSPORT_PRISONERS.                                                *)
THEOREM TransportsHaveRoom == Spec => []TransportHasRoom
<1>1. IInv => TransportHasRoom
  BY DEF IInv
<1> QED  BY <1>1, InvariantHolds, PTL

(* A car is never at once a prisoner transport and on an order to a scene. *)
THEOREM TransportsAreOffDuty == Spec => []TransportIsOffDuty
<1>1. IInv => TransportIsOffDuty
  BY DEF IInv
<1> QED  BY <1>1, InvariantHolds, PTL

(* A prisoner who exists always has a case that will take him off.         *)
THEOREM PrisonersAlwaysHeld == Spec => []PrisonersAreHeld
<1>1. IInv => PrisonersAreHeld
  BY DEF IInv
<1> QED  BY <1>1, InvariantHolds, PTL

(* An attack pass sees every arrest made before it: those of other cases
   in custody_criminals, refreshed by each case that made any.             *)
LEMMA AttackSparesCustody ==
    ASSUME IInv, NEW c \in todo, NEW p \in Criminals, Attack(c, p)
    PROVE  \A d \in Cases : heldIn[d][p] = None
<1>1. turn = {c} /\ c \in todo
  BY DEF IInv, TickIsWhole, Attack
<1>2. CustodyAfter(c) = InCustody(heldIn)
  BY <1>1 DEF IInv, CustodyIsFresh, CustodyAfter
<1>3. p \notin InCustody(heldIn)
  BY <1>2 DEF Attack
<1> QED
  BY <1>3 DEF InCustody

(* No step sets a cop on a criminal whom any case has in custody: the
   attack pass alone gives such tasks.                                     *)
THEOREM CustodyAlwaysLeftAlone == Spec => CustodyIsLeftAlone
<1> DEFINE Spared == \A p \in tasked' \ tasked : \A c \in Cases : heldIn[c][p] = None
<1>1. IInv /\ [Next]_vars => [Spared]_vars
  <2> SUFFICES ASSUME IInv, Next PROVE Spared
    BY DEF vars
  <2>1. CASE Engine
    <3>1. tasked' \subseteq tasked
      BY <2>1 DEF Engine, GetIn, GetOut, RemovePed, DriveAway, RemoveVehicle,
         Dispatch, Watch, Pause, engineVars
    <3> QED  BY <3>1
  <2>2. ASSUME NEW c \in todo, NEW q \in Criminals, Attack(c, q) PROVE Spared
    <3>1. tasked' \ tasked \subseteq {q}
      BY <2>2 DEF Attack
    <3> QED  BY <2>2, <3>1, AttackSparesCustody
  <2>3. CASE Frame /\ ~ \E c \in todo : \E q \in Criminals : Attack(c, q)
    <3>1. tasked' = tasked
      BY <2>3 DEF Frame, BeginFrame, BeginTick, LookAtFree, Hold, GiveBack,
         EndTick, engineVars
    <3> QED  BY <3>1
  <2> QED  BY <2>1, <2>2, <2>3 DEF Next
<1> QED
  BY <1>1, InvariantHolds, PTL DEF Spec, CustodyIsLeftAlone
==============================================================================
