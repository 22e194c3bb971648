---------------------------- MODULE CopDuty_proofs ----------------------------
(* Theorems of CopDuty, for any cops, cars, other peds and bound.              *)
EXTENDS CopDuty, TLAPS

(* Cars that are neither bound, locked, ordered nor left keep their part.      *)
CarsPart == OrdersOnFoot /\ WheelIsFree /\ LeavingIsNotSentBack

(* The initial states satisfy the invariant: nothing is ordered yet.           *)
THEOREM InitIInv == Init => IInv
  BY NamesAssumption DEF Init, IInv, TypeOK, Turns, AtWheel, OrdersOnFoot,
     WheelIsFree, Drive, LeavingIsNotSentBack, Place

-----------------------------------------------------------------------------
(* The helpers.                                                                *)

(* Only the books, the targets and the attackers are written by Attack, and
   nobody off the books gets a target.                                         *)
LEMMA AttackTypes ==
    ASSUME TypeOK, NEW S \in SUBSET Cops, NEW p \in Others, Attack(S, p)
    PROVE  /\ book' = book \cup S
           /\ aim' \in [Cops -> Others \cup {Nobody}]
           /\ \A c \in Cops \ book' : aim'[c] = Nobody
  BY DEF Attack, TypeOK

(* Struck off the books, a cop has neither target nor attacker.                *)
LEMMA StruckTypes ==
    ASSUME TypeOK, NEW S \in SUBSET Cops, Struck(S)
    PROVE  /\ book' = book \ S
           /\ aim' \in [Cops -> Others \cup {Nobody}]
           /\ foe' \in [Cops -> Others \cup {Nobody}]
           /\ \A c \in Cops \ book' : foe'[c] = Nobody /\ aim'[c] = Nobody
  BY DEF Struck, TypeOK

(* Binding the occupants of a car writes their places and, for who is at the
   wheel, the lock.                                                            *)
LEMMA BindKeeps ==
    ASSUME TypeOK, NEW v \in Cars, Bind(v)
    PROVE  /\ book' = book \cup Seated(v)
           /\ bound' \in [Cops -> Place \cup {NoOrder}]
           /\ lock' \in [Cars -> Cops \cup {Nobody}]
<1>1. Seated(v) \subseteq Cops /\ \A as \in {"driver", "passenger"} : [car |-> v, as |-> as] \in Place
  BY DEF Seated, Place
<1>2. book' = book \cup Seated(v)
  BY DEF Bind
<1>3. bound' \in [Cops -> Place \cup {NoOrder}]
  BY <1>1 DEF Bind, TypeOK
<1>4. lock' \in [Cars -> Cops \cup {Nobody}]
  BY DEF Bind, TypeOK
<1> QED  BY <1>2, <1>3, <1>4

(* What make_cop_enter_vehicle leaves behind: a cop that has no exit under way
   is told to get in only on foot, and to drive only when nobody is at the
   wheel.                                                                      *)
LEMMA GoBackKeeps ==
    ASSUME IInv, NEW c \in Cops, Alive(c), c \notin exits, GoBack(c),
           UNCHANGED engine
    PROVE  /\ told' \in [Cops -> Place \cup {NoOrder}]
           /\ bound' \in [Cops -> Place \cup {NoOrder}]
           /\ lock' \in [Cars -> Cops \cup {Nobody}]
           /\ exits' \subseteq Cops /\ stamped' \subseteq Cars
           /\ CarsPart'
<1> USE DEF IInv, CarsPart
<1>1. CASE UNCHANGED cars
  BY <1>1 DEF cars, engine, TypeOK, OrdersOnFoot, WheelIsFree, Drive, LeavingIsNotSentBack, Alive
<1>2. CASE seat[c] = Foot /\ bound[c] # NoOrder
  <2> DEFINE v == bound[c].car
             drives == Drives(c) /\ MayDrive(v, c)
             place == [car |-> v, as |-> IF drives THEN "driver" ELSE "passenger"]
  <2>1. v \in Cars /\ bound[c] \in Place /\ place \in Place
    BY <1>2 DEF TypeOK, Place
  <2>2. [car |-> v, as |-> "driver"] \in Place
    BY <2>1 DEF Place
  <2>3. /\ bound' = IF Drives(c) THEN [bound EXCEPT ![c] = [car |-> v, as |-> "driver"]] ELSE bound
        /\ stamped' = stamped \cup {v}
        /\ exits' = exits
        /\ \/ told' = told /\ lock' = lock
           \/ /\ told' = [told EXCEPT ![c] = place]
              /\ lock' = IF drives THEN [lock EXCEPT ![v] = c] ELSE lock
    BY <1>2 DEF GoBack
  <2>4. bound' \in [Cops -> Place \cup {NoOrder}]
    BY <2>2, <2>3 DEF TypeOK
  <2>5. exits' \subseteq Cops /\ stamped' \subseteq Cars
    BY <2>1, <2>3 DEF TypeOK
  <2>6. CASE told' = told /\ lock' = lock
    BY <2>3, <2>4, <2>5, <2>6 DEF engine, TypeOK, OrdersOnFoot, WheelIsFree, Drive,
       LeavingIsNotSentBack, Alive
  <2>7. CASE /\ told' = [told EXCEPT ![c] = place]
             /\ lock' = IF drives THEN [lock EXCEPT ![v] = c] ELSE lock
    <3> HIDE DEF place, drives
    <3>1. told' \in [Cops -> Place \cup {NoOrder}] /\ lock' \in [Cars -> Cops \cup {Nobody}]
      BY <2>1, <2>7 DEF TypeOK
    <3>2. OrdersOnFoot' /\ LeavingIsNotSentBack'
      BY <1>2, <2>3, <2>7 DEF OrdersOnFoot, LeavingIsNotSentBack, TypeOK, engine, Alive
    <3>3. ASSUME NEW d \in Cops, NEW w \in Cars, told'[d] = Drive(w)
          PROVE  wheel'[w] = Nobody
      <4>1. CASE d = c
        <5>1. place = Drive(w)
          BY <3>3, <2>7, <4>1 DEF TypeOK
        <5>2. drives /\ v = w
          BY <5>1 DEF place, drives, Drive
        <5>3. wheel[v] \in {Nobody, c}
          BY <5>2 DEF drives, MayDrive
        <5> QED  BY <1>2, <2>1, <5>2, <5>3, NamesAssumption DEF AtWheel, engine
      <4>2. CASE d # c
        <5>1. told[d] = Drive(w)
          BY <2>7, <3>3, <4>2 DEF TypeOK
        <5> QED  BY <5>1 DEF WheelIsFree, engine
      <4> QED  BY <4>1, <4>2
    <3> QED  BY <2>4, <2>5, <3>1, <3>2, <3>3 DEF WheelIsFree
  <2> QED  BY <2>3, <2>6, <2>7
<1> QED  BY <1>1, <1>2 DEF GoBack
-----------------------------------------------------------------------------
(* Between ticks.                                                              *)

(* What the engine, the hooks and the player do, car binding included, keeps
   the invariant.                                                              *)
LEMMA EngineKeepsIInv == IInv /\ Engine => IInv'
<1> SUFFICES ASSUME IInv, Engine PROVE IInv'
  OBVIOUS
<1> USE DEF IInv
<1>1. ASSUME NEW c \in Cops, NEW v \in Cars, GetIn(c, v) PROVE IInv'
  <2> USE <1>1 DEF GetIn, Rest
  <2>1. TypeOK'
    BY DEF TypeOK, combat
  <2>2. Turns' /\ LeavingIsNotSentBack'
    BY DEF Turns, LeavingIsNotSentBack, combat, TypeOK
  <2>3. AtWheel'
    BY NamesAssumption DEF AtWheel, TypeOK
  <2>4. OrdersOnFoot'
    BY DEF OrdersOnFoot, TypeOK, Alive
  <2>5. WheelIsFree'
    BY NamesAssumption DEF WheelIsFree, Drive, TypeOK
  <2> QED  BY <2>1, <2>2, <2>3, <2>4, <2>5
<1>2. ASSUME NEW c \in Cops, GetOut(c) PROVE IInv'
  BY <1>2, NamesAssumption DEF GetOut, Rest, combat, cars, TypeOK, Turns, AtWheel,
     OrdersOnFoot, WheelIsFree, Drive, LeavingIsNotSentBack, Alive
<1>3. ASSUME NEW c \in Cops, GiveUp(c) PROVE IInv'
  BY <1>3, NamesAssumption DEF GiveUp, Rest, engine, combat, TypeOK, Turns, AtWheel,
     OrdersOnFoot, WheelIsFree, Drive, LeavingIsNotSentBack, Alive
<1>4. ASSUME NEW c \in Cops, ExitOver(c) \/ FoeOver(c) PROVE IInv'
  BY <1>4 DEF ExitOver, FoeOver, Rest, engine, combat, cars, TypeOK, Turns, AtWheel,
     OrdersOnFoot, WheelIsFree, Drive, LeavingIsNotSentBack, Alive
<1>5. ASSUME NEW p \in Peds, Die(p) PROVE IInv'
  <2> USE <1>5 DEF Die, Rest
  <2>1. OrdersOnFoot' /\ LeavingIsNotSentBack'
    BY DEF OrdersOnFoot, LeavingIsNotSentBack, TypeOK, Alive
  <2>2. AtWheel' /\ WheelIsFree'
    BY NamesAssumption DEF AtWheel, WheelIsFree, Drive, TypeOK
  <2>3. /\ ped' \in [Peds -> {"alive", "dead", "gone"}]
        /\ told' \in [Cops -> Place \cup {NoOrder}]
    BY DEF TypeOK
  <2>4. CASE p \in Cops /\ Struck({p})
    BY <2>1, <2>2, <2>3, <2>4 DEF Struck, TypeOK, Turns
  <2>5. CASE /\ aim' = [c \in Cops |-> IF aim[c] = p THEN Nobody ELSE aim[c]]
             /\ UNCHANGED <<book, foe>>
    BY <2>1, <2>2, <2>3, <2>5 DEF TypeOK, Turns
  <2>6. CASE UNCHANGED combat
    BY <2>1, <2>2, <2>3, <2>6 DEF TypeOK, Turns, combat
  <2> QED  BY <2>4, <2>5, <2>6
<1>6. ASSUME NEW p \in Others, Despawn(p) \/ Report(p) \/ Exonerate(p) PROVE IInv'
  BY <1>6, NamesAssumption DEF Despawn, Report, Exonerate, Rest, Peds, engine, combat,
     cars, TypeOK, Turns, AtWheel, OrdersOnFoot, WheelIsFree, Drive, LeavingIsNotSentBack,
     Alive
<1>7. ASSUME NEW p \in Others, NEW c \in Cops, Hit(p, c) PROVE IInv'
  <2>1. Attack({c}, p) /\ foe' = [foe EXCEPT ![c] = p]
    BY <1>7 DEF Hit
  <2>2. /\ book' = book \cup {c}
        /\ aim' \in [Cops -> Others \cup {Nobody}]
        /\ \A d \in Cops \ book' : aim'[d] = Nobody
    <3>1. {c} \in SUBSET Cops
      OBVIOUS
    <3> QED  BY <2>1, <3>1, AttackTypes
  <2>3. TypeOK' /\ Turns'
    BY <1>7, <2>1, <2>2 DEF Hit, Rest, engine, cars, TypeOK, Turns
  <2> QED  BY <1>7, <2>3 DEF Hit, engine, cars, AtWheel, OrdersOnFoot,
              WheelIsFree, Drive, LeavingIsNotSentBack, Alive
<1>8. ASSUME NEW p \in Others, NEW S \in SUBSET Cops, Redirect(p, S) PROVE IInv'
  <2>1. Attack(S, p)
    BY <1>8 DEF Redirect
  <2>2. TypeOK' /\ Turns'
    BY <1>8, <2>1, AttackTypes DEF Redirect, Rest, engine, cars, TypeOK, Turns
  <2> QED  BY <1>8, <2>2 DEF Redirect, engine, cars, AtWheel, OrdersOnFoot,
              WheelIsFree, Drive, LeavingIsNotSentBack, Alive
<1>9. ASSUME NEW v \in Cars, BindCar(v) PROVE IInv'
  <2>1. Bind(v) /\ UNCHANGED <<ped, seat, wheel, told, exits, todo, pc>>
    BY <1>9 DEF BindCar, engine
  <2>2. TypeOK' /\ Turns'
    <3>1. Seated(v) \subseteq Cops
      BY DEF Seated
    <3>2. /\ book' = book \cup Seated(v)
          /\ bound' \in [Cops -> Place \cup {NoOrder}]
          /\ lock' \in [Cars -> Cops \cup {Nobody}]
      BY <2>1, BindKeeps
    <3> QED  BY <1>9, <2>1, <3>1, <3>2 DEF BindCar, engine, TypeOK, Turns
  <2> QED  BY <2>1, <2>2, BindKeeps DEF AtWheel, OrdersOnFoot, WheelIsFree,
              LeavingIsNotSentBack, Alive
<1>10. ASSUME NEW v \in Cars, CallOut(v) PROVE IInv'
  <2>1. /\ Bind(v) /\ UNCHANGED <<ped, seat, wheel, told, todo, pc>>
        /\ exits' = exits \cup Seated(v)
    BY <1>10 DEF CallOut, engine
  <2>2. Seated(v) \subseteq Cops /\ \A c \in Seated(v) : told[c] = NoOrder
    BY NamesAssumption DEF Seated, OrdersOnFoot
  <2>3. TypeOK' /\ Turns'
    BY <1>10, <2>1, <2>2, BindKeeps DEF CallOut, engine, TypeOK, Turns
  <2>4. LeavingIsNotSentBack'
    BY <2>1, <2>2 DEF LeavingIsNotSentBack
  <2> QED  BY <2>1, <2>3, <2>4, BindKeeps DEF AtWheel, OrdersOnFoot, WheelIsFree, Alive
<1>11. ASSUME NEW v \in Cars, StampOver(v) PROVE IInv'
  BY <1>11 DEF StampOver, Rest, engine, combat, TypeOK, Turns, AtWheel, OrdersOnFoot,
     WheelIsFree, Drive, LeavingIsNotSentBack, Alive
<1>12. CASE Purge
  BY <1>12, NamesAssumption DEF Purge, Forget, Rest, engine, TypeOK, Turns, AtWheel,
     OrdersOnFoot, WheelIsFree, Drive, LeavingIsNotSentBack, Alive
<1> QED
  <2>1. \A S : S \in SUBSET Pursuers => S \in SUBSET Cops
    BY DEF TypeOK, Pursuers
  <2> QED  BY <1>1, <1>2, <1>3, <1>4, <1>5, <1>6, <1>7, <1>8, <1>9, <1>10, <1>11, <1>12,
              <2>1 DEF Engine

-----------------------------------------------------------------------------
(* The tick.                                                                   *)

(* A tick of a cop that leaves its car alone keeps what cars and orders say.   *)
LEMMA CarsPartKept ==
    ASSUME CarsPart, AtWheel, UNCHANGED <<engine, cars>>
    PROVE  CarsPart' /\ AtWheel'
  BY DEF CarsPart, AtWheel, OrdersOnFoot, WheelIsFree, Drive, LeavingIsNotSentBack,
     engine, cars, Alive

(* The TickEvent's visit of one cop: struck when dead; fighting on, kept on the
   scene, or released and sent back to its car when alive.                     *)
LEMMA TickCopKeepsIInv == ASSUME IInv, NEW c \in Cops, TickCop(c) PROVE IInv'
<1> USE DEF IInv
<1>1. /\ pc = "tick" /\ c \in todo /\ c \in book
      /\ todo' = todo \ {c} /\ pc' = pc /\ UNCHANGED <<engine, suspects>>
  BY DEF TickCop, Turns
<1>2. {c} \in SUBSET Cops /\ CarsPart
  BY DEF CarsPart
(* Enough is what one visit may do to the books and targets. *)
<1> DEFINE Books == /\ book' \subseteq Cops /\ todo' \subseteq book'
                    /\ aim' \in [Cops -> Others \cup {Nobody}]
                    /\ foe' \in [Cops -> Others \cup {Nobody}]
                    /\ \A d \in Cops \ book' : foe'[d] = Nobody /\ aim'[d] = Nobody
<1>3. ASSUME Books, UNCHANGED cars PROVE IInv'
  <2>1. TypeOK' /\ Turns'
    BY <1>1, <1>3 DEF TypeOK, Turns, engine, cars
  <2> QED  BY <1>1, <1>2, <1>3, <2>1, CarsPartKept DEF CarsPart
<1>4. ASSUME Struck({c}) PROVE Books
  BY <1>1, <1>2, <1>4, StruckTypes DEF Struck, TypeOK, Turns
<1>5. ASSUME NEW p \in Others, Attack({c}, p),
             foe' \in [Cops -> Others \cup {Nobody}], \A d \in Cops \ {c} : foe'[d] = foe[d]
      PROVE  Books
  <2>1. /\ book' = book \cup {c}
        /\ aim' \in [Cops -> Others \cup {Nobody}]
        /\ \A d \in Cops \ book' : aim'[d] = Nobody
    BY <1>2, <1>5, AttackTypes
  <2> QED  BY <1>1, <1>5, <2>1 DEF TypeOK, Turns
<1>6. CASE ~Alive(c)
  BY <1>3, <1>4, <1>6 DEF TickCop
<1>7. CASE Alive(c)
  <2>1. PICK p \in Pursued(c), av \in BOOLEAN, near \in BOOLEAN, far \in BOOLEAN :
           LET d == Defends(c)
               t == IF d # Nobody THEN d ELSE Resolved(p)
               loose == Disarms(c, d, t) \/ (far /\ ~av)
           IN  IF ~loose THEN Fights(c, d, t)
               ELSE IF av /\ d = Nobody THEN Engages(c, t)
               ELSE StandDown(c, t, near)
    BY <1>7 DEF TickCop
  <2> DEFINE d == Defends(c)
             t == IF d # Nobody THEN d ELSE Resolved(p)
  <2>2. d \in Others \cup {Nobody} /\ t \in Others \cup {Nobody}
    <3>1. d \in Others \cup {Nobody}
      BY DEF Defends, TypeOK
    <3>2. Resolved(p) \in Others \cup {Nobody}
      BY DEF Resolved, Valid
    <3> QED  BY <3>1, <3>2
  <2>3. /\ [foe EXCEPT ![c] = d] \in [Cops -> Others \cup {Nobody}]
        /\ \A e \in Cops \ {c} : [foe EXCEPT ![c] = d][e] = foe[e]
    BY <2>2 DEF TypeOK
  <2> HIDE DEF d, t
  <2>4. CASE t # Nobody /\ Fights(c, d, t)
    <3>1. Books
      BY <1>5, <2>2, <2>3, <2>4 DEF Fights
    <3> QED  BY <1>3, <2>4, <3>1 DEF Fights
  <2>5. CASE Engages(c, t)
    <3>1. foe' = [foe EXCEPT ![c] = d] /\ UNCHANGED cars
      BY <2>5 DEF Engages, d
    <3>2. \/ \E q \in Others : Attack({c}, q)
          \/ aim' = [aim EXCEPT ![c] = t] /\ UNCHANGED book
      BY <2>2, <2>5 DEF Engages, TypeOK
    <3>3. ASSUME aim' = [aim EXCEPT ![c] = t], UNCHANGED book PROVE Books
      BY <1>1, <2>2, <2>3, <3>1, <3>3 DEF TypeOK, Turns
    <3>4. Books
      BY <1>5, <2>3, <3>1, <3>2, <3>3
    <3> QED  BY <1>3, <3>1, <3>4
  <2>6. CASE StandDown(c, t, near)
    <3>1. CASE Kept(c, near)
      <4>1. /\ \E u \in {Nobody, t} : aim' = [aim EXCEPT ![c] = u]
            /\ foe' = [foe EXCEPT ![c] = d]
            /\ UNCHANGED <<book, cars>>
        BY <2>6, <3>1 DEF StandDown, d
      <4>2. Books
        BY <1>1, <2>2, <2>3, <4>1 DEF TypeOK, Turns
      <4> QED  BY <1>3, <4>1, <4>2
    <3>2. CASE ~Kept(c, near)
      <4>1. GoBack(c) /\ Struck({c}) /\ c \notin exits
        BY <2>6, <3>2 DEF StandDown, Released, Kept
      <4>2. Books
        BY <1>4, <4>1
      <4>3. /\ told' \in [Cops -> Place \cup {NoOrder}]
            /\ bound' \in [Cops -> Place \cup {NoOrder}]
            /\ lock' \in [Cars -> Cops \cup {Nobody}]
            /\ exits' \subseteq Cops /\ stamped' \subseteq Cars
            /\ CarsPart'
        BY <1>1, <1>7, <4>1, GoBackKeeps
      <4>4. TypeOK' /\ Turns' /\ AtWheel'
        BY <1>1, <4>2, <4>3 DEF TypeOK, Turns, AtWheel, engine
      <4> QED  BY <4>3, <4>4 DEF CarsPart
    <3> QED  BY <3>1, <3>2
  <2>7. ~Disarms(c, d, t) => t # Nobody
    BY DEF Disarms
  <2>8. \/ t # Nobody /\ Fights(c, d, t)
        \/ Engages(c, t)
        \/ StandDown(c, t, near)
    BY <2>1, <2>7 DEF d, t
  <2> QED  BY <2>4, <2>5, <2>6, <2>8
<1> QED  BY <1>6, <1>7

(* The rest of the tick: its beginning, the visits of the cases, its end.      *)
LEMMA CasesKeepIInv ==
    ASSUME IInv,
           BeginTick \/ BeginCases \/ EndTick \/ \E c \in Cops : Visit(c)
    PROVE  IInv'
<1> USE DEF IInv
<1>1. CASE BeginTick
  BY <1>1 DEF BeginTick, engine, combat, cars, TypeOK, Turns, AtWheel, OrdersOnFoot,
     WheelIsFree, Drive, LeavingIsNotSentBack, Alive
<1>2. CASE BeginCases
  BY <1>2 DEF BeginCases, engine, combat, cars, TypeOK, Turns, AtWheel, OrdersOnFoot,
     WheelIsFree, Drive, LeavingIsNotSentBack, Alive
<1>3. CASE EndTick
  <2>1. CASE Live
    BY <1>3, <2>1 DEF EndTick, engine, combat, cars, TypeOK, Turns, AtWheel, OrdersOnFoot,
       WheelIsFree, Drive, LeavingIsNotSentBack, Alive
  <2>2. CASE ~Live
    BY <1>3, <2>2, NamesAssumption DEF EndTick, Forget, engine, TypeOK, Turns, AtWheel,
       OrdersOnFoot, WheelIsFree, Drive, LeavingIsNotSentBack, Alive
  <2> QED  BY <2>1, <2>2
<1>4. ASSUME NEW c \in Cops, NEW p \in Others, Pass(c, p) \/ Mobilize(c, p) PROVE IInv'
  <2>1. PICK q \in Others : Attack({c}, q)
    BY <1>4 DEF Pass, Mobilize, Defends, TypeOK
  <2>2. /\ book' = book \cup {c}
        /\ aim' \in [Cops -> Others \cup {Nobody}]
        /\ \A d \in Cops \ book' : aim'[d] = Nobody
    <3>1. {c} \in SUBSET Cops
      OBVIOUS
    <3> QED  BY <2>1, <3>1, AttackTypes
  <2>3. foe' = foe \/ foe' = [foe EXCEPT ![c] = Defends(c)]
    BY <1>4 DEF Pass, Mobilize
  <2>4. Defends(c) \in Others \cup {Nobody}
    BY DEF Defends, TypeOK
  <2>5. /\ UNCHANGED <<engine, suspects, cars, pc, todo>>
    BY <1>4 DEF Pass, Mobilize
  <2>6. TypeOK' /\ Turns'
    BY <2>2, <2>3, <2>4, <2>5 DEF engine, cars, TypeOK, Turns
  <2> QED  BY <2>5, <2>6, CarsPartKept DEF CarsPart
<1> QED  BY <1>1, <1>2, <1>3, <1>4 DEF Visit

-----------------------------------------------------------------------------

(* The invariant is kept by every step.                                        *)
THEOREM StepIInv == IInv /\ [Next]_vars => IInv'
<1> SUFFICES ASSUME IInv, [Next]_vars PROVE IInv'
  OBVIOUS
<1>1. CASE UNCHANGED vars
  BY <1>1 DEF vars, engine, combat, cars, IInv, TypeOK, Turns, AtWheel, OrdersOnFoot,
     WheelIsFree, Drive, LeavingIsNotSentBack, Alive
<1>2. CASE Engine
  BY <1>2, EngineKeepsIInv
<1>3. ASSUME NEW c \in Cops, TickCop(c) PROVE IInv'
  BY <1>3, TickCopKeepsIInv
<1>4. CASE BeginTick \/ BeginCases \/ EndTick \/ \E c \in Cops : Visit(c)
  BY <1>4, CasesKeepIInv
<1> QED  BY <1>1, <1>2, <1>3, <1>4 DEF Next

(* The invariant holds of every state of the dispatcher.                        *)
THEOREM AlwaysIInv == Spec => []IInv
  BY InitIInv, StepIInv, PTL DEF Spec

(* Every variable has its type, and nobody off the books has a target or an
   attacker (Struck removes both components of a cop).                         *)
THEOREM TypeCorrect == Spec => []TypeOK
<1>1. IInv => TypeOK
  BY DEF IInv
<1> QED  BY <1>1, AlwaysIInv, PTL

(* The wheel is a cop's as long as it is on its way with the lock in its hand: no
   step but the fallback and the purge gives the lock away or sends another.   *)
LEMMA StepKeepsTheWheel ==
    ASSUME IInv, [Next]_vars, NEW c \in Cops, NEW v \in Cars,
           told[c] = Drive(v), told'[c] = Drive(v), lock[v] = c,
           ~(suspects' = {} /\ Forget)
    PROVE  lock'[v] = c /\ \A d \in Cops \ {c} : told'[d] = Drive(v) => told[d] = Drive(v)
<1> USE DEF IInv
<1>1. wheel[v] = Nobody /\ Alive(c) /\ Drive(v) # NoOrder
  BY NamesAssumption DEF WheelIsFree, OrdersOnFoot, Drive
(* What is left to show of a step that gives no orders, locks or binds. *)
<1>2. CASE /\ lock' = lock
           /\ \A d \in Cops : told'[d] \in {told[d], NoOrder}
  BY <1>1, <1>2
<1>3. CASE UNCHANGED vars
  BY <1>2, <1>3 DEF vars, cars
<1>4. ASSUME NEW w \in Cars, Bind(w), told' = told
      PROVE  /\ lock'[v] = c
             /\ \A d \in Cops \ {c} : told'[d] = Drive(v) => told[d] = Drive(v)
  BY <1>1, <1>4 DEF Bind, TypeOK
<1>5. CASE Engine
  <2>1. CASE Purge
    BY <2>1 DEF Purge
  <2>2. CASE \E w \in Cars : BindCar(w) \/ CallOut(w)
    BY <1>4, <2>2 DEF BindCar, CallOut
  <2>3. ASSUME NEW d \in Cops, NEW w \in Cars, GetIn(d, w)
        PROVE  /\ lock' = lock
               /\ \A e \in Cops : told'[e] \in {told[e], NoOrder}
    BY <2>3 DEF GetIn, TypeOK
  <2>4. ASSUME NEW d \in Cops, GiveUp(d)
        PROVE  /\ lock' = lock
               /\ \A e \in Cops : told'[e] \in {told[e], NoOrder}
    BY <2>4 DEF GiveUp, TypeOK
  <2>5. ASSUME NEW p \in Peds, Die(p)
        PROVE  /\ lock' = lock
               /\ \A e \in Cops : told'[e] \in {told[e], NoOrder}
    BY <2>5 DEF Die
  <2>6. ASSUME NEW d \in Cops, GetOut(d) \/ ExitOver(d) \/ FoeOver(d)
        PROVE  UNCHANGED <<told, lock>>
    BY <2>6 DEF GetOut, ExitOver, FoeOver, cars
  <2>7. ASSUME NEW p \in Others, Despawn(p) \/ Report(p) \/ Exonerate(p)
        PROVE  UNCHANGED <<told, lock>>
    BY <2>7 DEF Despawn, Report, Exonerate, cars
  <2>8. ASSUME NEW p \in Others, NEW d \in Cops, NEW S \in SUBSET Pursuers,
               Hit(p, d) \/ Redirect(p, S)
        PROVE  UNCHANGED <<told, lock>>
    BY <2>8 DEF Hit, Redirect, cars
  <2>9. ASSUME NEW w \in Cars, StampOver(w) PROVE UNCHANGED <<told, lock>>
    BY <2>9 DEF StampOver
  <2>10. \A p \in Others, d \in Cops : Hit(p, d) => UNCHANGED <<told, lock>>
    BY DEF Hit, cars
  <2> QED  BY <1>2, <1>5, <2>1, <2>2, <2>3, <2>4, <2>5, <2>6, <2>7, <2>8, <2>9, <2>10 DEF Engine
<1>6. ASSUME NEW d \in Cops, TickCop(d)
      PROVE  /\ lock'[v] = c
             /\ \A e \in Cops \ {c} : told'[e] = Drive(v) => told[e] = Drive(v)
  <2>1. UNCHANGED cars \/ GoBack(d)
    BY <1>6 DEF TickCop, Fights, Engages, StandDown
  <2>2. CASE UNCHANGED cars
    BY <1>2, <2>2 DEF cars
  <2>3. CASE seat[d] = Foot /\ bound[d] # NoOrder /\ GoBack(d)
    <3> DEFINE w == bound[d].car
               drives == Drives(d) /\ MayDrive(w, d)
               place == [car |-> w, as |-> IF drives THEN "driver" ELSE "passenger"]
    <3>1. \/ UNCHANGED <<told, lock>>
          \/ /\ told' = [told EXCEPT ![d] = place]
             /\ lock' = IF drives THEN [lock EXCEPT ![w] = d] ELSE lock
      BY <2>3 DEF GoBack
    <3>2. CASE d = c \/ ~(drives /\ w = v)
      <4>1. place = Drive(v) => drives /\ w = v
        BY DEF Drive
      <4> HIDE DEF place, drives
      <4> QED  BY <1>2, <3>1, <3>2, <4>1 DEF TypeOK
    <3>3. ~(d # c /\ drives /\ w = v)
      BY <1>1, NamesAssumption DEF MayDrive
    <3> HIDE DEF place, drives
    <3> QED  BY <3>2, <3>3
  <2> QED  BY <2>1, <2>2, <2>3 DEF GoBack
<1>7. CASE BeginTick \/ BeginCases \/ \E d \in Cops : Visit(d)
  BY <1>2, <1>7 DEF BeginTick, BeginCases, Visit, Pass, Mobilize, cars
<1>8. CASE EndTick
  BY <1>2, <1>8 DEF EndTick, Live, cars
<1> QED  BY <1>3, <1>5, <1>6, <1>7, <1>8 DEF Next

(* However many cops and cars there are, a cop told to drive keeps the car's lock
   while it is on its way, and nobody else is sent to the wheel, until no case is
   left and the fallback drops every lock (make_cop_enter_vehicle, the driver lock,
   bind_vehicle_occupants).                                                    *)
THEOREM DriverAlwaysKeepsTheWheel == Spec => DriverKeepsTheWheel
<1>1. IInv /\ [Next]_vars =>
        [\A c \in Cops, v \in Cars :
            told[c] = Drive(v) /\ told'[c] = Drive(v) /\ lock[v] = c =>
               \/ suspects' = {} /\ Forget
               \/ /\ lock'[v] = c
                  /\ \A d \in Cops \ {c} : told'[d] = Drive(v) => told[d] = Drive(v)]_vars
  BY StepKeepsTheWheel
<1> QED  BY <1>1, AlwaysIInv, PTL DEF Spec, DriverKeepsTheWheel

(* Nobody whose exit is under way is told to get back in, by whomever and in
   whatever order exits and orders come (should_block_cop_reenter_vehicle).    *)
THEOREM LeavingIsNeverSentBack == Spec => []LeavingIsNotSentBack
<1>1. IInv => LeavingIsNotSentBack
  BY DEF IInv
<1> QED  BY <1>1, AlwaysIInv, PTL
===============================================================================
