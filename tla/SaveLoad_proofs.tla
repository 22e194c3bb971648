---------------------------- MODULE SaveLoad_proofs ----------------------------
(* Theorems of SaveLoad, for any depth of the stack and any kinds of load.   *)
EXTENDS SaveLoad, TLAPS

(* The module's flags with every clock at one of its stages; and what no load
   under way may find: a recovery, a fade put off, a nudge.                    *)
Good(n) == n \in Module /\ \A c \in Clock : n.clock[c] \in Stage(c)
Clean(n) == ~n.recovered /\ ~n.kick /\ ~n.nudge8 /\ ~n.nudge9
(* One set of flags follows another without a recovery or a nudge of its own.  *)
Follows(n, o) ==
    /\ n.recovered = o.recovered /\ n.kick = o.kick
    /\ n.nudge8 = o.nudge8 /\ (n.nudge9 => o.nudge9)

(* The clocks and their stages.                                              *)
LEMMA StagesAreSequences ==
    ASSUME NEW c \in Clock
    PROVE  /\ c \in {"started", "cleared", "ready", "since8", "skipCleared"}
           /\ Len(Stages[c]) \in {3, 4} /\ DOMAIN Stages[c] = 1..Len(Stages[c])
           /\ Stages[c][1] = "never" /\ Stages[c][2] = "fresh"
<1>1. c \in {"started", "cleared", "ready", "since8", "skipCleared"}
  BY DEF Clock, Stages
<1>2. CASE c = "started"
  <2>1. Stages[c] = <<"never", "fresh", "ripe", "capped">>
    BY <1>2 DEF Stages
  <2> QED  BY <1>1, <2>1
<1>3. CASE c = "cleared"
  <2>1. Stages[c] = <<"never", "fresh", "ripe", "old">>
    BY <1>3 DEF Stages
  <2> QED  BY <1>1, <2>1
<1>4. CASE c = "ready" \/ c = "since8"
  <2>1. Stages[c] = <<"never", "fresh", "ripe">>
    BY <1>4 DEF Stages
  <2> QED  BY <1>1, <2>1
<1>5. CASE c = "skipCleared"
  <2>1. Stages[c] = <<"never", "fresh", "ripe", "forced">>
    BY <1>5 DEF Stages
  <2> QED  BY <1>1, <2>1
<1> QED  BY <1>1, <1>2, <1>3, <1>4, <1>5

(* The five clocks; each can be unset or just set.                           *)
LEMMA Clocks ==
    /\ Clock = {"started", "cleared", "ready", "since8", "skipCleared"}
    /\ \A c \in Clock : {"never", "fresh"} \subseteq Stage(c) /\ Stage(c) \subseteq AnyStage
<1>1. Clock = {"started", "cleared", "ready", "since8", "skipCleared"}
  BY DEF Clock, Stages
<1>2. ASSUME NEW c \in Clock
      PROVE  {"never", "fresh"} \subseteq Stage(c) /\ Stage(c) \subseteq AnyStage
  <2> DEFINE q == Stages[c]
  <2>1. /\ Len(q) \in {3, 4} /\ DOMAIN q = 1..Len(q) /\ q[1] = "never" /\ q[2] = "fresh"
    BY StagesAreSequences
  <2>2. Stage(c) = {q[i] : i \in DOMAIN q}
    BY DEF Stage, ToSet
  <2> HIDE DEF q
  <2>3. 1 \in DOMAIN q /\ 2 \in DOMAIN q
    BY <2>1
  <2> QED  BY <2>1, <2>2, <2>3 DEF AnyStage
<1> QED  BY <1>1, <1>2

(* A clock at a stage passes to a stage.                                     *)
LEMMA AfterIsStage ==
    ASSUME NEW c \in Clock, NEW s \in Stage(c)
    PROVE  After(c, s) \in Stage(c)
<1>1. Len(Stages[c]) \in {3, 4} /\ DOMAIN Stages[c] = 1..Len(Stages[c])
  BY StagesAreSequences
<1>2. CASE s = "never" \/ s = Last(Stages[c])
  BY <1>2 DEF After
<1>3. CASE ~(s = "never" \/ s = Last(Stages[c]))
  <2> DEFINE i == CHOOSE j \in DOMAIN Stages[c] : Stages[c][j] = s
  <2>1. i \in DOMAIN Stages[c] /\ Stages[c][i] = s
    <3>1. \E j \in DOMAIN Stages[c] : Stages[c][j] = s
      BY DEF Stage, ToSet
    <3> QED  BY <3>1
  <2>2. i \in 1..Len(Stages[c]) /\ i # Len(Stages[c])
    BY <1>1, <1>3, <2>1 DEF Last
  <2>3. i + 1 \in DOMAIN Stages[c]
    BY <1>1, <2>2
  <2>4. After(c, s) = Stages[c][i + 1]
    BY <1>3 DEF After
  <2> HIDE DEF i
  <2> QED  BY <2>3, <2>4 DEF Stage, ToSet
<1> QED  BY <1>2, <1>3

(* Setting a clock to its first stages keeps the flags in order.             *)
LEMMA ClockSet ==
    ASSUME NEW n, Good(n), NEW c \in Clock, NEW s \in Stage(c)
    PROVE  Good([n EXCEPT !.clock[c] = s])
<1> DEFINE e == [n EXCEPT !.clock[c] = s]
<1>1. s \in AnyStage /\ n.clock \in [Clock -> AnyStage] /\ n \in Module
  BY Clocks DEF Good, Module
<1>2. e.clock = [n.clock EXCEPT ![c] = s] /\ e \in Module
  BY <1>1 DEF Module
<1>3. \A d \in Clock : e.clock[d] = IF d = c THEN s ELSE n.clock[d]
  BY <1>1, <1>2
<1> QED  BY <1>2, <1>3 DEF Good

(* A session that begins or ends, and what a load forgets.                   *)
LEMMA BeginKeeps ==
    ASSUME NEW n, Good(n)
    PROVE  Good(Begin(n)) /\ Follows(Begin(n), n) /\ Begin(n).kind = n.kind
<1> DEFINE e == [n EXCEPT !.session = TRUE, !.skipWas = FALSE, !.clock.started = "fresh",
                          !.clock.ready = "never", !.clock.skipCleared = "never"]
           k == [n.clock EXCEPT !["started"] = "fresh", !["ready"] = "never",
                                !["skipCleared"] = "never"]
<1>1. n \in Module /\ n.clock \in [Clock -> AnyStage]
  BY DEF Good, Module
<1>2. k \in [Clock -> AnyStage] /\ \A c \in Clock : k[c] \in Stage(c)
  BY <1>1, Clocks DEF Good
<1>3. e = [n EXCEPT !.session = TRUE, !.skipWas = FALSE, !.clock = k]
  BY <1>1 DEF Module
<1> HIDE DEF e, k
<1>4. Good(e) /\ Follows(e, n) /\ e.kind = n.kind
  BY <1>1, <1>2, <1>3 DEF Good, Follows, Module
<1> QED  BY <1>4 DEF Begin, e, Follows

(* Ending a session neither remembers a recovery nor nudges.                 *)
LEMMA EndKeeps ==
    ASSUME NEW n, Good(n)
    PROVE  Good(End(n)) /\ Follows(End(n), n)
<1> DEFINE e == [n EXCEPT !.session = FALSE, !.skipWas = FALSE, !.clock.started = "never",
                          !.clock.ready = "never", !.clock.skipCleared = "never",
                          !.kind = "Unknown", !.menuSeen = FALSE]
           k == [n.clock EXCEPT !["started"] = "never", !["ready"] = "never",
                                !["skipCleared"] = "never"]
<1>1. n \in Module /\ n.clock \in [Clock -> AnyStage]
  BY DEF Good, Module
<1>2. k \in [Clock -> AnyStage] /\ \A c \in Clock : k[c] \in Stage(c)
  BY <1>1, Clocks DEF Good
<1>3. e = [n EXCEPT !.session = FALSE, !.skipWas = FALSE, !.clock = k,
                    !.kind = "Unknown", !.menuSeen = FALSE]
  BY <1>1 DEF Module
<1> HIDE DEF e, k
<1>4. Good(e) /\ Follows(e, n)
  BY <1>1, <1>2, <1>3 DEF Good, Follows, Module, Kind
<1> QED  BY <1>4 DEF End, e, Follows

(* A menu read forgets the recovery and the nudges of the load before.       *)
LEMMA ForgottenKeeps ==
    ASSUME NEW n, Good(n)
    PROVE  Good(Forgotten(n)) /\ Clean(Forgotten(n)) /\ Forgotten(n).kind = n.kind
<1> DEFINE k == [n.clock EXCEPT !["since8"] = "never"]
<1>1. n \in Module /\ n.clock \in [Clock -> AnyStage]
  BY DEF Good, Module
<1>2. k \in [Clock -> AnyStage] /\ \A c \in Clock : k[c] \in Stage(c)
  BY <1>1, Clocks DEF Good
<1>3. Forgotten(n) = [n EXCEPT !.recovered = FALSE, !.kick = FALSE, !.nudge8 = FALSE,
                               !.nudge9 = FALSE, !.clock = k]
  BY <1>1 DEF Forgotten, Module
<1> HIDE DEF k
<1> QED  BY <1>1, <1>2, <1>3 DEF Good, Clean, Module

(* Setting plain flags keeps the others and the clocks.                      *)
LEMMA FlagsSet ==
    ASSUME NEW n, Good(n), NEW e \in Module, e.clock = n.clock
    PROVE  Good(e)
  BY DEF Good

(* Flags follow one another.                                                 *)
LEMMA FollowsTrans ==
    ASSUME NEW n, NEW e, NEW d, Follows(e, n), Follows(d, e)
    PROVE  Follows(d, n)
  BY DEF Follows

(* A nudge needs a recovery.                                                 *)
LEMMA NudgedKeeps ==
    ASSUME NEW n, Good(n), NEW g \in GameState
    PROVE  /\ Good(Nudged(n, g)) /\ NudgedState(n, g) \in GameState
           /\ Nudged(n, g).recovered = n.recovered /\ Nudged(n, g).kick = n.kick
<1> DEFINE e == [n EXCEPT !.nudge8 = TRUE, !.nudge9 = FALSE, !.clock.since8 = "fresh"]
           c == [n EXCEPT !.clock["since8"] = "fresh"]
<1>1. Good(c) /\ c = [n EXCEPT !.clock.since8 = "fresh"]
  BY ClockSet, Clocks
<1>2. n \in Module /\ c \in Module /\ c.clock = [n.clock EXCEPT !["since8"] = "fresh"]
  BY <1>1 DEF Good, Module
<1>3. e = [c EXCEPT !.nudge8 = TRUE, !.nudge9 = FALSE] /\ c.recovered = n.recovered /\ c.kick = n.kick
  BY <1>2 DEF Module
<1> HIDE DEF c, e
<1>4. e \in Module /\ e.clock = c.clock /\ e.recovered = n.recovered /\ e.kick = n.kick
  BY <1>2, <1>3 DEF Module
<1>5. Good(e)
  BY <1>1, <1>4, FlagsSet
<1>6. /\ Good(Nudge8(n, g))
      /\ Nudge8(n, g).recovered = n.recovered /\ Nudge8(n, g).kick = n.kick
  BY <1>4, <1>5, BeginKeeps DEF Nudge8, e, Follows
<1> DEFINE d == Nudge8(n, g)
           b == [d EXCEPT !.nudge9 = TRUE]
<1>7. Good(d) /\ d \in Module /\ d.recovered = n.recovered /\ d.kick = n.kick
  BY <1>6 DEF Good
<1>8. Nudged(n, g) = b \/ Nudged(n, g) = d
  BY DEF Nudged
<1> HIDE DEF d
<1>9. b \in Module /\ b.clock = d.clock /\ b.recovered = d.recovered /\ b.kick = d.kick
  BY <1>7 DEF Module
<1>10. NudgedState(n, g) \in GameState
  BY DEF NudgedState, GameState
<1> QED  BY <1>7, <1>8, <1>9, <1>10, FlagsSet

(* The parts of a poll: none remembers a recovery, nor nudges.               *)
LEMMA SkipSeenKeeps ==
    ASSUME NEW n, Good(n), NEW f \in Frame
    PROVE  Good(SkipSeen(n, f)) /\ Follows(SkipSeen(n, f), n)
<1> DEFINE c == IF n.skipWas /\ ~f.skip THEN [n EXCEPT !.clock.skipCleared = "fresh"] ELSE n
           e == IF c.session /\ c.clock.skipCleared = "forced" /\ ~f.skip /\ world THEN End(c) ELSE c
           d == [e EXCEPT !.skipWas = f.skip]
<1>1. Good(c) /\ Follows(c, n)
  <2> DEFINE k == [n EXCEPT !.clock["skipCleared"] = "fresh"]
  <2>1. Good(k)
    BY ClockSet, Clocks
  <2>2. Follows(k, n) /\ Follows(n, n)
    BY DEF Follows, Good, Module
  <2>3. c = k \/ c = n
    OBVIOUS
  <2> HIDE DEF c, k
  <2> QED  BY <2>1, <2>2, <2>3
<1> HIDE DEF c
<1>2. Good(e) /\ Follows(e, n)
  BY <1>1, EndKeeps, FollowsTrans
<1> HIDE DEF e
<1>3. d \in Module /\ d.clock = e.clock /\ Follows(d, e)
  BY <1>2 DEF Good, Module, Frame, Follows
<1>4. SkipSeen(n, f) = d
  BY DEF SkipSeen, e, c
<1> QED  BY <1>2, <1>3, <1>4, FlagsSet, FollowsTrans

(* The part that reads the game state.                                       *)
LEMMA StateSeenKeeps ==
    ASSUME NEW n, Good(n), NEW f \in Frame
    PROVE  Good(StateSeen(n, f)) /\ Follows(StateSeen(n, f), n)
<1> DEFINE k == [n EXCEPT !.clock["since8"] = "fresh"]
           d == [n EXCEPT !.clock.since8 = "fresh", !.nudge9 = FALSE]
           e == IF f.gs = LoadingStarted /\ n.prevGs # LoadingStarted THEN d ELSE n
<1>1. Good(k) /\ n \in Module
  BY ClockSet, Clocks DEF Good
<1>2. d = [k EXCEPT !.nudge9 = FALSE] /\ Follows(d, n) /\ Follows(n, n)
  BY <1>1 DEF Module, Follows
<1> HIDE DEF k, d
<1>3. Good(d)
  <2>1. d \in Module /\ d.clock = k.clock
    BY <1>1, <1>2 DEF Good, Module
  <2> QED  BY <1>1, <2>1, FlagsSet
<1>4. Good(e) /\ Follows(e, n)
  BY <1>2, <1>3
<1> HIDE DEF e
<1>5. StateSeen(n, f) = e \/ StateSeen(n, f) = Begin(e)
  BY DEF StateSeen, e, d
<1> QED  BY <1>4, <1>5, BeginKeeps, FollowsTrans

(* The part that reads the loading flag.                                     *)
LEMMA LoadingSeenKeeps ==
    ASSUME NEW n, Good(n), NEW f \in Frame
    PROVE  Good(LoadingSeen(n, f)) /\ Follows(LoadingSeen(n, f), n)
<1> DEFINE c == [n EXCEPT !.clock["cleared"] = "fresh"]
<1>1. Good(c)
  BY ClockSet, Clocks
<1>2. Follows(c, n) /\ Follows(n, n)
  BY DEF Follows, Good, Module
<1>3. LoadingSeen(n, f) \in {n, Begin(n), c, Begin(c)}
  BY DEF LoadingSeen
<1> HIDE DEF c
<1> QED  BY <1>1, <1>2, <1>3, BeginKeeps, FollowsTrans

(* A poll goes one call deeper and leaves the flags as they were.            *)
LEMMA PollKeeps ==
    ASSUME TypeOK, NEW callers \in Seq(Frame), NEW n, Good(n), NEW g \in GameState,
           Poll(callers, n, g)
    PROVE  /\ Good(m') /\ Follows(m', n)
           /\ calls' \in Seq(Frame) /\ Len(calls') = Len(callers) + 1
<1> DEFINE f == FrameOf("poll", g)
           a == SkipSeen(n, f)
           b == StateSeen(a, f)
           c == LoadingSeen(b, f)
<1>1. f \in Frame
  BY DEF TypeOK, FrameOf, Frame
<1>2. m' = FailureSeen(c) /\ calls' = Append(callers, f)
  BY DEF Poll
<1> HIDE DEF f
<1>3. Good(a) /\ Follows(a, n)
  BY <1>1, SkipSeenKeeps
<1> HIDE DEF a
<1>4. Good(b) /\ Follows(b, n)
  BY <1>1, <1>3, StateSeenKeeps, FollowsTrans
<1> HIDE DEF b
<1>5. Good(c) /\ Follows(c, n)
  BY <1>1, <1>4, LoadingSeenKeeps, FollowsTrans
<1> HIDE DEF c
<1>6. Good(m') /\ Follows(m', n)
  BY <1>2, <1>5, EndKeeps, FollowsTrans DEF FailureSeen
<1> QED  BY <1>1, <1>2, <1>6
-----------------------------------------------------------------------------
(* The steps.                                                                *)

(* The module wakes up with no load and nothing remembered.                  *)
LEMMA FreshGood == Good(Fresh) /\ Clean(Fresh)
<1> DEFINE k == [c \in Clock |-> "never"]
<1>1. k \in [Clock -> AnyStage] /\ \A c \in Clock : k[c] \in Stage(c)
  BY Clocks
<1>2. /\ Fresh.clock = k /\ Clean(Fresh)
      /\ Fresh = [session |-> FALSE, kind |-> "Unknown", menuSeen |-> FALSE, clock |-> k,
                  skipWas |-> FALSE, recovered |-> FALSE, kick |-> FALSE, nudge8 |-> FALSE,
                  nudge9 |-> FALSE, prevLoading |-> FALSE, prevSettled |-> FALSE,
                  prevGs |-> FrontendIdle]
  BY DEF Fresh, Clean
<1> HIDE DEF k
<1> QED  BY <1>1, <1>2 DEF Good, Module, Kind, GameState

(* What a step has to show for the invariant.                                *)
LEMMA StepShows ==
    ASSUME {loading', failed', fade', skip', world', generic'} \subseteq BOOLEAN,
           gs' \in GameState, Good(m'), calls' \in Seq(Frame), Len(calls') <= MaxCalls,
           generic' => Clean(m')
    PROVE  IInv'
  BY DEF IInv, TypeOK, Good, LoadIsNotNudged, Clean

(* The frame of the call that runs, resumed at another place.                *)
LEMMA ResumeKeeps ==
    ASSUME TypeOK, ~Resting, NEW s \in {"fade", "again", "advance", "tail"}
    PROVE  Resume(s) \in Seq(Frame) /\ Len(Resume(s)) = Len(calls) /\ Top \in Frame
<1>1. calls \in Seq(Frame) /\ Len(calls) \in Nat /\ Len(calls) >= 1
  BY DEF TypeOK, Resting
<1>2. Top \in Frame
  BY <1>1 DEF Top, Last
<1>3. [Top EXCEPT !.at = s] \in Frame
  BY <1>2 DEF Frame
<1>4. Resume(s) = [calls EXCEPT ![Len(calls)] = [Top EXCEPT !.at = s]]
  BY <1>1 DEF Resume, Top, Last
<1> QED  BY <1>1, <1>2, <1>3, <1>4

(* Without the top call the stack is still within the bound.                 *)
LEMMA FrontKeeps ==
    ASSUME TypeOK, ~Resting
    PROVE  Front(calls) \in Seq(Frame) /\ Len(Front(calls)) <= MaxCalls
<1>1. calls \in Seq(Frame) /\ Len(calls) \in Nat /\ Len(calls) >= 1
  BY DEF TypeOK, Resting
<1> QED  BY <1>1, MaxCallsAssumption DEF TypeOK, Front

(* The calls of the poll and of the recovery: without a recovery or a fade put
   off, none of them kicks, forces or nudges.                                  *)
LEMMA CallKeeps ==
    ASSUME IInv, Step
    PROVE  IInv'
<1>1. /\ TypeOK /\ Good(m) /\ m \in Module /\ (generic => Clean(m)) /\ gs \in GameState
      /\ {loading, failed, fade, skip, world, generic} \subseteq BOOLEAN
  BY DEF IInv, TypeOK, Good, LoadIsNotNudged, Clean
<1>2. ~Resting /\ Len(calls) < MaxCalls
  BY DEF Step, Kick, KickAgain, ForceFade, Advance, PollReturns, HookReturns, Returns, Running
<1>3. \A s \in {"fade", "again", "advance", "tail"} :
        Resume(s) \in Seq(Frame) /\ Len(Resume(s)) = Len(calls)
  BY <1>1, <1>2, ResumeKeeps
<1>4. Len(calls) + 1 <= MaxCalls /\ Len(calls) <= MaxCalls
  BY <1>1, <1>2, MaxCallsAssumption DEF TypeOK
<1>5. CASE Kick
  <2> DEFINE n == [m EXCEPT !.recovered = TRUE, !.kick = FALSE]
  <2>1. n \in Module /\ n.clock = m.clock /\ m.kick
    BY <1>1, <1>5 DEF Kick, KickDue, Module
  <2>2. /\ gs' = NudgedState(n, gs) /\ Poll(Resume("again"), Nudged(n, gs), gs')
        /\ fade' = FALSE /\ UNCHANGED <<loading, failed, skip, world, generic>>
    BY <1>5 DEF Kick, Keep
  <2> HIDE DEF n
  <2>3. Good(Nudged(n, gs)) /\ gs' \in GameState
    BY <1>1, <2>1, <2>2, FlagsSet, NudgedKeeps
  <2>4. Good(m') /\ calls' \in Seq(Frame) /\ Len(calls') = Len(calls) + 1
    BY <1>1, <1>3, <2>2, <2>3, PollKeeps
  <2> QED  BY <1>1, <1>4, <2>1, <2>2, <2>3, <2>4, StepShows DEF Clean
<1>6. CASE KickAgain
  <2>1. Poll(Resume("advance"), m, gs) /\ UNCHANGED engine
    BY <1>6 DEF KickAgain
  <2>2. /\ Good(m') /\ Follows(m', m)
        /\ calls' \in Seq(Frame) /\ Len(calls') = Len(calls) + 1
    BY <1>1, <1>3, <2>1, PollKeeps
  <2> QED  BY <1>1, <1>4, <2>1, <2>2, StepShows DEF Clean, Follows, engine
<1>7. CASE ForceFade
  <2>1. fade' = FALSE /\ calls' = Resume("tail") /\ UNCHANGED <<gs, m>> /\ Keep
    BY <1>7 DEF ForceFade
  <2> QED  BY <1>1, <1>3, <1>4, <2>1, StepShows DEF Keep
<1>8. CASE Advance
  <2>1. /\ gs' = NudgedState(m, gs) /\ Poll(Resume("tail"), Nudged(m, gs), gs')
        /\ m.recovered /\ UNCHANGED <<loading, failed, fade, skip, world, generic>>
    BY <1>8 DEF Advance, AdvanceDue, Keep
  <2>2. Good(Nudged(m, gs)) /\ gs' \in GameState
    BY <1>1, <2>1, NudgedKeeps
  <2>3. Good(m') /\ calls' \in Seq(Frame) /\ Len(calls') = Len(calls) + 1
    BY <1>1, <1>3, <2>1, <2>2, PollKeeps
  <2> QED  BY <1>1, <1>4, <2>1, <2>2, <2>3, StepShows DEF Clean
<1>9. CASE PollReturns
  <2>1. PICK drained \in BOOLEAN :
         LET settled == m.session /\ Settled(m, drained)
             n == [m EXCEPT
                     !.clock.ready = IF ~m.session THEN @
                                     ELSE IF ~settled THEN "never"
                                     ELSE IF m.prevSettled THEN @ ELSE "fresh",
                     !.prevSettled = settled, !.prevLoading = Top.loading, !.prevGs = Top.gs]
         IN m' = IF n.session /\ Over(n, Top, settled) THEN End(n) ELSE n
    BY <1>9 DEF PollReturns
  <2> DEFINE settled == m.session /\ Settled(m, drained)
             r == IF ~m.session THEN m.clock["ready"]
                  ELSE IF ~settled THEN "never"
                  ELSE IF m.prevSettled THEN m.clock["ready"] ELSE "fresh"
             k == [m EXCEPT !.clock["ready"] = r]
             n == [m EXCEPT
                     !.clock.ready = IF ~m.session THEN @
                                     ELSE IF ~settled THEN "never"
                                     ELSE IF m.prevSettled THEN @ ELSE "fresh",
                     !.prevSettled = settled, !.prevLoading = Top.loading, !.prevGs = Top.gs]
  <2>2. m' = n \/ m' = End(n)
    BY <2>1
  <2>3. r \in Stage("ready")
    BY <1>1, Clocks DEF Good
  <2>4. Good(k)
    BY <1>1, <2>3, ClockSet, Clocks
  <2>5. settled \in BOOLEAN /\ Top \in Frame
    BY <1>1, <1>2, ResumeKeeps
  <2>6. n = [k EXCEPT !.prevSettled = settled, !.prevLoading = Top.loading, !.prevGs = Top.gs]
    BY <1>1 DEF Module
  <2>7. Follows(k, m)
    BY <1>1 DEF Module, Follows
  <2> HIDE DEF k, n, settled
  <2>8. n \in Module /\ n.clock = k.clock /\ Follows(n, k)
    BY <2>4, <2>5, <2>6 DEF Good, Module, Frame, Follows
  <2>9. Good(m') /\ Follows(m', m)
    BY <2>2, <2>4, <2>7, <2>8, FlagsSet, EndKeeps, FollowsTrans
  <2>10. calls' = Front(calls) /\ UNCHANGED engine
    BY <1>9 DEF PollReturns
  <2> QED  BY <1>1, <1>2, <2>9, <2>10, FrontKeeps, StepShows DEF Clean, Follows, engine
<1>10. CASE HookReturns
  <2>1. calls' = Front(calls) /\ UNCHANGED <<engine, m>>
    BY <1>10 DEF HookReturns
  <2> QED  BY <1>1, <1>2, <2>1, FrontKeeps, StepShows DEF engine
<1> QED  BY <1>5, <1>6, <1>7, <1>8, <1>9, <1>10 DEF Step

(* A menu's read of a save forgets the load before it.                       *)
LEMMA MenuReadKeeps ==
    ASSUME NEW n, Good(n)
    PROVE  /\ Good(MenuRead(n)) /\ Clean(MenuRead(n))
           /\ n.kind = "Continue" => MenuRead(n).kind = "Continue"
<1> DEFINE e == Forgotten(n)
           kind == IF e.kind = "Continue" THEN e.kind ELSE "Menu"
           d == [e EXCEPT !.menuSeen = TRUE, !.kind = kind]
<1>1. Good(e) /\ Clean(e) /\ e.kind = n.kind
  BY ForgottenKeeps
<1>2. MenuRead(n) = d /\ kind \in Kind
  BY DEF MenuRead, Kind
<1>3. n.kind = "Continue" => kind = "Continue"
  BY <1>1
<1> HIDE DEF e, kind
<1>4. d \in Module /\ d.clock = e.clock /\ Clean(d) /\ d.kind = kind
  BY <1>1, <1>2 DEF Good, Module, Clean
<1> QED  BY <1>1, <1>2, <1>3, <1>4, FlagsSet

(* The hooks: those of GenericLoad's callers forget, those inside it and after it
   remember nothing while it runs.                                             *)
LEMMA HookKeeps ==
    ASSUME IInv, Hook
    PROVE  IInv'
<1>1. /\ TypeOK /\ Good(m) /\ m \in Module /\ (generic => Clean(m)) /\ gs \in GameState
      /\ {loading, failed, fade, skip, world, generic} \subseteq BOOLEAN
      /\ calls \in Seq(Frame) /\ Len(calls) <= MaxCalls
  BY DEF IInv, TypeOK, Good, LoadIsNotNudged, Clean
<1>2. <<>> \in Seq(Frame) /\ Len(<<>>) + 1 <= MaxCalls
  BY MaxCallsAssumption
<1>3. CASE MenuReadSave
  <2>1. m' = MenuRead(m) /\ UNCHANGED <<engine, calls>>
    BY <1>3 DEF MenuReadSave, Hooked
  <2> QED  BY <1>1, <2>1, MenuReadKeeps, StepShows DEF engine
<1>4. CASE LoadCommitted
  <2> DEFINE e == Forgotten(m)
             d == [e EXCEPT !.menuSeen = FALSE, !.kind = "Continue"]
  <2>1. m' = d /\ UNCHANGED <<engine, calls>>
    BY <1>4 DEF LoadCommitted, Hooked
  <2>2. Good(e) /\ Clean(e)
    BY <1>1, ForgottenKeeps
  <2> HIDE DEF e
  <2>3. d \in Module /\ d.clock = e.clock /\ Clean(d)
    BY <2>2 DEF Good, Module, Kind, Clean
  <2> QED  BY <1>1, <2>1, <2>2, <2>3, FlagsSet, StepShows DEF engine
<1>5. CASE NewGame
  <2>1. m' = [m EXCEPT !.menuSeen = FALSE, !.kind = "NewGame"] /\ UNCHANGED <<engine, calls>>
    BY <1>5 DEF NewGame, Hooked
  <2>2. m' \in Module /\ m'.clock = m.clock /\ Follows(m', m)
    BY <1>1, <2>1 DEF Module, Kind, Follows
  <2> QED  BY <1>1, <2>1, <2>2, FlagsSet, StepShows DEF engine, Follows, Clean
<1>6. CASE GenericLoadCalled
  <2>1. /\ m' = MenuRead(m) /\ generic' = TRUE /\ failed' = FALSE
        /\ UNCHANGED <<loading, gs, fade, skip, world, calls>>
    BY <1>6 DEF GenericLoadCalled, Hooked
  <2> QED  BY <1>1, <2>1, MenuReadKeeps, StepShows
<1>7. CASE GenericLoadReturned
  <2> DEFINE c == [m EXCEPT !.clock["cleared"] = "fresh"]
             e == [m EXCEPT
                     !.clock.cleared = "fresh",
                     !.recovered = @ \/ (MenuPath(m) /\ ~fade),
                     !.kick = IF ~MenuPath(m) \/ m.recovered THEN @ ELSE fade]
  <2>1. /\ generic' = FALSE /\ Poll(<<>>, Returned(m), gs)
        /\ UNCHANGED <<loading, failed, gs, fade, skip, world>>
    BY <1>7 DEF GenericLoadReturned
  <2>2. Good(c)
    BY <1>1, ClockSet, Clocks
  <2>3. e \in Module /\ e.clock = c.clock
    <3> DEFINE was == m.recovered \/ (MenuPath(m) /\ ~fade)
               off == IF ~MenuPath(m) \/ m.recovered THEN m.kick ELSE fade
    <3>1. was \in BOOLEAN /\ off \in BOOLEAN
      BY <1>1 DEF Module
    <3>2. e = [c EXCEPT !.recovered = was, !.kick = off] /\ c \in Module
      BY <1>1, <2>2 DEF Good, Module
    <3> HIDE DEF was, off, c, e
    <3> QED  BY <3>1, <3>2 DEF Module
  <2>4. Good(Returned(m))
    BY <1>1, <2>2, <2>3, FlagsSet, BeginKeeps DEF Returned
  <2>5. Good(m') /\ calls' \in Seq(Frame) /\ Len(calls') <= MaxCalls
    BY <1>1, <1>2, <2>1, <2>4, PollKeeps
  <2> QED  BY <1>1, <2>1, <2>5, StepShows
<1>8. CASE AfterSuccessLoad
  <2> DEFINE kind == IF m.kind = "Continue" THEN m.kind ELSE "Menu"
  <2>1. m' = [m EXCEPT !.menuSeen = TRUE, !.kind = kind] /\ UNCHANGED <<engine, calls>>
    BY <1>8 DEF AfterSuccessLoad, Hooked
  <2>2. m' \in Module /\ m'.clock = m.clock /\ Follows(m', m)
    BY <1>1, <2>1 DEF Module, Kind, Follows
  <2> QED  BY <1>1, <2>1, <2>2, FlagsSet, StepShows DEF engine, Follows, Clean
<1>9. CASE InitAtStartOfGame
  <2> DEFINE d == [m EXCEPT !.kind = "Menu"]
  <2>1. m' \in {d, Begin(m), m} /\ UNCHANGED <<engine, calls>>
    BY <1>9 DEF InitAtStartOfGame, Hooked
  <2>2. d \in Module /\ d.clock = m.clock /\ Follows(d, m) /\ Follows(m, m)
    BY <1>1 DEF Module, Kind, Follows
  <2>3. Good(m') /\ Follows(m', m)
    BY <1>1, <2>1, <2>2, FlagsSet, BeginKeeps
  <2> QED  BY <1>1, <2>1, <2>3, StepShows DEF engine, Follows, Clean
<1>10. CASE DeferredFade
  <2>1. m' = [m EXCEPT !.kick = TRUE] /\ UNCHANGED <<engine, calls>> /\ ~generic
    BY <1>10 DEF DeferredFade, Hooked, ShouldReplaceFadeZero, ShouldSkipFadeZero, FadeTail
  <2>2. m' \in Module /\ m'.clock = m.clock
    BY <1>1, <2>1 DEF Module
  <2> QED  BY <1>1, <2>1, <2>2, FlagsSet, StepShows DEF engine
<1>11. CASE FadeZero
  <2> DEFINE n == [m EXCEPT !.recovered = TRUE, !.kick = FALSE]
  <2>1. n \in Module /\ n.clock = m.clock
    BY <1>1 DEF Module
  <2>2. /\ gs' = NudgedState(n, gs) /\ Poll(<<>>, Nudged(n, gs), gs')
        /\ fade' = FALSE /\ UNCHANGED <<loading, failed, skip, world, generic>> /\ ~generic
    BY <1>11 DEF FadeZero, Keep, ShouldSkipFadeZero, FadeTail
  <2> HIDE DEF n
  <2>3. Good(Nudged(n, gs)) /\ gs' \in GameState
    BY <1>1, <2>1, <2>2, FlagsSet, NudgedKeeps
  <2>4. Good(m') /\ calls' \in Seq(Frame) /\ Len(calls') <= MaxCalls
    BY <1>1, <1>2, <2>2, <2>3, PollKeeps
  <2> QED  BY <1>1, <2>2, <2>3, <2>4, StepShows
<1>12. CASE TaskHook
  <2>1. PICK by \in {"hook", "kick"} : calls' = <<FrameOf(by, gs)>>
    BY <1>12 DEF TaskHook
  <2>2. FrameOf(by, gs) \in Frame
    BY <1>1 DEF FrameOf, Frame
  <2>3. calls' \in Seq(Frame) /\ Len(calls') <= MaxCalls
    BY <2>1, <2>2, MaxCallsAssumption
  <2>4. UNCHANGED <<engine, m>>
    BY <1>12 DEF TaskHook
  <2> QED  BY <1>1, <2>3, <2>4, StepShows DEF engine
<1>13. CASE FramePoll
  <2>1. Poll(<<>>, m, gs) /\ UNCHANGED engine /\ ~generic
    BY <1>13 DEF FramePoll
  <2>2. Good(m') /\ calls' \in Seq(Frame) /\ Len(calls') <= MaxCalls
    BY <1>1, <1>2, <2>1, PollKeeps
  <2> QED  BY <1>1, <2>1, <2>2, StepShows DEF engine
<1> QED  BY <1>3, <1>4, <1>5, <1>6, <1>7, <1>8, <1>9, <1>10, <1>11, <1>12, <1>13 DEF Hook

(* The engine and the clocks remember nothing for the module.                *)
LEMMA EngineKeeps ==
    ASSUME IInv, EngineLoads \/ GameMoves \/ PlayerMoves \/ \E c \in Clock : TimePasses(c)
    PROVE  IInv'
<1>1. /\ Good(m) /\ (generic => Clean(m)) /\ gs \in GameState
      /\ {loading, failed, fade, skip, world, generic} \subseteq BOOLEAN
      /\ calls \in Seq(Frame) /\ Len(calls) <= MaxCalls
  BY DEF IInv, TypeOK, Good, LoadIsNotNudged, Clean
<1>2. CASE EngineLoads
  BY <1>1, <1>2, StepShows DEF EngineLoads
<1>3. CASE GameMoves
  BY <1>1, <1>3, StepShows DEF GameMoves, GameState
<1>4. CASE PlayerMoves
  BY <1>1, <1>4, StepShows DEF PlayerMoves
<1>5. ASSUME NEW c \in Clock, TimePasses(c) PROVE IInv'
  <2> DEFINE s == After(c, m.clock[c])
  <2>1. m' = [m EXCEPT !.clock[c] = s] /\ UNCHANGED <<engine, calls>>
    BY <1>5 DEF TimePasses
  <2>2. s \in Stage(c)
    BY <1>1, AfterIsStage DEF Good
  <2> HIDE DEF s
  <2>3. Good(m') /\ Follows(m', m)
    BY <1>1, <2>1, <2>2, ClockSet DEF Good, Module, Follows
  <2> QED  BY <1>1, <2>1, <2>3, StepShows DEF engine, Follows, Clean
<1> QED  BY <1>2, <1>3, <1>4, <1>5

-----------------------------------------------------------------------------
(* The depth of the stack: which nudge a call under way has behind it.       *)

PastOf(n) == ~MenuPath(n) \/ n.nudge8
(* One set of flags stays at the nudges of another, and at its game state: its
   tail may begin, its load may leave the menu's path.                         *)
Stays(e, n) ==
    (MenuPath(e) => MenuPath(n)) /\ e.nudge8 = n.nudge8 /\ e.nudge9 = n.nudge9
Same(e, n) ==
    /\ Stays(e, n) /\ e.prevGs = n.prevGs
    /\ e.clock["since8"] = n.clock["since8"]
    /\ e.clock["cleared"] \in {n.clock["cleared"], "fresh"}

(* Flags stay where others stayed.                                           *)
LEMMA SameTrans ==
    ASSUME NEW n, NEW e, NEW d, Same(e, n), Same(d, e)
    PROVE  Same(d, n)
  BY DEF Same, Stays

(* A session that begins or ends stays at its nudges.                        *)
LEMMA SessionStays ==
    ASSUME NEW n, Good(n)
    PROVE  Same(Begin(n), n) /\ Same(End(n), n) /\ Same(n, n)
<1> DEFINE b == [n EXCEPT !.session = TRUE, !.skipWas = FALSE, !.clock.started = "fresh",
                          !.clock.ready = "never", !.clock.skipCleared = "never"]
           k == [n.clock EXCEPT !["started"] = "fresh", !["ready"] = "never",
                                !["skipCleared"] = "never"]
           e == [n EXCEPT !.session = FALSE, !.skipWas = FALSE, !.clock.started = "never",
                          !.clock.ready = "never", !.clock.skipCleared = "never",
                          !.kind = "Unknown", !.menuSeen = FALSE]
           l == [n.clock EXCEPT !["started"] = "never", !["ready"] = "never",
                                !["skipCleared"] = "never"]
<1>1. n \in Module /\ n.clock \in [Clock -> AnyStage]
  BY DEF Good, Module
<1>2. /\ k["since8"] = n.clock["since8"] /\ k["cleared"] = n.clock["cleared"]
      /\ l["since8"] = n.clock["since8"] /\ l["cleared"] = n.clock["cleared"]
  BY <1>1, Clocks
<1>3. /\ b = [n EXCEPT !.session = TRUE, !.skipWas = FALSE, !.clock = k]
      /\ e = [n EXCEPT !.session = FALSE, !.skipWas = FALSE, !.clock = l,
                       !.kind = "Unknown", !.menuSeen = FALSE]
  BY <1>1 DEF Module
<1>4. Same(n, n)
  BY DEF Same, Stays
<1> HIDE DEF b, e, k, l
<1>5. Same(b, n)
  BY <1>1, <1>2, <1>3 DEF Same, Stays, Module, MenuPath
<1>6. Same(e, n)
  BY <1>1, <1>2, <1>3 DEF Same, Stays, Module, MenuPath
<1> QED  BY <1>4, <1>5, <1>6 DEF Begin, End, b, e

(* The parts of a poll but the one that reads the game state.                *)
LEMMA SkipStays ==
    ASSUME NEW n, Good(n), NEW f \in Frame
    PROVE  Same(SkipSeen(n, f), n)
<1> DEFINE c == IF n.skipWas /\ ~f.skip THEN [n EXCEPT !.clock.skipCleared = "fresh"] ELSE n
           e == IF c.session /\ c.clock.skipCleared = "forced" /\ ~f.skip /\ world THEN End(c) ELSE c
           d == [e EXCEPT !.skipWas = f.skip]
<1>1. Good(c) /\ Same(c, n)
  <2> DEFINE k == [n EXCEPT !.clock["skipCleared"] = "fresh"]
             l == [n.clock EXCEPT !["skipCleared"] = "fresh"]
  <2>1. Good(k)
    BY ClockSet, Clocks
  <2>2. n \in Module /\ n.clock \in [Clock -> AnyStage] /\ k = [n EXCEPT !.clock = l]
    BY DEF Good, Module
  <2>3. l["since8"] = n.clock["since8"] /\ l["cleared"] = n.clock["cleared"]
    BY <2>2, Clocks
  <2>4. c = k \/ c = n
    OBVIOUS
  <2> HIDE DEF c, k, l
  <2>5. Same(k, n)
    BY <2>2, <2>3 DEF Same, Stays, Module, MenuPath
  <2> QED  BY <2>1, <2>4, <2>5, SessionStays
<1> HIDE DEF c
<1>2. Good(e) /\ Same(e, n)
  BY <1>1, EndKeeps, SessionStays, SameTrans
<1> HIDE DEF e
<1>3. Same(d, e)
  BY <1>2 DEF Good, Module, Same, Stays, MenuPath
<1>4. SkipSeen(n, f) = d
  BY DEF SkipSeen, e, c
<1> QED  BY <1>2, <1>3, <1>4, SameTrans

(* The loading flag only starts the clock of the tail.                       *)
LEMMA LoadingStays ==
    ASSUME NEW n, Good(n), NEW f \in Frame
    PROVE  Same(LoadingSeen(n, f), n)
<1> DEFINE c == [n EXCEPT !.clock["cleared"] = "fresh"]
           l == [n.clock EXCEPT !["cleared"] = "fresh"]
<1>1. Good(c)
  BY ClockSet, Clocks
<1>2. n \in Module /\ n.clock \in [Clock -> AnyStage] /\ c = [n EXCEPT !.clock = l]
  BY DEF Good, Module
<1>3. l["since8"] = n.clock["since8"] /\ l["cleared"] = "fresh"
  BY <1>2, Clocks
<1>4. LoadingSeen(n, f) \in {n, Begin(n), c, Begin(c)}
  BY DEF LoadingSeen
<1> HIDE DEF c, l
<1>5. Same(c, n)
  BY <1>2, <1>3 DEF Same, Stays, Module, MenuPath
<1> QED  BY <1>1, <1>4, <1>5, SessionStays, SameTrans

(* A new edge to state 8 starts its clock and forgets the nudge to 9; whatever
   else the poll reads leaves the nudges alone.                                *)
LEMMA StateStays ==
    ASSUME NEW n, Good(n), NEW f \in Frame
    PROVE  \/ Same(StateSeen(n, f), n) /\ (f.gs = LoadingStarted => n.prevGs = LoadingStarted)
           \/ /\ f.gs = LoadingStarted /\ n.prevGs # LoadingStarted
              /\ StateSeen(n, f).clock["since8"] = "fresh"
              /\ StateSeen(n, f).nudge8 = n.nudge8
              /\ MenuPath(StateSeen(n, f)) => MenuPath(n)
<1> DEFINE k == [n EXCEPT !.clock["since8"] = "fresh"]
           d == [n EXCEPT !.clock.since8 = "fresh", !.nudge9 = FALSE]
           e == IF f.gs = LoadingStarted /\ n.prevGs # LoadingStarted THEN d ELSE n
           l == [n.clock EXCEPT !["since8"] = "fresh"]
<1>1. Good(k) /\ n \in Module /\ n.clock \in [Clock -> AnyStage]
  BY ClockSet, Clocks DEF Good, Module
<1>2. d = [k EXCEPT !.nudge9 = FALSE] /\ d = [n EXCEPT !.clock = l, !.nudge9 = FALSE]
  BY <1>1 DEF Module
<1>3. l["since8"] = "fresh"
  BY <1>1, Clocks
<1>4. StateSeen(n, f) = e \/ StateSeen(n, f) = Begin(e)
  BY DEF StateSeen
<1>5. \/ e = n /\ (f.gs = LoadingStarted => n.prevGs = LoadingStarted)
      \/ e = d /\ f.gs = LoadingStarted /\ n.prevGs # LoadingStarted
  OBVIOUS
<1> HIDE DEF k, d, e, l
<1>6. Good(d)
  <2>1. d \in Module /\ d.clock = k.clock
    BY <1>1, <1>2 DEF Good, Module
  <2> QED  BY <1>1, <2>1, FlagsSet
<1>7. d.clock["since8"] = "fresh" /\ d.nudge8 = n.nudge8 /\ (MenuPath(d) => MenuPath(n))
  BY <1>1, <1>2, <1>3 DEF Module, MenuPath
<1>8. Good(e) /\ Same(StateSeen(n, f), e)
  BY <1>4, <1>5, <1>6, SessionStays
<1>9. CASE e = n /\ (f.gs = LoadingStarted => n.prevGs = LoadingStarted)
  BY <1>8, <1>9
<1>10. CASE e = d /\ f.gs = LoadingStarted /\ n.prevGs # LoadingStarted
  BY <1>7, <1>8, <1>10 DEF Same, Stays
<1> QED  BY <1>5, <1>9, <1>10

(* A poll: the nudge to 9 is forgotten, and its clock set, at an edge only.  *)
LEMMA PollStays ==
    ASSUME TypeOK, NEW callers \in Seq(Frame), NEW n, Good(n), NEW g \in GameState,
           Poll(callers, n, g)
    PROVE  /\ MenuPath(m') => MenuPath(n)
           /\ m'.nudge8 = n.nudge8
           /\ \/ Same(m', n) /\ (g = LoadingStarted => n.prevGs = LoadingStarted)
              \/ g = LoadingStarted /\ n.prevGs # LoadingStarted /\ m'.clock["since8"] = "fresh"
<1> DEFINE f == FrameOf("poll", g)
           a == SkipSeen(n, f)
           b == StateSeen(a, f)
           c == LoadingSeen(b, f)
<1>1. f \in Frame /\ f.gs = g
  BY DEF TypeOK, FrameOf, Frame
<1>2. m' = FailureSeen(c)
  BY DEF Poll
<1> HIDE DEF f
<1>3. Good(a) /\ Same(a, n)
  BY <1>1, SkipSeenKeeps, SkipStays
<1> HIDE DEF a
<1>4. Good(b)
  BY <1>1, <1>3, StateSeenKeeps
<1>5. \/ Same(b, a) /\ (g = LoadingStarted => a.prevGs = LoadingStarted)
      \/ /\ g = LoadingStarted /\ a.prevGs # LoadingStarted
         /\ b.clock["since8"] = "fresh" /\ b.nudge8 = a.nudge8 /\ (MenuPath(b) => MenuPath(a))
  BY <1>1, <1>3, StateStays
<1> HIDE DEF b
<1>6. Good(c) /\ Same(c, b)
  BY <1>1, <1>4, LoadingSeenKeeps, LoadingStays
<1> HIDE DEF c
<1>7. Same(m', b)
  <2>1. Same(m', c)
    BY <1>2, <1>6, SessionStays DEF FailureSeen
  <2> QED  BY <1>6, <2>1, SameTrans
<1>8. CASE Same(b, a) /\ (g = LoadingStarted => a.prevGs = LoadingStarted)
  <2>1. Same(m', n)
    BY <1>3, <1>7, <1>8, SameTrans
  <2> QED  BY <1>3, <1>8, <2>1 DEF Same, Stays
<1>9. CASE /\ g = LoadingStarted /\ a.prevGs # LoadingStarted
           /\ b.clock["since8"] = "fresh" /\ b.nudge8 = a.nudge8 /\ (MenuPath(b) => MenuPath(a))
  BY <1>3, <1>7, <1>9 DEF Same, Stays
<1> QED  BY <1>5, <1>8, <1>9

(* A nudge from a recovery: a menu load that hangs in state 0 has been nudged to 8;
   one in state 8 has been nudged to 9, and stays there only if it had been.   *)
LEMMA NudgeActs ==
    ASSUME NEW n, Good(n), n.recovered, NEW g \in GameState
    PROVE  /\ PastOf(n) => PastOf(Nudged(n, g))
           /\ \/ PastOf(Nudged(n, g))
              \/ /\ Nudged(n, g) = n /\ NudgedState(n, g) = g
                 /\ g = 0 => n.clock["cleared"] = "never"
                 /\ g = LoadingStarted => n.nudge9
              \/ g = LoadingStarted /\ NudgedState(n, g) = GameplayIdle /\ ~n.nudge9
<1>1. n \in Module /\ n.clock \in [Clock -> AnyStage] /\ Good(n)
  BY DEF Good, Module
<1>2. CASE To8(n, g)
  <2> DEFINE k == [n EXCEPT !.clock["since8"] = "fresh"]
             e == [n EXCEPT !.nudge8 = TRUE, !.nudge9 = FALSE, !.clock.since8 = "fresh"]
             d == Begin(e)
             b == [d EXCEPT !.nudge9 = TRUE]
  <2>1. Good(k) /\ k \in Module
    BY <1>1, ClockSet, Clocks DEF Good
  <2>2. e = [k EXCEPT !.nudge8 = TRUE, !.nudge9 = FALSE]
    BY <1>1 DEF Module
  <2>3. Nudged(n, g) \in {b, d}
    BY <1>2 DEF Nudged, Nudge8
  <2> HIDE DEF k, e
  <2>4. e \in Module /\ e.clock = k.clock /\ e.nudge8
    BY <2>1, <2>2 DEF Module
  <2>5. Good(e)
    BY <2>1, <2>4, FlagsSet
  <2>6. Good(d) /\ Same(d, e)
    BY <2>5, BeginKeeps, SessionStays
  <2> HIDE DEF d
  <2>7. d.nudge8 /\ d \in Module
    BY <2>4, <2>6 DEF Same, Stays, Good
  <2>8. b.nudge8
    BY <2>7 DEF Module
  <2> HIDE DEF b
  <2> QED  BY <2>3, <2>7, <2>8 DEF PastOf
<1>3. CASE ~To8(n, g) /\ To9(n, g)
  <2>1. Nudged(n, g) = [n EXCEPT !.nudge9 = TRUE] /\ NudgedState(n, g) = GameplayIdle
    BY <1>3 DEF Nudged, Nudge8, NudgedState
  <2>2. g = LoadingStarted /\ ~n.nudge9
    BY <1>3 DEF To9, Nudge8
  <2>3. PastOf(n) => PastOf(Nudged(n, g))
    BY <1>1, <2>1 DEF Module, PastOf, MenuPath
  <2> QED  BY <2>1, <2>2, <2>3
<1>4. CASE ~To8(n, g) /\ ~To9(n, g)
  <2>1. Nudged(n, g) = n /\ NudgedState(n, g) = g
    BY <1>4 DEF Nudged, Nudge8, NudgedState
  <2>2. ~PastOf(n) /\ g = 0 => n.clock["cleared"] = "never"
    BY <1>4 DEF To8, PastOf
  <2>3. ~PastOf(n) /\ g = LoadingStarted => n.nudge9
    BY <1>4 DEF To9, Nudge8, PastOf
  <2> QED  BY <2>1, <2>2, <2>3
<1> QED  BY <1>2, <1>3, <1>4

(* A call to the poll: the caller has chosen, and is the last but one.       *)
LEMMA CallPushed ==
    ASSUME TypeOK, ~Resting, NEW s \in {"again", "advance", "tail"}, NEW f \in Frame,
           f.at = "fade", calls' = Append(Resume(s), f), CallersHaveChosen
    PROVE  /\ Len(calls') = Len(calls) + 1 /\ Top' = f
           /\ CallersHaveChosen'
           /\ \A i \in DOMAIN calls' : calls'[i].at \in {"again", "advance"} =>
                 s # "tail" \/ \E j \in DOMAIN calls : calls[j].at \in {"again", "advance"}
<1>1. calls \in Seq(Frame) /\ Len(calls) \in Nat /\ Len(calls) >= 1
  BY DEF TypeOK, Resting
<1>2. Resume(s) \in Seq(Frame) /\ Len(Resume(s)) = Len(calls)
  BY ResumeKeeps
<1>3. \A i \in 1..Len(calls) :
         Resume(s)[i].at = IF i = Len(calls) THEN s ELSE calls[i].at
  <2> SUFFICES ASSUME NEW i \in 1..Len(calls)
               PROVE  Resume(s)[i].at = IF i = Len(calls) THEN s ELSE calls[i].at
    OBVIOUS
  <2> DEFINE t == [calls[Len(calls)] EXCEPT !.at = s]
  <2>1. Resume(s) = [calls EXCEPT ![Len(calls)] = t]
    BY <1>1 DEF Resume
  <2>2. calls[Len(calls)] \in Frame
    BY <1>1
  <2>3. t.at = s
    BY <2>2 DEF Frame
  <2> HIDE DEF t
  <2>4. i \in DOMAIN calls /\ Len(calls) \in DOMAIN calls
    BY <1>1
  <2>5. Resume(s)[i] = IF i = Len(calls) THEN t ELSE calls[i]
    BY <2>1, <2>4
  <2> QED  BY <2>3, <2>5
<1>4. /\ Len(calls') = Len(calls) + 1 /\ DOMAIN calls' = 1..(Len(calls) + 1)
      /\ \A i \in 1..Len(calls) : calls'[i] = Resume(s)[i]
      /\ calls'[Len(calls) + 1] = f
  BY <1>1, <1>2
<1>5. Top' = f
  BY <1>4 DEF Top, Last
<1>6. CallersHaveChosen'
  <2> SUFFICES ASSUME NEW i \in 1..Len(calls) PROVE calls'[i].at # "fade"
    BY <1>1, <1>4 DEF CallersHaveChosen
  <2>1. i < Len(calls) => calls[i].at # "fade"
    BY <1>1 DEF CallersHaveChosen
  <2> QED  BY <1>1, <1>3, <1>4, <2>1
<1>7. ASSUME NEW i \in DOMAIN calls', calls'[i].at \in {"again", "advance"}, s = "tail"
      PROVE  \E j \in DOMAIN calls : calls[j].at \in {"again", "advance"}
  <2>1. i \in 1..Len(calls)
    BY <1>1, <1>4, <1>7
  <2>2. calls[i].at \in {"again", "advance"} /\ i \in DOMAIN calls
    BY <1>1, <1>3, <1>4, <1>7, <2>1
  <2> QED  BY <2>2
<1> QED  BY <1>4, <1>5, <1>6, <1>7

(* A stack without a caller asks for nothing.                                *)
LEMMA ShallowHolds ==
    ASSUME NEW f, f.at = "fade", calls' \in {<<>>, <<f>>}
    PROVE  StackInv'
<1>1. Len(calls') \in {0, 1} /\ \A i \in DOMAIN calls' : calls'[i].at = "fade" /\ ~(i < Len(calls'))
  <2>1. CASE calls' = <<>>
    BY <2>1
  <2>2. CASE calls' = <<f>>
    <3>1. Len(calls') = 1 /\ DOMAIN calls' = {1} /\ calls'[1] = f
      BY <2>2
    <3> QED  BY <3>1
  <2> QED  BY <2>1, <2>2
<1> QED  BY <1>1 DEF StackInv, RecoveryNudges, CallersHaveChosen, AdvanceNudges, DeepCallsAreStale

(* A call that returns leaves its caller, which has chosen, at the nudges.   *)
LEMMA CallPopped ==
    ASSUME TypeOK, StackInv, ~Resting, calls' = Front(calls), Past => Past',
           m'.nudge9 = m.nudge9
    PROVE  StackInv'
<1>1. calls \in Seq(Frame) /\ Len(calls) \in Nat /\ Len(calls) >= 1
  BY DEF TypeOK, Resting
<1>2. /\ Len(calls') = Len(calls) - 1 /\ DOMAIN calls' = 1..(Len(calls) - 1)
      /\ \A i \in 1..(Len(calls) - 1) : calls'[i] = calls[i]
  <2>1. calls' = SubSeq(calls, 1, Len(calls) - 1)
    BY DEF Front
  <2>2. Len(calls') = Len(calls) - 1
    <3>1. ASSUME NEW k \in Nat, k >= 1 PROVE Len(SubSeq(calls, 1, k - 1)) = k - 1
      BY <3>1
    <3> QED  BY <1>1, <2>1, <3>1
  <2>3. DOMAIN calls' = 1..(Len(calls) - 1)
    <3>1. calls' \in Seq(Frame)
      BY FrontKeeps
    <3> QED  BY <2>2, <3>1
  <2>4. ASSUME NEW i \in 1..(Len(calls) - 1) PROVE calls'[i] = calls[i]
    BY <1>1, <2>1, <2>4
  <2> QED  BY <2>2, <2>3, <2>4
<1>3. \A i \in DOMAIN calls' : i \in DOMAIN calls /\ calls'[i] = calls[i] /\ calls[i].at # "fade"
  BY <1>1, <1>2 DEF StackInv, CallersHaveChosen
<1>4. RecoveryNudges' /\ CallersHaveChosen'
  BY <1>3 DEF StackInv, RecoveryNudges, CallersHaveChosen
<1>5. AdvanceNudges'
  BY <1>1, <1>2, <1>3 DEF AdvanceNudges, Top, Last
<1>6. DeepCallsAreStale'
  BY <1>1, <1>2 DEF StackInv, DeepCallsAreStale
<1> QED  BY <1>4, <1>5, <1>6 DEF StackInv

(* The calls of the poll and of the recovery, however deep.                  *)
LEMMA StackKeeps ==
    ASSUME IInv, StackInv, Step
    PROVE  StackInv'
<1>1. TypeOK /\ Good(m) /\ m \in Module /\ gs \in GameState /\ Len(calls) \in Nat
  BY DEF IInv, TypeOK, Good
<1>2. ~Resting
  BY DEF Step, Kick, KickAgain, ForceFade, Advance, PollReturns, HookReturns, Returns, Running
<1>3. calls \in Seq(Frame) /\ Len(calls) >= 1 /\ Len(calls) \in DOMAIN calls /\ Top = calls[Len(calls)]
  BY <1>1, <1>2 DEF TypeOK, Resting, Top, Last
<1>4. RecoveryNudges /\ CallersHaveChosen /\ AdvanceNudges /\ DeepCallsAreStale
  BY DEF StackInv
<1>5. Top.at \in {"again", "advance"} => Past
  BY <1>3, <1>4 DEF RecoveryNudges
<1>6. /\ (Past <=> PastOf(m)) /\ (Past' <=> PastOf(m'))
  BY DEF Past, PastOf, MenuPath
\* A push on a load past its nudge leaves it so.
<1>7. ASSUME NEW s \in {"again", "advance", "tail"}, NEW n, NEW g \in GameState, Good(n),
             PastOf(n), Poll(Resume(s), n, g)
      PROVE  StackInv'
  <2> DEFINE f == FrameOf("poll", g)
  <2>1. f \in Frame /\ f.at = "fade" /\ calls' = Append(Resume(s), f)
    BY <1>1, <1>7 DEF Poll, FrameOf, Frame, TypeOK
  <2> HIDE DEF f
  <2>2. Past'
    <3>1. Resume(s) \in Seq(Frame)
      BY <1>1, <1>2, <1>7, ResumeKeeps
    <3>2. (MenuPath(m') => MenuPath(n)) /\ m'.nudge8 = n.nudge8
      BY <1>1, <1>7, <3>1, PollStays
    <3> QED  BY <1>6, <1>7, <3>2 DEF PastOf
  <2>3. CallersHaveChosen'
    BY <1>1, <1>2, <1>4, <1>7, <2>1, CallPushed
  <2> QED  BY <2>2, <2>3 DEF StackInv, RecoveryNudges, AdvanceNudges, DeepCallsAreStale
<1>8. CASE Kick
  <2> DEFINE n == [m EXCEPT !.recovered = TRUE, !.kick = FALSE]
  <2>1. n \in Module /\ n.clock = m.clock /\ n.recovered
    BY <1>1 DEF Module
  <2>2. /\ gs' = NudgedState(n, gs) /\ Poll(Resume("again"), Nudged(n, gs), gs')
        /\ m.clock["cleared"] # "never" /\ gs = 0
    BY <1>8 DEF Kick, KickDue
  <2> HIDE DEF n
  <2>3. Good(n)
    BY <1>1, <2>1, FlagsSet
  <2>4. Good(Nudged(n, gs)) /\ gs' \in GameState
    BY <1>1, <2>2, <2>3, NudgedKeeps
  <2>5. PastOf(Nudged(n, gs))
    <3>1. gs # LoadingStarted /\ (gs = 0 => n.clock["cleared"] # "never")
      BY <2>1, <2>2 DEF LoadingStarted
    <3> QED  BY <1>1, <2>1, <2>2, <2>3, <3>1, NudgeActs
  <2> QED  BY <1>7, <2>2, <2>4, <2>5
<1>9. CASE KickAgain
  <2>1. Poll(Resume("advance"), m, gs) /\ Top.at = "again"
    BY <1>9 DEF KickAgain
  <2> QED  BY <1>1, <1>5, <1>6, <1>7, <2>1
<1>10. CASE ForceFade
  <2>1. calls' = Resume("tail") /\ m' = m
    BY <1>10 DEF ForceFade
  <2> DEFINE t == [calls[Len(calls)] EXCEPT !.at = "tail"]
  <2>2. Resume("tail") = [calls EXCEPT ![Len(calls)] = t]
    BY <1>3 DEF Resume
  <2>3. t.at = "tail"
    <3>1. calls[Len(calls)] \in Frame
      BY <1>3
    <3> QED  BY <3>1 DEF Frame
  <2> HIDE DEF t
  <2>4. /\ calls' \in Seq(Frame) /\ Len(calls') = Len(calls)
        /\ \A i \in 1..Len(calls) :
              calls'[i].at = IF i = Len(calls) THEN "tail" ELSE calls[i].at
    <3>1. calls' \in Seq(Frame) /\ Len(calls') = Len(calls)
      BY <1>1, <1>2, <2>1, ResumeKeeps
    <3>2. ASSUME NEW i \in 1..Len(calls)
          PROVE  calls'[i] = IF i = Len(calls) THEN t ELSE calls[i]
      BY <1>3, <2>1, <2>2, <3>2
    <3> QED  BY <2>3, <3>1, <3>2
  <2>5. Past' <=> Past
    BY <1>6, <2>1
  <2>6. RecoveryNudges' /\ CallersHaveChosen'
    BY <1>3, <1>4, <2>4, <2>5 DEF RecoveryNudges, CallersHaveChosen
  <2>7. AdvanceNudges' /\ DeepCallsAreStale'
    BY <1>3, <1>4, <2>1, <2>4, <2>5 DEF AdvanceNudges, DeepCallsAreStale, Top, Last
  <2> QED  BY <2>6, <2>7 DEF StackInv
<1>11. CASE Advance
  <2> DEFINE d == Nudged(m, gs)
             f == FrameOf("poll", gs')
  <2>1. /\ gs' = NudgedState(m, gs) /\ Poll(Resume("tail"), d, gs')
        /\ m.recovered /\ AdvanceDue(Top)
    BY <1>11 DEF Advance, AdvanceDue
  <2>2. Good(d) /\ gs' \in GameState
    BY <1>1, <2>1, NudgedKeeps
  <2>3. f \in Frame /\ f.at = "fade" /\ f.by = "poll" /\ f.gs = gs' /\ calls' = Append(Resume("tail"), f)
    BY <1>1, <2>1, <2>2 DEF Poll, FrameOf, Frame, TypeOK
  <2>4. \/ PastOf(d)
        \/ /\ d = m /\ gs' = gs
           /\ gs = 0 => m.clock["cleared"] = "never"
           /\ gs = LoadingStarted => m.nudge9
        \/ gs = LoadingStarted /\ gs' = GameplayIdle /\ ~m.nudge9
    BY <1>1, <2>1, NudgeActs
  <2>5. Past => PastOf(d)
    BY <1>1, <1>6, <2>1, NudgeActs
  <2>6. Resume("tail") \in Seq(Frame)
    BY <1>1, <1>2, ResumeKeeps
  <2>7. \/ Same(m', d) /\ (gs' = LoadingStarted => d.prevGs = LoadingStarted)
        \/ gs' = LoadingStarted /\ d.prevGs # LoadingStarted /\ m'.clock["since8"] = "fresh"
    BY <1>1, <2>1, <2>2, <2>6, PollStays
  <2>8. CASE PastOf(d)
    BY <1>7, <2>1, <2>2, <2>8
  <2>9. CASE ~PastOf(d)
    <3>1. ~Past /\ Top.at \notin {"again", "advance"}
      BY <1>5, <2>5, <2>9
    <3>2. Len(calls') = Len(calls) + 1 /\ Top' = f /\ CallersHaveChosen'
      BY <1>1, <1>2, <1>4, <2>3, CallPushed
    <3>3. RecoveryNudges'
      <4>1. \A i \in DOMAIN calls : calls[i].at \notin {"again", "advance"}
        BY <1>4, <3>1 DEF RecoveryNudges
      <4>2. \A i \in DOMAIN calls' : calls'[i].at \notin {"again", "advance"}
        BY <1>1, <1>2, <1>4, <2>3, <4>1, CallPushed
      <4> QED  BY <4>2 DEF RecoveryNudges
    <3> HIDE DEF f
    <3>4. gs' = 0 => m'.clock["cleared"] \in {"never", "fresh"}
      BY <2>4, <2>7, <2>9 DEF Same, LoadingStarted, GameplayIdle
    <3>5. gs' = LoadingStarted => d = m /\ gs = LoadingStarted /\ m.nudge9
      BY <2>4, <2>9 DEF LoadingStarted, GameplayIdle
    <3>6. gs' = LoadingStarted /\ m'.clock["since8"] = "ripe" =>
             m'.nudge9 /\ m'.prevGs = LoadingStarted
      BY <2>7, <3>5 DEF Same, Stays
    <3>7. AdvanceNudges'
      BY <2>3, <3>2, <3>4, <3>6 DEF AdvanceNudges
    \* The third call comes from a poll that a nudged state 8 made advance.
    <3>8. ASSUME Len(calls) > 1 PROVE m'.nudge9
      <4>1. Top.at = "fade"
        BY <2>1, <3>1 DEF AdvanceDue
      <4>2. /\ Top.by = "poll" /\ Top.gs = gs
            /\ gs = 0 => m.clock["cleared"] \in {"never", "fresh"}
            /\ gs = LoadingStarted /\ m.clock["since8"] = "ripe" =>
                  m.nudge9 /\ m.prevGs = LoadingStarted
        BY <1>4, <3>1, <3>8, <4>1 DEF AdvanceNudges
      <4>3. gs = LoadingStarted /\ m.nudge9 /\ m.prevGs = LoadingStarted
        BY <2>1, <4>2 DEF AdvanceDue, Late
      <4>4. d = m /\ gs' = gs
        BY <2>4, <2>9, <4>3
      <4>5. m'.nudge9 = m.nudge9
        BY <2>7, <4>3, <4>4 DEF Same, Stays
      <4> QED  BY <4>3, <4>5
    <3>9. DeepCallsAreStale'
      BY <1>1, <3>2, <3>8 DEF DeepCallsAreStale
    <3> QED  BY <3>2, <3>3, <3>7, <3>9 DEF StackInv
  <2> QED  BY <2>8, <2>9
<1>12. CASE PollReturns
  <2>1. PICK drained \in BOOLEAN :
         LET settled == m.session /\ Settled(m, drained)
             n == [m EXCEPT
                     !.clock.ready = IF ~m.session THEN @
                                     ELSE IF ~settled THEN "never"
                                     ELSE IF m.prevSettled THEN @ ELSE "fresh",
                     !.prevSettled = settled, !.prevLoading = Top.loading, !.prevGs = Top.gs]
         IN m' = IF n.session /\ Over(n, Top, settled) THEN End(n) ELSE n
    BY <1>12 DEF PollReturns
  <2> DEFINE settled == m.session /\ Settled(m, drained)
             r == IF ~m.session THEN m.clock["ready"]
                  ELSE IF ~settled THEN "never"
                  ELSE IF m.prevSettled THEN m.clock["ready"] ELSE "fresh"
             k == [m EXCEPT !.clock["ready"] = r]
             n == [m EXCEPT
                     !.clock.ready = IF ~m.session THEN @
                                     ELSE IF ~settled THEN "never"
                                     ELSE IF m.prevSettled THEN @ ELSE "fresh",
                     !.prevSettled = settled, !.prevLoading = Top.loading, !.prevGs = Top.gs]
  <2>2. m' = n \/ m' = End(n)
    BY <2>1
  <2>3. r \in Stage("ready")
    BY <1>1, Clocks DEF Good
  <2>4. Good(k)
    BY <1>1, <2>3, ClockSet, Clocks
  <2>5. settled \in BOOLEAN /\ Top \in Frame
    BY <1>1, <1>2, ResumeKeeps
  <2>6. n = [k EXCEPT !.prevSettled = settled, !.prevLoading = Top.loading, !.prevGs = Top.gs]
    BY <1>1 DEF Module
  <2>7. Stays(k, m)
    BY <1>1 DEF Module, Stays, MenuPath
  <2> HIDE DEF k, n, settled
  <2>8. n \in Module /\ n.clock = k.clock /\ Stays(n, k)
    BY <2>4, <2>5, <2>6 DEF Good, Module, Frame, Stays, MenuPath
  <2>9. Stays(m', n)
    <3>1. Good(n)
      BY <2>4, <2>8, FlagsSet
    <3> QED  BY <2>2, <3>1, SessionStays DEF Same
  <2>10. (Past => Past') /\ m'.nudge9 = m.nudge9
    BY <1>6, <2>7, <2>8, <2>9 DEF Stays, PastOf
  <2>11. calls' = Front(calls)
    BY <1>12 DEF PollReturns
  <2> QED  BY <1>1, <1>2, <2>10, <2>11, CallPopped
<1>13. CASE HookReturns
  <2>1. calls' = Front(calls) /\ m' = m
    BY <1>13 DEF HookReturns
  <2> QED  BY <1>1, <1>2, <1>6, <2>1, CallPopped
<1> QED  BY <1>8, <1>9, <1>10, <1>11, <1>12, <1>13 DEF Step

(* The hooks and the game find the stack empty, and call the poll at most.   *)
LEMMA RestKeeps ==
    ASSUME IInv, StackInv, ~Step, [Next]_vars
    PROVE  StackInv'
<1>1. CASE UNCHANGED vars
  BY <1>1 DEF vars, engine, StackInv, RecoveryNudges, CallersHaveChosen, AdvanceNudges,
     DeepCallsAreStale, Past, MenuPath, Top
<1>2. CASE Hook
  <2>1. CASE MenuReadSave \/ LoadCommitted \/ NewGame \/ GenericLoadCalled \/ AfterSuccessLoad
             \/ InitAtStartOfGame \/ DeferredFade
    <3>1. calls' = <<>>
      BY <2>1 DEF MenuReadSave, LoadCommitted, NewGame, GenericLoadCalled, AfterSuccessLoad,
         InitAtStartOfGame, DeferredFade, Hooked, Resting
    <3> DEFINE f == FrameOf("poll", gs)
    <3>2. f.at = "fade"
      BY DEF FrameOf
    <3> HIDE DEF f
    <3> QED  BY <3>1, <3>2, ShallowHolds
  <2>2. ASSUME NEW n, NEW g, Poll(<<>>, n, g) PROVE StackInv'
    <3> DEFINE f == FrameOf("poll", g)
    <3>1. f.at = "fade" /\ calls' = Append(<<>>, f)
      BY <2>2 DEF FrameOf, Poll
    <3> HIDE DEF f
    <3>2. calls' = <<f>>
      BY <3>1
    <3> QED  BY <3>1, <3>2, ShallowHolds
  <2>3. CASE GenericLoadReturned
    BY <2>2, <2>3 DEF GenericLoadReturned
  <2>4. CASE FadeZero
    BY <2>2, <2>4 DEF FadeZero
  <2>5. CASE FramePoll
    BY <2>2, <2>5 DEF FramePoll
  <2>6. CASE TaskHook
    <3>1. PICK by \in {"hook", "kick"} : calls' = <<FrameOf(by, gs)>>
      BY <2>6 DEF TaskHook
    <3>2. FrameOf(by, gs).at = "fade"
      BY DEF FrameOf
    <3> QED  BY <3>1, <3>2, ShallowHolds
  <2> QED  BY <1>2, <2>1, <2>3, <2>4, <2>5, <2>6 DEF Hook
<1>3. CASE EngineLoads \/ GameMoves \/ PlayerMoves \/ StackOverflows \/ \E c \in Clock : TimePasses(c)
  <2>1. calls' = <<>>
    BY <1>3 DEF EngineLoads, GameMoves, PlayerMoves, StackOverflows, TimePasses, Resting
  <2> DEFINE f == FrameOf("poll", gs)
  <2>2. f.at = "fade"
    BY DEF FrameOf
  <2> HIDE DEF f
  <2> QED  BY <2>1, <2>2, ShallowHolds
<1> QED  BY <1>1, <1>2, <1>3 DEF Next

-----------------------------------------------------------------------------
(* The theorems.                                                             *)

(* Every call, every hook, every move of the engine and the crash keep the
   inductive invariant.                                                        *)
THEOREM StepIInv == IInv /\ [Next]_vars => IInv'
<1> SUFFICES ASSUME IInv, [Next]_vars PROVE IInv'
  OBVIOUS
<1>1. CASE StackOverflows
  <2>1. {loading', failed', fade', skip', world', generic'} \subseteq BOOLEAN /\ gs' \in GameState
    BY <1>1 DEF StackOverflows, GameState
  <2>2. Good(m') /\ calls' \in Seq(Frame) /\ Len(calls') <= MaxCalls /\ ~generic'
    BY <1>1, FreshGood, MaxCallsAssumption DEF StackOverflows
  <2> QED  BY <2>1, <2>2, StepShows
<1>2. CASE UNCHANGED vars
  BY <1>2 DEF vars, engine, IInv, TypeOK, LoadIsNotNudged
<1> QED  BY <1>1, <1>2, CallKeeps, HookKeeps, EngineKeeps DEF Next

(* The module starts at rest.                                                *)
THEOREM InitIInv == Init => IInv
<1> SUFFICES ASSUME Init PROVE IInv
  OBVIOUS
<1>1. {loading, failed, fade, skip, world, generic} \subseteq BOOLEAN /\ gs \in GameState
  BY DEF Init, GameState
<1>2. Good(m) /\ calls \in Seq(Frame) /\ Len(calls) <= MaxCalls /\ ~generic
  BY FreshGood, MaxCallsAssumption DEF Init
<1> QED  BY <1>1, <1>2 DEF IInv, TypeOK, Good, LoadIsNotNudged

(* The inductive invariant holds in every reachable state.                   *)
THEOREM AlwaysIInv == Spec => []IInv
  BY InitIInv, StepIInv, PTL DEF Spec

(* Every flag, clock and call keeps its type, for any depth of the stack.    *)
THEOREM TypeCorrect == Spec => []TypeOK
<1>1. IInv => TypeOK
  BY DEF IInv
<1> QED  BY <1>1, AlwaysIInv, PTL

(* However loads follow one another and however deep the poll and the recovery
   call each other, no game state is written into a load (hooks_stability).    *)
THEOREM LoadIsNeverNudged == Spec => []LoadIsNotNudged
<1>1. IInv => LoadIsNotNudged
  BY DEF IInv
<1> QED  BY <1>1, AlwaysIInv, PTL

(* No storage hook turns a game that is being continued into a menu load.    *)
THEOREM ContinueIsAlwaysKept == Spec => ContinueIsKept
<1>1. ASSUME IInv, [Next]_vars, Resting, calls' = <<>>, m.kind = "Continue"
      PROVE  m'.kind = "Continue" \/ NewGame
  <2>1. Good(m) /\ m \in Module
    BY <1>1 DEF IInv, TypeOK, Good
  <2>2. ~Step /\ ~StackOverflows
    BY <1>1, MaxCallsAssumption DEF Step, Kick, KickAgain, ForceFade, Advance, PollReturns,
       HookReturns, Returns, Running, Resting, StackOverflows
  <2>3. ~GenericLoadReturned /\ ~FadeZero /\ ~TaskHook /\ ~FramePoll
    BY <1>1 DEF GenericLoadReturned, FadeZero, TaskHook, FramePoll, Poll
  <2>4. CASE MenuReadSave \/ GenericLoadCalled
    BY <1>1, <2>1, <2>4, MenuReadKeeps DEF MenuReadSave, GenericLoadCalled, Hooked
  <2>5. CASE LoadCommitted
    <3>1. Forgotten(m) \in Module
      BY <2>1, ForgottenKeeps DEF Good
    <3> QED  BY <2>5, <3>1 DEF LoadCommitted, Hooked, Module
  <2>6. CASE AfterSuccessLoad \/ InitAtStartOfGame \/ DeferredFade
    BY <1>1, <2>1, <2>6 DEF AfterSuccessLoad, InitAtStartOfGame, DeferredFade, Hooked, Module
  <2>7. CASE EngineLoads \/ GameMoves \/ PlayerMoves \/ UNCHANGED vars
    BY <1>1, <2>7 DEF EngineLoads, GameMoves, PlayerMoves, vars
  <2>8. ASSUME NEW c \in Clock, TimePasses(c) PROVE m'.kind = "Continue"
    BY <1>1, <2>1, <2>8 DEF TimePasses, Module
  <2> QED  BY <1>1, <2>2, <2>3, <2>4, <2>5, <2>6, <2>7, <2>8 DEF Next, Hook
<1>2. IInv /\ [Next]_vars =>
        [Resting /\ calls' = <<>> /\ m.kind = "Continue" => m'.kind = "Continue" \/ NewGame]_vars
  BY <1>1
<1> QED  BY <1>2, AlwaysIInv, PTL DEF Spec, ContinueIsKept

(* Every step keeps the nudges behind the calls under way.                   *)
THEOREM StepStackInv == IInv /\ StackInv /\ [Next]_vars => StackInv'
  BY StackKeeps, RestKeeps

(* At any depth, a call has its nudge behind it: a kick has nudged a hung menu load
   to 8, an advance has nudged what it could, the third call is of a load that is
   no longer a menu load or has been nudged (run_deferred_fade_in_kick_if_needed,
   advance_post_load_after_recovery).                                          *)
THEOREM CallsHaveNudged == Spec => [](IInv /\ StackInv)
<1>1. Init => StackInv
  BY DEF Init, StackInv, RecoveryNudges, CallersHaveChosen, AdvanceNudges, DeepCallsAreStale
<1> QED  BY <1>1, InitIInv, StepIInv, StepStackInv, PTL DEF Spec

(* For every depth of the stack that an endless call needs, a stack used up is one
   of a load that is no longer a menu load, or that was nudged already. A stack of
   one or two calls is used up by a load's first poll and says nothing.        *)
THEOREM EndlessCallsAreAlwaysStale ==
    ASSUME MaxCalls > 2 PROVE Spec => []EndlessCallsAreStale
<1>1. IInv /\ StackInv => EndlessCallsAreStale
  BY MaxCallsAssumption DEF StackInv, DeepCallsAreStale, Past, EndlessCallsAreStale
<1> QED  BY <1>1, CallsHaveNudged, PTL
=============================================================================
