------------------------------- MODULE SaveLoad -------------------------------
(* The save-load session of the C++ module: the hooks that name the kind of a  *)
(* load, the poll that opens and ends the session while the engine goes from   *)
(* ms_bLoading through the game states 0, 8 and 9, and the recovery of a fade  *)
(* that hangs, which writes the engine's game state itself.                    *)
(*                                                                             *)
(* The poll and the recovery call each other, so a call is a frame on a stack  *)
(* that keeps what the call read when it began; nothing else runs meanwhile.   *)
(* Times are kept as stages of a clock: the thresholds that were passed.       *)
EXTENDS Naturals, Sequences, SequencesExt

CONSTANTS
    MaxCalls,   \* bound: nested calls the thread's stack holds
    Asked       \* bound: the kinds of load the player asks for

ASSUME MaxCallsAssumption == MaxCalls \in Nat \ {0}
ASSUME AskedAssumption == Asked \subseteq {"Menu", "NewGame", "Continue"}

VARIABLES
    loading,  \* CGenericGameStorage::ms_bLoading
    failed,   \* ms_bFailed
    gs,       \* the game state
    fade,     \* GetScreenFadeStatus() > 0
    skip,     \* the skip/intro pipeline is active
    world,    \* is_player_world_active
    generic,  \* GenericLoad is running
    m,        \* the module's flags and clocks
    calls     \* calls of the poll and of the recovery under way

engine == <<loading, failed, gs, fade, skip, world, generic>>
vars == <<engine, m, calls>>

FrontendIdle == 7
LoadingStarted == 8
GameplayIdle == 9
GameState == {0, FrontendIdle, LoadingStarted, GameplayIdle}

Kind == {"Unknown", "Menu", "NewGame", "Continue"}
Stages ==
    [started |-> <<"never", "fresh", "ripe", "capped">>,  \* minimum, 180 s hard cap
     cleared |-> <<"never", "fresh", "ripe", "old">>,     \* 0.5 to 5 s, 120 s
     ready |-> <<"never", "fresh", "ripe">>,              \* the dwell of the kind
     since8 |-> <<"never", "fresh", "ripe">>,             \* 0.5 s
     skipCleared |-> <<"never", "fresh", "ripe", "forced">>]  \* 0.5 s, 1 s
Clock == DOMAIN Stages
Stage(c) == ToSet(Stages[c])
AnyStage == UNION {Stage(c) : c \in Clock}
After(c, s) ==
    IF s = "never" \/ s = Last(Stages[c]) THEN s
    ELSE LET i == CHOOSE j \in DOMAIN Stages[c] : Stages[c][j] = s IN Stages[c][i + 1]

Module ==
    [session : BOOLEAN, kind : Kind, menuSeen : BOOLEAN, clock : [Clock -> AnyStage],
     skipWas : BOOLEAN, recovered : BOOLEAN, kick : BOOLEAN, nudge8 : BOOLEAN,
     nudge9 : BOOLEAN, prevLoading : BOOLEAN, prevSettled : BOOLEAN, prevGs : GameState]
Frame ==
    [at : {"fade", "again", "advance", "tail"}, by : {"poll", "hook", "kick"},
     loading : BOOLEAN, gs : GameState, skip : BOOLEAN]

MenuPath(n) == n.kind \in {"Menu", "Continue"} \/ n.menuSeen
FadeTail ==
    ~loading /\ ~generic /\ MenuPath(m) /\ gs \in {0, LoadingStarted} /\ m.clock.cleared # "never"
\* Fade(0, 0) and the deferred fade hang in the tail of a load that was not recovered.
ShouldSkipFadeZero == FadeTail /\ fade /\ ~m.recovered
ShouldReplaceFadeZero == ShouldSkipFadeZero /\ ~m.kick

-----------------------------------------------------------------------------
(* What begins, ends and forgets a load.                                      *)

\* begin_save_load_session, end_save_load_session.
Begin(n) ==
    IF n.session THEN n
    ELSE [n EXCEPT !.session = TRUE, !.skipWas = FALSE, !.clock.started = "fresh",
                   !.clock.ready = "never", !.clock.skipCleared = "never"]
End(n) ==
    IF ~n.session THEN n
    ELSE [n EXCEPT !.session = FALSE, !.skipWas = FALSE, !.clock.started = "never",
                   !.clock.ready = "never", !.clock.skipCleared = "never",
                   !.kind = "Unknown", !.menuSeen = FALSE]
MutantForgotten(n) ==   \* the last load's recovery is not forgotten
    [n EXCEPT !.kick = FALSE, !.nudge8 = FALSE, !.nudge9 = FALSE, !.clock.since8 = "never"]
Forgotten(n) ==
    [n EXCEPT !.recovered = FALSE, !.kick = FALSE, !.nudge8 = FALSE, !.nudge9 = FALSE,
              !.clock.since8 = "never"]

\* try_nudge_game_state_loading_started_ex, then ..._gameplay_idle_ex, both at
\* once: the module writes 8 and 9 into the engine's game state.
To8(n, g) == g = 0 /\ MenuPath(n) /\ n.recovered /\ ~n.nudge8 /\ n.clock.cleared # "never"
Nudge8(n, g) ==
    IF To8(n, g) THEN Begin([n EXCEPT !.nudge8 = TRUE, !.nudge9 = FALSE, !.clock.since8 = "fresh"])
    ELSE n
To9(n, g) == (g = LoadingStarted \/ To8(n, g)) /\ MenuPath(n) /\ n.recovered
             /\ ~Nudge8(n, g).nudge9
Nudged(n, g) == IF To9(n, g) THEN [Nudge8(n, g) EXCEPT !.nudge9 = TRUE] ELSE Nudge8(n, g)
NudgedState(n, g) ==
    IF To9(n, g) THEN GameplayIdle ELSE IF To8(n, g) THEN LoadingStarted ELSE g

-----------------------------------------------------------------------------
(* The calls.                                                                 *)

Resting == calls = <<>>
Top == Last(calls)
FrameOf(by, g) == [at |-> "fade", by |-> by, loading |-> loading, gs |-> g, skip |-> skip]
Running == ~Resting /\ Len(calls) < MaxCalls
Resume(s) == [calls EXCEPT ![Len(calls)].at = s]
Keep == UNCHANGED <<loading, failed, skip, world, generic>>

\* poll_save_load_hydration_state up to the fade: the skip pipeline, the edges
\* of the game state and of ms_bLoading, a failed load.
SkipSeen(n, f) ==
    LET c == IF n.skipWas /\ ~f.skip THEN [n EXCEPT !.clock.skipCleared = "fresh"] ELSE n
        e == IF c.session /\ c.clock.skipCleared = "forced" /\ ~f.skip /\ world THEN End(c) ELSE c
    IN [e EXCEPT !.skipWas = f.skip]
StateSeen(n, f) ==
    LET e == IF f.gs = LoadingStarted /\ n.prevGs # LoadingStarted
             THEN [n EXCEPT !.clock.since8 = "fresh", !.nudge9 = FALSE] ELSE n
    IN IF f.gs = GameplayIdle /\ n.prevGs # GameplayIdle THEN Begin(e) ELSE e
LoadingSeen(n, f) ==
    IF f.loading \/ f.gs = LoadingStarted THEN Begin(n)
    ELSE IF ~n.prevLoading THEN n
    ELSE LET c == [n EXCEPT !.clock.cleared = "fresh"]
         IN IF ~n.session /\ MenuPath(n) /\ n.kind # "Continue" /\ f.gs = 0 THEN Begin(c) ELSE c
FailureSeen(n) == IF failed THEN End(n) ELSE n
\* The caller leaves the flags n and the game state g, and polls.
Poll(callers, n, g) ==
    LET f == FrameOf("poll", g)
    IN /\ m' = FailureSeen(LoadingSeen(StateSeen(SkipSeen(n, f), f), f))
       /\ calls' = Append(callers, f)

\* run_deferred_fade_in_kick_if_needed, kick_post_load_fade_in_once: once per
\* load the fade is forced to its end, then polled twice.
Late(f) == f.by # "poll" \/ (f.gs = 0 /\ m.clock.cleared \in {"ripe", "old"})
KickDue(f) ==
    /\ f.at = "fade" /\ Late(f) /\ m.kick /\ ~m.recovered
    /\ m.clock.cleared # "never" /\ gs = 0 /\ ~loading
Kick ==
    /\ Running /\ KickDue(Top)
    /\ fade' = FALSE
    /\ LET n == [m EXCEPT !.recovered = TRUE, !.kick = FALSE]
       IN gs' = NudgedState(n, gs) /\ Poll(Resume("again"), Nudged(n, gs), gs')
    /\ Keep
KickAgain ==
    /\ Running /\ Top.at = "again"
    /\ Poll(Resume("advance"), m, gs)
    /\ UNCHANGED engine

MutantAdvanceDue(f) ==   \* whether or not the fade was recovered
    /\ f.at \in {"fade", "advance"} /\ ~KickDue(f) /\ f.by # "kick"
    /\ Late(f) \/ (f.gs = LoadingStarted /\ m.clock.since8 = "ripe")
\* advance_post_load_after_recovery: force a late fade, or nudge and poll.
AdvanceDue(f) ==
    /\ f.at \in {"fade", "advance"} /\ ~KickDue(f)
    /\ m.recovered /\ f.by # "kick"
    /\ Late(f) \/ (f.gs = LoadingStarted /\ m.clock.since8 = "ripe")
ForceFade ==
    /\ Running /\ AdvanceDue(Top) /\ fade
    /\ fade' = FALSE
    /\ calls' = Resume("tail")
    /\ UNCHANGED <<gs, m>> /\ Keep
Advance ==
    /\ Running /\ AdvanceDue(Top) /\ ~fade
    /\ gs' = NudgedState(m, gs) /\ Poll(Resume("tail"), Nudged(m, gs), gs')
    /\ UNCHANGED fade /\ Keep

\* hydration_settled_for_session_end: after a skip, after a menu load, else.
Settled(n, drained) ==
    /\ ~loading /\ world /\ ~skip
    /\ IF n.clock.skipCleared # "never" THEN n.clock.skipCleared # "fresh"
       ELSE /\ n.clock.cleared # "fresh"
            /\ gs = GameplayIdle
            /\ n.kind \in {"Menu", "Continue"} \/ drained
Settling(n, settled) == settled /\ n.clock.ready = "ripe" /\ n.clock.started \notin {"never", "fresh"}
Abandoned(n, f) == ~f.loading /\ f.gs <= FrontendIdle /\ n.clock.cleared = "old"
\* The session ends: signals settled for long enough, at the hard cap, or back
\* in the frontend for two minutes.
Over(n, f, settled) == Settling(n, settled) \/ n.clock.started = "capped" \/ Abandoned(n, f)
Returns == Running /\ Top.at # "again" /\ ~KickDue(Top) /\ ~AdvanceDue(Top)
PollReturns ==
    /\ Returns /\ Top.by = "poll"
    /\ \E drained \in BOOLEAN :
         LET settled == m.session /\ Settled(m, drained)
             n == [m EXCEPT
                     !.clock.ready = IF ~m.session THEN @
                                     ELSE IF ~settled THEN "never"
                                     ELSE IF m.prevSettled THEN @ ELSE "fresh",
                     !.prevSettled = settled, !.prevLoading = Top.loading, !.prevGs = Top.gs]
         IN m' = IF n.session /\ Over(n, Top, settled) THEN End(n) ELSE n
    /\ calls' = Front(calls)
    /\ UNCHANGED engine
HookReturns ==
    /\ Returns /\ Top.by # "poll"
    /\ calls' = Front(calls)
    /\ UNCHANGED <<engine, m>>

-----------------------------------------------------------------------------
(* The hooks of the game's functions.                                         *)

Hooked(a) == Resting /\ a /\ UNCHANGED calls

\* notify_menu_read_save_path: CGenericGameStorage::Load, LoadGame,
\* RestoreForStartLoad, LoadDataInSlot. A continued game keeps its kind.
MutantMenuRead(n) == [Forgotten(n) EXCEPT !.menuSeen = TRUE, !.kind = "Menu"]
MenuRead(n) ==
    [Forgotten(n) EXCEPT !.menuSeen = TRUE, !.kind = IF @ = "Continue" THEN @ ELSE "Menu"]
MenuReadSave == "Menu" \in Asked /\ Hooked(m' = MenuRead(m)) /\ UNCHANGED engine

\* notify_ue_menu_load_committed.
LoadCommitted ==
    /\ "Continue" \in Asked /\ ~generic /\ Hooked(m' = [Forgotten(m) EXCEPT !.menuSeen = FALSE, !.kind = "Continue"])
    /\ UNCHANGED engine

\* notify_explicit_new_game_bootstrap.
NewGame ==
    /\ "NewGame" \in Asked /\ ~generic /\ Hooked(m' = [m EXCEPT !.menuSeen = FALSE, !.kind = "NewGame"])
    /\ UNCHANGED engine

\* proxy_generic_game_storage_generic_load, up to the game's GenericLoad.
GenericLoadCalled ==
    /\ Asked # {"NewGame"} /\ ~generic /\ Hooked(m' = MenuRead(m))
    /\ generic' = TRUE /\ failed' = FALSE
    /\ UNCHANGED <<loading, gs, fade, skip, world>>
\* ... and after it: notify_generic_load_returned.
Returned(n) ==
    IF loading THEN Begin(n)
    ELSE [n EXCEPT
            !.clock.cleared = "fresh",
            !.recovered = @ \/ (MenuPath(n) /\ ~fade),
            !.kick = IF ~MenuPath(n) \/ n.recovered THEN @ ELSE fade]
GenericLoadReturned ==
    /\ Resting /\ generic
    /\ generic' = FALSE
    /\ Poll(<<>>, Returned(m), gs)
    /\ UNCHANGED <<loading, failed, gs, fade, skip, world>>

\* proxy_generic_game_storage_after_success_load.
AfterSuccessLoad ==
    /\ generic
    /\ Hooked(m' = [m EXCEPT !.menuSeen = TRUE, !.kind = IF @ = "Continue" THEN @ ELSE "Menu"])
    /\ UNCHANGED engine

\* proxy_cgame_logic_init_at_start_of_game.
InitAtStartOfGame ==
    /\ ~generic
    /\ Hooked(m' = IF MenuPath(m) /\ m.kind # "Continue" THEN [m EXCEPT !.kind = "Menu"]
                   ELSE IF m.kind = "Unknown" /\ (loading \/ gs = LoadingStarted) THEN Begin(m)
                   ELSE m)
    /\ UNCHANGED engine

\* proxy_running_deferred_loading_screen_fade: a fade that would hang is put off.
DeferredFade ==
    /\ ShouldReplaceFadeZero
    /\ Hooked(m' = [m EXCEPT !.kick = TRUE])
    /\ UNCHANGED engine

\* proxy_ccamera_fade, Fade(0, 0) in the tail of a load: forced, then advanced.
FadeZero ==
    /\ Resting /\ ShouldSkipFadeZero
    /\ fade' = FALSE
    /\ LET n == [m EXCEPT !.recovered = TRUE, !.kick = FALSE]
       IN gs' = NudgedState(n, gs) /\ Poll(<<>>, Nudged(n, gs), gs')
    /\ Keep

\* proxy_manage_tasks, maybe_log_load_transition_heartbeat, proxy_cgame_logic_update
\* and proxy_ccamera_run_deferred_fade_if_bound: a kick, then an advance, before
\* the game's own function; after it a kick only.
TaskHook ==
    /\ Resting
    /\ \E by \in {"hook", "kick"} :
         /\ by = "hook" => loading \/ generic \/ gs \in {0, LoadingStarted}
         /\ by = "hook" \/ m.kick
         /\ calls' = <<FrameOf(by, gs)>>
    /\ UNCHANGED <<engine, m>>

\* poll_save_load_hydration_state of the frame, or after LoadDataInSlot.
FramePoll ==
    /\ Resting /\ ~generic
    /\ Poll(<<>>, m, gs)
    /\ UNCHANGED engine

-----------------------------------------------------------------------------
(* The game, the clock, the stack.                                            *)

\* GenericLoad deserializes at its own pace and may fail; the screen goes dark.
EngineLoads ==
    /\ Resting
    /\ \/ (generic \/ loading) /\ loading' = ~loading /\ UNCHANGED <<failed, fade>>
       \/ generic /\ ~failed /\ failed' = TRUE /\ UNCHANGED <<loading, fade>>
       \/ (generic \/ gs \in {0, LoadingStarted})
          /\ fade' = ~fade /\ UNCHANGED <<loading, failed>>
    /\ UNCHANGED <<gs, skip, world, generic, m, calls>>
\* The game goes through its states: the menu, a load, the game.
GameMoves ==
    /\ Resting /\ ~generic
    /\ \/ gs = FrontendIdle /\ gs' \in {0, LoadingStarted} /\ UNCHANGED fade
       \/ gs = 0 /\ gs' = LoadingStarted /\ UNCHANGED fade
       \/ gs = LoadingStarted /\ gs' = GameplayIdle /\ fade' = FALSE
       \/ gs # FrontendIdle /\ gs' = FrontendIdle /\ fade' = FALSE
       \/ gs = GameplayIdle /\ gs' = 0 /\ UNCHANGED fade
    /\ world' = (world /\ gs' # FrontendIdle)
    /\ UNCHANGED <<loading, failed, skip, generic, m, calls>>
\* The intro is skipped; the player's ped comes and goes.
PlayerMoves ==
    /\ Resting /\ gs # FrontendIdle
    /\ \/ skip' = ~skip /\ UNCHANGED world
       \/ world' = ~world /\ UNCHANGED skip
    /\ UNCHANGED <<loading, failed, gs, fade, generic, m, calls>>

\* A clock passes its next threshold.
TimePasses(c) ==
    /\ Resting
    /\ m' = [m EXCEPT !.clock[c] = After(c, @)]
    /\ UNCHANGED <<engine, calls>>

\* The poll and the recovery never return: the thread's stack is used up and the
\* game starts anew.
Fresh ==
    [session |-> FALSE, kind |-> "Unknown", menuSeen |-> FALSE, clock |-> [c \in Clock |-> "never"],
     skipWas |-> FALSE, recovered |-> FALSE, kick |-> FALSE, nudge8 |-> FALSE, nudge9 |-> FALSE,
     prevLoading |-> FALSE, prevSettled |-> FALSE, prevGs |-> FrontendIdle]
Init ==
    /\ loading = FALSE /\ failed = FALSE /\ gs = FrontendIdle /\ fade = FALSE
    /\ skip = FALSE /\ world = FALSE /\ generic = FALSE
    /\ m = Fresh /\ calls = <<>>
StackOverflows ==
    /\ Len(calls) = MaxCalls
    /\ loading' = FALSE /\ failed' = FALSE /\ gs' = FrontendIdle /\ fade' = FALSE
    /\ skip' = FALSE /\ world' = FALSE /\ generic' = FALSE
    /\ m' = Fresh /\ calls' = <<>>

Step == Kick \/ KickAgain \/ ForceFade \/ Advance \/ PollReturns \/ HookReturns
Hook == MenuReadSave \/ LoadCommitted \/ NewGame \/ GenericLoadCalled \/ GenericLoadReturned
        \/ AfterSuccessLoad \/ InitAtStartOfGame \/ DeferredFade \/ FadeZero \/ TaskHook
        \/ FramePoll
Next == Step \/ Hook \/ EngineLoads \/ GameMoves \/ PlayerMoves \/ StackOverflows
        \/ \E c \in Clock : TimePasses(c)

Spec == Init /\ [][Next]_vars

-----------------------------------------------------------------------------
(* What the session promises.                                                 *)

\* The module's flags, its clocks and the calls under way are well formed.
TypeOK ==
    /\ {loading, failed, fade, skip, world, generic} \subseteq BOOLEAN /\ gs \in GameState
    /\ m \in Module /\ \A c \in Clock : m.clock[c] \in Stage(c)
    /\ calls \in Seq(Frame) /\ Len(calls) <= MaxCalls

\* A load is never nudged for the load before it: while GenericLoad runs, neither
\* a recovery nor a fade put off is remembered, so the module writes no game state
\* into a load (notify_menu_read_save_path forgets them, whatever hooks follow).
LoadIsNotNudged == generic => ~m.recovered /\ ~m.kick /\ ~m.nudge8 /\ ~m.nudge9
IInv == TypeOK /\ LoadIsNotNudged    \* it is inductive, given the types

\* The poll and the recovery call each other without end only about a load that is
\* no longer a menu load (its session ended, a new game began) or that has been
\* nudged already and fell back to game state 0: advance_post_load_after_recovery
\* polls, and the poll advances, on the recovery that nothing has forgotten.
EndlessCallsAreStale == Len(calls) = MaxCalls => ~MenuPath(m) \/ m.nudge8 \/ m.nudge9

\* Why it holds, whatever the depth. A kick nudges a menu load to state 8, unless it
\* has been, and its second and third polls come after it.
Past == ~MenuPath(m) \/ m.nudge8
RecoveryNudges == \A i \in DOMAIN calls : calls[i].at \in {"again", "advance"} => Past
\* A caller has made its choice: only the last call has its fade to look at.
CallersHaveChosen == \A i \in DOMAIN calls : i < Len(calls) => calls[i].at # "fade"
\* Else a nested poll has come from an advance, which nudged what it could: the poll
\* advances in turn only in a state 8 that was nudged before it and is no new edge.
AdvanceNudges ==
    Len(calls) > 1 /\ Top.at = "fade" /\ ~Past =>
        /\ Top.by = "poll" /\ Top.gs = gs
        /\ gs = 0 => m.clock.cleared \in {"never", "fresh"}
        /\ gs = LoadingStarted /\ m.clock.since8 = "ripe" => m.nudge9 /\ m.prevGs = LoadingStarted
DeepCallsAreStale == Len(calls) > 2 => Past \/ m.nudge9
StackInv == RecoveryNudges /\ CallersHaveChosen /\ AdvanceNudges /\ DeepCallsAreStale

\* A game that is being continued stays so until a poll ends its session or a new game
\* is asked for: none of the storage hooks that GenericLoad and its callers pass
\* through turns it into a menu load.
ContinueIsKept ==
    [][Resting /\ calls' = <<>> /\ m.kind = "Continue" => m'.kind = "Continue" \/ NewGame]_vars

=============================================================================
