--------------------------- MODULE ReportPipeline ---------------------------
(***************************************************************************)
(* How a crime becomes a dispatch case: incidents, witness election, the   *)
(* phone call driven through engine tasks, and the case the call opens.    *)
(* It composes IncidentStore, WitnessReportCoordinator, the report half of *)
(* CaseStore, and CivilianReportDriver, with the game engine as an         *)
(* environment that runs phone tasks, hurts, kills and removes peds.       *)
(*                                                                         *)
(* The mod runs on the game thread.  Between two frames the engine calls   *)
(* its hooks; in a frame, tick_active runs to its end and nested hooks see *)
(* a busy runtime and do nothing.  `stage` is the place reached in         *)
(* tick_active: hooks need stage = "idle".                                 *)
(***************************************************************************)
EXTENDS Naturals, Sequences, FiniteSets

CONSTANTS
    MaxIncidents,     \* bound: incidents ever opened (the code has none)
    MaxObservations,  \* bound: witness observations buffered in one frame
    Peds,             \* registered peds (PedIds) that may witness or report
    Cops,             \* those of them whose ped type is PedKind::Cop
    NoPed,            \* no reporter
    Percepts,         \* what a witness may perceive: [kind, saw, perp]
    Hits              \* the signals one damage hook may publish, as kind sets

CausalKind == {"PedCasualty", "PedInjury", "VehicleBurning", "FireOutbreak",
               "Explosion", "WeaponDischarge", "VehiclePropertyDamage"}

(* The kinds CEventGroup::Add delivers to the witness; the others are found
   by a geometric scan of the ped pool.                                    *)
NativeKind == CausalKind \ {"Explosion", "VehiclePropertyDamage"}

(* A perpetrator reference in an observation: none, an EntityRef with its
   pool generation, or an address alone (the pool lookup failed).          *)
PerpRef == {"none", "pooled", "address"}

ASSUME PipelineAssumption ==
    /\ MaxIncidents \in Nat
    /\ MaxObservations \in Nat
    /\ Cops \subseteq Peds
    /\ NoPed \notin Peds
    /\ Percepts \subseteq [kind : CausalKind, saw : BOOLEAN, perp : PerpRef]
    /\ Hits \subseteq SUBSET {"Explosion", "VehiclePropertyDamage"}

VARIABLES
    stage,          \* place in tick_active
    ped,            \* ped[p]: alive, dead (a corpse still in the pool), gone
    task,           \* engine: ped p's mobile-phone task
    incidents,      \* IncidentStore: a sequence; an incident's id is its place
    session,        \* WitnessReportCoordinator.sessions, by incident
    cases,          \* CaseStore: a sequence; a case's id is its place
    observations,   \* witness observations of this frame
    dispatched,     \* CivilianReportDriver.task_dispatched
    lastPhase       \* CivilianReportDriver.last_task_phase (None: no entry)

vars == <<stage, ped, task, incidents, session, cases, observations,
          dispatched, lastPhase>>

engineVars == <<ped, task>>
driverVars == <<dispatched, lastPhase>>

IncidentId == 1 .. MaxIncidents
Stage      == {"idle", "reporters", "cases", "exec", "assign", "track"}
ReportPhase == {"Approaching", "Dialing", "Active", "Ended"}
ReportTaskPhase == {"None", "Dialing", "Active", "Ending"}
Severity   == {"Normal", "High", "Interrupted"}
EndReason  == {"None", "TaskCompleted", "ReporterLost"}

Observation == [ped : Peds, kind : CausalKind, saw : BOOLEAN, perp : PerpRef,
                about : 0 .. MaxIncidents]
Clues    == [kinds : SUBSET CausalKind, perps : BOOLEAN, severity : Severity,
             partial : BOOLEAN]
Session  == [phase : ReportPhase \cup {"None"}, reporter : Peds \cup {NoPed},
             rank : 0 .. MaxIncidents, case : Nat,
             kind : CausalKind \cup {"None"}, perp : PerpRef,
             collected : Clues, reason : EndReason]
Case     == [incident : IncidentId, reporter : Peds, clues : Clues,
             severity : Severity, finalized : BOOLEAN,
             state : {"Idle", "Timing"}]

NoClues   == [kinds |-> {}, perps |-> FALSE, severity |-> "Normal",
              partial |-> FALSE]
NoSession == [phase |-> "None", reporter |-> NoPed, rank |-> 0, case |-> 0,
              kind |-> "None", perp |-> "none", collected |-> NoClues,
              reason |-> "None"]

Present(p) == ped[p] # "gone"
Live(p)    == ped[p] = "alive"

-----------------------------------------------------------------------------
(* Clues: what the caller conveyed, and how urgent that makes the case.    *)

HighPriority(c) ==
    \/ c.kinds \cap {"WeaponDischarge", "Explosion"} # {}
    \/ "PedCasualty" \in c.kinds /\ c.perps

RefreshSeverity(c) ==
    IF c.severity = "Interrupted" THEN c
    ELSE [c EXCEPT !.severity = IF HighPriority(c) THEN "High" ELSE "Normal"]

MarkInterrupted(c) == [c EXCEPT !.partial = TRUE, !.severity = "Interrupted"]

(* absorb_perceived and merge_perpetrators with what the session perceived. *)
Absorb(s) == [s.collected EXCEPT !.kinds = @ \cup {s.kind},
                                 !.perps = @ \/ s.perp # "none"]

SeedFromSession(s) ==
    RefreshSeverity(IF s.phase = "Active" THEN s.collected ELSE Absorb(s))

-----------------------------------------------------------------------------
(* Lookups over the sessions vector.  A session's rank is its place in the
   vector's order of creation; the code's finds return the first match.    *)

IsOpen(s) == s.phase \in {"Approaching", "Dialing", "Active"}

SessionsOf(ss, p) == {i \in IncidentId : ss[i].phase # "None" /\ ss[i].reporter = p}

(* Operators named Mutant... break the one they precede the way a slip in
   its code would, to show which property notices; nothing else uses them.
   Here: the reporter's last session is served.                            *)
MutantFirstOf(ss, S) == CHOOSE i \in S : \A j \in S : ss[j].rank <= ss[i].rank

FirstOf(ss, S) == CHOOSE i \in S : \A j \in S : ss[i].rank <= ss[j].rank

HasOpenFirst(ss, p) ==
    /\ SessionsOf(ss, p) # {}
    /\ IsOpen(ss[FirstOf(ss, SessionsOf(ss, p))])

ActiveSessions(ss) == {i \in IncidentId : ss[i].phase = "Active"}

HasCase(cs, i) == \E c \in DOMAIN cs : cs[c].incident = i

(* CaseStore::open_from_report and ::finalize_report.                      *)
MutantNewCase(i, p, clues) ==   \* the case does not know its incident
    [incident |-> 0, reporter |-> p, clues |-> clues,
     severity |-> clues.severity, finalized |-> FALSE, state |-> "Idle"]

NewCase(i, p, clues) ==
    [incident |-> i, reporter |-> p, clues |-> clues,
     severity |-> clues.severity, finalized |-> FALSE, state |-> "Idle"]

MutantFinalize(c, clues) ==     \* a partial report is not finalized
    [c EXCEPT !.clues = clues, !.severity = clues.severity,
              !.finalized = ~clues.partial]

Finalize(c, clues) ==
    [c EXCEPT !.clues = clues, !.severity = clues.severity, !.finalized = TRUE]

-----------------------------------------------------------------------------
(* WitnessReportCoordinator's handlers.  A desk is the pair of the sessions
   and the cases; a handler maps the desk it is called on to the one it
   leaves.  Each serves the reporter's first session.                      *)

(* on_report_task_dialing *)
OnDialing(d, p) ==
    LET S == SessionsOf(d.session, p)
        i == FirstOf(d.session, S)
    IN  IF S # {} /\ d.session[i].phase = "Approaching"
        THEN [d EXCEPT !.session[i].phase = "Dialing"]
        ELSE d

(* on_report_task_active: the case opens, with the clues known so far.     *)
OnActive(d, p) ==
    LET i     == FirstOf(d.session, SessionsOf(d.session, p))
        clues == Absorb(d.session[i])
    IN  IF HasOpenFirst(d.session, p)
        THEN [session |-> [d.session EXCEPT ![i].phase = "Active",
                                            ![i].collected = clues,
                                            ![i].case = Len(d.cases) + 1],
              cases   |-> Append(d.cases, NewCase(i, p, clues))]
        ELSE d

(* on_report_task_ended and finish_session(TaskCompleted)                  *)
MutantOnEnded(d, p) ==          \* the session ends, its case is forgotten
    LET i == FirstOf(d.session, SessionsOf(d.session, p))
    IN  IF HasOpenFirst(d.session, p)
        THEN [d EXCEPT !.session[i].phase = "Ended",
                       !.session[i].reason = "TaskCompleted"]
        ELSE d

OnEnded(d, p) ==
    LET i == FirstOf(d.session, SessionsOf(d.session, p))
        s == d.session[i]
    IN  IF HasOpenFirst(d.session, p)
        THEN [session |-> [d.session EXCEPT ![i].phase = "Ended",
                                            ![i].reason = "TaskCompleted"],
              cases   |-> IF s.case = 0 THEN d.cases
                          ELSE [d.cases EXCEPT
                                  ![s.case] = Finalize(@, s.collected)]]
        ELSE d

(* on_reporter_interrupted (on_reporter_panic is the same): what the caller
   perceived is escalated, in a case of its own when the call had opened
   none, and the session is finished with ReporterLost.                    *)
MutantOnInterrupted(d, p) ==    \* no open_case_if_needed
    LET i     == FirstOf(d.session, SessionsOf(d.session, p))
        s     == d.session[i]
        clues == MarkInterrupted(SeedFromSession(s))
    IN  IF HasOpenFirst(d.session, p)
        THEN [session |-> [d.session EXCEPT ![i].phase = "Ended",
                                            ![i].collected = clues,
                                            ![i].reason = "ReporterLost"],
              cases   |-> IF s.case = 0 THEN d.cases
                          ELSE [d.cases EXCEPT ![s.case] = Finalize(@, clues)]]
        ELSE d

OnInterrupted(d, p) ==
    LET i     == FirstOf(d.session, SessionsOf(d.session, p))
        s     == d.session[i]
        clues == MarkInterrupted(SeedFromSession(s))
        c     == IF s.case = 0 THEN Len(d.cases) + 1 ELSE s.case
    IN  IF HasOpenFirst(d.session, p)
        THEN [session |-> [d.session EXCEPT ![i].phase = "Ended",
                                            ![i].collected = clues,
                                            ![i].case = c,
                                            ![i].reason = "ReporterLost"],
              cases   |-> IF s.case = 0
                          THEN Append(d.cases, Finalize(NewCase(i, p, clues), clues))
                          ELSE [d.cases EXCEPT ![c] = Finalize(@, clues)]]
        ELSE d

(* on_causal_signal on incident i's session.  The signal names its entities
   by address; HashSet::contains finds such a reference only among the
   session's address-only ones, never among those that carry a pool
   generation, since the generation is part of the hash.                   *)
MutantOnCausalSignal(d, i, kinds, samePerp) ==  \* the call may be over
    LET s     == d.session[i]
        clues == RefreshSeverity(s.collected)
    IN  IF s.case # 0 /\ s.kind \in kinds /\ samePerp /\ s.perp = "address"
        THEN [session |-> [d.session EXCEPT ![i].collected = clues],
              cases   |-> [d.cases EXCEPT ![s.case].clues = clues]]
        ELSE d

OnCausalSignal(d, i, kinds, samePerp) ==
    LET s     == d.session[i]
        clues == RefreshSeverity(s.collected)
    IN  IF /\ s.phase = "Active"
           /\ s.kind \in kinds
           /\ samePerp
           /\ s.perp = "address"
        THEN [session |-> [d.session EXCEPT ![i].collected = clues],
              cases   |-> [d.cases EXCEPT ![s.case].clues = clues]]
        ELSE d

Desk == [session |-> session, cases |-> cases]
SetDesk(d) == session' = d.session /\ cases' = d.cases

-----------------------------------------------------------------------------
(* Signals.  publish_signal correlates with a known incident (one of the
   signal's entities is indexed), else with the incident of the first report
   on the line, else opens an incident.  The signals of one hook share their
   entities, so they reach the same incident.                              *)

Correlate(d, known) ==
    IF known # 0 THEN known
    ELSE IF ActiveSessions(d.session) # {}
         THEN FirstOf(d.session, ActiveSessions(d.session))
         ELSE Len(incidents) + 1

Ingest(i, kinds) ==
    IF i > Len(incidents) THEN Append(incidents, [kinds |-> kinds, exhausted |-> FALSE])
    ELSE [incidents EXCEPT ![i].kinds = @ \cup kinds]

Publish(d, kinds) ==
    \E known \in 0 .. Len(incidents), samePerp \in BOOLEAN :
        LET i == Correlate(d, known)
        IN  /\ i <= MaxIncidents
            /\ incidents' = Ingest(i, kinds)
            /\ SetDesk(OnCausalSignal(d, i, kinds, samePerp))

(* interrupt_ped_action: a ped without a phone task is left alone.         *)
InterruptPedAction(p) ==
    IF task[p] # "none" THEN OnInterrupted(Desk, p) ELSE Desk

-----------------------------------------------------------------------------
(* Hooks, between frames and with the gate open.                           *)

(* detour_generate_damage_event and detour_vehicle_inflict_damage, where no
   caller is hit.                                                          *)
DamageHit ==
    /\ stage = "idle"
    /\ \E kinds \in Hits : Publish(Desk, kinds)
    /\ UNCHANGED <<stage, engineVars, observations, driverVars>>

(* detour_generate_damage_event on a civilian with a phone task: the call is
   aborted and escalated; an explosive weapon also publishes its signal.   *)
DamageCaller(p) ==
    /\ stage = "idle"
    /\ p \notin Cops
    /\ Live(p)
    /\ task[p] # "none"
    /\ task' = [task EXCEPT ![p] = "none"]
    /\ \/ SetDesk(OnInterrupted(Desk, p)) /\ UNCHANGED incidents
       \/ {"Explosion"} \in Hits /\ Publish(OnInterrupted(Desk, p), {"Explosion"})
    /\ UNCHANGED <<stage, ped, observations, driverVars>>

(* detour_register_kill: interrupt the victim's call, publish the casualty,
   then the engine marks the ped dead.                                     *)
RegisterKill(p) ==
    /\ stage = "idle"
    /\ Live(p)
    /\ ped' = [ped EXCEPT ![p] = "dead"]
    /\ task' = [task EXCEPT ![p] = "none"]
    /\ Publish(InterruptPedAction(p), {"PedCasualty"})
    /\ UNCHANGED <<stage, observations, driverVars>>

(* detour_population_remove_ped: release_ped interrupts the report before
   the registry forgets the ped.                                           *)
RemovePed(p) ==
    /\ stage = "idle"
    /\ Present(p)
    /\ ped' = [ped EXCEPT ![p] = "gone"]
    /\ task' = [task EXCEPT ![p] = "none"]
    /\ SetDesk(OnInterrupted(Desk, p))
    /\ UNCHANGED <<stage, incidents, observations, driverVars>>

(* The same engine events when the hook does nothing: the gate is shut, or
   the call came from inside tick_execution and with_runtime refused it.   *)
Unhooked == stage = "idle" \/ (stage = "exec" /\ cases # <<>>)

LosePed(p) ==
    /\ Unhooked
    /\ \/ Live(p) /\ ped' = [ped EXCEPT ![p] = "dead"]
       \/ Present(p) /\ ped' = [ped EXCEPT ![p] = "gone"]
    /\ task' = [task EXCEPT ![p] = "none"]
    /\ UNCHANGED <<stage, incidents, session, cases, observations, driverVars>>

-----------------------------------------------------------------------------
(* The engine's CTaskComplexUseMobilePhone: phone_in, phone_talk, phone_out,
   then nothing; phone_out may outlive the complex task ("tail").          *)

PhoneTask == {"none", "in", "talk", "out", "tail"}

PhoneAdvance(p) ==
    /\ stage = "idle"
    /\ \/ task[p] = "in" /\ task' = [task EXCEPT ![p] = "talk"]
       \/ task[p] = "talk" /\ task' = [task EXCEPT ![p] = "out"]
       \/ task[p] = "out" /\ task' = [task EXCEPT ![p] = "tail"]
       \/ task[p] \in {"out", "tail"} /\ task' = [task EXCEPT ![p] = "none"]
    /\ UNCHANGED <<stage, ped, incidents, session, cases, observations, driverVars>>

(* Another response of the ped replaces the phone task before it is over.  *)
PhoneAbandon(p) ==
    /\ stage = "idle"
    /\ task[p] \in {"in", "talk"}
    /\ task' = [task EXCEPT ![p] = "none"]
    /\ UNCHANGED <<stage, ped, incidents, session, cases, observations, driverVars>>

(* poll_report_task_phase: the complex task hides phone_out.               *)
PollReportTaskPhase(p) ==
    CASE task[p] = "talk"            -> "Active"
      [] task[p] \in {"in", "out"}   -> "Dialing"
      [] task[p] = "tail"            -> "Ending"
      [] task[p] = "none"            -> "None"

-----------------------------------------------------------------------------
(* Election of the reporter.                                               *)

(* clue_score > 0: the witness perceived a kind or an entity of incident i. *)
Overlaps(i, o) == o.kind \in incidents[i].kinds \/ o.about = i

(* elect_reporter: among the overlapping observations, one who saw before
   one who heard; distance, not modelled, breaks the tie.                  *)
Best(i) ==
    {o \in observations :
        /\ Overlaps(i, o)
        /\ \A x \in observations : Overlaps(i, x) /\ x.saw => o.saw}

MutantWarrantsReport(i) ==      \* reporting_exhausted is not looked at
    ~IsOpen(session[i]) /\ ~HasCase(cases, i) /\ Best(i) # {}

WarrantsReport(i) ==
    /\ ~IsOpen(session[i])
    /\ ~HasCase(cases, i)
    /\ ~incidents[i].exhausted
    /\ Best(i) # {}

(* What may be observed in a frame: native events of a ped in the pool,
   unless the entity's incident has a case (should_collect_witness_
   observation), and geometric hits of a live ped.  Observations that
   overlap no unreported incident are dropped unread, so they are left out.
   (The geometric scans come after the stores' ticks; a case these open bars
   a report of its incident all the same.)                                 *)
MayObserve ==
    {o \in [ped : Peds, kind : {k.kind : k \in Percepts}, saw : BOOLEAN,
            perp : PerpRef, about : 0 .. Len(incidents)] :
        /\ [kind |-> o.kind, saw |-> o.saw, perp |-> o.perp] \in Percepts
        /\ IF o.kind \in NativeKind
           THEN Present(o.ped) /\ (o.about = 0 \/ ~HasCase(cases, o.about))
           ELSE Live(o.ped)
        /\ \E i \in DOMAIN incidents : ~incidents[i].exhausted /\ Overlaps(i, o)}

-----------------------------------------------------------------------------
(* tick_active, in the order of its calls.                                 *)

(* drain_pending_native_events and drain_pending_geometry                  *)
DrainEvents ==
    /\ stage = "idle"
    /\ \E O \in SUBSET MayObserve :
          /\ Cardinality(O) <= MaxObservations
          /\ observations' = O
    /\ stage' = "reporters"
    /\ UNCHANGED <<engineVars, incidents, session, cases, driverVars>>

(* WitnessReportCoordinator::tick: interrupt the open sessions whose
   reporter is not alive, one by one, then drop the ended sessions.        *)
MutantLostReporters ==          \* a corpse still counts as a live caller
    {p \in Peds : ~Present(p) /\ HasOpenFirst(session, p)}

LostReporters == {p \in Peds : ~Live(p) /\ HasOpenFirst(session, p)}

ReporterLost(p) ==
    /\ stage = "reporters"
    /\ p \in LostReporters
    /\ SetDesk(OnInterrupted(Desk, p))
    /\ UNCHANGED <<stage, engineVars, incidents, observations, driverVars>>

RetainOpen ==
    /\ stage = "reporters"
    /\ LostReporters = {}
    /\ session' = [i \in IncidentId |->
                      IF session[i].phase = "Ended" THEN NoSession ELSE session[i]]
    /\ stage' = "cases"
    /\ UNCHANGED <<engineVars, incidents, cases, observations, driverVars>>

(* CaseStore::tick: a case whose report is closed starts its timer.        *)
CasesTick ==
    /\ stage = "cases"
    /\ cases' = [c \in DOMAIN cases |->
                    IF cases[c].state = "Idle" /\ cases[c].finalized
                    THEN [cases[c] EXCEPT !.state = "Timing"]
                    ELSE cases[c]]
    /\ stage' = "exec"
    /\ UNCHANGED <<engineVars, incidents, session, observations, driverVars>>

(* try_civilian_reports: every incident that warrants it gets a session and
   is exhausted; the observations are cleared.                             *)
StartReports ==
    /\ stage = "exec"
    /\ LET E == {i \in DOMAIN incidents : WarrantsReport(i)}
           before == Cardinality({i \in DOMAIN incidents : incidents[i].exhausted})
       IN  \E elected \in [E -> observations] :
             /\ \A i \in E : elected[i] \in Best(i)
             /\ session' = [i \in IncidentId |->
                    IF i \in E
                    THEN [NoSession EXCEPT
                            !.phase = "Approaching",
                            !.reporter = elected[i].ped,
                            !.rank = before + Cardinality({j \in E : j <= i}),
                            !.kind = elected[i].kind,
                            !.perp = elected[i].perp]
                    ELSE session[i]]
             /\ incidents' = [i \in DOMAIN incidents |->
                    IF i \in E THEN [incidents[i] EXCEPT !.exhausted = TRUE]
                    ELSE incidents[i]]
    /\ observations' = {}
    /\ stage' = "assign"
    /\ UNCHANGED <<engineVars, cases, driverVars>>

(* CivilianReportDriver::dispatch_pending_tasks: a cop reports by radio at
   once; a civilian gets the engine's mobile-phone task.                   *)
Pending == {p \in Peds \ dispatched :
              \E i \in SessionsOf(session, p) : session[i].phase = "Approaching"}

ReportByRadio(p) ==
    /\ stage = "assign"
    /\ p \in Pending \cap Cops
    /\ Present(p)
    /\ dispatched' = dispatched \cup {p}
    /\ SetDesk(OnActive(OnDialing(Desk, p), p))
    /\ UNCHANGED <<stage, engineVars, incidents, observations, lastPhase>>

AssignMobilePhone(p) ==
    /\ stage = "assign"
    /\ p \in Pending \ Cops
    /\ Live(p)
    /\ dispatched' = dispatched \cup {p}
    /\ task' = [task EXCEPT ![p] = "in"]
    /\ UNCHANGED <<stage, ped, incidents, session, cases, observations, lastPhase>>

(* A civilian who could not be given the task is tried again next frame.   *)
Assigned ==
    /\ stage = "assign"
    /\ \A p \in Pending \cap Cops : ~Present(p)
    /\ stage' = "track"
    /\ UNCHANGED <<engineVars, incidents, session, cases, observations, driverVars>>

(* CivilianReportDriver::track_open_sessions: a reporter out of the pool is
   a panic; otherwise only a changed task phase is acted on, and a cop's
   never is.                                                               *)
Tracked == {p \in Peds : \E i \in SessionsOf(session, p) : IsOpen(session[i])}

TrackMissing(p) ==
    /\ stage = "track"
    /\ p \in Tracked
    /\ ~Present(p)
    /\ HasOpenFirst(session, p)
    /\ SetDesk(OnInterrupted(Desk, p))
    /\ dispatched' = dispatched \ {p}
    /\ lastPhase' = [lastPhase EXCEPT ![p] = "None"]
    /\ UNCHANGED <<stage, engineVars, incidents, observations>>

PhaseChanged(p) == p \in Tracked /\ Present(p) /\ PollReportTaskPhase(p) # lastPhase[p]

TrackPhase(p) ==
    /\ stage = "track"
    /\ PhaseChanged(p)
    /\ LET phase == PollReportTaskPhase(p) IN
          /\ lastPhase' = [lastPhase EXCEPT ![p] = phase]
          /\ SetDesk(CASE p \in Cops          -> Desk
                      [] p \notin Cops /\ phase = "Dialing" -> OnDialing(Desk, p)
                      [] p \notin Cops /\ phase = "Active"  -> OnActive(Desk, p)
                      [] p \notin Cops /\ phase = "Ending"  -> OnEnded(Desk, p)
                      [] p \notin Cops /\ phase = "None"    ->
                           IF p \in dispatched THEN OnEnded(Desk, p) ELSE Desk)
          /\ dispatched' = IF p \notin Cops /\ phase = "None"
                           THEN dispatched \ {p} ELSE dispatched
    /\ UNCHANGED <<stage, engineVars, incidents, observations>>

(* The end of the driver's tick forgets the peds that are not alive.       *)
MutantEndFrame ==               \* every phase is forgotten
    /\ stage = "track"
    /\ \A p \in Tracked : IF Present(p) THEN ~PhaseChanged(p)
                          ELSE ~HasOpenFirst(session, p)
    /\ dispatched' = {p \in dispatched : Live(p)}
    /\ lastPhase' = [p \in Peds |-> "None"]
    /\ stage' = "idle"
    /\ UNCHANGED <<engineVars, incidents, session, cases, observations>>

EndFrame ==
    /\ stage = "track"
    /\ \A p \in Tracked : IF Present(p) THEN ~PhaseChanged(p)
                          ELSE ~HasOpenFirst(session, p)
    /\ dispatched' = {p \in dispatched : Live(p)}
    /\ lastPhase' = [p \in Peds |-> IF Live(p) THEN lastPhase[p] ELSE "None"]
    /\ stage' = "idle"
    /\ UNCHANGED <<engineVars, incidents, session, cases, observations>>

-----------------------------------------------------------------------------
Init ==
    /\ stage = "idle"
    /\ ped = [p \in Peds |-> "alive"]
    /\ task = [p \in Peds |-> "none"]
    /\ incidents = <<>>
    /\ session = [i \in IncidentId |-> NoSession]
    /\ cases = <<>>
    /\ observations = {}
    /\ dispatched = {}
    /\ lastPhase = [p \in Peds |-> "None"]

Frame ==
    \/ DrainEvents
    \/ \E p \in Peds : ReporterLost(p)
    \/ RetainOpen
    \/ CasesTick
    \/ StartReports
    \/ \E p \in Peds : ReportByRadio(p)
    \/ \E p \in Peds : AssignMobilePhone(p)
    \/ Assigned
    \/ \E p \in Peds : TrackMissing(p)
    \/ \E p \in Peds : TrackPhase(p)
    \/ EndFrame

Engine ==
    \/ DamageHit
    \/ \E p \in Peds : DamageCaller(p)
    \/ \E p \in Peds : RegisterKill(p)
    \/ \E p \in Peds : RemovePed(p)
    \/ \E p \in Peds : LosePed(p)
    \/ \E p \in Peds : PhoneAdvance(p)
    \/ \E p \in Peds : PhoneAbandon(p)

Next == Frame \/ Engine

Spec == Init /\ [][Next]_vars

(* The game calls TheScripts::Process, hence frame_tick, on every frame, and
   runs the phone task it was given to its end; a caller who is asked again
   and again takes the task once. The phone moves between frames only and the
   task is assigned in one stage of them, hence SF.                        *)
Fairness ==
    /\ WF_vars(Frame)
    /\ \A p \in Peds \ Cops : SF_vars(PhoneAdvance(p)) /\ SF_vars(AssignMobilePhone(p))

FairSpec == Spec /\ Fairness

-----------------------------------------------------------------------------
(* Properties.                                                             *)

(* Every variable has its type; a session's case has been opened.          *)
TypeOK ==
    /\ stage \in Stage
    /\ ped \in [Peds -> {"alive", "dead", "gone"}]
    /\ task \in [Peds -> PhoneTask]
    /\ incidents \in Seq([kinds : SUBSET CausalKind, exhausted : BOOLEAN])
    /\ Len(incidents) <= MaxIncidents
    /\ session \in [IncidentId -> Session]
    /\ \A i \in IncidentId : session[i].case <= Len(cases)
    /\ cases \in Seq(Case)
    /\ observations \subseteq Observation
    /\ dispatched \subseteq Peds
    /\ lastPhase \in [Peds -> ReportTaskPhase]

(* A case waits for its caller only while the caller is on the line: every
   case that is not finalized belongs to the Active session of its incident.
   (A case left behind would stay Idle for ever: CaseStore::tick waits for
   report_finalized and nothing but a session finalizes.)                  *)
NoOrphanCase ==
    \A c \in DOMAIN cases :
        ~cases[c].finalized =>
            LET s == session[cases[c].incident]
            IN  s.phase = "Active" /\ s.case = c

(* A session knows the case of its own incident, the one its call opened.
   While the call is on the line the case is not finalized, once the call
   is over it is, and a lost caller always leaves a case.                  *)
CallAndCaseAgree ==
    \A i \in IncidentId :
        LET s == session[i] IN
        /\ s.phase = "Active" => s.case # 0
        /\ s.case # 0 =>
              /\ s.phase \in {"Active", "Ended"}
              /\ cases[s.case].incident = i
              /\ cases[s.case].finalized <=> s.phase = "Ended"
        /\ s.reason = "ReporterLost" =>
              /\ s.case # 0
              /\ cases[s.case].severity = "Interrupted"

(* What the proofs need besides: a session has the reporter and the kind of
   crime it was elected for, and only an ended one has lost its reporter.   *)
SessionsAreWhole ==
    \A i \in IncidentId :
        LET s == session[i] IN
        /\ s.phase # "None" => s.reporter \in Peds /\ s.kind \in CausalKind
        /\ s.reason = "ReporterLost" => s.phase = "Ended"

IInv == TypeOK /\ SessionsAreWhole /\ CallAndCaseAgree

(* The two places that guard against a second case for one incident, the
   exhausted flag and has_case_for_incident, leave no gap between them:
   however calls are lost, resumed or shared by one reporter, an incident
   has at most one case.                                                   *)
OneCasePerIncident ==
    \A c, d \in DOMAIN cases : cases[c].incident = cases[d].incident => c = d

(* One reporter can hold one line: when a ped reports several incidents its
   sessions are served in turn, and a later one is not dialled before the
   earlier one is over.                                                    *)
OneCallPerReporter ==
    \A i, j \in IncidentId :
        /\ session[i].phase \in {"Dialing", "Active"}
        /\ session[j].phase \in {"Dialing", "Active"}
        /\ session[i].reporter = session[j].reporter
        => i = j

(* The second inductive invariant. Sessions are ranked by the order in which    *)
(* they were opened, and a reporter's are served in that order: one that has    *)
(* been dialled, or is over, is the first of its reporter.                       *)
SessionsInTurn ==
    \A i, j \in IncidentId :
        session[i].phase # "None" /\ session[j].phase # "None" /\ i # j =>
            /\ session[i].rank # session[j].rank
            /\ session[i].reporter = session[j].reporter /\ session[i].phase # "Approaching"
                  => session[i].rank < session[j].rank

(* A report is about an incident that is exhausted by it, a case about one that *)
(* was opened.                                                                  *)
Exhausted(inc) == {i \in DOMAIN inc : inc[i].exhausted}
ReportsAreKnown ==
    /\ \A i \in IncidentId : session[i].phase # "None" =>
          i \in Exhausted(incidents) /\ session[i].rank <= Cardinality(Exhausted(incidents))
    /\ \A c \in DOMAIN cases : cases[c].incident \in DOMAIN incidents

(* An incident whose call has opened no case has none, and a timer runs only    *)
(* for a case that is complete.                                                 *)
CasesInTurn ==
    /\ \A i \in IncidentId :
          IsOpen(session[i]) /\ session[i].case = 0 => ~HasCase(cases, i)
    /\ \A c \in DOMAIN cases : cases[c].state = "Timing" => cases[c].finalized

(* What the driver remembers of a ped keeps it from reporting a call twice: a   *)
(* phone task is one it has assigned, and while a call is on the line its       *)
(* reporter is marked dispatched (or lost, to be found so in the next frame)    *)
(* and does not go from dialling to talking again.                              *)
DriverRemembers ==
    /\ \A p \in Peds : task[p] # "none" => Live(p) /\ p \in dispatched
    /\ \A i \in ActiveSessions(session) :
          LET p == session[i].reporter IN
          /\ p \in dispatched \/ (stage \in {"idle", "reporters"} /\ ~Live(p))
          /\ p \notin Cops => /\ task[p] # "in"
                              /\ task[p] = "talk" => lastPhase[p] = "Active"

ReportInv ==
    /\ SessionsInTurn /\ ReportsAreKnown /\ NoOrphanCase /\ OneCasePerIncident
    /\ CasesInTurn /\ DriverRemembers

(* A closed report is a record: no later signal, caller or session changes
   what a finalized case says.                                             *)
FinalizedCaseIsFrozen ==
    [][\A c \in DOMAIN cases :
          cases[c].finalized =>
              /\ c \in DOMAIN cases'
              /\ [cases'[c] EXCEPT !.state = cases[c].state] = cases[c]]_vars

(* IncidentReporting, with an incident's status read off the stores.       *)
Status(i) ==
    LET ofIncident == {c \in DOMAIN cases : cases[c].incident = i}
    IN  CASE i \notin DOMAIN incidents -> "unknown"
          [] i \in DOMAIN incidents /\ ofIncident # {} ->
                IF \E c \in ofIncident : cases[c].state = "Timing" THEN "dispatching"
                ELSE IF \E c \in ofIncident : cases[c].finalized THEN "closed"
                ELSE "onCall"
          [] i \in DOMAIN incidents /\ ofIncident = {} ->
                IF IsOpen(session[i]) THEN "claimed"
                ELSE IF incidents[i].exhausted THEN "dropped"
                ELSE "known"

Reporting == INSTANCE IncidentReporting
             WITH Incident <- IncidentId, status <- [i \in IncidentId |-> Status(i)]

(* The pipeline implements IncidentReporting.                              *)
ImplementsReporting == Reporting!Spec

(* Under FairSpec a civilian's report on an incident, whatever becomes of its
   caller and of the cops about, does not stay open: the coordinator drops the
   session in the end, and a case it opened reaches its dispatch timer.    *)
CivilianReportRunsItsCourse ==
    \A i \in IncidentId :
        LET ByCivilian == {c \in DOMAIN cases :
                              cases[c].incident = i /\ cases[c].reporter \notin Cops}
            AllTimed == \A c \in ByCivilian : cases[c].state = "Timing"
            Calling == IsOpen(session[i]) /\ session[i].reporter \notin Cops
        IN Calling \/ ~AllTimed ~> ~Calling /\ AllTimed

=============================================================================
