----------------------- MODULE ReportPipeline_proofs -----------------------
(***************************************************************************)
(* Theorems about ReportPipeline, for all values of its constants.         *)
(***************************************************************************)
EXTENDS ReportPipeline, FiniteSetTheorems, WellFoundedInduction, TLAPS

-----------------------------------------------------------------------------
(* Lookups.                                                                *)

(* The find of session_mut_reporter and of active_incident returns one of
   the sessions it was asked for, and none of them was created before it.  *)
LEMMA FirstOfIsFirst ==
    ASSUME NEW ss \in [IncidentId -> Session],
           NEW S \in SUBSET IncidentId, S # {}
    PROVE  /\ FirstOf(ss, S) \in S
           /\ \A j \in S : ss[FirstOf(ss, S)].rank <= ss[j].rank
<1> DEFINE Ranks == {ss[i].rank : i \in S}
<1>1. Ranks \subseteq Nat /\ Ranks # {}
  <2>1. \A i \in S : ss[i] \in Session
    OBVIOUS
  <2>2. \A s \in Session : s.rank \in 0 .. MaxIncidents
    BY DEF Session
  <2>3. 0 .. MaxIncidents \subseteq Nat
    BY PipelineAssumption
  <2> QED  BY <2>1, <2>2, <2>3
<1>2. PICK m \in Ranks : \A n \in Ranks : <<n, m>> \notin OpToRel(<, Nat)
  <2> HIDE DEF Ranks
  <2> QED  BY <1>1, NatLessThanWellFounded, WFMin
<1>3. ASSUME NEW n \in Ranks PROVE m <= n
  <2>1. <<n, m>> \in Nat \X Nat
    BY <1>1
  <2>2. ~(n < m)
    BY <2>1, <1>2 DEF OpToRel
  <2>3. m \in Nat /\ n \in Nat
    BY <1>1
  <2> QED  BY <2>2, <2>3
<1>4. PICK i \in S : ss[i].rank = m
  OBVIOUS
<1>5. \A j \in S : ss[i].rank <= ss[j].rank
  BY <1>3, <1>4
<1> QED  BY <1>4, <1>5 DEF FirstOf

-----------------------------------------------------------------------------
(* Clues and cases keep their types.                                       *)

(* What a caller conveyed stays well formed, and a call marked interrupted
   stays interrupted, as refresh_severity "does not downgrade Interrupted". *)
LEMMA CluesTypes ==
    /\ \A c \in Clues : /\ RefreshSeverity(c) \in Clues
                        /\ MarkInterrupted(c) \in Clues
                        /\ MarkInterrupted(c).severity = "Interrupted"
                        /\ c.severity = "Interrupted" => RefreshSeverity(c) = c
    /\ \A s \in Session : s.kind \in CausalKind =>
                          Absorb(s) \in Clues /\ SeedFromSession(s) \in Clues
<1>1. \A c \in Clues : RefreshSeverity(c) \in Clues
  BY DEF RefreshSeverity, Clues, Severity
<1>2. \A c \in Clues : /\ MarkInterrupted(c) \in Clues
                       /\ MarkInterrupted(c).severity = "Interrupted"
  BY DEF MarkInterrupted, Clues, Severity
<1>3. \A s \in Session : s.collected \in Clues /\ s.perp \in PerpRef
  BY DEF Session
<1>4. ASSUME NEW s \in Session, s.kind \in CausalKind PROVE Absorb(s) \in Clues
  BY <1>3, <1>4 DEF Absorb, Clues
<1>5. ASSUME NEW s \in Session, s.kind \in CausalKind
      PROVE  SeedFromSession(s) \in Clues
  BY <1>1, <1>3, <1>4, <1>5 DEF SeedFromSession
<1> QED  BY <1>1, <1>2, <1>4, <1>5 DEF RefreshSeverity

(* A session that is given another phase, clues, case or reason is a session. *)
Rewritten(s, ph, cl, n, r) ==
    [s EXCEPT !.phase = ph, !.collected = cl, !.case = n, !.reason = r]

(* The fields of a session have their types, one fact a proof step can cite. *)
LEMMA SessionTypes ==
    ASSUME NEW s \in Session, NEW ph \in ReportPhase, NEW cl \in Clues,
           NEW n \in Nat, NEW r \in EndReason
    PROVE  /\ Rewritten(s, ph, cl, n, r) \in Session
           /\ Rewritten(s, ph, cl, n, r).phase = ph
           /\ Rewritten(s, ph, cl, n, r).collected = cl
           /\ Rewritten(s, ph, cl, n, r).case = n
           /\ Rewritten(s, ph, cl, n, r).reason = r
           /\ Rewritten(s, ph, cl, n, r).reporter = s.reporter
           /\ Rewritten(s, ph, cl, n, r).kind = s.kind
BY DEF Session, Rewritten

(* open_from_report yields an open case of its incident.                   *)
LEMMA NewCaseTypes ==
    ASSUME NEW i \in IncidentId, NEW p \in Peds, NEW cl \in Clues
    PROVE  /\ NewCase(i, p, cl) \in Case
           /\ NewCase(i, p, cl).incident = i
           /\ NewCase(i, p, cl).severity = cl.severity
           /\ ~NewCase(i, p, cl).finalized
<1>1. cl.severity \in Severity
  BY DEF Clues
<1> QED  BY <1>1 DEF NewCase, Case

(* finalize_report closes a case with the urgency of its last clues.       *)
LEMMA FinalizeTypes ==
    ASSUME NEW c \in Case, NEW cl \in Clues
    PROVE  /\ Finalize(c, cl) \in Case
           /\ Finalize(c, cl).incident = c.incident
           /\ Finalize(c, cl).severity = cl.severity
           /\ Finalize(c, cl).finalized
<1>1. cl.severity \in Severity
  BY DEF Clues
<1> QED  BY <1>1 DEF Finalize, Case

-----------------------------------------------------------------------------
(* The handlers preserve the desk: IInv's conjuncts on the sessions and the
   cases, for one session s of incident i and for a whole desk d.          *)

SessionOK(i, s, cs) ==
    /\ s \in Session
    /\ s.case <= Len(cs)
    /\ s.phase # "None" => s.reporter \in Peds /\ s.kind \in CausalKind
    /\ s.phase = "Active" => s.case # 0
    /\ s.case # 0 =>
          /\ s.phase \in {"Active", "Ended"}
          /\ cs[s.case].incident = i
          /\ cs[s.case].finalized <=> s.phase = "Ended"
    /\ s.reason = "ReporterLost" =>
          /\ s.phase = "Ended"
          /\ s.case # 0
          /\ cs[s.case].severity = "Interrupted"

DeskOK(d) ==
    /\ d \in [session : [IncidentId -> Session], cases : Seq(Case)]
    /\ \A i \in IncidentId : SessionOK(i, d.session[i], d.cases)

(* A handler that replaces the session of one incident and touches only the
   cases of that incident leaves every other session as sound as it was.   *)
LEMMA OneSessionChanges ==
    ASSUME NEW d, DeskOK(d), NEW i \in IncidentId, NEW s, NEW cs \in Seq(Case),
           Len(d.cases) <= Len(cs),
           \A c \in DOMAIN d.cases : d.cases[c].incident # i => cs[c] = d.cases[c],
           SessionOK(i, s, cs)
    PROVE  DeskOK([session |-> [d.session EXCEPT ![i] = s], cases |-> cs])
<1> DEFINE e == [session |-> [d.session EXCEPT ![i] = s], cases |-> cs]
<1>1. e \in [session : [IncidentId -> Session], cases : Seq(Case)]
  BY DEF DeskOK, SessionOK
<1>2. ASSUME NEW j \in IncidentId, j # i
      PROVE  SessionOK(j, d.session[j], cs)
  <2>1. SessionOK(j, d.session[j], d.cases)
    BY DEF DeskOK
  <2>2. d.session[j].case \in Nat
    BY <2>1 DEF SessionOK, Session
  <2>3. Len(d.cases) \in Nat /\ Len(cs) \in Nat /\ DOMAIN d.cases = 1 .. Len(d.cases)
    BY DEF DeskOK
  <2>4. CASE d.session[j].case = 0
    BY <2>1, <2>2, <2>3, <2>4 DEF SessionOK
  <2>5. CASE d.session[j].case # 0
    <3>1. d.session[j].case \in DOMAIN d.cases
      BY <2>1, <2>2, <2>3, <2>5 DEF SessionOK
    <3>2. cs[d.session[j].case] = d.cases[d.session[j].case]
      BY <2>1, <2>5, <3>1, <1>2 DEF SessionOK
    <3> QED  BY <2>1, <2>2, <2>3, <3>2 DEF SessionOK
  <2> QED  BY <2>4, <2>5
<1>3. \A j \in IncidentId : SessionOK(j, e.session[j], cs)
  BY <1>2 DEF DeskOK
<1> QED  BY <1>1, <1>3 DEF DeskOK

(* The first session of a ped that has one.                                *)
LEMMA FirstSession ==
    ASSUME NEW d, DeskOK(d), NEW p \in Peds, SessionsOf(d.session, p) # {}
    PROVE  LET i == FirstOf(d.session, SessionsOf(d.session, p))
           IN  i \in IncidentId /\ d.session[i].reporter = p /\ d.session[i].phase # "None"
<1>1. SessionsOf(d.session, p) \subseteq IncidentId
  BY DEF SessionsOf
<1>2. FirstOf(d.session, SessionsOf(d.session, p)) \in SessionsOf(d.session, p)
  BY <1>1, FirstOfIsFirst DEF DeskOK
<1> QED  BY <1>2 DEF SessionsOf

(* on_report_task_dialing moves one session to Dialing and touches no case. *)
LEMMA OnDialingKeepsDesk ==
    ASSUME NEW d, DeskOK(d), NEW p \in Peds
    PROVE  DeskOK(OnDialing(d, p))
<1> DEFINE i == FirstOf(d.session, SessionsOf(d.session, p))
           s == [d.session[i] EXCEPT !.phase = "Dialing"]
<1>1. CASE SessionsOf(d.session, p) # {} /\ d.session[i].phase = "Approaching"
  <2>1. i \in IncidentId /\ SessionOK(i, d.session[i], d.cases)
    BY <1>1, FirstSession DEF DeskOK
  <2>2. SessionOK(i, s, d.cases)
    BY <1>1, <2>1 DEF SessionOK, Session, ReportPhase
  <2> HIDE DEF i
  <2>3. d.cases \in Seq(Case) /\ Len(d.cases) \in Nat
    BY DEF DeskOK
  <2>4. DeskOK([session |-> [d.session EXCEPT ![i] = s], cases |-> d.cases])
    BY <2>1, <2>2, <2>3, OneSessionChanges
  <2>5. OnDialing(d, p) = [d EXCEPT !.session[i].phase = "Dialing"]
    BY <1>1 DEF OnDialing, i
  <2>6. [d EXCEPT !.session[i].phase = "Dialing"]
          = [session |-> [d.session EXCEPT ![i] = s], cases |-> d.cases]
    BY <2>1 DEF DeskOK
  <2> QED  BY <2>4, <2>5, <2>6
<1>2. CASE ~(SessionsOf(d.session, p) # {} /\ d.session[i].phase = "Approaching")
  BY <1>2 DEF OnDialing
<1> QED  BY <1>1, <1>2

(* A session that goes Active with the case it appends agrees with it.     *)
LEMMA CallGoesActive ==
    ASSUME NEW d, DeskOK(d), NEW i \in IncidentId, IsOpen(d.session[i]),
           NEW p \in Peds, NEW cl \in Clues
    PROVE  DeskOK([session |-> [d.session EXCEPT ![i].phase = "Active",
                                                 ![i].collected = cl,
                                                 ![i].case = Len(d.cases) + 1],
                   cases   |-> Append(d.cases, NewCase(i, p, cl))])
<1> DEFINE c == NewCase(i, p, cl)
           n == Len(d.cases) + 1
           cs == Append(d.cases, c)
           t == Rewritten(d.session[i], "Active", cl, n, d.session[i].reason)
<1>1. /\ d.session \in [IncidentId -> Session]
      /\ d.cases \in Seq(Case)
      /\ Len(d.cases) \in Nat
      /\ SessionOK(i, d.session[i], d.cases)
  BY DEF DeskOK
<1>2. /\ d.session[i] \in Session
      /\ d.session[i].reporter \in Peds
      /\ d.session[i].kind \in CausalKind
      /\ d.session[i].reason # "ReporterLost"
  BY <1>1 DEF SessionOK, IsOpen
<1>3. c \in Case /\ c.incident = i /\ ~c.finalized
  BY NewCaseTypes
<1> HIDE DEF c
<1>4. /\ cs \in Seq(Case) /\ Len(cs) = n /\ cs[n] = c
      /\ \A k \in DOMAIN d.cases : cs[k] = d.cases[k]
  BY <1>1, <1>3
<1>5. n \in Nat /\ n # 0 /\ Len(d.cases) <= n
  BY <1>1
<1> HIDE DEF n, cs
<1>6. "Active" \in ReportPhase /\ d.session[i].reason \in EndReason
  BY <1>2 DEF ReportPhase, Session
<1>7. /\ t \in Session
      /\ t.phase = "Active" /\ t.case = n /\ t.reason = d.session[i].reason
      /\ t.reporter = d.session[i].reporter /\ t.kind = d.session[i].kind
  BY <1>2, <1>5, <1>6, SessionTypes
<1>8. [d.session EXCEPT ![i].phase = "Active", ![i].collected = cl, ![i].case = n]
        = [d.session EXCEPT ![i] = t]
  BY <1>1, <1>2 DEF Session, Rewritten
<1> HIDE DEF t
<1>9. SessionOK(i, t, cs)
  BY <1>2, <1>3, <1>4, <1>5, <1>7 DEF SessionOK
<1>10. DeskOK([session |-> [d.session EXCEPT ![i] = t], cases |-> cs])
  BY <1>1, <1>4, <1>5, <1>9, OneSessionChanges
<1> QED  BY <1>8, <1>10 DEF n, cs, c

(* on_report_task_active leaves the sessions and the cases in agreement.   *)
LEMMA OnActiveKeepsDesk ==
    ASSUME NEW d, DeskOK(d), NEW p \in Peds
    PROVE  DeskOK(OnActive(d, p))
<1>1. CASE HasOpenFirst(d.session, p)
  <2> DEFINE i == FirstOf(d.session, SessionsOf(d.session, p))
  <2>1. i \in IncidentId /\ IsOpen(d.session[i])
    BY <1>1, FirstSession DEF HasOpenFirst
  <2>2. SessionOK(i, d.session[i], d.cases)
    BY <2>1 DEF DeskOK
  <2>3. d.session[i] \in Session /\ d.session[i].kind \in CausalKind
    BY <2>1, <2>2 DEF SessionOK, IsOpen
  <2>4. Absorb(d.session[i]) \in Clues
    BY <2>3, CluesTypes
  <2> QED  BY <1>1, <2>1, <2>4, CallGoesActive DEF OnActive
<1>2. CASE ~HasOpenFirst(d.session, p)
  BY <1>2 DEF OnActive
<1> QED  BY <1>1, <1>2

(* finish_session, with the cases cs it leaves and n the session's case.   *)
LEMMA CallEnds ==
    ASSUME NEW d, DeskOK(d), NEW i \in IncidentId, IsOpen(d.session[i]),
           NEW cl \in Clues, NEW n \in Nat, NEW r \in EndReason,
           NEW cs \in Seq(Case), Len(d.cases) <= Len(cs), n <= Len(cs),
           \A c \in DOMAIN d.cases : d.cases[c].incident # i => cs[c] = d.cases[c],
           n # 0 => cs[n].incident = i /\ cs[n].finalized,
           r = "ReporterLost" => n # 0 /\ cs[n].severity = "Interrupted"
    PROVE  DeskOK([session |-> [d.session EXCEPT
                                  ![i] = Rewritten(d.session[i], "Ended", cl, n, r)],
                   cases   |-> cs])
<1> DEFINE t == Rewritten(d.session[i], "Ended", cl, n, r)
<1>1. SessionOK(i, d.session[i], d.cases)
  BY DEF DeskOK
<1>2. /\ d.session[i] \in Session
      /\ d.session[i].reporter \in Peds
      /\ d.session[i].kind \in CausalKind
  BY <1>1 DEF SessionOK, IsOpen
<1>3. "Ended" \in ReportPhase
  BY DEF ReportPhase
<1>4. /\ t \in Session
      /\ t.phase = "Ended" /\ t.case = n /\ t.reason = r
      /\ t.reporter = d.session[i].reporter /\ t.kind = d.session[i].kind
  BY <1>2, <1>3, SessionTypes
<1> HIDE DEF t
<1>5. SessionOK(i, t, cs)
  BY <1>2, <1>4 DEF SessionOK
<1>6. DeskOK([session |-> [d.session EXCEPT ![i] = t], cases |-> cs])
  BY <1>5, OneSessionChanges
<1> QED  BY <1>6 DEF t

(* The case of a session's own call, finalized: the other cases stay.      *)
LEMMA FinalizeOwnCase ==
    ASSUME NEW d, DeskOK(d), NEW i \in IncidentId, d.session[i].case # 0,
           NEW cl \in Clues
    PROVE  LET n  == d.session[i].case
               cs == [d.cases EXCEPT ![n] = Finalize(@, cl)]
           IN  /\ n \in Nat /\ n <= Len(cs) /\ Len(d.cases) <= Len(cs)
               /\ cs \in Seq(Case)
               /\ cs[n].incident = i /\ cs[n].finalized /\ cs[n].severity = cl.severity
               /\ \A c \in DOMAIN d.cases :
                     d.cases[c].incident # i => cs[c] = d.cases[c]
<1> DEFINE n  == d.session[i].case
           f  == Finalize(d.cases[n], cl)
           cs == [d.cases EXCEPT ![n] = f]
<1>1. /\ n \in Nat /\ n <= Len(d.cases)
      /\ d.cases[n].incident = i
      /\ d.cases \in Seq(Case)
      /\ Len(d.cases) \in Nat
  BY DEF DeskOK, SessionOK, Session
<1>2. n \in DOMAIN d.cases /\ n \in 1 .. Len(d.cases)
  BY <1>1
<1>3. d.cases[n] \in Case
  BY <1>1, <1>2
<1>4. f \in Case /\ f.incident = i /\ f.finalized /\ f.severity = cl.severity
  BY <1>1, <1>3, FinalizeTypes
<1> HIDE DEF f
<1>5. cs \in Seq(Case) /\ Len(cs) = Len(d.cases) /\ cs[n] = f
  BY <1>1, <1>2, <1>4
<1>6. \A c \in DOMAIN d.cases : d.cases[c].incident # i => cs[c] = d.cases[c]
  BY <1>1, <1>2
<1> QED  BY <1>1, <1>4, <1>5, <1>6 DEF f

(* on_report_task_ended finalizes the case of the session it ends.         *)
LEMMA OnEndedKeepsDesk ==
    ASSUME NEW d, DeskOK(d), NEW p \in Peds
    PROVE  DeskOK(OnEnded(d, p))
<1>1. CASE HasOpenFirst(d.session, p)
  <2> DEFINE i == FirstOf(d.session, SessionsOf(d.session, p))
  <2>1. i \in IncidentId /\ IsOpen(d.session[i])
    BY <1>1, FirstSession DEF HasOpenFirst
  <2> DEFINE s  == d.session[i]
             cs == IF s.case = 0 THEN d.cases
                   ELSE [d.cases EXCEPT ![s.case] = Finalize(@, s.collected)]
             t  == Rewritten(s, "Ended", s.collected, s.case, "TaskCompleted")
  <2>2. OnEnded(d, p) = [session |-> [d.session EXCEPT ![i].phase = "Ended",
                                                       ![i].reason = "TaskCompleted"],
                         cases |-> cs]
    BY <1>1 DEF OnEnded
  <2> HIDE DEF i
  <2>3. /\ s \in Session /\ s.collected \in Clues /\ s.case \in Nat
        /\ d.session \in [IncidentId -> Session]
        /\ d.cases \in Seq(Case) /\ Len(d.cases) \in Nat
    BY <2>1 DEF DeskOK, Session
  <2>4. [d.session EXCEPT ![i].phase = "Ended", ![i].reason = "TaskCompleted"]
          = [d.session EXCEPT ![i] = t]
    BY <2>1, <2>3 DEF Session, Rewritten
  <2>5. /\ s.case <= Len(cs) /\ Len(d.cases) <= Len(cs) /\ cs \in Seq(Case)
        /\ s.case # 0 => cs[s.case].incident = i /\ cs[s.case].finalized
        /\ \A c \in DOMAIN d.cases : d.cases[c].incident # i => cs[c] = d.cases[c]
    <3>1. CASE s.case = 0
      BY <2>3, <3>1
    <3>2. CASE s.case # 0
      BY <2>1, <2>3, <3>2, FinalizeOwnCase
    <3> QED  BY <3>1, <3>2
  <2> HIDE DEF cs
  <2>6. "TaskCompleted" \in EndReason /\ "TaskCompleted" # "ReporterLost"
    BY DEF EndReason
  <2>7. DeskOK([session |-> [d.session EXCEPT ![i] = t], cases |-> cs])
    BY <2>1, <2>3, <2>5, <2>6, CallEnds
  <2> QED  BY <2>2, <2>4, <2>7
<1>2. CASE ~HasOpenFirst(d.session, p)
  BY <1>2 DEF OnEnded
<1> QED  BY <1>1, <1>2

(* on_reporter_interrupted leaves the lost caller's session a closed case. *)
LEMMA OnInterruptedKeepsDesk ==
    ASSUME NEW d, DeskOK(d), NEW p \in Peds
    PROVE  DeskOK(OnInterrupted(d, p))
<1>1. CASE HasOpenFirst(d.session, p)
  <2> DEFINE i == FirstOf(d.session, SessionsOf(d.session, p))
  <2>1. i \in IncidentId /\ IsOpen(d.session[i])
    BY <1>1, FirstSession DEF HasOpenFirst
  <2> DEFINE s  == d.session[i]
             cl == MarkInterrupted(SeedFromSession(s))
             n  == IF s.case = 0 THEN Len(d.cases) + 1 ELSE s.case
             cs == IF s.case = 0
                   THEN Append(d.cases, Finalize(NewCase(i, p, cl), cl))
                   ELSE [d.cases EXCEPT ![n] = Finalize(@, cl)]
             t  == Rewritten(s, "Ended", cl, n, "ReporterLost")
  <2>2. OnInterrupted(d, p) = [session |-> [d.session EXCEPT ![i].phase = "Ended",
                                                             ![i].collected = cl,
                                                             ![i].case = n,
                                                             ![i].reason = "ReporterLost"],
                               cases |-> cs]
    BY <1>1 DEF OnInterrupted
  <2> HIDE DEF i
  <2>3. /\ s \in Session /\ s.kind \in CausalKind /\ s.case \in Nat
        /\ d.session \in [IncidentId -> Session]
        /\ d.cases \in Seq(Case) /\ Len(d.cases) \in Nat
    BY <2>1 DEF DeskOK, SessionOK, Session, IsOpen
  <2>4. cl \in Clues /\ cl.severity = "Interrupted"
    BY <2>3, CluesTypes
  <2> HIDE DEF cl
  <2>5. [d.session EXCEPT ![i].phase = "Ended", ![i].collected = cl,
                          ![i].case = n, ![i].reason = "ReporterLost"]
          = [d.session EXCEPT ![i] = t]
    BY <2>1, <2>3 DEF Session, Rewritten
  <2>6. /\ n \in Nat /\ n # 0 /\ n <= Len(cs)
        /\ Len(d.cases) <= Len(cs) /\ cs \in Seq(Case)
        /\ cs[n].incident = i /\ cs[n].finalized /\ cs[n].severity = cl.severity
        /\ \A c \in DOMAIN d.cases : d.cases[c].incident # i => cs[c] = d.cases[c]
    <3>1. CASE s.case = 0
      <4> DEFINE new == Finalize(NewCase(i, p, cl), cl)
      <4>1. /\ new \in Case /\ new.incident = i
            /\ new.finalized /\ new.severity = cl.severity
        BY <2>1, <2>4, NewCaseTypes, FinalizeTypes
      <4> HIDE DEF new
      <4>2. cs = Append(d.cases, new) /\ n = Len(d.cases) + 1
        BY <3>1 DEF new
      <4> HIDE DEF cs, n
      <4> QED  BY <2>3, <4>1, <4>2
    <3>2. CASE s.case # 0
      BY <2>1, <2>3, <2>4, <3>2, FinalizeOwnCase
    <3> QED  BY <3>1, <3>2
  <2> HIDE DEF cs, n
  <2>7. "ReporterLost" \in EndReason
    BY DEF EndReason
  <2>8. DeskOK([session |-> [d.session EXCEPT ![i] = t], cases |-> cs])
    BY <2>1, <2>3, <2>4, <2>6, <2>7, CallEnds
  <2> QED  BY <2>2, <2>5, <2>8
<1>2. CASE ~HasOpenFirst(d.session, p)
  BY <1>2 DEF OnInterrupted
<1> QED  BY <1>1, <1>2

(* on_causal_signal rewrites the clues of the case on the line, no more.   *)
LEMMA OnCausalSignalKeepsDesk ==
    ASSUME NEW d, DeskOK(d), NEW i \in IncidentId, NEW kinds, NEW same \in BOOLEAN
    PROVE  DeskOK(OnCausalSignal(d, i, kinds, same))
<1> DEFINE s  == d.session[i]
           cl == RefreshSeverity(s.collected)
           cs == [d.cases EXCEPT ![s.case].clues = cl]
           t  == Rewritten(s, s.phase, cl, s.case, s.reason)
<1>1. /\ SessionOK(i, s, d.cases)
      /\ s \in Session
      /\ s.collected \in Clues
      /\ s.case \in Nat
      /\ s.reason \in EndReason
      /\ d.session \in [IncidentId -> Session]
      /\ d.cases \in Seq(Case) /\ Len(d.cases) \in Nat
  BY DEF DeskOK, SessionOK, Session
<1>2. CASE s.phase = "Active"
  <2>1. cl \in Clues
    BY <1>1, CluesTypes
  <2> HIDE DEF cl
  <2>2. s.case \in 1 .. Len(d.cases) /\ s.case \in DOMAIN d.cases
    BY <1>1, <1>2 DEF SessionOK
  <2>3. d.cases[s.case] \in Case
    BY <1>1, <2>2
  <2>4. /\ [d.cases[s.case] EXCEPT !.clues = cl] \in Case
        /\ [d.cases[s.case] EXCEPT !.clues = cl].incident = d.cases[s.case].incident
        /\ [d.cases[s.case] EXCEPT !.clues = cl].severity = d.cases[s.case].severity
    BY <2>1, <2>3 DEF Case
  <2>5. [d.cases[s.case] EXCEPT !.clues = cl].finalized <=> d.cases[s.case].finalized
    BY <2>3 DEF Case
  <2>6. /\ cs \in Seq(Case) /\ Len(cs) = Len(d.cases)
        /\ cs[s.case] = [d.cases[s.case] EXCEPT !.clues = cl]
        /\ \A c \in DOMAIN d.cases : d.cases[c].incident # i => cs[c] = d.cases[c]
    BY <1>1, <1>2, <2>2, <2>4 DEF SessionOK
  <2> HIDE DEF cs
  <2>7. "Active" \in ReportPhase
    BY DEF ReportPhase
  <2>8. /\ t \in Session /\ t.phase = "Active" /\ t.case = s.case /\ t.reason = s.reason
        /\ t.reporter = s.reporter /\ t.kind = s.kind
    BY <1>1, <1>2, <2>1, <2>7, SessionTypes
  <2>9. [d.session EXCEPT ![i].collected = cl] = [d.session EXCEPT ![i] = t]
    BY <1>1 DEF Session, Rewritten
  <2> HIDE DEF t
  <2>10. SessionOK(i, t, cs)
    BY <1>1, <1>2, <2>4, <2>5, <2>6, <2>8 DEF SessionOK
  <2>11. DeskOK([session |-> [d.session EXCEPT ![i] = t], cases |-> cs])
    BY <1>1, <2>6, <2>10, OneSessionChanges
  <2> QED  BY <2>9, <2>11 DEF OnCausalSignal, cl, cs
<1>3. CASE s.phase # "Active"
  BY <1>3 DEF OnCausalSignal
<1> QED  BY <1>2, <1>3

-----------------------------------------------------------------------------
(* The invariant, as the desk and the rest of the state.                   *)

Incident == [kinds : SUBSET CausalKind, exhausted : BOOLEAN]

RestOK ==
    /\ stage \in Stage
    /\ ped \in [Peds -> {"alive", "dead", "gone"}]
    /\ task \in [Peds -> PhoneTask]
    /\ incidents \in Seq(Incident)
    /\ Len(incidents) <= MaxIncidents
    /\ observations \subseteq Observation
    /\ dispatched \subseteq Peds
    /\ lastPhase \in [Peds -> ReportTaskPhase]

(* The invariant as facts about the desk, the form the lemmas above use,   *)
(* and the rest of the type invariant.                                     *)
LEMMA IInvParts ==
    ASSUME IInv
    PROVE  RestOK /\ DeskOK(Desk)
<1>1. RestOK
  BY DEF IInv, TypeOK, RestOK, Incident
<1>2. Desk \in [session : [IncidentId -> Session], cases : Seq(Case)]
  BY DEF IInv, TypeOK, Desk
<1>3. ASSUME NEW i \in IncidentId PROVE SessionOK(i, session[i], cases)
  BY DEF IInv, TypeOK, SessionsAreWhole, CallAndCaseAgree, SessionOK
<1> QED  BY <1>1, <1>2, <1>3 DEF DeskOK, Desk

(* The same facts, together again, are the invariant in the next state.    *)
LEMMA IInvWhole ==
    ASSUME RestOK', NEW d, DeskOK(d), SetDesk(d)
    PROVE  IInv'
<1>1. /\ session' \in [IncidentId -> Session]
      /\ cases' \in Seq(Case)
      /\ \A i \in IncidentId : SessionOK(i, session'[i], cases')
  BY DEF SetDesk, DeskOK
<1>2. TypeOK'
  BY <1>1 DEF TypeOK, RestOK, Incident, SessionOK
<1>3. SessionsAreWhole'
  BY <1>1 DEF SessionsAreWhole, SessionOK
<1>4. CallAndCaseAgree'
  BY <1>1 DEF CallAndCaseAgree, SessionOK
<1> QED  BY <1>2, <1>3, <1>4 DEF IInv

(* The world starts with no session, no incident and no case.                   *)
THEOREM InitIInv == Init => IInv
<1> SUFFICES ASSUME Init PROVE IInv
  OBVIOUS
<1> USE DEF Init
<1>1. NoSession \in Session
  BY PipelineAssumption DEF NoSession, Session, NoClues, Clues, Severity, PerpRef, EndReason
<1>2. /\ incidents \in Seq([kinds : SUBSET CausalKind, exhausted : BOOLEAN])
      /\ Len(incidents) <= MaxIncidents
      /\ cases \in Seq(Case)
      /\ Len(cases) = 0
  BY PipelineAssumption
<1>3. NoSession.case = 0 /\ NoSession.phase = "None" /\ NoSession.reason = "None"
  BY DEF NoSession
<1>4. session \in [IncidentId -> Session] /\ \A i \in IncidentId : session[i].case <= Len(cases)
  BY <1>1, <1>2, <1>3
<1>5. TypeOK
  BY <1>2, <1>4 DEF TypeOK, Stage, PhoneTask, ReportTaskPhase
<1>6. SessionsAreWhole /\ CallAndCaseAgree
  BY <1>3 DEF SessionsAreWhole, CallAndCaseAgree
<1> QED  BY <1>5, <1>6 DEF IInv

-----------------------------------------------------------------------------
(* Signals and hooks.                                                      *)

(* publish_signal, correlated or not, keeps the invariant.                 *)
LEMMA PublishKeepsIInv ==
    ASSUME IInv, NEW d, DeskOK(d), NEW kinds \in SUBSET CausalKind, Publish(d, kinds)
    PROVE  /\ incidents' \in Seq(Incident) /\ Len(incidents') <= MaxIncidents
           /\ \E e : DeskOK(e) /\ SetDesk(e)
<1>1. /\ incidents \in Seq(Incident)
      /\ Len(incidents) \in Nat
      /\ Len(incidents) <= MaxIncidents
      /\ MaxIncidents \in Nat
  BY IInvParts, PipelineAssumption DEF RestOK
<1>2. PICK known \in 0 .. Len(incidents), same \in BOOLEAN :
        LET i == Correlate(d, known)
        IN  /\ i <= MaxIncidents
            /\ incidents' = Ingest(i, kinds)
            /\ SetDesk(OnCausalSignal(d, i, kinds, same))
  BY DEF Publish
<1> DEFINE i == Correlate(d, known)
<1>3. i \in IncidentId
  <2>1. CASE known # 0
    BY <1>1, <1>2, <2>1 DEF Correlate, IncidentId
  <2>2. CASE known = 0 /\ ActiveSessions(d.session) # {}
    <3>1. ActiveSessions(d.session) \subseteq IncidentId
      BY DEF ActiveSessions
    <3>2. FirstOf(d.session, ActiveSessions(d.session)) \in IncidentId
      BY <2>2, <3>1, FirstOfIsFirst DEF DeskOK
    <3> QED  BY <2>2, <3>2 DEF Correlate
  <2>3. CASE known = 0 /\ ActiveSessions(d.session) = {}
    BY <1>1, <1>2, <2>3 DEF Correlate, IncidentId
  <2> QED  BY <2>1, <2>2, <2>3
<1> HIDE DEF i
<1>4. DeskOK(OnCausalSignal(d, i, kinds, same)) /\ SetDesk(OnCausalSignal(d, i, kinds, same))
  BY <1>2, <1>3, OnCausalSignalKeepsDesk DEF i
<1>5. i \in Nat /\ i >= 1 /\ i <= MaxIncidents
  BY <1>1, <1>3 DEF IncidentId
<1>6. CASE i > Len(incidents)
  <2>1. [kinds |-> kinds, exhausted |-> FALSE] \in Incident
    BY DEF Incident
  <2>2. incidents' = Append(incidents, [kinds |-> kinds, exhausted |-> FALSE])
    BY <1>2, <1>6 DEF i, Ingest
  <2>3. incidents' \in Seq(Incident) /\ Len(incidents') = Len(incidents) + 1
    BY <1>1, <2>1, <2>2
  <2> QED  BY <1>1, <1>4, <1>5, <1>6, <2>3
<1>7. CASE ~(i > Len(incidents))
  <2>1. i \in DOMAIN incidents /\ i \in 1 .. Len(incidents)
    BY <1>1, <1>5, <1>7
  <2>2. incidents[i] \in Incident
    BY <1>1, <2>1
  <2>3. [incidents[i] EXCEPT !.kinds = @ \cup kinds] \in Incident
    BY <2>2 DEF Incident
  <2>4. incidents' = [incidents EXCEPT ![i] = [incidents[i] EXCEPT !.kinds = @ \cup kinds]]
    BY <1>2, <1>7, <2>1 DEF i, Ingest
  <2>5. incidents' \in Seq(Incident) /\ Len(incidents') = Len(incidents)
    BY <1>1, <2>1, <2>3, <2>4
  <2> QED  BY <1>1, <1>4, <2>5
<1> QED  BY <1>6, <1>7

(* Every hook leaves a sound desk, whatever ped it is called for.          *)
LEMMA EngineKeepsIInv ==
    ASSUME IInv, Engine
    PROVE  IInv'
<1>1. RestOK /\ DeskOK(Desk)
  BY IInvParts
<1>2. \A p \in Peds : task[p] \in PhoneTask /\ ped[p] \in {"alive", "dead", "gone"}
  BY <1>1 DEF RestOK
<1>3. /\ \A p \in Peds : DeskOK(OnInterrupted(Desk, p)) /\ DeskOK(InterruptPedAction(p))
      /\ {"Explosion"} \in SUBSET CausalKind /\ {"PedCasualty"} \in SUBSET CausalKind
      /\ \A kinds \in Hits : kinds \in SUBSET CausalKind
  BY <1>1, OnInterruptedKeepsDesk, PipelineAssumption DEF InterruptPedAction, CausalKind
<1>4. /\ \A p \in Peds : [task EXCEPT ![p] = "none"] \in [Peds -> PhoneTask]
      /\ \A p \in Peds : [ped EXCEPT ![p] = "dead"] \in [Peds -> {"alive", "dead", "gone"}]
      /\ \A p \in Peds : [ped EXCEPT ![p] = "gone"] \in [Peds -> {"alive", "dead", "gone"}]
  BY <1>1 DEF RestOK, PhoneTask
<1>5. CASE DamageHit
  <2>1. PICK kinds \in Hits : Publish(Desk, kinds)
    BY <1>5 DEF DamageHit
  <2>2. PICK e : DeskOK(e) /\ SetDesk(e)
    BY <1>1, <1>3, <2>1, PublishKeepsIInv
  <2>3. RestOK'
    BY <1>1, <1>3, <1>5, <2>1, PublishKeepsIInv DEF DamageHit, RestOK, engineVars, driverVars
  <2> QED  BY <2>2, <2>3, IInvWhole
<1>6. ASSUME NEW p \in Peds, DamageCaller(p) PROVE IInv'
  <2>1. CASE SetDesk(OnInterrupted(Desk, p)) /\ UNCHANGED incidents
    <3>1. RestOK'
      BY <1>1, <1>4, <1>6, <2>1 DEF DamageCaller, RestOK, driverVars
    <3> QED  BY <1>3, <2>1, <3>1, IInvWhole
  <2>2. CASE Publish(OnInterrupted(Desk, p), {"Explosion"})
    <3>1. PICK e : DeskOK(e) /\ SetDesk(e)
      BY <1>3, <2>2, PublishKeepsIInv
    <3>2. RestOK'
      BY <1>1, <1>3, <1>4, <1>6, <2>2, PublishKeepsIInv DEF DamageCaller, RestOK, driverVars
    <3> QED  BY <3>1, <3>2, IInvWhole
  <2> QED  BY <1>6, <2>1, <2>2 DEF DamageCaller
<1>7. ASSUME NEW p \in Peds, RegisterKill(p) PROVE IInv'
  <2>1. Publish(InterruptPedAction(p), {"PedCasualty"})
    BY <1>7 DEF RegisterKill
  <2>2. PICK e : DeskOK(e) /\ SetDesk(e)
    BY <1>3, <2>1, PublishKeepsIInv
  <2>3. RestOK'
    BY <1>1, <1>3, <1>4, <1>7, <2>1, PublishKeepsIInv DEF RegisterKill, RestOK, driverVars
  <2> QED  BY <2>2, <2>3, IInvWhole
<1>8. ASSUME NEW p \in Peds, RemovePed(p) PROVE IInv'
  <2>1. RestOK'
    BY <1>1, <1>4, <1>8 DEF RemovePed, RestOK, driverVars
  <2> QED  BY <1>3, <1>8, <2>1, IInvWhole DEF RemovePed
<1>9. ASSUME RestOK', UNCHANGED <<session, cases>> PROVE IInv'
  BY <1>1, <1>9, IInvWhole DEF Desk, SetDesk
<1>10. ASSUME NEW p \in Peds, LosePed(p) PROVE IInv'
  <2>1. RestOK'
    BY <1>1, <1>4, <1>10 DEF LosePed, RestOK, driverVars
  <2> QED  BY <1>9, <1>10, <2>1 DEF LosePed
<1>11. ASSUME NEW p \in Peds, PhoneAdvance(p) PROVE IInv'
  <2>1. RestOK'
    BY <1>1, <1>11 DEF PhoneAdvance, RestOK, driverVars, PhoneTask
  <2> QED  BY <1>9, <1>11, <2>1 DEF PhoneAdvance
<1>12. ASSUME NEW p \in Peds, PhoneAbandon(p) PROVE IInv'
  <2>1. RestOK'
    BY <1>1, <1>4, <1>12 DEF PhoneAbandon, RestOK, driverVars
  <2> QED  BY <1>9, <1>12, <2>1 DEF PhoneAbandon
<1> QED  BY <1>5, <1>6, <1>7, <1>8, <1>10, <1>11, <1>12 DEF Engine

-----------------------------------------------------------------------------
(* The frame.                                                              *)

(* Dropping the ended sessions leaves a sound desk.                        *)
LEMMA RetainOpenKeepsIInv ==
    ASSUME IInv, RetainOpen
    PROVE  IInv'
<1> DEFINE ss == [i \in IncidentId |->
                    IF session[i].phase = "Ended" THEN NoSession ELSE session[i]]
           e  == [session |-> ss, cases |-> cases]
<1>1. RestOK /\ DeskOK(Desk)
  BY IInvParts
<1>2. NoSession \in Session
  BY PipelineAssumption DEF NoSession, Session, NoClues, Clues, Severity, PerpRef, EndReason
<1>3. NoSession.case = 0 /\ NoSession.phase = "None" /\ NoSession.reason = "None"
  BY DEF NoSession
<1>4. cases \in Seq(Case) /\ Len(cases) \in Nat
  BY <1>1 DEF DeskOK, Desk
<1>5. \A i \in IncidentId : SessionOK(i, session[i], cases)
  BY <1>1 DEF DeskOK, Desk
<1>6. \A i \in IncidentId : SessionOK(i, NoSession, cases)
  BY <1>2, <1>3, <1>4 DEF SessionOK
<1>7. \A i \in IncidentId : ss[i] \in Session /\ SessionOK(i, ss[i], cases)
  BY <1>5, <1>6 DEF SessionOK
<1>8. DeskOK(e)
  BY <1>4, <1>7 DEF DeskOK
<1>9. SetDesk(e)
  BY DEF RetainOpen, SetDesk
<1>10. RestOK'
  BY <1>1 DEF RetainOpen, RestOK, Stage, engineVars, driverVars
<1> QED  BY <1>8, <1>9, <1>10, IInvWhole

(* CaseStore::tick touches neither a case's incident nor what it says.     *)
LEMMA CasesTickKeepsIInv ==
    ASSUME IInv, CasesTick
    PROVE  IInv'
<1> DEFINE cs == [c \in DOMAIN cases |->
                    IF cases[c].state = "Idle" /\ cases[c].finalized
                    THEN [cases[c] EXCEPT !.state = "Timing"]
                    ELSE cases[c]]
           e  == [session |-> session, cases |-> cs]
<1>1. RestOK /\ DeskOK(Desk)
  BY IInvParts
<1>2. cases \in Seq(Case) /\ Len(cases) \in Nat /\ DOMAIN cases = 1 .. Len(cases)
  BY <1>1 DEF DeskOK, Desk
<1>3. ASSUME NEW c \in DOMAIN cases
      PROVE  /\ cs[c] \in Case
             /\ cs[c].incident = cases[c].incident
             /\ cs[c].severity = cases[c].severity
             /\ cs[c].finalized <=> cases[c].finalized
  <2>1. cases[c] \in Case
    BY <1>2
  <2>2. CASE cases[c].state = "Idle" /\ cases[c].finalized
    BY <2>1, <2>2 DEF Case
  <2>3. CASE ~(cases[c].state = "Idle" /\ cases[c].finalized)
    BY <2>1, <2>3
  <2> QED  BY <2>2, <2>3
<1>4. DOMAIN cs = 1 .. Len(cases)
  BY <1>2
<1> HIDE DEF cs
<1>5. cs \in Seq(Case) /\ Len(cs) = Len(cases)
  <2>1. cs \in [1 .. Len(cases) -> Case]
    BY <1>2, <1>3, <1>4 DEF cs
  <2> QED  BY <1>2, <2>1
<1>6. ASSUME NEW i \in IncidentId PROVE SessionOK(i, session[i], cs)
  <2>1. SessionOK(i, session[i], cases)
    BY <1>1 DEF DeskOK, Desk
  <2>2. CASE session[i].case = 0
    BY <1>5, <2>1, <2>2 DEF SessionOK
  <2>3. CASE session[i].case # 0
    <3>1. session[i].case \in DOMAIN cases
      BY <1>2, <2>1, <2>3 DEF SessionOK, Session
    <3> QED  BY <1>3, <1>5, <2>1, <2>3, <3>1 DEF SessionOK
  <2> QED  BY <2>2, <2>3
<1>7. DeskOK(e)
  BY <1>1, <1>5, <1>6 DEF DeskOK, Desk
<1>8. SetDesk(e)
  BY DEF CasesTick, SetDesk, cs
<1>9. RestOK'
  BY <1>1 DEF CasesTick, RestOK, Stage, engineVars, driverVars
<1> QED  BY <1>7, <1>8, <1>9, IInvWhole

(* Ranks are bounded: an incident is counted once, when it is exhausted.   *)
LEMMA RankBound ==
    ASSUME incidents \in Seq(Incident), Len(incidents) <= MaxIncidents,
           NEW E \in SUBSET DOMAIN incidents, \A i \in E : ~incidents[i].exhausted,
           NEW F \in SUBSET E
    PROVE  Cardinality({i \in DOMAIN incidents : incidents[i].exhausted}) + Cardinality(F)
             \in 0 .. MaxIncidents
<1> DEFINE X == {i \in DOMAIN incidents : incidents[i].exhausted}
           n == Len(incidents)
<1>1. n \in Nat /\ DOMAIN incidents = 1 .. n
  OBVIOUS
<1>2. IsFiniteSet(1 .. n) /\ Cardinality(1 .. n) = n
  BY <1>1, FS_Interval
<1>3. X \subseteq 1 .. n /\ F \subseteq 1 .. n /\ X \cap F = {}
  BY <1>1
<1> HIDE DEF X, n
<1>4. IsFiniteSet(X) /\ IsFiniteSet(F) /\ IsFiniteSet(X \cup F)
  BY <1>2, <1>3, FS_Subset
<1>5. Cardinality(X \cup F) <= n
  <2>1. X \cup F \subseteq 1 .. n
    BY <1>3
  <2> QED  BY <1>2, <2>1, FS_Subset
<1>6. Cardinality(X \cup F) = Cardinality(X) + Cardinality(F) - Cardinality(X \cap F)
  BY <1>4, FS_Union
<1>7. Cardinality(X \cap F) = 0
  BY <1>3, FS_EmptySet
<1>8. Cardinality(X) \in Nat /\ Cardinality(F) \in Nat
  BY <1>4, FS_CardinalityType
<1>9. Cardinality(X) + Cardinality(F) <= MaxIncidents
  BY <1>5, <1>6, <1>7, <1>8, <1>1, PipelineAssumption DEF n
<1> QED  BY <1>8, <1>9, PipelineAssumption DEF X

(* try_civilian_reports starts sessions that have no case yet.             *)
LEMMA StartReportsKeepsIInv ==
    ASSUME IInv, StartReports
    PROVE  IInv'
<1> DEFINE E      == {i \in DOMAIN incidents : WarrantsReport(i)}
           before == Cardinality({i \in DOMAIN incidents : incidents[i].exhausted})
<1>1. RestOK /\ DeskOK(Desk)
  BY IInvParts
<1>2. PICK elected \in [E -> observations] :
         /\ session' = [i \in IncidentId |->
                IF i \in E
                THEN [NoSession EXCEPT
                        !.phase = "Approaching",
                        !.reporter = elected[i].ped,
                        !.rank = before + Cardinality({j \in E : j <= i}),
                        !.kind = elected[i].kind,
                        !.perp = elected[i].perp]
                ELSE session[i]]
         /\ incidents' = [i \in DOMAIN incidents |->
                IF i \in E THEN [incidents[i] EXCEPT !.exhausted = TRUE]
                ELSE incidents[i]]
  BY DEF StartReports
<1> DEFINE e == [session |-> session', cases |-> cases]
<1>3. \A i \in E : /\ elected[i].ped \in Peds
                   /\ elected[i].kind \in CausalKind
                   /\ elected[i].perp \in PerpRef
  BY <1>1 DEF RestOK, Observation
<1>4. ASSUME NEW i PROVE before + Cardinality({j \in E : j <= i}) \in 0 .. MaxIncidents
  <2>1. \A j \in E : ~incidents[j].exhausted
    BY DEF WarrantsReport
  <2>2. E \in SUBSET DOMAIN incidents /\ {j \in E : j <= i} \in SUBSET E
    OBVIOUS
  <2> HIDE DEF E
  <2> QED  BY <1>1, <2>1, <2>2, RankBound DEF RestOK
<1> HIDE DEF before
<1>5. cases \in Seq(Case) /\ Len(cases) \in Nat
  BY <1>1 DEF DeskOK, Desk
<1>6. ASSUME NEW i \in IncidentId PROVE SessionOK(i, session'[i], cases)
  <2>1. CASE i \in E
    <3> DEFINE t == [NoSession EXCEPT
                       !.phase = "Approaching",
                       !.reporter = elected[i].ped,
                       !.rank = before + Cardinality({j \in E : j <= i}),
                       !.kind = elected[i].kind,
                       !.perp = elected[i].perp]
    <3>1. session'[i] = t
      BY <1>2, <2>1
    <3>2. before + Cardinality({j \in E : j <= i}) \in 0 .. MaxIncidents
      BY <1>4
    <3> HIDE DEF E
    <3>3. /\ t \in Session /\ t.phase = "Approaching" /\ t.case = 0 /\ t.reason = "None"
          /\ t.reporter \in Peds /\ t.kind \in CausalKind
      BY <1>3, <2>1, <3>2 DEF NoSession, Session, NoClues, Clues, Severity, EndReason, ReportPhase
    <3> HIDE DEF t
    <3> QED  BY <1>5, <3>1, <3>3 DEF SessionOK
  <2>2. CASE i \notin E
    BY <1>1, <1>2, <2>2 DEF DeskOK, Desk
  <2> QED  BY <2>1, <2>2
<1>7. session' \in [IncidentId -> Session]
  <2>1. \A i \in IncidentId : session'[i] \in Session
    BY <1>6 DEF SessionOK
  <2> QED  BY <1>2, <2>1
<1>8. DeskOK(e)
  BY <1>5, <1>6, <1>7 DEF DeskOK
<1>9. SetDesk(e)
  BY DEF StartReports, SetDesk
<1>10. incidents' \in Seq(Incident) /\ Len(incidents') <= MaxIncidents
  <2>1. /\ incidents \in Seq(Incident) /\ Len(incidents) \in Nat
        /\ Len(incidents) <= MaxIncidents /\ DOMAIN incidents = 1 .. Len(incidents)
    BY <1>1 DEF RestOK
  <2>2. ASSUME NEW i \in DOMAIN incidents PROVE incidents'[i] \in Incident
    <3>1. incidents[i] \in Incident
      BY <2>1
    <3>2. [incidents[i] EXCEPT !.exhausted = TRUE] \in Incident
      BY <3>1 DEF Incident
    <3> HIDE DEF E
    <3> QED  BY <1>2, <3>1, <3>2
  <2>3. incidents' \in [1 .. Len(incidents) -> Incident]
    BY <1>2, <2>1, <2>2
  <2> QED  BY <2>1, <2>3
<1>11. RestOK'
  BY <1>1, <1>10 DEF StartReports, RestOK, Stage, engineVars, driverVars
<1> QED  BY <1>8, <1>9, <1>11, IInvWhole

(* The handlers the frame calls, and its other steps.                      *)
LEMMA FrameKeepsIInv ==
    ASSUME IInv, Frame
    PROVE  IInv'
<1>1. RestOK /\ DeskOK(Desk)
  BY IInvParts
<1>2. \A p \in Peds : /\ DeskOK(OnDialing(Desk, p))
                      /\ DeskOK(OnActive(Desk, p))
                      /\ DeskOK(OnActive(OnDialing(Desk, p), p))
                      /\ DeskOK(OnEnded(Desk, p))
                      /\ DeskOK(OnInterrupted(Desk, p))
  BY <1>1, OnDialingKeepsDesk, OnActiveKeepsDesk, OnEndedKeepsDesk, OnInterruptedKeepsDesk
<1>3. ASSUME RestOK', UNCHANGED <<session, cases>> PROVE IInv'
  BY <1>1, <1>3, IInvWhole DEF Desk, SetDesk
<1>4. CASE DrainEvents
  <2>1. MayObserve \subseteq Observation
    <3>1. \A k \in Percepts : k.kind \in CausalKind
      BY PipelineAssumption
    <3>2. 0 .. Len(incidents) \subseteq 0 .. MaxIncidents
      BY <1>1, PipelineAssumption DEF RestOK
    <3> QED  BY <3>1, <3>2 DEF MayObserve, Observation
  <2>2. observations' \subseteq Observation
    BY <1>4, <2>1 DEF DrainEvents
  <2>3. RestOK'
    BY <1>1, <1>4, <2>2 DEF DrainEvents, RestOK, Stage, engineVars, driverVars
  <2> QED  BY <1>3, <1>4, <2>3 DEF DrainEvents
<1>5. ASSUME NEW p \in Peds, ReporterLost(p) PROVE IInv'
  <2>1. RestOK'
    BY <1>1, <1>5 DEF ReporterLost, RestOK, engineVars, driverVars
  <2> QED  BY <1>2, <1>5, <2>1, IInvWhole DEF ReporterLost
<1>6. ASSUME NEW p \in Peds, ReportByRadio(p) PROVE IInv'
  <2>1. RestOK'
    BY <1>1, <1>6 DEF ReportByRadio, RestOK, engineVars
  <2> QED  BY <1>2, <1>6, <2>1, IInvWhole DEF ReportByRadio
<1>7. ASSUME NEW p \in Peds, AssignMobilePhone(p) PROVE IInv'
  <2>1. RestOK'
    BY <1>1, <1>7 DEF AssignMobilePhone, RestOK, PhoneTask
  <2> QED  BY <1>3, <1>7, <2>1 DEF AssignMobilePhone
<1>8. CASE Assigned
  <2>1. RestOK'
    BY <1>1, <1>8 DEF Assigned, RestOK, Stage, engineVars, driverVars
  <2> QED  BY <1>3, <1>8, <2>1 DEF Assigned
<1>9. ASSUME NEW p \in Peds, TrackMissing(p) PROVE IInv'
  <2>1. RestOK'
    BY <1>1, <1>9 DEF TrackMissing, RestOK, engineVars, ReportTaskPhase
  <2> QED  BY <1>2, <1>9, <2>1, IInvWhole DEF TrackMissing
<1>10. ASSUME NEW p \in Peds, TrackPhase(p) PROVE IInv'
  <2>1. PollReportTaskPhase(p) \in ReportTaskPhase
    BY <1>1 DEF PollReportTaskPhase, ReportTaskPhase, RestOK, PhoneTask
  <2>2. RestOK'
    BY <1>1, <1>10, <2>1 DEF TrackPhase, RestOK, engineVars
  <2>3. \E d : DeskOK(d) /\ SetDesk(d)
    <3> DEFINE phase == PollReportTaskPhase(p)
    <3>1. CASE p \in Cops
      BY <1>1, <1>10, <3>1 DEF TrackPhase
    <3>2. CASE p \notin Cops /\ phase = "Dialing"
      BY <1>2, <1>10, <3>2 DEF TrackPhase
    <3>3. CASE p \notin Cops /\ phase = "Active"
      BY <1>2, <1>10, <3>3 DEF TrackPhase
    <3>4. CASE p \notin Cops /\ phase = "Ending"
      BY <1>2, <1>10, <3>4 DEF TrackPhase
    <3>5. CASE p \notin Cops /\ phase = "None"
      BY <1>1, <1>2, <1>10, <3>5 DEF TrackPhase
    <3> QED  BY <2>1, <3>1, <3>2, <3>3, <3>4, <3>5 DEF ReportTaskPhase
  <2> QED  BY <2>2, <2>3, IInvWhole
<1>11. CASE EndFrame
  <2>1. RestOK'
    BY <1>1, <1>11 DEF EndFrame, RestOK, Stage, engineVars, ReportTaskPhase
  <2> QED  BY <1>3, <1>11, <2>1 DEF EndFrame
<1> QED  BY <1>4, <1>5, <1>6, <1>7, <1>8, <1>9, <1>10, <1>11,
            RetainOpenKeepsIInv, CasesTickKeepsIInv, StartReportsKeepsIInv DEF Frame

(* IInv is inductive: no step of a hook, of the engine or of the frame
   leaves the sessions and the cases in disagreement.                      *)
THEOREM StepIInv == IInv /\ [Next]_vars => IInv'
<1> SUFFICES ASSUME IInv, [Next]_vars PROVE IInv'
  OBVIOUS
<1>1. CASE Frame
  BY <1>1, FrameKeepsIInv
<1>2. CASE Engine
  BY <1>2, EngineKeepsIInv
<1>3. CASE UNCHANGED vars
  BY <1>3 DEF vars, IInv, TypeOK, SessionsAreWhole, CallAndCaseAgree
<1> QED  BY <1>1, <1>2, <1>3 DEF Next

(* The invariants of every run, for any number of peds and incidents and
   any percepts: every variable keeps its type, ...                        *)
THEOREM TypeCorrect == Spec => []TypeOK
<1>1. IInv => TypeOK
  BY DEF IInv
<1> QED  BY <1>1, InitIInv, StepIInv, PTL DEF Spec

(* ... and a session and its case agree at every step: the case is its
   incident's, open while the caller is on the line and finalized after; a
   lost caller always leaves a case, marked interrupted.                   *)
THEOREM CallAndCaseAlwaysAgree == Spec => []CallAndCaseAgree
<1>1. IInv => CallAndCaseAgree
  BY DEF IInv
<1> QED  BY <1>1, InitIInv, StepIInv, PTL DEF Spec

-----------------------------------------------------------------------------
(* ReportInv on a desk d with the incidents inc, but for what the driver       *)
(* remembers.                                                                  *)

InTurn(ss) ==
    \A i, j \in IncidentId :
        ss[i].phase # "None" /\ ss[j].phase # "None" /\ i # j =>
            /\ ss[i].rank # ss[j].rank
            /\ ss[i].reporter = ss[j].reporter /\ ss[i].phase # "Approaching"
                  => ss[i].rank < ss[j].rank

Known(d, inc) ==
    /\ \A i \in IncidentId : d.session[i].phase # "None" =>
          i \in Exhausted(inc) /\ d.session[i].rank <= Cardinality(Exhausted(inc))
    /\ \A c \in DOMAIN d.cases : d.cases[c].incident \in DOMAIN inc

OneCase(cs) == \A c, k \in DOMAIN cs : cs[c].incident = cs[k].incident => c = k

WholeCases(d) ==
    /\ \A c \in DOMAIN d.cases :
          ~d.cases[c].finalized => LET s == d.session[d.cases[c].incident]
                                   IN  s.phase = "Active" /\ s.case = c
    /\ \A i \in IncidentId :
          IsOpen(d.session[i]) /\ d.session[i].case = 0 => ~HasCase(d.cases, i)
    /\ \A c \in DOMAIN d.cases : d.cases[c].state = "Timing" => d.cases[c].finalized

Good(d, inc) == DeskOK(d) /\ InTurn(d.session) /\ Known(d, inc) /\ OneCase(d.cases) /\ WholeCases(d)

(* Where an incident is in its life, read off a desk.                          *)
Place(i, inc, d) ==
    LET ofIncident == {c \in DOMAIN d.cases : d.cases[c].incident = i}
    IN  CASE i \notin DOMAIN inc -> "unknown"
          [] i \in DOMAIN inc /\ ofIncident # {} ->
                IF \E c \in ofIncident : d.cases[c].state = "Timing" THEN "dispatching"
                ELSE IF \E c \in ofIncident : d.cases[c].finalized THEN "closed"
                ELSE "onCall"
          [] i \in DOMAIN inc /\ ofIncident = {} ->
                IF IsOpen(d.session[i]) THEN "claimed"
                ELSE IF inc[i].exhausted THEN "dropped"
                ELSE "known"

PlaceMoves(i, inc, d, e) ==
    \/ Place(i, inc, e) = Place(i, inc, d)
    \/ <<Place(i, inc, d), Place(i, inc, e)>> \in Reporting!Steps

Frozen(cs, ds) ==
    \A c \in DOMAIN cs : cs[c].finalized =>
        c \in DOMAIN ds /\ [ds[c] EXCEPT !.state = cs[c].state] = cs[c]

Moves(d, e, inc) == Frozen(d.cases, e.cases) /\ \A i \in IncidentId : PlaceMoves(i, inc, d, e)

(* The place of an incident without a case, and of one with its only case.     *)
LEMMA Places ==
    ASSUME NEW i \in IncidentId, NEW inc, NEW d, OneCase(d.cases)
    PROVE  /\ i \notin DOMAIN inc => Place(i, inc, d) = "unknown"
           /\ i \in DOMAIN inc /\ ~HasCase(d.cases, i) =>
                 Place(i, inc, d) = IF IsOpen(d.session[i]) THEN "claimed"
                                    ELSE IF inc[i].exhausted THEN "dropped" ELSE "known"
           /\ \A c \in DOMAIN d.cases : i \in DOMAIN inc /\ d.cases[c].incident = i =>
                 Place(i, inc, d) = IF d.cases[c].state = "Timing" THEN "dispatching"
                                    ELSE IF d.cases[c].finalized THEN "closed" ELSE "onCall"
<1> DEFINE S == {c \in DOMAIN d.cases : d.cases[c].incident = i}
<1>1. CASE i \notin DOMAIN inc
  BY <1>1 DEF Place
<1>2. CASE i \in DOMAIN inc /\ ~HasCase(d.cases, i)
  <2>1. S = {}
    BY <1>2 DEF HasCase
  <2> QED  BY <1>2, <2>1 DEF Place, HasCase
<1>3. ASSUME i \in DOMAIN inc, NEW c \in DOMAIN d.cases, d.cases[c].incident = i
      PROVE  Place(i, inc, d) = IF d.cases[c].state = "Timing" THEN "dispatching"
                                ELSE IF d.cases[c].finalized THEN "closed" ELSE "onCall"
  <2>1. S = {c}
    BY <1>3 DEF OneCase
  <2> QED  BY <1>3, <2>1 DEF Place
<1>4. HasCase(d.cases, i) <=> \E c \in DOMAIN d.cases : d.cases[c].incident = i
  BY DEF HasCase
<1> QED  BY <1>1, <1>2, <1>3, <1>4

(* An incident whose case and session look the same is where it was.           *)
LEMMA SamePlace ==
    ASSUME NEW j \in IncidentId, NEW inc, NEW d, NEW e, OneCase(d.cases), OneCase(e.cases),
           IsOpen(e.session[j]) <=> IsOpen(d.session[j]),
           HasCase(e.cases, j) => HasCase(d.cases, j),
           \A c \in DOMAIN d.cases : d.cases[c].incident = j =>
              /\ c \in DOMAIN e.cases /\ e.cases[c].incident = j
              /\ e.cases[c].state = d.cases[c].state
              /\ e.cases[c].finalized <=> d.cases[c].finalized
    PROVE  Place(j, inc, e) = Place(j, inc, d)
<1>1. CASE j \notin DOMAIN inc
  BY <1>1, Places
<1>2. CASE j \in DOMAIN inc /\ ~HasCase(d.cases, j)
  BY <1>2, Places
<1>3. CASE j \in DOMAIN inc /\ HasCase(d.cases, j)
  <2>1. PICK c \in DOMAIN d.cases : d.cases[c].incident = j
    BY <1>3 DEF HasCase
  <2>2. /\ c \in DOMAIN e.cases /\ e.cases[c].incident = j
        /\ e.cases[c].state = d.cases[c].state
        /\ e.cases[c].finalized <=> d.cases[c].finalized
    BY <2>1
  <2> QED  BY <1>3, <2>1, <2>2, Places
<1> QED  BY <1>1, <1>2, <1>3

(* A handler serves session i: it alone is rewritten, the first of its reporter. *)
Serves(d, e, i) ==
    /\ IsOpen(d.session[i])
    /\ \A j \in IncidentId \ {i} : e.session[j] = d.session[j]
    /\ e.session[i].phase \in {"Dialing", "Active", "Ended"}
    /\ e.session[i].reporter = d.session[i].reporter
    /\ e.session[i].rank = d.session[i].rank
    /\ \A j \in IncidentId \ {i} :
          d.session[j].phase # "None" /\ d.session[j].reporter = d.session[i].reporter =>
              d.session[i].rank < d.session[j].rank

(* Ranks are counts.                                                           *)
LEMMA RankTypes ==
    ASSUME NEW d, DeskOK(d)
    PROVE  \A j \in IncidentId : d.session[j].rank \in Nat
<1>1. \A s \in Session : s.rank \in 0 .. MaxIncidents
  BY DEF Session
<1>2. 0 .. MaxIncidents \subseteq Nat
  BY PipelineAssumption
<1>3. \A j \in IncidentId : d.session[j] \in Session
  BY DEF DeskOK
<1> QED  BY <1>1, <1>2, <1>3

(* Serving the first session of its reporter keeps the order of sessions.      *)
LEMMA ServedInTurn ==
    ASSUME NEW d, NEW e, NEW i \in IncidentId, InTurn(d.session), Serves(d, e, i),
           DeskOK(d), DeskOK(e)
    PROVE  InTurn(e.session)
<1>0. \A j \in IncidentId : d.session[j].rank \in Nat /\ e.session[j].rank \in Nat
  BY RankTypes
<1>1. \A j \in IncidentId : /\ e.session[j].rank = d.session[j].rank
                            /\ e.session[j].reporter = d.session[j].reporter
                            /\ e.session[j].phase # "None" <=> d.session[j].phase # "None"
  BY DEF Serves, IsOpen
<1>2. \A j \in IncidentId \ {i} : e.session[j].phase = d.session[j].phase
  BY DEF Serves
<1> SUFFICES ASSUME NEW j \in IncidentId, NEW k \in IncidentId, j # k,
                    d.session[j].phase # "None", d.session[k].phase # "None"
             PROVE  /\ d.session[j].rank # d.session[k].rank
                    /\ d.session[j].reporter = d.session[k].reporter /\ e.session[j].phase # "Approaching"
                          => d.session[j].rank < d.session[k].rank
  BY <1>0, <1>1 DEF InTurn
<1>3. CASE j = i
  BY <1>3 DEF InTurn, Serves
<1>4. CASE j # i
  BY <1>2, <1>4 DEF InTurn
<1> QED  BY <1>3, <1>4

(* It leaves reports known.                                                    *)
LEMMA ServedKnown ==
    ASSUME NEW inc, NEW d, NEW e, NEW i \in IncidentId, Known(d, inc), Serves(d, e, i),
           \A c \in DOMAIN e.cases :
              \/ e.cases[c].incident = i
              \/ c \in DOMAIN d.cases /\ e.cases[c].incident = d.cases[c].incident
    PROVE  Known(e, inc)
<1>1. \A j \in IncidentId : /\ e.session[j].rank = d.session[j].rank
                            /\ e.session[j].phase # "None" => d.session[j].phase # "None"
  BY DEF Serves, IsOpen
<1>2. i \in DOMAIN inc
  BY DEF Known, Serves, IsOpen, Exhausted
<1>3. \A j \in IncidentId : e.session[j].phase # "None" =>
         j \in Exhausted(inc) /\ e.session[j].rank <= Cardinality(Exhausted(inc))
  BY <1>1 DEF Known
<1>4. \A c \in DOMAIN e.cases : e.cases[c].incident \in DOMAIN inc
  BY <1>2 DEF Known
<1> QED  BY <1>3, <1>4 DEF Known

(* A call that is dialled, or ends before it has opened a case.                *)
LEMMA NoCaseServed ==
    ASSUME NEW inc \in Seq(Incident), NEW d, Good(d, inc), NEW e, DeskOK(e),
           NEW i \in IncidentId, Serves(d, e, i),
           d.session[i].case = 0, e.session[i].case = 0,
           e.session[i].phase # "Active", e.cases = d.cases
    PROVE  Good(e, inc) /\ Moves(d, e, inc)
<1> USE DEF Good
<1>1. InTurn(e.session)
  BY ServedInTurn
<1>2. Known(e, inc)
  BY ServedKnown
<1>3. ~HasCase(d.cases, i)
  BY DEF WholeCases, Serves
<1>4. WholeCases(e)
  <2>1. ASSUME NEW c \in DOMAIN d.cases PROVE d.cases[c].incident \in IncidentId \ {i}
    <3>1. d.cases[c] \in Case
      BY DEF DeskOK
    <3> QED  BY <3>1, <1>3 DEF HasCase, Case
  <2>2. \A j \in IncidentId : IsOpen(e.session[j]) /\ e.session[j].case = 0 => IsOpen(d.session[j]) /\ d.session[j].case = 0
    BY DEF Serves
  <2> QED  BY <2>1, <2>2 DEF WholeCases, Serves
<1>5. Frozen(d.cases, e.cases)
  <2>1. ASSUME NEW c \in DOMAIN d.cases PROVE [d.cases[c] EXCEPT !.state = d.cases[c].state] = d.cases[c]
    <3>1. d.cases[c] \in Case
      BY DEF DeskOK
    <3> QED  BY <3>1 DEF Case
  <2> QED  BY <2>1 DEF Frozen
<1>6. ASSUME NEW j \in IncidentId PROVE PlaceMoves(j, inc, d, e)
  <2>1. CASE j # i
    BY <2>1, SamePlace DEF PlaceMoves, Serves
  <2>2. CASE j = i
    <3>1. i \in DOMAIN inc /\ inc[i].exhausted
      BY DEF Known, Serves, IsOpen, Exhausted
    <3>2. Place(i, inc, d) = "claimed" /\ Place(i, inc, e) \in {"claimed", "dropped"}
      BY <1>3, <3>1, Places DEF Serves
    <3> QED  BY <2>2, <3>2 DEF PlaceMoves, Reporting!Steps
  <2> QED  BY <2>1, <2>2
<1> QED  BY <1>1, <1>2, <1>4, <1>5, <1>6 DEF Moves

(* The cases of a desk, one by one.                                            *)
LEMMA DeskCases ==
    ASSUME NEW d, DeskOK(d)
    PROVE  /\ d.cases \in Seq(Case) /\ Len(d.cases) \in Nat /\ DOMAIN d.cases = 1 .. Len(d.cases)
           /\ \A c \in DOMAIN d.cases :
                 /\ d.cases[c] \in Case /\ d.cases[c].incident \in IncidentId
                 /\ [d.cases[c] EXCEPT !.state = d.cases[c].state] = d.cases[c]
           /\ \A i \in IncidentId : d.session[i].case \in 0 .. Len(d.cases)
<1>1. d.cases \in Seq(Case) /\ Len(d.cases) \in Nat /\ DOMAIN d.cases = 1 .. Len(d.cases)
  BY DEF DeskOK
<1>2. ASSUME NEW c \in DOMAIN d.cases
      PROVE  /\ d.cases[c] \in Case /\ d.cases[c].incident \in IncidentId
             /\ [d.cases[c] EXCEPT !.state = d.cases[c].state] = d.cases[c]
  <2>1. d.cases[c] \in Case
    BY <1>1
  <2> QED  BY <2>1 DEF Case
<1>3. ASSUME NEW i \in IncidentId PROVE d.session[i].case \in 0 .. Len(d.cases)
  BY <1>1 DEF DeskOK, SessionOK, Session
<1> QED  BY <1>1, <1>2, <1>3

(* An incident stays where it is when cases of others are added.               *)
LEMMA OtherPlace ==
    ASSUME NEW j \in IncidentId, NEW inc, NEW d, NEW e, OneCase(d.cases), OneCase(e.cases),
           e.session[j] = d.session[j],
           \A c \in DOMAIN d.cases : c \in DOMAIN e.cases /\ e.cases[c] = d.cases[c],
           \A c \in DOMAIN e.cases \ DOMAIN d.cases : e.cases[c].incident # j
    PROVE  PlaceMoves(j, inc, d, e)
<1>1. HasCase(e.cases, j) => HasCase(d.cases, j)
  BY DEF HasCase
<1>2. IsOpen(e.session[j]) <=> IsOpen(d.session[j])
  OBVIOUS
<1>3. Place(j, inc, e) = Place(j, inc, d)
  BY <1>1, <1>2, SamePlace
<1> QED  BY <1>3 DEF PlaceMoves

(* A call that opens its case, on the line or with the loss of its caller.     *)
LEMMA CaseOpened ==
    ASSUME NEW inc \in Seq(Incident), NEW d, Good(d, inc), NEW e, DeskOK(e),
           NEW i \in IncidentId, Serves(d, e, i), d.session[i].case = 0,
           NEW k \in Case, k.incident = i, k.state = "Idle",
           k.finalized <=> e.session[i].phase = "Ended",
           e.cases = Append(d.cases, k), e.session[i].case = Len(d.cases) + 1,
           e.session[i].phase \in {"Active", "Ended"}
    PROVE  Good(e, inc) /\ Moves(d, e, inc)
<1> USE DEF Good
<1> DEFINE n == Len(d.cases) + 1
<1>1. /\ d.cases \in Seq(Case) /\ Len(d.cases) \in Nat /\ DOMAIN d.cases = 1 .. Len(d.cases)
      /\ \A c \in DOMAIN d.cases :
            /\ d.cases[c] \in Case /\ d.cases[c].incident \in IncidentId
            /\ [d.cases[c] EXCEPT !.state = d.cases[c].state] = d.cases[c]
  BY DeskCases
<1>2. /\ DOMAIN e.cases = DOMAIN d.cases \cup {n} /\ e.cases[n] = k /\ n \notin DOMAIN d.cases
      /\ \A c \in DOMAIN d.cases : e.cases[c] = d.cases[c]
  BY <1>1
<1> HIDE DEF n
<1>3. \A c \in DOMAIN d.cases : d.cases[c].incident # i
  BY DEF WholeCases, Serves, HasCase
<1>4. InTurn(e.session)
  BY ServedInTurn
<1>5. Known(e, inc)
  BY <1>2, ServedKnown
<1>6. OneCase(e.cases)
  BY <1>2, <1>3 DEF OneCase
<1>7. WholeCases(e)
  <2>1. ASSUME NEW c \in DOMAIN e.cases, ~e.cases[c].finalized
        PROVE  e.session[e.cases[c].incident].phase = "Active" /\ e.session[e.cases[c].incident].case = c
    <3>1. CASE c = n
      BY <1>2, <2>1, <3>1 DEF n
    <3>2. CASE c # n
      <4>1. c \in DOMAIN d.cases /\ d.cases[c].incident \in IncidentId \ {i} /\ e.cases[c] = d.cases[c]
        BY <1>1, <1>2, <1>3, <3>2
      <4> QED  BY <2>1, <4>1 DEF WholeCases, Serves
    <3> QED  BY <3>1, <3>2
  <2>2. ASSUME NEW j \in IncidentId, IsOpen(e.session[j]), e.session[j].case = 0
        PROVE  ~HasCase(e.cases, j)
    <3>1. j # i
      BY <1>1, <2>2
    <3>2. IsOpen(d.session[j]) /\ d.session[j].case = 0
      BY <2>2, <3>1 DEF Serves
    <3> QED  BY <1>2, <3>1, <3>2 DEF WholeCases, HasCase
  <2>3. \A c \in DOMAIN e.cases : e.cases[c].state = "Timing" => e.cases[c].finalized
    BY <1>2 DEF WholeCases
  <2> QED  BY <2>1, <2>2, <2>3 DEF WholeCases
<1>8. Frozen(d.cases, e.cases)
  BY <1>1, <1>2 DEF Frozen
<1>9. ASSUME NEW j \in IncidentId PROVE PlaceMoves(j, inc, d, e)
  <2>1. CASE j # i
    <3>1. e.session[j] = d.session[j]
      BY <2>1 DEF Serves
    <3>2. \A c \in DOMAIN e.cases \ DOMAIN d.cases : e.cases[c].incident # j
      BY <1>2, <2>1
    <3> QED  BY <1>2, <1>6, <3>1, <3>2, OtherPlace
  <2>2. CASE j = i
    <3>1. i \in DOMAIN inc /\ ~HasCase(d.cases, i)
      BY <1>3 DEF Known, Serves, IsOpen, Exhausted, HasCase
    <3>2. Place(i, inc, d) = "claimed"
      BY <3>1, Places DEF Serves
    <3>3. Place(i, inc, e) \in {"onCall", "closed"}
      BY <1>2, <1>6, <3>1, Places
    <3> QED  BY <2>2, <3>2, <3>3 DEF PlaceMoves, Reporting!Steps
  <2> QED  BY <2>1, <2>2
<1> QED  BY <1>4, <1>5, <1>6, <1>7, <1>8, <1>9 DEF Moves

(* One case rewritten, of which an incident's place is read as before.         *)
LEMMA CaseRewritten ==
    ASSUME NEW d, DeskOK(d), NEW n \in DOMAIN d.cases, NEW k \in Case,
           NEW cs, cs = [d.cases EXCEPT ![n] = k], k.incident = d.cases[n].incident
    PROVE  /\ DOMAIN cs = DOMAIN d.cases /\ cs[n] = k
           /\ \A c \in DOMAIN d.cases : /\ c # n => cs[c] = d.cases[c]
                                        /\ cs[c].incident = d.cases[c].incident
           /\ \A j \in IncidentId : HasCase(cs, j) <=> HasCase(d.cases, j)
           /\ OneCase(d.cases) => OneCase(cs)
           /\ ~d.cases[n].finalized => Frozen(d.cases, cs)
<1>1. /\ d.cases \in Seq(Case)
      /\ \A c \in DOMAIN d.cases :
            /\ d.cases[c] \in Case /\ d.cases[c].incident \in IncidentId
            /\ [d.cases[c] EXCEPT !.state = d.cases[c].state] = d.cases[c]
  BY DeskCases
<1>2. /\ DOMAIN cs = DOMAIN d.cases /\ cs[n] = k
      /\ \A c \in DOMAIN d.cases : c # n => cs[c] = d.cases[c]
  BY <1>1
<1>3. \A c \in DOMAIN d.cases : cs[c].incident = d.cases[c].incident
  BY <1>2
<1>4. ~d.cases[n].finalized => Frozen(d.cases, cs)
  BY <1>1, <1>2 DEF Frozen
<1> QED  BY <1>2, <1>3, <1>4 DEF HasCase, OneCase

(* A call that is over finalizes the case it opened.                           *)
LEMMA CaseClosed ==
    ASSUME NEW inc \in Seq(Incident), NEW d, Good(d, inc), NEW e, DeskOK(e),
           NEW i \in IncidentId, Serves(d, e, i), d.session[i].case # 0,
           NEW k \in Case, k.incident = i, k.finalized, k.state = d.cases[d.session[i].case].state,
           e.cases = [d.cases EXCEPT ![d.session[i].case] = k],
           e.session[i].case = d.session[i].case, e.session[i].phase = "Ended"
    PROVE  Good(e, inc) /\ Moves(d, e, inc)
<1> USE DEF Good
<1> DEFINE n == d.session[i].case
<1>1. /\ n \in DOMAIN d.cases /\ d.cases[n].incident = i /\ ~d.cases[n].finalized
      /\ d.session[i].phase = "Active"
  <2>1. n \in DOMAIN d.cases
    BY DeskCases
  <2>2. SessionOK(i, d.session[i], d.cases)
    BY DEF DeskOK
  <2> QED  BY <2>1, <2>2 DEF SessionOK, Serves, IsOpen
<1>2. /\ DOMAIN e.cases = DOMAIN d.cases /\ e.cases[n] = k
      /\ \A c \in DOMAIN d.cases : /\ c # n => e.cases[c] = d.cases[c]
                                   /\ e.cases[c].incident = d.cases[c].incident
      /\ \A j \in IncidentId : HasCase(e.cases, j) <=> HasCase(d.cases, j)
      /\ OneCase(e.cases) /\ Frozen(d.cases, e.cases)
  BY <1>1, CaseRewritten
<1> HIDE DEF n
<1>3. \A c \in DOMAIN d.cases : c # n => d.cases[c].incident \in IncidentId \ {i}
  BY <1>1, DeskCases DEF OneCase
<1>4. InTurn(e.session)
  BY ServedInTurn
<1>5. Known(e, inc)
  BY <1>2, ServedKnown
<1>6. d.cases[n].state # "Timing" /\ k.state # "Timing"
  BY <1>1 DEF WholeCases, n
<1>7. WholeCases(e)
  <2>1. ASSUME NEW c \in DOMAIN e.cases, ~e.cases[c].finalized
        PROVE  e.session[e.cases[c].incident].phase = "Active" /\ e.session[e.cases[c].incident].case = c
    <3>1. c # n /\ c \in DOMAIN d.cases /\ e.cases[c] = d.cases[c]
      BY <1>2, <2>1
    <3> QED  BY <1>3, <2>1, <3>1 DEF WholeCases, Serves
  <2>2. ASSUME NEW j \in IncidentId, IsOpen(e.session[j]), e.session[j].case = 0
        PROVE  ~HasCase(e.cases, j)
    <3>1. j # i
      BY <2>2 DEF IsOpen
    <3>2. IsOpen(d.session[j]) /\ d.session[j].case = 0
      BY <2>2, <3>1 DEF Serves
    <3> QED  BY <1>2, <3>2 DEF WholeCases
  <2>3. \A c \in DOMAIN e.cases : e.cases[c].state = "Timing" => e.cases[c].finalized
    BY <1>2, <1>6 DEF WholeCases
  <2> QED  BY <2>1, <2>2, <2>3 DEF WholeCases
<1>8. ASSUME NEW j \in IncidentId PROVE PlaceMoves(j, inc, d, e)
  <2>1. CASE j # i
    BY <1>1, <1>2, <2>1, SamePlace DEF PlaceMoves, Serves
  <2>2. CASE j = i
    <3>1. i \in DOMAIN inc
      BY DEF Known, Serves, IsOpen, Exhausted
    <3>2. Place(i, inc, d) = "onCall"
      BY <1>1, <1>6, <3>1, Places
    <3>3. Place(i, inc, e) = "closed"
      BY <1>1, <1>2, <1>6, <3>1, Places
    <3> QED  BY <2>2, <3>2, <3>3 DEF PlaceMoves, Reporting!Steps
  <2> QED  BY <2>1, <2>2
<1> QED  BY <1>2, <1>4, <1>5, <1>7, <1>8 DEF Moves

(* A signal rewrites the clues of a case on the line: nothing moves.           *)
LEMMA CluesRewritten ==
    ASSUME NEW inc \in Seq(Incident), NEW d, Good(d, inc), NEW e, DeskOK(e),
           NEW n \in DOMAIN d.cases, ~d.cases[n].finalized,
           NEW k \in Case, k.incident = d.cases[n].incident, ~k.finalized,
           k.state = d.cases[n].state, e.cases = [d.cases EXCEPT ![n] = k],
           \A j \in IncidentId : /\ e.session[j].phase = d.session[j].phase
                                 /\ e.session[j].rank = d.session[j].rank
                                 /\ e.session[j].reporter = d.session[j].reporter
                                 /\ e.session[j].case = d.session[j].case
    PROVE  /\ Good(e, inc) /\ Frozen(d.cases, e.cases)
           /\ \A j \in IncidentId : Place(j, inc, e) = Place(j, inc, d)
<1> USE DEF Good
<1>1. /\ DOMAIN e.cases = DOMAIN d.cases /\ e.cases[n] = k
      /\ \A c \in DOMAIN d.cases : /\ c # n => e.cases[c] = d.cases[c]
                                   /\ e.cases[c].incident = d.cases[c].incident
      /\ \A j \in IncidentId : HasCase(e.cases, j) <=> HasCase(d.cases, j)
      /\ OneCase(e.cases) /\ Frozen(d.cases, e.cases)
  BY CaseRewritten
<1>2. \A c \in DOMAIN d.cases : /\ e.cases[c].state = d.cases[c].state
                                /\ e.cases[c].finalized <=> d.cases[c].finalized
                                /\ d.cases[c].incident \in IncidentId
  BY <1>1, DeskCases
<1>3. \A j \in IncidentId : IsOpen(e.session[j]) <=> IsOpen(d.session[j])
  BY DEF IsOpen
<1>4. InTurn(e.session)
  <2>1. \A j \in IncidentId : d.session[j].rank \in Nat
    BY RankTypes
  <2> QED  BY <2>1 DEF InTurn
<1>5. Known(e, inc)
  BY <1>1 DEF Known
<1>6. WholeCases(e)
  <2>1. ASSUME NEW c \in DOMAIN e.cases, ~e.cases[c].finalized
        PROVE  e.session[e.cases[c].incident].phase = "Active" /\ e.session[e.cases[c].incident].case = c
    BY <1>1, <1>2, <2>1 DEF WholeCases
  <2>2. \A j \in IncidentId : IsOpen(e.session[j]) /\ e.session[j].case = 0 => ~HasCase(e.cases, j)
    BY <1>1, <1>3 DEF WholeCases
  <2>3. \A c \in DOMAIN e.cases : e.cases[c].state = "Timing" => e.cases[c].finalized
    BY <1>1, <1>2 DEF WholeCases
  <2> QED  BY <2>1, <2>2, <2>3 DEF WholeCases
<1>7. \A j \in IncidentId : Place(j, inc, e) = Place(j, inc, d)
  BY <1>1, <1>2, <1>3, SamePlace
<1> QED  BY <1>1, <1>4, <1>5, <1>6, <1>7

(* Reporters on the line; no handler changes who reports an incident.          *)
SameReporters(d, e) == \A j \in IncidentId : e.session[j].reporter = d.session[j].reporter

(* A ped's call on the line is its first session, the one its handlers serve.  *)
LEMMA LineIsFirst ==
    ASSUME NEW inc, NEW d, Good(d, inc), NEW p \in Peds,
           NEW j \in IncidentId, d.session[j].phase = "Active", d.session[j].reporter = p
    PROVE  HasOpenFirst(d.session, p) /\ j = FirstOf(d.session, SessionsOf(d.session, p))
<1> DEFINE S == SessionsOf(d.session, p)
           i == FirstOf(d.session, S)
<1>1. j \in IncidentId /\ d.session[j].phase = "Active" /\ j \in S
  BY DEF SessionsOf
<1>2. S \in SUBSET IncidentId /\ d.session \in [IncidentId -> Session]
  BY DEF SessionsOf, Good, DeskOK
<1>3. i \in S /\ d.session[i].rank <= d.session[j].rank
  BY <1>1, <1>2, FirstOfIsFirst
<1>4. i \in IncidentId /\ d.session[i].phase # "None" /\ d.session[i].reporter = p
  BY <1>3 DEF SessionsOf
<1>5. d.session[i].rank \in Nat /\ d.session[j].rank \in Nat
  BY <1>1, <1>4, RankTypes DEF Good
<1> HIDE DEF i
<1>6. i # j => d.session[j].rank < d.session[i].rank
  BY <1>1, <1>4 DEF Good, InTurn
<1>7. i = j
  BY <1>3, <1>5, <1>6
<1> QED  BY <1>1, <1>7 DEF HasOpenFirst, IsOpen, i

(* The session a handler is called on comes before its reporter's others.      *)
LEMMA FirstOpen ==
    ASSUME NEW inc, NEW d, Good(d, inc), NEW p \in Peds, SessionsOf(d.session, p) # {},
           NEW i, i = FirstOf(d.session, SessionsOf(d.session, p))
    PROVE  /\ i \in IncidentId /\ d.session[i].reporter = p
           /\ \A j \in IncidentId \ {i} :
                 d.session[j].phase # "None" /\ d.session[j].reporter = p =>
                     d.session[i].rank < d.session[j].rank
<1>1. SessionsOf(d.session, p) \in SUBSET IncidentId /\ d.session \in [IncidentId -> Session]
  BY DEF SessionsOf, Good, DeskOK
<1>2. i \in SessionsOf(d.session, p) /\ \A j \in SessionsOf(d.session, p) : d.session[i].rank <= d.session[j].rank
  BY <1>1, FirstOfIsFirst
<1>3. i \in IncidentId /\ d.session[i].reporter = p /\ d.session[i].phase # "None"
  BY <1>2 DEF SessionsOf
<1>4. ASSUME NEW j \in IncidentId \ {i}, d.session[j].phase # "None", d.session[j].reporter = p
      PROVE  d.session[i].rank < d.session[j].rank
  <2>1. j \in SessionsOf(d.session, p)
    BY <1>4 DEF SessionsOf
  <2>2. d.session[i].rank <= d.session[j].rank /\ d.session[i].rank # d.session[j].rank
    BY <1>2, <1>3, <1>4, <2>1 DEF Good, InTurn
  <2>3. d.session[i].rank \in Nat /\ d.session[j].rank \in Nat
    BY <1>3, RankTypes DEF Good
  <2> QED  BY <2>2, <2>3
<1> QED  BY <1>3, <1>4

(* A handler that rewrites the first open session of a ped serves it.          *)
LEMMA FirstServed ==
    ASSUME NEW inc, NEW d, Good(d, inc), NEW p \in Peds, HasOpenFirst(d.session, p),
           NEW i, i = FirstOf(d.session, SessionsOf(d.session, p)), NEW e,
           \A j \in IncidentId \ {i} : e.session[j] = d.session[j],
           e.session[i].phase \in {"Dialing", "Active", "Ended"},
           e.session[i].reporter = d.session[i].reporter,
           e.session[i].rank = d.session[i].rank
    PROVE  /\ Serves(d, e, i) /\ SameReporters(d, e)
           /\ \A j \in IncidentId : e.session[j].phase = "Active" =>
                 \/ e.session[i].phase = "Active" /\ d.session[j].reporter = p
                 \/ d.session[j].phase = "Active" /\ d.session[j].reporter # p
<1>1. SessionsOf(d.session, p) # {} /\ IsOpen(d.session[i])
  BY DEF HasOpenFirst
<1>2. /\ i \in IncidentId /\ d.session[i].reporter = p
      /\ \A j \in IncidentId \ {i} :
            d.session[j].phase # "None" /\ d.session[j].reporter = p => d.session[i].rank < d.session[j].rank
  BY <1>1, FirstOpen
<1>3. \A j \in IncidentId : d.session[j].phase = "Active" /\ d.session[j].reporter = p => j = i
  BY LineIsFirst
<1> QED  BY <1>1, <1>2, <1>3 DEF Serves, SameReporters

(* What the theorems need of a handler called on a desk d that leaves e.       *)
Handled(d, e, inc) == Good(e, inc) /\ Moves(d, e, inc) /\ SameReporters(d, e)

(* Nothing done, nothing moves.                                                *)
LEMMA NothingHandled ==
    ASSUME NEW inc, NEW d, Good(d, inc)
    PROVE  Handled(d, d, inc)
<1>1. Frozen(d.cases, d.cases)
  BY DeskCases DEF Good, Frozen
<1> QED  BY <1>1 DEF Handled, Moves, PlaceMoves, SameReporters

(* A call has no case before it is on the line, and an open one then.          *)
LEMMA CaseOfOpen ==
    ASSUME NEW inc, NEW d, Good(d, inc), NEW i \in IncidentId, IsOpen(d.session[i])
    PROVE  /\ d.session[i] \in Session /\ d.session[i].kind \in CausalKind
           /\ d.session[i].case # 0 <=> d.session[i].phase = "Active"
           /\ d.session[i].case # 0 => /\ d.session[i].case \in DOMAIN d.cases
                                       /\ d.cases[d.session[i].case].incident = i
                                       /\ ~d.cases[d.session[i].case].finalized
<1>1. SessionOK(i, d.session[i], d.cases)
  BY DEF Good, DeskOK
<1>2. d.session[i].case \in 0 .. Len(d.cases) /\ DOMAIN d.cases = 1 .. Len(d.cases)
  BY DeskCases DEF Good
<1> QED  BY <1>1, <1>2 DEF SessionOK, IsOpen

(* on_report_task_dialing                                                      *)
LEMMA OnDialingMoves ==
    ASSUME NEW inc \in Seq(Incident), NEW d, Good(d, inc), NEW p \in Peds
    PROVE  /\ Handled(d, OnDialing(d, p), inc)
           /\ \A j \in IncidentId : OnDialing(d, p).session[j].phase = "Active" => d.session[j].phase = "Active"
<1> DEFINE i == FirstOf(d.session, SessionsOf(d.session, p))
           e == OnDialing(d, p)
<1>1. CASE SessionsOf(d.session, p) # {} /\ d.session[i].phase = "Approaching"
  <2>1. HasOpenFirst(d.session, p)
    BY <1>1 DEF HasOpenFirst, IsOpen
  <2> DEFINE s == d.session[i]
             t == Rewritten(s, "Dialing", s.collected, s.case, s.reason)
  <2>2. i \in IncidentId /\ IsOpen(s)
    BY <2>1, FirstOpen DEF HasOpenFirst
  <2>3. e = [d EXCEPT !.session[i].phase = "Dialing"]
    BY <1>1 DEF OnDialing
  <2>4. DeskOK(e)
    BY OnDialingKeepsDesk DEF Good
  <2>0. i = FirstOf(d.session, SessionsOf(d.session, p))
    OBVIOUS
  <2> HIDE DEF i, e
  <2>5. s \in Session /\ s.case = 0
    BY <1>1, <2>2, CaseOfOpen
  <2>6. [s EXCEPT !.phase = "Dialing"] = t
    BY <2>5 DEF Session, Rewritten
  <2>7. e.session = [d.session EXCEPT ![i] = t] /\ e.cases = d.cases
    BY <2>2, <2>3, <2>6 DEF Good, DeskOK
  <2>10. /\ e.session[i] = t /\ t.phase = "Dialing" /\ t.case = 0
         /\ t.reporter = s.reporter /\ t.rank = s.rank
         /\ \A j \in IncidentId \ {i} : e.session[j] = d.session[j]
    BY <2>2, <2>5, <2>7 DEF Good, DeskOK, Session, Rewritten
  <2> HIDE DEF t
  <2>8. /\ Serves(d, e, i) /\ e.session[i].phase = "Dialing" /\ e.session[i].case = 0
        /\ SameReporters(d, e)
        /\ \A j \in IncidentId : e.session[j].phase = "Active" => d.session[j].phase = "Active"
    BY <2>0, <2>1, <2>10, FirstServed
  <2>9. Good(e, inc) /\ Moves(d, e, inc)
    BY <2>2, <2>4, <2>5, <2>7, <2>8, NoCaseServed
  <2> QED  BY <2>8, <2>9 DEF Handled, e
<1>2. CASE ~(SessionsOf(d.session, p) # {} /\ d.session[i].phase = "Approaching")
  BY <1>2, NothingHandled DEF OnDialing
<1> QED  BY <1>1, <1>2

(* on_report_task_active, for a caller whose call is not on the line yet       *)
LEMMA OnActiveMoves ==
    ASSUME NEW inc \in Seq(Incident), NEW d, Good(d, inc), NEW p \in Peds,
           \A j \in IncidentId : d.session[j].phase = "Active" => d.session[j].reporter # p
    PROVE  /\ Handled(d, OnActive(d, p), inc)
           /\ \A j \in IncidentId : OnActive(d, p).session[j].phase = "Active" =>
                 d.session[j].phase = "Active" \/ d.session[j].reporter = p
<1> DEFINE i == FirstOf(d.session, SessionsOf(d.session, p))
           e == OnActive(d, p)
<1>1. CASE HasOpenFirst(d.session, p)
  <2> DEFINE s  == d.session[i]
             cl == Absorb(s)
             n  == Len(d.cases) + 1
             t  == Rewritten(s, "Active", cl, n, s.reason)
             k  == NewCase(i, p, cl)
  <2>2. /\ e.session = [d.session EXCEPT ![i].phase = "Active", ![i].collected = cl, ![i].case = n]
        /\ e.cases = Append(d.cases, k)
    BY <1>1 DEF OnActive
  <2>3. DeskOK(e)
    BY OnActiveKeepsDesk DEF Good
  <2>0. i = FirstOf(d.session, SessionsOf(d.session, p))
    OBVIOUS
  <2>5. SessionsOf(d.session, p) # {} /\ IsOpen(s)
    BY <1>1 DEF HasOpenFirst
  <2> HIDE DEF i, e
  <2>1. i \in IncidentId /\ IsOpen(s) /\ s.reporter = p
    BY <2>0, <2>5, FirstOpen
  <2>4. s \in Session /\ s.kind \in CausalKind /\ s.case = 0
    <3>1. s.phase # "Active"
      BY <2>1
    <3> QED  BY <2>1, <3>1, CaseOfOpen
  <2>11. cl \in Clues
    BY <2>4, CluesTypes
  <2> HIDE DEF cl
  <2>6. [s EXCEPT !.phase = "Active", !.collected = cl, !.case = n] = t
    BY <2>4 DEF Session, Rewritten
  <2>7. e.session = [d.session EXCEPT ![i] = t]
    BY <2>1, <2>2, <2>6 DEF Good, DeskOK
  <2>12. /\ e.session[i] = t /\ t.phase = "Active" /\ t.case = n
         /\ t.reporter = s.reporter /\ t.rank = s.rank
         /\ \A j \in IncidentId \ {i} : e.session[j] = d.session[j]
    BY <2>1, <2>4, <2>7 DEF Good, DeskOK, Session, Rewritten
  <2> HIDE DEF t
  <2>8. /\ Serves(d, e, i) /\ e.session[i].phase = "Active" /\ e.session[i].case = n
        /\ SameReporters(d, e)
        /\ \A j \in IncidentId : e.session[j].phase = "Active" =>
              d.session[j].phase = "Active" \/ d.session[j].reporter = p
    BY <1>1, <2>0, <2>12, FirstServed
  <2>9. k \in Case /\ k.incident = i /\ k.state = "Idle" /\ ~k.finalized
    BY <2>1, <2>11, NewCaseTypes DEF NewCase
  <2> HIDE DEF k, n
  <2>10. Good(e, inc) /\ Moves(d, e, inc)
    BY <2>1, <2>2, <2>3, <2>4, <2>8, <2>9, CaseOpened DEF n
  <2> QED  BY <2>8, <2>10 DEF Handled, e
<1>2. CASE ~HasOpenFirst(d.session, p)
  BY <1>2, NothingHandled DEF OnActive
<1> QED  BY <1>1, <1>2

(* The end of a call: what finalize_report makes of its case.                  *)
LEMMA CaseFinalized ==
    ASSUME NEW inc, NEW d, Good(d, inc), NEW i \in IncidentId, IsOpen(d.session[i]),
           d.session[i].case # 0, NEW cl \in Clues,
           NEW k, k = Finalize(d.cases[d.session[i].case], cl)
    PROVE  /\ k \in Case /\ k.incident = i /\ k.finalized
           /\ k.state = d.cases[d.session[i].case].state
<1> DEFINE c == d.cases[d.session[i].case]
<1>1. d.session[i].case \in DOMAIN d.cases /\ c.incident = i
  BY CaseOfOpen
<1>2. c \in Case
  BY <1>1, DeskCases DEF Good
<1> HIDE DEF c
<1>3. k \in Case /\ k.incident = c.incident /\ k.finalized
  BY <1>2, FinalizeTypes DEF c
<1>4. k.state = c.state
  BY <1>2 DEF Finalize, Case, c
<1> QED  BY <1>1, <1>3, <1>4 DEF c

(* on_report_task_ended: the call is over, its caller is not on the line       *)
LEMMA OnEndedMoves ==
    ASSUME NEW inc \in Seq(Incident), NEW d, Good(d, inc), NEW p \in Peds
    PROVE  /\ Handled(d, OnEnded(d, p), inc)
           /\ \A j \in IncidentId : OnEnded(d, p).session[j].phase = "Active" =>
                 d.session[j].phase = "Active" /\ d.session[j].reporter # p
<1> DEFINE i == FirstOf(d.session, SessionsOf(d.session, p))
           e == OnEnded(d, p)
<1>1. CASE HasOpenFirst(d.session, p)
  <2> DEFINE s == d.session[i]
             k == Finalize(d.cases[s.case], s.collected)
             t == Rewritten(s, "Ended", s.collected, s.case, "TaskCompleted")
  <2>1. /\ e.session = [d.session EXCEPT ![i].phase = "Ended", ![i].reason = "TaskCompleted"]
        /\ e.cases = IF s.case = 0 THEN d.cases ELSE [d.cases EXCEPT ![s.case] = k]
    BY <1>1 DEF OnEnded
  <2>2. DeskOK(e)
    BY OnEndedKeepsDesk DEF Good
  <2>3. i = FirstOf(d.session, SessionsOf(d.session, p))
    OBVIOUS
  <2>4. SessionsOf(d.session, p) # {} /\ IsOpen(s)
    BY <1>1 DEF HasOpenFirst
  <2> HIDE DEF i, e
  <2>5. i \in IncidentId
    BY <2>3, <2>4, FirstOpen
  <2>6. s \in Session /\ s.collected \in Clues
    BY <2>4, <2>5, CaseOfOpen DEF Session
  <2>7. [s EXCEPT !.phase = "Ended", !.reason = "TaskCompleted"] = t
    BY <2>6 DEF Session, Rewritten
  <2>8. e.session = [d.session EXCEPT ![i] = t]
    BY <2>1, <2>5, <2>7 DEF Good, DeskOK
  <2>9. /\ e.session[i] = t /\ t.phase = "Ended" /\ t.case = s.case
        /\ t.reporter = s.reporter /\ t.rank = s.rank
        /\ \A j \in IncidentId \ {i} : e.session[j] = d.session[j]
    BY <2>5, <2>6, <2>8 DEF Good, DeskOK, Session, Rewritten
  <2> HIDE DEF t, k
  <2>10. /\ Serves(d, e, i) /\ e.session[i].phase = "Ended" /\ e.session[i].case = s.case
         /\ SameReporters(d, e)
         /\ \A j \in IncidentId : e.session[j].phase = "Active" =>
               d.session[j].phase = "Active" /\ d.session[j].reporter # p
    BY <1>1, <2>3, <2>9, FirstServed
  <2>11. Good(e, inc) /\ Moves(d, e, inc)
    <3>1. CASE s.case = 0
      BY <2>1, <2>2, <2>5, <2>10, <3>1, NoCaseServed
    <3>2. CASE s.case # 0
      <4>1. k \in Case /\ k.incident = i /\ k.finalized /\ k.state = d.cases[s.case].state
        BY <2>4, <2>5, <2>6, <3>2, CaseFinalized DEF k
      <4>2. e.cases = [d.cases EXCEPT ![s.case] = k]
        BY <2>1, <3>2
      <4> QED  BY <2>2, <2>5, <2>10, <3>2, <4>1, <4>2, CaseClosed
    <3> QED  BY <3>1, <3>2
  <2> QED  BY <2>10, <2>11 DEF Handled, e
<1>2. CASE ~HasOpenFirst(d.session, p)
  BY <1>2, NothingHandled, LineIsFirst DEF OnEnded
<1> QED  BY <1>1, <1>2

(* on_reporter_interrupted: the caller is lost, a closed case remains          *)
LEMMA OnInterruptedMoves ==
    ASSUME NEW inc \in Seq(Incident), NEW d, Good(d, inc), NEW p \in Peds
    PROVE  /\ Handled(d, OnInterrupted(d, p), inc)
           /\ \A j \in IncidentId : OnInterrupted(d, p).session[j].phase = "Active" =>
                 d.session[j].phase = "Active" /\ d.session[j].reporter # p
<1> DEFINE i == FirstOf(d.session, SessionsOf(d.session, p))
           e == OnInterrupted(d, p)
<1>1. CASE HasOpenFirst(d.session, p)
  <2> DEFINE s  == d.session[i]
             cl == MarkInterrupted(SeedFromSession(s))
             n  == IF s.case = 0 THEN Len(d.cases) + 1 ELSE s.case
             k  == IF s.case = 0 THEN Finalize(NewCase(i, p, cl), cl)
                   ELSE Finalize(d.cases[s.case], cl)
             t  == Rewritten(s, "Ended", cl, n, "ReporterLost")
  <2>1. /\ e.session = [d.session EXCEPT ![i].phase = "Ended", ![i].collected = cl,
                                         ![i].case = n, ![i].reason = "ReporterLost"]
        /\ e.cases = IF s.case = 0 THEN Append(d.cases, k)
                     ELSE [d.cases EXCEPT ![s.case] = k]
    BY <1>1 DEF OnInterrupted
  <2>2. DeskOK(e)
    BY OnInterruptedKeepsDesk DEF Good
  <2>3. i = FirstOf(d.session, SessionsOf(d.session, p))
    OBVIOUS
  <2>4. SessionsOf(d.session, p) # {} /\ IsOpen(s)
    BY <1>1 DEF HasOpenFirst
  <2> HIDE DEF i, e
  <2>5. i \in IncidentId
    BY <2>3, <2>4, FirstOpen
  <2>6. s \in Session /\ s.kind \in CausalKind
    BY <2>4, <2>5, CaseOfOpen
  <2>7. cl \in Clues
    BY <2>6, CluesTypes
  <2> HIDE DEF cl
  <2>8. [s EXCEPT !.phase = "Ended", !.collected = cl, !.case = n, !.reason = "ReporterLost"] = t
    BY <2>6 DEF Session, Rewritten
  <2>9. e.session = [d.session EXCEPT ![i] = t]
    BY <2>1, <2>5, <2>8 DEF Good, DeskOK
  <2>10. /\ e.session[i] = t /\ t.phase = "Ended" /\ t.case = n
         /\ t.reporter = s.reporter /\ t.rank = s.rank
         /\ \A j \in IncidentId \ {i} : e.session[j] = d.session[j]
    BY <2>5, <2>6, <2>9 DEF Good, DeskOK, Session, Rewritten
  <2> HIDE DEF t, k
  <2>11. /\ Serves(d, e, i) /\ e.session[i].phase = "Ended" /\ e.session[i].case = n
         /\ SameReporters(d, e)
         /\ \A j \in IncidentId : e.session[j].phase = "Active" =>
               d.session[j].phase = "Active" /\ d.session[j].reporter # p
    BY <1>1, <2>3, <2>10, FirstServed
  <2>12. Good(e, inc) /\ Moves(d, e, inc)
    <3>1. CASE s.case = 0
      <4>1. /\ NewCase(i, p, cl) \in Case /\ NewCase(i, p, cl).incident = i
            /\ NewCase(i, p, cl).state = "Idle"
        BY <2>5, <2>7, NewCaseTypes DEF NewCase
      <4>2. k = Finalize(NewCase(i, p, cl), cl)
        BY <3>1 DEF k
      <4> HIDE DEF k
      <4>3. k \in Case /\ k.incident = i /\ k.finalized
        BY <2>7, <4>1, <4>2, FinalizeTypes
      <4>4. k.state = "Idle"
        BY <4>1, <4>2 DEF Finalize, Case
      <4>5. e.cases = Append(d.cases, k) /\ e.session[i].case = Len(d.cases) + 1
        BY <2>1, <2>11, <3>1
      <4> HIDE DEF n
      <4> QED  BY <2>2, <2>5, <2>11, <3>1, <4>3, <4>4, <4>5, CaseOpened
    <3>2. CASE s.case # 0
      <4>1. k \in Case /\ k.incident = i /\ k.finalized /\ k.state = d.cases[s.case].state
        BY <2>4, <2>5, <2>7, <3>2, CaseFinalized DEF k
      <4>2. e.cases = [d.cases EXCEPT ![s.case] = k] /\ e.session[i].case = s.case
        BY <2>1, <2>11, <3>2
      <4> HIDE DEF n
      <4> QED  BY <2>2, <2>5, <2>11, <3>2, <4>1, <4>2, CaseClosed
    <3> QED  BY <3>1, <3>2
  <2> QED  BY <2>11, <2>12 DEF Handled, e
<1>2. CASE ~HasOpenFirst(d.session, p)
  BY <1>2, NothingHandled, LineIsFirst DEF OnInterrupted
<1> QED  BY <1>1, <1>2

(* on_causal_signal: the clues change, nothing moves                           *)
LEMMA OnCausalSignalMoves ==
    ASSUME NEW inc \in Seq(Incident), NEW d, Good(d, inc),
           NEW i \in IncidentId, NEW kinds, NEW same \in BOOLEAN,
           NEW e, e = OnCausalSignal(d, i, kinds, same)
    PROVE  /\ Good(e, inc) /\ Frozen(d.cases, e.cases)
           /\ \A j \in IncidentId : /\ Place(j, inc, e) = Place(j, inc, d)
                                    /\ e.session[j].phase = d.session[j].phase
                                    /\ e.session[j].reporter = d.session[j].reporter
<1> DEFINE s == d.session[i]
           cl == RefreshSeverity(s.collected)
           k  == [d.cases[s.case] EXCEPT !.clues = cl]
<1>1. DeskOK(e)
  BY OnCausalSignalKeepsDesk DEF Good
<1>2. CASE s.phase = "Active" /\ s.kind \in kinds /\ same /\ s.perp = "address"
  <2>1. /\ e.session = [d.session EXCEPT ![i].collected = cl]
        /\ e.cases = [d.cases EXCEPT ![s.case].clues = cl]
    BY <1>2 DEF OnCausalSignal
  <2>2. /\ s \in Session /\ s.collected \in Clues /\ s.case \in DOMAIN d.cases
        /\ d.cases[s.case].incident = i /\ ~d.cases[s.case].finalized
    BY <1>2, CaseOfOpen DEF IsOpen, Session
  <2>3. cl \in Clues
    BY <2>2, CluesTypes
  <2> HIDE DEF cl
  <2>4. d.cases[s.case] \in Case
    BY <2>2, DeskCases DEF Good
  <2>5. k \in Case /\ k.incident = i /\ k.state = d.cases[s.case].state /\ ~k.finalized
    BY <2>2, <2>3, <2>4 DEF Case
  <2>6. e.cases = [d.cases EXCEPT ![s.case] = k]
    BY <2>1, <2>2
  <2> HIDE DEF k
  <2>7. \A j \in IncidentId : /\ e.session[j].phase = d.session[j].phase
                              /\ e.session[j].rank = d.session[j].rank
                              /\ e.session[j].reporter = d.session[j].reporter
                              /\ e.session[j].case = d.session[j].case
    <3>1. d.session \in [IncidentId -> Session]
      BY DEF Good, DeskOK
    <3>2. \A j \in IncidentId : e.session[j] = IF j = i THEN [s EXCEPT !.collected = cl] ELSE d.session[j]
      BY <2>1, <3>1
    <3> QED  BY <2>2, <3>2 DEF Session
  <2> QED  BY <1>1, <2>2, <2>5, <2>6, <2>7, CluesRewritten
<1>3. CASE ~(s.phase = "Active" /\ s.kind \in kinds /\ same /\ s.perp = "address")
  <2>1. e = d
    BY <1>3 DEF OnCausalSignal
  <2> QED  BY <2>1, NothingHandled DEF Handled, Moves
<1> QED  BY <1>2, <1>3

-----------------------------------------------------------------------------
(* Signals: an incident is opened, or said to be of more kinds.                *)

Grown(inc, jnc) ==
    /\ DOMAIN inc \subseteq DOMAIN jnc
    /\ Exhausted(jnc) = Exhausted(inc)

(* IncidentStore::ingest exhausts no incident and forgets none.                *)
LEMMA IngestGrows ==
    ASSUME incidents \in Seq(Incident), NEW i \in IncidentId, NEW kinds \in SUBSET CausalKind
    PROVE  Grown(incidents, Ingest(i, kinds))
<1>1. Len(incidents) \in Nat /\ DOMAIN incidents = 1 .. Len(incidents) /\ i \in Nat /\ i >= 1
  BY PipelineAssumption DEF IncidentId
<1>2. CASE i > Len(incidents)
  <2> DEFINE new == [kinds |-> kinds, exhausted |-> FALSE]
             jnc == Append(incidents, new)
  <2>1. Ingest(i, kinds) = jnc
    BY <1>2 DEF Ingest
  <2>2. new \in Incident /\ ~new.exhausted
    BY DEF Incident
  <2> HIDE DEF new
  <2>3. /\ DOMAIN jnc = DOMAIN incidents \cup {Len(incidents) + 1}
        /\ ~jnc[Len(incidents) + 1].exhausted
        /\ \A j \in DOMAIN incidents : jnc[j] = incidents[j]
        /\ Len(incidents) + 1 \notin DOMAIN incidents
    BY <1>1, <2>2
  <2> HIDE DEF jnc
  <2> QED  BY <2>1, <2>3 DEF Grown, Exhausted
<1>3. CASE ~(i > Len(incidents))
  <2> DEFINE jnc == [incidents EXCEPT ![i].kinds = @ \cup kinds]
  <2>1. Ingest(i, kinds) = jnc
    BY <1>3 DEF Ingest
  <2>2. \A j \in DOMAIN incidents : incidents[j] \in Incident
    OBVIOUS
  <2>3. /\ DOMAIN jnc = DOMAIN incidents
        /\ \A j \in DOMAIN incidents : jnc[j].exhausted <=> incidents[j].exhausted
    BY <2>2 DEF Incident
  <2> HIDE DEF jnc
  <2> QED  BY <2>1, <2>3 DEF Grown, Exhausted
<1> QED  BY <1>2, <1>3

(* A new incident is known and nothing else is said of it.                     *)
LEMMA GrownPlaces ==
    ASSUME NEW inc, NEW d, Good(d, inc), NEW jnc, Grown(inc, jnc)
    PROVE  /\ Good(d, jnc)
           /\ \A i \in IncidentId :
                 \/ Place(i, jnc, d) = Place(i, inc, d)
                 \/ i \notin DOMAIN inc /\ Place(i, jnc, d) = "known"
<1>1. Good(d, jnc)
  BY DEF Good, Known, Grown
<1>2. ASSUME NEW i \in IncidentId
      PROVE  \/ Place(i, jnc, d) = Place(i, inc, d)
             \/ i \notin DOMAIN inc /\ Place(i, jnc, d) = "known"
  <2>1. OneCase(d.cases)
    BY DEF Good
  <2>2. CASE i \in DOMAIN inc
    <3>1. i \in DOMAIN jnc /\ (jnc[i].exhausted <=> inc[i].exhausted)
      BY <2>2 DEF Grown, Exhausted
    <3>2. CASE HasCase(d.cases, i)
      BY <2>1, <2>2, <3>1, <3>2, Places DEF HasCase
    <3>3. CASE ~HasCase(d.cases, i)
      BY <2>1, <2>2, <3>1, <3>3, Places
    <3> QED  BY <3>2, <3>3
  <2>3. CASE i \notin DOMAIN inc
    <3>1. d.session[i].phase = "None" /\ ~HasCase(d.cases, i) /\ ~IsOpen(d.session[i])
      BY <2>3 DEF Good, Known, Exhausted, HasCase, IsOpen
    <3>2. i \in DOMAIN jnc => ~jnc[i].exhausted
      BY <2>3 DEF Grown, Exhausted
    <3> QED  BY <2>1, <2>3, <3>1, <3>2, Places
  <2> QED  BY <2>2, <2>3
<1> QED  BY <1>1, <1>2

(* One step of every incident's life, from desk d to desk e.                   *)
Advances(d, inc, e, jnc) ==
    /\ Frozen(d.cases, e.cases)
    /\ \A i \in IncidentId : \/ Place(i, jnc, e) = Place(i, inc, d)
                             \/ <<Place(i, inc, d), Place(i, jnc, e)>> \in Reporting!Steps

(* What no published signal changes.                                           *)
SameSessions(d, e) ==
    \A j \in IncidentId : e.session[j].phase = d.session[j].phase /\ e.session[j].reporter = d.session[j].reporter

(* What was frozen stays frozen when more is.                                  *)
LEMMA FrozenTwice ==
    ASSUME NEW c, NEW d, NEW e, DeskOK(c), DeskOK(d), DeskOK(e),
           Frozen(c.cases, d.cases), Frozen(d.cases, e.cases)
    PROVE  Frozen(c.cases, e.cases)
<1> SUFFICES ASSUME NEW n \in DOMAIN c.cases, c.cases[n].finalized
             PROVE  n \in DOMAIN e.cases /\ [e.cases[n] EXCEPT !.state = c.cases[n].state] = c.cases[n]
  BY DEF Frozen
<1>1. n \in DOMAIN d.cases /\ [d.cases[n] EXCEPT !.state = c.cases[n].state] = c.cases[n]
  BY DEF Frozen
<1>2. c.cases[n] \in Case /\ d.cases[n] \in Case
  BY <1>1, DeskCases
<1>3. d.cases[n].finalized
  BY <1>1, <1>2 DEF Case
<1>4. n \in DOMAIN e.cases /\ [e.cases[n] EXCEPT !.state = d.cases[n].state] = d.cases[n]
  BY <1>1, <1>3 DEF Frozen
<1>5. e.cases[n] \in Case
  BY <1>4, DeskCases
<1>6. [e.cases[n] EXCEPT !.state = c.cases[n].state] = [d.cases[n] EXCEPT !.state = c.cases[n].state]
  BY <1>2, <1>4, <1>5 DEF Case
<1> QED  BY <1>1, <1>4, <1>6

(* publish_signal, after a handler has left the desk d for the desk c it saw.  *)
LEMMA PublishMoves ==
    ASSUME IInv, NEW c, Good(c, incidents), NEW d, Good(d, incidents), Moves(c, d, incidents),
           NEW kinds \in SUBSET CausalKind, Publish(d, kinds)
    PROVE  \E e : /\ SetDesk(e) /\ Good(e, incidents') /\ SameSessions(d, e)
                  /\ Advances(c, incidents, e, incidents')
<1>1. incidents \in Seq(Incident) /\ Len(incidents) \in Nat /\ Len(incidents) <= MaxIncidents /\ MaxIncidents \in Nat
  BY IInvParts, PipelineAssumption DEF RestOK
<1>2. PICK known \in 0 .. Len(incidents), same \in BOOLEAN :
        LET i == Correlate(d, known)
        IN  /\ i <= MaxIncidents
            /\ incidents' = Ingest(i, kinds)
            /\ SetDesk(OnCausalSignal(d, i, kinds, same))
  BY DEF Publish
<1> DEFINE i == Correlate(d, known)
           e == OnCausalSignal(d, i, kinds, same)
<1>3. i \in IncidentId
  <2>1. CASE known # 0
    BY <1>1, <1>2, <2>1 DEF Correlate, IncidentId
  <2>2. CASE known = 0 /\ ActiveSessions(d.session) # {}
    <3>1. ActiveSessions(d.session) \subseteq IncidentId
      BY DEF ActiveSessions
    <3>2. FirstOf(d.session, ActiveSessions(d.session)) \in IncidentId
      BY <2>2, <3>1, FirstOfIsFirst DEF Good, DeskOK
    <3> QED  BY <2>2, <3>2 DEF Correlate
  <2>3. CASE known = 0 /\ ActiveSessions(d.session) = {}
    BY <1>1, <1>2, <2>3 DEF Correlate, IncidentId
  <2> QED  BY <2>1, <2>2, <2>3
<1>4. SetDesk(e) /\ incidents' = Ingest(i, kinds)
  BY <1>2
<1> HIDE DEF i
<1>5. /\ Good(e, incidents) /\ Frozen(d.cases, e.cases) /\ SameSessions(d, e)
      /\ \A j \in IncidentId : Place(j, incidents, e) = Place(j, incidents, d)
  BY <1>1, <1>3, OnCausalSignalMoves DEF SameSessions
<1> HIDE DEF e
<1>6. Grown(incidents, incidents')
  BY <1>1, <1>3, <1>4, IngestGrows
<1>7. /\ Good(e, incidents')
      /\ \A j \in IncidentId :
            \/ Place(j, incidents', e) = Place(j, incidents, e)
            \/ j \notin DOMAIN incidents /\ Place(j, incidents', e) = "known"
  BY <1>5, <1>6, GrownPlaces
<1>8. Frozen(c.cases, e.cases)
  BY <1>5, FrozenTwice DEF Moves, Good
<1>9. ASSUME NEW j \in IncidentId
      PROVE  \/ Place(j, incidents', e) = Place(j, incidents, c)
             \/ <<Place(j, incidents, c), Place(j, incidents', e)>> \in Reporting!Steps
  <2>1. CASE Place(j, incidents', e) = Place(j, incidents, e)
    BY <1>5, <2>1 DEF Moves, PlaceMoves
  <2>2. CASE j \notin DOMAIN incidents /\ Place(j, incidents', e) = "known"
    <3>1. Place(j, incidents, c) = "unknown"
      BY <2>2, Places DEF Good
    <3> QED  BY <2>2, <3>1 DEF Reporting!Steps
  <2> QED  BY <1>7, <2>1, <2>2
<1> QED  BY <1>4, <1>5, <1>7, <1>8, <1>9 DEF Advances

-----------------------------------------------------------------------------
(* The frame's sweeps over all sessions and all cases.                         *)

NextDesk == [session |-> session', cases |-> cases']

(* The desk of the next state is as sound as the first invariant makes it.     *)
LEMMA NextDeskOK ==
    ASSUME IInv'
    PROVE  DeskOK(NextDesk)
<1>1. NextDesk \in [session : [IncidentId -> Session], cases : Seq(Case)]
  BY DEF IInv, TypeOK, NextDesk
<1>2. ASSUME NEW i \in IncidentId PROVE SessionOK(i, session'[i], cases')
  BY DEF IInv, TypeOK, SessionsAreWhole, CallAndCaseAgree, SessionOK
<1> QED  BY <1>1, <1>2 DEF DeskOK, NextDesk

(* Dropping the ended sessions moves nothing: their cases are closed, and an   *)
(* exhausted incident without one stays dropped.                               *)
LEMMA RetainOpenMoves ==
    ASSUME IInv', Good(Desk, incidents), RetainOpen
    PROVE  /\ Good(NextDesk, incidents') /\ Advances(Desk, incidents, NextDesk, incidents')
           /\ \A i \in IncidentId : session'[i].phase = "Active" => session'[i] = session[i]
<1>1. /\ \A i \in IncidentId : \/ session'[i] = session[i]
                               \/ /\ session[i].phase = "Ended"
                                  /\ session'[i].phase = "None"
      /\ cases' = cases /\ incidents' = incidents
  BY DEF RetainOpen, NoSession
<1>2. DeskOK(NextDesk)
  BY NextDeskOK
<1>3. InTurn(NextDesk.session)
  BY <1>1 DEF Good, InTurn, Desk, NextDesk
<1>4. Known(NextDesk, incidents')
  BY <1>1 DEF Good, Known, Desk, NextDesk
<1>5. OneCase(NextDesk.cases)
  BY <1>1 DEF Good, Desk, NextDesk
<1>6. WholeCases(NextDesk)
  <2>1. \A c \in DOMAIN cases : cases[c].incident \in IncidentId
    <3>1. DeskOK(Desk) /\ Desk.cases = cases
      BY DEF Good, Desk
    <3> QED  BY <3>1, DeskCases
  <2> QED  BY <1>1, <2>1 DEF Good, WholeCases, IsOpen, Desk, NextDesk
<1>7. Frozen(Desk.cases, NextDesk.cases)
  BY <1>1, NothingHandled DEF Handled, Moves, Desk, NextDesk
<1>8. ASSUME NEW i \in IncidentId PROVE Place(i, incidents', NextDesk) = Place(i, incidents, Desk)
  <2>1. IsOpen(NextDesk.session[i]) <=> IsOpen(Desk.session[i])
    BY <1>1 DEF IsOpen, Desk, NextDesk
  <2>2. NextDesk.cases = Desk.cases /\ OneCase(Desk.cases)
    BY <1>1 DEF Desk, NextDesk, Good
  <2>3. Place(i, incidents, NextDesk) = Place(i, incidents, Desk)
    BY <2>1, <2>2, SamePlace
  <2> QED  BY <1>1, <2>3
<1>9. \A i \in IncidentId : session'[i].phase = "Active" => session'[i] = session[i]
  BY <1>1
<1> QED  BY <1>2, <1>3, <1>4, <1>5, <1>6, <1>7, <1>8, <1>9 DEF Good, Advances

(* CaseStore::tick: a closed case goes to dispatch, the others stay.           *)
LEMMA CasesTickMoves ==
    ASSUME IInv', Good(Desk, incidents), CasesTick
    PROVE  Good(NextDesk, incidents') /\ Advances(Desk, incidents, NextDesk, incidents')
<1>1. \A c \in DOMAIN cases : cases[c] \in Case /\ cases[c].incident \in IncidentId
  <2>1. DeskOK(Desk) /\ Desk.cases = cases
    BY DEF Good, Desk
  <2> QED  BY <2>1, DeskCases
<1>2. session' = session /\ incidents' = incidents /\ DOMAIN cases' = DOMAIN cases
  BY DEF CasesTick
<1>3. ASSUME NEW c \in DOMAIN cases
      PROVE  /\ cases'[c].incident = cases[c].incident
             /\ cases'[c].finalized <=> cases[c].finalized
             /\ cases'[c].state = IF cases[c].finalized THEN "Timing" ELSE cases[c].state
             /\ [cases'[c] EXCEPT !.state = cases[c].state] = cases[c]
  <2>1. cases'[c] = IF cases[c].state = "Idle" /\ cases[c].finalized
                    THEN [cases[c] EXCEPT !.state = "Timing"] ELSE cases[c]
    BY DEF CasesTick
  <2>2. cases[c] \in Case /\ cases[c].state \in {"Idle", "Timing"}
    BY <1>1 DEF Case
  <2> QED  BY <2>1, <2>2 DEF Case
<1>4. DeskOK(NextDesk)
  BY NextDeskOK
<1>5. InTurn(NextDesk.session)
  BY <1>2 DEF Good, Desk, NextDesk
<1>6. Known(NextDesk, incidents')
  BY <1>2, <1>3 DEF Good, Known, Desk, NextDesk
<1>7. OneCase(NextDesk.cases)
  BY <1>2, <1>3 DEF Good, OneCase, Desk, NextDesk
<1>8. \A i : HasCase(cases', i) <=> HasCase(cases, i)
  BY <1>2, <1>3 DEF HasCase
<1>9. WholeCases(NextDesk)
  <2>1. ASSUME NEW c \in DOMAIN cases', ~cases'[c].finalized
        PROVE  session'[cases'[c].incident].phase = "Active" /\ session'[cases'[c].incident].case = c
    BY <1>2, <1>3, <2>1 DEF Good, WholeCases, Desk
  <2>2. \A i \in IncidentId : IsOpen(session'[i]) /\ session'[i].case = 0 => ~HasCase(cases', i)
    BY <1>2, <1>8 DEF Good, WholeCases, Desk
  <2>3. \A c \in DOMAIN cases' : cases'[c].state = "Timing" => cases'[c].finalized
    BY <1>2, <1>3 DEF Good, WholeCases, Desk
  <2> QED  BY <2>1, <2>2, <2>3 DEF WholeCases, NextDesk
<1>10. Frozen(Desk.cases, NextDesk.cases)
  BY <1>2, <1>3 DEF Frozen, Desk, NextDesk
<1>11. ASSUME NEW i \in IncidentId
       PROVE  \/ Place(i, incidents', NextDesk) = Place(i, incidents, Desk)
              \/ <<Place(i, incidents, Desk), Place(i, incidents', NextDesk)>> \in Reporting!Steps
  <2>1. OneCase(Desk.cases) /\ OneCase(NextDesk.cases)
    BY <1>7 DEF Good
  <2>2. CASE i \notin DOMAIN incidents
    BY <1>2, <2>1, <2>2, Places
  <2>3. CASE i \in DOMAIN incidents /\ ~HasCase(cases, i)
    BY <1>2, <1>8, <2>1, <2>3, Places DEF Desk, NextDesk
  <2>4. CASE i \in DOMAIN incidents /\ HasCase(cases, i)
    <3>1. PICK c \in DOMAIN cases : cases[c].incident = i
      BY <2>4 DEF HasCase
    <3>2. Place(i, incidents, Desk) = IF cases[c].state = "Timing" THEN "dispatching"
                                      ELSE IF cases[c].finalized THEN "closed" ELSE "onCall"
      BY <2>1, <2>4, <3>1, Places DEF Desk
    <3>3. Place(i, incidents', NextDesk) = IF cases'[c].state = "Timing" THEN "dispatching"
                                           ELSE IF cases'[c].finalized THEN "closed" ELSE "onCall"
      BY <1>2, <1>3, <2>1, <2>4, <3>1, Places DEF NextDesk
    <3>4. cases[c].state = "Timing" => cases[c].finalized
      BY <3>1 DEF Good, WholeCases, Desk
    <3> QED  BY <1>3, <3>1, <3>2, <3>3, <3>4 DEF Reporting!Steps
  <2> QED  BY <2>2, <2>3, <2>4
<1> QED  BY <1>4, <1>5, <1>6, <1>7, <1>9, <1>10, <1>11 DEF Good, Advances

(* The rank of i, elected with E.                                              *)
Upto(E, i) == {j \in E : j <= i}
RankIn(inc, E, i) == Cardinality(Exhausted(inc)) + Cardinality(Upto(E, i))

(* Elected incidents are ranked one after another, behind all earlier ones.    *)
LEMMA RanksInOrder ==
    ASSUME NEW inc \in Seq(Incident), NEW jnc \in Seq(Incident), NEW E \in SUBSET DOMAIN inc,
           \A i \in E : ~inc[i].exhausted, Exhausted(jnc) = Exhausted(inc) \cup E
    PROVE  /\ Cardinality(Exhausted(inc)) \in Nat /\ Cardinality(Exhausted(jnc)) \in Nat
           /\ Cardinality(Exhausted(inc)) <= Cardinality(Exhausted(jnc))
           /\ \A i \in E : /\ RankIn(inc, E, i) \in Nat
                           /\ Cardinality(Exhausted(inc)) < RankIn(inc, E, i)
                           /\ RankIn(inc, E, i) <= Cardinality(Exhausted(jnc))
           /\ \A i, j \in E : i # j => RankIn(inc, E, i) # RankIn(inc, E, j)
<1> DEFINE X == Exhausted(inc)
<1>1. Len(inc) \in Nat /\ DOMAIN inc = 1 .. Len(inc)
  OBVIOUS
<1>2. IsFiniteSet(DOMAIN inc)
  BY <1>1, FS_Interval
<1>3. X \subseteq DOMAIN inc /\ X \cap E = {}
  BY DEF Exhausted
<1> HIDE DEF X
<1>4. IsFiniteSet(X) /\ IsFiniteSet(E)
  BY <1>2, <1>3, FS_Subset
<1>5. Cardinality(X) \in Nat /\ Cardinality(E) \in Nat
  BY <1>4, FS_CardinalityType
<1>6. Cardinality(X \cup E) = Cardinality(X) + Cardinality(E)
  <2>1. Cardinality(X \cap E) = 0
    BY <1>3, FS_EmptySet
  <2>2. Cardinality(X \cup E) = Cardinality(X) + Cardinality(E) - Cardinality(X \cap E)
    BY <1>4, FS_Union
  <2> QED  BY <1>5, <2>1, <2>2
<1>7. E \subseteq Nat
  BY <1>1
<1>8. ASSUME NEW i \in E
      PROVE  /\ IsFiniteSet(Upto(E, i)) /\ Cardinality(Upto(E, i)) \in Nat
             /\ Cardinality(Upto(E, i)) <= Cardinality(E) /\ Cardinality(Upto(E, i)) # 0
  <2>1. Upto(E, i) \in SUBSET E /\ i \in Upto(E, i)
    BY <1>7 DEF Upto
  <2>2. IsFiniteSet(Upto(E, i)) /\ Cardinality(Upto(E, i)) <= Cardinality(E)
    BY <1>4, <2>1, FS_Subset
  <2>3. Cardinality(Upto(E, i)) \in Nat /\ Cardinality(Upto(E, i)) # 0
    BY <2>1, <2>2, FS_CardinalityType, FS_EmptySet
  <2> QED  BY <2>2, <2>3
<1>9. ASSUME NEW i \in E, NEW j \in E, i < j
      PROVE  Cardinality(Upto(E, i)) # Cardinality(Upto(E, j))
  <2>1. Upto(E, i) \in SUBSET Upto(E, j) /\ j \in Upto(E, j) /\ j \notin Upto(E, i)
    BY <1>7, <1>9 DEF Upto
  <2>2. IsFiniteSet(Upto(E, j))
    BY <1>8
  <2> QED  BY <2>1, <2>2, FS_Subset
<1>10. \A i \in E : RankIn(inc, E, i) = Cardinality(X) + Cardinality(Upto(E, i))
  BY DEF X, RankIn
<1>11. \A i \in E : RankIn(inc, E, i) \in Nat /\ Cardinality(X) < RankIn(inc, E, i) /\ RankIn(inc, E, i) <= Cardinality(X) + Cardinality(E)
  BY <1>5, <1>8, <1>10
<1>12. ASSUME NEW i \in E, NEW j \in E, i # j PROVE RankIn(inc, E, i) # RankIn(inc, E, j)
  <2>1. Cardinality(Upto(E, i)) # Cardinality(Upto(E, j))
    <3>1. i < j \/ j < i
      BY <1>7, <1>12
    <3> QED  BY <1>9, <3>1
  <2> QED  BY <1>5, <1>8, <1>10, <2>1
<1>13. Cardinality(Exhausted(jnc)) = Cardinality(X) + Cardinality(E)
  BY <1>6 DEF X
<1>14. /\ Cardinality(X) \in Nat /\ Cardinality(Exhausted(jnc)) \in Nat
       /\ Cardinality(X) <= Cardinality(Exhausted(jnc))
  BY <1>5, <1>13
<1>15. \A i \in E : /\ RankIn(inc, E, i) \in Nat /\ Cardinality(X) < RankIn(inc, E, i)
                    /\ RankIn(inc, E, i) <= Cardinality(Exhausted(jnc))
  BY <1>11, <1>13
<1> QED  BY <1>12, <1>14, <1>15 DEF X

(* try_civilian_reports: an elected incident, known and unreported, is claimed *)
(* behind all the reports opened before.                                       *)
LEMMA StartReportsMoves ==
    ASSUME IInv, IInv', Good(Desk, incidents), StartReports
    PROVE  /\ Good(NextDesk, incidents') /\ Advances(Desk, incidents, NextDesk, incidents')
           /\ \A i \in IncidentId : session'[i].phase = "Active" => session'[i] = session[i]
<1> DEFINE E      == {i \in DOMAIN incidents : WarrantsReport(i)}
           before == Cardinality({i \in DOMAIN incidents : incidents[i].exhausted})
           rank   == [i \in E |-> before + Cardinality({j \in E : j <= i})]
           last   == Cardinality(Exhausted(incidents'))
<1>1. PICK elected \in [E -> observations] :
         /\ session' = [i \in IncidentId |->
                IF i \in E
                THEN [NoSession EXCEPT
                        !.phase = "Approaching",
                        !.reporter = elected[i].ped,
                        !.rank = before + Cardinality({j \in E : j <= i}),
                        !.kind = elected[i].kind,
                        !.perp = elected[i].perp]
                ELSE session[i]]
         /\ incidents' = [i \in DOMAIN incidents |->
                IF i \in E THEN [incidents[i] EXCEPT !.exhausted = TRUE]
                ELSE incidents[i]]
  BY DEF StartReports
<1>2. /\ \A i \in E : ~incidents[i].exhausted /\ ~HasCase(cases, i) /\ ~IsOpen(session[i])
      /\ E \subseteq DOMAIN incidents
  BY DEF WarrantsReport
<1>3. before = Cardinality(Exhausted(incidents)) /\ cases' = cases
  BY DEF Exhausted, StartReports
<1> HIDE DEF E
<1>4. /\ incidents \in Seq(Incident) /\ incidents' \in Seq(Incident)
      /\ DOMAIN incidents \subseteq IncidentId
  BY PipelineAssumption DEF IInv, TypeOK, Incident, IncidentId
<1>5. /\ \A i \in IncidentId \cap E :
            /\ session'[i].phase = "Approaching" /\ session'[i].case = 0
            /\ session'[i].rank = rank[i]
      /\ \A i \in IncidentId \ E : session'[i] = session[i]
  BY <1>1 DEF NoSession
<1>6. /\ DOMAIN incidents' = DOMAIN incidents
      /\ \A i \in DOMAIN incidents : incidents'[i].exhausted <=> i \in E \/ incidents[i].exhausted
  <2>1. \A i \in DOMAIN incidents : incidents[i] \in Incident
    BY <1>4
  <2> QED  BY <1>1, <2>1 DEF Incident
<1>7. Exhausted(incidents') = Exhausted(incidents) \cup E
  BY <1>2, <1>6 DEF Exhausted
<1>8. \A i \in E : rank[i] = RankIn(incidents, E, i)
  BY <1>3 DEF Upto, RankIn
<1> HIDE DEF rank, before
<1>9. /\ before \in Nat /\ last \in Nat /\ before <= last
      /\ \A i \in E : rank[i] \in Nat /\ before < rank[i] /\ rank[i] <= last
      /\ \A i, j \in E : i # j => rank[i] # rank[j]
  <2>1. E \in SUBSET DOMAIN incidents /\ \A i \in E : ~incidents[i].exhausted
    BY <1>2
  <2> DEFINE jnc == incidents'
             old == Cardinality(Exhausted(incidents))
  <2>2. jnc \in Seq(Incident) /\ Exhausted(jnc) = Exhausted(incidents) \cup E
    BY <1>4, <1>7
  <2> HIDE DEF jnc
  <2>3. /\ old \in Nat /\ Cardinality(Exhausted(jnc)) \in Nat /\ old <= Cardinality(Exhausted(jnc))
        /\ \A i \in E : /\ RankIn(incidents, E, i) \in Nat /\ old < RankIn(incidents, E, i)
                        /\ RankIn(incidents, E, i) <= Cardinality(Exhausted(jnc))
        /\ \A i, j \in E : i # j => RankIn(incidents, E, i) # RankIn(incidents, E, j)
    BY <1>4, <2>1, <2>2, RanksInOrder
  <2> QED  BY <1>3, <1>8, <2>3 DEF jnc
<1> HIDE DEF last
<1>10. \A i \in IncidentId \ E : session[i].phase # "None" =>
          /\ i \in Exhausted(incidents)
          /\ session[i].rank \in Nat /\ session[i].rank <= before
  <2>1. DeskOK(Desk) /\ Desk.session = session
    BY DEF Good, Desk
  <2>2. \A i \in IncidentId : session[i].rank \in Nat
    BY <2>1, RankTypes
  <2> QED  BY <1>3, <2>2 DEF Good, Known, Desk
<1>11. DeskOK(NextDesk)
  BY NextDeskOK
<1>12. InTurn(session')
  <2> SUFFICES ASSUME NEW i \in IncidentId, NEW j \in IncidentId, i # j,
                      session'[i].phase # "None", session'[j].phase # "None"
               PROVE  /\ session'[i].rank # session'[j].rank
                      /\ session'[i].reporter = session'[j].reporter /\ session'[i].phase # "Approaching"
                            => session'[i].rank < session'[j].rank
    BY DEF InTurn
  <2>1. CASE i \in E /\ j \in E
    BY <1>5, <1>9, <2>1
  <2>2. CASE i \in E /\ j \notin E
    BY <1>5, <1>9, <1>10, <2>2
  <2>3. CASE i \notin E /\ j \in E
    BY <1>5, <1>9, <1>10, <2>3
  <2>4. CASE i \notin E /\ j \notin E
    BY <1>5, <2>4 DEF Good, InTurn, Desk
  <2> QED  BY <2>1, <2>2, <2>3, <2>4
<1>13. Known(NextDesk, incidents')
  <2>1. ASSUME NEW i \in IncidentId, session'[i].phase # "None"
        PROVE  i \in Exhausted(incidents') /\ session'[i].rank <= last
    <3>1. CASE i \in E
      BY <1>5, <1>7, <1>9, <3>1
    <3>2. CASE i \notin E
      BY <1>5, <1>7, <1>9, <1>10, <2>1, <3>2
    <3> QED  BY <3>1, <3>2
  <2>2. \A c \in DOMAIN cases' : cases'[c].incident \in DOMAIN incidents'
    BY <1>3, <1>6 DEF Good, Known, Desk
  <2> QED  BY <2>1, <2>2 DEF Known, NextDesk, last
<1>14. OneCase(NextDesk.cases)
  BY <1>3 DEF Good, Desk, NextDesk
<1>15. WholeCases(NextDesk)
  <2>1. ASSUME NEW c \in DOMAIN cases, ~cases[c].finalized
        PROVE  session'[cases[c].incident].phase = "Active" /\ session'[cases[c].incident].case = c
    <3>1. cases[c].incident \in DOMAIN incidents /\ cases[c].incident \notin E
      BY <1>2, <2>1 DEF Good, Known, Desk, HasCase
    <3> QED  BY <1>4, <1>5, <2>1, <3>1 DEF Good, WholeCases, Desk
  <2>2. ASSUME NEW i \in IncidentId, IsOpen(session'[i]), session'[i].case = 0
        PROVE  ~HasCase(cases, i)
    BY <1>2, <1>5, <2>2 DEF Good, WholeCases, Desk
  <2>3. \A c \in DOMAIN cases : cases[c].state = "Timing" => cases[c].finalized
    BY DEF Good, WholeCases, Desk
  <2> QED  BY <1>3, <2>1, <2>2, <2>3 DEF WholeCases, NextDesk
<1>16. Frozen(Desk.cases, NextDesk.cases)
  BY <1>3, NothingHandled DEF Handled, Moves, Desk, NextDesk
<1>17. ASSUME NEW i \in IncidentId
       PROVE  \/ Place(i, incidents', NextDesk) = Place(i, incidents, Desk)
              \/ <<Place(i, incidents, Desk), Place(i, incidents', NextDesk)>> \in Reporting!Steps
  <2>1. OneCase(Desk.cases) /\ OneCase(NextDesk.cases)
    BY <1>14 DEF Good
  <2>2. CASE i \in E
    <3>1. Place(i, incidents, Desk) = "known"
      BY <1>2, <2>1, <2>2, Places DEF Desk
    <3>2. IsOpen(session'[i]) /\ ~HasCase(cases', i)
      BY <1>2, <1>3, <1>5, <2>2 DEF IsOpen
    <3>3. Place(i, incidents', NextDesk) = "claimed"
      BY <1>2, <1>6, <2>1, <2>2, <3>2, Places DEF NextDesk
    <3> QED  BY <3>1, <3>3 DEF Reporting!Steps
  <2>3. CASE i \notin DOMAIN incidents
    BY <1>6, <2>1, <2>3, Places
  <2>4. CASE i \in DOMAIN incidents \ E /\ HasCase(cases, i)
    BY <1>3, <1>6, <2>1, <2>4, Places DEF HasCase, Desk, NextDesk
  <2>5. CASE i \in DOMAIN incidents \ E /\ ~HasCase(cases, i)
    <3>1. Place(i, incidents, Desk) = IF IsOpen(session[i]) THEN "claimed"
                                      ELSE IF incidents[i].exhausted THEN "dropped" ELSE "known"
      BY <2>1, <2>5, Places DEF Desk
    <3>2. Place(i, incidents', NextDesk) = IF IsOpen(session'[i]) THEN "claimed"
                                           ELSE IF incidents'[i].exhausted THEN "dropped" ELSE "known"
      BY <1>3, <1>6, <2>1, <2>5, Places DEF NextDesk
    <3> QED  BY <1>5, <1>6, <2>5, <3>1, <3>2
  <2> QED  BY <2>2, <2>3, <2>4, <2>5
<1>18. \A i \in IncidentId : session'[i].phase = "Active" => session'[i] = session[i]
  BY <1>5
<1> QED  BY <1>11, <1>12, <1>13, <1>14, <1>15, <1>16, <1>17, <1>18 DEF Good, Advances, NextDesk

-----------------------------------------------------------------------------
(* ReportInv is inductive, and every step freezes and advances.                *)

OnLine(p) == \E i \in IncidentId : session[i].phase = "Active" /\ session[i].reporter = p

(* DriverRemembers for one ped.                                                *)
TaskOK(p) == task[p] # "none" => Live(p) /\ p \in dispatched
LineOK(p) ==
    /\ p \in dispatched \/ (stage \in {"idle", "reporters"} /\ ~Live(p))
    /\ p \notin Cops => /\ task[p] # "in"
                        /\ task[p] = "talk" => lastPhase[p] = "Active"

(* What every step does.                                                       *)
Stepped ==
    /\ ReportInv'
    /\ Frozen(cases, cases')
    /\ \A i \in IncidentId : \/ Status(i)' = Status(i)
                             \/ <<Status(i), Status(i)'>> \in Reporting!Steps

(* The invariant as facts about the desk and about each ped, the form the      *)
(* lemmas use.                                                                 *)
LEMMA ReportParts ==
    ASSUME IInv, ReportInv
    PROVE  /\ incidents \in Seq(Incident) /\ Good(Desk, incidents)
           /\ \A p \in Peds : TaskOK(p) /\ (OnLine(p) => LineOK(p))
<1>1. RestOK /\ DeskOK(Desk)
  BY IInvParts
<1>2. InTurn(Desk.session) /\ Known(Desk, incidents) /\ OneCase(Desk.cases)
  BY DEF ReportInv, SessionsInTurn, InTurn, ReportsAreKnown, Known, OneCasePerIncident, OneCase, Desk
<1>3. WholeCases(Desk)
  BY DEF ReportInv, NoOrphanCase, CasesInTurn, WholeCases, Desk
<1>4. ASSUME NEW p \in Peds PROVE TaskOK(p)
  BY DEF ReportInv, DriverRemembers, TaskOK
<1>5. ASSUME NEW p \in Peds, OnLine(p) PROVE LineOK(p)
  BY <1>5 DEF ReportInv, DriverRemembers, OnLine, LineOK, ActiveSessions
<1> QED  BY <1>1, <1>2, <1>3, <1>4, <1>5 DEF RestOK, Good

(* The same facts, together again, in the next state.                          *)
LEMMA ReportWhole ==
    ASSUME NEW e, SetDesk(e), Good(e, incidents'), Advances(Desk, incidents, e, incidents'),
           \A p \in Peds : TaskOK(p)' /\ (OnLine(p)' => LineOK(p)')
    PROVE  Stepped
<1>1. session' = e.session /\ cases' = e.cases
  BY DEF SetDesk
<1>2. SessionsInTurn' /\ ReportsAreKnown' /\ OneCasePerIncident'
  BY <1>1 DEF Good, InTurn, SessionsInTurn, Known, ReportsAreKnown, OneCase, OneCasePerIncident
<1>3. NoOrphanCase' /\ CasesInTurn'
  BY <1>1 DEF Good, WholeCases, NoOrphanCase, CasesInTurn
<1>4. DriverRemembers'
  <2>1. ASSUME NEW i \in IncidentId, session'[i].phase = "Active"
        PROVE  session'[i].reporter \in Peds
    BY <1>1, <2>1 DEF Good, DeskOK, SessionOK
  <2>2. ASSUME NEW i \in IncidentId, session'[i].phase = "Active"
        PROVE  LET p == session'[i].reporter IN
               /\ p \in dispatched' \/ (stage' \in {"idle", "reporters"} /\ ped'[p] # "alive")
               /\ p \notin Cops => /\ task'[p] # "in"
                                   /\ task'[p] = "talk" => lastPhase'[p] = "Active"
    <3>1. PICK p \in Peds : p = session'[i].reporter
      BY <2>1, <2>2
    <3>2. OnLine(p)'
      BY <2>2, <3>1 DEF OnLine
    <3> QED  BY <3>1, <3>2 DEF LineOK, Live
  <2>3. \A p \in Peds : task'[p] # "none" => Live(p)' /\ p \in dispatched'
    BY DEF TaskOK
  <2> QED  BY <2>2, <2>3 DEF DriverRemembers, ActiveSessions, Live
<1>5. Frozen(cases, cases')
  BY <1>1 DEF Advances, Desk
<1>6. ASSUME NEW i \in IncidentId
      PROVE  \/ Status(i)' = Status(i)
             \/ <<Status(i), Status(i)'>> \in Reporting!Steps
  <2>1. Status(i) = Place(i, incidents, Desk)
    BY DEF Status, Place, Desk
  <2>2. Status(i)' = Place(i, incidents', e)
    BY <1>1 DEF Status, Place
  <2> QED  BY <2>1, <2>2 DEF Advances
<1> QED  BY <1>2, <1>3, <1>4, <1>5, <1>6 DEF Stepped, ReportInv

(* A handler called by a step that opens no incident.                          *)
LEMMA HandlerStep ==
    ASSUME NEW e, SetDesk(e), Handled(Desk, e, incidents), UNCHANGED incidents,
           \A p \in Peds : TaskOK(p)' /\ (OnLine(p)' => LineOK(p)')
    PROVE  Stepped
<1>1. Good(e, incidents') /\ Advances(Desk, incidents, e, incidents')
  BY DEF Handled, Moves, PlaceMoves, Advances
<1> QED  BY <1>1, ReportWhole

(* A step that leaves the desk alone.                                          *)
LEMMA IdleStep ==
    ASSUME IInv, ReportInv, UNCHANGED <<incidents, session, cases>>,
           \A p \in Peds : TaskOK(p)' /\ (OnLine(p)' => LineOK(p)')
    PROVE  Stepped
<1>1. Good(Desk, incidents)
  BY ReportParts
<1>2. Handled(Desk, Desk, incidents)
  BY <1>1, NothingHandled
<1>3. SetDesk(Desk)
  BY DEF SetDesk, Desk
<1> QED  BY <1>2, <1>3, HandlerStep

(* Who is on the line after a handler.                                         *)
LEMMA LineAfter ==
    ASSUME NEW e, SetDesk(e), SameReporters(Desk, e), NEW p \in Peds
    PROVE  /\ (\A j \in IncidentId : e.session[j].phase = "Active" => session[j].phase = "Active")
                 => \A q \in Peds : OnLine(q)' => OnLine(q)
           /\ (\A j \in IncidentId : e.session[j].phase = "Active" =>
                     session[j].phase = "Active" /\ session[j].reporter # p)
                 => \A q \in Peds : OnLine(q)' => OnLine(q) /\ q # p
           /\ (\A j \in IncidentId : e.session[j].phase = "Active" =>
                     session[j].phase = "Active" \/ session[j].reporter = p)
                 => \A q \in Peds : OnLine(q)' => OnLine(q) \/ q = p
BY DEF OnLine, SetDesk, SameReporters, Desk

(* The hooks and the engine.                                                   *)
LEMMA EngineSteps ==
    ASSUME IInv, ReportInv, Engine
    PROVE  Stepped
<1>1. /\ incidents \in Seq(Incident) /\ Good(Desk, incidents)
      /\ \A p \in Peds : TaskOK(p) /\ (OnLine(p) => LineOK(p))
      /\ task \in [Peds -> PhoneTask] /\ ped \in [Peds -> {"alive", "dead", "gone"}]
  BY ReportParts, IInvParts DEF RestOK
<1>2. ASSUME NEW p \in Peds
      PROVE  LET e == OnInterrupted(Desk, p) IN
             /\ Handled(Desk, e, incidents)
             /\ \A j \in IncidentId : e.session[j].phase = "Active" =>
                   session[j].phase = "Active" /\ session[j].reporter # p
  <2> DEFINE e == OnInterrupted(Desk, p)
  <2>1. /\ Handled(Desk, e, incidents)
        /\ \A j \in IncidentId : e.session[j].phase = "Active" =>
              Desk.session[j].phase = "Active" /\ Desk.session[j].reporter # p
    BY <1>1, OnInterruptedMoves
  <2>2. Desk.session = session
    BY DEF Desk
  <2> QED  BY <2>1, <2>2
<1>3. \A kinds \in Hits : kinds \in SUBSET CausalKind
  BY PipelineAssumption DEF CausalKind
<1>4. {"Explosion"} \in SUBSET CausalKind /\ {"PedCasualty"} \in SUBSET CausalKind
  BY DEF CausalKind
<1>5. CASE DamageHit
  <2>1. PICK kinds \in Hits : Publish(Desk, kinds)
    BY <1>5 DEF DamageHit
  <2>2. Moves(Desk, Desk, incidents)
    BY <1>1, NothingHandled DEF Handled
  <2>3. PICK e : /\ SetDesk(e) /\ Good(e, incidents') /\ SameSessions(Desk, e)
                 /\ Advances(Desk, incidents, e, incidents')
    BY <1>1, <1>3, <2>1, <2>2, PublishMoves
  <2>4. \A p \in Peds : OnLine(p)' => OnLine(p)
    BY <2>3 DEF OnLine, SetDesk, SameSessions, Desk
  <2>5. \A p \in Peds : TaskOK(p)' /\ (OnLine(p)' => LineOK(p)')
    BY <1>1, <1>5, <2>4 DEF DamageHit, engineVars, driverVars, TaskOK, LineOK, Live
  <2> QED  BY <2>3, <2>5, ReportWhole
<1>6. ASSUME NEW p \in Peds, DamageCaller(p) PROVE Stepped
  <2> DEFINE d == OnInterrupted(Desk, p)
  <2>1. /\ Handled(Desk, d, incidents)
        /\ \A j \in IncidentId : d.session[j].phase = "Active" =>
              session[j].phase = "Active" /\ session[j].reporter # p
    BY <1>2
  <2> HIDE DEF d
  <2>2. ASSUME \A q \in Peds : OnLine(q)' => OnLine(q) /\ q # p
        PROVE  \A q \in Peds : TaskOK(q)' /\ (OnLine(q)' => LineOK(q)')
    BY <1>1, <1>6, <2>2 DEF DamageCaller, driverVars, TaskOK, LineOK, Live
  <2>3. CASE SetDesk(d) /\ UNCHANGED incidents
    <3>1. \A q \in Peds : OnLine(q)' => OnLine(q) /\ q # p
      BY <2>1, <2>3, LineAfter DEF Handled
    <3> QED  BY <2>1, <2>2, <2>3, <3>1, HandlerStep
  <2>4. CASE Publish(d, {"Explosion"})
    <3>1. PICK e : /\ SetDesk(e) /\ Good(e, incidents') /\ SameSessions(d, e)
                   /\ Advances(Desk, incidents, e, incidents')
      BY <1>1, <1>4, <2>1, <2>4, PublishMoves DEF Handled
    <3>2. \A q \in Peds : OnLine(q)' => OnLine(q) /\ q # p
      BY <2>1, <3>1 DEF OnLine, SetDesk, SameSessions, SameReporters, Handled, Desk
    <3> QED  BY <2>2, <3>1, <3>2, ReportWhole
  <2> QED  BY <1>6, <2>3, <2>4 DEF DamageCaller, d
<1>7. ASSUME NEW p \in Peds, RegisterKill(p) PROVE Stepped
  <2> DEFINE d == InterruptPedAction(p)
  <2>1. /\ Handled(Desk, d, incidents) /\ Publish(d, {"PedCasualty"})
        /\ \A j \in IncidentId : d.session[j].phase = "Active" => session[j].phase = "Active"
    <3>1. CASE task[p] # "none"
      BY <1>2, <1>7, <3>1 DEF InterruptPedAction, RegisterKill
    <3>2. CASE task[p] = "none"
      <4>1. d = Desk /\ Desk.session = session
        BY <3>2 DEF InterruptPedAction, Desk
      <4> QED  BY <1>1, <1>7, <4>1, NothingHandled DEF RegisterKill
    <3> QED  BY <3>1, <3>2
  <2> HIDE DEF d
  <2>2. PICK e : /\ SetDesk(e) /\ Good(e, incidents') /\ SameSessions(d, e)
                 /\ Advances(Desk, incidents, e, incidents')
    BY <1>1, <1>4, <2>1, PublishMoves DEF Handled
  <2>3. \A q \in Peds : OnLine(q)' => OnLine(q)
    BY <2>1, <2>2 DEF OnLine, SetDesk, SameSessions, SameReporters, Handled, Desk
  <2>4. ASSUME NEW q \in Peds PROVE TaskOK(q)' /\ (OnLine(q)' => LineOK(q)')
    BY <1>1, <1>7, <2>3 DEF RegisterKill, driverVars, TaskOK, LineOK, Live
  <2> QED  BY <2>2, <2>4, ReportWhole
<1>8. ASSUME NEW p \in Peds, RemovePed(p) PROVE Stepped
  <2> DEFINE d == OnInterrupted(Desk, p)
  <2>1. /\ Handled(Desk, d, incidents) /\ SetDesk(d)
        /\ \A j \in IncidentId : d.session[j].phase = "Active" =>
              session[j].phase = "Active" /\ session[j].reporter # p
    BY <1>2, <1>8 DEF RemovePed
  <2> HIDE DEF d
  <2>2. \A q \in Peds : OnLine(q)' => OnLine(q) /\ q # p
    BY <2>1, LineAfter DEF Handled
  <2>3. ASSUME NEW q \in Peds PROVE TaskOK(q)' /\ (OnLine(q)' => LineOK(q)')
    BY <1>1, <1>8, <2>2 DEF RemovePed, driverVars, TaskOK, LineOK, Live
  <2>4. UNCHANGED incidents
    BY <1>8 DEF RemovePed
  <2> QED  BY <2>1, <2>3, <2>4, HandlerStep
<1>9. ASSUME NEW p \in Peds, LosePed(p) PROVE Stepped
  <2>1. \A q \in Peds : OnLine(q)' => OnLine(q)
    BY <1>9 DEF LosePed, OnLine
  <2>2. ASSUME NEW q \in Peds PROVE TaskOK(q)' /\ (OnLine(q)' => LineOK(q)')
    BY <1>1, <1>9, <2>1 DEF LosePed, driverVars, TaskOK, LineOK, Live
  <2> QED  BY <1>9, <2>2, IdleStep DEF LosePed
<1>10. ASSUME NEW p \in Peds, PhoneAdvance(p) PROVE Stepped
  <2>1. \A q \in Peds : OnLine(q)' => OnLine(q)
    BY <1>10 DEF PhoneAdvance, OnLine
  <2>2. ASSUME NEW q \in Peds PROVE TaskOK(q)' /\ (OnLine(q)' => LineOK(q)')
    <3>1. /\ stage' = stage /\ ped' = ped /\ dispatched' = dispatched /\ lastPhase' = lastPhase
          /\ q # p => task'[q] = task[q]
          /\ task[p] # "none" /\ (task'[p] = "talk" => task[p] = "in") /\ task'[p] # "in"
      BY <1>1, <1>10 DEF PhoneAdvance, driverVars
    <3>2. TaskOK(q) /\ TaskOK(p) /\ (OnLine(q) => LineOK(q))
      BY <1>1
    <3>3. TaskOK(q)'
      BY <3>1, <3>2 DEF TaskOK, Live
    <3>4. ASSUME OnLine(q)' PROVE LineOK(q)'
      <4>1. LineOK(q)
        BY <2>1, <3>2, <3>4
      <4> QED  BY <3>1, <4>1 DEF LineOK, Live
    <3> QED  BY <3>3, <3>4
  <2> QED  BY <1>10, <2>2, IdleStep DEF PhoneAdvance
<1>11. ASSUME NEW p \in Peds, PhoneAbandon(p) PROVE Stepped
  <2>1. \A q \in Peds : OnLine(q)' => OnLine(q)
    BY <1>11 DEF PhoneAbandon, OnLine
  <2>2. ASSUME NEW q \in Peds PROVE TaskOK(q)' /\ (OnLine(q)' => LineOK(q)')
    BY <1>1, <1>11, <2>1 DEF PhoneAbandon, driverVars, TaskOK, LineOK, Live
  <2> QED  BY <1>11, <2>2, IdleStep DEF PhoneAbandon
<1> QED  BY <1>5, <1>6, <1>7, <1>8, <1>9, <1>10, <1>11 DEF Engine

(* A radio report is dialled and answered at once: claimed, then on the line,  *)
(* one step of the incident's life.                                            *)
LEMMA HandledTwice ==
    ASSUME NEW inc, NEW c, NEW d, NEW e, Good(c, inc), Handled(c, d, inc), Handled(d, e, inc),
           \A i \in IncidentId : Place(i, inc, d) = Place(i, inc, c)
    PROVE  Handled(c, e, inc)
<1>1. Frozen(c.cases, e.cases)
  BY FrozenTwice DEF Handled, Moves, Good
<1>2. \A i \in IncidentId : PlaceMoves(i, inc, c, e)
  BY DEF Handled, Moves, PlaceMoves
<1>3. SameReporters(c, e)
  BY DEF Handled, SameReporters
<1> QED  BY <1>1, <1>2, <1>3 DEF Handled, Moves

(* A tracked phase is acted on once: a call does not go active twice, since    *)
(* its caller's last phase is Active while it talks.                           *)
LEMMA TrackPhaseSteps ==
    ASSUME IInv, ReportInv, NEW p \in Peds, TrackPhase(p)
    PROVE  Stepped
<1> DEFINE phase == PollReportTaskPhase(p)
           Remembers(q) == TaskOK(q)' /\ (OnLine(q)' => LineOK(q)')
<1>1. /\ incidents \in Seq(Incident) /\ Good(Desk, incidents) /\ Desk.session = session
      /\ \A q \in Peds : TaskOK(q) /\ (OnLine(q) => LineOK(q))
      /\ task \in [Peds -> PhoneTask]
      /\ lastPhase \in [Peds -> ReportTaskPhase]
  BY ReportParts, IInvParts DEF RestOK, Desk
<1>2. /\ stage = "track" /\ phase # lastPhase[p] /\ UNCHANGED <<stage, ped, task, incidents>>
      /\ lastPhase' = [lastPhase EXCEPT ![p] = phase]
      /\ dispatched' = IF p \notin Cops /\ phase = "None" THEN dispatched \ {p} ELSE dispatched
  BY DEF TrackPhase, PhaseChanged, engineVars
<1>3. /\ phase = "Active" <=> task[p] = "talk"
      /\ phase = "None" <=> task[p] = "none"
      /\ phase = "Dialing" <=> task[p] \in {"in", "out"}
      /\ phase \in ReportTaskPhase
  <2>1. task[p] \in {"none", "in", "talk", "out", "tail"}
    BY <1>1 DEF PhoneTask
  <2> QED  BY <2>1 DEF PollReportTaskPhase, ReportTaskPhase
<1>4. ASSUME p \in Cops \/ (phase = "None" /\ p \notin dispatched) PROVE Stepped
  <2>1. session' = session /\ cases' = cases
    BY <1>4 DEF TrackPhase, SetDesk, Desk
  <2>2. \A q \in Peds : OnLine(q)' => OnLine(q)
    BY <2>1 DEF OnLine
  <2>3. ASSUME NEW q \in Peds PROVE Remembers(q)
    <3>1. TaskOK(q) /\ TaskOK(p) /\ (OnLine(q) => LineOK(q)) /\ (OnLine(p) => LineOK(p))
      BY <1>1
    <3>2. TaskOK(q)'
      BY <1>2, <1>3, <1>4, <3>1 DEF TaskOK, Live
    <3>3. CASE p \in Cops
      BY <1>1, <1>2, <2>2, <3>1, <3>2, <3>3 DEF LineOK, Live
    <3>4. CASE p \notin Cops /\ phase = "None" /\ p \notin dispatched
      <4>1. ~OnLine(p)
        BY <1>2, <3>1, <3>4 DEF LineOK
      <4> QED  BY <1>1, <1>2, <2>2, <3>1, <3>2, <3>4, <4>1 DEF LineOK, Live
    <3> QED  BY <1>4, <3>3, <3>4
  <2> QED  BY <1>2, <2>1, <2>3, IdleStep
<1>5. ASSUME p \notin Cops, phase = "Ending" \/ (phase = "None" /\ p \in dispatched) PROVE Stepped
  <2> DEFINE d == OnEnded(Desk, p)
  <2>1. SetDesk(d)
    BY <1>5 DEF TrackPhase
  <2>2. /\ Handled(Desk, d, incidents)
        /\ \A j \in IncidentId : d.session[j].phase = "Active" =>
              session[j].phase = "Active" /\ session[j].reporter # p
    BY <1>1, OnEndedMoves
  <2> HIDE DEF d
  <2>3. \A q \in Peds : OnLine(q)' => OnLine(q) /\ q # p
    BY <2>1, <2>2, LineAfter DEF Handled
  <2>4. ASSUME NEW q \in Peds PROVE Remembers(q)
    <3>1. TaskOK(q) /\ (OnLine(q) => LineOK(q))
      BY <1>1
    <3>2. TaskOK(q)'
      BY <1>2, <1>3, <3>1 DEF TaskOK, Live
    <3>3. OnLine(q)' => LineOK(q)'
      BY <1>1, <1>2, <2>3, <3>1 DEF LineOK, Live
    <3> QED  BY <3>2, <3>3
  <2> QED  BY <1>2, <2>1, <2>2, <2>4, HandlerStep
<1>6. ASSUME p \notin Cops, phase = "Dialing" PROVE Stepped
  <2> DEFINE d == OnDialing(Desk, p)
  <2>1. SetDesk(d)
    BY <1>6 DEF TrackPhase
  <2>2. /\ Handled(Desk, d, incidents)
        /\ \A j \in IncidentId : d.session[j].phase = "Active" => session[j].phase = "Active"
    BY <1>1, OnDialingMoves
  <2> HIDE DEF d
  <2>3. \A q \in Peds : OnLine(q)' => OnLine(q)
    BY <2>1, <2>2, LineAfter DEF Handled
  <2>4. ASSUME NEW q \in Peds PROVE Remembers(q)
    <3>1. TaskOK(q) /\ (OnLine(q) => LineOK(q))
      BY <1>1
    <3>2. TaskOK(q)'
      BY <1>2, <1>3, <1>6, <3>1 DEF TaskOK, Live
    <3>3. OnLine(q)' => LineOK(q)'
      BY <1>1, <1>2, <1>3, <1>6, <2>3, <3>1 DEF LineOK, Live
    <3> QED  BY <3>2, <3>3
  <2> QED  BY <1>2, <2>1, <2>2, <2>4, HandlerStep
<1>7. ASSUME p \notin Cops, phase = "Active" PROVE Stepped
  <2> DEFINE d == OnActive(Desk, p)
  <2>1. SetDesk(d)
    BY <1>7 DEF TrackPhase
  <2>2. ~OnLine(p)
    BY <1>1, <1>2, <1>3, <1>7 DEF LineOK
  <2>3. \A j \in IncidentId : Desk.session[j].phase = "Active" => Desk.session[j].reporter # p
    BY <1>1, <2>2 DEF OnLine
  <2>4. /\ Handled(Desk, d, incidents)
        /\ \A j \in IncidentId : d.session[j].phase = "Active" =>
              session[j].phase = "Active" \/ session[j].reporter = p
    BY <1>1, <2>3, OnActiveMoves
  <2> HIDE DEF d
  <2>5. \A q \in Peds : OnLine(q)' => OnLine(q) \/ q = p
    BY <2>1, <2>4, LineAfter DEF Handled
  <2>6. ASSUME NEW q \in Peds PROVE Remembers(q)
    <3>1. TaskOK(q) /\ TaskOK(p) /\ (OnLine(q) => LineOK(q))
      BY <1>1
    <3>2. TaskOK(q)'
      BY <1>2, <1>3, <1>7, <3>1 DEF TaskOK, Live
    <3>3. OnLine(q)' => LineOK(q)'
      BY <1>1, <1>2, <1>3, <1>7, <2>5, <3>1 DEF LineOK, TaskOK, Live
    <3> QED  BY <3>2, <3>3
  <2> QED  BY <1>2, <2>1, <2>4, <2>6, HandlerStep
<1> QED  BY <1>3, <1>4, <1>5, <1>6, <1>7 DEF ReportTaskPhase

(* Dialling keeps an incident claimed.                                         *)
LEMMA OnDialingStays ==
    ASSUME NEW inc, NEW d, Good(d, inc), NEW p \in Peds
    PROVE  \A j \in IncidentId : Place(j, inc, OnDialing(d, p)) = Place(j, inc, d)
<1> DEFINE i == FirstOf(d.session, SessionsOf(d.session, p))
           e == OnDialing(d, p)
<1>1. CASE SessionsOf(d.session, p) # {} /\ d.session[i].phase = "Approaching"
  <2>1. /\ e = [d EXCEPT !.session[i].phase = "Dialing"]
        /\ d.session[i].phase = "Approaching"
    BY <1>1 DEF OnDialing
  <2>2. /\ d \in [session : [IncidentId -> Session], cases : Seq(Case)]
        /\ \A j \in IncidentId : d.session[j] \in Session
    BY DEF Good, DeskOK
  <2> HIDE DEF i, e
  <2>3. \A j \in IncidentId : e.session[j] = IF j = i THEN [d.session[i] EXCEPT !.phase = "Dialing"]
                                            ELSE d.session[j]
    BY <2>1, <2>2
  <2>4. e.cases = d.cases
    BY <2>1, <2>2
  <2>5. \A j \in IncidentId : IsOpen(e.session[j]) <=> IsOpen(d.session[j])
    BY <2>1, <2>2, <2>3 DEF IsOpen, Session
  <2>6. \A j \in IncidentId : Place(j, inc, e) = Place(j, inc, d)
    BY <2>4, <2>5, SamePlace DEF Good
  <2> QED  BY <2>6 DEF e
<1>2. CASE ~(SessionsOf(d.session, p) # {} /\ d.session[i].phase = "Approaching")
  BY <1>2 DEF OnDialing
<1> QED  BY <1>1, <1>2

(* The frame.                                                                  *)
LEMMA FrameSteps ==
    ASSUME IInv, IInv', ReportInv, Frame
    PROVE  Stepped
<1>1. /\ incidents \in Seq(Incident) /\ Good(Desk, incidents) /\ Desk.session = session
      /\ \A p \in Peds : TaskOK(p) /\ (OnLine(p) => LineOK(p))
      /\ task \in [Peds -> PhoneTask] /\ ped \in [Peds -> {"alive", "dead", "gone"}]
      /\ lastPhase \in [Peds -> ReportTaskPhase]
  BY ReportParts, IInvParts DEF RestOK, Desk
<1> DEFINE Remembers(q) == TaskOK(q)' /\ (OnLine(q)' => LineOK(q)')
<1>2. CASE DrainEvents
  <2>1. \A q \in Peds : OnLine(q)' => OnLine(q)
    BY <1>2 DEF DrainEvents, OnLine
  <2>2. ASSUME NEW q \in Peds PROVE Remembers(q)
    BY <1>1, <1>2, <2>1 DEF DrainEvents, engineVars, driverVars, TaskOK, LineOK, Live
  <2> QED  BY <1>2, <2>2, IdleStep DEF DrainEvents
<1>3. ASSUME NEW p \in Peds, ReporterLost(p) PROVE Stepped
  <2> DEFINE d == OnInterrupted(Desk, p)
  <2>1. /\ Handled(Desk, d, incidents) /\ SetDesk(d)
        /\ \A j \in IncidentId : d.session[j].phase = "Active" =>
              session[j].phase = "Active" /\ session[j].reporter # p
    BY <1>1, <1>3, OnInterruptedMoves DEF ReporterLost
  <2> HIDE DEF d
  <2>2. \A q \in Peds : OnLine(q)' => OnLine(q) /\ q # p
    BY <2>1, LineAfter DEF Handled
  <2>3. ASSUME NEW q \in Peds PROVE Remembers(q)
    BY <1>1, <1>3, <2>2 DEF ReporterLost, engineVars, driverVars, TaskOK, LineOK, Live
  <2>4. UNCHANGED incidents
    BY <1>3 DEF ReporterLost
  <2> QED  BY <2>1, <2>3, <2>4, HandlerStep
<1>4. CASE RetainOpen
  <2>1. /\ Good(NextDesk, incidents') /\ Advances(Desk, incidents, NextDesk, incidents')
        /\ \A i \in IncidentId : session'[i].phase = "Active" => session'[i] = session[i]
    BY <1>1, <1>4, RetainOpenMoves
  <2>2. \A q \in Peds : OnLine(q)' => OnLine(q)
    BY <2>1 DEF OnLine
  <2>3. ASSUME NEW q \in Peds, OnLine(q) PROVE Live(q)
    <3>1. PICK j \in IncidentId : session[j].phase = "Active" /\ session[j].reporter = q
      BY <2>3 DEF OnLine
    <3>2. HasOpenFirst(session, q)
      BY <1>1, <3>1, LineIsFirst
    <3> QED  BY <1>4, <3>2 DEF RetainOpen, LostReporters
  <2>4. ASSUME NEW q \in Peds PROVE Remembers(q)
    BY <1>1, <1>4, <2>2, <2>3 DEF RetainOpen, engineVars, driverVars, TaskOK, LineOK, Live
  <2>5. SetDesk(NextDesk)
    BY DEF SetDesk, NextDesk
  <2> QED  BY <2>1, <2>4, <2>5, ReportWhole
<1>5. CASE CasesTick
  <2>1. Good(NextDesk, incidents') /\ Advances(Desk, incidents, NextDesk, incidents')
    BY <1>1, <1>5, CasesTickMoves
  <2>2. \A q \in Peds : OnLine(q)' => OnLine(q)
    BY <1>5 DEF CasesTick, OnLine
  <2>3. ASSUME NEW q \in Peds PROVE Remembers(q)
    BY <1>1, <1>5, <2>2 DEF CasesTick, engineVars, driverVars, TaskOK, LineOK, Live
  <2>4. SetDesk(NextDesk)
    BY DEF SetDesk, NextDesk
  <2> QED  BY <2>1, <2>3, <2>4, ReportWhole
<1>6. CASE StartReports
  <2>1. /\ Good(NextDesk, incidents') /\ Advances(Desk, incidents, NextDesk, incidents')
        /\ \A i \in IncidentId : session'[i].phase = "Active" => session'[i] = session[i]
    BY <1>1, <1>6, StartReportsMoves
  <2>2. \A q \in Peds : OnLine(q)' => OnLine(q)
    BY <2>1 DEF OnLine
  <2>3. stage = "exec" /\ stage' = "assign" /\ UNCHANGED <<engineVars, driverVars>>
    BY <1>6 DEF StartReports
  <2>4. ASSUME NEW q \in Peds PROVE Remembers(q)
    BY <1>1, <2>2, <2>3 DEF engineVars, driverVars, TaskOK, LineOK, Live
  <2>5. SetDesk(NextDesk)
    BY DEF SetDesk, NextDesk
  <2> QED  BY <2>1, <2>4, <2>5, ReportWhole
<1>7. ASSUME NEW p \in Peds, ReportByRadio(p) PROVE Stepped
  <2> DEFINE c == OnDialing(Desk, p)
             d == OnActive(c, p)
  <2>1. /\ stage = "assign" /\ p \notin dispatched /\ p \in Cops /\ SetDesk(d)
        /\ dispatched' = dispatched \cup {p} /\ UNCHANGED <<stage, engineVars, incidents, lastPhase>>
    BY <1>7 DEF ReportByRadio, Pending
  <2>2. ~OnLine(p)
    BY <1>1, <2>1 DEF LineOK
  <2>3. /\ Handled(Desk, c, incidents)
        /\ \A j \in IncidentId : c.session[j].phase = "Active" => session[j].phase = "Active"
    BY <1>1, OnDialingMoves
  <2>4. /\ Good(c, incidents)
        /\ \A j \in IncidentId : c.session[j].phase = "Active" => c.session[j].reporter # p
    BY <1>1, <2>2, <2>3 DEF Handled, SameReporters, OnLine
  <2>5. /\ Handled(c, d, incidents)
        /\ \A j \in IncidentId : d.session[j].phase = "Active" =>
              c.session[j].phase = "Active" \/ c.session[j].reporter = p
    BY <1>1, <2>4, OnActiveMoves
  <2> HIDE DEF d
  <2>6. Handled(Desk, d, incidents)
    BY <1>1, <2>3, <2>5, OnDialingStays, HandledTwice
  <2>7. \A q \in Peds : OnLine(q)' => OnLine(q) \/ q = p
    <3>1. \A j \in IncidentId : d.session[j].phase = "Active" => session[j].phase = "Active" \/ session[j].reporter = p
      BY <1>1, <2>3, <2>5 DEF Handled, SameReporters
    <3> QED  BY <2>1, <2>6, <3>1, LineAfter DEF Handled
  <2>8. ASSUME NEW q \in Peds PROVE Remembers(q)
    BY <1>1, <2>1, <2>7 DEF engineVars, TaskOK, LineOK, Live
  <2> QED  BY <2>1, <2>6, <2>8, HandlerStep
<1>8. ASSUME NEW p \in Peds, AssignMobilePhone(p) PROVE Stepped
  <2>1. /\ stage = "assign" /\ p \notin dispatched /\ Live(p) /\ task' = [task EXCEPT ![p] = "in"]
        /\ dispatched' = dispatched \cup {p} /\ UNCHANGED <<stage, ped, incidents, session, cases, lastPhase>>
    BY <1>8 DEF AssignMobilePhone, Pending
  <2>2. ~OnLine(p) /\ \A q \in Peds : OnLine(q)' => OnLine(q)
    BY <1>1, <2>1 DEF LineOK, OnLine
  <2>3. ASSUME NEW q \in Peds PROVE Remembers(q)
    BY <1>1, <2>1, <2>2 DEF TaskOK, LineOK, Live
  <2> QED  BY <2>1, <2>3, IdleStep
<1>9. CASE Assigned
  <2>1. \A q \in Peds : OnLine(q)' => OnLine(q)
    BY <1>9 DEF Assigned, OnLine
  <2>2. ASSUME NEW q \in Peds PROVE Remembers(q)
    BY <1>1, <1>9, <2>1 DEF Assigned, engineVars, driverVars, TaskOK, LineOK, Live
  <2> QED  BY <1>9, <2>2, IdleStep DEF Assigned
<1>10. ASSUME NEW p \in Peds, TrackMissing(p) PROVE Stepped
  <2> DEFINE d == OnInterrupted(Desk, p)
  <2>1. /\ Handled(Desk, d, incidents) /\ SetDesk(d)
        /\ \A j \in IncidentId : d.session[j].phase = "Active" =>
              session[j].phase = "Active" /\ session[j].reporter # p
    BY <1>1, <1>10, OnInterruptedMoves DEF TrackMissing
  <2> HIDE DEF d
  <2>2. \A q \in Peds : OnLine(q)' => OnLine(q) /\ q # p
    BY <2>1, LineAfter DEF Handled
  <2>3. ASSUME NEW q \in Peds PROVE Remembers(q)
    BY <1>1, <1>10, <2>2 DEF TrackMissing, engineVars, TaskOK, LineOK, Live, Present
  <2>4. UNCHANGED incidents
    BY <1>10 DEF TrackMissing
  <2> QED  BY <2>1, <2>3, <2>4, HandlerStep
<1>11. ASSUME NEW p \in Peds, TrackPhase(p) PROVE Stepped
  BY TrackPhaseSteps, <1>11
<1>12. CASE EndFrame
  <2>1. \A q \in Peds : OnLine(q)' => OnLine(q)
    BY <1>12 DEF EndFrame, OnLine
  <2>2. ASSUME NEW q \in Peds PROVE Remembers(q)
    BY <1>1, <1>12, <2>1 DEF EndFrame, engineVars, TaskOK, LineOK, Live
  <2> QED  BY <1>12, <2>2, IdleStep DEF EndFrame
<1> QED  BY <1>2, <1>3, <1>4, <1>5, <1>6, <1>7, <1>8, <1>9, <1>10, <1>11, <1>12 DEF Frame

(* The world starts with nothing to remember.                                  *)
THEOREM InitReportInv == Init => ReportInv
<1> SUFFICES ASSUME Init PROVE ReportInv
  OBVIOUS
<1>1. \A i \in IncidentId : session[i].phase = "None"
  BY DEF Init, NoSession
<1>2. DOMAIN cases = {}
  BY DEF Init
<1> QED  BY <1>1, <1>2 DEF Init, ReportInv, SessionsInTurn, ReportsAreKnown, NoOrphanCase, OneCasePerIncident,
            CasesInTurn, DriverRemembers, ActiveSessions, IsOpen

(* With the first invariant, ReportInv is inductive, and each step freezes the *)
(* closed cases and moves every incident on or leaves it.                      *)
THEOREM StepReportInv == IInv /\ ReportInv /\ [Next]_vars => Stepped
<1> SUFFICES ASSUME IInv, ReportInv, [Next]_vars PROVE Stepped
  OBVIOUS
<1>1. IInv'
  BY StepIInv
<1>2. CASE Frame
  BY <1>1, <1>2, FrameSteps
<1>3. CASE Engine
  BY <1>3, EngineSteps
<1>4. CASE UNCHANGED vars
  <2>1. \A p \in Peds : TaskOK(p) /\ (OnLine(p) => LineOK(p))
    BY ReportParts
  <2>2. \A p \in Peds : TaskOK(p)' /\ (OnLine(p)' => LineOK(p)')
    BY <1>4, <2>1 DEF vars, TaskOK, OnLine, LineOK, Live
  <2> QED  BY <1>4, <2>2, IdleStep DEF vars
<1> QED  BY <1>2, <1>3, <1>4 DEF Next

(* The invariant of the report half, at every step.                            *)
THEOREM ReportCorrect == Spec => [](IInv /\ ReportInv)
<1>1. Init => IInv /\ ReportInv
  BY InitIInv, InitReportInv
<1>2. IInv /\ ReportInv /\ [Next]_vars => IInv' /\ ReportInv'
  BY StepIInv, StepReportInv DEF Stepped
<1> QED  BY <1>1, <1>2, PTL DEF Spec

(* No case is left behind: one that is not finalized is the case of the call   *)
(* that is on the line for its incident, whoever is hurt, killed or removed.   *)
THEOREM NoCaseIsOrphaned == Spec => []NoOrphanCase
<1>1. ReportInv => NoOrphanCase
  BY DEF ReportInv
<1> QED  BY <1>1, ReportCorrect, PTL

(* However calls are lost, resumed or shared, an incident has one case.        *)
THEOREM OneCaseForEachIncident == Spec => []OneCasePerIncident
<1>1. ReportInv => OneCasePerIncident
  BY DEF ReportInv
<1> QED  BY <1>1, ReportCorrect, PTL

(* A ped that reports several incidents holds one call at a time.              *)
THEOREM OneCallForEachReporter == Spec => []OneCallPerReporter
<1>1. IInv /\ ReportInv => OneCallPerReporter
  <2> SUFFICES ASSUME IInv, ReportInv, NEW i \in IncidentId, NEW j \in IncidentId, i # j,
                      session[i].phase \in {"Dialing", "Active"},
                      session[j].phase \in {"Dialing", "Active"},
                      session[i].reporter = session[j].reporter
               PROVE  FALSE
    BY DEF OneCallPerReporter
  <2>1. DeskOK(Desk) /\ Desk.session = session
    BY IInvParts DEF Desk
  <2>2. session[i].rank \in Nat /\ session[j].rank \in Nat
    BY <2>1, RankTypes
  <2>3. session[i].rank < session[j].rank /\ session[j].rank < session[i].rank
    BY DEF ReportInv, SessionsInTurn
  <2> QED  BY <2>2, <2>3
<1> QED  BY <1>1, ReportCorrect, PTL

(* What a finalized case says is never changed again.                          *)
THEOREM FinalizedCasesAreFrozen == Spec => FinalizedCaseIsFrozen
<1> DEFINE Freezes ==
      \A c \in DOMAIN cases :
          cases[c].finalized =>
              /\ c \in DOMAIN cases'
              /\ [cases'[c] EXCEPT !.state = cases[c].state] = cases[c]
<1>1. IInv /\ ReportInv /\ [Next]_vars => Freezes
  BY StepReportInv DEF Stepped, Frozen
<1>2. FinalizedCaseIsFrozen <=> [][Freezes]_vars
  BY DEF FinalizedCaseIsFrozen
<1> QED  BY <1>1, <1>2, ReportCorrect, PTL DEF Spec

-----------------------------------------------------------------------------
(* The pipeline implements IncidentReporting.                                  *)

(* Incidents that each take a step, or none, take one together.                *)
LEMMA StatusSteps ==
    ASSUME \A i \in IncidentId : \/ Status(i)' = Status(i)
                                 \/ <<Status(i), Status(i)'>> \in Reporting!Steps
    PROVE  Reporting!Next
<1> DEFINE I    == {i \in IncidentId : Status(i)' # Status(i)}
           next == [i \in I |-> Status(i)']
           old  == [i \in IncidentId |-> Status(i)]
           new  == [i \in IncidentId |-> Status(i)']
<1>1. \A i \in I : <<old[i], next[i]>> \in Reporting!Steps
  OBVIOUS
<1>2. \A t \in Reporting!Steps : t[2] \in Reporting!Status
  BY DEF Reporting!Steps, Reporting!Status
<1>3. next \in [I -> Reporting!Status]
  <2>1. ASSUME NEW i \in I PROVE next[i] \in Reporting!Status
    <3>1. <<Status(i), Status(i)'>> \in Reporting!Steps
      OBVIOUS
    <3>2. <<Status(i), Status(i)'>>[2] \in Reporting!Status
      BY <1>2, <3>1
    <3> QED  BY <3>2
  <2> QED  BY <2>1
<1>4. new = [i \in IncidentId |-> IF i \in I THEN next[i] ELSE old[i]]
  OBVIOUS
<1> QED  BY <1>1, <1>3, <1>4 DEF Reporting!Next, Reporting!Advance

(* Every incident is claimed once, its report opens at most one case, and the  *)
(* case goes to dispatch after the call is closed: the detailed pipeline only  *)
(* takes the steps of IncidentReporting.                                       *)
THEOREM PipelineImplementsReporting == Spec => ImplementsReporting
<1>1. Init => Reporting!Init
  <2> SUFFICES ASSUME Init PROVE Reporting!Init
    OBVIOUS
  <2>1. DOMAIN incidents = {}
    BY DEF Init
  <2>2. \A i \in IncidentId : Status(i) = "unknown"
    BY <2>1 DEF Status
  <2> QED  BY <2>2 DEF Reporting!Init
<1>2. IInv /\ ReportInv /\ [Next]_vars => Reporting!Next
  BY StepReportInv, StatusSteps DEF Stepped
<1> QED  BY <1>1, <1>2, ReportCorrect, PTL DEF Spec, ImplementsReporting, Reporting!Spec
=============================================================================
