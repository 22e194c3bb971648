------------------------- MODULE IncidentReporting -------------------------
(***************************************************************************)
(* What the reporting half of the dispatcher promises, one incident at a   *)
(* time: an incident is claimed for one report only, the report opens at   *)
(* most one case, and a case goes to dispatch only after its call has been *)
(* closed.  ReportPipeline is shown to implement it.                       *)
(***************************************************************************)
CONSTANT Incident     \* the incidents that may ever be opened

VARIABLE status       \* the place of each incident in its life

Status ==
    {"unknown",       \* not opened yet
     "known",         \* opened by a causal signal, nobody reports it
     "claimed",       \* a reporter is elected; the call is not on the line
     "onCall",        \* the call is on the line and its case is open
     "closed",        \* the call is over, its case is complete
     "dispatching",   \* the dispatch timer of the case runs
     "dropped"}       \* the call is over and left no case

(* The steps of one incident.  A caller lost before the call is on the line
   still leaves a case: claimed to closed.                                 *)
Steps ==
    {<<"unknown", "known">>,
     <<"known", "claimed">>,
     <<"claimed", "onCall">>,
     <<"claimed", "closed">>,
     <<"claimed", "dropped">>,
     <<"onCall", "closed">>,
     <<"closed", "dispatching">>}

Init == status = [i \in Incident |-> "unknown"]

(* Incidents advance together: a hook closes one report and opens another
   incident, and a frame elects reporters for many.                        *)
Advance(I) ==
    \E next \in [I -> Status] :
        /\ \A i \in I : <<status[i], next[i]>> \in Steps
        /\ status' = [i \in Incident |-> IF i \in I THEN next[i] ELSE status[i]]

Next == \E I \in SUBSET Incident : Advance(I)

Spec == Init /\ [][Next]_status
=============================================================================
