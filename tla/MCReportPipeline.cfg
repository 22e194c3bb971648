SPECIFICATION FairSpec
CONSTANTS
    witness = witness
    cop = cop
    NoPed = NoPed
    MaxIncidents = 2
    MaxObservations = 1
    Peds = {witness, cop}
    Cops = {cop}
    Percepts <- MCPercepts
    Hits <- MCHits
INVARIANTS
    TypeOK
    NoOrphanCase
    CallAndCaseAgree
    OneCasePerIncident
    OneCallPerReporter
PROPERTIES
    FinalizedCaseIsFrozen
    ImplementsReporting
    CivilianReportRunsItsCourse
