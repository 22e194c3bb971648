SPECIFICATION Spec
CONSTANTS
    MaxCalls = 4
    Asked = {"Menu", "NewGame", "Continue"}
INVARIANTS
    LoadIsNotNudged
    EndlessCallsAreStale
PROPERTY
    ContinueIsKept
