SPECIFICATION Spec
CONSTANTS
    Stages <- MCStages
    Evidence = {"change", "prompt"}
    Judged = {"change"}
    Approval = {"change", "prompt", "accept"}
    LoopStage = "implement"
    Paths <- MCPaths
    Documents <- MCDocuments
    Task <- Prompt
    Earlier <- MCEarlier
    Contents = {"draft", "final"}
    Complete = {"final"}
    MaxEdits = 2
    MaxCalls = 2
    MaxFailures = 1
    MaxRuns = 1
INVARIANT
    RunIsApproved
\* The project rests when nobody edits, approves or runs any more.
CHECK_DEADLOCK FALSE
