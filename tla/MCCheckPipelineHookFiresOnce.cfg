SPECIFICATION PipelineSpec
CONSTANTS
    Executions = {"r1"}
    Checks0 <- MCChecks
    CustomCheck = "custom_validators"
    MaxListEdits = 1
INVARIANT HookFiresOnce
CHECK_DEADLOCK FALSE
