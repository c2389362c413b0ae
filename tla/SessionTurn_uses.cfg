SPECIFICATION Spec
CONSTANTS
    a = a
    b = b
    None = None
    Thread <- MCThread
    Use <- MCUse
    Stage <- MCStage
    MaxTurns = 2
    MaxPrompts = 2
INVARIANTS
    TypeOK
    AskersTakeTurns
    Reusable
    StageOnlyWhileResuming
    OwnOutcome
PROPERTIES
    AnswersItsPrompt
    SignalSeen
\* The bounds on turns and prompts end every behaviour.
CHECK_DEADLOCK FALSE
