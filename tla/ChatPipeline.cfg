CONSTANTS
    Events = {q1, q2}
    Prompts <- MCPrompts
    Outputs <- MCOutputs
    None = None
SPECIFICATION FairSpec

    
    
PROPERTIES
    AnsweredAndStored
CHECK_DEADLOCK FALSE
