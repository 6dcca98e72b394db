\* Every outcome of up to eight samples of a task, history of up to six steps,
\* conversation of up to six messages, batch of up to three samples with all their
\* tokens, and batch of up to six lengths.
SPECIFICATION Spec
CONSTANTS
    Inputs <- MCInputs
    Longest <- MCLongest
    Ks <- MCKs
    MaxLength = 36
    Width = 5
    Worlds <- MCWorlds
    MaxTokens = 8
\* The system stops: the inputs have reached their longest.
CHECK_DEADLOCK FALSE
INVARIANTS
    IsPassAtK
    NoPayForGivingUp
    LabelsAreAssistants
    CreditIsConserved
    BatchIsShared
    PassesReturnAll
