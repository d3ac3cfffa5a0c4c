\* One event type, one trigger updated by two editors, one event.
SPECIFICATION Spec
CONSTANTS
    Alphabet <- MCAlphabet
    Names <- MCNames
    Mappings <- MCMappings
    Conditions <- MCConditions
    Jobs <- MCJobs
    Datas <- MCDatas
    Editors = {ed1, ed2}
    MaxUpdates = 2
    None = None
SYMMETRY EditorSymmetry
INVARIANTS
    TypeOK
    
    ConformingAccepted
    ReadBack
    
CHECK_DEADLOCK FALSE
