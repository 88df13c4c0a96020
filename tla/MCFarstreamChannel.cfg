SPECIFICATION Spec
CONSTANTS
    a1 = a1
    a2 = a2
    v1 = v1
    none = none
    Audio = {a1, a2}
    Video = {v1}
    None = none
SYMMETRY MCSymmetry
INVARIANTS
    TypeOK
    
    MicrophoneOnlyWhileSending
    SendingIsHeard
CHECK_DEADLOCK FALSE
