SPECIFICATION RotationSpec
CONSTANTS
    Value = {v1, v2, v3}
    NoValue = NoValue
    MaxKills = 2
SYMMETRY Symmetry
INVARIANTS
    KeysStayOpenable
