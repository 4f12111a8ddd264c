CONSTANTS
    Data <- MCData
    Tos = {40, 41}
    Id = {0, 65534}
    Bit = {0, 10, 11}
    MaxFull = 1
    Budget = 2
SPECIFICATION Spec
INVARIANTS EndToEnd NoFalseDrop TosKept IcmpAnswers
CHECK_DEADLOCK FALSE
