SPECIFICATION Spec
CONSTANTS
    team = team  peer = peer
    Groups = {team}
    Direct = {}
    Human = Human
    Overlap = 1
    MaxTime = 4
    MaxFaults = 1
    MaxPauses = 0
    MaxChanges = 0
    MaxCrashes = 0
CHECK_DEADLOCK FALSE
PROPERTY NoGapLeftBehind
