SPECIFICATION FairSpec
CONSTANTS
    team = team  peer = peer
    Groups = {team, peer}
    Direct = {peer}
    Human = Human
    Overlap = 0
    MaxTime = 3
    MaxFaults = 2
    MaxPauses = 1
    MaxChanges = 1
    MaxCrashes = 1
CONSTRAINT Few
CHECK_DEADLOCK FALSE
INVARIANTS TypeOK PausedIsQuiet PauseRecovered
PROPERTIES RecoveryReadsGap GapCloses OwedArrives
