CONSTANTS
    ann = ann
    nobody = nobody
    NSlot = 2
    Player <- MCAlone
    Nobody = nobody
    Place <- MCFar
    Speed = 11
    Range = 6
    Offset = 5
    MaxHp = 3
    Damage = 2
SPECIFICATION FairSpec
INVARIANTS PayloadMatchesAction NpcNeverStrolls
PROPERTIES NpcHuntsOn DeathHolds LateBlowCause PursuitEnds
CHECK_DEADLOCK FALSE
