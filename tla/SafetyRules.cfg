CONSTANTS
    v1 = v1
    v2 = v2
    b1 = b1
    p = p
    Honest <- MCHonest
    Faulty <- MCFaulty
    Payloads <- MCPayloads
    Quorums <- MCQuorums
    MaxRound <- MCMaxRound
    MaxFaults = 1
SPECIFICATION Spec
INVARIANTS
    TypeOK
    CommittedIsLocked
    OneVotePerRound
    CacheCoherent
    SignsCoveredEpoch
    CanStillTimeout
PROPERTY StoreMovesOn
