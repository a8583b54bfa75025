CONSTANTS
    c1 = c1
    c2 = c2
    Conns = {c1, c2}
    Mixes <- AllCases
    SysMixes <- SysCases
    Limit = 1
    SlotLimit = 1
    Services = {s1}
    MaxStreams = 1
    UnlinkExisting = TRUE
    Hosts <- AllHosts
SPECIFICATION ServiceSpec
INVARIANTS PermitsConserved AdminLast NothingCutSilently LeavesNothingBehind
PROPERTIES StopEnds
