SPECIFICATION QuietSpec
CONSTANTS
    Servers = {home}
    Home = home
    Bs = bs
    Data = {d1, d2}
    Absent = absent
    NoBackup = nobackup
INVARIANTS TypeOK BackupHoldsGood NoHalfBootstrap
PROPERTIES Transactional QuitStops TypedQuitStops
