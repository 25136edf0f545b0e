SPECIFICATION Spec
CONSTANTS
    Servers = {home}
    Home = home
    Bs = bs
    Data = {d1, d2}
    Absent = absent
    NoBackup = nobackup
INVARIANT UserQuitDeregisters
