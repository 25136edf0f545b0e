SPECIFICATION Spec
CONSTANTS
    CommandLines <- MCCommandLines
    Numbers = {"7000", "60"}
    BlockSizes = {"16"}
    KeyLength <- MCKeyLength
    None = None
    s0 = s0
    s1 = s1
    s2 = s2
    c1 = c1
    c2 = c2
    c3 = c3
    Servers = {s0, s1, s2}
    Hardcoded = s0
    Provisioned <- MCProvisioned
    BrokenHosts = {"[::1"}
    Cells = {c1, c2, c3}
    Sizes = {1, 3}
    Slices = {1, 2}
    MaxHeard = 2

PROPERTIES QuitGracefully
