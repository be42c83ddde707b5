CONSTANTS
    u1 = u1
    u2 = u2
    u3 = u3
    c1 = c1
    c2 = c2
    Core = {c1, c2}
    Umi = {u1, u2, u3}
    NoUmi = NoUmi
    Home <- HomeOfThree
    GuestPort = {g1}
    HostPort = {h1, h2}
    NatPort = {256, 257}
    NoEntry = NoEntry
    NullMapping = NullMapping
SPECIFICATION Spec
SYMMETRY NatSymmetry
INVARIANTS NatInv PortPerConnection ReplyReachesWriter CachesAgree PassedOnOnce HostConnectionKept
CONSTRAINT OneDirection
CHECK_DEADLOCK FALSE
