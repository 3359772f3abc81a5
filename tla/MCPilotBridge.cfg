CONSTANTS
    Pairs = {p1, p2}
    Channels = {f1, f2}
    NoPair = nopair
    Unheard = unheard
SPECIFICATION BridgeSpec
INVARIANTS
    CommandFitsHandshake
