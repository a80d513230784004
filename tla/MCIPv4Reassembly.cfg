SPECIFICATION ReassemblySpec
CONSTANTS
    HeaderLength = 1
    Block = 2
    s1 = s1
    s2 = s2
    Source = {s1, s2}
    Length = {2, 7}
    Ttl = {1, 2}
    SourceMtu = {0, 6}
    RouterMtu = {0, 4}
    MaxSent = 1
SYMMETRY SourceSymmetry
INVARIANTS
    ReassemblyExact
    DeliveredComplete
CHECK_DEADLOCK FALSE
