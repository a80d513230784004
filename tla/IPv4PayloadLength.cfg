SPECIFICATION ReassemblySpec
CONSTANTS
    HeaderLength = 1
    Block = 2
    s1 = s1
    s2 = s2
    Source = {s1}
    Length = {7}
    Ttl = {2}
    SourceMtu = {6}
    RouterMtu = {4}
    MaxSent = 1
INVARIANTS
    DeliveredLength
CHECK_DEADLOCK FALSE
