CONSTANTS
    Clients = {c1, c2}
    MaxPool = 2
    MaxInFlight = 3
    MaxAfterForgot = 1
SPECIFICATION Spec
CONSTRAINT InFlight
INVARIANTS NoDuplicateAddress OneLeasePerClient TimersMatchState BoundHasAddress
PROPERTY AddressStable
SYMMETRY ClientSymmetry
