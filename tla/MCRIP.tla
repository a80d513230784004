------------------------------- MODULE MCRIP -------------------------------
EXTENDS RIP

MCifaces == [A |-> <<"p", "q">>, B |-> <<"q", "p">>]
MCcost == [A |-> [p |-> 1, q |-> 1], B |-> [p |-> 1, q |-> 2]]
MCmode == [A |-> [p |-> "SPLIT_HORIZON_POISONED_REVERSE", q |-> "SPLIT_HORIZON"],
           B |-> [p |-> "SPLIT_HORIZON_POISONED_REVERSE", q |-> "NO_SPLIT_HORIZON"]]
MCstatic == [A |-> <<<<"x", "p">>>>, B |-> <<>>]

\* The lengths of the shortest paths are what the abstract specification asks for.
ASSUME DV!DistanceAssumption

ASSUME EvenCosts

=============================================================================
