\* Every proc array of three slots (slot 0 empty) with up to two records per
\* slot, clock entries 0..1, and every requester clock.
CONSTANTS
    NrProcs = 3
    MaxTick = 1
    MaxLen = 2
SPECIFICATION Spec
INVARIANT TypeOK
INVARIANT ReturnsExactlyUnseen
