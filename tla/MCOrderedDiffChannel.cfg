\* Every page state with two writer lists of up to four records, clock entries 0..2.
CONSTANTS
    NrProcs = 2
    MaxTick = 2
    MaxLen = 4
SPECIFICATION Spec
INVARIANT TypeOK
INVARIANT SentInCausalOrder
