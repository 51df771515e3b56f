\* Four addresses, one of which is unmapped, and transfers of up to two bytes:
\* source and destination can be apart, overlap either way and wrap.
SPECIFICATION FairSpec
CONSTANTS
    AddrMod = 4
    Byte = {b0, b1}
    Faulty = {2}
    MaxLen = 2
INVARIANTS TypeOK RequestCoversAccesses ProgressInv
PROPERTIES ImplementsAtomicCopy NoMissedGrant GrantedTransferEnds
