\* Both programs, with the accesses of MCSignalsUnit.
SPECIFICATION FairSpec
CONSTANT Accesses <- MCAccesses
INVARIANTS TypeOK SignalsMirrorRegisters NoStrandedTrigger
PROPERTIES SettledRead TriggeredWriteHappens
