\* An access to an offset that no case handles aborts the process.
SPECIFICATION FairSpec
INVARIANTS TypeOK ResetPulseSeen
PROPERTIES ReportedBeforeReply ReadIsCurrent NoLostResetRequest TransactionEnds
CHECK_DEADLOCK FALSE
