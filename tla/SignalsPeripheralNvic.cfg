SPECIFICATION FairSpec
PROPERTY WriteHandledBeforeReply
CHECK_DEADLOCK FALSE
