CONSTANTS
    Clients = {"cold", "warm", "init"}
    Fifo = FALSE
    Results <- MCResults
SPECIFICATION FairSpec
INVARIANTS SessionInv RepliesAccounted HooksOnce RunsOnceAfterInit
PROPERTY EverySessionEnds
CHECK_DEADLOCK FALSE
