SPECIFICATION FairSpec
INVARIANT TypeOK
PROPERTIES ConfirmedOnce AttemptsArePaced NewTurnIsNoRetry LastingNeedIsTold
CHECK_DEADLOCK FALSE
