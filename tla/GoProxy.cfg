SPECIFICATION FairSpec
CONSTANT MaxAttempts = 3
INVARIANTS TypeOK BodyReleased ErrorIsEarned RetryOnlyAfterFault
PROPERTIES CallSpec Returns
