\* One upload with its preview, under the fairness of the clock, the cron and the provider.
SPECIFICATION FairSpec
CONSTANTS
  Files = {"f1"}
  Workers = {"w1"}
  Limit = 2
PROPERTIES
  SoftDeletedIsPurged
  IntentsSettle
CHECK_DEADLOCK FALSE
