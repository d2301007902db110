\* Two uploads, a copy of one by the other included, with one request in flight
\* beside the steps that need none (clock, cron, browser, trash).
SPECIFICATION Spec
CONSTANTS
  Files = {"f1", "f2"}
  Workers = {"w1"}
  Limit = 2
INVARIANTS
  TypeOK
  NoQuotaLeak
CHECK_DEADLOCK FALSE
