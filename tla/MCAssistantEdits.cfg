SPECIFICATION Spec
CONSTANTS
  Items = {i1}
  Fields = {brief, date}
  Schedule = date
  Values = {v1, v2}
  Requests = {q1}
  Editors = {e1}
  MaxRevision = 1
  MaxEvents = 4
  MaxBatch = 2
INVARIANTS TypeOK AppliedIsBehind LogMatchesStatus CancelledLeavesNothing
PROPERTIES AppliesWhatWasShown WhatWasToldStands
CHECK_DEADLOCK FALSE
