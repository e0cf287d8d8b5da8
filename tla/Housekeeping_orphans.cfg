SPECIFICATION HousekeepingSpec
CONSTANTS
  s1 = s1
  s2 = s2
  s3 = s3
  s4 = s4
  w1 = w1
  w2 = w2
  agent = agent
  demo = demo
  Profiles = {1, 2}
  Policy <- SmallPolicy
  Snapshots = {s1, s2, s3, s4}
  Features <- SampleFeatures
  Invocations = {w1, w2}
  Lookback = 1
  Raw = 2
  Aggregate = 3
  Interval = 1
  ReceiptLife = 1
  Timeout = 1
  NoRun = NoRun
  MaxFaults = 2
  Principals = {agent, demo}
  Callers = {c1, c2}
  Limit <- SmallLimits
  MaxLag = 2
  MaxMinute = 3
  NoCall = NoCall
  Scopes = {x1, x2}
  Producers = {observer}
  Workers = {v1, v2}
  NoScope = NoScope
CHECK_DEADLOCK FALSE
INVARIANT
  OutcomesAreBounded
