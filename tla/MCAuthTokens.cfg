\* Both orders of the start, rows that change, failed attempts to connect, a lost session, a crash.
SPECIFICATION FairSpec
CONSTANTS
  i1 = i1  k1 = k1  k2 = k2  email1 = email1
  profile = profile  a1 = a1  uri = uri  token1 = token1
  cipher = cipher  nil = nil
  Ids = {i1}
  Keys = {k1, k2}
  Emails = {email1}
  Profiles = {profile}
  PlanIds = {}
  Limits = {}
  Addrs = {a1}
  Uris = {uri}
  Tokens = {token1}
  Ciphers = {cipher}
  Quotas = {nil}
  Pids = {}
  Empty = nil
  Nil = nil
  Orders = {TRUE, FALSE}
  MaxQueue = 2
  MaxAttempts = 4
  MaxDisconnects = 1
  MaxCrashes = 1
INVARIANTS TypeOK KeysOpen StaleKeysExplained NoGap
PROPERTIES KeyOpensEventually StartGetsThrough
