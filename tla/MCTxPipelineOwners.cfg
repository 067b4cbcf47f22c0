\* Two integrators that draw from three keys, one handler, one failed operation.
SPECIFICATION Spec
CONSTANTS
  i1 = i1  i2 = i2  k1 = k1  k2 = k2  k3 = k3  a1 = a1  a2 = a2  p1 = p1
  w1 = w1  w2 = w2  h1 = h1  h2 = h2  h3 = h3  nil = nil
  email1 = email1  email2 = email2  profile = profile
  cipher = cipher  token = token  uri = uri
  Ids = {i1, i2}
  Keys = {k1, k2, k3}
  Emails = {email1, email2}
  Profiles = {profile}
  PlanIds = {}
  Limits = {}
  Addrs = {a1}
  Uris = {uri}
  Tokens = {token}
  Ciphers = {cipher}
  Quotas = {nil}
  Pids = {p1}
  Empty = nil
  Nil = nil
  Hashes = {h1, h2}
  MinedDelay = 0
  Workers = {w1}
  StaleKeys = TRUE
  MaxCrashes = 0
  MaxFaults = 1
SYMMETRY Symmetry
INVARIANTS RowsWereAccepted ElectionUnderItsKey
