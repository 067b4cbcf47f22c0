\* Two integrators with a spare key, two organizations, an election, a plan.
SPECIFICATION SqlSpec
CONSTANTS
  i1 = i1  i2 = i2  k1 = k1  k2 = k2  k3 = k3  email1 = email1  email2 = email2
  profile = profile  plan1 = plan1  limits = limits  a1 = a1  a2 = a2
  uri = uri  token = token  cipher = cipher  quota = quota  p1 = p1
  empty = empty  nil = nil
  Ids = {i1, i2}
  Keys = {k1, k2, k3}
  Emails = {email1, email2}
  Profiles = {profile}
  PlanIds = {plan1}
  Limits = {limits}
  Addrs = {a1, a2}
  Uris = {uri, empty}
  Tokens = {token}
  Ciphers = {cipher}
  Quotas = {quota}
  Pids = {p1}
  Empty = empty
  Nil = nil
INVARIANTS SqlTypeOK OneIntegratorPerOrganization NoDanglingElection NoDanglingPlan
