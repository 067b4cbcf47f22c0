\* Three requests of an organization that exists and one that is created.
SPECIFICATION Spec
CONSTANTS
  q1 = q1  q2 = q2  q3 = q3  q4 = q4
  o1 = o1  o2 = o2  faucet = faucet  nil = nil
  Nil = nil
  Requests = {q1, q2, q3}
  Orgs = {o1, o2}
  Existing = {o1}
  Faucet = faucet
  StartBalances = {1}
  FaucetBalances = {6}
  Multiplier = 3
  Threshold = 2
SYMMETRY Symmetry
INVARIANTS TypeOK UrisAgree RowsHaveAccounts Funded RejectionsExplained DropsExplained
PROPERTIES OneTopUp
CHECK_DEADLOCK FALSE
