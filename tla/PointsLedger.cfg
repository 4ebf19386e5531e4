SPECIFICATION Spec
CONSTANTS
  None = None
  ann = ann
  g1 = g1
  ref = ref
  Players = {ann}
  Groups = {g1}
  Member <- MCMember
  Awards <- MCAwards
  Costs = {2}
  Refs = {ref}
  Subscriber <- MCSubscriber
  Amounts = {1, 2}
  Month = 2
  Batch = 2
  Workers <- MCWorkers
  w1 = w1
  w2 = w2
  MaxCredits = 2
  MaxNow = 3
  MaxGrants = 2
  MaxBegun = 4
  MaxTroubles = 1
SYMMETRY MCSymmetry
INVARIANTS
  CreditsBalance
PROPERTIES
  SoonestFirst
  GrantsAreMonthly
CHECK_DEADLOCK FALSE
