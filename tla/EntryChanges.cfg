SPECIFICATION Spec
CONSTANTS
  ann = ann
  bob = bob
  cid = cid
  g1 = g1
  g2 = g2
  d1 = d1
  d2 = d2
  o1 = o1
  Players = {ann, bob, cid}
  Groups = {g1, g2}
  Member <- MCMember
  Tracking = {g1, g2}
  Drops = {d1, d2}
  Receiver <- MCReceiver
  Month <- MCMonth
  Now = 2
  Others = {o1}
  Owner <- MCOwner
  Number <- MCNumber
  Values = {7}
  Worth <- MCWorth
  Namings <- MCNamings
  MaxChanges = 2
  MaxRebuilds = 1
  MaxTroubles = 1
INVARIANTS
  BoardsAddUp
  PointsFollowEntries
  SharesAreEven
CHECK_DEADLOCK FALSE
