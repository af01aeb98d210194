SPECIFICATION FairSpec
CONSTANTS
  smith = smith  jones = jones
  ann = ann  bob = bob  cid = cid  dan = dan
  kitchen = kitchen  garden = garden
  own = own  adult = adult
  c1 = c1  c2 = c2
  Household <- Both
  Id <- Ids
  Room = {kitchen, garden}
  Account = {own, adult}
  Challenge = {c1, c2}
  None = None
  Founder <- Founders
  Legacy <- Bare
  Moves <- OwnerMoves
  Invites <- Asked
  MaxBindings = 3
  MaxOpen = 2
  ResetMax = 1
INVARIANTS
  RoutableIsAuthorized
  OneHolder
PROPERTIES
  NoStaleInvitation
  StagedSettles
CHECK_DEADLOCK FALSE
