SPECIFICATION FairRelaySpec
CONSTANTS
  Sends = {s1, s2}
  Users = {"me", "ann"}
  Me = "me"
  Self <- MCSelf
  DevicesOf <- MCDevicesOf
  Groups = {"g"}
  Members <- MCMembers
  Fragile <- MCFragile
CHECK_DEADLOCK FALSE
INVARIANTS
  AllOrNothing
  KeyReachesTargets
PROPERTY
  RelaySettles
