SPECIFICATION RelaySpec
CONSTANTS
  Sends = {s1, s2}
  Users = {"me", "ann", "bob"}
  Me = "me"
  Self <- MCSelf
  DevicesOf <- MCDevicesOf
  Groups = {"g"}
  Members <- MCPeers
  Fragile <- MCFragile
CHECK_DEADLOCK FALSE
INVARIANT
  OnlyChatDevices
