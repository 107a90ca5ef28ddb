SPECIFICATION FairSpec
CONSTANTS
  Runs = {r1, r2}
  Button = Button
  First = First
  MaxAirdrops = 2
  Ttl = 2
  Cooldown = 2
  MaxNow = 4
INVARIANTS
  AutomaticOnce
PROPERTY ButtonComesFree
CHECK_DEADLOCK FALSE
