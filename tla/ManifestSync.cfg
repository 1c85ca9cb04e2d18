SPECIFICATION Spec
CONSTANTS
  Names = {"ping", "move"}
  CoreNames = {"ping"}
  Providers = {1, 2, 3}
  IdOf <- MCIdOf
  Offers <- MCOffers
  Startup <- MCStartup
  MaxChanges = 2
  MaxLinks = 1
  MaxFaults = 1
INVARIANTS QuietMirrors NoStrayProxy
PROPERTY NeverOlder
CHECK_DEADLOCK FALSE
