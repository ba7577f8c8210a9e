SPECIFICATION FoundationsSpec
CONSTANTS
  Writers = {w1, w2, w3}
  Earlier = earlier
  MaxLosses = 1
  Pids = {self, p1, p2}
  Self = self
  Databases = {selected, other}
  Selected = selected
  Platforms = {"linux", "macos", "windows", "other"}
  ScanEvents = 2
  Places = {home, alt}
  Home = home
  Profile = work
  Depth = 3
  LocalTypes = {2, 3}
  RemoteTypes = {1, 4}
  OtherTypes = {5}
  MaxMounts = 4
  Overmounts = FALSE
  None = none
  Idle = idle
SYMMETRY Symmetry
CHECK_DEADLOCK FALSE
INVARIANTS
  PartsTypeOK
  WholeDocument ReadsWhole OneWinner
  HolderNeverMissed  RefusalHasCause
   CrossBoundaryRefused
   
PROPERTY DocumentKept
