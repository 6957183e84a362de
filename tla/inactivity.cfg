SPECIFICATION Spec
CONSTANTS
  Work = {0, 5}
  MaxWork = 5
  MaxNetworks = 3
  MaxLag = 40
INVARIANTS SilentAskedInTime
 
