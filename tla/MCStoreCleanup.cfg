CONSTANTS
  europe = europe
  northAmerica = northAmerica
  Pack = {europe, northAmerica}
  Remover = {"remover"}
  MaxInstalls = 2
  MaxExpired = 2
  MaxCrashes = 1
SYMMETRY Packs
SPECIFICATION Spec
PROPERTIES CleanupIsComplete
CHECK_DEADLOCK FALSE
