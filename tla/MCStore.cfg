CONSTANTS
  europe = europe
  northAmerica = northAmerica
  Pack = {europe, northAmerica}
  Remover = {"remover"}
  MaxInstalls = 2
  MaxExpired = 1
  MaxCrashes = 1
SYMMETRY Packs
SPECIFICATION Spec
INVARIANTS RuntimeWhole RuntimeMatches PackSurvives RollsBack UsesVerified
PROPERTIES RetainsDownload
CHECK_DEADLOCK FALSE
