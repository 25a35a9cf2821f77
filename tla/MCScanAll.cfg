SPECIFICATION Spec
CONSTANTS
  r1 = r1
  r2 = r2
  r3 = r3
  caerleon = caerleon
  brecilien = brecilien
  bm = bm
  Tax = 4
  Items <- MCItems
  Royal <- MCRoyal
  Caerleon = caerleon
  Brecilien = brecilien
  BlackMarket = bm
  Qualities <- MCQualities
  RefiningCity <- MCRefiningCity
  MinVolume = 5
  MinMargin = 250
  MinRoi = 5
  Item <- MCAxe
  ItemValue = 256
  Distance <- MCDistance
  MinBmProfit = 3000
  MinArbProfit = 1000
  Recipes <- MCRecipes
  RefiningRecipes <- MCRefiningRecipes
  Enchantable <- MCEnchantable
  Transmutable <- MCTransmutable
  Bonus <- MCBonus
  StationFee <- MCStationFee
  WorkValue <- MCWorkValue
  MinCraftProfit = 1000
  MinMaterialVolume = 20
  CraftLocally = TRUE
  RefineLocally = FALSE
  UseFocus = FALSE
  Hosts <- MCHosts
  Plants <- MCPlants
  Animals <- MCAnimals
  Mounts <- MCMounts
  Fodder <- MCFodder
  Biome <- MCBiome
  Brews <- MCBrews
  IslandLocally = TRUE
  MinConsumableVolume = 3
  Scanned <- MCScanned
  ScanBm = {TRUE, FALSE}
INVARIANTS NetIsCovered BetterCostsMore CostIsOffered NoRoundTrip
