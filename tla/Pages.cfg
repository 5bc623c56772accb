SPECIFICATION WalkSpec
CONSTANTS
  Listings = {"orders", "positions", "applications", "coupons", "products", "materials"}
  LastId = 4
  Stock <- FourMaterials
  Limit = 1
  MaxPlace = 3
CHECK_DEADLOCK FALSE
INVARIANTS
  NothingLost
  ShownOnce
PROPERTIES
  WalkEnds
