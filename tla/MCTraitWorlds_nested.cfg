\* A clause of the item keeps the bounds of an associated type from being loaded.
SPECIFICATION SearchSpec
CONSTANTS
  Traits <- MCTraits
  Assocs = {"A", "B", "Item"}
  OwnerOf <- MCOwnerOf
  Worlds <- NestedWorlds
  MaxLookups = 3
INVARIANTS NestedBoundsFound
CHECK_DEADLOCK FALSE
