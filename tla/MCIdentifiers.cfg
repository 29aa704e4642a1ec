\* A small crate, then one with nodes three deep, read by one cargo-hax; a vector that
\* grows at the third value, and indexes that run out at the sixth.
SPECIFICATION IdentifiersSpec
CONSTANTS
  Type = {"TyKind", "DefIdContents"}
  Crates = 2
  MaxNodes <- MCMaxNodes
  Commands = {"rust", "ocaml", "json", "jsonIds"}
  Clone = Clone
  Tuple2 = Tuple2
  Tuple3 = Tuple3
  name = name
  tuple2 = tuple2
  tuple3 = tuple3
  Concrete = {Clone, Tuple2, Tuple3, name}
  Tuple = {tuple2, tuple3}
  Render <- MCRender
  Predefined <- MCPredefined
  MinCapacity = 2
  MaxIndex = 4
INVARIANTS TablesOK RoundTrip MessagesSelfContained HandlesCanonical EntriesDenote
PROPERTIES NeverRemoved
