\* A vector that grows at the third value.
SPECIFICATION InternSpec
CONSTANTS
  Clone = Clone
  Tuple2 = Tuple2
  Tuple3 = Tuple3
  name = name
  tuple2 = tuple2
  tuple3 = tuple3
  Concrete = {Clone, Tuple2, Tuple3, name}
  Tuple = {tuple2, tuple3}
  Render <- MCRender
  Predefined <- MCPredefined
  MinCapacity = 2
  MaxIndex = 10
INVARIANTS ReferencesStay
