CONSTANTS
  t = t
  x = x
  y = y
  one = one
  two = two
  Items = {t, x, y}
  ListOf <- MCListOf
  Name <- MCName
  Sessions = {one, two}
  MaxDefinitions <- MCMaxDefinitions
  Numbers <- MCNumbers
  Decimals <- MCDecimals
  TextOf <- MCTextOf
  Structures <- MCStructures
  Pieces <- MCPieces
  Values <- MCValues
  Typed <- MCTyped
  Parameters <- MCParameters
SPECIFICATION Spec
INVARIANTS OffersComplete
PROPERTIES ClientsCatchUp
CHECK_DEADLOCK FALSE
