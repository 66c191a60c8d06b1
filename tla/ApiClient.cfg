SPECIFICATION Spec
CONSTANTS
  Calls = {c1, c2, c3}
  Nobody = Nobody
  NoToken = NoToken
  Lifetimes = {3, 6}
  Margin = 3
  Timeout = 1
  MaxTime = 9
  MaxTokens = 4
SYMMETRY Symmetry
INVARIANTS
  TypeOK
  TokenOutlivesRequest
  NeverBaseless
  RefusedTokenForgotten
PROPERTIES
  TokenShared
