SPECIFICATION Spec
CONSTANTS
  Requests = {"buy", "sell", "buy2", "odd", "cancel"}
  Keys = {"k1", "k2", "k3"}
  KeyOf <- MCKeyOf
  Shape <- MCShape
  OutOfScope = {"odd"}
  Size = 2
  Prices = {1, 2}
  NoQuote = 0
  Cash = 2
  Coins = 1
  MaxBalance = 3
  MaxAttempts <- MCMaxAttempts
  MaxLives = 1
INVARIANTS
  AdmittedOnRecord
  RefusalsHold
  BooksBalance
PROPERTIES
  ImplementsVenueContract
