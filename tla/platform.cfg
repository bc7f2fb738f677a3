SPECIFICATION FairSpec
CONSTANTS
  accepted = accepted
  longCountry = longCountry
  blankSku = blankSku
  blankCountry = blankCountry
  overflow = overflow
  h1 = h1
  h2 = h2
  moved = moved
  NoOrder = NoOrder
  Order <- Orders
  Request <- Requests
  MaxColumn = 15
  MaxExact = 31
  Canceller <- Cancellers
  Change <- Changes
  ChangeOf <- OfAccepted
  MaxCopies = 2
INVARIANTS
  TypeOK EffectsHaveCause OrdersAreReadable TotalsAreExact
PROPERTIES
  OrdersArrive ChangesArrive
