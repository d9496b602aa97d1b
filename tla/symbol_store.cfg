SPECIFICATION Spec
CONSTANTS
  orders = orders
  Orders = Orders
  items = items
  Names = {orders, Orders, items}
  Key <- UpperCase
  Kinds = {table, variable}
  Uris = {u1, u2}
  Sources = {Live}
INVARIANTS
  TypeOK
  MapsAgree
  LookupExact
PROPERTIES
  IndexSpec
