\* A session that is over is edited no more.
CHECK_DEADLOCK FALSE
SPECIFICATION Spec
CONSTANTS
  apple = apple
  roll = roll
  Products = {apple, roll}
  Weighed = {apple}
  Price <- MCPrice
  Carts <- MCCarts
  Typed = {4, 10000}
  Editors = {e1, e2}
  MaxLines = 2
INVARIANTS CartsAreReadable
