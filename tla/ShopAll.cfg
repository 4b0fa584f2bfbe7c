SPECIFICATION Spec
CONSTANTS
  u1 = u1
  u2 = u2
  u3 = u3
  g1 = g1
  g2 = g2
  s1 = s1
  s2 = s2
  s3 = s3
  c1 = c1
  c2 = c2
  Shoppers = {u1, u2, u3}
  Goods = {g1, g2}
  Price <- MCPrice
  Codes = {c1, c2}
  InitCarts <- MCInitCarts
  InitShelves <- MCInitShelves
  InitCoupons <- MCInitCoupons
  CartCalls <- MCCartCalls
  CartSlots = {s1, s2, s3}
  CartOrder <- MCOrder
  Batch = 2
  ReturnCode = c2
  MaxFailures = 1
CHECK_DEADLOCK FALSE
INVARIANTS RemindersTypeOK TotalNotNegative RemindedOnce
PROPERTIES LinesKept LinesWithinStock AbandonedReminded
