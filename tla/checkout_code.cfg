SPECIFICATION Spec
CONSTANTS
  r1 = r1  r2 = r2  r3 = r3  r4 = r4
  x = x  y = y  spring = spring  phoneA = phoneA  phoneB = phoneB  mail = mail

  Requests = {r1, r2, r3, r4}
  Slots = {c1, c2}
  Skus = {x, y}
  Promos = {spring}
  Phones = {phoneA, phoneB}
  Emails = {mail}
  NoPromo = NoPromo  NoEmail = NoEmail  NoCode = NoCode  Digitless = Digitless
  CartOf <- MCCartOf
  Stock <- MCStock
  Limit <- MCLimit
  Window <- MCWindow
  Days = 2
INVARIANT CollisionIsRetried
CHECK_DEADLOCK FALSE
