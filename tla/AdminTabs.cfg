\* two tabs, two tokens, calls that may fail, an account page
CONSTANTS
  x = x
  y = y
  Tab = {x, y}
  Token = {k1, k2}
  k1 = k1
  k2 = k2
  home = home
  account = account
  Page = {home, account}
  Home = home
  Account = account
  None = None
  Slot <- MCSlot
  MaxMoves = 4
  Failures = TRUE
SPECIFICATION Spec
INVARIANTS SessionTypeOK CookieHasOwner LoadingHasLogin
PROPERTY NavigationSettles
CHECK_DEADLOCK FALSE
