--------------------------- MODULE MCAdminSession ---------------------------
(***************************************************************************)
(* Instances of AdminSession for TLC: two tabs, two tokens, the home page  *)
(* and the account page, and two calls in flight.                          *)
(***************************************************************************)
EXTENDS AdminSession

CONSTANTS x, y, k1, k2, home, account

MCSlot == 1..2

=============================================================================
