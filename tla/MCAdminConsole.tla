--------------------------- MODULE MCAdminConsole ---------------------------
(***************************************************************************)
(* Instances of AdminConsole for TLC: a cluster c1 with a server and an    *)
(* instance, and a server of its own with one, so that a page can show one *)
(* and act on the other.                                                   *)
(***************************************************************************)
EXTENDS AdminConsole, TLC

CONSTANTS c1, s1, s2, s3, k1, k2, k3, i1, i2, a1, a2, a3

MCSlot == 1..2
Page(page, id) == [page |-> page, id |-> id]

MCDb ==
  [clusters |-> {c1},
   servers |-> (s1 :> [address |-> a1, cluster |-> None]) @@ (s2 :> [address |-> a2, cluster |-> c1]),
   configs |-> (k1 :> [server |-> s1, cluster |-> None]) @@ (k2 :> [server |-> None, cluster |-> c1]),
   instances |-> (i1 :> [owner |-> c1, status |-> TRUE]),
   used |-> {c1, s1, s2, k1, k2, i1},
   up |-> {s1, s2}]

AllViews ==
  {Page("clusters", None), Page("servers", None), Page("servers", c1), Page("instances", None),
   Page("config", s1), Page("config", s2), Page("config", c1), Page("modify", i1), Page("add", None)}

AllEdits == {"refresh", "dialog", "details", "row", "instanceRow", "save", "edit", "load"}
DetailsEdits == {"details", "instanceRow"}
ServerViews == {Page("servers", None)}

=============================================================================
