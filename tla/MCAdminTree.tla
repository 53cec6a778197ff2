----------------------------- MODULE MCAdminTree ----------------------------
(* An instance of AdminTree: an organization with a season and an event   *)
(* in it; other clients add more.                                         *)
EXTENDS AdminTree, TLC

CONSTANTS n1, n2

MCInitialDb ==
  [organization |-> 1 :> [parent |-> 0, name |-> n1],
   season |-> 2 :> [parent |-> 1, name |-> n1],
   event |-> 3 :> [parent |-> 2, name |-> n1]]
=============================================================================
