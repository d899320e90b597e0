---------------------------- MODULE MCNavigationTask ----------------------------
(* Which interruptions the operator uses in each run of NavigationTask. *)
EXTENDS NavigationTask

EStops == {"pause"}
Cancels == {"cancel"}
Clears == {"clear"}
AllOperations == {"pause", "cancel", "clear", "stop"}
=============================================================================
