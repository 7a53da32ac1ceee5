-------------------------- MODULE MCServerClients --------------------------
(***************************************************************************)
(* ServerClients for TLC: handles, computer ids and contests are           *)
(* interchangeable, connections and slots are not (the table and the       *)
(* context list are searched from the front).                              *)
(***************************************************************************)
EXTENDS ServerClients, TLC

Symmetry == Permutations(Handles) \cup Permutations(Ids) \cup Permutations(Contests)

=============================================================================
