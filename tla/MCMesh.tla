------------------------------- MODULE MCMesh -------------------------------
(* Node 3 has joined at 1, and 2 at 4; 2, 3 and 4 form a triangle.  Without*)
(* 1-3 the three have only each other's word on 1; without 2-3 node 2      *)
(* reaches 1 through 4; without 2-4, which node 2 does not notice, its     *)
(* route to 4 stays.                                                       *)
EXTENDS Mesh, TLC

MCConfigured == {<<3, 1>>, <<2, 3>>, <<2, 4>>, <<3, 4>>}

MCFragile == 1 :> {{1, 3}, {2, 3}} @@ 4 :> {{2, 4}}

MCOffsets == {[n \in Node |-> n % FullRounds]}

MCLength == [p \in Prefix |-> 1]
=============================================================================
