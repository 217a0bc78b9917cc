----------------------------- MODULE MCAddress ------------------------------
(* Instances of Address for TLC.                                           *)
EXTENDS Address

MCTIDs == {<<1, 2, 3>>, <<3, 3, 1>>}
MCIPs == {<<1>>, <<0>>, <<0, 0, 3, 2>>, <<0, 1, 3, 2>>, <<1, 2, 0, 3>>}

(* Values of both families with no, one and four cells of address, of an   *)
(* unknown family, and an empty one where the capacity ends.               *)
MCValues == {[family |-> f, port |-> 1, ip |-> ip] :
               f \in {1, 2, 3}, ip \in {<<>>, <<2>>, <<2, 1, 0, 3>>}}
            \cup {[family |-> NoRoom, port |-> 0, ip |-> <<>>]}
=============================================================================
