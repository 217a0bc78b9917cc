----------------------------- MODULE MCMessage -----------------------------
(* Instances of Message for TLC.                                           *)
EXTENDS Message

BindingSuccess == {[method |-> 1, class |-> 2]}
MCValues == {<<>>, <<<<7>>>>, <<<<7>>, <<8>>, <<7>>, <<8>>>>}

(* A packet longer than the memory of New.                                 *)
MCPackets ==
  {[cells |-> <<<<Value([method |-> 1, class |-> 2])>>, <<12>>, Cookie, <<1>>,
                <<3>>, <<4>>, <<9>>, <<9>>, <<9>>, <<9>>, <<3>>, <<2>>, <<9>>, <<8>>, <<0>>, <<0>>>>,
    contents |-> [type |-> [method |-> 1, class |-> 2], tid |-> 1,
                  attrs |-> <<<<3, <<<<9>>, <<9>>, <<9>>, <<9>>>>>>, <<3, <<<<9>>, <<8>>>>>>>>]]}
=============================================================================
