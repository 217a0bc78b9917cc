------------------------------ MODULE MCClient ------------------------------
(* Instances of Client for TLC: the roles of the goroutines and the sizes  *)
(* of the messages.                                                        *)
EXTENDS Client, TLC

CONSTANTS u1, u2, k1, k2, w1, coll, reader, i1, i2

Users1 == {u1}
Users2 == {u1, u2}
Closers0 == {}
Closers1 == {k1}
Closers2 == {k1, k2}
Owners0 == {}
Owners1 == {w1}
MCThread == User \cup Closer \cup Owner \cup {coll, reader}
MCDeadline == {"armed", "expired"}
Small == [id \in ID |-> IF id = ZeroID THEN 0 ELSE 2]
Symm == Permutations(User) \cup Permutations(Obj) \cup Permutations(Closer)
Mixed == [id \in ID |-> CASE id = ZeroID -> 0 [] id = i1 -> 2 [] id = i2 -> 3]
=============================================================================
