------------------------------ MODULE HMACPool ------------------------------
(***************************************************************************)
(* internal/hmac: HMAC states that are taken from a sync.Pool, used to     *)
(* compute message authentication codes and put back, by goroutines that   *)
(* work at the same time.  SHA1 and SHA256 have a pool each and the same   *)
(* code; the module stands for one of them.                                *)
(*                                                                         *)
(* A hash.Hash is the sequence of chunks written to it, and its Sum is     *)
(* that sequence wrapped as one chunk.  A marshalled state is the chunk    *)
(* <<"state", sequence>>; ipad and opad hold a padded key or, once Reset   *)
(* has marshalled them, such a chunk.                                      *)
(***************************************************************************)
EXTENDS Naturals, Sequences

CONSTANTS Goroutine,
          Key, LongKey,           \* keys, and which of them exceed a block
          Data,                   \* what is authenticated
          Struct,                 \* the states the pool can hand out
          Marshalable             \* the hash can be marshalled

VARIABLES hm,                     \* hm[s]: the fields of state s
          pool,                   \* states in the pool
          pc,                     \* pc[g]: "idle", "using" or "summed"
          mac,                    \* mac[g]: the state g acquired
          key, text,              \* what g is computing the code of
          sum                     \* sum[g]: the code g got

vars == <<hm, pool, pc, mac, key, text, sum>>

Hash(chunks) == <<"hash", chunks>>
Pad(k, p) == <<"pad", k, p>>
State(chunks) == <<"state", chunks>>
Unmarshal(c) == c[2]

(* `If key is too big, hash it.'                                           *)
Short(k) == IF k \in LongKey THEN Hash(<<k>>) ELSE k

(* H([key ^ opad] H([key ^ ipad] text)), of FIPS 198-1.                    *)
HMAC(k, t) == Hash(<<Pad(Short(k), "opad"), Hash(<<Pad(Short(k), "ipad")>> \o t)>>)
-----------------------------------------------------------------------------
(* New with a key of zeros, as the pool makes its states.                  *)
Fresh == [outer |-> <<>>, inner |-> <<Pad("zero", "ipad")>>,
          ipad |-> Pad("zero", "ipad"), opad |-> Pad("zero", "opad"),
          marshaled |-> FALSE]

(* Hashing a long key leaves it in outer.                                  *)
resetTo(h, k) ==
  [h EXCEPT !.outer = IF k \in LongKey THEN <<k>> ELSE <<>>,
            !.ipad = Pad(Short(k), "ipad"), !.opad = Pad(Short(k), "opad"),
            !.inner = <<Pad(Short(k), "ipad")>>,
            !.marshaled = FALSE]

(* Sum reads inner and leaves the outer hash behind in outer.              *)
SumOuter(h) ==
  Append(IF h.marshaled THEN Unmarshal(h.opad) ELSE <<h.opad>>, Hash(h.inner))

Reset(h) ==
  CASE h.marshaled -> [h EXCEPT !.inner = Unmarshal(h.ipad)]
    [] ~h.marshaled /\ ~Marshalable -> [h EXCEPT !.inner = <<h.ipad>>]
    [] ~h.marshaled /\ Marshalable ->
         [h EXCEPT !.inner = <<h.ipad>>, !.outer = <<h.opad>>,
                   !.ipad = State(<<h.ipad>>), !.opad = State(<<h.opad>>),
                   !.marshaled = TRUE]
-----------------------------------------------------------------------------
(* A state the pool has not made yet counts as one that is in it.          *)
Init ==
  /\ hm = [s \in Struct |-> Fresh]
  /\ pool = Struct
  /\ pc = [g \in Goroutine |-> "idle"]
  /\ mac \in [Goroutine -> Struct] /\ key \in [Goroutine -> Key]
  /\ text = [g \in Goroutine |-> <<>>]
  /\ sum = [g \in Goroutine |-> <<>>]

Acquire(g, k, s) ==
  /\ pc[g] = "idle" /\ s \in pool
  /\ hm' = [hm EXCEPT ![s] = resetTo(@, k)]
  /\ pool' = pool \ {s}
  /\ pc' = [pc EXCEPT ![g] = "using"]
  /\ mac' = [mac EXCEPT ![g] = s]
  /\ key' = [key EXCEPT ![g] = k]
  /\ text' = [text EXCEPT ![g] = <<>>]
  /\ UNCHANGED sum

Write(g, d) ==
  /\ pc[g] \in {"using", "summed"}
  /\ hm' = [hm EXCEPT ![mac[g]].inner = Append(@, d)]
  /\ text' = [text EXCEPT ![g] = Append(@, d)]
  /\ pc' = [pc EXCEPT ![g] = "using"]
  /\ UNCHANGED <<pool, mac, key, sum>>

Sum(g) ==
  /\ pc[g] \in {"using", "summed"}
  /\ hm' = [hm EXCEPT ![mac[g]].outer = SumOuter(hm[mac[g]])]
  /\ sum' = [sum EXCEPT ![g] = Hash(SumOuter(hm[mac[g]]))]
  /\ pc' = [pc EXCEPT ![g] = "summed"]
  /\ UNCHANGED <<pool, mac, key, text>>

CallReset(g) ==
  /\ pc[g] \in {"using", "summed"}
  /\ hm' = [hm EXCEPT ![mac[g]] = Reset(@)]
  /\ text' = [text EXCEPT ![g] = <<>>]
  /\ pc' = [pc EXCEPT ![g] = "using"]
  /\ UNCHANGED <<pool, mac, key, sum>>

Put(g) ==
  /\ pc[g] = "summed"
  /\ pool' = pool \cup {mac[g]}
  /\ pc' = [pc EXCEPT ![g] = "idle"]
  /\ UNCHANGED <<hm, mac, key, text, sum>>

Next ==
  \E g \in Goroutine :
    \/ \E k \in Key, s \in Struct : Acquire(g, k, s)
    \/ \E d \in Data : Write(g, d)
    \/ Sum(g) \/ CallReset(g) \/ Put(g)

Spec == Init /\ [][Next]_vars
-----------------------------------------------------------------------------
(* A state is never in the hands of two goroutines, or of one and of the   *)
(* pool.                                                                   *)
OneUser ==
  \A g \in Goroutine : pc[g] # "idle" =>
    /\ mac[g] \notin pool
    /\ \A g2 \in Goroutine \ {g} : pc[g2] # "idle" => mac[g2] # mac[g]

(* Whatever the state was used for before, with which key, by whom, and    *)
(* whether Reset had marshalled it: Sum returns the HMAC of the key it was *)
(* acquired with and of what was written since Acquire or the last Reset.  *)
SumIsHMAC == \A g \in Goroutine : pc[g] = "summed" => sum[g] = HMAC(key[g], text[g])
=============================================================================
