--------------------------- MODULE HMACPoolProofs ---------------------------
(***************************************************************************)
(* Sum of a pooled HMAC state returns the HMAC (internal/hmac), for any    *)
(* number of goroutines, states and writes.                                *)
(***************************************************************************)
EXTENDS HMACPool, SequenceTheorems, TLAPS

Fields == {"outer", "inner", "ipad", "opad", "marshaled"}
Using(g) == pc[g] \in {"using", "summed"}

(* ipad and opad hold the padded key, or the states after hashing it.      *)
Keyed(h, k) ==
  /\ ~h.marshaled => /\ h.ipad = Pad(Short(k), "ipad")
                     /\ h.opad = Pad(Short(k), "opad")
  /\ h.marshaled => /\ h.ipad = State(<<Pad(Short(k), "ipad")>>)
                    /\ h.opad = State(<<Pad(Short(k), "opad")>>)

(* The inner hash was fed the padded key and then the text.                *)
Fed(h, k, t) == h.inner = <<Pad(Short(k), "ipad")>> \o t

Shape ==
  /\ hm = [s \in Struct |-> hm[s]]
  /\ \A s \in Struct : DOMAIN hm[s] = Fields /\ hm[s].marshaled \in BOOLEAN
  /\ pool \subseteq Struct
  /\ pc \in [Goroutine -> {"idle", "using", "summed"}]
  /\ mac \in [Goroutine -> Struct]
  /\ key \in [Goroutine -> Key]
  /\ text \in [Goroutine -> Seq(Data)]
  /\ sum = [g \in Goroutine |-> sum[g]]

InUse ==
  \A g \in Goroutine : Using(g) =>
    Keyed(hm[mac[g]], key[g]) /\ Fed(hm[mac[g]], key[g], text[g])

IInv == Shape /\ OneUser /\ InUse /\ SumIsHMAC

(* Writing to the hash appends to the text.                                *)
LEMMA AppendCat ==
  ASSUME NEW S, NEW x, NEW u \in Seq(S), NEW d \in S
  PROVE  Append(<<x>> \o u, d) = <<x>> \o Append(u, d)
<1> DEFINE X == S \cup {x}
<1>1. <<x>> \in Seq(X) /\ u \in Seq(X) /\ d \in X
  OBVIOUS
<1> QED BY <1>1

(* The outer hash: Sum appends the inner digest to the padded key.         *)
LEMMA AppendOne == ASSUME NEW x, NEW y PROVE Append(<<x>>, y) = <<x, y>>
<1> DEFINE S == {x, y}
           s == Append(<<x>>, y)
           t == <<x, y>>
<1>1. <<x>> \in Seq(S) /\ y \in S
  OBVIOUS
<1>2. s \in Seq(S) /\ Len(s) = 2 /\ s[1] = x /\ s[2] = y
  BY <1>1
<1>3. t \in Seq(S) /\ Len(t) = 2 /\ t[1] = x /\ t[2] = y
  OBVIOUS
<1> HIDE DEF s, t
<1>4. \A i \in 1 .. Len(s) : s[i] = t[i]
  BY <1>2, <1>3
<1>5. s = t
  BY <1>2, <1>3, <1>4, SeqEqual
<1> QED BY <1>5 DEF s, t

(* After Acquire and Reset the inner hash holds the padded key alone.      *)
LEMMA CatEmpty == ASSUME NEW x PROVE <<x>> \o <<>> = <<x>>
OBVIOUS

(* A state the pool makes, or that was worked with, has all its fields.    *)
LEMMA FreshShape == DOMAIN Fresh = Fields /\ Fresh.marshaled = FALSE
BY DEF Fresh, Fields

(* The pool starts out with states that belong to nobody.                  *)
LEMMA InitOK == Init => IInv
<1> SUFFICES ASSUME Init PROVE IInv
  OBVIOUS
<1>1. hm = [s \in Struct |-> hm[s]]
  BY DEF Init
<1>2. \A s \in Struct : DOMAIN hm[s] = Fields /\ hm[s].marshaled \in BOOLEAN
  BY FreshShape DEF Init
<1>3. text \in [Goroutine -> Seq(Data)] /\ sum = [g \in Goroutine |-> sum[g]]
  BY DEF Init
<1>4. pc \in [Goroutine -> {"idle", "using", "summed"}] /\ \A g \in Goroutine : pc[g] = "idle"
  BY DEF Init
<1>5. Shape
  BY <1>1, <1>2, <1>3, <1>4 DEF Init, Shape
<1> QED BY <1>4, <1>5 DEF IInv, OneUser, InUse, SumIsHMAC, Using

(* resetTo removes what is left of the use before: AcquireSHA1 hands out a *)
(* state keyed with the new key and an empty text.                         *)
LEMMA AcquireOK ==
  ASSUME IInv, NEW g \in Goroutine, NEW k \in Key, NEW s \in Struct, Acquire(g, k, s)
  PROVE  IInv'
<1> DEFINE h == resetTo(hm[s], k)
<1> USE DEF IInv
<1>1. hm' = [hm EXCEPT ![s] = h] /\ s \in pool /\ pc[g] = "idle"
  BY DEF Acquire
<1>2. DOMAIN h = Fields /\ h.marshaled = FALSE
  BY DEF Shape, resetTo, Fields
<1>3. Keyed(h, k) /\ Fed(h, k, <<>>)
  BY CatEmpty DEF Shape, resetTo, Fields, Keyed, Fed
<1>4. hm'[s] = h /\ \A x \in Struct \ {s} : hm'[x] = hm[x]
  BY <1>1 DEF Shape
<1>5. Shape'
  <2>1. hm' = [x \in Struct |-> hm'[x]]
    BY <1>1 DEF Shape
  <2>2. \A x \in Struct : DOMAIN hm'[x] = Fields /\ hm'[x].marshaled \in BOOLEAN
    <3> HIDE DEF h
    <3> QED BY <1>2, <1>4 DEF Shape
  <2>3. text' \in [Goroutine -> Seq(Data)]
    BY DEF Shape, Acquire
  <2> QED BY <2>1, <2>2, <2>3 DEF Shape, Acquire
<1>6. OneUser'
  BY <1>1 DEF OneUser, Shape, Acquire
<1>7. InUse'
  BY <1>1, <1>3, <1>4 DEF InUse, Using, OneUser, Shape, Acquire
<1>8. SumIsHMAC'
  BY DEF SumIsHMAC, Shape, Acquire
<1> QED BY <1>5, <1>6, <1>7, <1>8

(* What the other actions have in common: goroutine g changes the state it *)
(* uses to one of the same key, and the text with it.                      *)
LEMMA UseOK ==
  ASSUME IInv, NEW g \in Goroutine, Using(g), NEW h, NEW u \in Seq(Data),
         NEW p \in {"using", "summed"},
         hm' = [hm EXCEPT ![mac[g]] = h], DOMAIN h = Fields, h.marshaled \in BOOLEAN,
         Keyed(h, key[g]), Fed(h, key[g], u),
         text' = [text EXCEPT ![g] = u], pc' = [pc EXCEPT ![g] = p],
         UNCHANGED <<pool, mac, key>>
  PROVE  OneUser' /\ InUse' /\ (sum' = [x \in Goroutine |-> sum'[x]] => Shape')
<1> USE DEF IInv
<1>1. mac[g] \in Struct
  BY DEF Shape
<1>2. hm'[mac[g]] = h /\ \A x \in Struct \ {mac[g]} : hm'[x] = hm[x]
  BY <1>1 DEF Shape
<1>3. hm' = [x \in Struct |-> hm'[x]]
  BY DEF Shape
<1>4. \A x \in Struct : DOMAIN hm'[x] = Fields /\ hm'[x].marshaled \in BOOLEAN
  BY <1>2 DEF Shape
<1>5. text' \in [Goroutine -> Seq(Data)] /\ pc' \in [Goroutine -> {"idle", "using", "summed"}]
  BY DEF Shape
<1>6. text'[g] = u /\ pc'[g] = p
      /\ \A g2 \in Goroutine \ {g} : text'[g2] = text[g2] /\ pc'[g2] = pc[g2]
  BY DEF Shape
<1>7. OneUser'
  BY <1>6 DEF OneUser, Using
<1>8. InUse'
  <2> SUFFICES ASSUME NEW g2 \in Goroutine, Using(g2)'
               PROVE  (Keyed(hm[mac[g2]], key[g2]) /\ Fed(hm[mac[g2]], key[g2], text[g2]))'
    BY DEF InUse
  <2>1. CASE g2 = g
    BY <2>1, <1>2, <1>6 DEF Keyed, Fed
  <2>2. CASE g2 # g
    <3>1. Using(g2) /\ text'[g2] = text[g2]
      BY <2>2, <1>6 DEF Using
    <3>2. mac[g2] # mac[g] /\ mac[g2] \in Struct
      BY <2>2, <3>1 DEF OneUser, Using, Shape
    <3>3. hm'[mac[g2]] = hm[mac[g2]]
      BY <1>2, <3>2
    <3> QED BY <3>1, <3>3 DEF InUse, Keyed, Fed
  <2> QED BY <2>1, <2>2
<1>9. ASSUME sum' = [x \in Goroutine |-> sum'[x]] PROVE Shape'
  BY <1>3, <1>4, <1>5, <1>9 DEF Shape
<1> QED BY <1>7, <1>8, <1>9

(* Write extends the text, and the inner hash with it.                     *)
LEMMA WriteOK ==
  ASSUME IInv, NEW g \in Goroutine, NEW d \in Data, Write(g, d)
  PROVE  IInv'
<1> DEFINE h == [hm[mac[g]] EXCEPT !.inner = Append(@, d)]
           u == Append(text[g], d)
<1> USE DEF IInv
<1>1. Using(g) /\ mac[g] \in Struct /\ text[g] \in Seq(Data)
  BY DEF Write, Using, Shape
<1>2. u \in Seq(Data)
  BY <1>1
<1>3. DOMAIN hm[mac[g]] = Fields /\ hm[mac[g]].marshaled \in BOOLEAN
  BY <1>1 DEF Shape
<1>4. /\ DOMAIN h = Fields /\ h.marshaled = hm[mac[g]].marshaled
      /\ h.ipad = hm[mac[g]].ipad /\ h.opad = hm[mac[g]].opad
      /\ h.inner = Append(hm[mac[g]].inner, d)
  BY <1>3 DEF Fields
<1>5. Keyed(h, key[g])
  <2> HIDE DEF h
  <2> QED BY <1>1, <1>4 DEF InUse, Keyed
<1>6. Fed(h, key[g], u)
  <2> HIDE DEF h
  <2>1. hm[mac[g]].inner = <<Pad(Short(key[g]), "ipad")>> \o text[g]
    BY <1>1 DEF InUse, Fed
  <2>2. Append(<<Pad(Short(key[g]), "ipad")>> \o text[g], d) = <<Pad(Short(key[g]), "ipad")>> \o u
    BY <1>1, AppendCat
  <2> QED BY <1>4, <2>1, <2>2 DEF Fed
<1>7. hm' = [hm EXCEPT ![mac[g]] = h] /\ text' = [text EXCEPT ![g] = u]
      /\ pc' = [pc EXCEPT ![g] = "using"] /\ UNCHANGED <<pool, mac, key, sum>>
  BY DEF Write
<1>8. OneUser' /\ InUse' /\ (sum' = [x \in Goroutine |-> sum'[x]] => Shape')
  <2> HIDE DEF h, u
  <2> QED BY <1>1, <1>2, <1>3, <1>4, <1>5, <1>6, <1>7, UseOK
<1>9. Shape'
  BY <1>7, <1>8 DEF Shape
<1>10. SumIsHMAC'
  BY <1>7 DEF SumIsHMAC, Shape
<1> QED BY <1>8, <1>9, <1>10

(* Sum hashes the padded key and the inner hash.                           *)
LEMMA SumOK ==
  ASSUME IInv, NEW g \in Goroutine, Sum(g)
  PROVE  IInv'
<1> DEFINE o == SumOuter(hm[mac[g]])
           h == [hm[mac[g]] EXCEPT !.outer = o]
           k == key[g]
<1> USE DEF IInv
<1>1. Using(g) /\ mac[g] \in Struct /\ text[g] \in Seq(Data)
  BY DEF Sum, Using, Shape
<1>2. DOMAIN hm[mac[g]] = Fields /\ hm[mac[g]].marshaled \in BOOLEAN
  BY <1>1 DEF Shape
<1>3. Keyed(hm[mac[g]], k) /\ Fed(hm[mac[g]], k, text[g])
  BY <1>1 DEF InUse
<1>4. o = <<Pad(Short(k), "opad"), Hash(<<Pad(Short(k), "ipad")>> \o text[g])>>
  <2>1. (IF hm[mac[g]].marshaled THEN Unmarshal(hm[mac[g]].opad) ELSE <<hm[mac[g]].opad>>)
          = <<Pad(Short(k), "opad")>>
    BY <1>2, <1>3 DEF Keyed, Unmarshal, State
  <2>2. o = Append(<<Pad(Short(k), "opad")>>, Hash(<<Pad(Short(k), "ipad")>> \o text[g]))
    BY <1>3, <2>1 DEF SumOuter, Fed
  <2> QED BY <2>2, AppendOne
<1>5. DOMAIN h = Fields /\ h.marshaled = hm[mac[g]].marshaled /\ h.ipad = hm[mac[g]].ipad
      /\ h.opad = hm[mac[g]].opad /\ h.inner = hm[mac[g]].inner
  <2> HIDE DEF o
  <2> QED BY <1>2 DEF Fields
<1>6. Keyed(h, k) /\ Fed(h, k, text[g])
  <2> HIDE DEF h
  <2> QED BY <1>3, <1>5 DEF Keyed, Fed
<1>7. hm' = [hm EXCEPT ![mac[g]] = h] /\ text' = [text EXCEPT ![g] = text[g]]
      /\ pc' = [pc EXCEPT ![g] = "summed"] /\ UNCHANGED <<pool, mac, key>>
      /\ sum' = [sum EXCEPT ![g] = Hash(o)]
  BY DEF Sum, Shape
<1>8. OneUser' /\ InUse' /\ (sum' = [x \in Goroutine |-> sum'[x]] => Shape')
  <2> HIDE DEF h
  <2> QED BY <1>1, <1>2, <1>5, <1>6, <1>7, UseOK
<1>9. Shape'
  BY <1>7, <1>8 DEF Shape
<1>10. SumIsHMAC'
  <2> SUFFICES ASSUME NEW g2 \in Goroutine, pc'[g2] = "summed"
               PROVE  sum'[g2] = HMAC(key[g2], text[g2])
    BY <1>7 DEF SumIsHMAC, Shape
  <2>1. CASE g2 = g
    <3>1. sum'[g2] = Hash(o)
      BY <1>7, <2>1 DEF Shape
    <3> QED BY <1>4, <2>1, <3>1 DEF HMAC
  <2>2. CASE g2 # g
    BY <1>7, <2>2 DEF SumIsHMAC, Shape
  <2> QED BY <2>1, <2>2
<1> QED BY <1>8, <1>9, <1>10

(* Reset returns to the padded key, from the key itself or from the state  *)
(* marshalled at the first Reset.                                          *)
LEMMA ResetOK ==
  ASSUME IInv, NEW g \in Goroutine, CallReset(g)
  PROVE  IInv'
<1> DEFINE h0 == hm[mac[g]]
           h == Reset(hm[mac[g]])
           k == key[g]
<1> USE DEF IInv
<1>1. Using(g) /\ mac[g] \in Struct
  BY DEF CallReset, Using, Shape
<1>2. DOMAIN h0 = Fields /\ h0.marshaled \in BOOLEAN /\ Keyed(h0, k)
  BY <1>1 DEF Shape, InUse
<1>3. DOMAIN h = Fields /\ h.marshaled \in BOOLEAN /\ Keyed(h, k)
      /\ h.inner = <<Pad(Short(k), "ipad")>>
  <2> HIDE DEF h0
  <2>1. CASE h0.marshaled
    <3>1. h = [h0 EXCEPT !.inner = Unmarshal(h0.ipad)]
      BY <2>1 DEF Reset, h0
    <3>2. Unmarshal(h0.ipad) = <<Pad(Short(k), "ipad")>>
      BY <1>2, <2>1 DEF Keyed, Unmarshal, State
    <3> HIDE DEF h
    <3> QED BY <1>2, <2>1, <3>1, <3>2 DEF Keyed, Fields
  <2>2. CASE ~h0.marshaled /\ ~Marshalable
    <3>1. h = [h0 EXCEPT !.inner = <<h0.ipad>>]
      BY <2>2 DEF Reset, h0
    <3> HIDE DEF h
    <3> QED BY <1>2, <2>2, <3>1 DEF Keyed, Fields
  <2>3. CASE ~h0.marshaled /\ Marshalable
    <3>1. h = [h0 EXCEPT !.inner = <<h0.ipad>>, !.outer = <<h0.opad>>,
                         !.ipad = State(<<h0.ipad>>), !.opad = State(<<h0.opad>>),
                         !.marshaled = TRUE]
      BY <2>3 DEF Reset, h0
    <3> HIDE DEF h
    <3> QED BY <1>2, <2>3, <3>1 DEF Keyed, Fields
  <2> QED BY <2>1, <2>2, <2>3
<1>4. Fed(h, k, <<>>) /\ <<>> \in Seq(Data)
  BY <1>3, CatEmpty DEF Fed
<1>5. hm' = [hm EXCEPT ![mac[g]] = h] /\ text' = [text EXCEPT ![g] = <<>>]
      /\ pc' = [pc EXCEPT ![g] = "using"] /\ UNCHANGED <<pool, mac, key, sum>>
  BY DEF CallReset
<1>6. OneUser' /\ InUse' /\ (sum' = [x \in Goroutine |-> sum'[x]] => Shape')
  <2> HIDE DEF h
  <2> QED BY <1>1, <1>3, <1>4, <1>5, UseOK
<1>7. Shape'
  BY <1>5, <1>6 DEF Shape
<1>8. SumIsHMAC'
  BY <1>5 DEF SumIsHMAC, Shape
<1> QED BY <1>6, <1>7, <1>8

(* Put gives up the state before anybody else can take it.                 *)
LEMMA PutOK ==
  ASSUME IInv, NEW g \in Goroutine, Put(g)
  PROVE  IInv'
<1> USE DEF IInv
<1>1. Shape'
  BY DEF Put, Shape
<1>2. OneUser'
  BY DEF Put, OneUser, Shape
<1>3. InUse'
  BY DEF Put, InUse, Using, Shape, Keyed, Fed
<1>4. SumIsHMAC'
  BY DEF Put, SumIsHMAC, Shape
<1> QED BY <1>1, <1>2, <1>3, <1>4

(* Every Sum is the HMAC of its own key and text, and no two goroutines    *)
(* share a state.                                                          *)
THEOREM PoolCorrect == Spec => [](SumIsHMAC /\ OneUser)
<1>1. IInv /\ [Next]_vars => IInv'
  <2> SUFFICES ASSUME IInv, [Next]_vars PROVE IInv'
    OBVIOUS
  <2>1. CASE Next
    BY <2>1, AcquireOK, WriteOK, SumOK, ResetOK, PutOK DEF Next
  <2>2. CASE UNCHANGED vars
    BY <2>2 DEF vars, IInv, Shape, OneUser, InUse, SumIsHMAC, Using, Keyed, Fed
  <2> QED BY <2>1, <2>2
<1>2. IInv => SumIsHMAC /\ OneUser
  BY DEF IInv
<1> QED BY InitOK, <1>1, <1>2, PTL DEF Spec
=============================================================================
