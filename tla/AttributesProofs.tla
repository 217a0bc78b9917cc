-------------------------- MODULE AttributesProofs --------------------------
(* What the encodings of module Attributes keep, for every value.          *)
EXTENDS Attributes, SequenceTheorems, TLAPS

(* A code and its bytes, as numbers: h is the quotient and n the rest of   *)
(* the division by 100 at errorcode.go:43-44, and the class byte keeps h   *)
(* modulo 256.                                                             *)
LEMMA CodeArithmetic ==
  ASSUME NEW h \in Nat, NEW n \in Nat, n < 100
  PROVE  ((100 * h) + n) % 25600 = (100 * (h % 256)) + n
<1>1. PICK q \in Nat, r \in Nat : h = (256 * q) + r /\ r < 256 /\ h % 256 = r
  <2>1. h \div 256 \in Nat /\ h % 256 \in Nat /\ h % 256 < 256
    BY SMT
  <2>2. h = (256 * (h \div 256)) + (h % 256)
    BY SMT
  <2> QED
    BY <2>1, <2>2
<1>2. (100 * h) + n = (25600 * q) + ((100 * r) + n)
  BY <1>1, SMT
<1>3. (100 * r) + n \in Nat /\ (100 * r) + n < 25600
  BY <1>1, SMT
<1>4. ASSUME NEW y \in Nat, y < 25600
      PROVE  ((25600 * q) + y) % 25600 = y
  BY <1>4, SMT
<1> QED
  BY <1>1, <1>2, <1>3, <1>4

(* The four bytes before the reason; what GetFrom computes from them in 16 *)
(* bits is the code modulo 25600.                                          *)
LEMMA CodeBytes ==
  ASSUME NEW code \in Nat
  PROVE  \E c \in Byte, n \in Byte :
           /\ ErrorCodeBytes(code) = <<0, 0, c, n>>
           /\ ((c * 100) + n) % 65536 = code % 25600
<1>1. PICK h \in Nat, n \in Nat :
        code = (100 * h) + n /\ n < 100 /\ code \div 100 = h /\ code % 100 = n
  <2>1. code \div 100 \in Nat /\ code % 100 \in Nat /\ code % 100 < 100
    BY SMT
  <2>2. code = (100 * (code \div 100)) + (code % 100)
    BY SMT
  <2> QED
    BY <2>1, <2>2
<1>2. h % 256 \in Nat /\ h % 256 < 256 /\ n % 256 = n
  BY <1>1, SMT
<1>3. ErrorCodeBytes(code) = <<0, 0, h % 256, n>>
  BY <1>1, <1>2, SMT DEF ErrorCodeBytes, errorCodeModulo
<1>4. code % 25600 = (100 * (h % 256)) + n
  BY <1>1, CodeArithmetic
<1>5. (((h % 256) * 100) + n) % 65536 = (100 * (h % 256)) + n
  BY <1>1, <1>2, SMT
<1>6. h % 256 \in Byte /\ n \in Byte
  BY <1>1, <1>2, SMT DEF Byte
<1> QED
  BY <1>3, <1>4, <1>5, <1>6

(* Cutting a four-byte head off gives the rest back.                       *)
LEMMA TailAfterHead ==
  ASSUME NEW b \in Seq(Byte), Len(b) = 4, NEW reason \in Seq(Byte)
  PROVE  /\ b \o reason \in Seq(Byte) /\ Len(b \o reason) = 4 + Len(reason)
         /\ SubSeq(b \o reason, 5, Len(b \o reason)) = reason
         /\ (b \o reason)[3] = b[3] /\ (b \o reason)[4] = b[4]
<1> DEFINE v == b \o reason
           s == SubSeq(v, 5, Len(v))
<1>1. v \in Seq(Byte) /\ Len(v) = 4 + Len(reason) /\ Len(reason) \in Nat
  <2>1. v \in Seq(Byte) /\ Len(v) = Len(b) + Len(reason)
    BY ConcatProperties
  <2>2. Len(reason) \in Nat
    BY LenProperties
  <2> HIDE DEF v
  <2> QED
    BY <2>1, <2>2
<1>2. \A i \in 1 .. Len(v) : v[i] = IF i <= 4 THEN b[i] ELSE reason[i - 4]
  BY <1>1, ConcatProperties
<1>3. v[3] = b[3] /\ v[4] = b[4]
  BY <1>1, <1>2
<1> HIDE DEF v
<1>4. s \in Seq(Byte) /\ Len(s) = Len(reason)
  BY <1>1, SMT
<1>5. \A i \in 1 .. Len(reason) : s[i] = v[i + 4]
  BY <1>1, SMT
<1>6. \A i \in 1 .. Len(reason) : s[i] = reason[i]
  BY <1>1, <1>2, <1>5, SMT
<1>7. s = reason
  <2> HIDE DEF s
  <2> QED
    BY <1>4, <1>6, SeqEqual
<1> QED
  BY <1>1, <1>3, <1>7 DEF v

(* ErrorCodeAttribute.GetFrom returns what AddTo was given, reason         *)
(* included, up to the width of the class byte: the code modulo 25600.     *)
(* Only a reason longer than 763 bytes is refused.                         *)
THEOREM ErrorCodeRoundTrip ==
  ASSUME NEW code \in Nat, NEW reason \in Seq(Byte)
  PROVE  /\ ErrorCodeAddTo(code, reason).ok <=> Len(reason) <= 763
         /\ Len(reason) <= 763 =>
              ErrorCodeGetFrom(ErrorCodeAddTo(code, reason).value)
                = [ok |-> TRUE, code |-> code % 25600, reason |-> reason]
<1>1. PICK c \in Byte, n \in Byte :
        /\ ErrorCodeBytes(code) = <<0, 0, c, n>>
        /\ ((c * 100) + n) % 65536 = code % 25600
  BY CodeBytes
<1> DEFINE b == ErrorCodeBytes(code)
           v == b \o reason
<1>2. b \in Seq(Byte) /\ Len(b) = 4 /\ b[3] = c /\ b[4] = n
  BY <1>1, SMT DEF Byte
<1> HIDE DEF b
<1>3. /\ v \in Seq(Byte) /\ Len(v) = 4 + Len(reason)
      /\ SubSeq(v, 5, Len(v)) = reason /\ v[3] = c /\ v[4] = n
  BY <1>2, TailAfterHead
<1>4. Len(reason) \in Nat
  BY LenProperties
<1>5. ErrorCodeAddTo(code, reason).ok <=> Len(reason) <= 763
  BY <1>4, SMT DEF ErrorCodeAddTo, CheckOverflow, errorCodeReasonStart, errorCodeReasonMaxB
<1>6. Len(reason) <= 763 => ErrorCodeAddTo(code, reason).value = v
  BY <1>4, SMT DEF ErrorCodeAddTo, CheckOverflow, errorCodeReasonStart, errorCodeReasonMaxB, b
<1> HIDE DEF v
<1>7. ErrorCodeGetFrom(v) = [ok |-> TRUE, code |-> code % 25600, reason |-> reason]
  <2>1. ~(Len(v) < 4)
    BY <1>3, <1>4, SMT
  <2> DEFINE x == ((v[3] * 100) + v[4]) % 65536
             y == code % 25600
             tail == SubSeq(v, 5, Len(v))
  <2>2. ErrorCodeGetFrom(v) = [ok |-> TRUE, code |-> x, reason |-> tail]
    BY <2>1, SMT DEF ErrorCodeGetFrom, errorCodeReasonStart, errorCodeModulo
  <2>3. x = y
    BY <1>1, <1>3, SMT
  <2>4. tail = reason
    BY <1>3
  <2> HIDE DEF x, tail, y
  <2>5. ErrorCodeGetFrom(v) = [ok |-> TRUE, code |-> y, reason |-> reason]
    BY <2>2, <2>3, <2>4
  <2> QED
    BY <2>5 DEF y
<1> DEFINE back == [ok |-> TRUE, code |-> code % 25600, reason |-> reason]
           added == ErrorCodeAddTo(code, reason)
<1>8. Len(reason) <= 763 => ErrorCodeGetFrom(added.value) = back
  <2>1. ErrorCodeGetFrom(v) = back
    BY <1>7
  <2>2. Len(reason) <= 763 => added.value = v
    BY <1>6
  <2> HIDE DEF back, added
  <2> QED
    BY <2>1, <2>2
<1> QED
  BY <1>5, <1>8

(* Every code that has a default reason (errorReasons) comes back as it    *)
(* is, so that ErrorCode.AddTo and GetFrom agree on the standard codes.    *)
THEOREM DefaultCodesRoundTrip ==
  ASSUME NEW code \in errorReasons, NEW reason \in Seq(Byte), Len(reason) <= 763
  PROVE  ErrorCodeGetFrom(ErrorCodeAddTo(code, reason).value).code = code
<1>1. code \in Nat /\ code % 25600 = code
  BY SMT DEF errorReasons
<1> DEFINE g == ErrorCodeGetFrom(ErrorCodeAddTo(code, reason).value)
<1>2. g = [ok |-> TRUE, code |-> code % 25600, reason |-> reason]
  BY <1>1, ErrorCodeRoundTrip
<1> HIDE DEF g
<1>3. g.code = code
  BY <1>1, <1>2, SMT
<1> QED
  BY <1>3 DEF g

(* UnknownAttributes.GetFrom returns the types AddTo was given, in order   *)
(* and however many: the four bytes of one type never reach those of the   *)
(* next.                                                                   *)
THEOREM UnknownRoundTrip ==
  ASSUME NEW a \in Seq(Uint16)
  PROVE  UnknownGetFrom(UnknownAddTo(a)).ok /\ UnknownGetFrom(UnknownAddTo(a)).types = a
<1> DEFINE v == UnknownAddTo(a)
           n == Len(a)
           t == UnknownGetFrom(v).types
<1>1. n \in Nat /\ \A i \in 1 .. n : a[i] \in Uint16
  OBVIOUS
<1>2. v \in Seq(Int) /\ Len(v) = 4 * n
  <2>1. ASSUME NEW k \in 1 .. 4 * n
        PROVE  ((k - 1) \div 4) + 1 \in 1 .. n
    BY <1>1
  <2>2. \A k \in 1 .. 4 * n : v[k] \in Int
    BY <1>1, <2>1 DEF UnknownAddTo, attrTypeSize, Uint16
  <2>3. v = [k \in 1 .. 4 * n |-> v[k]]
    BY DEF UnknownAddTo, attrTypeSize
  <2> QED
    BY <1>1, <2>2, <2>3
<1>3. ASSUME NEW i \in 1 .. n
      PROVE  v[(4 * (i - 1)) + 1] = a[i] \div 256 /\ v[(4 * (i - 1)) + 2] = a[i] % 256
  <2> DEFINE k == (4 * (i - 1)) + 1
  <2>1. k \in 1 .. 4 * n /\ k + 1 \in 1 .. 4 * n
    BY <1>1
  <2>2. (k - 1) \div 4 = i - 1 /\ (k - 1) % 4 = 0
    BY <1>1
  <2>3. ((k + 1) - 1) \div 4 = i - 1 /\ ((k + 1) - 1) % 4 = 1
    BY <1>1
  <2>4. ((i - 1) + 1) = i
    OBVIOUS
  <2> HIDE DEF k
  <2>5. v[k] = a[i] \div 256
    BY <2>1, <2>2, <2>4 DEF UnknownAddTo, attrTypeSize
  <2>6. v[k + 1] = a[i] % 256
    BY <2>1, <2>3, <2>4 DEF UnknownAddTo, attrTypeSize
  <2>7. (4 * (i - 1)) + 2 = k + 1
    BY <1>1 DEF k
  <2> QED
    BY <2>5, <2>6, <2>7 DEF k
<1>4. (4 * n) % 4 = 0 /\ (4 * n) \div 4 = n
  BY <1>1
<1>5. /\ UnknownGetFrom(v).ok
      /\ t = [i \in 1 .. n |-> (256 * v[(4 * (i - 1)) + 1]) + v[(4 * (i - 1)) + 2]]
  <2> HIDE DEF v
  <2> QED
    BY <1>2, <1>4 DEF UnknownGetFrom, attrTypeSize
<1>6. ASSUME NEW x \in Uint16
      PROVE  (256 * (x \div 256)) + (x % 256) = x
  BY DEF Uint16
<1>7. \A i \in 1 .. n : (256 * v[(4 * (i - 1)) + 1]) + v[(4 * (i - 1)) + 2] = a[i]
  BY <1>1, <1>3, <1>6
<1>8. t = [i \in 1 .. n |-> a[i]]
  <2> HIDE DEF v, t
  <2> QED
    BY <1>5, <1>7
<1>9. a = [i \in 1 .. n |-> a[i]]
  OBVIOUS
<1> QED
  BY <1>5, <1>8, <1>9

(* AddToAs accepts a text up to its maximum, 513 bytes for USERNAME and    *)
(* 763 for the others, so that no text attribute comes near the 16 bits of *)
(* the length field.  A negative maximum refuses every value, where the    *)
(* comment at textattrs.go:114 has `If maxLen is less than 0, no check is  *)
(* performed'.                                                             *)
THEOREM TextLimits ==
  ASSUME NEW v \in Seq(Byte)
  PROVE  /\ \A kind \in TextKinds :
              AddToAs(v, maxLen(kind)).ok => Len(v) <= 763 /\ AddToAs(v, maxLen(kind)).value = v
         /\ \A max \in Int : max < 0 => ~ AddToAs(v, max).ok
<1>1. Len(v) \in Nat
  OBVIOUS
<1> QED
  BY <1>1 DEF AddToAs, CheckOverflow, maxLen, TextKinds
=============================================================================
