----------------------------- MODULE Attributes -----------------------------
(* The values of the ERROR-CODE, UNKNOWN-ATTRIBUTES and text attributes    *)
(* (errorcode.go, uattrs.go, textattrs.go): what AddTo writes into a       *)
(* message and what GetFrom makes of it.  How a message holds the values   *)
(* is the subject of module Message.                                       *)
EXTENDS Integers, Sequences

Byte == {b \in Nat : b < 256}
Uint16 == {n \in Nat : n < 65536}

(* CheckOverflow returns no error.                                         *)
CheckOverflow(got, max) == got <= max
-----------------------------------------------------------------------------
(* Text attributes: the value, or a refusal.                               *)

TextKinds == {"Username", "Realm", "Software", "Nonce"}
maxLen(kind) == IF kind = "Username" THEN 513 ELSE 763

AddToAs(v, max) ==
  IF CheckOverflow(Len(v), max) THEN [ok |-> TRUE, value |-> v]
  ELSE [ok |-> FALSE, value |-> <<>>]
-----------------------------------------------------------------------------
(* ERROR-CODE.  ErrorCode is an int; negative codes are left out.          *)

errorCodeReasonStart == 4
errorCodeReasonMaxB == 763
errorCodeModulo == 100

(* The codes that have a default reason.                                   *)
errorReasons == {300, 400, 401, 420, 438, 500, 487, 403, 437, 441, 442, 486,
                 508, 446, 447, 440, 443}

(* byte(c / 100) and byte(c % 100), after two bytes that stay zero.        *)
ErrorCodeBytes(code) ==
  <<0, 0, (code \div errorCodeModulo) % 256, (code % errorCodeModulo) % 256>>

ErrorCodeAddTo(code, reason) ==
  IF CheckOverflow(Len(reason) + errorCodeReasonStart,
                   errorCodeReasonMaxB + errorCodeReasonStart)
  THEN [ok |-> TRUE, value |-> ErrorCodeBytes(code) \o reason]
  ELSE [ok |-> FALSE, value |-> <<>>]

(* class*errorCodeModulo + number, in uint16.                              *)
ErrorCodeGetFrom(value) ==
  IF Len(value) < errorCodeReasonStart THEN [ok |-> FALSE, code |-> 0, reason |-> <<>>]
  ELSE [ok |-> TRUE,
        code |-> ((value[3] * errorCodeModulo) + value[4]) % 65536,
        reason |-> SubSeq(value, errorCodeReasonStart + 1, Len(value))]
-----------------------------------------------------------------------------
(* UNKNOWN-ATTRIBUTES: attrTypeSize bytes for each type, the type in the   *)
(* first two and zero in the others.                                       *)

attrTypeSize == 4

UnknownAddTo(a) ==
  [k \in 1 .. attrTypeSize * Len(a) |->
     LET t == a[((k - 1) \div attrTypeSize) + 1]
     IN IF (k - 1) % attrTypeSize = 0 THEN t \div 256
        ELSE IF (k - 1) % attrTypeSize = 1 THEN t % 256
        ELSE 0]

UnknownGetFrom(v) ==
  IF Len(v) % attrTypeSize # 0 THEN [ok |-> FALSE, types |-> <<>>]
  ELSE [ok |-> TRUE,
        types |-> [i \in 1 .. Len(v) \div attrTypeSize |->
                     (256 * v[(attrTypeSize * (i - 1)) + 1]) + v[(attrTypeSize * (i - 1)) + 2]]]
=============================================================================
