---------------------------- MODULE MessageType -----------------------------
(***************************************************************************)
(* The message type field (message.go): 12 bits of method and 2 bits of    *)
(* class, interleaved in the lower 14 of 16 bits.                          *)
(*                                                                         *)
(* Bits(x, unit, size) are the bits of x from the one worth unit upwards,  *)
(* as many as number the values below size: x & 0x70 is Bits(x, 16, 8) * 16*)
(* and shifts are products and quotients by powers of two.                 *)
(***************************************************************************)
EXTENDS Naturals

Method == 0 .. 4095
Class == 0 .. 3
Type == [method : Method, class : Class]
Uint16 == {v \in Nat : v < 65536}

Bits(x, unit, size) == (x \div unit) % size

(* x & methodABits, x & methodBBits, x & methodDBits, x & firstBit and     *)
(* x & secondBit.                                                          *)
MethodABits(x) == Bits(x, 1, 16)
MethodBBits(x) == Bits(x, 16, 8) * 16
MethodDBits(x) == Bits(x, 128, 32) * 128
FirstBit(x) == Bits(x, 1, 2)
SecondBit(x) == Bits(x, 2, 2) * 2

(* Splitting the method into A (M0-M3), B (M4-M6) and D (M7-M11), with     *)
(* holes for the bits of the class.                                        *)
Value(t) ==
  LET a == MethodABits(t.method)
      b == MethodBBits(t.method)
      d == MethodDBits(t.method)
      c0 == FirstBit(t.class) * 16
      c1 == SecondBit(t.class) * 128
  IN (a + b * 2 + d * 4) + (c0 + c1)

ReadValue(v) ==
  LET c0 == FirstBit(v \div 16)
      c1 == SecondBit(v \div 128)
      a == MethodABits(v)
      b == MethodBBits(v \div 2)
      d == MethodDBits(v \div 4)
  IN [method |-> a + b + d, class |-> c0 + c1]
=============================================================================
