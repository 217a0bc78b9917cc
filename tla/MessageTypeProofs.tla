------------------------- MODULE MessageTypeProofs --------------------------
(***************************************************************************)
(* Value and ReadValue of MessageType are inverse to each other.           *)
(***************************************************************************)
EXTENDS MessageType, TLAPS

(* The field with the parts of figure 3 of the RFC at their places: A, C0, *)
(* B, C1 and D from the right, as the comment of Value draws them, and the *)
(* two bits in front.                                                      *)
Field(a, b, d, c0, c1, top) == a + 16 * c0 + 32 * b + 256 * c1 + 512 * d + 16384 * top

MethodOf(a, b, d) == a + b * 16 + d * 128
ClassOf(c0, c1) == c0 + c1 * 2

(* A method has parts A, B and D.                                          *)
LEMMA MethodParts ==
  ASSUME NEW n \in Method
  PROVE  \E a \in 0 .. 15, b \in 0 .. 7, d \in 0 .. 31 : n = MethodOf(a, b, d)
<1> DEFINE a == n % 16
           m == n \div 16
           b == m % 8
           d == m \div 8
<1>1. n = 16 * m + a /\ a \in 0 .. 15 /\ m \in 0 .. 255
  BY SMT DEF Method
<1>2. m = 8 * d + b /\ b \in 0 .. 7 /\ d \in 0 .. 31
  <2> HIDE DEF m
  <2> QED BY <1>1, SMT
<1>3. n = MethodOf(a, b, d)
  <2> HIDE DEF a, m, b, d
  <2> QED BY <1>1, <1>2, SMT DEF MethodOf
<1> QED BY <1>1, <1>2, <1>3

(* A class has bits C0 and C1.                                             *)
LEMMA ClassParts ==
  ASSUME NEW c \in Class
  PROVE  \E c0 \in 0 .. 1, c1 \in 0 .. 1 : c = ClassOf(c0, c1)
BY SMT DEF Class, ClassOf

(* A field has those parts, and two more bits at the top.                  *)
LEMMA FieldParts ==
  ASSUME NEW v \in Uint16
  PROVE  \E a \in 0 .. 15, b \in 0 .. 7, d \in 0 .. 31, c0 \in 0 .. 1, c1 \in 0 .. 1,
            top \in 0 .. 3 : v = Field(a, b, d, c0, c1, top)
<1>1. PICK a \in 0 .. 15, v1 \in Nat : v1 <= 4095 /\ v = 16 * v1 + a
  <2> v \in Nat /\ v < 65536
    BY SMT DEF Uint16
  <2> v % 16 \in 0 .. 15 /\ v \div 16 \in Nat
    BY SMT
  <2> v \div 16 <= 4095 /\ v = 16 * (v \div 16) + (v % 16)
    BY SMT
  <2> QED OBVIOUS
<1>2. PICK c0 \in 0 .. 1, v2 \in Nat : v2 <= 2047 /\ v1 = 2 * v2 + c0
  <2> v1 % 2 \in 0 .. 1 /\ v1 \div 2 \in Nat /\ v1 \div 2 <= 2047
      /\ v1 = 2 * (v1 \div 2) + (v1 % 2)
    BY <1>1, SMT
  <2> QED OBVIOUS
<1>3. PICK b \in 0 .. 7, v3 \in Nat : v3 <= 255 /\ v2 = 8 * v3 + b
  <2> v2 % 8 \in 0 .. 7 /\ v2 \div 8 \in Nat /\ v2 \div 8 <= 255
      /\ v2 = 8 * (v2 \div 8) + (v2 % 8)
    BY <1>2, SMT
  <2> QED OBVIOUS
<1>4. PICK c1 \in 0 .. 1, v4 \in Nat : v4 <= 127 /\ v3 = 2 * v4 + c1
  <2> v3 % 2 \in 0 .. 1 /\ v3 \div 2 \in Nat /\ v3 \div 2 <= 127
      /\ v3 = 2 * (v3 \div 2) + (v3 % 2)
    BY <1>3, SMT
  <2> QED OBVIOUS
<1>5. PICK d \in 0 .. 31, top \in 0 .. 3 : v4 = 32 * top + d
  <2> v4 % 32 \in 0 .. 31 /\ v4 \div 32 \in 0 .. 3 /\ v4 = 32 * (v4 \div 32) + (v4 % 32)
    BY <1>4, SMT
  <2> QED OBVIOUS
<1>6. v = Field(a, b, d, c0, c1, top)
  <2>1. v = a + 16 * c0 + 32 * v2
    BY <1>1, <1>2, SMT
  <2>2. 32 * v2 = 32 * b + 256 * v3
    BY <1>3, SMT
  <2>3. 256 * v3 = 256 * c1 + 512 * v4
    BY <1>4, SMT
  <2>4. 512 * v4 = 512 * d + 16384 * top
    BY <1>5, SMT
  <2> QED BY <2>1, <2>2, <2>3, <2>4, SMT DEF Field
<1> QED BY <1>6, Zenon

(* The parts of a method are found again by their masks.                   *)
LEMMA MethodMasks ==
  ASSUME NEW a \in 0 .. 15, NEW b \in 0 .. 7, NEW d \in 0 .. 31
  PROVE  /\ MethodABits(MethodOf(a, b, d)) = a
         /\ MethodBBits(MethodOf(a, b, d)) = b * 16
         /\ MethodDBits(MethodOf(a, b, d)) = d * 128
<1>1. Bits(MethodOf(a, b, d), 1, 16) = a
  BY SMT DEF Bits, MethodOf
<1>2. Bits(MethodOf(a, b, d), 16, 8) = b
  BY SMT DEF Bits, MethodOf
<1>3. Bits(MethodOf(a, b, d), 128, 32) = d
  BY SMT DEF Bits, MethodOf
<1> QED BY <1>1, <1>2, <1>3 DEF MethodABits, MethodBBits, MethodDBits

(* So are those of a class.                                                *)
LEMMA ClassMasks ==
  ASSUME NEW c0 \in 0 .. 1, NEW c1 \in 0 .. 1
  PROVE  FirstBit(ClassOf(c0, c1)) = c0 /\ SecondBit(ClassOf(c0, c1)) = c1 * 2
BY SMT DEF FirstBit, SecondBit, Bits, ClassOf

(* And those of the field, by ReadValue's shifts and masks.                *)
LEMMA ReadsParts ==
  ASSUME NEW a \in 0 .. 15, NEW b \in 0 .. 7, NEW d \in 0 .. 31,
         NEW c0 \in 0 .. 1, NEW c1 \in 0 .. 1, NEW top \in 0 .. 3
  PROVE  ReadValue(Field(a, b, d, c0, c1, top))
           = [method |-> MethodOf(a, b, d), class |-> ClassOf(c0, c1)]
<1> DEFINE v == Field(a, b, d, c0, c1, top)
<1>1. MethodABits(v) = a
  <2> Bits(v, 1, 16) = a
    BY SMTT(90) DEF Bits, Field
  <2> QED BY DEF MethodABits
<1>2. MethodBBits(v \div 2) = b * 16
  <2>1. v \div 2 = (a \div 2) + 8 * c0 + 16 * b + 128 * c1 + 256 * d + 8192 * top
    BY SMT DEF Field
  <2>2. (v \div 2) \div 16 = b + 8 * (c1 + 2 * d + 64 * top)
    BY <2>1, SMT
  <2>3. ASSUME NEW r \in Nat
        PROVE  (b + 8 * r) % 8 = b
    BY SMT
  <2>4. c1 + 2 * d + 64 * top \in Nat
    BY SMT
  <2>5. Bits(v \div 2, 16, 8) = b
    BY <2>2, <2>3, <2>4 DEF Bits
  <2> QED BY <2>5 DEF MethodBBits
<1>3. MethodDBits(v \div 4) = d * 128
  <2> Bits(v \div 4, 128, 32) = d
    BY SMTT(90) DEF Bits, Field
  <2> QED BY DEF MethodDBits
<1>4. FirstBit(v \div 16) = c0
  <2> Bits(v \div 16, 1, 2) = c0
    BY SMTT(90) DEF Bits, Field
  <2> QED BY DEF FirstBit
<1>5. SecondBit(v \div 128) = c1 * 2
  <2> Bits(v \div 128, 2, 2) = c1
    BY SMTT(90) DEF Bits, Field
  <2> QED BY DEF SecondBit
<1> HIDE DEF v
<1>6. ReadValue(v) = [method |-> MethodOf(a, b, d), class |-> ClassOf(c0, c1)]
  BY <1>1, <1>2, <1>3, <1>4, <1>5, SMT DEF ReadValue, MethodOf, ClassOf
<1> QED BY <1>6 DEF v

(* Value puts every bit of method and class where figure 3 has it, with    *)
(* zero in front, which tells STUN from other protocols.                   *)
THEOREM Layout ==
  ASSUME NEW a \in 0 .. 15, NEW b \in 0 .. 7, NEW d \in 0 .. 31,
         NEW c0 \in 0 .. 1, NEW c1 \in 0 .. 1
  PROVE  Value([method |-> MethodOf(a, b, d), class |-> ClassOf(c0, c1)])
           = Field(a, b, d, c0, c1, 0)
<1> DEFINE n == MethodOf(a, b, d)
           c == ClassOf(c0, c1)
           t == [method |-> n, class |-> c]
<1>1. MethodABits(n) = a /\ MethodBBits(n) = b * 16 /\ MethodDBits(n) = d * 128
  BY MethodMasks, ZenonT(60)
<1>2. FirstBit(c) = c0 /\ SecondBit(c) = c1 * 2
  BY ClassMasks, ZenonT(60)
<1>3. t.method = n /\ t.class = c
  <2> HIDE DEF n, c
  <2> QED OBVIOUS
<1>4. Value(t) = (a + (b * 16) * 2 + (d * 128) * 4) + (c0 * 16 + (c1 * 2) * 128)
  <2> HIDE DEF n, c, t
  <2> QED BY <1>1, <1>2, <1>3, SMT DEF Value
<1>5. (a + (b * 16) * 2 + (d * 128) * 4) + (c0 * 16 + (c1 * 2) * 128) = Field(a, b, d, c0, c1, 0)
  BY SMT DEF Field
<1> QED BY <1>4, <1>5

(* A peer that decodes the field reads the method and class that were set. *)
THEOREM ReadsWhatWasSet ==
  ASSUME NEW t \in Type
  PROVE  ReadValue(Value(t)) = t
<1>1. t.method \in Method /\ t.class \in Class /\ t = [method |-> t.method, class |-> t.class]
  BY DEF Type
<1>2. PICK a \in 0 .. 15, b \in 0 .. 7, d \in 0 .. 31 : t.method = MethodOf(a, b, d)
  BY <1>1, MethodParts, Zenon
<1>3. PICK c0 \in 0 .. 1, c1 \in 0 .. 1 : t.class = ClassOf(c0, c1)
  BY <1>1, ClassParts, Zenon
<1>4. t = [method |-> MethodOf(a, b, d), class |-> ClassOf(c0, c1)]
  BY <1>1, <1>2, <1>3, Zenon
<1>5. Value(t) = Field(a, b, d, c0, c1, 0)
  BY <1>4, Layout, Zenon
<1>6. 0 \in 0 .. 3
  OBVIOUS
<1>7. ReadValue(Field(a, b, d, c0, c1, 0))
        = [method |-> MethodOf(a, b, d), class |-> ClassOf(c0, c1)]
  BY <1>6, ReadsParts, Zenon
<1> QED BY <1>4, <1>5, <1>7, Zenon

(* A type that was read and is written again gives back the same 14 bits.  *)
THEOREM WritesWhatWasRead ==
  ASSUME NEW v \in Uint16
  PROVE  Value(ReadValue(v)) = v % 16384
<1>1. PICK a \in 0 .. 15, b \in 0 .. 7, d \in 0 .. 31, c0 \in 0 .. 1, c1 \in 0 .. 1,
            top \in 0 .. 3 : v = Field(a, b, d, c0, c1, top)
  BY FieldParts, Zenon
<1>2. ReadValue(v) = [method |-> MethodOf(a, b, d), class |-> ClassOf(c0, c1)]
  <2>1. ReadValue(Field(a, b, d, c0, c1, top))
          = [method |-> MethodOf(a, b, d), class |-> ClassOf(c0, c1)]
    BY ReadsParts, Zenon
  <2> QED BY <1>1, <2>1, Zenon
<1>3. Value(ReadValue(v)) = Field(a, b, d, c0, c1, 0)
  BY <1>2, Layout, Zenon
<1>4. Field(a, b, d, c0, c1, 0) \in Nat /\ Field(a, b, d, c0, c1, 0) <= 16383
  BY SMT DEF Field
<1>5. Field(a, b, d, c0, c1, top) = Field(a, b, d, c0, c1, 0) + 16384 * top
  BY SMT DEF Field
<1>6. \A x \in Nat : x <= 16383 => (x + 16384 * top) % 16384 = x
  BY SMT
<1> QED BY <1>1, <1>3, <1>4, <1>5, <1>6
=============================================================================
