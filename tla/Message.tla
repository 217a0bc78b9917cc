------------------------------ MODULE Message ------------------------------
(***************************************************************************)
(* One stun.Message under any sequence of its methods (message.go,         *)
(* integrity.go, fingerprint.go, helpers.go): the bytes in Raw, the fields *)
(* decoded from them, and the sharing of memory between the two.           *)
(*                                                                         *)
(* mem holds the arrays that Go slices point into.  Raw is the first       *)
(* raw.len cells of array raw.a; the Value of an attribute is a slice of   *)
(* Raw's array, or of an array Raw had before it was reallocated.          *)
(*                                                                         *)
(* Data is abstract: a header field takes one cell (so the message header  *)
(* has 4 cells and an attribute header 2), and a 16-bit field wraps at     *)
(* Word.  A byte or field n is the cell <<n>>; the cells of a digest name  *)
(* all that went into it, so that digests are equal exactly when their     *)
(* inputs are.                                                             *)
(***************************************************************************)
EXTENDS MessageType, Naturals, Sequences, FiniteSetsExt

CONSTANTS Types, TIDs,            \* message types and transaction ids in use
          Attrs,                  \* attribute types in use, besides the two below
          Integrity, Fingerprint, \* AttrMessageIntegrity, AttrFingerprint
          OldXOR, NewXOR,         \* 0x8020 and AttrXORMappedAddress
          Values,                 \* attribute values in use
          Keys,                   \* keys of MessageIntegrity
          Packets,                \* packets of other programs: cells and contents
          padding, Word, messageIntegritySize, fingerprintSize,
          NewCap, Slack,          \* capacity given by New, extra given by append
          MaxAttrs,               \* bound: attributes of the message
          MaxCalls,               \* bound: calls of methods
          MaxTrailing             \* bound: bytes after the message in a packet

messageHeaderSize == 4
attributeHeaderSize == 2
Cookie == <<99>>
NoType == [method |-> 0, class |-> 0]

ASSUME MessageAssumption ==
  /\ Types \subseteq Type
  /\ TIDs \cup Attrs \cup {Integrity, Fingerprint, OldXOR, NewXOR} \subseteq Nat
  /\ padding \in Nat \ {0} /\ Word \in Nat \ {0} /\ Word % padding = 0
  /\ messageIntegritySize % padding = 0 /\ fingerprintSize % padding = 0
  /\ {messageIntegritySize, fingerprintSize, Slack, MaxAttrs, MaxTrailing, MaxCalls} \subseteq Nat
  /\ NewCap \in Nat /\ NewCap >= messageHeaderSize

VARIABLES m,                      \* the Message and its memory
          valid,                  \* no Decode has failed since the last Build
          header,                 \* the header in Raw is up to date
          want,                   \* the type, id and attributes put in
          signed,                 \* key the message is signed with, or 0
          calls,                  \* calls so far
          printed,                \* the last attribute is a fingerprint
          got                     \* a value the program got, and what it must be

vars == <<m, valid, header, want, signed, calls, printed, got>>
-----------------------------------------------------------------------------
(* Slices.                                                                 *)

Zeros(n) == [i \in 1 .. n |-> <<0>>]
Array(s) == s.mem[s.raw.a]
Bytes(s) == SubSeq(Array(s), 1, s.raw.len)

(* A slice of memory, or a value the caller owns.                          *)
Slice(a, off, len) == [a |-> a, off |-> off, len |-> len, own |-> <<>>]
Own(v) == [a |-> 0, off |-> 0, len |-> Len(v), own |-> v]
Contents(s, v) == IF v.a = 0 THEN v.own ELSE SubSeq(s.mem[v.a], v.off + 1, v.off + v.len)

(* Cells are copied to Raw's array, from index at (counted from 0).        *)
Put(s, at, cells) ==
  [s EXCEPT !.mem[s.raw.a] = [i \in DOMAIN @ |-> IF i > at /\ i <= at + Len(cells)
                                                 THEN cells[i - at] ELSE @[i]]]

(* grow: the length becomes at least n, exposing what the array holds, or  *)
(* in a new array.                                                         *)
grow(s, n) ==
  CASE s.raw.len >= n -> s
    [] s.raw.len < n /\ Len(Array(s)) >= n -> [s EXCEPT !.raw.len = n]
    [] s.raw.len < n /\ Len(Array(s)) < n ->
         [s EXCEPT !.mem = Append(@, Bytes(s) \o Zeros(n - s.raw.len + Slack)),
                   !.raw = [a |-> Len(s.mem) + 1, len |-> n]]
-----------------------------------------------------------------------------
(* Encoding.                                                               *)

WriteType(s) == Put(grow(s, 1), 0, <<<<Value(s.type)>>>>)
WriteLength(s) == Put(grow(s, 2), 1, <<<<s.length % Word>>>>)
WriteTransactionID(s) == Put(s, 3, <<<<s.tid>>>>)
WriteHeader(s) ==
  WriteTransactionID(Put(WriteLength(WriteType(grow(s, messageHeaderSize))), 2, <<Cookie>>))

nearestPaddedValueLength(l) ==
  LET n == padding * (l \div padding)
  IN IF n < l THEN n + padding ELSE n

(* The padding after a value that ends at last.                            *)
Pad_Stale(s, last, n) == [grow(s, last + n) EXCEPT !.raw.len = last + n]
Pad_Missing(s, last, n) == s
Pad(s, last, n) == [Put(grow(s, last + n), last, Zeros(n)) EXCEPT !.raw.len = last + n]

Add(s, t, v) ==
  LET first == messageHeaderSize + s.length
      last == first + attributeHeaderSize + v.len
      bytesToAdd == IF (v.len % Word) % padding = 0 THEN 0
                    ELSE nearestPaddedValueLength(v.len) - v.len
      allocated == [grow(s, last) EXCEPT !.raw.len = last]
      typed == Put(allocated, first, <<<<t>>, <<v.len % Word>>>>)
      copied == Put(typed, first + attributeHeaderSize, Contents(typed, v))
      attr == [type |-> t, length |-> v.len % Word,
               val |-> Slice(copied.raw.a, first + attributeHeaderSize, v.len)]
  IN WriteLength([Pad(copied, last, bytesToAdd) EXCEPT
                    !.length = last + bytesToAdd - messageHeaderSize,
                    !.attrs = Append(@, attr)])

(* WriteAttributes adds the attributes again, from where they are now; the *)
(* new ones replace the old in the same slice.                             *)
WriteAttributes(s) ==
  LET a == s.attrs
      w[i \in 0 .. Len(a)] == IF i = 0 THEN [s EXCEPT !.attrs = <<>>]
                              ELSE Add(w[i - 1], a[i].type, a[i].val)
  IN w[Len(a)]

Encode_KeepsLength(s) == WriteAttributes(WriteHeader([s EXCEPT !.raw.len = 0]))
Encode(s) ==
  WriteAttributes([WriteHeader([s EXCEPT !.raw.len = 0]) EXCEPT !.length = 0])

Reset(s) == [s EXCEPT !.raw.len = 0, !.length = 0, !.attrs = <<>>]
-----------------------------------------------------------------------------
(* Decoding.                                                               *)

compatAttrType(t) == IF t = OldXOR THEN NewXOR ELSE t

(* The loop over b = buf[messageHeaderSize:fullSize], from offset o.       *)
DecodeAttrs(s, size) ==
  LET buf == Bytes(s)
      at(o) == messageHeaderSize + o
      d[o \in Nat] ==
        IF o >= size THEN [ok |-> TRUE, attrs |-> <<>>]
        ELSE IF size - o < attributeHeaderSize THEN [ok |-> FALSE, attrs |-> <<>>]
        ELSE
          LET aL == buf[at(o) + 2][1]
              next == o + attributeHeaderSize + nearestPaddedValueLength(aL)
              attr == [type |-> compatAttrType(buf[at(o) + 1][1]), length |-> aL,
                       val |-> Slice(s.raw.a, at(o) + attributeHeaderSize, aL)]
          IN IF next > size THEN [ok |-> FALSE, attrs |-> <<>>]
             ELSE [d[next] EXCEPT !.attrs = <<attr>> \o @]
  IN d[0]

(* The result and the message after Decode; an error before the header is  *)
(* saved leaves the fields alone.                                          *)
Decode(s) ==
  LET buf == Bytes(s)
      size == buf[2][1]
      rest == DecodeAttrs(s, size)
  IN IF \/ Len(buf) < messageHeaderSize
        \/ buf[3] # Cookie
        \/ Len(buf) < messageHeaderSize + size
     THEN [ok |-> FALSE, m |-> s]
     ELSE [ok |-> rest.ok,
           m |-> [s EXCEPT !.type = ReadValue(buf[1][1]), !.length = size, !.tid = buf[4][1],
                           !.attrs = rest.attrs]]

(* m.Raw = append(m.Raw[:0], data...), as in Write, UnmarshalBinary and    *)
(* CloneTo.                                                                *)
SetRaw(s, data) == Put(grow([s EXCEPT !.raw.len = 0], Len(data)), 0, data)

(* ReadFrom reads into the capacity of Raw; what does not fit is lost.     *)
ReadRaw(s, data) ==
  LET n == Min({Len(data), Len(Array(s))})
  IN [Put(s, 0, SubSeq(data, 1, n)) EXCEPT !.raw.len = n]
-----------------------------------------------------------------------------
(* Looking at a message.                                                   *)

Contains(s, t) == \E i \in DOMAIN s.attrs : s.attrs[i].type = t
First(s, t) == Min({i \in DOMAIN s.attrs : s.attrs[i].type = t})

Get(s, t) == s.attrs[First(s, t)].val

(* ForEach calls f with the attributes before the next one of type t left  *)
(* out, stops at the first error of f, and puts Attributes back.  Here f   *)
(* calls Get, collects the values, and fails at its call number fail (0:   *)
(* at none).  Visited is the loop, up to where it ends.                    *)
Visited(s, t, fail) ==
  LET attrs == s.attrs
      w[i \in 0 .. Len(attrs)] ==
        IF i = 0 THEN [m |-> s, vals |-> <<>>, err |-> FALSE]
        ELSE IF w[i - 1].err \/ attrs[i].type # t THEN w[i - 1]
        ELSE LET from == [w[i - 1].m EXCEPT !.attrs = SubSeq(attrs, i, Len(attrs))]
                 vals == Append(w[i - 1].vals, Contents(from, Get(from, t)))
             IN [m |-> from, vals |-> vals, err |-> Len(vals) = fail]
  IN w[Len(attrs)]

ForEach_NotDeferred(s, t, fail) ==
  LET v == Visited(s, t, fail)
  IN IF v.err THEN v ELSE [v EXCEPT !.m.attrs = s.attrs]
ForEach(s, t, fail) == [Visited(s, t, fail) EXCEPT !.m.attrs = s.attrs]

(* Equal: every attribute of each message is found in the other.           *)
AttrEqual(s, a, r, b) ==
  a.type = b.type /\ a.length = b.length /\ Contents(s, a.val) = Contents(r, b.val)

attrSliceEqual(s, r) ==
  \A i \in DOMAIN s.attrs : \E j \in DOMAIN r.attrs :
    AttrEqual(s, s.attrs[i], r, r.attrs[j])

Equal(s, r) ==
  /\ s.type = r.type /\ s.tid = r.tid /\ s.length = r.length
  /\ Len(s.attrs) = Len(r.attrs) /\ attrSliceEqual(s, r) /\ attrSliceEqual(r, s)

(* CloneTo, to a message New has made.                                     *)
NewMessage == [mem |-> <<Zeros(NewCap)>>, raw |-> [a |-> 1, len |-> messageHeaderSize],
               type |-> NoType, length |-> 0, tid |-> 0, attrs |-> <<>>]
CloneTo(s) == Decode(SetRaw(NewMessage, Bytes(s))).m
-----------------------------------------------------------------------------
(* MESSAGE-INTEGRITY and FINGERPRINT.                                      *)

HMAC(k, cells) == [i \in 1 .. messageIntegritySize |-> <<k, i, cells>>]
FingerprintValue(cells) == [i \in 1 .. fingerprintSize |-> <<i, cells>>]

(* newHMAC leaves its result in the capacity after Raw, if there is room.  *)
newHMAC(s, cells) ==
  IF s.raw.len + Len(cells) <= Len(Array(s)) THEN Put(s, s.raw.len, cells) ELSE s

With(s, n) == WriteLength([s EXCEPT !.length = @ + attributeHeaderSize + n])

IntegrityAddTo(s, k) ==
  LET adjusted == With(s, messageIntegritySize)
      v == HMAC(k, Bytes(adjusted))
  IN Add([newHMAC(adjusted, v) EXCEPT !.length = s.length], Integrity, Own(v))


(* Check puts the length back that the message had when it was signed, and *)
(* afterwards its own.                                                     *)
Restore(s, l) == WriteLength([s EXCEPT !.length = l])

sizeReduced_Unpadded(s, i) ==
  MapThenSumSet(LAMBDA j : s.attrs[j].length + attributeHeaderSize, i + 1 .. Len(s.attrs))
sizeReduced(s, i) ==
  MapThenSumSet(LAMBDA j : nearestPaddedValueLength(s.attrs[j].length) + attributeHeaderSize,
                i + 1 .. Len(s.attrs))

IntegrityCheck(s, k) ==
  LET i == First(s, Integrity)
      cut == WriteLength([s EXCEPT !.length = @ - sizeReduced(s, i)])
      startOfHMAC == messageHeaderSize + cut.length
                       - (attributeHeaderSize + messageIntegritySize)
      expected == HMAC(k, SubSeq(Bytes(cut), 1, startOfHMAC))
      after == Restore(newHMAC(cut, expected), s.length)
  IN [ok |-> Contents(after, s.attrs[i].val) = expected, m |-> after]

FingerprintAddTo(s) ==
  LET adjusted == With(s, fingerprintSize)
      val == FingerprintValue(Bytes(adjusted))
  IN Add([adjusted EXCEPT !.length = s.length], Fingerprint, Own(val))

FingerprintCheck_SkipsValue(s) ==
  LET val == Contents(s, s.attrs[First(s, Fingerprint)].val)
  IN val = FingerprintValue(SubSeq(Bytes(s), 1, s.raw.len - fingerprintSize))
FingerprintCheck(s) ==
  LET val == Contents(s, s.attrs[First(s, Fingerprint)].val)
      attrStart == s.raw.len - (attributeHeaderSize + fingerprintSize)
  IN Len(val) = fingerprintSize /\ val = FingerprintValue(SubSeq(Bytes(s), 1, attrStart))
-----------------------------------------------------------------------------
(* The methods a program calls.  The message comes from New.               *)

NoValue == [val |-> Own(<<>>), is |-> <<>>]

Init ==
  /\ m = NewMessage
  /\ valid = TRUE /\ header = FALSE
  /\ want = [type |-> NoType, tid |-> 0, attrs |-> <<>>]
  /\ signed = 0 /\ printed = FALSE /\ calls = 0 /\ got = NoValue

Called == calls < MaxCalls /\ calls' = calls + 1

Room == Len(m.attrs) < MaxAttrs

(* Build resets the message and writes the header; its setters are the     *)
(* actions that follow.                                                    *)
Build ==
  /\ Called
  /\ m' = WriteHeader(Reset(m))
  /\ valid' = TRUE /\ header' = TRUE
  /\ want' = [type |-> m.type, tid |-> m.tid, attrs |-> <<>>]
  /\ signed' = 0 /\ printed' = FALSE /\ got' = NoValue

CallWriteHeader ==
  /\ Called /\ valid
  /\ m' = WriteHeader(m)
  /\ header' = TRUE
  /\ UNCHANGED <<valid, want, got>>
  /\ signed' = (IF header THEN signed ELSE 0) /\ printed' = (header /\ printed)

SetType(t) ==
  /\ Called /\ valid
  /\ m' = WriteType([m EXCEPT !.type = t])
  /\ want' = [want EXCEPT !.type = t]
  /\ signed' = 0 /\ printed' = FALSE
  /\ UNCHANGED <<valid, header, got>>

(* NewTransactionID, and the AddTo methods that set it.                    *)
SetTransactionID(id) ==
  /\ Called /\ valid
  /\ m' = WriteTransactionID([m EXCEPT !.tid = id])
  /\ want' = [want EXCEPT !.tid = id]
  /\ signed' = 0 /\ printed' = FALSE
  /\ UNCHANGED <<valid, header, got>>

Wanted(t, v) == want' = [want EXCEPT !.attrs = Append(@, <<compatAttrType(t), v>>)]

(* RawAttribute.AddTo and, with their own values, the other attributes.    *)
AddAttribute(t, v) ==
  /\ Called /\ valid /\ Room
  /\ m' = Add(m, t, Own(v))
  /\ Wanted(t, v)
  /\ printed' = FALSE
  /\ UNCHANGED <<valid, header, signed, got>>

(* Raw ends where the message does.  Decode leaves in Raw what follows the *)
(* message; signing then covers the trailing bytes, which Add cuts off, so *)
(* that neither Check would pass: such messages do not count as signed.    *)
Exact == m.raw.len = messageHeaderSize + m.length

(* MessageIntegrity.AddTo fails after a fingerprint.                       *)
AddIntegrity(k) ==
  /\ Called /\ valid /\ Room
  /\ \A i \in DOMAIN m.attrs : m.attrs[i].type # Fingerprint
  /\ m' = IntegrityAddTo(m, k)
  /\ Wanted(Integrity, HMAC(k, Bytes(With(m, messageIntegritySize))))
  /\ signed' = IF \E i \in DOMAIN m.attrs : m.attrs[i].type = Integrity THEN signed
                ELSE IF Exact THEN k ELSE 0
  /\ printed' = FALSE
  /\ UNCHANGED <<valid, header, got>>

AddFingerprint ==
  /\ Called /\ valid /\ Room
  /\ m' = FingerprintAddTo(m)
  /\ Wanted(Fingerprint, FingerprintValue(Bytes(With(m, fingerprintSize))))
  /\ printed' = (Exact /\ \A i \in DOMAIN m.attrs : m.attrs[i].type # Fingerprint)
  /\ UNCHANGED <<valid, header, signed, got>>

(* MessageIntegrity.Check writes to the message while it checks.           *)
CheckIntegrity(k) ==
  /\ Called /\ valid /\ \E i \in DOMAIN m.attrs : m.attrs[i].type = Integrity
  /\ m' = IntegrityCheck(m, k).m
  /\ UNCHANGED <<valid, header, want, signed, printed, got>>

(* A program changes the fields and calls Encode: the type and id, or the  *)
(* attributes by removing one.  Legacy types in Raw are rewritten.         *)
Legacy == \E i \in DOMAIN Bytes(m) : Bytes(m)[i] = <<OldXOR>>

EncodeHeader(t, id) ==
  /\ Called /\ valid
  /\ m' = Encode([m EXCEPT !.type = t, !.tid = id])
  /\ header' = TRUE
  /\ want' = [want EXCEPT !.type = t, !.tid = id]
  /\ LET same == header /\ t = m.type /\ id = m.tid /\ ~Legacy
     IN signed' = (IF same THEN signed ELSE 0) /\ printed' = (same /\ printed)
  /\ UNCHANGED <<valid, got>>

Without(s, i) == SubSeq(s, 1, i - 1) \o SubSeq(s, i + 1, Len(s))

(* Encode writes the header before it clears Length, and only Add writes   *)
(* the length again: with no attribute left the header keeps the old one.  *)
EncodeWithout(i) ==
  /\ Called /\ valid
  /\ m' = Encode([m EXCEPT !.attrs = Without(@, i)])
  /\ header' = (Len(m.attrs) > 1)
  /\ want' = [want EXCEPT !.attrs = Without(@, i)]
  /\ signed' = 0 /\ printed' = FALSE /\ got' = NoValue
  /\ UNCHANGED valid

(* Get, TextAttribute.GetFromAs and the Reason of an ErrorCodeAttribute:   *)
(* the value stays where it is in memory.                                  *)
GetFromAs_Padded(t) ==
  /\ Called /\ valid /\ Contains(m, t)
  /\ got' = [val |-> [Get(m, t) EXCEPT !.len = nearestPaddedValueLength(@)],
             is |-> want.attrs[First(m, t)][2]]
  /\ UNCHANGED <<m, valid, header, want, signed, printed>>

GetFromAs(t) ==
  /\ Called /\ valid /\ Contains(m, t)
  /\ got' = [val |-> Get(m, t), is |-> want.attrs[First(m, t)][2]]
  /\ UNCHANGED <<m, valid, header, want, signed, printed>>

CallForEach(t, fail) ==
  /\ Called /\ valid
  /\ m' = ForEach(m, t, fail).m
  /\ UNCHANGED <<valid, header, want, signed, printed, got>>

(* Raw is too long for the 16 bits of its length field.                    *)
Overlong == m.length >= Word

(* The message comes back over the network: an image of it, maybe cut      *)
(* after n cells or followed by n other bytes.                             *)
Receive(data) ==
  LET d == Decode(SetRaw(m, data))
      whole == data = Bytes(m)
  IN /\ Called /\ valid /\ header
     /\ m' = d.m
     /\ valid' = (d.ok /\ ~Overlong)
     /\ signed' = (IF valid' THEN signed ELSE 0) /\ printed' = (valid' /\ whole /\ printed)
     /\ got' = NoValue
     /\ UNCHANGED <<header, want>>

ReceiveCut(n) == n < m.raw.len /\ Receive(SubSeq(Bytes(m), 1, n))
ReceiveLong(n) == Exact /\ Receive(Bytes(m) \o Zeros(n))

(* The packet of another program arrives, whatever became of the one       *)
(* before: in ReadFrom, as in the loop of the client, or in Write.         *)
Arrive(k, read) ==
  LET d == Decode(read)
  IN /\ Called
     /\ m' = d.m
     /\ valid' = d.ok /\ header' = TRUE
     /\ want' = k.contents
     /\ signed' = 0 /\ printed' = FALSE /\ got' = NoValue

ReadFrom(k) == Arrive(k, ReadRaw(m, k.cells))
Write(k) == Arrive(k, SetRaw(m, k.cells))

Next ==
  \/ Build \/ CallWriteHeader
  \/ \E t \in Types : SetType(t) \/ \E id \in TIDs : EncodeHeader(t, id)
  \/ \E id \in TIDs : SetTransactionID(id)
  \/ \E t \in Attrs, v \in Values : AddAttribute(t, v)
  \/ \E k \in Keys : AddIntegrity(k) \/ CheckIntegrity(k)
  \/ AddFingerprint
  \/ \E i \in DOMAIN m.attrs : EncodeWithout(i)
  \/ \E n \in 0 .. m.raw.len : ReceiveCut(n)
  \/ \E n \in 0 .. MaxTrailing : ReceiveLong(n)
  \/ \E k \in Packets : ReadFrom(k) \/ Write(k)
  \/ \E t \in Attrs : GetFromAs(t) \/ \E fail \in 0 .. 1 : CallForEach(t, fail)

Spec == Init /\ [][Next]_vars
-----------------------------------------------------------------------------
(* The shape of the state: slices are within their arrays, and Length is   *)
(* `len(Raw) not including header' unless a packet had trailing bytes.     *)
TypeOK ==
  /\ {valid, header, printed} \subseteq BOOLEAN
  /\ m.raw.a \in DOMAIN m.mem /\ m.raw.len \in 0 .. Len(Array(m))
  /\ \A i \in DOMAIN m.attrs :
       LET v == m.attrs[i].val
       IN v.a \in DOMAIN m.mem /\ v.off + v.len \in 0 .. Len(m.mem[v.a])
  /\ signed \in Keys \cup {0} /\ calls \in 0 .. MaxCalls
  /\ valid => m.raw.len - (messageHeaderSize + m.length) \in 0 .. MaxTrailing

(* Type, id and attributes of s are those that were put in.                *)
IsWanted(s) ==
  /\ s.type = want.type /\ s.tid = want.tid
  /\ Len(s.attrs) = Len(want.attrs)
  /\ \A i \in DOMAIN s.attrs :
       /\ compatAttrType(s.attrs[i].type) = want.attrs[i][1]
       /\ Contents(s, s.attrs[i].val) = want.attrs[i][2]
       /\ s.attrs[i].length = Len(want.attrs[i][2])

(* After any sequence of calls, the fields of a message are what was put   *)
(* in, and Raw decodes to the same: no call damages values through the     *)
(* memory they share with Raw, leaves a stale length in the header or      *)
(* forgets one of the two representations.  Raw decodes only while Length  *)
(* fits its 16 bits, which nothing in Add checks.                          *)
RoundTrip ==
  valid => /\ IsWanted(m)
           /\ header /\ ~Overlong =>
                /\ Decode(m).ok /\ Decode(m).m.length = m.length
                /\ IsWanted(Decode(m).m)

(* `setting all padding bytes to zero to prevent data leak from previous   *)
(* data' (Add): padding never shows what the buffer held before.           *)
PaddingIsZero ==
  valid /\ header /\ ~Overlong =>
    \A i \in DOMAIN Decode(m).m.attrs :
      LET v == Decode(m).m.attrs[i].val
      IN \A p \in v.off + v.len + 1 .. v.off + nearestPaddedValueLength(v.len) :
           Bytes(m)[p] = <<0>>

(* A message signed with a key passes Check with that key and no other,    *)
(* also after attributes were added behind the signature, the message was  *)
(* re-encoded, or it came over the network.                                *)
IntegrityVerifies ==
  valid /\ signed # 0 => \A k \in Keys : IntegrityCheck(m, k).ok = (k = signed)

(* A fingerprint that is the last attribute passes Check.                  *)
FingerprintVerifies == valid /\ printed => FingerprintCheck(m)

(* What Get returned is the first value of that type put in, and stays so  *)
(* whatever is added, signed, checked or encoded again, until the message  *)
(* is built or read anew or loses an attribute: no call writes over the    *)
(* values in Raw on its way.                                               *)
GotStays == Contents(m, got.val) = got.is

(* All ways of looking at a message agree.  `The m.Get method inside f     *)
(* will be returning next attribute on each f call': ForEach reaches every *)
(* value of a type once, in order, up to the first error of f, and leaves  *)
(* the message as it was.  And CloneTo gives a message Equal to            *)
(* the first, in both directions, although the two share no memory, unless *)
(* the first has no attribute (nil and empty Attributes differ) or a type  *)
(* that decoding replaces.                                                 *)
ReadersAgree ==
  valid =>
    /\ \A t \in Attrs :
         LET all == SelectSeq(m.attrs, LAMBDA a : a.type = t)
         IN \A n \in 0 .. Len(all) :
              LET r == ForEach(m, t, n)
              IN /\ r.m = m /\ r.err = (n > 0)
                 /\ r.vals = [i \in 1 .. (IF n > 0 THEN n ELSE Len(all)) |->
                                Contents(m, all[i].val)]
    /\ header /\ ~Overlong /\ m.attrs # <<>> /\ ~Contains(m, OldXOR) =>
         Equal(m, CloneTo(m)) /\ Equal(CloneTo(m), m)
=============================================================================
