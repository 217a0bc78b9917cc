------------------------------- MODULE Address ------------------------------
(***************************************************************************)
(* MappedAddress (addr.go; AlternateServer, OtherAddress and ResponseOrigin*)
(* share its code) and XORMappedAddress (xoraddr.go): an address is added  *)
(* to a message and decoded, from message after message, into one receiver *)
(* whose IP slice is used again.                                           *)
(*                                                                         *)
(* A cell stands for four bytes, so an IPv4 address is one cell and an     *)
(* IPv6 address four.  Cells are small numbers with a bitwise exclusive or.*)
(* A value is [family, port, ip], its first four bytes and the rest.  Of a *)
(* shorter value the family is what value[0:2] finds: it may reach into    *)
(* what follows the value in Raw, up to the capacity, and NoRoom says that *)
(* the capacity ends before.                                               *)
(***************************************************************************)
EXTENDS Naturals, Sequences, SequencesExt, Bitwise

CONSTANTS Cell,                   \* values of four bytes
          FFFF,                   \* the cell 0000ffff of a mapped IPv4 address
          Cookie,                 \* magicCookie
          CookiePort,             \* magicCookie >> 16
          TIDs,                   \* transaction ids: three cells
          IPs,                    \* IP addresses programs add
          Ports,
          Values,                 \* attribute values of other implementations
          Caps,                   \* capacities of the receiver's first IP
          MaxGets                 \* bound: decodings

ASSUME AddressAssumption ==
  /\ 0 \in Cell /\ {FFFF, Cookie} \subseteq Cell /\ Cell \subseteq Nat
  /\ TIDs \subseteq [1 .. 3 -> Cell] /\ IPs \subseteq Seq(Cell)
  /\ CookiePort \in Ports /\ MaxGets \in Nat /\ Caps \subseteq Nat

IPv4len == 1
IPv6len == 4

Family == [IPv4 |-> 1, IPv6 |-> 2]
NoRoom == 0
ipLen(v) == IF v.family = Family.IPv6 THEN IPv6len ELSE IPv4len

VARIABLES value,                  \* the attribute in the message
          tid,                    \* the TransactionID of the message
          xor,                    \* the attribute is an XOR-MAPPED-ADDRESS
          sent,                   \* the address that was added, if it was
          added,                  \* the attribute comes from AddToAs
          a,                      \* the receiver: IP, its spare capacity, Port
          got, err,               \* the message was decoded; how that failed
          gets                    \* bounded: decodings so far

vars == <<value, tid, xor, sent, added, a, got, err, gets>>
-----------------------------------------------------------------------------
Zeros(n) == [i \in 1 .. n |-> 0]

(* Zeros in front of ffff make an IPv4 address of 16 bytes.                *)
isIPv4(ip) == ip[1] = 0 /\ ip[2] = 0 /\ ip[3] = FFFF

(* The part of ip that AddToAs encodes.                                    *)
Shortest(ip) == IF Len(ip) = IPv6len /\ isIPv4(ip) THEN <<ip[4]>> ELSE ip

xorValue(id) == <<Cookie>> \o id
XorBytes(p, q) == [i \in DOMAIN p |-> p[i] ^^ q[i]]

(* The value AddToAs encodes, with and without exclusive or.               *)
Encoded(x, id, ip, port) ==
  LET short == Shortest(ip)
      family == IF Len(short) = IPv6len THEN Family.IPv6 ELSE Family.IPv4
  IN IF x THEN [family |-> family, port |-> port ^^ CookiePort,
                ip |-> XorBytes(short, xorValue(id))]
     ELSE [family |-> family, port |-> port, ip |-> short]

(* `Ensuring len(a.IP) == ipLen and reusing a.IP', with and without the    *)
(* zeros that follow.                                                      *)
Sized(r, n) ==
  LET all == r.ip \o r.spare
      arr == IF Len(all) < n THEN all \o Zeros(n - Len(all)) ELSE all
  IN [r EXCEPT !.ip = SubSeq(arr, 1, n), !.spare = SubSeq(arr, n + 1, Len(arr))]
Cleared_Not(r, n) == Sized(r, n)
Cleared(r, n) == [Sized(r, n) EXCEPT !.ip = Zeros(Len(@))]

(* copy(dst, src).                                                         *)
Copied(dst, src) == [i \in DOMAIN dst |-> IF i \in DOMAIN src THEN src[i] ELSE dst[i]]

(* GetFromAs of a MappedAddress and of an XORMappedAddress: whether it     *)
(* fails, and the receiver afterwards.  The latter looks at the family     *)
(* before the length.                                                      *)
GetMapped(v, r) ==
  IF v.ip = <<>> \/ v.family \notin Range(Family)
  THEN [err |-> "error", a |-> r]
  ELSE LET c == Cleared(r, ipLen(v))
       IN [err |-> "none", a |-> [c EXCEPT !.port = v.port, !.ip = Copied(@, v.ip)]]

GetXOR_CookieOnly(v, id, r) ==
  LET c == Cleared(r, ipLen(v))
  IN IF v.family = NoRoom THEN [err |-> "panic", a |-> r]
     ELSE IF v.family \notin Range(Family) THEN [err |-> "error", a |-> r]
     ELSE IF v.ip = <<>> \/ Len(v.ip) > Len(c.ip) THEN [err |-> "error", a |-> c]
     ELSE [err |-> "none",
           a |-> [c EXCEPT !.port = v.port ^^ CookiePort,
                           !.ip = Copied(@, XorBytes(v.ip, <<Cookie, 0, 0, 0>>))]]

GetXOR(v, id, r) ==
  LET c == Cleared(r, ipLen(v))
  IN IF v.family = NoRoom THEN [err |-> "panic", a |-> r]
     ELSE IF v.family \notin Range(Family) THEN [err |-> "error", a |-> r]
     ELSE IF v.ip = <<>> \/ Len(v.ip) > Len(c.ip) THEN [err |-> "error", a |-> c]
     ELSE [err |-> "none",
           a |-> [c EXCEPT !.port = v.port ^^ CookiePort,
                           !.ip = Copied(@, XorBytes(v.ip, xorValue(id)))]]
-----------------------------------------------------------------------------
Init ==
  /\ value \in Values /\ tid \in TIDs /\ xor \in BOOLEAN
  /\ sent = [ip |-> <<>>, port |-> 0] /\ added = FALSE
  /\ \E n \in Caps : a = [ip |-> <<>>, spare |-> Zeros(n), port |-> 0]
  /\ got = FALSE /\ err = "none" /\ gets = 0

(* A message whose address was added by AddToAs; other lengths of IP are   *)
(* refused with ErrBadIPLength and add nothing.                            *)
AddToAs(x, id, ip, port) ==
  /\ got /\ err # "panic" /\ Len(ip) \in {IPv4len, IPv6len}
  /\ value' = Encoded(x, id, ip, port)
  /\ tid' = id /\ xor' = x
  /\ sent' = [ip |-> ip, port |-> port] /\ added' = TRUE
  /\ got' = FALSE
  /\ UNCHANGED <<a, err, gets>>

(* A message with an attribute of another origin.                          *)
Receive(x, id, v) ==
  /\ got /\ err # "panic"
  /\ value' = v
  /\ tid' = id /\ xor' = x
  /\ added' = FALSE
  /\ got' = FALSE
  /\ UNCHANGED <<sent, a, err, gets>>

GetFromAs ==
  LET r == IF xor THEN GetXOR(value, tid, a) ELSE GetMapped(value, a)
  IN /\ gets < MaxGets /\ ~got
     /\ a' = r.a /\ err' = r.err
     /\ got' = TRUE /\ gets' = gets + 1
     /\ UNCHANGED <<value, tid, xor, sent, added>>

Next ==
  \/ \E x \in BOOLEAN, id \in TIDs :
       \/ \E ip \in IPs, port \in Ports : AddToAs(x, id, ip, port)
       \/ \E v \in Values : Receive(x, id, v)
  \/ GetFromAs

Spec == Init /\ [][Next]_vars
-----------------------------------------------------------------------------
(* An address that was added is decoded as the same address, in its        *)
(* shortest form, and the same port, whatever the receiver held before and *)
(* whatever the transaction id it is combined with.                        *)
RoundTrip ==
  got /\ added => err = "none" /\ a.ip = Shortest(sent.ip) /\ a.port = sent.port

(* A decoding that changes the receiver leaves nothing of an earlier       *)
(* address in its IP: cells the value does not reach are zero, also when   *)
(* decoding fails half-way.                                                *)
NoLeftovers ==
  [][a'.ip # a.ip => \A i \in DOMAIN a'.ip : i > Len(value.ip) => a'.ip[i] = 0]_vars
=============================================================================
