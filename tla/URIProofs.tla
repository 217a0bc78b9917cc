------------------------------ MODULE URIProofs ------------------------------
(* What ParseURI, String and DialURI do together, for every raw URI.       *)
EXTENDS URI, TLAPS

(* The schemes and protocols and their names are inverse.                  *)
LEMMA Names ==
  /\ \A r : NewSchemeType(r) \in 0 .. 4 /\ NewProtoType(r) \in 0 .. 2
  /\ \A s \in 1 .. 4 : NewSchemeType(SchemeString(s)) = s
  /\ \A p \in 1 .. 2 : NewProtoType(ProtoString(p)) = p /\ ProtoString(p) # ""
BY DEF NewSchemeType, NewProtoType, SchemeString, ProtoString, SchemeTypeUnknown,
       SchemeTypeSTUN, SchemeTypeSTUNS, SchemeTypeTURN, SchemeTypeTURNS,
       ProtoTypeUnknown, ProtoTypeUDP, ProtoTypeTCP

(* What is left alone and what is added when ParseURI calls itself.        *)
LEMMA NextCall ==
  ASSUME NEW raw \in Raw
  PROVE  /\ nextRawURL(raw).url = raw.url /\ nextRawURL(raw).query = raw.query
         /\ nextRawURL(raw).scheme = SchemeString(NewSchemeType(raw.scheme))
         /\ nextRawURL(raw).address =
              WithPort(Opaque(raw.address), DefaultPort(NewSchemeType(raw.scheme)))
BY DEF nextRawURL, Raw

(* What url.Parse leaves of an address does not begin with a slash, so it  *)
(* is left once more.                                                      *)
LEMMA OpaqueAddress ==
  ASSUME NEW a \in Address
  PROVE  /\ Opaque(a) \in [form : {"good", "broken", "tail"}, bracketed : BOOLEAN,
                            host : Host, ports : Seq(Port)]
         /\ Opaque(a).form = "tail" <=> a.form = "tail"
         /\ ~Opaque(a).bracketed => ~Opaque(a).host.slash
<1>1. NoAddress \in [form : {"good", "broken", "tail"}, bracketed : BOOLEAN, host : Host,
                     ports : Seq(Port)]
  BY DEF NoAddress, Host
<1> QED
  BY <1>1 DEF Opaque, Address, NoAddress, NoHost

(* ParseURI calls itself at most once, because the port it adds is the one *)
(* that was missing -- except for an address with more than a port behind  *)
(* a bracketed host: there SplitHostPort misses the port whatever is added *)
(* and the calls never end.                                                *)
THEOREM ParseEnds ==
  ASSUME NEW raw \in Raw, Recurses(raw)
  PROVE  Recurses(nextRawURL(raw)) <=> raw.address.form = "tail"
<1> DEFINE nxt == nextRawURL(raw)
           s == NewSchemeType(raw.scheme)
           o == Opaque(raw.address)
           p == [ok |-> TRUE, n |-> DefaultPort(s)]
<1>1. /\ o \in [form : {"good", "broken", "tail"}, bracketed : BOOLEAN, host : Host,
                ports : Seq(Port)]
      /\ o.form = "tail" <=> raw.address.form = "tail"
      /\ ~o.bracketed => ~o.host.slash
  BY OpaqueAddress DEF Raw
<1> HIDE DEF o
<1>2. s \in 1 .. 4 /\ raw.url
  <2>1. raw.url /\ s # SchemeTypeUnknown
    BY DEF Recurses
  <2>2. s \in 0 .. 4
    BY Names
  <2>3. s \in 1 .. 4
    BY <2>1, <2>2 DEF SchemeTypeUnknown
  <2> QED
    BY <2>1, <2>3
<1>3. p \in Port
  BY DEF Port, DefaultPort
<1>4. nxt.url = raw.url /\ NewSchemeType(nxt.scheme) = s
  BY <1>2, Names, NextCall
<1>5. o.ports \in Seq(Port) /\ Append(o.ports, p) # <<>>
  BY <1>1, <1>3
<1>6. nxt.address = [o EXCEPT !.ports = Append(@, p)]
  BY NextCall DEF WithPort, o
<1> HIDE DEF nxt, p
<1>7. /\ nxt.address.form = o.form /\ nxt.address.ports # <<>>
      /\ nxt.address.bracketed = o.bracketed /\ nxt.address.host = o.host
  BY <1>1, <1>5, <1>6
<1>8. Opaque(nxt.address) = nxt.address
  BY <1>1, <1>7 DEF Opaque
<1>9. SplitHostPort(Opaque(nxt.address)) = MissingPort <=> raw.address.form = "tail"
  BY <1>1, <1>7, <1>8 DEF SplitHostPort, MissingPort
<1> QED
  BY <1>2, <1>4, <1>9 DEF Recurses, SchemeTypeUnknown, nxt

(* Without an error in the address, scheme and host are there.             *)
LEMMA NoAddressError ==
  ASSUME NEW r, AddressError(r) = "none"
  PROVE  NewSchemeType(r.scheme) # SchemeTypeUnknown /\ Opaque(r.address).host # NoHost
<1>1. r.url
  BY DEF AddressError
<1>2. NewSchemeType(r.scheme) # SchemeTypeUnknown
  BY <1>1 DEF AddressError
<1>3. SplitHostPort(Opaque(r.address)) = "none"
  BY <1>1, <1>2 DEF AddressError
<1>4. Opaque(r.address).host # NoHost
  BY <1>1, <1>2, <1>3 DEF AddressError
<1> QED
  BY <1>2, <1>4

(* What parseProto returns is a protocol or ProtoTypeUnknown.              *)
LEMMA ProtoRange ==
  ASSUME NEW q \in Query
  PROVE  parseProto(q).proto \in 0 .. 2
<1>1. NewProtoType(q.transport) \in 0 .. 2
  BY Names
<1>2. parseProto(q).proto \in {ProtoTypeUnknown, NewProtoType(q.transport)}
  BY Zenon DEF parseProto
<1> QED
  BY <1>1, <1>2 DEF ProtoTypeUnknown

(* A URI that ParseURI returns: a known scheme, a host, and the protocol   *)
(* the scheme allows.                                                      *)
LEMMA ParsedShape ==
  ASSUME NEW raw \in Raw, ParseOK(raw)
  PROVE  LET u == ParseURI(raw)
         IN /\ u.Scheme \in 1 .. 4 /\ u.Proto \in 1 .. 2 /\ u.Host # NoHost
            /\ u.Scheme = SchemeTypeSTUN => u.Proto = ProtoTypeUDP
            /\ u.Scheme = SchemeTypeSTUNS => u.Proto = ProtoTypeTCP
<1> DEFINE last == LastCall(raw)
           s == NewSchemeType(last.scheme)
           q == last.query
<1>1. q \in Query
  <2>1. raw.query \in Query
    BY DEF Raw
  <2> QED
    BY <2>1, NextCall DEF LastCall
<1>2. AddressError(last) = "none" /\ SchemeProto(s, q).err = "none"
  BY DEF ParseOK, ParseError
<1>3. s \in 1 .. 4 /\ Opaque(last.address).host # NoHost
  <2>1. s # SchemeTypeUnknown /\ Opaque(last.address).host # NoHost
    BY <1>2, NoAddressError
  <2>2. s \in 0 .. 4
    BY Names
  <2>3. s \in 1 .. 4
    BY <2>1, <2>2 DEF SchemeTypeUnknown
  <2> QED
    BY <2>1, <2>3
<1>4. parseProto(q).proto \in 0 .. 2
  BY <1>1, ProtoRange
<1>5. /\ SchemeProto(s, q).proto \in 1 .. 2
      /\ s = SchemeTypeSTUN => SchemeProto(s, q).proto = ProtoTypeUDP
      /\ s = SchemeTypeSTUNS => SchemeProto(s, q).proto = ProtoTypeTCP
  <2> HIDE DEF s, q
  <2> QED
    BY <1>3, <1>4 DEF SchemeProto, ProtoTypeUnknown, ProtoTypeUDP, ProtoTypeTCP,
       SchemeTypeSTUN, SchemeTypeSTUNS, SchemeTypeTURN
<1>6. /\ ParseURI(raw).Scheme = s /\ ParseURI(raw).Host = Opaque(last.address).host
      /\ ParseURI(raw).Proto = SchemeProto(s, q).proto
  BY DEF ParseURI, Parsed
<1> QED
  BY <1>3, <1>5, <1>6

(* DialURI has a case for every URI that ParseURI returns: unless one of   *)
(* the calls it makes fails it returns a client, on the network of the     *)
(* URI's protocol, with TLS or DTLS on the connection exactly when the URI *)
(* IsSecure.                                                               *)
THEOREM DialSupportsParsed ==
  ASSUME NEW raw \in Raw, ParseOK(raw), NEW failing
  PROVE  LET u == ParseURI(raw)
         IN /\ DialURI(u, failing) =
                 IF Dialled(u).calls \cap failing # {} THEN "error" ELSE "client"
            /\ Dialled(u).network = ProtoString(u.Proto)
            /\ IsSecure(u) <=> Dialled(u).layer \in {"TLS", "DTLS"}
<1> DEFINE u == ParseURI(raw)
<1>1. /\ u.Scheme \in 1 .. 4 /\ u.Proto \in 1 .. 2
      /\ u.Scheme = SchemeTypeSTUN => u.Proto = ProtoTypeUDP
      /\ u.Scheme = SchemeTypeSTUNS => u.Proto = ProtoTypeTCP
  BY ParsedShape
<1> HIDE DEF u
<1>2. /\ Dialled(u).layer # "ErrUnsupportedURI"
      /\ Dialled(u).network = ProtoString(u.Proto)
      /\ IsSecure(u) <=> Dialled(u).layer \in {"TLS", "DTLS"}
  BY <1>1 DEF Dialled, IsSecure, ProtoString, ProtoTypeUDP, ProtoTypeTCP,
     SchemeTypeSTUN, SchemeTypeSTUNS, SchemeTypeTURN, SchemeTypeTURNS
<1>3. DialURI(u, failing) =
        IF Dialled(u).calls \cap failing # {} THEN "error" ELSE "client"
  BY <1>2, Zenon DEF DialURI
<1> QED
  BY <1>2, <1>3 DEF u

(* A host that begins with a slash and has no colon is written without     *)
(* brackets, nothing of it is opaque, and the default port that ParseURI   *)
(* adds has no host.                                                       *)
LEMMA SlashRefused ==
  ASSUME NEW u, u.Scheme \in 1 .. 4, u.Host.slash, ~u.Host.colon
  PROVE  ~ParseOK(String(u))
<1> DEFINE r == String(u)
           nxt == nextRawURL(r)
<1>1. r.url = TRUE /\ NewSchemeType(r.scheme) = u.Scheme
  BY Names DEF String
<1>2. Opaque(r.address) = NoAddress
  BY DEF String, JoinHostPort, Opaque
<1>3. LastCall(r) = nxt
  <2>1. SplitHostPort(NoAddress) = MissingPort
    BY DEF NoAddress, SplitHostPort
  <2>2. u.Scheme # SchemeTypeUnknown
    BY DEF SchemeTypeUnknown
  <2>3. Recurses(r)
    BY <1>1, <1>2, <2>1, <2>2, Zenon DEF Recurses
  <2> QED
    BY <2>3, Zenon DEF LastCall
<1>4. nxt.address = WithPort(NoAddress, DefaultPort(NewSchemeType(r.scheme)))
  BY <1>2 DEF nextRawURL, String
<1>5. Opaque(nxt.address).host = NoHost
  BY <1>4 DEF WithPort, NoAddress, NoHost, Opaque
<1> HIDE DEF r, nxt
<1>6. AddressError(nxt) # "none"
  BY <1>5, NoAddressError
<1>7. ~ParseOK(r)
  BY <1>3, <1>6, Zenon DEF ParseOK, ParseError
<1> QED
  BY <1>7 DEF r

(* ParseURI of the String of a parsed URI is that URI, whichever of port   *)
(* and protocol was a default the first time.  There is one exception: a   *)
(* host that begins with a slash, which ParseURI takes from brackets and   *)
(* String writes without, is read as a path, and the text is refused.      *)
THEOREM StringRoundTrip ==
  ASSUME NEW raw \in Raw, ParseOK(raw)
  PROVE  LET u == ParseURI(raw)
         IN IF u.Host.slash /\ ~u.Host.colon THEN ~ParseOK(String(u))
            ELSE ParseOK(String(u)) /\ ParseURI(String(u)) = u
<1> DEFINE u == ParseURI(raw)
           r == String(u)
<1>1. /\ u.Scheme \in 1 .. 4 /\ u.Proto \in 1 .. 2 /\ u.Host # NoHost
      /\ u.Scheme = SchemeTypeSTUN => u.Proto = ProtoTypeUDP
      /\ u.Scheme = SchemeTypeSTUNS => u.Proto = ProtoTypeTCP
  BY ParsedShape
<1>2. u = [Scheme |-> u.Scheme, Host |-> u.Host, Port |-> u.Port, Proto |-> u.Proto]
  BY DEF ParseURI, Parsed
<1> HIDE DEF u
<1>3. CASE u.Host.slash /\ ~u.Host.colon
  BY <1>3, <1>1, SlashRefused DEF u
<1> SUFFICES ASSUME ~(u.Host.slash /\ ~u.Host.colon)
             PROVE  ParseOK(r) /\ ParseURI(r) = u
  BY <1>3 DEF u
<1>4. /\ r.url = TRUE /\ r.scheme = SchemeString(u.Scheme)
      /\ r.address = JoinHostPort(u.Host, u.Port)
  BY DEF String
<1>5. r.query = IF u.Scheme = SchemeTypeTURN \/ u.Scheme = SchemeTypeTURNS
                THEN [ok |-> TRUE, keys |-> 1, transport |-> ProtoString(u.Proto)]
                ELSE [ok |-> TRUE, keys |-> 0, transport |-> ""]
  BY DEF String
<1> HIDE DEF r
<1>6. NewSchemeType(r.scheme) = u.Scheme
  BY <1>1, <1>4, Names
<1>7. Opaque(r.address) = JoinHostPort(u.Host, u.Port)
  BY <1>4 DEF Opaque, JoinHostPort
<1> DEFINE o == JoinHostPort(u.Host, u.Port)
<1>8. /\ Len(o.ports) = 1 /\ o.ports # <<>> /\ o.ports[1].ok = TRUE /\ o.ports[1].n = u.Port
      /\ o.form = "good" /\ o.host = u.Host /\ o.bracketed = u.Host.colon
  BY DEF JoinHostPort
<1> HIDE DEF o
<1>9. SplitHostPort(o) = "none" /\ SplitHostPort(o) # MissingPort
  BY <1>8 DEF SplitHostPort, MissingPort
<1>10. ~Recurses(r) /\ LastCall(r) = r
  BY <1>7, <1>9 DEF Recurses, LastCall, o
<1>11. AddressError(r) = "none"
  <2>1. u.Scheme # SchemeTypeUnknown
    BY <1>1 DEF SchemeTypeUnknown
  <2> QED
    BY <1>1, <1>4, <1>6, <1>7, <1>8, <1>9, <2>1, Zenon DEF AddressError, o
<1>12. NewProtoType(ProtoString(u.Proto)) = u.Proto /\ ProtoString(u.Proto) # ""
  BY <1>1, Names
<1>13. SchemeProto(u.Scheme, r.query) = [err |-> "none", proto |-> u.Proto]
  <2>1. CASE u.Scheme = SchemeTypeTURN \/ u.Scheme = SchemeTypeTURNS
    <3> DEFINE q == [ok |-> TRUE, keys |-> 1, transport |-> ProtoString(u.Proto)]
    <3>1. q.ok = TRUE /\ q.keys = 1 /\ q.transport = ProtoString(u.Proto)
      OBVIOUS
    <3>2. r.query = q
      BY <1>5, <2>1
    <3> HIDE DEF q
    <3>3. u.Proto # ProtoTypeUnknown
      BY <1>1 DEF ProtoTypeUnknown
    <3>4. parseProto(q) = [err |-> "none", proto |-> u.Proto]
      <4>1. ~(~q.ok \/ q.keys > 1)
        BY <3>1
      <4>2. q.transport # "" /\ NewProtoType(q.transport) = u.Proto
        BY <3>1, <1>12
      <4> QED
        BY <3>3, <4>1, <4>2, Zenon DEF parseProto
    <3>5. u.Scheme # SchemeTypeSTUN /\ u.Scheme # SchemeTypeSTUNS
      BY <2>1 DEF SchemeTypeSTUN, SchemeTypeSTUNS, SchemeTypeTURN, SchemeTypeTURNS
    <3>6. parseProto(q).err = "none" /\ parseProto(q).proto = u.Proto
      BY <3>4
    <3> QED
      BY <3>2, <3>3, <3>5, <3>6, Zenon DEF SchemeProto
  <2>2. CASE ~(u.Scheme = SchemeTypeTURN \/ u.Scheme = SchemeTypeTURNS)
    <3> DEFINE q == [ok |-> TRUE, keys |-> 0, transport |-> ""]
    <3>1. q.ok = TRUE /\ q.keys = 0
      OBVIOUS
    <3>2. r.query = q
      BY <1>5, <2>2
    <3> HIDE DEF q
    <3>3. u.Scheme = SchemeTypeSTUN \/ u.Scheme = SchemeTypeSTUNS
      BY <1>1, <2>2 DEF SchemeTypeSTUN, SchemeTypeSTUNS, SchemeTypeTURN, SchemeTypeTURNS
    <3>4. ~(~q.ok \/ q.keys > 0)
      BY <3>1
    <3>5. SchemeTypeSTUN # SchemeTypeSTUNS
      BY DEF SchemeTypeSTUN, SchemeTypeSTUNS
    <3>6. CASE u.Scheme = SchemeTypeSTUN
      BY <1>1, <3>2, <3>4, <3>6, Zenon DEF SchemeProto
    <3>7. CASE u.Scheme = SchemeTypeSTUNS
      BY <1>1, <3>2, <3>4, <3>5, <3>7, Zenon DEF SchemeProto
    <3> QED
      BY <3>3, <3>6, <3>7
  <2> QED
    BY <2>1, <2>2
<1>14. ParseOK(r)
  BY <1>6, <1>11, <1>13, <1>10 DEF ParseOK, ParseError
<1>15. ParseURI(r) = u
  <2>1. /\ ParseURI(r).Scheme = u.Scheme /\ ParseURI(r).Host = u.Host
        /\ ParseURI(r).Port = u.Port /\ ParseURI(r).Proto = u.Proto
    BY <1>6, <1>7, <1>8, <1>13, <1>10 DEF ParseURI, Parsed, o
  <2>2. ParseURI(r) = [Scheme |-> ParseURI(r).Scheme, Host |-> ParseURI(r).Host,
                       Port |-> ParseURI(r).Port, Proto |-> ParseURI(r).Proto]
    BY DEF ParseURI, Parsed
  <2> QED
    BY <1>2, <2>1, <2>2
<1> QED
  BY <1>14, <1>15
=============================================================================
