--------------------------------- MODULE URI ---------------------------------
(* STUN and TURN URIs (uri.go) and the connection DialURI makes for one    *)
(* (client.go).  A raw URI is a record of what is written in it, as far as *)
(* url.Parse, SplitHostPort, Atoi and ParseQuery (external) tell it apart. *)
(* Username and Password are never set by ParseURI and left out.           *)
EXTENDS Integers, Sequences

CONSTANT HostNames                \* what else tells hosts apart

(* A host: does it begin with a slash, does it contain a colon?            *)
NoHost == [name |-> "", slash |-> FALSE, colon |-> FALSE]
Host == [name : HostNames, slash : BOOLEAN, colon : BOOLEAN] \cup {NoHost}

SchemeTypeUnknown == 0
SchemeTypeSTUN == 1
SchemeTypeSTUNS == 2
SchemeTypeTURN == 3
SchemeTypeTURNS == 4

NewSchemeType(raw) ==
  IF raw = "stun" THEN SchemeTypeSTUN
  ELSE IF raw = "stuns" THEN SchemeTypeSTUNS
  ELSE IF raw = "turn" THEN SchemeTypeTURN
  ELSE IF raw = "turns" THEN SchemeTypeTURNS
  ELSE SchemeTypeUnknown

SchemeString(t) ==
  IF t = SchemeTypeSTUN THEN "stun"
  ELSE IF t = SchemeTypeSTUNS THEN "stuns"
  ELSE IF t = SchemeTypeTURN THEN "turn"
  ELSE IF t = SchemeTypeTURNS THEN "turns"
  ELSE "Unknown"

ProtoTypeUnknown == 0
ProtoTypeUDP == 1
ProtoTypeTCP == 2

NewProtoType(raw) ==
  IF raw = "udp" THEN ProtoTypeUDP
  ELSE IF raw = "tcp" THEN ProtoTypeTCP
  ELSE ProtoTypeUnknown

ProtoString(t) ==
  IF t = ProtoTypeUDP THEN "udp"
  ELSE IF t = ProtoTypeTCP THEN "tcp"
  ELSE "Unknown"

IsSecure(u) == u.Scheme = SchemeTypeSTUNS \/ u.Scheme = SchemeTypeTURNS
-----------------------------------------------------------------------------
(* The address: a host, in brackets or not, and the ports written after    *)
(* it, which Atoi may refuse.  Without brackets the host ends at a colon.  *)
(* The form is "good", "broken" (unbalanced brackets) or "tail": more than *)
(* a port follows a bracketed host.                                        *)

Port == [ok : BOOLEAN, n : Int]
Address ==
  {a \in [form : {"good", "broken", "tail"}, bracketed : BOOLEAN, host : Host,
          ports : Seq(Port)] :
     ~a.bracketed => a.form # "tail" /\ ~a.host.colon}
NoAddress == [form |-> "good", bracketed |-> FALSE, host |-> NoHost, ports |-> <<>>]

(* url.Parse: a text that begins with a slash is a path and not opaque.    *)
Opaque(a) == IF ~a.bracketed /\ a.host.slash THEN NoAddress ELSE a

MissingPort == "missing port in address"
SplitHostPort(a) ==
  IF a.form = "tail" \/ a.ports = <<>> THEN MissingPort
  ELSE IF a.form = "good" /\ Len(a.ports) = 1 /\ (a.bracketed \/ ~a.host.colon) THEN "none"
  ELSE "other"

JoinHostPort(h, n) ==
  [form |-> "good", bracketed |-> h.colon, host |-> h, ports |-> <<[ok |-> TRUE, n |-> n]>>]

(* The query: ParseQuery's error, its number of keys and the value of      *)
(* "transport", empty when there is none.                                  *)
Query == [ok : BOOLEAN, keys : Nat, transport : STRING]

Raw == [url : BOOLEAN, scheme : STRING, address : Address, query : Query]

parseProto(q) ==
  IF ~q.ok \/ q.keys > 1 THEN [err |-> "ErrInvalidQuery", proto |-> ProtoTypeUnknown]
  ELSE IF q.transport # "" THEN
    [err |-> IF NewProtoType(q.transport) = ProtoTypeUnknown THEN "ErrProtoType" ELSE "none",
     proto |-> NewProtoType(q.transport)]
  ELSE [err |-> IF q.keys > 0 THEN "ErrInvalidQuery" ELSE "none", proto |-> ProtoTypeUnknown]

(* ParseURI calls itself with the default port.                            *)
Recurses(raw) ==
  /\ raw.url /\ NewSchemeType(raw.scheme) # SchemeTypeUnknown
  /\ SplitHostPort(Opaque(raw.address)) = MissingPort

DefaultPort(s) == IF s = SchemeTypeSTUN \/ s = SchemeTypeTURN THEN 3478 ELSE 5349

WithPort(a, n) == [a EXCEPT !.ports = Append(@, [ok |-> TRUE, n |-> n])]

nextRawURL(raw) ==
  LET s == NewSchemeType(raw.scheme)
  IN [raw EXCEPT !.scheme = SchemeString(s),
                 !.address = WithPort(Opaque(raw.address), DefaultPort(s))]

(* The error of a call that does not recurse, up to the port.              *)
AddressError(raw) ==
  IF ~raw.url THEN "url.Error"
  ELSE IF NewSchemeType(raw.scheme) = SchemeTypeUnknown THEN "ErrSchemeType"
  ELSE IF SplitHostPort(Opaque(raw.address)) # "none" THEN "net.AddrError"
  ELSE IF Opaque(raw.address).host = NoHost THEN "ErrHost"
  ELSE IF ~Opaque(raw.address).ports[1].ok THEN "ErrPort"
  ELSE "none"

(* The protocol of a scheme and a query.                                   *)
SchemeProto(s, q) ==
  IF s = SchemeTypeSTUN \/ s = SchemeTypeSTUNS
  THEN [err |-> IF ~q.ok \/ q.keys > 0 THEN "ErrSTUNQuery" ELSE "none",
        proto |-> IF s = SchemeTypeSTUN THEN ProtoTypeUDP ELSE ProtoTypeTCP]
  ELSE [err |-> parseProto(q).err,
        proto |-> IF parseProto(q).proto # ProtoTypeUnknown THEN parseProto(q).proto
                  ELSE IF s = SchemeTypeTURN THEN ProtoTypeUDP ELSE ProtoTypeTCP]

ParseError(raw) ==
  IF AddressError(raw) # "none" THEN AddressError(raw)
  ELSE SchemeProto(NewSchemeType(raw.scheme), raw.query).err

Parsed(raw) ==
  [Scheme |-> NewSchemeType(raw.scheme), Host |-> Opaque(raw.address).host,
   Port |-> Opaque(raw.address).ports[1].n,
   Proto |-> SchemeProto(NewSchemeType(raw.scheme), raw.query).proto]

(* The call that decides: the first that does not recurse.                 *)
LastCall(raw) == IF Recurses(raw) THEN nextRawURL(raw) ELSE raw

ParseOK(raw) == ~Recurses(LastCall(raw)) /\ ParseError(LastCall(raw)) = "none"
ParseURI(raw) == Parsed(LastCall(raw))

(* The text String writes.  (url.Parse may also refuse it, but only when   *)
(* the host begins with a slash.)                                          *)
String(u) ==
  [url |-> TRUE, scheme |-> SchemeString(u.Scheme), address |-> JoinHostPort(u.Host, u.Port),
   query |-> IF u.Scheme = SchemeTypeTURN \/ u.Scheme = SchemeTypeTURNS
             THEN [ok |-> TRUE, keys |-> 1, transport |-> ProtoString(u.Proto)]
             ELSE [ok |-> TRUE, keys |-> 0, transport |-> ""]]
-----------------------------------------------------------------------------
(* The network DialURI dials, the layer it puts on the connection, and the *)
(* calls it makes for that.                                                *)
Dialled(u) ==
  IF u.Scheme = SchemeTypeSTUN
  THEN [network |-> "udp", layer |-> "plain", calls |-> {"NewNet", "Dial", "NewClient"}]
  ELSE IF u.Scheme = SchemeTypeTURN
  THEN [network |-> IF u.Proto = ProtoTypeTCP THEN "tcp" ELSE "udp", layer |-> "plain",
        calls |-> {"NewNet", "Dial", "NewClient"}]
  ELSE IF u.Scheme = SchemeTypeTURNS /\ u.Proto = ProtoTypeUDP
  THEN [network |-> "udp", layer |-> "DTLS",
        calls |-> {"NewNet", "ResolveUDPAddr", "DialUDP", "dtls.Client", "NewClient"}]
  ELSE IF IsSecure(u) /\ u.Proto = ProtoTypeTCP
  THEN [network |-> "tcp", layer |-> "TLS", calls |-> {"NewNet", "Dial", "NewClient"}]
  ELSE [network |-> "none", layer |-> "ErrUnsupportedURI", calls |-> {"NewNet"}]

(* DialURI, when the calls in failing fail: a client on the connection, or *)
(* an error.                                                               *)
DialURI(u, failing) ==
  IF Dialled(u).calls \cap failing # {} THEN "error"
  ELSE IF Dialled(u).layer = "ErrUnsupportedURI" THEN "ErrUnsupportedURI"
  ELSE "client"
=============================================================================
