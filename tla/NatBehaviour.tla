---------------------------- MODULE NatBehaviour ----------------------------
(***************************************************************************)
(* cmd/stun-nat-behaviour: mappingTests and filteringTests, each on a      *)
(* connection of its own, with the listen goroutine that hands packets to  *)
(* roundTrip over an unbuffered channel.                                   *)
(*                                                                         *)
(* External: a server with two addresses and two ports, the NAT in front   *)
(* of the program, and the network.  A packet is the transaction id it     *)
(* answers and the mapped address it reports; the id is the number of the  *)
(* roundTrip that sent the request.                                        *)
(***************************************************************************)
EXTENDS Naturals, Sequences

VARIABLES test,                   \* the function that runs
          nat,                    \* the NAT: its mapping and its filtering
          attrs,                  \* the answers that have the addresses the tests need
          net,                    \* what the network may do to packets
          round,                  \* number of the roundTrip, 1 to 3
          pc,                     \* "send", "await", "done"
          network,                \* packets on their way to the program
          listener,               \* the listen goroutine: "read", "offer", "closed"
          offered,                \* the packet it offers
          addrs,                  \* XOR-MAPPED-ADDRESS of each round
          result                  \* what the test concludes

vars == <<test, nat, attrs, net, round, pc, network, listener, offered, addrs,
          result>>
env == <<test, nat, attrs, net>>

Mappings == {"none", "endpoint", "address", "address and port"}
Filterings == Mappings \ {"none"}
(* An answer without XOR-MAPPED-ADDRESS or, in the first round, without    *)
(* OTHER-ADDRESS.                                                          *)
NoAddr == <<"missing", "", "">>
(* LocalAddr of a socket that is bound to no address: 0.0.0.0 and a port.  *)
Local == <<"unspecified", "", "">>
NoPacket == [id |-> 0, mapped |-> NoAddr]

Init ==
  /\ test \in {"mapping", "filtering"}
  /\ nat \in [mapping : Mappings, filtering : Filterings]
  /\ attrs \in {"none", "first", "all"}
  /\ net \in SUBSET {"loss", "duplicates", "delay", "garbage"}
  /\ round = 1 /\ pc = "send" /\ network = {} /\ listener = "read"
  /\ offered = NoPacket /\ addrs = <<>> /\ result = "running"
-----------------------------------------------------------------------------
(* The NAT maps a request to address a and port p of the server to ...     *)
MappedTo(a, p) ==
  CASE nat.mapping = "none" -> <<"host", "", "">>
    [] nat.mapping = "endpoint" -> <<"mapped", "", "">>
    [] nat.mapping = "address" -> <<"mapped", a, "">>
    [] nat.mapping = "address and port" -> <<"mapped", a, p>>

(* Where the request of a round goes: the other address but primary port,  *)
(* then the other address and port.  Filtering tests use the primary.      *)
Mapped ==
  IF attrs = "none" \/ (attrs = "first" /\ round > 1) THEN NoAddr
  ELSE CASE test = "filtering" \/ round = 1 -> MappedTo("primary", "primary")
         [] test = "mapping" /\ round = 2 -> MappedTo("other", "primary")
         [] test = "mapping" /\ round = 3 -> MappedTo("other", "other")

(* CHANGE-REQUEST makes the server answer from another address and port,   *)
(* then from another port; the NAT lets through what its filtering allows. *)
Passes == CASE test = "mapping" \/ round = 1 -> TRUE
            [] test = "filtering" /\ round = 2 -> nat.filtering = "endpoint"
            [] test = "filtering" /\ round = 3 -> nat.filtering # "address and port"

Finish(r) == pc' = "done" /\ result' = r
NextRound == pc' = "send" /\ round' = round + 1

(* roundTrip: the request is written, and the server answers.              *)
Send ==
  /\ pc = "send"
  /\ pc' = "await"
  /\ network' = network \cup
       (IF Passes THEN {[id |-> round, mapped |-> Mapped]} ELSE {})
  /\ UNCHANGED <<env, round, listener, offered, addrs, result>>

(* filteringTests drops the error of its last roundTrip.                   *)
NoConclusion == IF test = "filtering" /\ round = 3 THEN "silent" ELSE "inconclusive"

SendFails ==
  /\ pc = "send"
  /\ Finish(NoConclusion)
  /\ UNCHANGED <<env, round, network, listener, offered, addrs>>

(* What mappingTests does with the answer.  The local address is never the *)
(* mapped one, with a NAT or without, so that `(no NAT)' is never said.    *)
(* Later answers are used without a check that they have an address.       *)
Same_First(a) == a = addrs[1]
Same(a) == a = addrs[Len(addrs)]

MappingAnswer(a) ==
  /\ test = "mapping"
  /\ \/ round = 1 /\ a = NoAddr /\ Finish("inconclusive") /\ UNCHANGED round
     \/ /\ round = 1 /\ a # NoAddr
        /\ pc' = IF a = Local THEN "done" ELSE "send"
        /\ result' = IF a = Local THEN "none" ELSE result
        /\ round' = IF a = Local THEN round ELSE round + 1
     \/ round > 1 /\ a = NoAddr /\ Finish("panicked") /\ UNCHANGED round
     \/ round = 2 /\ a # NoAddr /\ Same(a) /\ Finish("endpoint") /\ UNCHANGED round
     \/ round = 2 /\ a # NoAddr /\ ~Same(a) /\ NextRound /\ UNCHANGED result
     \/ /\ round = 3 /\ a # NoAddr /\ UNCHANGED round
        /\ Finish(IF Same(a) THEN "address" ELSE "address and port")

(* What filteringTests does with the answer.                               *)
FilteringAnswer(a) ==
  /\ test = "filtering"
  /\ \/ round = 1 /\ a = NoAddr /\ Finish("inconclusive") /\ UNCHANGED round
     \/ round = 1 /\ a # NoAddr /\ NextRound /\ UNCHANGED result
     \/ round = 2 /\ Finish("endpoint") /\ UNCHANGED round
     \/ round = 3 /\ Finish("address") /\ UNCHANGED round

(* roundTrip receives from the channel: whatever the listener offers.      *)
Receive ==
  /\ pc = "await" /\ listener = "offer"
  /\ addrs' = Append(addrs, offered.mapped)
  /\ listener' = "read" /\ offered' = NoPacket
  /\ MappingAnswer(offered.mapped) \/ FilteringAnswer(offered.mapped)
  /\ UNCHANGED <<env, network>>

ReceiveClosed ==
  /\ pc = "await" /\ listener = "closed"
  /\ Finish(NoConclusion)
  /\ UNCHANGED <<env, round, network, listener, offered, addrs>>

(* errTimedOut.  Unless packets are delayed, no answer is under way then.  *)
TimedOut ==
  /\ pc = "await"
  /\ \/ (test = "mapping" \/ round = 1) /\ Finish("inconclusive") /\ UNCHANGED round
     \/ test = "filtering" /\ round = 2 /\ NextRound /\ UNCHANGED result
     \/ test = "filtering" /\ round = 3 /\ Finish("address and port") /\ UNCHANGED round

Timeout_Never == FALSE
Timeout ==
  /\ "delay" \in net \/ (listener = "read" /\ \A p \in network : p.id # round)
  /\ TimedOut
  /\ UNCHANGED <<env, network, listener, offered, addrs>>
-----------------------------------------------------------------------------
(* listen reads a packet and offers it until roundTrip takes it.  A packet *)
(* that does not decode ends the goroutine and closes the channel.         *)
Listen(p) ==
  /\ listener = "read" /\ p \in network
  /\ listener' = "offer" /\ offered' = p
  /\ network' = IF "duplicates" \in net THEN network ELSE network \ {p}
  /\ UNCHANGED <<env, round, pc, addrs, result>>

ListenFails ==
  /\ "garbage" \in net /\ listener = "read"
  /\ listener' = "closed"
  /\ UNCHANGED <<env, round, pc, network, offered, addrs, result>>

Lose(p) ==
  /\ "loss" \in net /\ p \in network
  /\ network' = network \ {p}
  /\ UNCHANGED <<env, round, pc, listener, offered, addrs, result>>

Program == Send \/ SendFails \/ Receive \/ ReceiveClosed \/ Timeout

Next == Program \/ ListenFails \/ \E p \in network : Listen(p) \/ Lose(p)

Spec == Init /\ [][Next]_vars

(* The program runs and time passes.  A network that delays packets need   *)
(* not deliver them.                                                       *)
FairSpec ==
  /\ Spec
  /\ WF_vars(Program)
  /\ WF_vars("delay" \notin net /\ \E p \in network : Listen(p))
-----------------------------------------------------------------------------
(* What the tests conclude about the NAT is so unless packets are          *)
(* duplicated.  Lost and late answers, and packets that do not decode, may *)
(* keep mappingTests from a conclusion but never make it wrong (no NAT is  *)
(* endpoint independent).  filteringTests takes silence for filtering: it  *)
(* never says that the NAT lets through more than it does, and is right    *)
(* when every answer comes in time.                                        *)
ConclusionIsRight ==
  "duplicates" \notin net =>
    /\ test = "mapping" /\ result \in Mappings =>
         result = IF nat.mapping = "none" THEN "endpoint" ELSE nat.mapping
    /\ test = "filtering" /\ result \in Filterings =>
         /\ result = "endpoint" => nat.filtering = "endpoint"
         /\ result = "address" => nat.filtering # "address and port"
         /\ net \subseteq {"garbage"} => result = nat.filtering

(* The tests end, whatever the network does.                               *)
Terminates == <>(pc = "done")
=============================================================================
