----------------------------- MODULE Traversal ------------------------------
(***************************************************************************)
(* cmd/stun-traversal: two copies of the program learn their public        *)
(* addresses from a STUN server, their users exchange them, and the        *)
(* programs ping each other through their NATs until both have got and     *)
(* sent a pong.  In each program main runs a select loop beside the listen *)
(* goroutine and one goroutine per call of getPeerAddr.                    *)
(*                                                                         *)
(* External: the STUN server, the NATs, the network and the users.  A NAT  *)
(* gives its program a mapping, number 1; that of program 1 may change.    *)
(* An address is the number of a mapping of the peer, 0 is no address and  *)
(* BadAddr a line that does not resolve to one.  On a network with         *)
(* "faults" sends and reads fail, strangers' packets arrive, and users     *)
(* mistype.                                                                *)
(***************************************************************************)
EXTENDS Naturals

Peers == {1, 2}
Other(p) == 3 - p
Mappings == 1 .. 2
Calls == 1 .. 2                   \* of getPeerAddr: one for each mapping
BadAddr == 3
Networks == {{}, {"filter"}, {"loss"}, {"filter", "loss"}, {"remap"}, {"faults"}}
Packet == [to : Peers, addr : Mappings, msg : {"ping", "pong"}]

VARIABLES net,                    \* what NATs and network do, one of Networks
          mapping,                \* mapping[p]: the mapping p's NAT uses now
          opened,                 \* opened[p]: it has let a packet out to the peer
          answers,                \* answers[p]: mappings in STUN answers under way
          packets,                \* pings and pongs under way
          prog                    \* prog[p]: the program, see Program

world == <<net, mapping, opened>>
vars == <<world, answers, packets, prog>>

(* The locals of main and its goroutines.  getPeerAddr has been called     *)
(* `prompts' times; the goroutines of the calls in `reading' read stdin,   *)
(* the others offer the address in `entered'.  The listen goroutine reads, *)
(* has closed its channel or offers a message; `mapped' is the address in  *)
(* a STUN answer.                                                          *)
Program ==
  [main : {"run", "returned", "panicked"}, connOpen : BOOLEAN,
   publicAddr : 0 .. 2, peerAddr : 0 .. 2, keepaliveMsg : {"ping", "pong"},
   gotPong : BOOLEAN, sentPong : BOOLEAN, quit : {"nil", "armed", "fired"},
   prompts : 0 .. 2, reading : SUBSET Calls, entered : [Calls -> 0 .. BadAddr],
   listener : {"read", "closed", "ping", "pong", "stun", "broken", "unknown"},
   mapped : 0 .. 2]

Started ==
  [main |-> "run", connOpen |-> TRUE, publicAddr |-> 0, peerAddr |-> 0,
   keepaliveMsg |-> "ping", gotPong |-> FALSE, sentPong |-> FALSE, quit |-> "nil",
   prompts |-> 0, reading |-> {}, entered |-> [c \in Calls |-> 0],
   listener |-> "read", mapped |-> 0]

Init ==
  /\ net \in Networks /\ mapping = [p \in Peers |-> 1] /\ opened = [p \in Peers |-> FALSE]
  /\ answers = [p \in Peers |-> {}] /\ packets = {}
  /\ prog = [p \in Peers |-> Started]
-----------------------------------------------------------------------------
(* The network: a packet reaches the mapping it is sent to if the NAT      *)
(* still uses it and, when it filters, has let a packet out to the sender. *)
Passes(k) == k.addr = mapping[k.to] /\ ("filter" \in net => opened[k.to])

(* What is under way to the old mapping is lost with it.                   *)
Remap ==
  /\ "remap" \in net /\ mapping[1] = 1
  /\ mapping' = [mapping EXCEPT ![1] = 2] /\ opened' = [opened EXCEPT ![1] = FALSE]
  /\ answers' = [answers EXCEPT ![1] = {}] /\ packets' = {k \in packets : k.to # 1}
  /\ UNCHANGED <<net, prog>>

Drop ==
  /\ \/ /\ \E k \in packets : ("loss" \in net \/ ~Passes(k)) /\ packets' = packets \ {k}
        /\ UNCHANGED answers
     \/ /\ "loss" \in net /\ UNCHANGED packets
        /\ \E p \in Peers : answers[p] # {} /\ answers' = [answers EXCEPT ![p] = {}]
  /\ UNCHANGED <<world, prog>>

Becomes(p, r) == prog[p].main = "run" /\ prog' = [prog EXCEPT ![p] = r]

Faults == "faults" \in net

(* listen: ReadFromUDP returns a packet, which is offered to main, or      *)
(* fails, as it does once the connection is closed.  A stranger's packet   *)
(* is a STUN message that does not decode or has no mapped address, or no  *)
(* STUN message.                                                           *)
Reads(p) == prog[p].listener = "read" /\ prog[p].connOpen

ListenAnswer(p) ==
  /\ Reads(p)
  /\ \E a \in answers[p] :
       /\ answers' = [answers EXCEPT ![p] = @ \ {a}]
       /\ Becomes(p, [prog[p] EXCEPT !.listener = "stun", !.mapped = a])
  /\ UNCHANGED <<world, packets>>

ListenPacket(p, m) ==
  /\ Reads(p)
  /\ \E k \in packets : k.to = p /\ k.msg = m /\ Passes(k) /\ packets' = packets \ {k}
  /\ Becomes(p, [prog[p] EXCEPT !.listener = m])
  /\ UNCHANGED <<world, answers>>

ListenStranger(p, m) ==
  /\ Faults /\ Reads(p)
  /\ Becomes(p, [prog[p] EXCEPT !.listener = m])
  /\ UNCHANGED <<world, answers, packets>>

ListenFails(p) ==
  /\ prog[p].listener = "read" /\ (Faults \/ ~prog[p].connOpen)
  /\ Becomes(p, [prog[p] EXCEPT !.listener = "closed"])
  /\ UNCHANGED <<world, answers, packets>>
-----------------------------------------------------------------------------
(* An iteration of main's loop ends with the test for success.             *)
ArmQuit_Either(r) == IF r.quit = "nil" /\ (r.gotPong \/ r.sentPong)
                     THEN [r EXCEPT !.quit = "armed"] ELSE r
ArmQuit(r) == IF r.quit = "nil" /\ r.gotPong /\ r.sentPong
              THEN [r EXCEPT !.quit = "armed"] ELSE r
Iterate(p, r) == Becomes(p, ArmQuit(r))
Panic(p) == Becomes(p, [prog[p] EXCEPT !.main = "panicked"])

(* case message := <-messageChan, by the kind of message.                  *)
Ping_Got(p) ==
  /\ prog[p].listener = "ping"
  /\ Iterate(p, [prog[p] EXCEPT !.listener = "read", !.keepaliveMsg = "pong",
                               !.gotPong = TRUE])
  /\ UNCHANGED <<world, answers, packets>>
Ping(p) ==
  /\ prog[p].listener = "ping"
  /\ Iterate(p, [prog[p] EXCEPT !.listener = "read", !.keepaliveMsg = "pong"])
  /\ UNCHANGED <<world, answers, packets>>

Pong_KeepsPinging(p) ==
  /\ prog[p].listener = "pong"
  /\ Iterate(p, [prog[p] EXCEPT !.listener = "read", !.gotPong = TRUE])
  /\ UNCHANGED <<world, answers, packets>>
Pong(p) ==
  /\ prog[p].listener = "pong"
  /\ Iterate(p, [prog[p] EXCEPT !.listener = "read", !.keepaliveMsg = "pong",
                               !.gotPong = TRUE])
  /\ UNCHANGED <<world, answers, packets>>

(* A STUN answer.  A changed address starts another getPeerAddr, and its   *)
(* channel replaces the one main has received from so far.                 *)
Prompt(r) == [r EXCEPT !.listener = "read", !.mapped = 0, !.publicAddr = r.mapped,
                       !.prompts = @ + 1, !.reading = @ \cup {r.prompts + 1}]
NewAddr_Always(r) == Prompt(r)
NewAddr(r) == IF r.publicAddr # r.mapped THEN Prompt(r)
              ELSE [r EXCEPT !.listener = "read", !.mapped = 0]
Answer(p) ==
  /\ prog[p].listener = "stun" /\ Iterate(p, NewAddr(prog[p]))
  /\ UNCHANGED <<world, answers, packets>>

(* A message that gives no address is dropped; an unknown one panics.      *)
Broken(p) ==
  /\ prog[p].listener = "broken" /\ Iterate(p, [prog[p] EXCEPT !.listener = "read"])
  /\ UNCHANGED <<world, answers, packets>>
Unknown(p) ==
  /\ prog[p].listener = "unknown" /\ Panic(p)
  /\ UNCHANGED <<world, answers, packets>>

(* The message channel was closed: main returns.                           *)
Closed(p) ==
  /\ prog[p].listener = "closed" /\ Becomes(p, [prog[p] EXCEPT !.main = "returned"])
  /\ UNCHANGED <<world, answers, packets>>

(* getPeerAddr: the user enters the peer's address as it was printed last, *)
(* and one of the goroutines that read stdin gets the line.                *)
EnterAddr(p) ==
  /\ prog[Other(p)].publicAddr # 0
  /\ \E c \in prog[p].reading :
     \E a \in {prog[Other(p)].publicAddr} \cup (IF Faults THEN {BadAddr} ELSE {}) :
       Becomes(p, [prog[p] EXCEPT !.reading = @ \ {c}, !.entered[c] = a])
  /\ UNCHANGED <<world, answers, packets>>

(* case peerStr := <-peerAddrChan: only the latest channel is received on. *)
PeerAddr(p) ==
  LET c == prog[p].prompts IN
  /\ c > 0 /\ prog[p].entered[c] # 0
  /\ IF prog[p].entered[c] = BadAddr THEN Panic(p)
     ELSE Iterate(p, [prog[p] EXCEPT !.peerAddr = prog[p].entered[c], !.entered[c] = 0])
  /\ UNCHANGED <<world, answers, packets>>

(* case <-keepalive: a binding request until the peer's address is known,  *)
(* then keepaliveMsg.                                                      *)
KeepaliveServer(p) ==
  /\ prog[p].connOpen /\ prog[p].peerAddr = 0
  /\ answers' = [answers EXCEPT ![p] = @ \cup {mapping[p]}]
  /\ Iterate(p, prog[p])
  /\ UNCHANGED <<world, packets>>

KeepalivePeer(p) ==
  /\ prog[p].connOpen /\ prog[p].peerAddr # 0
  /\ packets' = packets \cup {[to |-> Other(p), addr |-> prog[p].peerAddr,
                               msg |-> prog[p].keepaliveMsg]}
  /\ opened' = [opened EXCEPT ![p] = TRUE]
  /\ Iterate(p, [prog[p] EXCEPT !.sentPong = @ \/ prog[p].keepaliveMsg = "pong"])
  /\ UNCHANGED <<net, mapping, answers>>

KeepaliveFails(p) ==
  /\ Faults \/ ~prog[p].connOpen
  /\ Panic(p)
  /\ UNCHANGED <<world, answers, packets>>

(* case <-quit.                                                            *)
Quit(p) ==
  /\ prog[p].quit = "armed"
  /\ Becomes(p, [prog[p] EXCEPT !.quit = "fired", !.connOpen = FALSE])
  /\ UNCHANGED <<world, answers, packets>>

(* The cases of main's select, and the end of both programs.               *)
Message(p) == Ping(p) \/ Pong(p) \/ Answer(p) \/ Broken(p) \/ Unknown(p) \/ Closed(p)
Keepalive(p) == KeepaliveServer(p) \/ KeepalivePeer(p) \/ KeepaliveFails(p)
Ended == (\A p \in Peers : prog[p].main # "run") /\ UNCHANGED vars

Next ==
  \/ \E p \in Peers :
       \/ ListenAnswer(p) \/ ListenFails(p) \/ EnterAddr(p)
       \/ \E m \in {"ping", "pong"} : ListenPacket(p, m)
       \/ \E m \in {"broken", "unknown"} : ListenStranger(p, m)
       \/ Message(p) \/ PeerAddr(p) \/ Keepalive(p) \/ Quit(p)
  \/ Remap \/ Drop \/ Ended

Spec == Init /\ [][Next]_vars

(* Timers fire, goroutines run, users type, a read on a closed connection  *)
(* fails; a packet that is sent over and over arrives in the end.          *)
FairSpec ==
  /\ Spec
  /\ \A p \in Peers :
       /\ WF_vars(ListenFails(p)) /\ WF_vars(EnterAddr(p)) /\ SF_vars(ListenAnswer(p))
       /\ WF_vars(Message(p)) /\ WF_vars(PeerAddr(p))
       /\ WF_vars(Keepalive(p)) /\ WF_vars(Quit(p))
       /\ \A m \in {"ping", "pong"} : SF_vars(ListenPacket(p, m))
-----------------------------------------------------------------------------
(* The shape of the state.                                                 *)
TypeOK ==
  /\ net \in Networks /\ mapping \in [Peers -> Mappings] /\ opened \in [Peers -> BOOLEAN]
  /\ answers \in [Peers -> SUBSET Mappings] /\ packets \subseteq Packet
  /\ prog \in [Peers -> Program]

(* A program that reports "Success!" has a peer that knows an address of   *)
(* it, has heard from it and has sent it a pong: packets went both ways.   *)
SuccessIsMutual ==
  \A p \in Peers : prog[p].quit # "nil" =>
    /\ prog[p].peerAddr # 0 /\ prog[Other(p)].peerAddr # 0
    /\ prog[Other(p)].keepaliveMsg = "pong" /\ prog[Other(p)].sentPong

(* Unless a send or a read fails, a stranger's packet arrives or a user    *)
(* mistypes, main ends only after it has succeeded: it never panics on a   *)
(* message of its peer or of the server, and the panic on a failed send is *)
(* a tick of keepalive that met the connection quit had closed.            *)
EndsAfterSuccess ==
  \A p \in Peers : prog[p].main # "run" /\ ~Faults =>
    prog[p].gotPong /\ prog[p].sentPong /\ prog[p].quit = "fired"

(* Unless the network loses packets or fails, or a NAT changes its         *)
(* mapping, both programs succeed and end, also when both NATs filter:     *)
(* neither quits before the other has all it needs.  On a network that     *)
(* loses packets at least one of them does.                                *)
Succeeded(p) == prog[p].main # "run" /\ prog[p].quit = "fired"
ProgramsSucceed ==
  /\ net \subseteq {"filter"} => <>(\A p \in Peers : Succeeded(p))
  /\ net \subseteq {"filter", "loss"} => <>(\E p \in Peers : Succeeded(p))
=============================================================================
