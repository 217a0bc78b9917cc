----------------------------- MODULE Multiplex ------------------------------
(***************************************************************************)
(* cmd/stun-multiplex: one UDP socket for STUN and for application data.   *)
(* demultiplex hands STUN messages to the STUN client over a net.Pipe and  *)
(* the rest to main over an unbuffered channel; multiplex writes what the  *)
(* client sends.  main asks for its public address first, then keepAlive   *)
(* asks again and again while main echoes (server) or waits for the echo   *)
(* of its greeting (client).                                               *)
(*                                                                         *)
(* The STUN client has one transaction at a time here; it is reduced to    *)
(* what Do promises: the request is written, written again at a timeout,   *)
(* and Do ends with the answer or with the last timeout.  The program is   *)
(* modelled from the point where socket, pipe and client exist; nobody     *)
(* closes the pipe or the client, so reading and writing the pipe and      *)
(* starting a transaction cannot fail.  External: the STUN server, the     *)
(* peer, the network and signals.                                          *)
(***************************************************************************)
EXTENDS Naturals

CONSTANTS MaxAttempts,            \* retransmissions of a request
          MaxDo,                  \* bound: calls of Do
          MaxApp                  \* bound: packets of application data that arrive

ASSUME MultiplexAssumption == {MaxAttempts, MaxDo, MaxApp} \subseteq Nat

VARIABLES role, net,              \* "server" or "client"; what the network does
          main,                   \* "start", "do", "loop", "done", "failed"
          panicked,               \* "no", or what the program has panicked for
          tx, attempt, waiting,   \* number of Do, its retransmissions, Do has not ended
          pipe,                   \* what the client writes to stunR: a Do, or 0
          mux, demux,             \* what multiplex and demultiplex hold
          socket,                 \* STUN answers that have arrived: numbers of Dos
          apps, arrived, echoed,  \* application data: to read, so far, echoed
          greeting                \* a greeting of this program is on its way

vars == <<role, net, main, panicked, tx, attempt, waiting, pipe, mux, demux, socket, apps,
          arrived, echoed, greeting>>
env == <<role, net>>
client == <<tx, attempt, waiting>>
data == <<apps, arrived, echoed, greeting>>

Dos == 1 .. MaxDo
App == MaxDo + 1                  \* demux holds application data
Running == panicked = "no" /\ main \notin {"done", "failed"}
Good == net \cap {"loss", "delay"} = {}

Init ==
  /\ role \in {"server", "client"} /\ net \in SUBSET {"loss", "delay", "faults"}
  /\ main = "start" /\ panicked = "no"
  /\ tx = 0 /\ attempt = 0 /\ waiting = FALSE /\ pipe = 0
  /\ mux = 0 /\ demux = 0 /\ socket = {}
  /\ apps = 0 /\ arrived = 0 /\ echoed = 0 /\ greeting = FALSE
-----------------------------------------------------------------------------
(* Client.Do writes a request to the pipe and waits.                       *)
Do ==
  /\ tx < MaxDo
  /\ tx' = tx + 1 /\ attempt' = 0 /\ waiting' = TRUE /\ pipe' = tx + 1

FirstDo ==
  /\ Running /\ main = "start"
  /\ Do /\ main' = "do"
  /\ UNCHANGED <<env, panicked, mux, demux, socket, data>>

(* A tick of keepAlive.                                                    *)
KeepAlive ==
  /\ Running /\ main = "loop" /\ ~waiting /\ pipe = 0
  /\ Do
  /\ UNCHANGED <<env, main, panicked, mux, demux, socket, data>>

(* The STUN client: an answer is on its way, and nothing blocks it.        *)
UnderWay == (tx \in {pipe, mux, demux} \cup socket) /\ ~(main = "do" /\ demux = App)

(* The collector: unless packets are delayed, a request times out only     *)
(* when its answer cannot come.  The last timeout fails the transaction,   *)
(* and the handler panics.                                                 *)
Timeout ==
  /\ Running /\ waiting /\ pipe = 0
  /\ "delay" \in net \/ ~UnderWay
  /\ \/ /\ attempt < MaxAttempts
        /\ attempt' = attempt + 1 /\ pipe' = tx
        /\ UNCHANGED <<panicked, waiting>>
     \/ /\ attempt = MaxAttempts
        /\ panicked' = "transaction" /\ waiting' = FALSE
        /\ UNCHANGED <<attempt, pipe>>
  /\ UNCHANGED <<env, main, tx, mux, demux, socket, data>>

(* multiplex: a read from stunL completes the client's write to stunR; the *)
(* request goes to the STUN server, whose answer arrives or is lost.       *)
MuxRead_Once ==
  /\ Running /\ mux = 0 /\ pipe = 1
  /\ mux' = pipe /\ pipe' = 0
  /\ UNCHANGED <<env, main, panicked, client, demux, socket, data>>
MuxRead ==
  /\ Running /\ mux = 0 /\ pipe # 0
  /\ mux' = pipe /\ pipe' = 0
  /\ UNCHANGED <<env, main, panicked, client, demux, socket, data>>

MuxWrite ==
  /\ Running /\ mux # 0
  /\ mux' = 0
  /\ \/ socket' = socket \cup {mux}
     \/ "loss" \in net /\ UNCHANGED socket
  /\ UNCHANGED <<env, main, panicked, client, pipe, demux, data>>

(* demultiplex reads the socket, and then hands over what it has read.     *)
DemuxRead ==
  /\ Running /\ demux = 0
  /\ \/ /\ \E a \in socket : demux' = a /\ socket' = socket \ {a}
        /\ UNCHANGED apps
     \/ /\ apps > 0 /\ apps' = apps - 1 /\ demux' = App
        /\ UNCHANGED socket
  /\ UNCHANGED <<env, main, panicked, client, pipe, mux, arrived, echoed, greeting>>

(* The client's reader takes the answer.  It ends the transaction it       *)
(* belongs to; a repeated or late answer is dropped.                       *)
DemuxToClient_DoOnly ==
  /\ Running /\ demux \in Dos
  /\ demux' = 0
  /\ waiting' = (waiting /\ (demux # tx \/ main = "loop"))
  /\ main' = IF waiting /\ demux = tx /\ main = "do" THEN "loop" ELSE main
  /\ greeting' = (greeting \/ (main' # main /\ role = "client"))
  /\ UNCHANGED <<env, panicked, tx, attempt, pipe, mux, socket, apps, arrived, echoed>>
DemuxToClient ==
  /\ Running /\ demux \in Dos
  /\ demux' = 0
  /\ waiting' = (waiting /\ demux # tx)
  /\ main' = IF waiting /\ demux = tx /\ main = "do" THEN "loop" ELSE main
  /\ greeting' = (greeting \/ (main' # main /\ role = "client"))
  /\ UNCHANGED <<env, panicked, tx, attempt, pipe, mux, socket, apps, arrived, echoed>>

(* main receives from messages only in its loop: the server echoes, the    *)
(* client is done.                                                         *)
DemuxToMain_Silent ==
  /\ Running /\ demux = App /\ main = "loop"
  /\ demux' = 0 /\ main' = IF role = "client" THEN "done" ELSE main
  /\ UNCHANGED <<env, panicked, client, pipe, mux, socket, data>>
DemuxToMain ==
  /\ Running /\ demux = App /\ main = "loop"
  /\ demux' = 0
  /\ \/ role = "server" /\ echoed' = echoed + 1 /\ UNCHANGED main
     \/ role = "client" /\ main' = "done" /\ UNCHANGED echoed
  /\ UNCHANGED <<env, panicked, client, pipe, mux, socket, apps, arrived, greeting>>

(* The client repeats its greeting every second, until its deadline.  Not  *)
(* even that comes while an answer is on its way, unless it is delayed.    *)
Retry ==
  /\ Running /\ main = "loop" /\ role = "client"
  /\ ~greeting /\ greeting' = TRUE
  /\ UNCHANGED <<env, main, panicked, client, pipe, mux, demux, socket, apps, arrived,
                 echoed>>

Deadline_Reset == FALSE /\ UNCHANGED vars
Deadline ==
  /\ Running /\ main = "loop" /\ role = "client"
  /\ ~Good \/ (~greeting /\ apps = 0 /\ demux # App)
  /\ main' = "failed"
  /\ UNCHANGED <<env, panicked, client, pipe, mux, demux, socket, data>>

Notify ==
  /\ Running /\ main = "loop"
  /\ main' = "done"
  /\ UNCHANGED <<env, panicked, client, pipe, mux, demux, socket, data>>

(* Where "faults" happen the program panics when a read or a write of the  *)
(* socket fails, when the first answer has no XOR-MAPPED-ADDRESS, and when *)
(* the address of the peer, with which main goes on, does not resolve.     *)
Panic(why) ==
  /\ Running /\ "faults" \in net
  /\ panicked' = why
  /\ UNCHANGED <<env, main, client, pipe, mux, demux, socket, data>>
Answered == main = "do" /\ waiting /\ demux = tx

ReadFails == demux = 0 /\ Panic("read")
MuxWriteFails == mux # 0 /\ Panic("write")
EchoFails == role = "server" /\ main = "loop" /\ demux = App /\ Panic("write")
SendMsgFails ==
  /\ role = "client" /\ (Answered \/ (main = "loop" /\ ~greeting))
  /\ Panic("write")
NoAddress == Answered /\ Panic("address")
NoPeer == role = "client" /\ Answered /\ Panic("peer")

Fault == ReadFails \/ MuxWriteFails \/ EchoFails \/ SendMsgFails \/ NoAddress \/ NoPeer

(* Application data arrives: at a server at any time, at a client as the   *)
(* echo of its greeting.                                                   *)
AppArrives ==
  /\ Running /\ arrived < MaxApp
  /\ role = "server" \/ greeting
  /\ apps' = apps + 1 /\ arrived' = arrived + 1 /\ greeting' = FALSE
  /\ UNCHANGED <<env, main, panicked, client, pipe, mux, demux, socket, echoed>>

GreetingLost ==
  /\ Running /\ "loss" \in net /\ greeting
  /\ greeting' = FALSE
  /\ UNCHANGED <<env, main, panicked, client, pipe, mux, demux, socket, apps, arrived,
                 echoed>>

Ended == ~Running /\ UNCHANGED vars

Next ==
  \/ FirstDo \/ KeepAlive \/ Timeout \/ MuxRead \/ MuxWrite \/ DemuxRead \/ DemuxToClient
  \/ DemuxToMain \/ Retry \/ Deadline \/ Notify \/ AppArrives \/ GreetingLost \/ Fault
  \/ Ended

Spec == Init /\ [][Next]_vars

(* Goroutines and timers run, and a greeting that is not lost is echoed;   *)
(* other data, signals and faults may come or not.                         *)
FairSpec ==
  /\ Spec
  /\ WF_vars(FirstDo) /\ WF_vars(Timeout) /\ WF_vars(MuxRead) /\ WF_vars(MuxWrite)
  /\ WF_vars(DemuxRead) /\ WF_vars(DemuxToClient) /\ WF_vars(DemuxToMain)
  /\ WF_vars(Deadline) /\ WF_vars(greeting /\ AppArrives)
-----------------------------------------------------------------------------
(* The shape of the state.                                                 *)
TypeOK ==
  /\ role \in {"server", "client"} /\ net \subseteq {"loss", "delay", "faults"}
  /\ main \in {"start", "do", "loop", "done", "failed"}
  /\ panicked \in {"no", "transaction", "address", "peer", "read", "write"}
  /\ {waiting, greeting} \subseteq BOOLEAN
  /\ tx \in 0 .. MaxDo /\ attempt \in 0 .. MaxAttempts
  /\ {pipe, mux} \subseteq 0 .. tx /\ demux \in (0 .. tx) \cup {App}
  /\ socket \subseteq 1 .. tx
  /\ arrived \in 0 .. MaxApp
  /\ apps + echoed + (IF demux = App THEN 1 ELSE 0) <= arrived

(* On a network that neither loses nor delays packets a transaction fails, *)
(* and the program panics for it, in one case only: application data has   *)
(* reached demultiplex while main is still in its first Do, so that the    *)
(* answer Do waits for cannot get past it.  Once main is in its loop no    *)
(* transaction fails.                                                      *)
FailsOnlyBehindData ==
  panicked = "transaction" => ~Good \/ (main = "do" /\ demux = App)

(* Every Do ends, by an answer or by the panic: neither the pipe, in which *)
(* the client and multiplex wait for each other, nor demultiplex blocks    *)
(* for ever.                                                               *)
DoEnds == waiting ~> ~waiting \/ ~Running

(* A server that is not stopped echoes every packet of application data    *)
(* it has got, or panics.                                                  *)
EchoesAll == role = "server" => <>[](~Running \/ echoed = arrived)

(* A client ends: when no packet is lost or delayed, because it got its    *)
(* echo, was told to stop or met a fault, and not at its deadline or for a *)
(* failed transaction.                                                     *)
ClientEnds ==
  role = "client" =>
    <>(main = "done" \/ (IF Good THEN panicked \notin {"no", "transaction"}
                         ELSE ~Running))
=============================================================================
