-------------------------- MODULE MultiplexProofs ---------------------------
(***************************************************************************)
(* cmd/stun-multiplex for any number of retransmissions, keep-alives and   *)
(* packets of application data: on a good network a transaction fails only *)
(* when data has stopped demultiplex during the first Do.  The invariant   *)
(* adds that the request of a waiting Do, or its answer, is in the pipe,   *)
(* in multiplex, on the socket or in demultiplex; the network cannot take  *)
(* it, and neither goroutine drops it.                                     *)
(***************************************************************************)
EXTENDS Multiplex, TLAPS

(* TypeOK, in parts: the requests and answers, and the application data.   *)
Flags == {waiting, greeting} \subseteq BOOLEAN
Words == /\ role \in {"server", "client"} /\ net \subseteq {"loss", "delay", "faults"}
         /\ main \in {"start", "do", "loop", "done", "failed"}
         /\ panicked \in {"no", "transaction", "address", "peer", "read", "write"}
Places == /\ tx \in Nat /\ tx <= MaxDo /\ attempt \in Nat /\ attempt <= MaxAttempts
          /\ pipe \in Nat /\ pipe <= tx /\ mux \in Nat /\ mux <= tx
          /\ demux \in Nat /\ (demux <= tx \/ demux = App)
          /\ \A a \in socket : a \in Nat /\ 1 <= a /\ a <= tx
Counts == /\ apps \in Nat /\ echoed \in Nat /\ arrived \in 0 .. MaxApp
          /\ apps + echoed + (IF demux = App THEN 1 ELSE 0) <= arrived

(* What Do waits for is somewhere between client and socket.               *)
InFlight == waiting /\ Good => tx \in {pipe, mux, demux} \cup socket

Inv == Flags /\ Words /\ Places /\ Counts /\ InFlight /\ FailsOnlyBehindData

(* Before main asks for its address nothing is in flight.                  *)
LEMMA InitInv == Init => Inv
<1> SUFFICES ASSUME Init PROVE Inv
  OBVIOUS
<1>1. Flags /\ Words
  BY Zenon DEF Init, Flags, Words
<1>2. Places /\ Counts /\ InFlight /\ FailsOnlyBehindData
  BY MultiplexAssumption DEF Init, Places, Counts, App, InFlight, FailsOnlyBehindData
<1> QED
  BY <1>1, <1>2 DEF Inv

(* Control stays what it is.                                               *)
LEMMA NextFlags == ASSUME Flags, Words, [Next]_vars PROVE Flags' /\ Words'
<1> USE DEF Flags, Words, env, client, data
<1>1. CASE FirstDo \/ KeepAlive
  BY <1>1, Zenon DEF FirstDo, KeepAlive, Do
<1>2. CASE Timeout \/ MuxRead \/ MuxWrite
  BY <1>2, Zenon DEF Timeout, MuxRead, MuxWrite
<1>3. CASE DemuxRead \/ DemuxToClient \/ DemuxToMain
  BY <1>3, Zenon DEF DemuxRead, DemuxToClient, DemuxToMain
<1>4. CASE Retry \/ Deadline \/ Notify
  BY <1>4, Zenon DEF Retry, Deadline, Notify
<1>5. CASE AppArrives \/ GreetingLost
  BY <1>5, Zenon DEF AppArrives, GreetingLost
<1>6. CASE UNCHANGED vars
  BY <1>6, Zenon DEF vars
<1>7. CASE Fault
  BY <1>7, Zenon DEF Fault, ReadFails, MuxWriteFails, EchoFails, SendMsgFails, NoAddress,
                     NoPeer, Panic
<1> QED
  BY <1>1, <1>2, <1>3, <1>4, <1>5, <1>6, <1>7, Zenon DEF Next, Ended

(* The bounds are natural numbers.                                         *)
LEMMA Bounds == MaxAttempts \in Nat /\ MaxDo \in Nat /\ MaxApp \in Nat
BY MultiplexAssumption

(* A fault panics, for another reason than a transaction, and changes      *)
(* nothing else.                                                           *)
LEMMA FaultOnlyPanics ==
  ASSUME Fault
  PROVE  /\ panicked' \notin {"no", "transaction"}
         /\ UNCHANGED <<net, tx, attempt, waiting, pipe, mux, demux, socket, data>>
BY Zenon DEF Fault, ReadFails, MuxWriteFails, EchoFails, SendMsgFails, NoAddress, NoPeer,
             Panic, env, client

(* Requests and answers carry numbers of Dos that were called, and what is *)
(* echoed or still to be read has arrived.                                 *)
LEMMA NextPlaces == ASSUME Places, Counts, [Next]_vars PROVE Places' /\ Counts'
<1> USE Bounds DEF App, Dos, env, client, data
<1>1. CASE FirstDo \/ KeepAlive
  <2>1. Places'
    BY <1>1 DEF FirstDo, KeepAlive, Do, Places
  <2>2. Counts'
    BY <1>1 DEF FirstDo, KeepAlive, Do, Counts
  <2> QED
    BY <2>1, <2>2
<1>2. CASE Timeout
  <2>1. Places'
    <3>1. /\ UNCHANGED <<tx, mux, demux, socket>>
          /\ \/ attempt < MaxAttempts /\ attempt' = attempt + 1 /\ pipe' = tx
             \/ UNCHANGED <<attempt, pipe>>
      BY <1>2, Zenon DEF Timeout
    <3> QED
      BY <3>1 DEF Places
  <2>2. Counts'
    BY <1>2 DEF Timeout, Counts
  <2> QED
    BY <2>1, <2>2
<1>3. CASE MuxRead \/ MuxWrite
  <2>1. Places'
    BY <1>3 DEF MuxRead, MuxWrite, Places
  <2>2. Counts'
    BY <1>3 DEF MuxRead, MuxWrite, Counts
  <2> QED
    BY <2>1, <2>2
<1>4. CASE DemuxRead
  <2>1. Places'
    BY <1>4 DEF DemuxRead, Places
  <2>2. Counts'
    BY <1>4 DEF DemuxRead, Places, Counts
  <2> QED
    BY <2>1, <2>2
<1>5. CASE DemuxToClient \/ DemuxToMain
  <2>1. Places'
    BY <1>5 DEF DemuxToClient, DemuxToMain, Places
  <2>2. Counts'
    BY <1>5 DEF DemuxToClient, DemuxToMain, Counts
  <2> QED
    BY <2>1, <2>2
<1>6. CASE Retry \/ Deadline \/ Notify \/ UNCHANGED vars
  BY <1>6 DEF Retry, Deadline, Notify, vars, Places, Counts
<1>7. CASE AppArrives \/ GreetingLost
  <2>1. Places'
    BY <1>7 DEF AppArrives, GreetingLost, Places
  <2>2. Counts'
    BY <1>7 DEF AppArrives, GreetingLost, Counts
  <2> QED
    BY <2>1, <2>2
<1>8. CASE Fault
  BY <1>8, FaultOnlyPanics DEF Places, Counts
<1> QED
  BY <1>1, <1>2, <1>3, <1>4, <1>5, <1>6, <1>7, <1>8, Zenon DEF Next, Ended

(* No step but the end of Do takes a request, or its answer, away.         *)
LEMMA NextInFlight ==
  ASSUME Inv, [Next]_vars PROVE InFlight' /\ FailsOnlyBehindData'
<1> USE DEF env, client, data, Good
<1>0. InFlight /\ FailsOnlyBehindData /\ Places
  BY DEF Inv
<1>1. CASE FirstDo \/ KeepAlive
  BY <1>0, <1>1 DEF FirstDo, KeepAlive, Do, InFlight, FailsOnlyBehindData, Running
<1>2. CASE Timeout
  <2>1. panicked = "no"
    BY <1>2 DEF Timeout, Running
  <2>2. CASE panicked' = "transaction"
    BY <1>0, <1>2, <2>1, <2>2 DEF Timeout, UnderWay, InFlight, FailsOnlyBehindData
  <2>3. CASE panicked' # "transaction"
    BY <1>0, <1>2, <2>1, <2>3 DEF Timeout, InFlight, FailsOnlyBehindData
  <2> QED
    BY <2>2, <2>3
<1>3. CASE MuxRead \/ MuxWrite
  BY <1>0, <1>3 DEF MuxRead, MuxWrite, InFlight, FailsOnlyBehindData, Places, Running
<1>4. CASE DemuxRead
  BY <1>0, <1>4 DEF DemuxRead, InFlight, FailsOnlyBehindData, Places, Running
<1>5. CASE DemuxToClient \/ DemuxToMain
  <2>1. panicked' = "no" /\ UNCHANGED <<net, tx, pipe, mux, socket>> /\ (waiting' => waiting)
        /\ (waiting' => demux # tx)
    <3>1. CASE DemuxToClient
      BY <3>1, Zenon DEF DemuxToClient, Running
    <3>2. CASE DemuxToMain
      BY <1>0, <3>2, Bounds DEF DemuxToMain, Places, App, Running
    <3> QED
      BY <1>5, <3>1, <3>2
  <2> QED
    BY <1>0, <2>1 DEF InFlight, FailsOnlyBehindData
<1>6. CASE Retry \/ Deadline \/ Notify \/ UNCHANGED vars
  BY <1>0, <1>6 DEF Retry, Deadline, Notify, vars, InFlight, FailsOnlyBehindData, Running
<1>7. CASE AppArrives \/ GreetingLost
  BY <1>0, <1>7 DEF AppArrives, GreetingLost, InFlight, FailsOnlyBehindData, Running
<1>8. CASE Fault
  BY <1>0, <1>8, FaultOnlyPanics DEF InFlight, FailsOnlyBehindData
<1> QED
  BY <1>1, <1>2, <1>3, <1>4, <1>5, <1>6, <1>7, <1>8, Zenon DEF Next, Ended

(* Inv is an invariant of the program.                                     *)
LEMMA Invariance == Spec => []Inv
<1>1. Inv /\ [Next]_vars => Inv'
  BY NextFlags, NextPlaces, NextInFlight DEF Inv
<1> QED
  BY <1>1, InitInv, PTL DEF Spec

(* Answers are of requests that were sent, a request is written at most    *)
(* MaxAttempts + 1 times, and no packet of application data is read or     *)
(* echoed that has not arrived.                                            *)
THEOREM TypeCorrect == Spec => []TypeOK
<1>1. Inv => TypeOK
  BY Bounds DEF Inv, Flags, Words, Places, Counts, TypeOK
<1> QED
  BY <1>1, Invariance, PTL

(* When packets are neither lost nor delayed, a transaction of main or of  *)
(* keepAlive fails only while main is in its first Do and demultiplex      *)
(* holds application data that nobody receives.                            *)
THEOREM FailsBehindData == Spec => []FailsOnlyBehindData
<1>1. Inv => FailsOnlyBehindData
  BY DEF Inv
<1> QED
  BY <1>1, Invariance, PTL
=============================================================================
