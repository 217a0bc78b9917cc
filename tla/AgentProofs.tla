---------------------------- MODULE AgentProofs -----------------------------
(***************************************************************************)
(* Proofs about Agent for any number of ids, goroutines and handlers, any  *)
(* deadlines and any bounds: type correctness, that every registration is  *)
(* ended by exactly one handler call (NotLost and NotTwice), that a        *)
(* time-out is never early, and that Agent implements Ledger.              *)
(***************************************************************************)
EXTENDS Agent, TLAPS

(* A goroutine outside the agent's methods owes nothing.                   *)
IdleOwesNothing == \A c \in Thread : pc[c] = "idle" => todo[c] = {}

(* Only registrations that were made are owed or delivered.                *)
OnlyKnown ==
  /\ \A c \in Thread : \A e \in todo[c] : e.reg <= reg[e.id]
  /\ \A r \in Registration : Delivered(r) => r[2] <= reg[r[1]]
  /\ \A id \in ID : Registered(id) => 1 <= reg[id]

(* A registration that waits has had no handler call.                      *)
WaitingIsOpen ==
  \A id \in ID : Waiting(<<id, reg[id]>>) => ~Delivered(<<id, reg[id]>>)

(* agentMux is held between steps exactly by the goroutine inside Close.   *)
MuxIsCloser == \A c \in Thread : pc[c] = "closing" <=> agentMux = c

(* Close accounts for every transaction that it will drop.                 *)
CloserOwes ==
  \A c \in Thread : agentMux = c =>
    \A id \in ID : Registered(id) =>
      Delivered(<<id, reg[id]>>) \/ Owes(c, <<id, reg[id]>>)

(* A closed agent is empty; an open one has a handler.                     *)
ClosedIsEmpty ==
  /\ agentClosed => agentMux = Free /\ \A id \in ID : ~Registered(id)
  /\ ~agentClosed => handler # NilHandler

IInv == /\ TypeOK /\ NotLost /\ NotTwice
        /\ IdleOwesNothing /\ OnlyKnown /\ WaitingIsOpen
        /\ MuxIsCloser /\ CloserOwes /\ ClosedIsEmpty
-----------------------------------------------------------------------------
(* The counters of registrations are natural numbers.                      *)
LEMMA RegNat == TypeOK => reg \in [ID -> Nat]
BY BoundAssumption DEF TypeOK

(* The agent starts in a state that satisfies the invariant.               *)
LEMMA InitIInv == Init => IInv
<1> SUFFICES ASSUME Init PROVE IInv
  OBVIOUS
<1> USE DEF Init, AgentInit
<1>1. TypeOK
  <2>1. reg \in [ID -> 0 .. MaxReg]
    BY BoundAssumption
  <2> QED
    BY <2>1 DEF TypeOK, AgentTypeOK, Event
<1>2. NotLost /\ NotTwice
  BY DEF NotLost, NotTwice
<1>3. IdleOwesNothing /\ OnlyKnown /\ WaitingIsOpen
  BY DEF IdleOwesNothing, OnlyKnown, WaitingIsOpen, Registered, Waiting, Delivered
<1>4. MuxIsCloser /\ CloserOwes
  BY FreeAssumption DEF MuxIsCloser, CloserOwes
<1>5. ClosedIsEmpty
  BY HandlerAssumption DEF ClosedIsEmpty
<1> QED
  BY <1>1, <1>2, <1>3, <1>4, <1>5 DEF IInv

(* Start makes one fresh registration, which waits in the table.           *)
LEMMA StartIInv ==
  ASSUME IInv, NEW id \in ID, NEW d \in Deadline, Start(id, d)
  PROVE  IInv'
<1> USE DEF IInv, Start, AgentStartOK, AgentOpen
<1>0. /\ d # Absent
      /\ transactions' = [transactions EXCEPT ![id] = d]
      /\ reg' = [reg EXCEPT ![id] = @ + 1]
      /\ reg \in [ID -> Nat] /\ transactions \in [ID -> Deadline \cup {Absent}]
  BY AbsentAssumption, RegNat DEF TypeOK, AgentTypeOK
<1>1. TypeOK'
  BY <1>0, BoundAssumption DEF TypeOK, AgentTypeOK, Event
<1>2. NotLost'
  <2> SUFFICES ASSUME NEW i \in ID, NEW n \in 1 .. reg'[i]
               PROVE  \/ Waiting(<<i, n>>)'
                      \/ Delivered(<<i, n>>)'
                      \/ \E c \in Thread : Owes(c, <<i, n>>)'
    BY DEF NotLost
  <2>1. CASE i = id /\ n = reg[id] + 1
    BY <1>0, <2>1 DEF Waiting, Registered
  <2>2. CASE ~(i = id /\ n = reg[id] + 1)
    <3>1. n \in 1 .. reg[i]
      BY <1>0, <2>2
    <3>2. Waiting(<<i, n>>) => Waiting(<<i, n>>)'
      BY <1>0, <3>1 DEF Waiting, Registered
    <3>3. \A c \in Thread : Owes(c, <<i, n>>) => Owes(c, <<i, n>>)'
      BY DEF Owes
    <3> QED
      BY <3>1, <3>2, <3>3 DEF NotLost, Delivered
  <2> QED
    BY <2>1, <2>2
<1>3. NotTwice'
  <2> SUFFICES ASSUME NEW c \in Thread, NEW e \in todo[c], e.reg # 0
               PROVE  ~Waiting(<<e.id, e.reg>>)'
    BY DEF NotTwice, Delivered
  <2>1. e \in Event /\ e.reg <= reg[e.id]
    BY DEF TypeOK, OnlyKnown
  <2>2. ~Waiting(<<e.id, e.reg>>)
    BY DEF NotTwice
  <2> QED
    BY <1>0, <2>1, <2>2 DEF Waiting, Registered, Event
<1>4. IdleOwesNothing'
  BY DEF IdleOwesNothing
<1>5. OnlyKnown'
  <2>1. \A r \in Registration : Delivered(r)' => r[2] <= reg'[r[1]]
    BY <1>0 DEF OnlyKnown, Registration, Delivered
  <2> QED
    BY <1>0, <2>1 DEF OnlyKnown, TypeOK, Event, Registered
<1>6. WaitingIsOpen'
  <2>1. ~Delivered(<<id, reg[id] + 1>>)
    <3>1. <<id, reg[id] + 1>> \in Registration
      BY <1>0, BoundAssumption DEF Registration
    <3> QED
      BY <1>0, <3>1 DEF OnlyKnown
  <2> QED
    BY <1>0, <2>1 DEF WaitingIsOpen, Waiting, Registered, Delivered
<1>7. MuxIsCloser'
  BY DEF MuxIsCloser
<1>8. CloserOwes'
  BY FreeAssumption DEF CloserOwes
<1>9. ClosedIsEmpty'
  BY DEF ClosedIsEmpty
<1> QED
  BY <1>1, <1>2, <1>3, <1>4, <1>5, <1>6, <1>7, <1>8, <1>9

(* Unregistering the ids of S and owing one event for each of them, and    *)
(* possibly one for an unregistered id, as Stop, Process and Collect do.   *)
LEMMA RemoveIInv ==
  ASSUME IInv, NEW c \in Thread, NEW S, NEW E \in SUBSET Event,
         \A e \in E : e.reg = 0 \/ (e.id \in S /\ Registered(e.id) /\ e.reg = reg[e.id]),
         \A id \in ID : id \in S /\ Registered(id)
                      => \E e \in E : e.id = id /\ e.reg = reg[id],
         \A e1, e2 \in E : e1.id = e2.id => e1 = e2,
         AgentRemove(S), Owe(c, "emit", E)
  PROVE  IInv'
<1> USE DEF IInv, AgentRemove, AgentOpen, Owe
<1>0. /\ transactions' = [id \in ID |-> IF id \in S THEN Absent ELSE transactions[id]]
      /\ transactions \in [ID -> Deadline \cup {Absent}]
      /\ todo \in [Thread -> SUBSET Event] /\ todo' = [todo EXCEPT ![c] = E]
      /\ todo[c] = {}
      /\ pc \in [Thread -> {"idle", "emit", "closing"}]
      /\ agentMux = Free /\ agentMux' = Free
      /\ UNCHANGED <<reg, calls>>
  BY DEF TypeOK, AgentTypeOK, IdleOwesNothing
<1>a. \A id \in ID : Registered(id)' <=> Registered(id) /\ id \notin S
  BY <1>0 DEF Registered
<1>1. TypeOK'
  BY <1>0 DEF TypeOK, AgentTypeOK, ClosedIsEmpty
<1>2. NotLost'
  <2> SUFFICES ASSUME NEW i \in ID, NEW n \in 1 .. reg[i]
               PROVE  \/ Waiting(<<i, n>>)'
                      \/ Delivered(<<i, n>>)
                      \/ \E b \in Thread : Owes(b, <<i, n>>)'
    BY <1>0 DEF NotLost, Delivered
  <2>1. CASE Waiting(<<i, n>>) /\ i \in S
    <3>1. \E e \in E : e.id = i /\ e.reg = n
      BY <2>1 DEF Waiting
    <3> QED
      BY <1>0, <3>1 DEF Owes
  <2>2. CASE Waiting(<<i, n>>) /\ i \notin S
    BY <1>0, <1>a, <2>2 DEF Waiting
  <2>3. CASE \E b \in Thread : Owes(b, <<i, n>>)
    BY <1>0, <2>3 DEF Owes
  <2> QED
    BY <2>1, <2>2, <2>3 DEF NotLost
<1>3. NotTwice'
  <2> SUFFICES ASSUME NEW b \in Thread, NEW e \in todo'[b], e.reg # 0
               PROVE  /\ ~Waiting(<<e.id, e.reg>>)'
                      /\ ~Delivered(<<e.id, e.reg>>)
                      /\ \A b2 \in Thread : \A e2 \in todo'[b2] :
                           e2.id = e.id /\ e2.reg = e.reg => b2 = b /\ e2 = e
    BY <1>0 DEF NotTwice, Delivered
  <2>0. e \in Event /\ e.id \in ID
    BY <1>0 DEF Event
  <2>1. CASE b = c
    <3>1. e \in E /\ e.id \in S /\ Registered(e.id) /\ e.reg = reg[e.id]
      BY <1>0, <2>1
    <3>2. Waiting(<<e.id, e.reg>>)
      BY <1>0, <3>1 DEF Waiting
    <3>3. ~Waiting(<<e.id, e.reg>>)'
      BY <1>a, <2>0, <3>1 DEF Waiting
    <3>4. ~Delivered(<<e.id, e.reg>>)
      BY <2>0, <3>1, <3>2 DEF WaitingIsOpen
    <3>5. ASSUME NEW b2 \in Thread, NEW e2 \in todo'[b2], e2.id = e.id, e2.reg = e.reg
          PROVE  b2 = b /\ e2 = e
      <4>1. CASE b2 = c
        BY <1>0, <2>1, <3>1, <3>5, <4>1
      <4>2. CASE b2 # c
        <5>1. e2 \in todo[b2] /\ e2.reg # 0
          BY <1>0, <3>5, <4>2
        <5> QED
          BY <3>2, <3>5, <5>1 DEF NotTwice
      <4> QED
        BY <4>1, <4>2
    <3> QED
      BY <3>3, <3>4, <3>5
  <2>2. CASE b # c
    <3>1. e \in todo[b]
      BY <1>0, <2>2
    <3>2. ~Waiting(<<e.id, e.reg>>) /\ ~Delivered(<<e.id, e.reg>>)
      BY <3>1 DEF NotTwice
    <3>3. ~Waiting(<<e.id, e.reg>>)'
      BY <1>0, <1>a, <2>0, <3>2 DEF Waiting
    <3>4. ASSUME NEW b2 \in Thread, NEW e2 \in todo'[b2], e2.id = e.id, e2.reg = e.reg
          PROVE  b2 = b /\ e2 = e
      <4>1. CASE b2 = c
        <5>1. e2 \in E /\ Registered(e2.id) /\ e2.reg = reg[e2.id]
          BY <1>0, <3>4, <4>1
        <5>2. Waiting(<<e.id, e.reg>>)
          BY <1>0, <3>4, <5>1 DEF Waiting
        <5> QED
          BY <3>2, <5>2
      <4>2. CASE b2 # c
        <5>1. e2 \in todo[b2]
          BY <1>0, <3>4, <4>2
        <5> QED
          BY <3>1, <3>4, <5>1 DEF NotTwice
      <4> QED
        BY <4>1, <4>2
    <3> QED
      BY <3>2, <3>3, <3>4
  <2> QED
    BY <2>1, <2>2
<1>4. IdleOwesNothing'
  BY <1>0 DEF IdleOwesNothing
<1>5. OnlyKnown'
  <2>1. \A b \in Thread : \A e \in todo'[b] : e.reg <= reg[e.id]
    BY <1>0 DEF OnlyKnown, TypeOK, Event
  <2> QED
    BY <1>0, <1>a, <2>1 DEF OnlyKnown, Delivered
<1>6. WaitingIsOpen'
  BY <1>0, <1>a DEF WaitingIsOpen, Waiting, Delivered
<1>7. MuxIsCloser'
  BY <1>0, FreeAssumption DEF MuxIsCloser
<1>8. CloserOwes'
  BY <1>0, FreeAssumption DEF CloserOwes
<1>9. ClosedIsEmpty'
  BY DEF ClosedIsEmpty
<1> QED
  BY <1>1, <1>2, <1>3, <1>4, <1>5, <1>6, <1>7, <1>8, <1>9

(* EventsFor makes exactly one event for each id, about its registration.  *)
LEMMA EventsForFacts ==
  ASSUME reg \in [ID -> Nat], NEW S \in SUBSET ID, NEW err \in Err,
         NEW E, E = EventsFor(S, err)
  PROVE  /\ E \in SUBSET Event
         /\ \A e \in E : e.id \in S /\ e.reg = reg[e.id]
         /\ \A id \in S : \E e \in E : e.id = id /\ e.reg = reg[id]
         /\ \A e1, e2 \in E : e1.id = e2.id => e1 = e2
<1> DEFINE ev(id) == [id |-> id, reg |-> reg[id], err |-> err]
<1>1. \A e : e \in E <=> \E id \in S : e = ev(id)
  BY DEF EventsFor
<1>2. \A id \in S : ev(id) \in Event /\ ev(id).id = id /\ ev(id).reg = reg[id]
  BY DEF Event
<1> HIDE DEF ev
<1> QED
  BY <1>1, <1>2

(* Stop, Process and Collect are instances of RemoveIInv.                  *)
LEMMA EndIInv ==
  ASSUME IInv, NEW c \in Thread,
         \/ \E id \in ID : StopWithError(c, id) \/ Process(c, id)
         \/ \E g \in 0 .. clock : Collect(c, g)
  PROVE  IInv'
<1>0. reg \in [ID -> Nat]
  BY RegNat DEF IInv
<1>1. ASSUME NEW S \in SUBSET ID, NEW err \in Err, \A id \in S : Registered(id),
             AgentRemove(S), Owe(c, "emit", EventsFor(S, err))
      PROVE  IInv'
  <2>1. PICK E : E = EventsFor(S, err)
    OBVIOUS
  <2>2. /\ E \in SUBSET Event
        /\ \A e \in E : e.id \in S /\ e.reg = reg[e.id]
        /\ \A id \in S : \E e \in E : e.id = id /\ e.reg = reg[id]
        /\ \A e1, e2 \in E : e1.id = e2.id => e1 = e2
    BY <1>0, <2>1, EventsForFacts
  <2>3. Owe(c, "emit", E)
    BY <1>1, <2>1
  <2>4. \A e \in E : e.reg = 0 \/ (e.id \in S /\ Registered(e.id) /\ e.reg = reg[e.id])
    BY <1>1, <2>2
  <2>5. \A id \in ID : id \in S /\ Registered(id)
                       => \E e \in E : e.id = id /\ e.reg = reg[id]
    BY <2>2
  <2> QED
    BY <1>1, <2>2, <2>3, <2>4, <2>5, RemoveIInv
<1>2. ASSUME NEW id \in ID, StopWithError(c, id)
      PROVE  IInv'
  BY <1>1, <1>2 DEF StopWithError, Err
<1>3. ASSUME NEW id \in ID, Process(c, id), Registered(id)
      PROVE  IInv'
  BY <1>1, <1>3 DEF Process, Err
<1>4. ASSUME NEW id \in ID, Process(c, id), ~Registered(id)
      PROVE  IInv'
  <2>1. PICK E : E = {[id |-> id, reg |-> 0, err |-> "nil"]}
    OBVIOUS
  <2>2. E \in SUBSET Event
    BY <2>1 DEF Event, Err
  <2>3. AgentRemove({id}) /\ Owe(c, "emit", E)
    BY <1>4, <2>1 DEF Process
  <2>4. /\ \A e \in E : e.reg = 0 \/ (e.id \in {id} /\ Registered(e.id) /\ e.reg = reg[e.id])
        /\ \A e1, e2 \in E : e1.id = e2.id => e1 = e2
    BY <2>1
  <2>5. \A i \in ID : i \in {id} /\ Registered(i)
                      => \E e \in E : e.id = i /\ e.reg = reg[i]
    BY <1>4
  <2> QED
    BY <2>2, <2>3, <2>4, <2>5, RemoveIInv
<1>5. ASSUME NEW g \in 0 .. clock, Collect(c, g)
      PROVE  IInv'
  <2>1. PICK S : S = Expired(g)
    OBVIOUS
  <2>2. S \in SUBSET ID /\ \A id \in S : Registered(id)
    BY <2>1 DEF Expired
  <2>3. AgentRemove(S) /\ Owe(c, "emit", EventsFor(S, "timeout"))
    BY <1>5, <2>1 DEF Collect
  <2> QED
    BY <1>1, <2>2, <2>3 DEF Err
<1> QED
  BY <1>2, <1>3, <1>4, <1>5

(* Close takes mux and owes an event for everything that is registered.    *)
LEMMA CloseIInv ==
  ASSUME IInv, NEW c \in Thread, Close(c)
  PROVE  IInv'
<1> USE DEF IInv
<1>r. PICK R : R = {id \in ID : Registered(id)}
  OBVIOUS
<1>e. PICK E : E = EventsFor(R, "closed")
  OBVIOUS
<1>0. /\ todo \in [Thread -> SUBSET Event] /\ todo' = [todo EXCEPT ![c] = E]
      /\ todo[c] = {}
      /\ pc \in [Thread -> {"idle", "emit", "closing"}]
      /\ pc' = [pc EXCEPT ![c] = "closing"]
      /\ agentMux = Free /\ agentMux' = c
      /\ reg \in [ID -> Nat]
      /\ UNCHANGED <<transactions, agentClosed, reg, calls>>
  BY <1>e, <1>r, RegNat DEF Close, AgentCloseLock, AgentOpen, Owe,
     TypeOK, AgentTypeOK, IdleOwesNothing
<1>b. R \in SUBSET ID /\ \A id \in ID : id \in R <=> Registered(id)
  BY <1>r
<1>a. /\ E \in SUBSET Event
      /\ \A e \in E : e.id \in R /\ e.reg = reg[e.id]
      /\ \A id \in R : \E e \in E : e.id = id /\ e.reg = reg[id]
      /\ \A e1, e2 \in E : e1.id = e2.id => e1 = e2
  BY <1>0, <1>b, <1>e, EventsForFacts DEF Err
<1>c. ASSUME NEW id \in ID, Registered(id)
      PROVE  Owes(c, <<id, reg[id]>>)'
  <2>1. PICK e \in E : e.id = id /\ e.reg = reg[id]
    BY <1>a, <1>b, <1>c
  <2>2. e \in todo'[c]
    BY <1>0
  <2> QED
    BY <1>0, <2>1, <2>2 DEF Owes
<1>d. \A r : ~Waiting(r)'
  BY <1>0, FreeAssumption DEF Waiting
<1>1. TypeOK'
  BY <1>0, <1>a DEF Close, AgentCloseLock, AgentOpen, Owe,
     TypeOK, AgentTypeOK, ClosedIsEmpty
<1>2. NotLost'
  <2> SUFFICES ASSUME NEW i \in ID, NEW n \in 1 .. reg[i]
               PROVE  \/ Delivered(<<i, n>>)
                      \/ \E b \in Thread : Owes(b, <<i, n>>)'
    BY <1>0 DEF NotLost, Delivered
  <2>1. CASE Waiting(<<i, n>>)
    <3>1. Registered(i) /\ n = reg[i] /\ n = reg'[i]
      BY <1>0, <2>1 DEF Waiting
    <3> QED
      BY <1>c, <3>1
  <2>2. CASE \E b \in Thread : Owes(b, <<i, n>>)
    BY <1>0, <2>2 DEF Owes
  <2> QED
    BY <2>1, <2>2 DEF NotLost
<1>3. NotTwice'
  <2> SUFFICES ASSUME NEW b \in Thread, NEW e \in todo'[b], e.reg # 0
               PROVE  /\ ~Delivered(<<e.id, e.reg>>)
                      /\ \A b2 \in Thread : \A e2 \in todo'[b2] :
                           e2.id = e.id /\ e2.reg = e.reg => b2 = b /\ e2 = e
    BY <1>0, <1>d DEF NotTwice, Delivered
  <2>0. ASSUME NEW b2 \in Thread, NEW e2 \in todo'[b2], e2.reg # 0
        PROVE  /\ e2 \in Event /\ e2.id \in ID
               /\ b2 = c => e2 \in E /\ Waiting(<<e2.id, e2.reg>>) /\ e2.reg = reg[e2.id]
               /\ b2 # c => e2 \in todo[b2] /\ ~Waiting(<<e2.id, e2.reg>>)
    <3>1. CASE b2 = c
      <4>1. e2 \in E /\ e2 \in Event
        BY <1>0, <1>a, <3>1
      <4> QED
        BY <1>0, <1>a, <1>b, <3>1, <4>1 DEF Waiting, Event
    <3>2. CASE b2 # c
      <4>1. e2 \in todo[b2] /\ e2 \in Event
        BY <1>0, <3>2
      <4> QED
        BY <2>0, <3>2, <4>1 DEF NotTwice, Event
    <3> QED
      BY <3>1, <3>2
  <2>1. ~Delivered(<<e.id, e.reg>>)
    BY <2>0 DEF NotTwice, WaitingIsOpen
  <2>2. ASSUME NEW b2 \in Thread, NEW e2 \in todo'[b2], e2.id = e.id, e2.reg = e.reg
        PROVE  b2 = b /\ e2 = e
    <3>1. e2.reg # 0
      BY <2>2
    <3>2. (b = c) <=> (b2 = c)
      BY <2>0, <2>2, <3>1
    <3>3. CASE b = c
      BY <1>a, <2>0, <2>2, <3>1, <3>2, <3>3
    <3>4. CASE b # c
      <4>1. e \in todo[b] /\ e2 \in todo[b2]
        BY <2>0, <3>1, <3>2, <3>4
      <4> QED
        BY <2>2, <4>1 DEF NotTwice
    <3> QED
      BY <3>3, <3>4
  <2> QED
    BY <2>1, <2>2
<1>4. IdleOwesNothing'
  BY <1>0 DEF IdleOwesNothing
<1>5. OnlyKnown'
  <2>1. \A b \in Thread : \A e \in todo'[b] : e.reg <= reg[e.id]
    BY <1>0, <1>a DEF OnlyKnown, Event
  <2> QED
    BY <1>0, <2>1 DEF OnlyKnown, Registered, Delivered
<1>6. WaitingIsOpen'
  BY <1>d DEF WaitingIsOpen
<1>7. MuxIsCloser'
  BY <1>0, FreeAssumption DEF MuxIsCloser
<1>8. CloserOwes'
  BY <1>0, <1>c DEF CloserOwes, Registered
<1>9. ClosedIsEmpty'
  BY DEF ClosedIsEmpty, Close, AgentCloseLock, AgentOpen, Owe
<1> QED
  BY <1>1, <1>2, <1>3, <1>4, <1>5, <1>6, <1>7, <1>8, <1>9

(* Close drops the table only after it has made all its handler calls.     *)
LEMMA CloseDoneIInv ==
  ASSUME IInv, NEW c \in Thread, CloseDone(c)
  PROVE  IInv'
<1> USE DEF IInv
<1>0. /\ agentMux = c /\ agentMux # Free /\ agentMux' = Free
      /\ pc \in [Thread -> {"idle", "emit", "closing"}]
      /\ pc' = [pc EXCEPT ![c] = "idle"] /\ todo[c] = {}
      /\ transactions' = [id \in ID |-> Absent]
      /\ agentClosed' = TRUE /\ handler' = NilHandler
      /\ UNCHANGED <<clock, h, todo, reg, calls>>
  BY FreeAssumption DEF CloseDone, AgentCloseUnlock, TypeOK
<1>a. \A id \in ID : ~Registered(id)'
  BY <1>0 DEF Registered
<1>b. \A id \in ID, n \in Nat : ~Waiting(<<id, n>>)'
  BY <1>a DEF Waiting
<1>1. TypeOK'
  BY <1>0 DEF TypeOK, AgentTypeOK
<1>2. NotLost'
  <2> SUFFICES ASSUME NEW i \in ID, NEW n \in 1 .. reg[i]
               PROVE  \/ Delivered(<<i, n>>)
                      \/ \E b \in Thread : Owes(b, <<i, n>>)'
    BY <1>0 DEF NotLost, Delivered
  <2>1. Delivered(<<i, n>>) \/ \E b \in Thread : Owes(b, <<i, n>>)
    BY <1>0 DEF NotLost, Waiting
  <2> QED
    BY <1>0, <2>1 DEF Owes
<1>3. NotTwice'
  <2>1. \A b \in Thread : \A e \in todo[b] : e.id \in ID /\ e.reg \in Nat
    BY DEF TypeOK, Event
  <2> QED
    BY <1>0, <1>b, <2>1 DEF NotTwice, Delivered
<1>4. IdleOwesNothing' /\ OnlyKnown' /\ WaitingIsOpen'
  BY <1>0, <1>a DEF IdleOwesNothing, OnlyKnown, WaitingIsOpen, Waiting, Delivered
<1>5. MuxIsCloser' /\ CloserOwes'
  BY <1>0, FreeAssumption DEF MuxIsCloser, CloserOwes
<1>6. ClosedIsEmpty'
  BY <1>0, <1>a DEF ClosedIsEmpty
<1> QED
  BY <1>1, <1>2, <1>3, <1>4, <1>5, <1>6

(* A handler call moves one registration from owed to delivered.           *)
LEMMA EmitIInv ==
  ASSUME IInv, NEW c \in Thread, Emit(c)
  PROVE  IInv'
<1> USE DEF IInv
<1>0. PICK e \in todo[c] :
        /\ todo' = [todo EXCEPT ![c] = @ \ {e}]
        /\ calls' = Count(<<e.id, e.reg>>)
        /\ UNCHANGED <<agentVars, handler, clock, pc, h, reg>>
  BY DEF Emit
<1>a. /\ todo \in [Thread -> SUBSET Event] /\ reg \in [ID -> Nat]
      /\ calls \in [Registration -> Nat]
      /\ e \in Event /\ e.id \in ID /\ e.reg \in Nat
      /\ UNCHANGED <<transactions, agentClosed, agentMux, reg>>
  BY <1>0, RegNat DEF TypeOK, Event, agentVars
<1>b. /\ calls' \in [Registration -> Nat]
      /\ \A r \in Registration : Delivered(r)' <=> Delivered(r) \/ r = <<e.id, e.reg>>
  BY <1>0, <1>a DEF Count, Delivered
<1>k. /\ \A b \in Thread : \A f \in todo[b] :
           f.reg # 0 => <<f.id, f.reg>> \in Registration
      /\ \A i \in ID : \A n \in 1 .. reg[i] : <<i, n>> \in Registration
  BY BoundAssumption DEF OnlyKnown, TypeOK, Event, Registration
<1>c. \A b \in Thread : todo'[b] \subseteq todo[b]
  BY <1>0, <1>a
<1>d. \A r : Waiting(r)' <=> Waiting(r)
  BY <1>a DEF Waiting, Registered
<1>1. TypeOK'
  BY <1>0, <1>a, <1>b DEF TypeOK, AgentTypeOK, agentVars
<1>2. NotLost'
  <2> SUFFICES ASSUME NEW i \in ID, NEW n \in 1 .. reg[i]
               PROVE  \/ Waiting(<<i, n>>)
                      \/ Delivered(<<i, n>>)'
                      \/ \E b \in Thread : Owes(b, <<i, n>>)'
    BY <1>a, <1>d DEF NotLost
  <2>1. CASE \E b \in Thread : Owes(b, <<i, n>>)
    <3>0. PICK b \in Thread : Owes(b, <<i, n>>)
      BY <2>1
    <3>1. PICK f \in todo[b] : f.id = i /\ f.reg = n
      BY <3>0 DEF Owes
    <3>2. CASE f = e
      BY <1>a, <1>b, <1>k, <3>1, <3>2
    <3>3. CASE f # e
      <4>1. f \in todo'[b]
        BY <1>0, <1>a, <3>3
      <4> QED
        BY <3>1, <4>1 DEF Owes
    <3> QED
      BY <3>2, <3>3
  <2> QED
    BY <1>b, <1>k, <2>1 DEF NotLost
<1>3. NotTwice'
  <2> SUFFICES ASSUME NEW b \in Thread, NEW f \in todo'[b], f.reg # 0
               PROVE  ~Delivered(<<f.id, f.reg>>)'
    BY <1>c, <1>d DEF NotTwice
  <2>1. f \in todo[b] /\ ~Delivered(<<f.id, f.reg>>)
    BY <1>c DEF NotTwice
  <2>2. CASE <<f.id, f.reg>> = <<e.id, e.reg>>
    <3>1. f.id = e.id /\ f.reg = e.reg
      BY <2>2
    <3>2. b = c /\ f = e
      BY <1>0, <2>1, <3>1 DEF NotTwice
    <3> QED
      BY <1>0, <1>a, <3>2
  <2> QED
    BY <1>b, <1>k, <2>1, <2>2
<1>4. IdleOwesNothing'
  BY <1>0, <1>a DEF IdleOwesNothing
<1>5. OnlyKnown'
  <2>1. e.reg <= reg[e.id]
    BY <1>0 DEF OnlyKnown
  <2>2. \A r \in Registration : Delivered(r)' => r[2] <= reg[r[1]]
    BY <1>a, <1>b, <2>1 DEF OnlyKnown
  <2> QED
    BY <1>a, <1>c, <2>2 DEF OnlyKnown, Registered
<1>6. WaitingIsOpen'
  <2>1. e.reg # 0 => ~Waiting(<<e.id, e.reg>>)
    BY <1>0 DEF NotTwice
  <2> SUFFICES ASSUME NEW i \in ID, Waiting(<<i, reg[i]>>)
               PROVE  ~Delivered(<<i, reg[i]>>)'
    BY <1>a, <1>d DEF WaitingIsOpen
  <2>2. <<i, reg[i]>> \in Registration
    BY <1>a, <1>k DEF Waiting, OnlyKnown
  <2>3. <<i, reg[i]>> # <<e.id, e.reg>>
    BY <1>a, <2>1 DEF Waiting, OnlyKnown
  <2> QED
    BY <1>a, <1>b, <2>2, <2>3 DEF WaitingIsOpen, Delivered
<1>7. MuxIsCloser'
  BY <1>0, <1>a DEF MuxIsCloser
<1>8. CloserOwes'
  <2> SUFFICES ASSUME NEW b \in Thread, agentMux = b, NEW i \in ID, Registered(i)
               PROVE  Delivered(<<i, reg[i]>>)' \/ \E f \in todo'[b] : f.id = i /\ f.reg = reg[i]
    BY <1>a DEF CloserOwes, Owes, Registered, Delivered
  <2>0. <<i, reg[i]>> \in Registration
    BY <1>a, <1>k DEF OnlyKnown
  <2>1. CASE \E f \in todo[b] : f.id = i /\ f.reg = reg[i]
    <3>1. PICK f \in todo[b] : f.id = i /\ f.reg = reg[i]
      BY <2>1
    <3>2. f.reg # 0
      BY <1>a, <3>1 DEF OnlyKnown
    <3> QED
      BY <1>0, <1>a, <1>b, <2>0, <3>1, <3>2
  <2>2. CASE Delivered(<<i, reg[i]>>)
    BY <1>a, <1>b, <2>0, <2>2 DEF Delivered
  <2> QED
    BY <2>1, <2>2 DEF CloserOwes, Owes
<1>9. ClosedIsEmpty'
  BY <1>0, <1>a DEF ClosedIsEmpty, Registered
<1> QED
  BY <1>1, <1>2, <1>3, <1>4, <1>5, <1>6, <1>7, <1>8, <1>9

(* Every step of the agent preserves the invariant.                        *)
LEMMA NextIInv == IInv /\ [Next]_vars => IInv'
<1> SUFFICES ASSUME IInv, [Next]_vars PROVE IInv'
  OBVIOUS
<1>1. ASSUME NEW id \in ID, NEW d \in Deadline, Start(id, d) PROVE IInv'
  BY <1>1, StartIInv
<1>2. ASSUME NEW c \in Thread, NEW id \in ID, StopWithError(c, id) \/ Process(c, id)
      PROVE  IInv'
  BY <1>2, EndIInv
<1>3. ASSUME NEW c \in Thread, NEW g \in 0 .. clock, Collect(c, g) PROVE IInv'
  BY <1>3, EndIInv
<1>4. ASSUME NEW c \in Thread, Close(c) PROVE IInv'
  BY <1>4, CloseIInv
<1>5. ASSUME NEW c \in Thread, CloseDone(c) PROVE IInv'
  BY <1>5, CloseDoneIInv
<1>6. ASSUME NEW c \in Thread, Emit(c) PROVE IInv'
  BY <1>6, EmitIInv
<1>7. ASSUME UNCHANGED <<agentVars, todo, reg, calls>>,
             TypeOK', IdleOwesNothing', MuxIsCloser', ClosedIsEmpty'
      PROVE  IInv'
  <2>1. UNCHANGED <<transactions, agentMux, todo, reg, calls>>
    BY <1>7 DEF agentVars
  <2>2. NotLost' /\ NotTwice'
    BY <2>1 DEF IInv, NotLost, NotTwice, Waiting, Owes, Registered, Delivered
  <2>3. OnlyKnown' /\ WaitingIsOpen' /\ CloserOwes'
    BY <2>1 DEF IInv, OnlyKnown, WaitingIsOpen, CloserOwes, Waiting, Owes, Registered, Delivered
  <2> QED
    BY <1>7, <2>2, <2>3 DEF IInv
<1> USE DEF IInv, TypeOK, AgentTypeOK, agentVars, IdleOwesNothing, MuxIsCloser,
            ClosedIsEmpty, Registered
<1>8. ASSUME NEW c \in Thread, Return(c) PROVE IInv'
  BY <1>7, <1>8 DEF Return
<1>9. ASSUME NEW hn \in Handler, SetHandler(hn) PROVE IInv'
  BY <1>7, <1>9, HandlerAssumption DEF SetHandler, AgentOpen
<1>10. ASSUME Tick PROVE IInv'
  BY <1>7, <1>10 DEF Tick
<1>11. ASSUME UNCHANGED vars PROVE IInv'
  BY <1>7, <1>11 DEF vars
<1> QED
  BY <1>1, <1>2, <1>3, <1>4, <1>5, <1>6, <1>8, <1>9, <1>10, <1>11 DEF Next

(* IInv is an invariant of the agent.                                      *)
THEOREM Invariance == Spec => []IInv
BY InitIInv, NextIInv, PTL DEF Spec

(* No method of the agent leaves its state malformed or calls the nil      *)
(* handler of a closed agent, whatever its callers interleave.             *)
THEOREM TypeCorrect == Spec => []TypeOK
<1>1. IInv => TypeOK
  BY DEF IInv
<1> QED
  BY <1>1, Invariance, PTL

(* Agent loses no registration: Start does not overwrite one, and what     *)
(* Stop, Process, Collect or Close takes off the table it also ends.       *)
THEOREM NothingLost == Spec => []NotLost
<1>1. IInv => NotLost
  BY DEF IInv
<1> QED
  BY <1>1, Invariance, PTL

(* Of concurrent Stop, Process, Collect and Close calls at most one makes  *)
(* the handler call for a registration.                                    *)
THEOREM EndedOnce == Spec => []NotTwice
<1>1. IInv => NotTwice
  BY DEF IInv
<1> QED
  BY <1>1, Invariance, PTL

(* Collect never ends a transaction before its deadline.                   *)
THEOREM TimeoutsAreDue == Spec => TimeoutOnlyWhenDue
<1> DEFINE Due == \A c \in Thread : \A e \in todo'[c] \ todo[c] :
                    e.err = "timeout" => Registered(e.id) /\ transactions[e.id] < clock
<1>1. ASSUME IInv, [Next]_vars PROVE Due \/ UNCHANGED vars
  <2> SUFFICES ASSUME Next, NEW b \in Thread, NEW e \in todo'[b] \ todo[b], e.err = "timeout"
               PROVE  Registered(e.id) /\ transactions[e.id] < clock
    BY <1>1
  <2>0. todo \in [Thread -> SUBSET Event] /\ transactions \in [ID -> Deadline \cup {Absent}]
        /\ clock \in Nat
    BY <1>1 DEF IInv, TypeOK, AgentTypeOK
  <2>1. ASSUME NEW c \in Thread, NEW S, NEW err, err # "timeout",
               todo' = [todo EXCEPT ![c] = EventsFor(S, err)]
        PROVE  FALSE
    BY <2>0, <2>1 DEF EventsFor
  <2>2. ASSUME NEW c \in Thread, NEW id \in ID, StopWithError(c, id) PROVE FALSE
    BY <2>1, <2>2 DEF StopWithError, Owe
  <2>3. ASSUME NEW c \in Thread, NEW id \in ID, Process(c, id) PROVE FALSE
    <3>1. CASE Registered(id)
      BY <2>1, <2>3, <3>1 DEF Process, Owe
    <3>2. CASE ~Registered(id)
      BY <2>0, <2>3, <3>2 DEF Process, Owe
    <3> QED
      BY <3>1, <3>2
  <2>4. ASSUME NEW c \in Thread, Close(c) PROVE FALSE
    BY <2>1, <2>4 DEF Close, Owe
  <2>5. ASSUME NEW c \in Thread, NEW g \in 0 .. clock, Collect(c, g)
        PROVE  Registered(e.id) /\ transactions[e.id] < clock
    <3>1. e.id \in Expired(g)
      BY <2>0, <2>5 DEF Collect, Owe, EventsFor
    <3>2. Registered(e.id) /\ transactions[e.id] < g /\ e.id \in ID
      BY <3>1 DEF Expired
    <3>3. transactions[e.id] \in Nat
      BY <2>0, <3>2, DeadlineAssumption DEF Registered
    <3> QED
      BY <2>0, <3>2, <3>3
  <2>6. CASE UNCHANGED todo
    BY <2>6
  <2>7. ASSUME NEW c \in Thread, Emit(c) PROVE FALSE
    BY <2>0, <2>7 DEF Emit
  <2> QED
    BY <2>2, <2>3, <2>4, <2>5, <2>6, <2>7
    DEF Next, Start, SetHandler, CloseDone, Return, Tick
<1> QED
  BY <1>1, Invariance, PTL DEF Spec, TimeoutOnlyWhenDue
-----------------------------------------------------------------------------
StatusBar == [r \in Registration |-> RegStatus(r)]

(* A step that keeps the history leaves the ledger's status alone.         *)
LEMMA StatusStutter ==
  ASSUME UNCHANGED <<reg, calls>>
  PROVE  UNCHANGED StatusBar
BY DEF StatusBar, RegStatus

(* Start opens the registration it makes.                                  *)
LEMMA StartOpens ==
  ASSUME IInv, NEW id \in ID, NEW d \in Deadline, Start(id, d)
  PROVE  \E r \in Registration : RegLedger!Open(r)
<1>n. PICK n : n = reg[id] + 1
  OBVIOUS
<1> DEFINE new == <<id, n>>
<1>0. /\ reg \in [ID -> Nat] /\ reg[id] < MaxReg
      /\ reg' = [reg EXCEPT ![id] = @ + 1]
      /\ UNCHANGED <<calls, agentClosed>> /\ ~agentClosed
  BY RegNat DEF IInv, Start, AgentStartOK, AgentOpen
<1>1. new \in Registration
  BY <1>0, <1>n, BoundAssumption DEF Registration
<1>2. \A r \in Registration : r[1] \in ID /\ r[2] \in Nat /\ r = <<r[1], r[2]>>
  BY DEF Registration
<1>c. calls[new] = 0
  <2>1. ~Delivered(new)
    BY <1>0, <1>1, <1>n DEF IInv, OnlyKnown
  <2> QED
    BY <1>1, <2>1 DEF IInv, TypeOK, Delivered
<1>3. RegStatus(new) = "idle"
  BY <1>0, <1>c, <1>n DEF RegStatus
<1>4. RegStatus(new)' = "open"
  BY <1>0, <1>c, <1>n DEF RegStatus
<1>5. ASSUME NEW r \in Registration, r # new PROVE RegStatus(r)' = RegStatus(r)
  <2>1. r[2] > reg[r[1]] <=> r[2] > reg'[r[1]]
    BY <1>0, <1>2, <1>5, <1>n
  <2> QED
    BY <1>0, <2>1 DEF RegStatus
<1>6. RegLedger!Open(new)
  BY <1>0, <1>1, <1>3, <1>4, <1>5 DEF RegLedger!Open, RegLedger!Move, Registration
<1> QED
  BY <1>1, <1>6

(* A handler call settles the registration it is about.                    *)
LEMMA EmitSettles ==
  ASSUME IInv, NEW c \in Thread, Emit(c)
  PROVE  (\E r \in Registration : RegLedger!Settle(r)) \/ UNCHANGED StatusBar
<1>0. PICK e \in todo[c] :
        /\ calls' = Count(<<e.id, e.reg>>)
        /\ UNCHANGED <<agentVars, reg>>
  BY DEF Emit
<1> DEFINE done == <<e.id, e.reg>>
<1>1. /\ e.id \in ID /\ e.reg \in Nat /\ e.reg <= reg[e.id]
      /\ reg[e.id] \in 0 .. MaxReg
  BY <1>0 DEF IInv, TypeOK, Event, OnlyKnown
<1>2. CASE e.reg = 0
  <2>1. UNCHANGED <<reg, calls>>
    BY <1>0, <1>1, <1>2 DEF IInv, TypeOK, Count, Registration
  <2> QED
    BY <2>1, StatusStutter
<1>3. CASE e.reg # 0
  <2>1. done \in Registration /\ ~Delivered(done)
    BY <1>0, <1>1, <1>3, BoundAssumption DEF Registration, IInv, NotTwice
  <2>2. calls' = Count(done) /\ UNCHANGED reg /\ UNCHANGED agentClosed
    BY <1>0, <1>1, <1>3 DEF agentVars
  <2>3. RegStatus(done) = "open" /\ RegStatus(done)' = "settled"
    BY <1>1, <2>1, <2>2 DEF RegStatus, Count, Delivered, IInv, TypeOK
  <2>4. \A r \in Registration : r # done => RegStatus(r)' = RegStatus(r)
    BY <2>2 DEF RegStatus, Count
  <2>5. RegLedger!Settle(done)
    BY <2>1, <2>2, <2>3, <2>4 DEF RegLedger!Settle, RegLedger!Move, Registration
  <2> QED
    BY <2>1, <2>5
<1> QED
  BY <1>2, <1>3

(* Agent implements the ledger: a registration is opened only while the    *)
(* agent is not closed, and settled by one handler call, once.             *)
THEOREM Refinement == Spec => ImplementsLedger
<1>1. Init => RegLedger!LedgerInit
  BY DEF Init, AgentInit, RegLedger!LedgerInit, RegStatus, Registration
<1>2. ASSUME IInv, [Next]_vars
      PROVE  [RegLedger!LedgerNext]_(RegLedger!ledgerVars)
  <2>1. ASSUME NEW id \in ID, NEW d \in Deadline, Start(id, d)
        PROVE  RegLedger!LedgerNext
    BY <1>2, <2>1, StartOpens DEF RegLedger!LedgerNext, Registration
  <2>2. ASSUME NEW c \in Thread, Emit(c)
        PROVE  RegLedger!LedgerNext \/ UNCHANGED RegLedger!ledgerVars
    <3>1. UNCHANGED agentClosed
      BY <2>2 DEF Emit, agentVars
    <3> QED
      BY <1>2, <2>2, <3>1, EmitSettles
      DEF RegLedger!LedgerNext, RegLedger!ledgerVars, Registration, StatusBar
  <2>3. ASSUME NEW c \in Thread, CloseDone(c)
        PROVE  RegLedger!LedgerNext
    <3>1. ~agentClosed /\ agentClosed' = TRUE /\ UNCHANGED <<reg, calls>>
      BY <1>2, <2>3, FreeAssumption
      DEF IInv, ClosedIsEmpty, CloseDone, AgentCloseUnlock
    <3> QED
      BY <3>1, StatusStutter DEF RegLedger!LedgerNext, RegLedger!Shut, Registration, StatusBar
  <2>4. CASE UNCHANGED <<reg, calls, agentClosed>>
    BY <2>4, StatusStutter DEF RegLedger!ledgerVars, Registration, StatusBar
  <2> QED
    BY <1>2, <2>1, <2>2, <2>3, <2>4
    DEF Next, vars, StopWithError, Process, Collect, SetHandler, Close, Return, Tick,
        AgentRemove, AgentCloseLock, Owe, agentVars
<1> QED
  BY <1>1, <1>2, Invariance, PTL DEF Spec, ImplementsLedger, RegLedger!LedgerSpec
=============================================================================
