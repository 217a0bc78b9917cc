------------------------------- MODULE Agent --------------------------------
(***************************************************************************)
(* stun.Agent (agent.go) under arbitrary concurrent callers.               *)
(*                                                                         *)
(* A caller that ends transactions (StopWithError, Process, Collect, Close)*)
(* first unregisters them and then calls the handler once for each event   *)
(* it owes; those calls are steps of their own, so other callers run       *)
(* between them.  Calls that return an error change nothing, and are the   *)
(* steps in which the guard of the action below is false.                  *)
(*                                                                         *)
(* reg and calls record history: registration n of id is the pair          *)
(* <<id, n>>, and calls counts the handler calls made for it.              *)
(***************************************************************************)
EXTENDS AgentCore, Naturals

CONSTANTS Handler,                \* the handlers SetHandler may install
          NilHandler,             \* a nil Handler
          MaxClock,               \* bound: the clock stops here
          MaxReg                  \* bound: registrations of one id

ASSUME BoundAssumption == MaxClock \in Nat /\ MaxReg \in Nat
ASSUME HandlerAssumption == NilHandler \notin Handler
ASSUME DeadlineAssumption == Deadline \subseteq Nat

VARIABLES handler,                \* Agent.handler
          clock,                  \* the time
          pc,                     \* pc[c]: what goroutine c is doing
          h,                      \* h[c]: the handler c read under mux
          todo,                   \* todo[c]: the events c still owes
          reg,                    \* reg[id]: registrations made so far
          calls                   \* calls[r]: handler calls for registration r

vars == <<transactions, agentClosed, agentMux, handler, clock, pc, h, todo,
          reg, calls>>

Err == {"nil", "stopped", "timeout", "closed"}
Event == [id : ID, reg : Nat, err : Err]
Registration == ID \X (1 .. MaxReg)

(* The shape of the state.  The fourth line from the end is more than a    *)
(* type: no method ever calls the nil handler that Close leaves behind.    *)
TypeOK == /\ AgentTypeOK
          /\ handler \in Handler \cup {NilHandler}
          /\ clock \in Nat
          /\ pc \in [Thread -> {"idle", "emit", "closing"}]
          /\ h \in [Thread -> Handler \cup {NilHandler}]
          /\ \A c \in Thread : pc[c] # "idle" => h[c] # NilHandler
          /\ todo \in [Thread -> SUBSET Event]
          /\ reg \in [ID -> 0 .. MaxReg]
          /\ calls \in [Registration -> Nat]

Init == /\ AgentInit
        /\ handler \in Handler
        /\ clock = 0
        /\ pc = [c \in Thread |-> "idle"]
        /\ h = [c \in Thread |-> NilHandler]
        /\ todo = [c \in Thread |-> {}]
        /\ reg = [id \in ID |-> 0]
        /\ calls = [r \in Registration |-> 0]
-----------------------------------------------------------------------------
(* Close that renders the agent closed without calling the handler.        *)
Close_Silent(c) ==
  /\ AgentCloseLock(c)
  /\ pc[c] = "idle"
  /\ pc' = [pc EXCEPT ![c] = "closing"]
  /\ h' = [h EXCEPT ![c] = handler]
  /\ UNCHANGED <<handler, clock, todo, reg, calls>>

(* Collect that takes the deadline itself for expired.                     *)
Expired_AtDeadline(g) == {id \in ID : Registered(id) /\ transactions[id] <= g}

(* The events by which the registered ids of S end with error e.           *)
EventsFor(S, e) == {[id |-> id, reg |-> reg[id], err |-> e] : id \in S}

(* Transactions with deadline before g.                                    *)
Expired(g) == {id \in ID : Registered(id) /\ transactions[id] < g}

(* c leaves its critical section owing the events E to the handler.        *)
Owe(c, at, E) ==
  /\ pc[c] = "idle"
  /\ pc' = [pc EXCEPT ![c] = at]
  /\ h' = [h EXCEPT ![c] = handler]
  /\ todo' = [todo EXCEPT ![c] = E]
  /\ UNCHANGED <<handler, clock, reg, calls>>

Start(id, d) ==
  /\ reg[id] < MaxReg
  /\ AgentStartOK(id, d)
  /\ reg' = [reg EXCEPT ![id] = @ + 1]
  /\ UNCHANGED <<handler, clock, pc, h, todo, calls>>

StopWithError(c, id) ==
  /\ Registered(id)
  /\ AgentRemove({id})
  /\ Owe(c, "emit", EventsFor({id}, "stopped"))

(* The message is passed on whether or not its id is registered.           *)
Process(c, id) ==
  /\ AgentRemove({id})
  /\ Owe(c, "emit", IF Registered(id)
                    THEN EventsFor({id}, "nil")
                    ELSE {[id |-> id, reg |-> 0, err |-> "nil"]})

(* Collect without its second loop, which deletes what has expired.        *)
Collect_Keeps(c, gcTime) ==
  /\ Expired(gcTime) # {}
  /\ AgentOpen /\ UNCHANGED agentVars
  /\ Owe(c, "emit", EventsFor(Expired(gcTime), "timeout"))

Collect(c, gcTime) ==
  /\ Expired(gcTime) # {}
  /\ AgentRemove(Expired(gcTime))
  /\ Owe(c, "emit", EventsFor(Expired(gcTime), "timeout"))

SetHandler(hn) ==
  /\ AgentOpen
  /\ handler' = hn
  /\ UNCHANGED <<agentVars, clock, pc, h, todo, reg, calls>>

Close(c) ==
  /\ AgentCloseLock(c)
  /\ Owe(c, "closing", EventsFor({id \in ID : Registered(id)}, "closed"))

CloseDone(c) ==
  /\ pc[c] = "closing" /\ todo[c] = {}
  /\ AgentCloseUnlock(c)
  /\ handler' = NilHandler
  /\ pc' = [pc EXCEPT ![c] = "idle"]
  /\ UNCHANGED <<clock, h, todo, reg, calls>>

(* One call of the handler.  Map iteration order is arbitrary.  A message  *)
(* whose id is not registered (reg = 0) is about no registration.          *)
Count(r) == [q \in Registration |-> IF q = r THEN calls[q] + 1 ELSE calls[q]]

Emit(c) ==
  /\ pc[c] \in {"emit", "closing"}
  /\ \E e \in todo[c] :
       /\ todo' = [todo EXCEPT ![c] = @ \ {e}]
       /\ calls' = Count(<<e.id, e.reg>>)
  /\ UNCHANGED <<agentVars, handler, clock, pc, h, reg>>

Return(c) ==
  /\ pc[c] = "emit" /\ todo[c] = {}
  /\ pc' = [pc EXCEPT ![c] = "idle"]
  /\ UNCHANGED <<agentVars, handler, clock, h, todo, reg, calls>>

Tick ==
  /\ clock < MaxClock
  /\ clock' = clock + 1
  /\ UNCHANGED <<agentVars, handler, pc, h, todo, reg, calls>>

Next ==
  \/ \E id \in ID, d \in Deadline : Start(id, d)
  \/ \E c \in Thread, id \in ID : StopWithError(c, id) \/ Process(c, id)
  \/ \E c \in Thread, g \in 0 .. clock : Collect(c, g)
  \/ \E hn \in Handler : SetHandler(hn)
  \/ \E c \in Thread : Close(c) \/ CloseDone(c) \/ Emit(c) \/ Return(c)
  \/ Tick

Spec == Init /\ [][Next]_vars
-----------------------------------------------------------------------------
(* Fairness.  A goroutine that entered a method keeps running, time passes,*)
(* and Collect is called again and again with the current time, as         *)
(* tickerCollector does at every tick.                                     *)
Fairness ==
  /\ WF_vars(Tick)
  /\ SF_vars(\E c \in Thread : Collect(c, clock))
  /\ \A c \in Thread : WF_vars(CloseDone(c) \/ Emit(c) \/ Return(c))

FairSpec == Spec /\ Fairness
-----------------------------------------------------------------------------
(* The handler was called for registration r.                              *)
Delivered(r) == calls[r] > 0

(* Goroutine c owes the handler call of registration r.                    *)
Owes(c, r) == \E e \in todo[c] : e.id = r[1] /\ e.reg = r[2]

(* Registration r is in the table and nobody is ending it.                 *)
Waiting(r) == agentMux = Free /\ Registered(r[1]) /\ reg[r[1]] = r[2]

(* No registration is lost: until its handler call is made it is in the    *)
(* table or some goroutine that removed it still owes the call.            *)
NotLost ==
  \A id \in ID : \A n \in 1 .. reg[id] :
    \/ Waiting(<<id, n>>)
    \/ Delivered(<<id, n>>)
    \/ \E c \in Thread : Owes(c, <<id, n>>)

(* No registration ends twice: of a Stop, a Process, a Collect and a Close *)
(* racing for it, exactly one unregisters it and owes its handler call,    *)
(* and nobody owes a call for a registration that already had one.         *)
NotTwice ==
  \A c \in Thread : \A e \in todo[c] :
    e.reg # 0 =>
      /\ ~Waiting(<<e.id, e.reg>>)
      /\ ~Delivered(<<e.id, e.reg>>)
      /\ \A c2 \in Thread : \A e2 \in todo[c2] :
           e2.id = e.id /\ e2.reg = e.reg => c2 = c /\ e2 = e

(* A transaction times out only after its deadline: a step that makes a    *)
(* goroutine owe a time-out found the deadline in the past.                *)
TimeoutOnlyWhenDue ==
  [][\A c \in Thread : \A e \in todo'[c] \ todo[c] :
       e.err = "timeout" => Registered(e.id) /\ transactions[e.id] < clock]_vars

(* The ledger of registrations: opened by Start, settled by the one        *)
(* handler call, and none opened once the agent is closed.  A second call  *)
(* gives a status the ledger does not have.                                *)
RegStatus(r) == IF calls[r] > 1 THEN "settled again"
                ELSE IF calls[r] = 1 THEN "settled"
                ELSE IF r[2] > reg[r[1]] THEN "idle" ELSE "open"

RegLedger == INSTANCE Ledger WITH
  Req <- Registration,
  status <- [r \in Registration |-> RegStatus(r)],
  shut <- agentClosed

ImplementsLedger == RegLedger!LedgerSpec

(* `Agent handler is guaranteed to be eventually called' (Agent.Start).    *)
HandlerEventuallyCalled == RegLedger!LedgerLive
=============================================================================
