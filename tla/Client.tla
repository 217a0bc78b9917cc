------------------------------- MODULE Client -------------------------------
(***************************************************************************)
(* stun.Client (client.go) with the Agent it drives: the goroutines of its *)
(* users, the collector ticker, the reader and Close, interleaved at every *)
(* mutex operation, connection write and handler call.                     *)
(*                                                                         *)
(* pc[g] is where goroutine g stands in the method it runs.  An agent      *)
(* event is handled by the goroutine that raised it, and handling it can   *)
(* raise another (Stop after a failed write), so each goroutine has a      *)
(* stack frames[g] of handleAgentCallback activations, innermost first.    *)
(* c.mux is never held between steps; Agent.mux is during Agent.Close.     *)
(*                                                                         *)
(* Time is abstracted to whether a deadline has passed: an entry of the    *)
(* agent is "armed" until Expire makes it "expired".  A message is the id  *)
(* of its transaction and a length.  The network may lose, duplicate,      *)
(* delay and reorder: the reader can receive an answer to anything that    *)
(* was sent, at any time, any number of times, or never.                   *)
(*                                                                         *)
(* The n-th call of Client.Start with a handler is call n; got[n] records  *)
(* the transaction ids of the events its handler was called with.          *)
(***************************************************************************)
EXTENDS AgentCore, Naturals, Sequences, FiniteSets

CONSTANTS User, Closer, Owner,    \* goroutines calling Start, Close, Agent.Close
          Coll, Reader,           \* the collector and the reader goroutine
          ZeroID,                 \* transactionID{}
          Obj, Nil,               \* clientTransaction structs; a nil pointer
          MaxAttempts,            \* Client.maxAttempts
          CloseConn,              \* Client.closeConn
          CollectorFails,         \* a custom Collector whose Close can fail
          HandlersClose,          \* handlers may call Client.Close
          MsgLen,                 \* length of the message with an id
          BufCap,                 \* capacity of the retransmission buffer
          ReuseIDs,               \* users may use a transaction id again
          MaxCalls,               \* bound: calls of Start
          MaxWriteErrs            \* bound: failed writes on an open connection

ASSUME ThreadAssumption ==
  /\ User \cup Closer \cup Owner \cup {Coll, Reader} = Thread
  /\ Coll # Reader
  /\ {Coll, Reader} \cap (User \cup Closer \cup Owner) = {}
  /\ User \cap Closer = {} /\ Owner \cap (User \cup Closer) = {}
ASSUME DataAssumption ==
  /\ ZeroID \in ID /\ Nil \notin Obj
  /\ Deadline = {"armed", "expired"}
  /\ MsgLen \in [ID -> Nat] /\ MsgLen[ZeroID] = 0
  /\ {MaxAttempts, BufCap, MaxCalls, MaxWriteErrs} \subseteq Nat
  /\ {CloseConn, CollectorFails, HandlersClose, ReuseIDs} \subseteq BOOLEAN

VARIABLES closed,                 \* Client.closed
          t,                      \* Client.t
          obj,                    \* contents of the clientTransaction structs
          pool,                   \* pool[o]: times o is in clientTransactionPool
          fresh,                  \* structs not allocated yet
          pc, frames, todo,       \* control state of the goroutines
          loc,                    \* loc[g]: the id, struct and call g works on
          collStop, readStop,     \* tickerCollector.close, Client.close closed
          connOpen,               \* the connection is not closed
          sent,                   \* <<id, length>> of what was written
          writeErrs,              \* failed writes so far
          asked, result, got      \* history of the calls of Start

clientVars == <<closed, t, obj, pool, fresh>>
chanVars == <<collStop, readStop, connOpen>>
netVars == <<sent, writeErrs>>
histVars == <<asked, result, got>>
vars == <<agentVars, clientVars, pc, frames, todo, loc, chanVars, netVars, histVars>>

Call == 1 .. MaxCalls
EventErr == {"nil", "timeout", "stopped", "closed"}
FramePc == {"take", "default", "retry", "ident", "register", "agent", "write", "faildel",
            "wdel", "stop", "done", "put", "putattempt", "putid", "closing"}
Frame == [pc : FramePc, ev : ID, err : EventErr, obj : Obj \cup {Nil}, id : ID,
          len : Nat, closer : Closer \cup {Nil}]
Struct == [id : ID, attempt : 0 .. MaxAttempts, calls : Nat, h : 0 .. MaxCalls, raw : Nat]

UserPc == {"idle", "acquire", "start", "agent", "write", "del", "stop", "ret"}
CollPc == {"tick", "loop", "exit"}
ReaderPc == {"select", "read", "process", "exit"}
CloserPc == {"idle", "coll", "collwait", "agent", "aloop", "conn", "chan", "wait",
             "returned", "rejected", "failed"}

(* The shape of the state; attempt in 0..MaxAttempts says that a message   *)
(* is never written more than MaxAttempts + 1 times.                       *)
TypeOK ==
  /\ AgentTypeOK
  /\ closed \in BOOLEAN
  /\ t \in [ID -> Obj \cup {Nil}]
  /\ obj \in [Obj -> Struct]
  /\ pool \in [Obj -> Nat]
  /\ fresh \subseteq Obj
  /\ \A g \in User : pc[g] \in UserPc
  /\ \A g \in Closer \cup Owner : pc[g] \in CloserPc
  /\ pc[Coll] \in CollPc /\ pc[Reader] \in ReaderPc
  /\ frames \in [Thread -> Seq(Frame)]
  /\ todo \in [Thread -> SUBSET ID]
  /\ loc \in [Thread -> [id : ID, obj : Obj \cup {Nil}, call : 0 .. MaxCalls]]
  /\ {collStop, readStop, connOpen} \subseteq BOOLEAN
  /\ sent \subseteq ID \X Nat
  /\ writeErrs \in 0 .. MaxWriteErrs
  /\ asked \in Seq(ID) /\ Len(asked) <= MaxCalls
  /\ result \in [Call -> {"none", "registered", "ok", "err"}]
  /\ got \in [Call -> Seq(ID)]

Init ==
  /\ AgentInit
  /\ closed = FALSE
  /\ t = [id \in ID |-> Nil]
  /\ obj = [o \in Obj |-> [id |-> ZeroID, attempt |-> 0, calls |-> 0, h |-> 0, raw |-> 0]]
  /\ pool = [o \in Obj |-> 0]
  /\ fresh = Obj
  /\ pc = [g \in Thread |-> IF g = Coll THEN "tick"
                            ELSE IF g = Reader THEN "select" ELSE "idle"]
  /\ frames = [g \in Thread |-> <<>>]
  /\ todo = [g \in Thread |-> {}]
  /\ loc = [g \in Thread |-> [id |-> ZeroID, obj |-> Nil, call |-> 0]]
  /\ collStop = FALSE /\ readStop = FALSE /\ connOpen = TRUE
  /\ sent = {} /\ writeErrs = 0
  /\ asked = <<>>
  /\ result = [n \in Call |-> "none"]
  /\ got = [n \in Call |-> <<>>]
-----------------------------------------------------------------------------
(* Goroutine g is at p in its method, and not inside an agent callback.    *)
At(g, p) == pc[g] = p /\ frames[g] = <<>>

Goto(g, p) == pc' = [pc EXCEPT ![g] = p]

(* c.start: the transaction may be registered.                             *)
CanRegister_Closed(id) == t[id] = Nil
CanRegister(id) == ~closed /\ t[id] = Nil

(* c.c.Write of n bytes for transaction id, returning nil or an error.     *)
WriteOK(id, n) ==
  /\ connOpen
  /\ sent' = sent \cup {<<id, n>>}
  /\ UNCHANGED writeErrs

WriteErr ==
  /\ \/ ~connOpen /\ UNCHANGED writeErrs
     \/ connOpen /\ writeErrs < MaxWriteErrs /\ writeErrs' = writeErrs + 1
  /\ UNCHANGED sent

(* A callback of the agent: handleAgentCallback(Event{id, e}) begins.      *)
Activation(id, e) ==
  <<[pc |-> "take", ev |-> id, err |-> e, obj |-> Nil, id |-> ZeroID, len |-> 0,
     closer |-> Nil]>>

Callback(g, id, e) == frames' = [frames EXCEPT ![g] = Activation(id, e) \o @]

(* c.a.Stop(id): it runs the callback when the agent had the transaction.  *)
AgentStop(g, id) ==
  \/ Registered(id) /\ AgentRemove({id}) /\ Callback(g, id, "stopped")
  \/ /\ agentMux = Free /\ (agentClosed \/ ~Registered(id))
     /\ UNCHANGED <<agentVars, frames>>
-----------------------------------------------------------------------------
(* handleAgentCallback.                                                    *)

Top(g) == Head(frames[g])
In(g, p) == frames[g] # <<>> /\ Top(g).pc = p
Step(g, p) == frames' = [frames EXCEPT ![g] = [@ EXCEPT ![1].pc = p]]
Pop(g) == frames' = [frames EXCEPT ![g] = Tail(@)]

(* The transaction ends here: no attempts left, or an answer.              *)
Completed_OneMore(o, e) == MaxAttempts < obj[o].attempt \/ e = "nil"
Completed(o, e) == MaxAttempts <= obj[o].attempt \/ e = "nil"

(* delete(c.t, transaction.id): by the id in the struct, not the event's.  *)
Unregister_Keeps(o) == t' = t
Unregister(o) == t' = [t EXCEPT ![obj[o].id] = Nil]

Take(g) ==
  LET f == Top(g)
      o == t[f.ev]
  IN /\ In(g, "take")
     /\ \/ /\ closed \/ (o = Nil /\ f.err = "stopped")
           /\ Pop(g)
           /\ UNCHANGED t
        \/ /\ ~closed /\ o = Nil /\ f.err # "stopped"
           /\ Step(g, "default")
           /\ UNCHANGED t
        \/ /\ ~closed /\ o # Nil
           /\ Unregister(o)
           /\ frames' = [frames EXCEPT ![g] = [@ EXCEPT
                ![1].obj = o, ![1].pc = IF Completed(o, f.err) THEN "done" ELSE "retry"]]
     /\ UNCHANGED <<agentVars, closed, obj, pool, fresh, pc, todo, loc, chanVars, netVars,
                    histVars>>

(* c.handler(event), for an event of no registered transaction.            *)
Default(g) ==
  /\ In(g, "default")
  /\ Pop(g)
  /\ UNCHANGED <<agentVars, clientVars, pc, todo, loc, chanVars, netVars, histVars>>

(* The buffer holds what fits of the message.                              *)
BufLen(n) == IF n < BufCap THEN n ELSE BufCap

(* attempt++, and the message is copied.  The struct is read and written   *)
(* without a lock from here to c.start: another goroutine that still has   *)
(* it can put it into the pool, and a Start can recycle it, in between.    *)
Retry(g) ==
  LET o == Top(g).obj
  IN /\ In(g, "retry")
     /\ obj' = [obj EXCEPT ![o].attempt = @ + 1]
     /\ frames' = [frames EXCEPT ![g] = [@ EXCEPT
          ![1].len = BufLen(obj[o].raw), ![1].pc = "ident"]]
     /\ UNCHANGED <<agentVars, closed, t, pool, fresh, pc, todo, loc, chanVars, netVars,
                    histVars>>

(* id := transaction.id.                                                   *)
RetryIdent(g) ==
  /\ In(g, "ident")
  /\ frames' = [frames EXCEPT ![g] = [@ EXCEPT
       ![1].id = obj[Top(g).obj].id, ![1].pc = "register"]]
  /\ UNCHANGED <<agentVars, clientVars, pc, todo, loc, chanVars, netVars, histVars>>

(* c.start(transaction), under the id the struct has by now.               *)
RetryStart(g) ==
  LET o == Top(g).obj
      id == obj[o].id
  IN /\ In(g, "register")
     /\ \/ CanRegister(id) /\ t' = [t EXCEPT ![id] = o] /\ Step(g, "agent")
        \/ ~CanRegister(id) /\ UNCHANGED t /\ Step(g, "faildel")
     /\ UNCHANGED <<agentVars, closed, obj, pool, fresh, pc, todo, loc, chanVars, netVars,
                    histVars>>

RetryAgent_Skipped(g) ==
  /\ In(g, "agent") /\ Step(g, "write")
  /\ UNCHANGED <<agentVars, clientVars, pc, todo, loc, chanVars, netVars, histVars>>

RetryAgent(g) ==
  /\ In(g, "agent")
  /\ \/ AgentStartOK(Top(g).id, "armed") /\ Step(g, "write")
     \/ AgentStartErr(Top(g).id) /\ Step(g, "faildel")
  /\ UNCHANGED <<clientVars, pc, todo, loc, chanVars, netVars, histVars>>

RetryWrite(g) ==
  /\ In(g, "write")
  /\ \/ WriteOK(Top(g).id, Top(g).len) /\ Pop(g)
     \/ WriteErr /\ Step(g, "wdel")
  /\ UNCHANGED <<agentVars, clientVars, pc, todo, loc, chanVars, histVars>>

(* c.delete(id) on the error paths.                                        *)
RetryDelete(g) ==
  /\ \/ In(g, "faildel") /\ Step(g, "done")
     \/ In(g, "wdel") /\ Step(g, "stop")
  /\ t' = [t EXCEPT ![Top(g).id] = Nil]
  /\ UNCHANGED <<agentVars, closed, obj, pool, fresh, pc, todo, loc, chanVars, netVars,
                 histVars>>

(* The frame below continues at "done" when the nested callback returns.   *)
RetryStop(g) ==
  LET id == Top(g).id
      resumed == <<[Top(g) EXCEPT !.pc = "done"]>> \o Tail(frames[g])
  IN /\ In(g, "stop")
     /\ \/ /\ Registered(id) /\ AgentRemove({id})
           /\ frames' = [frames EXCEPT ![g] = Activation(id, "stopped") \o resumed]
        \/ /\ agentMux = Free /\ (agentClosed \/ ~Registered(id))
           /\ frames' = [frames EXCEPT ![g] = resumed]
           /\ UNCHANGED agentVars
     /\ UNCHANGED <<clientVars, pc, todo, loc, chanVars, netVars, histVars>>

(* transaction.handle(event): only the first call reaches the handler.     *)
Handles_Always(o) == TRUE
Handles(o) == obj[o].calls = 0

Handle(g) ==
  LET o == Top(g).obj
      n == obj[o].h
  IN /\ In(g, "done")
     /\ obj' = [obj EXCEPT ![o].calls = @ + 1]
     /\ got' = IF Handles(o) THEN [got EXCEPT ![n] = Append(@, Top(g).ev)] ELSE got
     /\ Step(g, "put")
     /\ UNCHANGED <<agentVars, closed, t, pool, fresh, pc, todo, loc, chanVars, netVars,
                    asked, result>>

(* putClientTransaction: raw, attempt and id are reset one after the other *)
(* and without a lock.  Nobody can tell the last reset from the Put into   *)
(* the pool that follows it.                                               *)
Put(g) ==
  LET o == Top(g).obj
  IN /\ \/ /\ In(g, "put") /\ Step(g, "putattempt")
           /\ obj' = [obj EXCEPT ![o].raw = 0]
           /\ UNCHANGED pool
        \/ /\ In(g, "putattempt") /\ Step(g, "putid")
           /\ obj' = [obj EXCEPT ![o].attempt = 0]
           /\ UNCHANGED pool
        \/ /\ In(g, "putid") /\ Pop(g)
           /\ obj' = [obj EXCEPT ![o].id = ZeroID]
           /\ pool' = [pool EXCEPT ![o] = @ + 1]
     /\ UNCHANGED <<agentVars, closed, t, fresh, pc, todo, loc, chanVars, netVars, histVars>>

(* A handler calls Client.Close.  Closer k runs that call, up to here its  *)
(* first step (see CloseBegin), and the handler waits for it.              *)
HandlerCloses(g, k) ==
  /\ HandlersClose /\ (In(g, "put") \/ In(g, "default")) /\ At(k, "idle")
  /\ closed' = TRUE
  /\ Goto(k, IF closed THEN "rejected" ELSE "coll")
  /\ frames' = [frames EXCEPT ![g] = [@ EXCEPT ![1].pc = "closing", ![1].closer = k]]
  /\ UNCHANGED <<agentVars, t, obj, pool, fresh, todo, loc, chanVars, netVars, histVars>>

CloseDone(k) == pc[k] \in {"returned", "rejected", "failed"}

HandlerReturns(g) ==
  /\ In(g, "closing") /\ CloseDone(Top(g).closer)
  /\ IF Top(g).obj = Nil THEN Pop(g) ELSE Step(g, "put")
  /\ UNCHANGED <<agentVars, clientVars, pc, todo, loc, chanVars, netVars, histVars>>

CallbackStep(g) ==
  /\ frames[g] # <<>>
  /\ \/ Take(g) \/ Default(g) \/ Retry(g) \/ RetryIdent(g) \/ RetryStart(g) \/ RetryAgent(g)
     \/ RetryWrite(g) \/ RetryDelete(g) \/ RetryStop(g) \/ Handle(g) \/ Put(g)
     \/ HandlerReturns(g)
-----------------------------------------------------------------------------
(* Client.Start with a handler; Do is Start followed by waiting for the    *)
(* handler call, and Indicate only checks closed and writes.               *)

StartCall(u, id) ==
  /\ At(u, "idle") /\ Len(asked) < MaxCalls
  /\ ReuseIDs \/ \A n \in DOMAIN asked : asked[n] # id
  /\ ~closed
  /\ asked' = Append(asked, id)
  /\ loc' = [loc EXCEPT ![u] = [id |-> id, obj |-> Nil, call |-> Len(asked) + 1]]
  /\ Goto(u, "acquire")
  /\ UNCHANGED <<agentVars, clientVars, frames, todo, chanVars, netVars, result, got>>

(* acquireClientTransaction and the assignments to its fields, id first    *)
(* and raw last.  Put resets them, and Retry reads them, in the opposite   *)
(* order and step by step, so that whoever still has the struct sees and   *)
(* leaves the same with these assignments in one step.                     *)
Acquire(u, o) ==
  /\ At(u, "acquire")
  /\ \/ o \in fresh /\ fresh' = fresh \ {o} /\ UNCHANGED pool
     \/ pool[o] > 0 /\ pool' = [pool EXCEPT ![o] = @ - 1] /\ UNCHANGED fresh
  /\ obj' = [obj EXCEPT ![o] = [id |-> loc[u].id, attempt |-> 0, calls |-> 0,
                                h |-> loc[u].call, raw |-> MsgLen[loc[u].id]]]
  /\ loc' = [loc EXCEPT ![u].obj = o]
  /\ Goto(u, "start")
  /\ UNCHANGED <<agentVars, closed, t, frames, todo, chanVars, netVars, histVars>>

Return(u, r) ==
  /\ Goto(u, "idle")
  /\ result' = [result EXCEPT ![loc[u].call] = r]
  /\ UNCHANGED <<asked, got>>

(* c.start(t) goes by the id in the struct, c.a.Start by the message's.    *)
StartClient(u) ==
  LET id == obj[loc[u].obj].id
  IN /\ At(u, "start")
     /\ \/ CanRegister(id) /\ t' = [t EXCEPT ![id] = loc[u].obj]
           /\ Goto(u, "agent")
           /\ result' = [result EXCEPT ![loc[u].call] = "registered"]
        \/ ~CanRegister(id) /\ Goto(u, "idle") /\ UNCHANGED <<t, result>>
     /\ UNCHANGED <<agentVars, closed, obj, pool, fresh, frames, todo, loc, chanVars,
                    netVars, asked, got>>

(* An error of c.a.Start is returned with the entry of c.t left in place.  *)
StartAgent(u) ==
  /\ At(u, "agent")
  /\ \/ AgentStartOK(loc[u].id, "armed") /\ Goto(u, "write") /\ UNCHANGED histVars
     \/ AgentStartErr(loc[u].id) /\ Return(u, "err")
  /\ UNCHANGED <<clientVars, frames, todo, loc, chanVars, netVars>>

StartWrite(u) ==
  /\ At(u, "write")
  /\ \/ WriteOK(loc[u].id, MsgLen[loc[u].id]) /\ Return(u, "ok")
     \/ WriteErr /\ Goto(u, "del") /\ UNCHANGED histVars
  /\ UNCHANGED <<agentVars, clientVars, frames, todo, loc, chanVars>>

StartDelete(u) ==
  /\ At(u, "del")
  /\ t' = [t EXCEPT ![loc[u].id] = Nil]
  /\ Goto(u, "stop")
  /\ UNCHANGED <<agentVars, closed, obj, pool, fresh, frames, todo, loc, chanVars, netVars,
                 histVars>>

StartStop(u) ==
  /\ At(u, "stop")
  /\ AgentStop(u, loc[u].id)
  /\ Goto(u, "ret")
  /\ UNCHANGED <<clientVars, todo, loc, chanVars, netVars, histVars>>

StartFail(u) ==
  /\ At(u, "ret")
  /\ Return(u, "err")
  /\ UNCHANGED <<agentVars, clientVars, frames, todo, loc, chanVars, netVars>>

UserStep(u) ==
  \/ \E o \in Obj : Acquire(u, o)
  \/ StartClient(u) \/ StartAgent(u) \/ StartWrite(u) \/ StartDelete(u)
  \/ StartStop(u) \/ StartFail(u) \/ CallbackStep(u)
-----------------------------------------------------------------------------
(* tickerCollector: Agent.Collect at every tick, on one goroutine.         *)

Collect ==
  LET due == {id \in ID : transactions[id] = "expired"}
  IN /\ At(Coll, "tick")
     /\ due # {}
     /\ AgentRemove(due)
     /\ todo' = [todo EXCEPT ![Coll] = due]
     /\ Goto(Coll, "loop")
     /\ UNCHANGED <<clientVars, frames, loc, chanVars, netVars, histVars>>

CollectorExit ==
  /\ At(Coll, "tick") /\ collStop
  /\ Goto(Coll, "exit")
  /\ UNCHANGED <<agentVars, clientVars, frames, todo, loc, chanVars, netVars, histVars>>

(* The loop over the transactions that Collect, or Close, ends.            *)
EndNext(g, p, e) ==
  /\ At(g, p)
  /\ \E id \in todo[g] :
       /\ todo' = [todo EXCEPT ![g] = @ \ {id}]
       /\ Callback(g, id, e)
  /\ UNCHANGED <<agentVars, clientVars, pc, loc, chanVars, netVars, histVars>>

CollectReturn ==
  /\ At(Coll, "loop") /\ todo[Coll] = {}
  /\ Goto(Coll, "tick")
  /\ UNCHANGED <<agentVars, clientVars, frames, todo, loc, chanVars, netVars, histVars>>

CollectorStep ==
  \/ Collect \/ CollectorExit \/ EndNext(Coll, "loop", "timeout") \/ CollectReturn
  \/ CallbackStep(Coll)

(* A deadline passes.                                                      *)
Expire(id) ==
  /\ transactions[id] = "armed"
  /\ transactions' = [transactions EXCEPT ![id] = "expired"]
  /\ UNCHANGED <<agentClosed, agentMux, clientVars, pc, frames, todo, loc, chanVars,
                 netVars, histVars>>
-----------------------------------------------------------------------------
(* readUntilClosed.                                                        *)

Select ==
  /\ At(Reader, "select")
  /\ Goto(Reader, IF readStop THEN "exit" ELSE "read")
  /\ UNCHANGED <<agentVars, clientVars, frames, todo, loc, chanVars, netVars, histVars>>

(* An answer to a request that the server received whole.                  *)
Read(id) ==
  /\ At(Reader, "read") /\ connOpen
  /\ <<id, MsgLen[id]>> \in sent
  /\ loc' = [loc EXCEPT ![Reader].id = id]
  /\ Goto(Reader, "process")
  /\ UNCHANGED <<agentVars, clientVars, frames, todo, chanVars, netVars, histVars>>

(* The read fails, or what was read is not a STUN message.                 *)
ReadFails ==
  /\ At(Reader, "read")
  /\ Goto(Reader, "select")
  /\ UNCHANGED <<agentVars, clientVars, frames, todo, loc, chanVars, netVars, histVars>>

Process ==
  /\ At(Reader, "process")
  /\ \/ /\ agentMux = Free /\ agentClosed
        /\ Goto(Reader, "exit")
        /\ UNCHANGED <<agentVars, frames>>
     \/ /\ AgentRemove({loc[Reader].id})
        /\ Callback(Reader, loc[Reader].id, "nil")
        /\ Goto(Reader, "select")
  /\ UNCHANGED <<clientVars, todo, loc, chanVars, netVars, histVars>>
-----------------------------------------------------------------------------
(* Client.Close, and Agent.Close by an owner of the agent (WithAgent).     *)

CloseBegin(k) ==
  /\ At(k, "idle")
  /\ closed' = TRUE
  /\ Goto(k, IF closed THEN "rejected" ELSE "coll")
  /\ UNCHANGED <<agentVars, t, obj, pool, fresh, frames, todo, loc, chanVars, netVars,
                 histVars>>

(* collector.Close closes its channel and waits for its goroutine.         *)
CloseCollector(k) ==
  /\ At(k, "coll")
  /\ \/ collStop' = TRUE /\ Goto(k, "collwait")
     \/ CollectorFails /\ Goto(k, "failed") /\ UNCHANGED collStop
  /\ UNCHANGED <<agentVars, clientVars, frames, todo, loc, readStop, connOpen, netVars,
                 histVars>>

CloseCollWait_Skipped(k) ==
  /\ At(k, "collwait")
  /\ Goto(k, "agent")
  /\ UNCHANGED <<agentVars, clientVars, frames, todo, loc, chanVars, netVars, histVars>>

CloseCollWait(k) ==
  /\ At(k, "collwait") /\ pc[Coll] = "exit"
  /\ Goto(k, "agent")
  /\ UNCHANGED <<agentVars, clientVars, frames, todo, loc, chanVars, netVars, histVars>>

(* c.a.Close() by Client.Close, a.Close() by an owner.                     *)
CloseAgent(g, from) ==
  /\ At(g, from)
  /\ \/ /\ AgentCloseLock(g)
        /\ todo' = [todo EXCEPT ![g] = {id \in ID : Registered(id)}]
        /\ Goto(g, "aloop")
     \/ /\ agentMux = Free /\ agentClosed
        /\ Goto(g, IF g \in Owner THEN "rejected" ELSE "conn")
        /\ UNCHANGED <<agentVars, todo>>
  /\ UNCHANGED <<clientVars, frames, loc, chanVars, netVars, histVars>>

CloseAgentDone(g) ==
  /\ At(g, "aloop") /\ todo[g] = {}
  /\ AgentCloseUnlock(g)
  /\ Goto(g, IF g \in Owner THEN "returned" ELSE "conn")
  /\ UNCHANGED <<clientVars, frames, todo, loc, chanVars, netVars, histVars>>

CloseConnection(k) ==
  /\ At(k, "conn")
  /\ connOpen' = ~CloseConn
  /\ Goto(k, "chan")
  /\ UNCHANGED <<agentVars, clientVars, frames, todo, loc, collStop, readStop, netVars,
                 histVars>>

CloseChan_Skipped(k) ==
  /\ At(k, "chan")
  /\ Goto(k, "wait")
  /\ UNCHANGED <<agentVars, clientVars, frames, todo, loc, chanVars, netVars, histVars>>

CloseChan(k) ==
  /\ At(k, "chan")
  /\ readStop' = TRUE
  /\ Goto(k, "wait")
  /\ UNCHANGED <<agentVars, clientVars, frames, todo, loc, collStop, connOpen, netVars,
                 histVars>>

CloseReturn_NoWait(k) ==
  /\ At(k, "wait")
  /\ Goto(k, "returned")
  /\ UNCHANGED <<agentVars, clientVars, frames, todo, loc, chanVars, netVars, histVars>>

CloseReturn(k) ==
  /\ At(k, "wait") /\ pc[Reader] = "exit"
  /\ Goto(k, "returned")
  /\ UNCHANGED <<agentVars, clientVars, frames, todo, loc, chanVars, netVars, histVars>>

AgentCloseStep(g) ==
  EndNext(g, "aloop", "closed") \/ CloseAgentDone(g) \/ CallbackStep(g)

CloserStep(k) ==
  \/ CloseCollector(k) \/ CloseCollWait(k) \/ CloseAgent(k, "agent")
  \/ AgentCloseStep(k) \/ CloseConnection(k) \/ CloseChan(k) \/ CloseReturn(k)
-----------------------------------------------------------------------------
Next ==
  \/ \E u \in User : UserStep(u) \/ \E id \in ID \ {ZeroID} : StartCall(u, id)
  \/ CollectorStep
  \/ \E id \in ID : Expire(id)
  \/ Select \/ (\E id \in ID : Read(id)) \/ ReadFails \/ Process \/ CallbackStep(Reader)
  \/ \E k \in Closer : \/ CloseBegin(k) \/ CloserStep(k)
                        \/ \E g \in Thread : HandlerCloses(g, k)
  \/ \E w \in Owner : CloseAgent(w, "idle") \/ AgentCloseStep(w)

Spec == Init /\ [][Next]_vars

(* Fairness: a goroutine that can run does, deadlines pass, the ticker     *)
(* ticks and a read on a closed connection fails.  Nothing forces users to *)
(* call, or the network to deliver.                                        *)
Fairness ==
  /\ \A u \in User : WF_vars(UserStep(u))
  /\ WF_vars(CollectorStep)
  /\ \A id \in ID : WF_vars(Expire(id))
  /\ WF_vars(Select \/ (ReadFails /\ ~connOpen) \/ Process \/ CallbackStep(Reader))
  /\ \A k \in Closer : WF_vars(CloserStep(k))
  /\ \A w \in Owner : WF_vars(AgentCloseStep(w))

FairSpec == Spec /\ Fairness
-----------------------------------------------------------------------------
(* A handler is called only with events of the transaction it was given    *)
(* for, although the clientTransaction structs that hold the handlers are  *)
(* recycled through a pool shared by all transactions.                     *)
OwnEventOnly ==
  \A n \in DOMAIN asked : \A i \in DOMAIN got[n] : got[n][i] = asked[n]

(* `Concurrent access is invalid' (clientTransaction): a struct has at     *)
(* most one holder, be it the pool, the map, a Start that has not yet      *)
(* registered it, or a callback that took it off the map.                  *)
HolderPc == {"retry", "ident", "register", "done", "put", "putattempt", "putid", "closing"}
Holders(o) ==
  {<<"map", id>> : id \in {id \in ID : t[id] = o}}
  \cup {<<"pool", k>> : k \in 1 .. pool[o]}
  \cup {<<"start", u>> : u \in {u \in User : pc[u] = "start" /\ loc[u].obj = o}}
  \cup {<<"callback", g>> : g \in {g \in Thread : frames[g] # <<>> /\ Top(g).obj = o
                                    /\ Top(g).pc \in HolderPc}}

OneHolder == \A o \in Obj : \A x, y \in Holders(o) : x = y

(* A transaction in c.t of an open client is always about to make          *)
(* progress: the agent will time it out, or a goroutine is at work on it.  *)
Driven(id) ==
  \/ Registered(id)
  \/ \E u \in User : loc[u].id = id /\ pc[u] \in {"agent", "write", "del"}
  \/ \E g \in Thread :
       \/ id \in todo[g]
       \/ frames[g] # <<>> /\ \/ Top(g).pc = "take" /\ Top(g).ev = id
                              \/ Top(g).pc \in {"agent", "wdel", "faildel"} /\ Top(g).id = id

NoneStranded == \A id \in ID : t[id] # Nil /\ ~closed => Driven(id)

(* Close takes the parts down in an order in which none uses another that  *)
(* is already gone: collector, agent, connection, reader.                  *)
CloseOrder ==
  \A k \in Closer :
    /\ pc[k] \in {"agent", "aloop", "conn", "chan", "wait", "returned"} => pc[Coll] = "exit"
    /\ pc[k] \in {"conn", "chan", "wait", "returned"} => agentClosed
    /\ pc[k] = "returned" => pc[Reader] = "exit" /\ connOpen = ~CloseConn

(* After Close has returned no handler is called any more, by no goroutine *)
(* but that of a Start which has not returned itself: its write failed,    *)
(* and its Stop took its own transaction back from the agent before the    *)
(* client was closed, a retransmission having registered it once more.     *)
NoCallbackAfterClose ==
  [][(\E k \in Closer : pc[k] = "returned") =>
       \A n \in Call : got'[n] # got[n] =>
         \E u \in User : pc[u] = "ret" /\ In(u, "done") /\ loc[u].call = n]_vars

(* `Stopping transaction instead of waiting until deadline' (Start): a     *)
(* transaction whose Start has returned an error is over, its handler is   *)
(* not called any more.                                                    *)
SilentAfterError ==
  [][\A n \in Call : result[n] = "err" => got'[n] = got[n]]_vars

(* `Writing message to connection again': what is retransmitted is the     *)
(* message of a transaction, or as much of it as the pooled buffer holds.  *)
RetransmitsWhole ==
  \A m \in sent : m[1] # ZeroID /\ m[2] \in {MsgLen[m[1]], BufLen(MsgLen[m[1]])}

(* A call of Start is registered only while the client is open, and its    *)
(* handler is called at most once, whether or not Start returns an error.  *)
CallStatus(n) == CASE Len(got[n]) > 1 -> "settled again"
                   [] Len(got[n]) = 1 -> "settled"
                   [] got[n] = <<>> /\ result[n] = "none" -> "idle"
                   [] got[n] = <<>> /\ result[n] # "none" -> "open"

CallLedger == INSTANCE Ledger WITH
  Req <- Call, status <- [n \in Call |-> CallStatus(n)], shut <- closed

ImplementsLedger == CallLedger!LedgerSpec

(* The agent is closed, or somebody has begun to close it.                 *)
AgentClosing == agentClosed \/ agentMux # Free

(* `If transaction is succeed or failed, f will be called': a transaction  *)
(* Start has accepted is eventually handled, whatever the network does,    *)
(* while nobody closes the client or its agent: then retransmissions run   *)
(* out, and failing to write one again also calls the handler.             *)
HandledUnlessClosed ==
  \A n \in Call : result[n] = "ok" ~> got[n] # <<>> \/ closed \/ AgentClosing

(* Close returns: no call of it waits for ever.  Neither the collector nor *)
(* the reader can be kept from finishing, unless by an owner closing the   *)
(* agent, or by the Close itself when a handler has called it on one of    *)
(* the two.                                                                *)
CloseReturns ==
  []<>(\A k \in Closer : pc[k] # "idle" =>
         \/ CloseDone(k)
         \/ \E w \in Owner : pc[w] = "aloop"
         \/ \E g \in {Coll, Reader} : In(g, "closing") /\ Top(g).closer = k)
=============================================================================
