---------------------------- MODULE ClientProofs ----------------------------
(***************************************************************************)
(* Two properties of stun.Client, proved for any number of users,          *)
(* concurrent Close calls, owners of the agent, transactions and failures. *)
(*                                                                         *)
(* ClosesInOrder: Close takes the parts down in order.  CloseOrder is not  *)
(* inductive: that the connection has been closed when Close returns needs *)
(* that no second Close is still on its way, and that in turn that Close   *)
(* stops at `if c.closed' once another has passed it.                      *)
(*                                                                         *)
(* WritesWhole: as long as a struct has one holder, what is retransmitted  *)
(* is the message.  Structs are recycled, and filled and reset field by    *)
(* field without a lock, so that it needs that whoever is entitled to read *)
(* a struct, through the map, from Start or in a callback, finds in it the *)
(* message of its id.                                                      *)
(***************************************************************************)
EXTENDS Client, TLAPS

AnyPc == UserPc \cup CollPc \cup ReaderPc \cup CloserPc

(* Close has passed `if c.closed'.                                         *)
Passed(k) == pc[k] \notin {"idle", "rejected"}

(* One Close at most passes the check of c.closed.                         *)
OnePasses ==
  /\ \A k \in Closer : Passed(k) => closed
  /\ \A k, l \in Closer : Passed(k) /\ Passed(l) => k = l

(* The connection is as Close leaves it from that step on.                 *)
ConnDone ==
  \A k \in Closer : pc[k] \in {"chan", "wait", "returned"} => connOpen = ~CloseConn

CloseInv == pc \in [Thread -> AnyPc] /\ OnePasses /\ ConnDone /\ CloseOrder

(* The roles of goroutines are disjoint.                                   *)
LEMMA Roles ==
  /\ Coll \in Thread /\ Reader \in Thread /\ Coll # Reader
  /\ User \subseteq Thread /\ Closer \subseteq Thread /\ Owner \subseteq Thread
  /\ Coll \notin Closer /\ Reader \notin Closer
  /\ \A u \in User : u \notin Closer /\ u # Coll /\ u # Reader
  /\ \A w \in Owner : w \notin Closer /\ w # Coll /\ w # Reader
BY ThreadAssumption

(* Steps that leave the Close calls, the collector and the reader where    *)
(* they are, and close nothing again, keep the invariant.                  *)
LEMMA Elsewhere ==
  ASSUME CloseInv, pc' \in [Thread -> AnyPc],
         \A g \in Closer \cup {Coll, Reader} : pc'[g] = pc[g],
         closed => closed', agentClosed => agentClosed', connOpen' = connOpen
  PROVE  CloseInv'
BY Roles DEF CloseInv, OnePasses, Passed, ConnDone, CloseOrder

(* handleAgentCallback changes neither control nor what Close takes down.  *)
LEMMA CallbackElsewhere ==
  ASSUME CloseInv, NEW g \in Thread, CallbackStep(g)
  PROVE  CloseInv'
<1>1. UNCHANGED <<pc, closed, connOpen>>
  BY Zenon DEF CallbackStep, Take, Default, Retry, RetryIdent, RetryStart, RetryAgent, RetryWrite,
         RetryDelete, RetryStop, Handle, Put, HandlerReturns, clientVars, chanVars
<1>2. agentClosed' = agentClosed
  BY Zenon DEF CallbackStep, Take, Default, Retry, RetryIdent, RetryStart, RetryAgent, RetryWrite,
         RetryDelete, RetryStop, Handle, Put, HandlerReturns, agentVars, AgentStartOK, AgentStartErr, AgentRemove
<1> QED
  BY <1>1, <1>2, Elsewhere DEF CloseInv

(* Start works on the user's own control state.                            *)
LEMMA UserElsewhere ==
  ASSUME CloseInv, NEW u \in User, UserStep(u) \/ \E id \in ID : StartCall(u, id)
  PROVE  CloseInv'
<1>1. CASE CallbackStep(u)
  BY <1>1, CallbackElsewhere, Roles
<1>2. ASSUME NEW p \in AnyPc, Goto(u, p), UNCHANGED <<closed, connOpen>>,
             agentClosed' = agentClosed
      PROVE  CloseInv'
  BY <1>2, Elsewhere, Roles DEF CloseInv, Goto
<1> USE DEF agentVars, clientVars, chanVars
<1>3. {"idle", "acquire", "start", "agent", "write", "del", "stop", "ret"} \subseteq AnyPc
  BY DEF AnyPc, UserPc
<1>4. ASSUME NEW id \in ID, StartCall(u, id) PROVE CloseInv'
  BY <1>2, <1>3, <1>4 DEF StartCall
<1>5. ASSUME NEW o \in Obj, Acquire(u, o) PROVE CloseInv'
  BY <1>2, <1>3, <1>5 DEF Acquire
<1>6. CASE StartClient(u)
  BY <1>2, <1>3, <1>6 DEF StartClient
<1>7. CASE StartAgent(u)
  BY <1>2, <1>3, <1>7 DEF StartAgent, Return, AgentStartOK, AgentStartErr
<1>8. CASE StartWrite(u)
  BY <1>2, <1>3, <1>8 DEF StartWrite, Return
<1>9. CASE StartDelete(u)
  BY <1>2, <1>3, <1>9 DEF StartDelete
<1>10. CASE StartStop(u)
  BY <1>2, <1>3, <1>10 DEF StartStop, AgentStop, AgentRemove
<1>11. CASE StartFail(u)
  BY <1>2, <1>3, <1>11 DEF StartFail, Return
<1> QED
  BY <1>1, <1>4, <1>5, <1>6, <1>7, <1>8, <1>9, <1>10, <1>11 DEF UserStep

(* The collector and the reader stop once and for all.                     *)
LEMMA LoopsStay ==
  ASSUME CloseInv, CollectorStep \/ Select \/ (\E id \in ID : Read(id)) \/ ReadFails \/ Process
  PROVE  CloseInv'
<1>1. ASSUME NEW g \in {Coll, Reader}, NEW p \in AnyPc, pc[g] # "exit", Goto(g, p),
             UNCHANGED <<closed, connOpen>>, agentClosed' = agentClosed
      PROVE  CloseInv'
  BY <1>1, Roles DEF CloseInv, Goto, OnePasses, Passed, ConnDone, CloseOrder
<1>2. {"tick", "loop", "exit", "select", "read", "process"} \subseteq AnyPc
  BY DEF AnyPc, CollPc, ReaderPc
<1> USE DEF At, agentVars, clientVars, chanVars
<1>3. CASE Collect
  BY <1>1, <1>2, <1>3 DEF Collect, AgentRemove
<1>4. CASE CollectorExit
  BY <1>1, <1>2, <1>4 DEF CollectorExit
<1>5. CASE EndNext(Coll, "loop", "timeout")
  BY <1>5, Elsewhere DEF EndNext, CloseInv
<1>6. CASE CollectReturn
  BY <1>1, <1>2, <1>6 DEF CollectReturn
<1>7. CASE CallbackStep(Coll)
  BY <1>7, CallbackElsewhere, Roles
<1>8. CASE Select
  BY <1>1, <1>2, <1>8 DEF Select
<1>9. ASSUME NEW id \in ID, Read(id) PROVE CloseInv'
  BY <1>1, <1>2, <1>9 DEF Read
<1>10. CASE ReadFails
  BY <1>1, <1>2, <1>10 DEF ReadFails
<1>11. CASE Process
  BY <1>1, <1>2, <1>11 DEF Process, AgentRemove
<1> QED
  BY <1>3, <1>4, <1>5, <1>6, <1>7, <1>8, <1>9, <1>10, <1>11 DEF CollectorStep

(* A Close, called by a user or from a handler, goes on only if it is the  *)
(* first.                                                                  *)
LEMMA BeginsOnce ==
  ASSUME CloseInv, NEW k \in Closer, At(k, "idle"), closed' = TRUE,
         Goto(k, IF closed THEN "rejected" ELSE "coll"),
         UNCHANGED <<agentVars, connOpen>>
  PROVE  CloseInv'
BY Roles DEF CloseInv, At, Goto, OnePasses, Passed, ConnDone, CloseOrder, AnyPc, CloserPc,
             agentVars

(* The steps of the one Close that is on its way.                          *)
LEMMA CloserKeeps ==
  ASSUME CloseInv, NEW k \in Closer, CloserStep(k)
  PROVE  CloseInv'
<1>1. k \notin Owner
  BY Roles
<1>2. ASSUME NEW q \in {"coll", "collwait", "agent", "aloop", "conn", "chan", "wait"},
             NEW p \in {"collwait", "failed", "agent", "aloop", "conn", "chan", "wait", "returned"},
             At(k, q), Goto(k, p), UNCHANGED closed, agentClosed => agentClosed',
             p \in {"agent", "aloop", "conn", "chan", "wait", "returned"} => pc[Coll] = "exit",
             p \in {"conn", "chan", "wait", "returned"} => agentClosed',
             p \in {"chan", "wait", "returned"} => connOpen' = ~CloseConn,
             p \notin {"chan", "wait", "returned"} => connOpen' = connOpen,
             p = "returned" => pc[Reader] = "exit"
      PROVE  CloseInv'
  BY <1>2, Roles DEF CloseInv, At, Goto, OnePasses, Passed, ConnDone, CloseOrder, AnyPc,
                     CloserPc
<1> USE DEF At, CloseInv, CloseOrder, ConnDone, agentVars, clientVars, chanVars
<1>3. CASE CloseCollector(k)
  BY <1>2, <1>3 DEF CloseCollector
<1>4. CASE CloseCollWait(k)
  BY <1>2, <1>4 DEF CloseCollWait
<1>5. CASE CloseAgent(k, "agent")
  BY <1>1, <1>2, <1>5 DEF CloseAgent, AgentCloseLock
<1>6. CASE CloseAgentDone(k)
  BY <1>1, <1>2, <1>6 DEF CloseAgentDone, AgentCloseUnlock
<1>7. CASE EndNext(k, "aloop", "closed")
  BY <1>7, Elsewhere DEF EndNext
<1>8. CASE CallbackStep(k)
  BY <1>8, CallbackElsewhere, Roles
<1>9. CASE CloseConnection(k)
  BY <1>2, <1>9 DEF CloseConnection
<1>10. CASE CloseChan(k)
  BY <1>2, <1>10 DEF CloseChan
<1>11. CASE CloseReturn(k)
  BY <1>2, <1>11 DEF CloseReturn
<1> QED
  BY <1>3, <1>4, <1>5, <1>6, <1>7, <1>8, <1>9, <1>10, <1>11 DEF CloserStep, AgentCloseStep

(* An owner closing the agent takes none of Close's steps.                 *)
LEMMA OwnerElsewhere ==
  ASSUME CloseInv, NEW w \in Owner, CloseAgent(w, "idle") \/ AgentCloseStep(w)
  PROVE  CloseInv'
<1>1. ASSUME NEW p \in AnyPc, Goto(w, p), UNCHANGED <<closed, connOpen>>,
             agentClosed => agentClosed'
      PROVE  CloseInv'
  BY <1>1, Elsewhere, Roles DEF CloseInv, Goto
<1>2. {"aloop", "rejected", "returned"} \subseteq AnyPc
  BY DEF AnyPc, CloserPc
<1> USE DEF agentVars, clientVars, chanVars
<1>3. CASE CloseAgent(w, "idle")
  BY <1>1, <1>2, <1>3 DEF CloseAgent, AgentCloseLock
<1>4. CASE EndNext(w, "aloop", "closed")
  BY <1>4, Elsewhere DEF EndNext, CloseInv
<1>5. CASE CloseAgentDone(w)
  BY <1>1, <1>2, <1>5 DEF CloseAgentDone, AgentCloseUnlock
<1>6. CASE CallbackStep(w)
  BY <1>6, CallbackElsewhere, Roles
<1> QED
  BY <1>3, <1>4, <1>5, <1>6 DEF AgentCloseStep

(* A new client satisfies the invariant.                                   *)
LEMMA InitClose == Init => CloseInv
<1> SUFFICES ASSUME Init PROVE CloseInv
  OBVIOUS
<1>1. pc = [g \in Thread |-> IF g = Coll THEN "tick"
                            ELSE IF g = Reader THEN "select" ELSE "idle"]
  BY DEF Init
<1>2. pc \in [Thread -> AnyPc] /\ \A k \in Closer : pc[k] = "idle"
  BY <1>1, Roles DEF AnyPc, UserPc, CollPc, ReaderPc, CloserPc
<1> QED
  BY <1>2 DEF CloseInv, OnePasses, Passed, ConnDone, CloseOrder

(* Every step of the client preserves the invariant.                       *)
LEMMA NextClose == CloseInv /\ [Next]_vars => CloseInv'
<1> SUFFICES ASSUME CloseInv, [Next]_vars PROVE CloseInv'
  OBVIOUS
<1>1. ASSUME NEW u \in User, UserStep(u) \/ \E id \in ID \ {ZeroID} : StartCall(u, id)
      PROVE  CloseInv'
  BY <1>1, UserElsewhere
<1>2. CASE CollectorStep \/ Select \/ (\E id \in ID : Read(id)) \/ ReadFails \/ Process
  BY <1>2, LoopsStay
<1>3. CASE CallbackStep(Reader)
  BY <1>3, CallbackElsewhere, Roles
<1>4. ASSUME NEW id \in ID, Expire(id) PROVE CloseInv'
  BY <1>4, Elsewhere DEF Expire, CloseInv, clientVars, chanVars
<1>5. ASSUME NEW k \in Closer, CloseBegin(k) PROVE CloseInv'
  BY <1>5, BeginsOnce DEF CloseBegin, chanVars
<1>6. ASSUME NEW k \in Closer, NEW g \in Thread, HandlerCloses(g, k) PROVE CloseInv'
  BY <1>6, BeginsOnce DEF HandlerCloses, chanVars
<1>7. ASSUME NEW k \in Closer, CloserStep(k) PROVE CloseInv'
  BY <1>7, CloserKeeps
<1>8. ASSUME NEW w \in Owner, CloseAgent(w, "idle") \/ AgentCloseStep(w) PROVE CloseInv'
  BY <1>8, OwnerElsewhere
<1>9. CASE UNCHANGED vars
  BY <1>9, Elsewhere DEF vars, agentVars, clientVars, chanVars, CloseInv
<1> QED
  BY <1>1, <1>2, <1>3, <1>4, <1>5, <1>6, <1>7, <1>8, <1>9 DEF Next

(* Whatever users, handlers, owners of the agent, the network and other    *)
(* Close calls do, Client.Close goes on to the agent when the collector    *)
(* has stopped, to the connection when the agent is closed, and returns    *)
(* when the reader has stopped and the connection is as the options say.   *)
THEOREM ClosesInOrder == Spec => []CloseOrder
<1>1. Spec => []CloseInv
  BY InitClose, NextClose, PTL DEF Spec
<1>2. CloseInv => CloseOrder
  BY DEF CloseInv
<1> QED
  BY <1>1, <1>2, PTL
-----------------------------------------------------------------------------
(* Retransmissions (RetransmitsWhole).                                     *)

(* What the structs and the locals of the methods hold; attempt is not     *)
(* bounded here.                                                           *)
Shape == [id : ID, attempt : Nat, calls : Nat, h : Nat, raw : Nat]
Local == [id : ID, obj : Obj \cup {Nil}, call : Nat]

(* A retransmission that reads its struct, and one that has read it.       *)
BusyPc == {"retry", "ident", "register"}
ReadyPc == {"register", "agent", "write"}
Busy(g) == frames[g] # <<>> /\ Top(g).pc \in BusyPc

(* An activation of handleAgentCallback has a struct that was allocated    *)
(* and, once it has read it, the bytes of the message it is about to       *)
(* write.  One that was interrupted by another goes on at "done".          *)
FrameOK(f) == /\ f.obj \notin fresh
              /\ f.pc \in BusyPc => f.obj \in Obj
              /\ f.pc \in ReadyPc => f.id # ZeroID /\ f.len = BufLen(MsgLen[f.id])
StackOK(s) == /\ s \in Seq(Frame)
              /\ \A i \in 1 .. Len(s) : FrameOK(s[i])
              /\ \A i \in 2 .. Len(s) : s[i].pc = "done"
FramesOK == frames \in [Thread -> Seq(Frame)] /\ \A g \in Thread : StackOK(frames[g])

TableOK == /\ t \in [ID -> Obj \cup {Nil}] /\ \A id \in ID : t[id] \notin fresh
           /\ obj \in [Obj -> Shape]
           /\ fresh \subseteq Obj /\ pool \in [Obj -> Nat]
           /\ \A o \in Obj : pool[o] > 0 => o \notin fresh
UserOK(u) == /\ loc[u].obj \notin fresh
             /\ pc[u] # "idle" => loc[u].id # ZeroID
             /\ pc[u] = "start" => loc[u].obj \in Obj
LocalsOK == /\ loc \in [Thread -> Local] /\ asked \in Seq(ID)
            /\ \A u \in User : UserOK(u)
TodoOK == todo \in [Thread -> SUBSET ID]
ControlOK == pc \in [Thread -> AnyPc]

(* A struct holds the message of its id.                                   *)
Whole(o) == obj[o].id # ZeroID /\ obj[o].raw = MsgLen[obj[o].id]

(* Who is entitled to read a struct finds it whole.                        *)
MapOK == \A id \in ID : t[id] # Nil => Whole(t[id])
StartOK == \A u \in User : pc[u] = "start" => Whole(loc[u].obj)
HeldOK == \A g \in Thread : Busy(g) =>
            /\ Whole(Top(g).obj)
            /\ Top(g).pc = "ident" => Top(g).len = BufLen(obj[Top(g).obj].raw)

SentOK == sent \subseteq ID \X Nat /\ RetransmitsWhole
SizeInv == /\ FramesOK /\ TableOK /\ LocalsOK /\ TodoOK /\ ControlOK
           /\ MapOK /\ StartOK /\ HeldOK /\ SentOK

(* The stack of one goroutine is replaced.                                 *)
LEMMA Replace ==
  ASSUME FramesOK, NEW g \in Thread, NEW s, StackOK(s), fresh' \subseteq fresh,
         frames' = [frames EXCEPT ![g] = s]
  PROVE  FramesOK'
<1>1. \A f : FrameOK(f) => FrameOK(f)'
  BY DEF FrameOK, BufLen
<1>2. \A r : StackOK(r) => StackOK(r)'
  BY <1>1 DEF StackOK
<1>3. frames' \in [Thread -> Seq(Frame)] /\ \A h \in Thread : StackOK(frames'[h])
  BY DEF FramesOK, StackOK
<1> QED
  BY <1>2, <1>3 DEF FramesOK

(* The head of a stack and what is below it.                               *)
LEMMA Stacked ==
  ASSUME NEW s, StackOK(s), s # <<>>
  PROVE  /\ Head(s) \in Frame /\ FrameOK(Head(s)) /\ Head(s) = s[1]
         /\ StackOK(Tail(s)) /\ (Tail(s) # <<>> => Head(Tail(s)).pc = "done")
         /\ \A i \in 1 .. Len(Tail(s)) : Tail(s)[i].pc = "done"
<1>1. Head(s) = s[1] /\ s[1] \in Frame /\ FrameOK(s[1])
  BY DEF StackOK
<1>2. /\ Tail(s) \in Seq(Frame) /\ Len(Tail(s)) = Len(s) - 1 /\ Len(s) \in Nat \ {0}
      /\ \A i \in 1 .. Len(Tail(s)) : Tail(s)[i] = s[i + 1]
  BY DEF StackOK
<1>3. \A i \in 1 .. Len(Tail(s)) : i + 1 \in 1 .. Len(s) /\ i + 1 \in 2 .. Len(s)
  BY <1>2
<1>4. \A i \in 1 .. Len(Tail(s)) : FrameOK(Tail(s)[i]) /\ Tail(s)[i].pc = "done"
  BY <1>2, <1>3 DEF StackOK
<1>5. \A i \in 2 .. Len(Tail(s)) : i \in 1 .. Len(Tail(s))
  BY <1>2
<1>6. Tail(s) # <<>> => Head(Tail(s)) = Tail(s)[1] /\ 1 \in 1 .. Len(Tail(s))
  BY <1>2
<1> QED
  BY <1>1, <1>2, <1>4, <1>5, <1>6 DEF StackOK

(* A frame on a stack whose frames are at "done".                          *)
LEMMA Pushed ==
  ASSUME NEW f \in Frame, FrameOK(f), NEW s, StackOK(s), \A i \in 1 .. Len(s) : s[i].pc = "done"
  PROVE  StackOK(<<f>> \o s) /\ <<f>> \o s # <<>> /\ Head(<<f>> \o s) = f
         /\ Tail(<<f>> \o s) = s
<1> DEFINE r == <<f>> \o s
<1>1. /\ r \in Seq(Frame) /\ Len(r) = 1 + Len(s) /\ Len(s) \in Nat
      /\ \A i \in 1 .. Len(r) : r[i] = IF i = 1 THEN f ELSE s[i - 1]
  BY DEF StackOK
<1>2. r # <<>> /\ Head(r) = f /\ Tail(r) = s
  BY DEF StackOK
<1> HIDE DEF r
<1>3. \A i \in 1 .. Len(r) : i # 1 => i - 1 \in 1 .. Len(s) /\ i \in 2 .. Len(r)
  BY <1>1
<1>4. \A i \in 2 .. Len(r) : i # 1 /\ i \in 1 .. Len(r)
  BY <1>1
<1>5. StackOK(r)
  BY <1>1, <1>3, <1>4 DEF StackOK
<1> QED
  BY <1>2, <1>5 DEF r

(* The innermost activation assigns to its locals and goes on.             *)
LEMMA Edited ==
  ASSUME FramesOK, NEW g \in Thread, frames[g] # <<>>, NEW f \in Frame, FrameOK(f),
         fresh' \subseteq fresh, frames' = [frames EXCEPT ![g] = [@ EXCEPT ![1] = f]]
  PROVE  FramesOK' /\ frames'[g] # <<>> /\ Top(g)' = f /\ \A h \in Thread \ {g} : frames'[h] = frames[h]
<1> DEFINE s == [frames[g] EXCEPT ![1] = f]
<1>1. StackOK(frames[g])
  BY DEF FramesOK
<1>2. s \in Seq(Frame) /\ Len(s) = Len(frames[g]) /\ s # <<>> /\ Head(s) = f
      /\ \A i \in 1 .. Len(s) : s[i] = IF i = 1 THEN f ELSE frames[g][i]
  BY <1>1 DEF StackOK
<1>3. frames' = [frames EXCEPT ![g] = s]
  OBVIOUS
<1> HIDE DEF s
<1>4. StackOK(s)
  BY <1>1, <1>2 DEF StackOK
<1>5. FramesOK'
  BY <1>3, <1>4, Replace
<1>6. frames'[g] = s /\ \A h \in Thread \ {g} : frames'[h] = frames[h]
  BY <1>3 DEF FramesOK
<1> QED
  BY <1>2, <1>5, <1>6 DEF Top

(* It goes on at p.                                                        *)
LEMMA Stepped ==
  ASSUME FramesOK, NEW g \in Thread, frames[g] # <<>>, NEW p \in FramePc, p \notin BusyPc,
         p \in ReadyPc => Top(g).pc \in ReadyPc, fresh' \subseteq fresh, Step(g, p)
  PROVE  FramesOK' /\ ~Busy(g)' /\ \A h \in Thread \ {g} : frames'[h] = frames[h]
<1> DEFINE f == [Top(g) EXCEPT !.pc = p]
<1>1. Top(g) \in Frame /\ FrameOK(Top(g)) /\ Top(g) = frames[g][1]
  BY Stacked DEF FramesOK, Top
<1>2. f \in Frame /\ FrameOK(f) /\ f.pc = p
  BY <1>1 DEF Frame, FrameOK
<1>3. frames' = [frames EXCEPT ![g] = [@ EXCEPT ![1] = f]]
  BY <1>1 DEF Step
<1> HIDE DEF f
<1>4. FramesOK' /\ Top(g)' = f /\ \A h \in Thread \ {g} : frames'[h] = frames[h]
  BY <1>2, <1>3, Edited
<1> QED
  BY <1>2, <1>4 DEF Busy

(* It returns.                                                             *)
LEMMA Popped ==
  ASSUME FramesOK, NEW g \in Thread, frames[g] # <<>>, fresh' \subseteq fresh, Pop(g)
  PROVE  FramesOK' /\ ~Busy(g)' /\ \A h \in Thread \ {g} : frames'[h] = frames[h]
<1>1. /\ StackOK(Tail(frames[g]))
      /\ Tail(frames[g]) # <<>> => Head(Tail(frames[g])).pc = "done"
  BY Stacked DEF FramesOK
<1>2. frames'[g] = Tail(frames[g]) /\ \A h \in Thread \ {g} : frames'[h] = frames[h]
  BY DEF FramesOK, Pop
<1>3. FramesOK'
  BY <1>1, Replace DEF Pop
<1> QED
  BY <1>1, <1>2, <1>3 DEF Busy, Top, BusyPc

(* The agent calls handleAgentCallback.                                    *)
LEMMA Called ==
  ASSUME FramesOK, NEW g \in Thread, NEW s, StackOK(s), \A i \in 1 .. Len(s) : s[i].pc = "done",
         NEW id \in ID, NEW e \in EventErr, fresh \subseteq Obj, fresh' \subseteq fresh,
         frames' = [frames EXCEPT ![g] = Activation(id, e) \o s]
  PROVE  FramesOK' /\ ~Busy(g)' /\ \A h \in Thread \ {g} : frames'[h] = frames[h]
<1> DEFINE f == [pc |-> "take", ev |-> id, err |-> e, obj |-> Nil, id |-> ZeroID, len |-> 0,
                 closer |-> Nil]
<1>1. f \in Frame /\ FrameOK(f) /\ f.pc = "take"
  BY DataAssumption DEF Frame, FrameOK, FramePc, BusyPc, ReadyPc
<1>2. Activation(id, e) = <<f>>
  BY DEF Activation
<1> HIDE DEF f
<1>3. StackOK(<<f>> \o s) /\ Head(<<f>> \o s) = f
  BY <1>1, Pushed
<1>4. frames' = [frames EXCEPT ![g] = <<f>> \o s]
  BY <1>2
<1>5. FramesOK'
  BY <1>3, <1>4, Replace
<1>6. frames'[g] = <<f>> \o s /\ \A h \in Thread \ {g} : frames'[h] = frames[h]
  BY <1>4 DEF FramesOK
<1> QED
  BY <1>1, <1>3, <1>5, <1>6 DEF Busy, Top, BusyPc

(* Struct o is somebody's to read.                                         *)
Claimed(o) == \/ \E id \in ID : t[id] = o
              \/ \E u \in User : pc[u] = "start" /\ loc[u].obj = o
              \/ \E g \in Thread : Busy(g) /\ Top(g).obj = o
(* A step leaves the messages of those structs alone.                      *)
Spared == \A o \in Obj : Claimed(o) => obj'[o].id = obj[o].id /\ obj'[o].raw = obj[o].raw

(* It does when it leaves all structs alone.                               *)
LEMMA SparedAll ==
  ASSUME UNCHANGED obj PROVE Spared
BY DEF Spared

(* Whoever puts a struct into the pool is its only holder.                 *)
LEMMA PutterAlone ==
  ASSUME OneHolder, NEW g \in Thread, frames[g] # <<>>, Top(g).pc \in HolderPc \ BusyPc,
         Top(g).obj \in Obj
  PROVE  ~Claimed(Top(g).obj)
<1> DEFINE o == Top(g).obj
           x == <<"callback", g>>
<1>0. x \in Holders(o)
  BY DEF Holders
<1>1. \A y \in Holders(o) : x = y
  BY <1>0 DEF OneHolder
<1>2. ASSUME NEW id \in ID, t[id] = o PROVE FALSE
  <2>1. <<"map", id>> \in Holders(o)
    BY <1>2 DEF Holders
  <2> QED
    BY <1>1, <2>1
<1>3. ASSUME NEW u \in User, pc[u] = "start", loc[u].obj = o PROVE FALSE
  <2>1. <<"start", u>> \in Holders(o)
    BY <1>3 DEF Holders
  <2> QED
    BY <1>1, <2>1
<1>4. ASSUME NEW h \in Thread, Busy(h), Top(h).obj = o PROVE FALSE
  <2>1. <<"callback", h>> \in Holders(o)
    BY <1>4 DEF Holders, Busy, BusyPc, HolderPc
  <2>2. h = g
    BY <1>1, <2>1
  <2> QED
    BY <1>4, <2>2 DEF Busy
<1> QED
  BY <1>2, <1>3, <1>4 DEF Claimed

(* A struct that is new or in the pool is nobody's to read.                *)
LEMMA PooledAlone ==
  ASSUME SizeInv, OneHolder, NEW o \in Obj, o \in fresh \/ pool[o] > 0
  PROVE  ~Claimed(o)
<1>1. CASE o \in fresh
  <2>1. \A g \in Thread : frames[g] # <<>> => Top(g).obj \notin fresh
    BY Stacked DEF SizeInv, FramesOK, Top, FrameOK
  <2> QED
    BY <1>1, <2>1 DEF SizeInv, TableOK, LocalsOK, UserOK, Claimed, Busy
<1>2. CASE pool[o] > 0
  <2> DEFINE x == <<"pool", 1>>
  <2>0. 1 \in 1 .. pool[o]
    BY <1>2 DEF SizeInv, TableOK
  <2>p. x \in Holders(o)
    BY <2>0 DEF Holders
  <2>1. \A y \in Holders(o) : x = y
    BY <2>p DEF OneHolder
  <2>2. ASSUME NEW id \in ID, t[id] = o PROVE FALSE
    <3>1. <<"map", id>> \in Holders(o)
      BY <2>2 DEF Holders
    <3> QED
      BY <2>1, <3>1
  <2>3. ASSUME NEW u \in User, pc[u] = "start", loc[u].obj = o PROVE FALSE
    <3>1. <<"start", u>> \in Holders(o)
      BY <2>3 DEF Holders
    <3> QED
      BY <2>1, <3>1
  <2>4. ASSUME NEW h \in Thread, Busy(h), Top(h).obj = o PROVE FALSE
    <3>1. <<"callback", h>> \in Holders(o)
      BY <2>4 DEF Holders, Busy, BusyPc, HolderPc
    <3> QED
      BY <2>1, <3>1
  <2> QED
    BY <2>2, <2>3, <2>4 DEF Claimed
<1> QED
  BY <1>1, <1>2

(* Steps that register nothing.                                            *)
LEMMA MapStays ==
  ASSUME SizeInv, Spared, \A id \in ID : t'[id] = t[id] \/ t'[id] = Nil
  PROVE  MapOK'
<1> SUFFICES ASSUME NEW id \in ID, t'[id] # Nil PROVE Whole(t[id])' /\ t'[id] = t[id]
  BY DEF MapOK
<1>1. t'[id] = t[id] /\ t[id] \in Obj /\ Whole(t[id])
  BY DEF SizeInv, MapOK, TableOK
<1>2. Claimed(t[id])
  BY <1>1 DEF Claimed
<1> QED
  BY <1>1, <1>2 DEF Spared, Whole

(* Steps after which no Start has a struct it had not before.              *)
LEMMA StartStays ==
  ASSUME SizeInv, Spared,
         \A u \in User : pc'[u] = "start" => pc[u] = "start" /\ loc'[u].obj = loc[u].obj
  PROVE  StartOK'
<1> SUFFICES ASSUME NEW u \in User, pc'[u] = "start" PROVE Whole(loc[u].obj)'
  BY DEF StartOK
<1>1. pc[u] = "start" /\ loc'[u].obj = loc[u].obj /\ loc[u].obj \in Obj /\ Whole(loc[u].obj)
  BY DEF SizeInv, StartOK, LocalsOK, UserOK
<1>2. Claimed(loc[u].obj)
  BY <1>1 DEF Claimed
<1> QED
  BY <1>1, <1>2 DEF Spared, Whole

(* Steps after which no callback has a struct it had not before.           *)
LEMMA HeldStays ==
  ASSUME SizeInv, Spared, \A h \in Thread : Busy(h)' => frames'[h] = frames[h]
  PROVE  HeldOK'
<1> SUFFICES ASSUME NEW h \in Thread, Busy(h)'
             PROVE  /\ Whole(Top(h).obj)'
                    /\ Top(h)'.pc = "ident" => Top(h)'.len = BufLen(obj[Top(h).obj].raw)'
  BY DEF HeldOK
<1>1. Busy(h) /\ Top(h)' = Top(h)
  BY DEF Busy, Top
<1>2. /\ Whole(Top(h).obj)
      /\ Top(h).pc = "ident" => Top(h).len = BufLen(obj[Top(h).obj].raw)
  BY <1>1 DEF SizeInv, HeldOK
<1>3. Top(h).obj \in Obj
  BY <1>1, Stacked DEF SizeInv, FramesOK, FrameOK, Top, Busy
<1>4. Claimed(Top(h).obj)
  BY <1>1 DEF Claimed
<1> QED
  BY <1>1, <1>2, <1>3, <1>4 DEF Spared, Whole, BufLen

(* Steps that write nothing.                                               *)
LEMMA SentStays ==
  ASSUME SizeInv, UNCHANGED sent PROVE SentOK'
BY DEF SizeInv, SentOK, RetransmitsWhole, BufLen

(* Steps that leave the table and the structs alone.                       *)
LEMMA TableStays ==
  ASSUME SizeInv, UNCHANGED <<t, obj, pool, fresh>> PROVE TableOK'
BY DEF SizeInv, TableOK

(* Steps that leave the calls of Start alone.                              *)
LEMMA LocalsStay ==
  ASSUME SizeInv, UNCHANGED <<loc, asked, fresh>>, \A u \in User : pc'[u] = pc[u]
  PROVE  LocalsOK'
BY DEF SizeInv, LocalsOK, UserOK

(* A step of a callback on goroutine g: the stacks of others, the calls of *)
(* Start and the loops of Collect and Close stay.                          *)
LEMMA CallbackLeaves ==
  ASSUME SizeInv, NEW g \in Thread, FramesOK', ~Busy(g)', Spared,
         \A h \in Thread \ {g} : frames'[h] = frames[h],
         UNCHANGED <<loc, asked, fresh, pc, todo>>
  PROVE  LocalsOK' /\ TodoOK' /\ ControlOK' /\ StartOK' /\ HeldOK'
<1>1. \A h \in Thread : Busy(h)' => frames'[h] = frames[h]
  OBVIOUS
<1> QED
  BY <1>1, LocalsStay, StartStays, HeldStays DEF SizeInv, TodoOK, ControlOK

(* The steps of handleAgentCallback, among them the copy into the pooled   *)
(* buffer (Retry), its write (RetryWrite), and the resets of Put.          *)
LEMMA CallbackKeepsSizes ==
  ASSUME SizeInv, OneHolder, NEW g \in Thread, CallbackStep(g)
  PROVE  SizeInv'
<1> DEFINE f == Top(g)
           o == f.obj
<1>0. frames[g] # <<>>
  BY Zenon DEF CallbackStep, In, Take, Default, Retry, RetryIdent, RetryStart, RetryAgent, RetryWrite,
     RetryDelete, RetryStop, Handle, Put, HandlerReturns
<1>f. /\ f \in Frame /\ FrameOK(f) /\ f = frames[g][1]
      /\ f.ev \in ID /\ f.id \in ID /\ f.len \in Nat /\ o \in Obj \cup {Nil}
      /\ f.pc \in FramePc /\ f.err \in EventErr /\ f.closer \in Closer \cup {Nil}
  <2>1. f \in Frame /\ FrameOK(f) /\ f = frames[g][1]
    BY <1>0, Stacked DEF SizeInv, FramesOK, Top
  <2> HIDE DEF f
  <2> QED
    BY <2>1 DEF Frame
<1>s. o \in Obj => /\ obj[o] \in Shape /\ obj[o].id \in ID /\ obj[o].attempt \in Nat
                   /\ obj[o].calls \in Nat /\ obj[o].h \in Nat /\ obj[o].raw \in Nat
  <2>1. o \in Obj => obj[o] \in Shape
    BY DEF SizeInv, TableOK
  <2> QED
    BY <2>1 DEF Shape
<1>u. UNCHANGED <<loc, asked, fresh, pc, todo>>
  BY Zenon DEF CallbackStep, Take, Default, Retry, RetryIdent, RetryStart, RetryAgent, RetryWrite,
     RetryDelete, RetryStop, Handle, Put, HandlerReturns, clientVars, histVars
<1>b. FramesOK
  BY DEF SizeInv
<1> USE DEF agentVars, clientVars, netVars, histVars, In
<1>1. CASE Take(g)
  <2> DEFINE q == t[f.ev]
  <2>1. UNCHANGED <<obj, pool, sent>>
    BY <1>1 DEF Take
  <2>2. Spared /\ SentOK'
    BY <2>1, SparedAll, SentStays
  <2>3. CASE (Pop(g) \/ Step(g, "default")) /\ UNCHANGED t
    <3>1. FramesOK' /\ ~Busy(g)' /\ \A h \in Thread \ {g} : frames'[h] = frames[h]
      BY <1>0, <1>b, <1>u, <2>3, Popped, Stepped DEF FramePc, BusyPc, ReadyPc
    <3> QED
      BY <1>u, <2>1, <2>2, <2>3, <3>1, CallbackLeaves, TableStays, MapStays DEF SizeInv
  <2>4. CASE /\ q # Nil /\ Unregister(q)
             /\ frames' = [frames EXCEPT ![g] = [@ EXCEPT ![1].obj = q,
                  ![1].pc = IF Completed(q, f.err) THEN "done" ELSE "retry"]]
    <3> DEFINE p == IF Completed(q, f.err) THEN "done" ELSE "retry"
               h == [f EXCEPT !.obj = q, !.pc = p]
    <3>1. q \in Obj /\ q \notin fresh /\ Whole(q) /\ obj[q].id \in ID
      BY <1>f, <2>4 DEF SizeInv, TableOK, MapOK, Shape
    <3>2. h \in Frame /\ FrameOK(h) /\ h.obj = q /\ h.pc = p /\ p \in {"done", "retry"}
      BY <1>f, <3>1, Zenon DEF Frame, FrameOK, FramePc, BusyPc, ReadyPc
    <3>3. frames' = [frames EXCEPT ![g] = [@ EXCEPT ![1] = h]]
      BY <1>0, <1>f, <2>4, Zenon
    <3> HIDE DEF h
    <3>4. /\ FramesOK' /\ frames'[g] # <<>> /\ Top(g)' = h
          /\ \A k \in Thread \ {g} : frames'[k] = frames[k]
      BY <1>0, <1>b, <1>u, <3>2, <3>3, Edited
    <3>5. t' \in [ID -> Obj \cup {Nil}] /\ \A id \in ID : t'[id] = t[id] \/ t'[id] = Nil
      BY <2>4, <3>1 DEF Unregister, SizeInv, TableOK
    <3>6. TableOK'
      BY <1>u, <2>1, <3>5, DataAssumption DEF SizeInv, TableOK
    <3>7. HeldOK'
      <4>1. ASSUME NEW k \in Thread \ {g}, Busy(k)' 
            PROVE  Whole(Top(k).obj)' /\ (Top(k)'.pc = "ident" => Top(k)'.len = BufLen(obj[Top(k).obj].raw)')
        <5>1. Busy(k) /\ Top(k)' = Top(k)
          BY <3>4, <4>1 DEF Busy, Top
        <5> QED
          BY <2>1, <5>1 DEF SizeInv, HeldOK, Whole, BufLen
      <4>2. Whole(Top(g).obj)' /\ Top(g)'.pc # "ident"
        BY <2>1, <3>1, <3>2, <3>4 DEF Whole
      <4> QED
        BY <4>1, <4>2 DEF HeldOK
    <3>8. MapOK' /\ StartOK' /\ LocalsOK' /\ TodoOK' /\ ControlOK'
      BY <1>u, <2>2, <3>5, MapStays, StartStays, LocalsStay DEF SizeInv, TodoOK, ControlOK
    <3> QED
      BY <2>2, <3>4, <3>6, <3>7, <3>8 DEF SizeInv
  <2> QED
    BY <1>1, <2>3, <2>4 DEF Take
<1>2. CASE Default(g)
  <2>1. UNCHANGED <<obj, t, pool, sent>> /\ Pop(g)
    BY <1>2 DEF Default
  <2>2. FramesOK' /\ ~Busy(g)' /\ \A h \in Thread \ {g} : frames'[h] = frames[h]
    BY <1>0, <1>b, <1>u, <2>1, Popped
  <2> QED
    BY <1>u, <2>1, <2>2, SparedAll, SentStays, CallbackLeaves, TableStays, MapStays DEF SizeInv
<1>3. CASE Retry(g)
  <2>1. f.pc = "retry" /\ o \in Obj /\ UNCHANGED <<t, pool, sent>>
    BY <1>3, <1>f DEF Retry, FrameOK, BusyPc
  <2> DEFINE h == [f EXCEPT !.len = BufLen(obj[o].raw), !.pc = "ident"]
             b == [obj[o] EXCEPT !.attempt = @ + 1]
  <2>2. BufLen(obj[o].raw) \in Nat
    BY <1>s, <2>1, DataAssumption DEF BufLen
  <2>3. /\ h \in Frame /\ FrameOK(h) /\ h.obj = o /\ h.pc = "ident"
        /\ h.len = BufLen(obj[o].raw)
    BY <1>f, <2>1, <2>2, Zenon DEF Frame, FrameOK, FramePc, BusyPc, ReadyPc
  <2>4. frames' = [frames EXCEPT ![g] = [@ EXCEPT ![1] = h]]
    BY <1>0, <1>f, <1>3, Zenon DEF Retry
  <2>5. b \in Shape /\ b.id = obj[o].id /\ b.raw = obj[o].raw
    BY <1>s, <2>1 DEF Shape
  <2>6. obj' = [obj EXCEPT ![o] = b]
    BY <1>3 DEF Retry
  <2> HIDE DEF b, h
  <2>7. /\ TableOK' /\ \A q \in Obj : obj'[q].id = obj[q].id /\ obj'[q].raw = obj[q].raw
    BY <1>u, <2>1, <2>5, <2>6 DEF SizeInv, TableOK
  <2>8. Spared
    BY <2>7 DEF Spared
  <2>9. /\ FramesOK' /\ frames'[g] # <<>> /\ Top(g)' = h
        /\ \A k \in Thread \ {g} : frames'[k] = frames[k]
    BY <1>0, <1>b, <1>u, <2>3, <2>4, Edited
  <2>10. HeldOK'
    <3>1. ASSUME NEW k \in Thread \ {g}, Busy(k)'
          PROVE  Whole(Top(k).obj)' /\ (Top(k)'.pc = "ident" => Top(k)'.len = BufLen(obj[Top(k).obj].raw)')
      <4>1. Busy(k) /\ Top(k)' = Top(k)
        BY <2>9, <3>1 DEF Busy, Top
      <4>2. Top(k).obj \in Obj
        BY <4>1, Stacked DEF SizeInv, FramesOK, FrameOK, Top, Busy
      <4> QED
        BY <2>7, <4>1, <4>2 DEF SizeInv, HeldOK, Whole, BufLen
    <3>2. Whole(o)
      BY <1>0, <2>1 DEF SizeInv, HeldOK, Busy, BusyPc
    <3>3. Whole(Top(g).obj)' /\ Top(g)'.len = BufLen(obj[Top(g).obj].raw)'
      BY <2>1, <2>3, <2>7, <2>9, <3>2 DEF Whole, BufLen
    <3> QED
      BY <3>1, <3>3 DEF HeldOK
  <2>11. MapOK' /\ StartOK' /\ LocalsOK' /\ TodoOK' /\ ControlOK' /\ SentOK'
    BY <1>u, <2>1, <2>8, MapStays, StartStays, LocalsStay, SentStays DEF SizeInv, TodoOK, ControlOK
  <2> QED
    BY <2>7, <2>9, <2>10, <2>11 DEF SizeInv
<1>4. CASE RetryIdent(g)
  <2>1. f.pc = "ident" /\ o \in Obj /\ UNCHANGED <<t, obj, pool, sent>>
    BY <1>4, <1>f DEF RetryIdent, FrameOK, BusyPc
  <2>2. Whole(o) /\ f.len = BufLen(obj[o].raw)
    BY <1>0, <2>1 DEF SizeInv, HeldOK, Busy, BusyPc
  <2> DEFINE h == [f EXCEPT !.id = obj[o].id, !.pc = "register"]
  <2>3. h \in Frame /\ h.id = obj[o].id /\ h.len = f.len /\ h.obj = o /\ h.pc = "register"
    BY <1>f, <1>s, <2>1 DEF Frame, FramePc
  <2>4. frames' = [frames EXCEPT ![g] = [@ EXCEPT ![1] = h]]
    BY <1>0, <1>f, <1>4, Zenon DEF RetryIdent
  <2> HIDE DEF h
  <2>5. FrameOK(h)
    BY <1>f, <2>1, <2>2, <2>3 DEF FrameOK, Whole
  <2>6. /\ FramesOK' /\ frames'[g] # <<>> /\ Top(g)' = h
        /\ \A k \in Thread \ {g} : frames'[k] = frames[k]
    BY <1>0, <1>b, <1>u, <2>3, <2>4, <2>5, Edited
  <2>7. HeldOK'
    <3>1. ASSUME NEW k \in Thread \ {g}, Busy(k)'
          PROVE  Whole(Top(k).obj)' /\ (Top(k)'.pc = "ident" => Top(k)'.len = BufLen(obj[Top(k).obj].raw)')
      <4>1. Busy(k) /\ Top(k)' = Top(k)
        BY <2>6, <3>1 DEF Busy, Top
      <4> QED
        BY <2>1, <4>1 DEF SizeInv, HeldOK, Whole, BufLen
    <3>2. Whole(Top(g).obj)' /\ Top(g)'.pc # "ident"
      BY <2>1, <2>2, <2>3, <2>6 DEF Whole
    <3> QED
      BY <3>1, <3>2 DEF HeldOK
  <2>8. MapOK' /\ StartOK' /\ LocalsOK' /\ TodoOK' /\ ControlOK' /\ SentOK' /\ TableOK'
    BY <1>u, <2>1, SparedAll, MapStays, StartStays, LocalsStay, SentStays, TableStays
    DEF SizeInv, TodoOK, ControlOK
  <2> QED
    BY <2>6, <2>7, <2>8 DEF SizeInv
<1>5. CASE RetryStart(g)
  <2>1. f.pc = "register" /\ o \in Obj /\ UNCHANGED <<obj, pool, sent>>
    BY <1>5, <1>f DEF RetryStart, FrameOK, BusyPc
  <2>2. Whole(o) /\ o \notin fresh
    BY <1>0, <1>f, <2>1 DEF SizeInv, HeldOK, Busy, BusyPc, FrameOK
  <2>3. FramesOK' /\ ~Busy(g)' /\ \A h \in Thread \ {g} : frames'[h] = frames[h]
    BY <1>0, <1>5, <1>b, <1>u, <2>1, Stepped DEF RetryStart, FramePc, BusyPc, ReadyPc
  <2>4. t' \in [ID -> Obj \cup {Nil}] /\ \A id \in ID : t'[id] \in {t[id], o}
    BY <1>5, <1>s, <2>1 DEF RetryStart, SizeInv, TableOK
  <2>5. TableOK' /\ MapOK'
    BY <1>u, <2>1, <2>2, <2>4 DEF SizeInv, TableOK, MapOK, Whole
  <2> QED
    BY <1>u, <2>1, <2>3, <2>5, SparedAll, SentStays, CallbackLeaves DEF SizeInv
<1>6. CASE RetryAgent(g)
  <2>1. UNCHANGED <<obj, t, pool, sent>> /\ f.pc = "agent" /\ (Step(g, "write") \/ Step(g, "faildel"))
    BY <1>6 DEF RetryAgent
  <2>2. FramesOK' /\ ~Busy(g)' /\ \A h \in Thread \ {g} : frames'[h] = frames[h]
    BY <1>0, <1>b, <1>u, <2>1, Stepped DEF FramePc, BusyPc, ReadyPc
  <2> QED
    BY <1>u, <2>1, <2>2, SparedAll, SentStays, CallbackLeaves, TableStays, MapStays DEF SizeInv
<1>7. CASE RetryWrite(g)
  <2>1. UNCHANGED <<obj, t, pool>> /\ f.pc = "write" /\ (Pop(g) \/ Step(g, "wdel"))
    BY <1>7 DEF RetryWrite
  <2>2. FramesOK' /\ ~Busy(g)' /\ \A h \in Thread \ {g} : frames'[h] = frames[h]
    BY <1>0, <1>b, <1>u, <2>1, Popped, Stepped DEF FramePc, BusyPc, ReadyPc
  <2>3. f.id # ZeroID /\ f.len = BufLen(MsgLen[f.id])
    BY <1>f, <2>1 DEF FrameOK, ReadyPc
  <2>4. UNCHANGED sent \/ sent' = sent \cup {<<f.id, f.len>>}
    BY <1>7 DEF RetryWrite, WriteOK, WriteErr
  <2> HIDE DEF f
  <2>5. SentOK'
    BY <1>f, <2>3, <2>4 DEF SizeInv, SentOK, RetransmitsWhole, BufLen
  <2> QED
    BY <1>u, <2>1, <2>2, <2>5, SparedAll, CallbackLeaves, TableStays, MapStays DEF SizeInv
<1>8. CASE RetryDelete(g)
  <2>1. /\ UNCHANGED <<obj, pool, sent>> /\ (Step(g, "done") \/ Step(g, "stop"))
        /\ t' = [t EXCEPT ![f.id] = Nil]
    BY <1>8 DEF RetryDelete
  <2>2. FramesOK' /\ ~Busy(g)' /\ \A h \in Thread \ {g} : frames'[h] = frames[h]
    BY <1>0, <1>b, <1>u, <2>1, Stepped DEF FramePc, BusyPc, ReadyPc
  <2>3. t' \in [ID -> Obj \cup {Nil}] /\ \A id \in ID : t'[id] = t[id] \/ t'[id] = Nil
    BY <2>1 DEF SizeInv, TableOK
  <2>4. TableOK'
    BY <1>u, <2>1, <2>3, DataAssumption DEF SizeInv, TableOK
  <2> QED
    BY <1>u, <2>1, <2>2, <2>3, <2>4, SparedAll, SentStays, CallbackLeaves, MapStays DEF SizeInv
<1>9. CASE RetryStop(g)
  <2> DEFINE h == [f EXCEPT !.pc = "done"]
             r == Tail(frames[g])
             s == <<h>> \o r
  <2>1. UNCHANGED <<t, obj, pool, sent>>
    BY <1>9 DEF RetryStop
  <2>2. h \in Frame /\ FrameOK(h) /\ h.pc = "done"
    BY <1>f DEF Frame, FrameOK, FramePc, BusyPc, ReadyPc
  <2>3. StackOK(r) /\ \A i \in 1 .. Len(r) : r[i].pc = "done"
    BY <1>0, Stacked DEF SizeInv, FramesOK
  <2>4. \/ frames' = [frames EXCEPT ![g] = Activation(f.id, "stopped") \o s]
        \/ frames' = [frames EXCEPT ![g] = s]
    BY <1>9, Zenon DEF RetryStop
  <2> HIDE DEF h, r
  <2>5. StackOK(s) /\ Head(s) = h /\ s # <<>>
    BY <2>2, <2>3, Pushed
  <2>6. \A i \in 1 .. Len(s) : s[i].pc = "done"
    <3>1. /\ Len(s) = 1 + Len(r) /\ Len(r) \in Nat
          /\ \A i \in 1 .. Len(s) : s[i] = IF i = 1 THEN h ELSE r[i - 1]
      BY <2>2, <2>3 DEF StackOK
    <3> HIDE DEF s
    <3>2. \A i \in 1 .. Len(s) : i = 1 \/ i - 1 \in 1 .. Len(r)
      BY <3>1
    <3> QED
      BY <2>2, <2>3, <3>1, <3>2
  <2> HIDE DEF s
  <2>7. FramesOK' /\ ~Busy(g)' /\ \A k \in Thread \ {g} : frames'[k] = frames[k]
    <3>1. CASE frames' = [frames EXCEPT ![g] = Activation(f.id, "stopped") \o s]
      BY <1>b, <1>f, <1>u, <2>5, <2>6, <3>1, Called DEF EventErr, SizeInv, TableOK
    <3>2. CASE frames' = [frames EXCEPT ![g] = s]
      <4>1. FramesOK'
        BY <1>b, <1>u, <2>5, <3>2, Replace
      <4>2. frames'[g] = s /\ \A k \in Thread \ {g} : frames'[k] = frames[k]
        BY <1>b, <3>2 DEF FramesOK
      <4> QED
        BY <2>2, <2>5, <4>1, <4>2 DEF Busy, Top, BusyPc
    <3> QED
      BY <2>4, <3>1, <3>2
  <2> QED
    BY <1>u, <2>1, <2>7, SparedAll, SentStays, CallbackLeaves, TableStays, MapStays DEF SizeInv
<1>10. CASE Handle(g)
  <2>1. UNCHANGED <<t, pool, sent>> /\ Step(g, "put")
    BY <1>10 DEF Handle
  <2> DEFINE b == [obj[o] EXCEPT !.calls = @ + 1]
  <2>2. o \in Obj => b \in Shape /\ b.id = obj[o].id /\ b.raw = obj[o].raw
    BY <1>s DEF Shape
  <2>3. obj' = [obj EXCEPT ![o] = b]
    BY <1>10 DEF Handle
  <2> HIDE DEF b
  <2>4. TableOK' /\ Spared
    BY <1>u, <2>1, <2>2, <2>3 DEF SizeInv, TableOK, Spared
  <2>5. FramesOK' /\ ~Busy(g)' /\ \A h \in Thread \ {g} : frames'[h] = frames[h]
    BY <1>0, <1>b, <1>u, <2>1, Stepped DEF FramePc, BusyPc, ReadyPc
  <2> QED
    BY <1>u, <2>1, <2>4, <2>5, SentStays, CallbackLeaves, MapStays DEF SizeInv
<1>11. CASE Put(g)
  <2>1. /\ UNCHANGED <<t, sent>> /\ f.pc \in {"put", "putattempt", "putid"}
        /\ Step(g, "putattempt") \/ Step(g, "putid") \/ Pop(g)
    BY <1>11 DEF Put
  <2>2. FramesOK' /\ ~Busy(g)' /\ \A h \in Thread \ {g} : frames'[h] = frames[h]
    BY <1>0, <1>b, <1>u, <2>1, Popped, Stepped DEF FramePc, BusyPc, ReadyPc
  <2>3. o \in Obj => ~Claimed(o)
    BY <1>0, <2>1, PutterAlone DEF HolderPc, BusyPc
  <2>4. \/ obj' = [obj EXCEPT ![o].raw = 0] \/ obj' = [obj EXCEPT ![o].attempt = 0]
        \/ obj' = [obj EXCEPT ![o].id = ZeroID]
    BY <1>11 DEF Put
  <2>5. PICK b : obj' = [obj EXCEPT ![o] = b] /\ (o \in Obj => b \in Shape)
    <3>1. CASE obj' = [obj EXCEPT ![o].raw = 0]
      <4> WITNESS [obj[o] EXCEPT !.raw = 0]
      <4> QED
        BY <1>s, <3>1 DEF Shape
    <3>2. CASE obj' = [obj EXCEPT ![o].attempt = 0]
      <4> WITNESS [obj[o] EXCEPT !.attempt = 0]
      <4> QED
        BY <1>s, <3>2 DEF Shape
    <3>3. CASE obj' = [obj EXCEPT ![o].id = ZeroID]
      <4> WITNESS [obj[o] EXCEPT !.id = ZeroID]
      <4> QED
        BY <1>s, <3>3, DataAssumption DEF Shape
    <3> QED
      BY <2>4, <3>1, <3>2, <3>3
  <2>6. pool' = pool \/ pool' = [pool EXCEPT ![o] = @ + 1]
    BY <1>11 DEF Put
  <2>7. o \notin fresh
    BY <1>f DEF FrameOK
  <2>8. pool' \in [Obj -> Nat] /\ \A q \in Obj : pool'[q] > 0 => q \notin fresh
    BY <2>6, <2>7 DEF SizeInv, TableOK
  <2>9. TableOK'
    BY <1>u, <2>1, <2>5, <2>8 DEF SizeInv, TableOK
  <2>10. Spared
    BY <2>3, <2>5 DEF SizeInv, TableOK, Spared
  <2> QED
    BY <1>u, <2>1, <2>2, <2>9, <2>10, SentStays, CallbackLeaves, MapStays DEF SizeInv
<1>12. CASE HandlerReturns(g)
  <2>1. UNCHANGED <<obj, t, pool, sent>> /\ (Pop(g) \/ Step(g, "put"))
    BY <1>12 DEF HandlerReturns
  <2>2. FramesOK' /\ ~Busy(g)' /\ \A h \in Thread \ {g} : frames'[h] = frames[h]
    BY <1>0, <1>b, <1>u, <2>1, Popped, Stepped DEF FramePc, BusyPc, ReadyPc
  <2> QED
    BY <1>u, <2>1, <2>2, SparedAll, SentStays, CallbackLeaves, TableStays, MapStays DEF SizeInv
<1> QED
  BY <1>1, <1>2, <1>3, <1>4, <1>5, <1>6, <1>7, <1>8, <1>9, <1>10, <1>11, <1>12 DEF CallbackStep

(* The callback of an event begins on goroutine g, which has none.         *)
LEMMA CallsBack ==
  ASSUME SizeInv, NEW g \in Thread, frames[g] = <<>>, NEW id \in ID, NEW e \in EventErr,
         fresh' = fresh, Callback(g, id, e)
  PROVE  FramesOK' /\ ~Busy(g)' /\ \A h \in Thread \ {g} : frames'[h] = frames[h]
<1>1. StackOK(frames[g]) /\ \A i \in 1 .. Len(frames[g]) : frames[g][i].pc = "done"
  BY DEF SizeInv, FramesOK
<1>2. frames' = [frames EXCEPT ![g] = Activation(id, e) \o frames[g]]
  BY DEF Callback, SizeInv, FramesOK
<1> QED
  BY <1>1, <1>2, Called DEF SizeInv, TableOK

(* Steps that leave the stacks alone.                                      *)
LEMMA FramesStay ==
  ASSUME SizeInv, UNCHANGED frames, fresh' \subseteq fresh, Spared PROVE FramesOK' /\ HeldOK'
<1>1. \A f : FrameOK(f) => FrameOK(f)'
  BY DEF FrameOK, BufLen
<1>2. FramesOK'
  BY <1>1 DEF SizeInv, FramesOK, StackOK
<1> QED
  BY <1>2, HeldStays

(* The steps of Start, among them filling a struct (Acquire) and the first *)
(* write (StartWrite).                                                     *)
LEMMA UserKeepsSizes ==
  ASSUME SizeInv, OneHolder, NEW u \in User, u \in Thread,
         UserStep(u) \/ \E id \in ID \ {ZeroID} : StartCall(u, id)
  PROVE  SizeInv'
<1>0. /\ loc[u] \in Local /\ loc[u].id \in ID /\ loc[u].obj \in Obj \cup {Nil} /\ UserOK(u)
      /\ loc[u].call \in Nat
  <2>1. loc[u] \in Local /\ UserOK(u)
    BY DEF SizeInv, LocalsOK
  <2> QED
    BY <2>1 DEF Local
<1> USE DEF agentVars, clientVars, netVars, histVars, At
<1>1. CASE CallbackStep(u)
  BY <1>1, CallbackKeepsSizes
<1>p. ASSUME NEW p \in AnyPc, Goto(u, p)
      PROVE  ControlOK' /\ pc'[u] = p /\ \A v \in User \ {u} : pc'[v] = pc[v]
  BY <1>p, Roles DEF Goto, SizeInv, ControlOK
<1>l. ASSUME UNCHANGED <<loc, asked, fresh>>, pc'[u] # "start", pc[u] # "idle",
             \A v \in User \ {u} : pc'[v] = pc[v]
      PROVE  LocalsOK'
  BY <1>l DEF SizeInv, LocalsOK, UserOK
<1>s. ASSUME Spared, UNCHANGED loc, pc'[u] # "start", \A v \in User \ {u} : pc'[v] = pc[v]
      PROVE  StartOK'
  <2>1. \A v \in User : pc'[v] = "start" => pc[v] = "start" /\ loc'[v].obj = loc[v].obj
    BY <1>s
  <2> QED
    BY <1>s, <2>1, StartStays
<1> USE DEF UserPc, AnyPc
<1>2. ASSUME NEW id \in ID \ {ZeroID}, StartCall(u, id) PROVE SizeInv'
  <2>1. UNCHANGED <<t, obj, pool, fresh, frames, sent, todo>> /\ Goto(u, "acquire")
    BY <1>2 DEF StartCall
  <2>2. ControlOK' /\ pc'[u] = "acquire" /\ \A v \in User \ {u} : pc'[v] = pc[v]
    BY <1>p, <2>1
  <2>3. asked' \in Seq(ID) /\ Len(asked) + 1 \in Nat
    <3>1. asked' = Append(asked, id)
      BY <1>2, Zenon DEF StartCall
    <3>2. asked \in Seq(ID)
      BY Zenon DEF SizeInv, LocalsOK
    <3> QED
      BY <3>1, <3>2
  <2> DEFINE l == [id |-> id, obj |-> Nil, call |-> Len(asked) + 1]
  <2>4. loc' = [loc EXCEPT ![u] = l] /\ l \in Local /\ l.id # ZeroID /\ l.obj = Nil
    BY <1>2, <2>3 DEF StartCall, Local
  <2> HIDE DEF l
  <2>5. loc' \in [Thread -> Local] /\ loc'[u] = l /\ \A v \in User \ {u} : loc'[v] = loc[v]
    BY <2>4, Roles DEF SizeInv, LocalsOK
  <2>6. Nil \notin fresh
    BY DataAssumption DEF SizeInv, TableOK
  <2>7. LocalsOK'
    <3>1. ASSUME NEW v \in User PROVE UserOK(v)'
      <4>1. CASE v = u
        BY <2>1, <2>2, <2>4, <2>5, <2>6, <4>1 DEF UserOK
      <4>2. CASE v # u
        <5>1. pc'[v] = pc[v] /\ loc'[v] = loc[v] /\ fresh' = fresh
          BY <2>1, <2>2, <2>5, <4>2
        <5>2. UserOK(v)
          BY Zenon DEF SizeInv, LocalsOK
        <5> QED
          BY <5>1, <5>2 DEF UserOK
      <4> QED
        BY <4>1, <4>2
    <3> QED
      BY <2>3, <2>5, <3>1, Zenon DEF LocalsOK
  <2>8. \A v \in User : pc'[v] = "start" => pc[v] = "start" /\ loc'[v].obj = loc[v].obj
    BY <2>2, <2>5
  <2> QED
    BY <2>1, <2>2, <2>7, <2>8, SparedAll, StartStays, FramesStay, SentStays, TableStays, MapStays
    DEF SizeInv, TodoOK
<1>3. ASSUME NEW o \in Obj, Acquire(u, o) PROVE SizeInv'
  <2> DEFINE b == [id |-> loc[u].id, attempt |-> 0, calls |-> 0, h |-> loc[u].call,
                   raw |-> MsgLen[loc[u].id]]
             l == [loc[u] EXCEPT !.obj = o]
  <2>1. /\ UNCHANGED <<t, frames, sent, asked, todo>> /\ obj' = [obj EXCEPT ![o] = b]
        /\ loc' = [loc EXCEPT ![u] = l] /\ Goto(u, "start") /\ pc[u] = "acquire"
    BY <1>3 DEF Acquire
  <2>2. \/ o \in fresh /\ fresh' = fresh \ {o} /\ UNCHANGED pool
        \/ pool[o] > 0 /\ pool' = [pool EXCEPT ![o] = @ - 1] /\ UNCHANGED fresh
    BY <1>3 DEF Acquire
  <2>3. ~Claimed(o)
    BY <2>2, PooledAlone
  <2>4. b \in Shape /\ b.id = loc[u].id /\ b.raw = MsgLen[b.id] /\ b.id # ZeroID
    BY <1>0, <2>1, DataAssumption DEF Shape, UserOK
  <2>5. l \in Local /\ l.obj = o /\ l.id = loc[u].id
    BY <1>0 DEF Local
  <2> HIDE DEF b, l
  <2>6. Spared
    BY <2>1, <2>3 DEF SizeInv, TableOK, Spared
  <2>7. ControlOK' /\ pc'[u] = "start" /\ \A v \in User \ {u} : pc'[v] = pc[v]
    BY <2>1, Roles DEF Goto, SizeInv, ControlOK
  <2>8. fresh' \subseteq fresh /\ o \notin fresh'
    BY <2>2 DEF SizeInv, TableOK
  <2>9. TableOK'
    <3>1. pool' \in [Obj -> Nat] /\ \A q \in Obj : pool'[q] > 0 => q \notin fresh'
      BY <2>2, <2>8 DEF SizeInv, TableOK
    <3> QED
      BY <2>1, <2>4, <2>8, <3>1 DEF SizeInv, TableOK
  <2>10. loc' \in [Thread -> Local] /\ loc'[u] = l /\ \A v \in User \ {u} : loc'[v] = loc[v]
    BY <2>1, <2>5, Roles DEF SizeInv, LocalsOK
  <2>11. LocalsOK'
    BY <1>0, <2>1, <2>5, <2>7, <2>8, <2>10 DEF SizeInv, LocalsOK, UserOK
  <2>12. StartOK'
    <3>1. ASSUME NEW v \in User \ {u}, pc'[v] = "start" PROVE Whole(loc[v].obj)'
      <4>1. loc'[v] = loc[v] /\ pc[v] = "start" /\ loc[v].obj \in Obj /\ Whole(loc[v].obj)
        BY <2>7, <2>10, <3>1 DEF SizeInv, StartOK, LocalsOK, UserOK
      <4>2. Claimed(loc[v].obj)
        BY <4>1 DEF Claimed
      <4> QED
        BY <2>6, <4>1, <4>2 DEF Spared, Whole
    <3>2. Whole(loc[u].obj)'
      <4>1. obj'[o] = b
        BY <2>1 DEF SizeInv, TableOK
      <4> QED
        BY <2>4, <2>5, <2>10, <4>1 DEF Whole
    <3> QED
      BY <3>1, <3>2 DEF StartOK
  <2> QED
    BY <2>1, <2>6, <2>7, <2>8, <2>9, <2>11, <2>12, FramesStay, SentStays, MapStays DEF SizeInv, TodoOK
<1>4. CASE StartClient(u)
  <2> DEFINE o == loc[u].obj
  <2>1. /\ UNCHANGED <<obj, pool, fresh, loc, frames, sent, asked, todo>> /\ pc[u] = "start"
        /\ Goto(u, "agent") \/ Goto(u, "idle")
        /\ t' = t \/ t' = [t EXCEPT ![obj[o].id] = o]
    BY <1>4 DEF StartClient
  <2>2. ControlOK' /\ pc'[u] # "start" /\ \A v \in User \ {u} : pc'[v] = pc[v]
    BY <1>p, <2>1
  <2>3. o \in Obj /\ Whole(o) /\ o \notin fresh
    BY <1>0, <2>1 DEF UserOK, SizeInv, StartOK
  <2>4. t' \in [ID -> Obj \cup {Nil}] /\ \A id \in ID : t'[id] \in {t[id], o}
    BY <2>1, <2>3 DEF SizeInv, TableOK
  <2>5. TableOK' /\ MapOK'
    BY <2>1, <2>3, <2>4 DEF SizeInv, TableOK, MapOK, Whole
  <2>6. LocalsOK' /\ StartOK'
    BY <1>l, <1>s, <2>1, <2>2, SparedAll
  <2> QED
    BY <2>1, <2>2, <2>5, <2>6, SparedAll, FramesStay, SentStays DEF SizeInv, TodoOK
<1>5. ASSUME UNCHANGED <<t, obj, pool, fresh, loc, frames, asked, todo>>, pc[u] # "idle", SentOK',
             NEW p \in AnyPc, p # "start", Goto(u, p)
      PROVE  SizeInv'
  <2>1. ControlOK' /\ pc'[u] = p /\ \A v \in User \ {u} : pc'[v] = pc[v]
    BY <1>5, Roles DEF Goto, SizeInv, ControlOK
  <2> QED
    BY <1>5, <1>l, <1>s, <2>1, SparedAll, TableStays, MapStays, FramesStay DEF SizeInv, TodoOK
<1>6. CASE StartAgent(u)
  <2>1. /\ UNCHANGED <<t, obj, pool, fresh, loc, frames, asked, todo, sent>> /\ pc[u] # "idle"
        /\ Goto(u, "write") \/ Goto(u, "idle")
    BY <1>6 DEF StartAgent, Return
  <2> QED
    BY <1>5, <2>1, SentStays
<1>7. CASE StartWrite(u)
  <2>1. /\ UNCHANGED <<t, obj, pool, fresh, loc, frames, asked, todo>> /\ pc[u] = "write"
        /\ Goto(u, "del") \/ Goto(u, "idle")
    BY <1>7 DEF StartWrite, Return
  <2>2. sent' = sent \/ sent' = sent \cup {<<loc[u].id, MsgLen[loc[u].id]>>}
    BY <1>7, Zenon DEF StartWrite, WriteOK, WriteErr
  <2>3. SentOK'
    <3>1. loc[u].id # ZeroID /\ MsgLen[loc[u].id] \in Nat
      BY <1>0, <2>1, DataAssumption DEF UserOK
    <3> QED
      BY <1>0, <2>2, <3>1 DEF SizeInv, SentOK, RetransmitsWhole, BufLen
  <2> QED
    BY <1>5, <2>1, <2>3
<1>8. CASE StartDelete(u)
  <2>1. /\ UNCHANGED <<obj, pool, fresh, loc, frames, asked, todo, sent>> /\ pc[u] = "del"
        /\ Goto(u, "stop") /\ t' = [t EXCEPT ![loc[u].id] = Nil]
    BY <1>8 DEF StartDelete
  <2>2. ControlOK' /\ pc'[u] = "stop" /\ \A v \in User \ {u} : pc'[v] = pc[v]
    BY <1>p, <2>1
  <2>3. t' \in [ID -> Obj \cup {Nil}] /\ \A id \in ID : t'[id] = t[id] \/ t'[id] = Nil
    BY <2>1 DEF SizeInv, TableOK
  <2>4. TableOK'
    BY <2>1, <2>3, DataAssumption DEF SizeInv, TableOK
  <2> QED
    BY <1>l, <1>s, <2>1, <2>2, <2>3, <2>4, SparedAll, MapStays, FramesStay, SentStays DEF SizeInv, TodoOK
<1>9. CASE StartStop(u)
  <2>1. /\ UNCHANGED <<t, obj, pool, fresh, loc, asked, todo, sent>> /\ pc[u] = "stop"
        /\ Goto(u, "ret") /\ frames[u] = <<>>
        /\ Callback(u, loc[u].id, "stopped") \/ UNCHANGED frames
    BY <1>9 DEF StartStop, AgentStop
  <2>2. ControlOK' /\ pc'[u] = "ret" /\ \A v \in User \ {u} : pc'[v] = pc[v]
    BY <1>p, <2>1
  <2>3. FramesOK' /\ HeldOK'
    <3>1. CASE UNCHANGED frames
      BY <2>1, <3>1, FramesStay, SparedAll
    <3>2. CASE Callback(u, loc[u].id, "stopped")
      <4>1. FramesOK' /\ ~Busy(u)' /\ \A h \in Thread \ {u} : frames'[h] = frames[h]
        BY <1>0, <2>1, <3>2, CallsBack DEF EventErr
      <4>2. \A h \in Thread : Busy(h)' => frames'[h] = frames[h]
        BY <4>1
      <4> QED
        BY <2>1, <4>1, <4>2, HeldStays, SparedAll
    <3> QED
      BY <2>1, <3>1, <3>2
  <2> QED
    BY <1>l, <1>s, <2>1, <2>2, <2>3, SparedAll, TableStays, MapStays, SentStays DEF SizeInv, TodoOK
<1>10. CASE StartFail(u)
  <2>1. /\ UNCHANGED <<t, obj, pool, fresh, loc, frames, asked, todo, sent>> /\ pc[u] # "idle"
        /\ Goto(u, "idle")
    BY <1>10 DEF StartFail, Return
  <2> QED
    BY <1>5, <2>1, SentStays
<1> QED
  BY <1>1, <1>2, <1>3, <1>4, <1>6, <1>7, <1>8, <1>9, <1>10 DEF UserStep

(* Steps of Client.Close, of the collector, the reader and the clock that  *)
(* touch neither structs nor calls of Start: at most they begin a callback *)
(* on goroutine g.                                                         *)
LEMMA OthersKeepSizes ==
  ASSUME SizeInv, UNCHANGED <<t, obj, pool, fresh, asked, sent>>, ControlOK', TodoOK',
         loc' \in [Thread -> Local],
         \A u \in User : pc'[u] = pc[u] /\ loc'[u] = loc[u],
         NEW g \in Thread,
         UNCHANGED frames \/ (FramesOK' /\ ~Busy(g)' /\ \A h \in Thread \ {g} : frames'[h] = frames[h])
  PROVE  SizeInv'
<1>1. LocalsOK' /\ StartOK'
  BY SparedAll, StartStays DEF SizeInv, LocalsOK, UserOK
<1>2. CASE UNCHANGED frames
  BY <1>1, <1>2, SparedAll, FramesStay, TableStays, MapStays, SentStays DEF SizeInv
<1>3. CASE FramesOK' /\ ~Busy(g)' /\ \A h \in Thread \ {g} : frames'[h] = frames[h]
  <2>1. \A h \in Thread : Busy(h)' => frames'[h] = frames[h]
    BY <1>3
  <2> QED
    BY <1>1, <1>3, <2>1, SparedAll, HeldStays, TableStays, MapStays, SentStays DEF SizeInv
<1> QED
  BY <1>2, <1>3

(* Every step of the client keeps the messages whole while each struct has *)
(* one holder.                                                             *)
LEMMA NextSizes == SizeInv /\ OneHolder /\ [Next]_vars => SizeInv'
<1> SUFFICES ASSUME SizeInv, OneHolder, [Next]_vars PROVE SizeInv'
  OBVIOUS
<1> USE DEF agentVars, clientVars, chanVars, netVars, histVars, At
<1>1. ASSUME NEW g \in Thread, CallbackStep(g) PROVE SizeInv'
  BY <1>1, CallbackKeepsSizes
<1>2. ASSUME NEW u \in User, UserStep(u) \/ \E id \in ID \ {ZeroID} : StartCall(u, id)
      PROVE  SizeInv'
  BY <1>2, UserKeepsSizes, Roles
<1>3. loc \in [Thread -> Local] /\ ControlOK /\ TodoOK /\ User \subseteq Thread
  BY Roles DEF SizeInv, LocalsOK
<1>p. ASSUME NEW g \in Thread \ User, NEW p \in AnyPc, Goto(g, p)
      PROVE  ControlOK' /\ \A u \in User : pc'[u] = pc[u]
  BY <1>3, <1>p DEF Goto, ControlOK
<1>t. ASSUME UNCHANGED todo PROVE TodoOK'
  BY <1>3, <1>t DEF TodoOK
<1>r. Coll \notin User /\ Reader \notin User /\ \A k \in Closer \cup Owner : k \in Thread \ User
  BY ThreadAssumption
<1> USE DEF AnyPc, UserPc, CollPc, ReaderPc, CloserPc
<1>4. ASSUME NEW g \in Thread \ User, NEW p \in AnyPc, Goto(g, p) \/ UNCHANGED pc, TodoOK',
             UNCHANGED <<t, obj, pool, fresh, asked, sent, loc, frames>>
      PROVE  SizeInv'
  <2>1. ControlOK' /\ \A u \in User : pc'[u] = pc[u]
    BY <1>3, <1>4, <1>p DEF ControlOK
  <2> QED
    BY <1>3, <1>4, <2>1, OthersKeepSizes
<1>5. ASSUME NEW g \in Thread \ User, NEW p, NEW e \in EventErr, EndNext(g, p, e) PROVE SizeInv'
  <2>1. /\ UNCHANGED <<t, obj, pool, fresh, asked, sent, loc, pc>> /\ frames[g] = <<>>
    BY <1>5 DEF EndNext
  <2>2. PICK id \in todo[g] : todo' = [todo EXCEPT ![g] = @ \ {id}] /\ Callback(g, id, e)
    BY <1>5 DEF EndNext
  <2>3. id \in ID /\ TodoOK' /\ ControlOK'
    BY <1>3, <2>1, <2>2 DEF TodoOK, ControlOK
  <2>4. FramesOK' /\ ~Busy(g)' /\ \A h \in Thread \ {g} : frames'[h] = frames[h]
    BY <2>1, <2>2, <2>3, CallsBack
  <2> QED
    BY <1>3, <2>1, <2>3, <2>4, OthersKeepSizes
<1>6. CASE CollectorStep
  <2>1. CASE Collect
    <3>1. TodoOK'
      BY <1>3, <2>1 DEF Collect, TodoOK
    <3> QED
      BY <1>4, <1>r, <2>1, <3>1, Roles DEF Collect
  <2>2. CASE CollectorExit \/ CollectReturn
    BY <1>4, <1>r, <1>t, <2>2, Roles DEF CollectorExit, CollectReturn
  <2> QED
    BY <1>1, <1>5, <1>6, <1>r, <2>1, <2>2, Roles DEF CollectorStep, EventErr
<1>7. ASSUME NEW id \in ID, Expire(id) PROVE SizeInv'
  BY <1>4, <1>7, <1>r, <1>t, Roles DEF Expire
<1>8. CASE Select \/ ReadFails
  BY <1>4, <1>8, <1>r, <1>t, Roles DEF Select, ReadFails
<1>9. ASSUME NEW id \in ID, Read(id) PROVE SizeInv'
  <2> DEFINE l == [loc[Reader] EXCEPT !.id = id]
  <2>1. /\ UNCHANGED <<t, obj, pool, fresh, asked, sent, frames, todo>> /\ Goto(Reader, "process")
        /\ loc' = [loc EXCEPT ![Reader] = l]
    BY <1>9 DEF Read
  <2>2. l \in Local
    <3>1. loc[Reader] \in Local
      BY <1>3, Roles
    <3> QED
      BY <3>1 DEF Local
  <2> HIDE DEF l
  <2>3. loc' \in [Thread -> Local] /\ \A u \in User : loc'[u] = loc[u]
    BY <1>3, <1>r, <2>1, <2>2
  <2>4. ControlOK' /\ (\A u \in User : pc'[u] = pc[u]) /\ TodoOK'
    BY <1>p, <1>r, <1>t, <2>1, Roles
  <2> QED
    BY <2>1, <2>3, <2>4, OthersKeepSizes, Roles
<1>10. CASE Process
  <2>1. /\ UNCHANGED <<t, obj, pool, fresh, loc, asked, sent, todo>> /\ frames[Reader] = <<>>
        /\ Goto(Reader, "exit") \/ Goto(Reader, "select")
        /\ Callback(Reader, loc[Reader].id, "nil") \/ UNCHANGED frames
    BY <1>10 DEF Process
  <2>2. loc[Reader].id \in ID
    <3>1. loc[Reader] \in Local
      BY <1>3, Roles
    <3> QED
      BY <3>1 DEF Local
  <2>3. \/ UNCHANGED frames
        \/ FramesOK' /\ ~Busy(Reader)' /\ \A h \in Thread \ {Reader} : frames'[h] = frames[h]
    BY <2>1, <2>2, CallsBack, Roles DEF EventErr
  <2>4. ControlOK' /\ (\A u \in User : pc'[u] = pc[u]) /\ TodoOK'
    BY <1>p, <1>r, <1>t, <2>1, Roles
  <2> QED
    BY <1>3, <2>1, <2>3, <2>4, OthersKeepSizes, Roles
<1>11. ASSUME NEW k \in Closer, CloseBegin(k) PROVE SizeInv'
  BY <1>4, <1>11, <1>r, <1>t DEF CloseBegin
<1>12. ASSUME NEW g \in Closer \cup Owner, NEW p, CloseAgent(g, p) PROVE SizeInv'
  <2>1. TodoOK'
    BY <1>3, <1>12, <1>r DEF CloseAgent, TodoOK
  <2> QED
    BY <1>4, <1>12, <1>r, <2>1 DEF CloseAgent
<1>13. ASSUME NEW g \in Closer \cup Owner, AgentCloseStep(g) PROVE SizeInv'
  <2>1. CASE CloseAgentDone(g)
    BY <1>4, <1>r, <1>t, <2>1 DEF CloseAgentDone
  <2> QED
    BY <1>1, <1>5, <1>13, <1>r, <2>1 DEF AgentCloseStep, EventErr
<1>14. ASSUME NEW k \in Closer, CloserStep(k) PROVE SizeInv'
  <2>1. CASE CloseCollector(k) \/ CloseCollWait(k) \/ CloseConnection(k) \/ CloseChan(k)
             \/ CloseReturn(k)
    BY <1>4, <1>r, <1>t, <2>1
    DEF CloseCollector, CloseCollWait, CloseConnection, CloseChan, CloseReturn
  <2> QED
    BY <1>12, <1>13, <1>14, <2>1 DEF CloserStep
<1>15. ASSUME NEW k \in Closer, NEW g \in Thread, HandlerCloses(g, k) PROVE SizeInv'
  <2> DEFINE h == [Top(g) EXCEPT !.pc = "closing", !.closer = k]
  <2>1. /\ UNCHANGED <<t, obj, pool, fresh, loc, asked, sent, todo>> /\ frames[g] # <<>>
        /\ Goto(k, "rejected") \/ Goto(k, "coll")
    BY <1>15 DEF HandlerCloses, In
  <2>2. Top(g) \in Frame /\ FrameOK(Top(g)) /\ Top(g) = frames[g][1]
    BY <2>1, Stacked DEF SizeInv, FramesOK, Top
  <2>3. h \in Frame /\ FrameOK(h) /\ h.pc = "closing"
    BY <2>2, Zenon DEF Frame, FrameOK, FramePc, BusyPc, ReadyPc
  <2>4. frames' = [frames EXCEPT ![g] = [@ EXCEPT ![1] = h]]
    BY <1>15, <2>2, Zenon DEF HandlerCloses
  <2> HIDE DEF h
  <2>5. FramesOK' /\ ~Busy(g)' /\ \A j \in Thread \ {g} : frames'[j] = frames[j]
    BY <2>1, <2>3, <2>4, Edited DEF SizeInv, Busy, BusyPc
  <2>6. ControlOK' /\ (\A u \in User : pc'[u] = pc[u]) /\ TodoOK'
    BY <1>p, <1>r, <1>t, <2>1
  <2> QED
    BY <1>3, <2>1, <2>5, <2>6, OthersKeepSizes
<1>16. CASE UNCHANGED vars
  BY <1>4, <1>16, <1>r, <1>t, Roles DEF vars
<1> QED
  BY <1>1, <1>2, <1>6, <1>7, <1>8, <1>9, <1>10, <1>11, <1>12, <1>13, <1>14, <1>15, <1>16, Roles
  DEF Next

(* A new client has written nothing and holds no message.                  *)
LEMMA InitSizes == Init => SizeInv
<1> SUFFICES ASSUME Init PROVE SizeInv
  OBVIOUS
<1>1. FramesOK /\ HeldOK
  BY DEF Init, FramesOK, StackOK, HeldOK, Busy
<1> DEFINE b == [id |-> ZeroID, attempt |-> 0, calls |-> 0, h |-> 0, raw |-> 0]
           l == [id |-> ZeroID, obj |-> Nil, call |-> 0]
<1>2. b \in Shape /\ l \in Local /\ l.obj = Nil
  BY DataAssumption DEF Shape, Local
<1>3. obj = [o \in Obj |-> b] /\ loc = [g \in Thread |-> l]
  BY DEF Init
<1> HIDE DEF b, l
<1>4. TableOK /\ MapOK
  <2>1. t = [id \in ID |-> Nil] /\ fresh = Obj /\ pool = [o \in Obj |-> 0]
    BY Zenon DEF Init
  <2>2. Nil \notin Obj
    BY DataAssumption
  <2>3. t \in [ID -> Obj \cup {Nil}] /\ \A id \in ID : t[id] = Nil
    BY <2>1
  <2>4. pool \in [Obj -> Nat] /\ \A o \in Obj : ~(pool[o] > 0)
    BY <2>1
  <2>5. obj \in [Obj -> Shape]
    BY <1>2, <1>3
  <2>6. TableOK
    BY <2>1, <2>2, <2>3, <2>4, <2>5, Zenon DEF TableOK
  <2> QED
    BY <2>3, <2>6, Zenon DEF MapOK
<1>5. \A u \in User : pc[u] = "idle" /\ loc[u] = l
  BY <1>3, Roles DEF Init
<1>6. LocalsOK /\ StartOK
  <2>1. loc \in [Thread -> Local] /\ asked \in Seq(ID)
    BY <1>2, <1>3 DEF Init
  <2>2. Nil \notin fresh
    BY <1>4, DataAssumption DEF TableOK
  <2> QED
    BY <1>2, <1>5, <2>1, <2>2 DEF LocalsOK, UserOK, StartOK
<1>7. TodoOK /\ ControlOK /\ SentOK
  BY DEF Init, TodoOK, ControlOK, SentOK, RetransmitsWhole, AnyPc, UserPc, CollPc, ReaderPc, CloserPc
<1> QED
  BY <1>1, <1>4, <1>6, <1>7 DEF SizeInv

(* As long as no clientTransaction struct has two holders, Start writes    *)
(* the message of a transaction, and handleAgentCallback writes the same   *)
(* bytes again, or those that the pooled buffer holds: no recycling of the *)
(* struct, late answer or concurrent Close makes it write the bytes of     *)
(* another message, or an empty one for a struct that was reset.           *)
THEOREM WritesWhole == Spec /\ []OneHolder => []RetransmitsWhole
<1>1. SizeInv => RetransmitsWhole
  BY DEF SizeInv, SentOK
<1> QED
  BY <1>1, InitSizes, NextSizes, PTL DEF Spec
=============================================================================
