---------------------------- MODULE CallbackWait ----------------------------
(***************************************************************************)
(* Client.Do and the pooled callbackWaitHandler it blocks on (client.go).  *)
(*                                                                         *)
(* The n-th call of Do is call n.  Its callbackWaitHandler w is given to   *)
(* Client.Start as handler; what Start does with it is Client.tla's        *)
(* subject and an assumption here: a handler is called at most once, on    *)
(* another goroutine; if Start returned nil, it is called eventually; if   *)
(* Start failed, it may still be called, which makes the event a stray.    *)
(***************************************************************************)
EXTENDS Naturals, FiniteSets

CONSTANTS User,                   \* goroutines calling Do
          Wait,                   \* callbackWaitHandler structs
          MaxCalls                \* bound: calls of Do

ASSUME WaitAssumption == MaxCalls \in Nat

VARIABLES pool,                   \* callbackWaitHandlerPool
          callback, processed,    \* fields of the structs; callback 0 is nil
          pc, call, w,            \* per user: control, call number, its struct
          calls,                  \* calls of Do so far
          due,                    \* <<n, struct>> of events Client still owes
          ran,                    \* ran[n]: the calls whose callback ran for n
          panicked,               \* HandleEvent panicked
          failed, stray           \* calls whose Start failed; an event of one came

vars == <<pool, callback, processed, pc, call, w, calls, due, ran, panicked, failed, stray>>
lateVars == <<failed, stray>>
Call == 1 .. MaxCalls
UserPc == {"idle", "set", "start", "wait", "asleep", "put"}

(* The shape of the state; a struct in the pool is used by no call of Do.  *)
TypeOK ==
  /\ pool \subseteq Wait
  /\ \A u \in User : pc[u] # "idle" => w[u] \notin pool
  /\ callback \in [Wait -> 0 .. MaxCalls] /\ processed \in [Wait -> BOOLEAN]
  /\ pc \in [User -> UserPc]
  /\ call \in [User -> 0 .. MaxCalls] /\ w \in [User -> Wait]
  /\ calls \in 0 .. MaxCalls
  /\ due \subseteq Call \X Wait
  /\ ran \in [Call -> SUBSET Call]
  /\ {panicked, stray} \subseteq BOOLEAN /\ failed \subseteq Call

Init ==
  /\ pool = Wait
  /\ callback = [x \in Wait |-> 0] /\ processed = [x \in Wait |-> FALSE]
  /\ pc = [u \in User |-> "idle"]
  /\ call = [u \in User |-> 0] /\ w \in [User -> Wait]
  /\ calls = 0 /\ due = {} /\ ran = [n \in Call |-> {}]
  /\ panicked = FALSE /\ failed = {} /\ stray = FALSE

Goto(u, p) == pc' = [pc EXCEPT ![u] = p]

(* Do takes a struct from the pool and ...                                 *)
Do(u, x) ==
  /\ pc[u] = "idle" /\ calls < MaxCalls
  /\ x \in pool /\ pool' = pool \ {x}
  /\ calls' = calls + 1
  /\ call' = [call EXCEPT ![u] = calls + 1]
  /\ w' = [w EXCEPT ![u] = x]
  /\ Goto(u, "set")
  /\ UNCHANGED <<callback, processed, due, ran, panicked, lateVars>>

(* ... stores its callback.                                                *)
setCallback(u) ==
  /\ pc[u] = "set"
  /\ callback' = [callback EXCEPT ![w[u]] = call[u]]
  /\ Goto(u, "start")
  /\ UNCHANGED <<pool, processed, call, w, calls, due, ran, panicked, lateVars>>

StartOK(u) ==
  /\ pc[u] = "start"
  /\ due' = due \cup {<<call[u], w[u]>>}
  /\ Goto(u, "wait")
  /\ UNCHANGED <<pool, callback, processed, call, w, calls, ran, panicked, lateVars>>

StartErr(u) ==
  /\ pc[u] = "start"
  /\ due' \in {due, due \cup {<<call[u], w[u]>>}}
  /\ failed' = failed \cup {call[u]}
  /\ Goto(u, "put")
  /\ UNCHANGED <<pool, callback, processed, call, w, calls, ran, panicked, stray>>

(* wait: the loop of cond.Wait, and what follows it under the same lock.   *)
wait_NotReset(u) ==
  /\ pc[u] = "wait"
  /\ \/ processed[w[u]] /\ Goto(u, "put") /\ callback' = [callback EXCEPT ![w[u]] = 0]
     \/ ~processed[w[u]] /\ Goto(u, "asleep") /\ UNCHANGED callback
  /\ UNCHANGED <<pool, processed, call, w, calls, due, ran, panicked, lateVars>>

wait(u) ==
  /\ pc[u] = "wait"
  /\ \/ /\ processed[w[u]]
        /\ processed' = [processed EXCEPT ![w[u]] = FALSE]
        /\ callback' = [callback EXCEPT ![w[u]] = 0]
        /\ Goto(u, "put")
     \/ /\ ~processed[w[u]]
        /\ Goto(u, "asleep")
        /\ UNCHANGED <<processed, callback>>
  /\ UNCHANGED <<pool, call, w, calls, due, ran, panicked, lateVars>>

(* The deferred Put, and the return of Do.                                 *)
Put(u) ==
  /\ pc[u] = "put"
  /\ pool' = pool \cup {w[u]}
  /\ Goto(u, "idle")
  /\ UNCHANGED <<callback, processed, call, w, calls, due, ran, panicked, lateVars>>

(* The client calls the handler of call n.  The callback runs under cond.L *)
(* and Broadcast wakes whoever sleeps on this struct.                      *)
HandleEvent_NoBroadcast(n, x) ==
  /\ <<n, x>> \in due /\ ~panicked
  /\ due' = due \ {<<n, x>>}
  /\ ran' = [ran EXCEPT ![callback[x]] = @ \cup {n}]
  /\ processed' = [processed EXCEPT ![x] = TRUE]
  /\ stray' = (stray \/ n \in failed)
  /\ UNCHANGED <<pool, callback, pc, call, w, calls, panicked, failed>>

HandleEvent(n, x) ==
  /\ <<n, x>> \in due /\ ~panicked
  /\ due' = due \ {<<n, x>>}
  /\ \/ /\ callback[x] = 0
        /\ panicked' = TRUE
        /\ UNCHANGED <<ran, processed, pc>>
     \/ /\ callback[x] # 0
        /\ ran' = [ran EXCEPT ![callback[x]] = @ \cup {n}]
        /\ processed' = [processed EXCEPT ![x] = TRUE]
        /\ pc' = [u \in User |-> IF pc[u] = "asleep" /\ w[u] = x THEN "wait" ELSE pc[u]]
        /\ UNCHANGED panicked
  /\ stray' = (stray \/ n \in failed)
  /\ UNCHANGED <<pool, callback, call, w, calls, failed>>

UserStep(u) == setCallback(u) \/ StartOK(u) \/ StartErr(u) \/ wait(u) \/ Put(u)

Next ==
  \/ \E u \in User : (\E x \in Wait : Do(u, x)) \/ UserStep(u)
  \/ \E n \in Call, x \in Wait : HandleEvent(n, x)

Spec == Init /\ [][Next]_vars

(* Goroutines run, and the client keeps its promise to call the handler.   *)
FairSpec == /\ Spec
            /\ \A u \in User : WF_vars(UserStep(u))
            /\ \A n \in Call, x \in Wait : WF_vars(HandleEvent(n, x))
-----------------------------------------------------------------------------
(* HandleEvent never finds the callback nil (its panic is an assertion),   *)
(* unless a stray event came: Do puts its struct back when Start fails,    *)
(* although the client may still have it.                                  *)
CallbackIsSet == panicked => stray

(* A callback only ever gets the event of its own call of Do, although the *)
(* structs go around among all callers.                                    *)
OwnCallback == ~stray => \A n \in Call : ran[n] \subseteq {n}

(* Do returns nil only after its callback has been called: wait is not     *)
(* satisfied by a processed flag left over from an earlier use.            *)
ReturnsAfterCallback ==
  [][\A u \in User : pc[u] = "wait" /\ pc'[u] = "put" => ran[call[u]] # {} \/ stray]_vars

(* A Do whose Start succeeded returns: the wake-up is not lost whether the *)
(* event comes before, while or after wait checks the flag.                *)
DoReturns == \A u \in User : pc[u] = "wait" ~> pc[u] = "put" \/ stray
=============================================================================
