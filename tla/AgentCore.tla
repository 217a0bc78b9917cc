----------------------------- MODULE AgentCore ------------------------------
(***************************************************************************)
(* The transaction table of stun.Agent (agent.go) and the critical sections*)
(* its methods execute under Agent.mux.  Every method but Close takes and  *)
(* releases mux in one piece, so its critical section is one atomic step;  *)
(* Close calls the handler while it holds mux, so it is a lock step and an *)
(* unlock step with the handler calls in between.                          *)
(*                                                                         *)
(* The module has no Next: Agent.tla drives these steps from arbitrary     *)
(* callers, Client.tla from the goroutines of a stun.Client.               *)
(***************************************************************************)
CONSTANTS ID,                     \* transaction ids
          Thread,                 \* goroutines
          Deadline,               \* what a registration stores as deadline
          Absent,                 \* no map entry
          Free                    \* mux is not locked

ASSUME AbsentAssumption == Absent \notin Deadline
ASSUME FreeAssumption == Free \notin Thread

VARIABLES transactions,           \* Agent.transactions: ID -> deadline
          agentClosed,            \* Agent.closed
          agentMux                \* holder of Agent.mux between steps

agentVars == <<transactions, agentClosed, agentMux>>

AgentTypeOK == /\ transactions \in [ID -> Deadline \cup {Absent}]
               /\ agentClosed \in BOOLEAN
               /\ agentMux \in Thread \cup {Free}

AgentInit == /\ transactions = [id \in ID |-> Absent]
             /\ agentClosed = FALSE
             /\ agentMux = Free

Registered(id) == transactions[id] # Absent

(* Start without the test for an entry under the id.                       *)
AgentStartOK_Overwrites(id, d) ==
  /\ agentMux = Free /\ ~agentClosed
  /\ transactions' = [transactions EXCEPT ![id] = d]
  /\ UNCHANGED <<agentClosed, agentMux>>

(* The critical section of a method that passed `if a.closed'.             *)
AgentOpen == agentMux = Free /\ ~agentClosed

(* Agent.Start returning nil.                                              *)
AgentStartOK(id, d) ==
  /\ AgentOpen
  /\ ~Registered(id)
  /\ transactions' = [transactions EXCEPT ![id] = d]
  /\ UNCHANGED <<agentClosed, agentMux>>

(* Agent.Start returning ErrAgentClosed or ErrTransactionExists.           *)
AgentStartErr(id) ==
  /\ agentMux = Free
  /\ agentClosed \/ Registered(id)
  /\ UNCHANGED agentVars

(* delete(a.transactions, id) for the ids of S, as StopWithError, Collect  *)
(* and Process do it.                                                      *)
AgentRemove(S) ==
  /\ AgentOpen
  /\ transactions' = [id \in ID |-> IF id \in S THEN Absent ELSE transactions[id]]
  /\ UNCHANGED <<agentClosed, agentMux>>

(* Agent.Close up to its loop over the transactions.                       *)
AgentCloseLock(c) ==
  /\ AgentOpen
  /\ agentMux' = c
  /\ UNCHANGED <<transactions, agentClosed>>

(* Agent.Close after its loop.                                             *)
AgentCloseUnlock(c) ==
  /\ agentMux = c
  /\ transactions' = [id \in ID |-> Absent]
  /\ agentClosed' = TRUE
  /\ agentMux' = Free
=============================================================================
