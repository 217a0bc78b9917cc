------------------------------- MODULE Ledger -------------------------------
(***************************************************************************)
(* What the users of a transaction table are promised, without saying how. *)
(* A request is opened at most once and settled, by a call of its handler, *)
(* at most once.  Once the ledger is shut no request is opened any more.   *)
(*                                                                         *)
(* Agent.tla implements this with one request per registration, Client.tla *)
(* with one request per call of Client.Start.                              *)
(***************************************************************************)
CONSTANT Req                      \* the requests that can ever be made

VARIABLES status,                 \* Req -> {"idle", "open", "settled"}
          shut                    \* no request is accepted any more

ledgerVars == <<status, shut>>

LedgerInit == /\ status = [r \in Req |-> "idle"]
              /\ shut = FALSE

Move(r, from, to) == /\ status[r] = from
                     /\ status' = [status EXCEPT ![r] = to]
                     /\ UNCHANGED shut

Open(r)   == ~shut /\ Move(r, "idle", "open")
Settle(r) == Move(r, "open", "settled")

Shut == /\ ~shut
        /\ shut' = TRUE
        /\ UNCHANGED status

LedgerNext == \/ \E r \in Req : Open(r) \/ Settle(r)
              \/ Shut

LedgerSpec == LedgerInit /\ [][LedgerNext]_ledgerVars

(* Every open request is eventually settled.                               *)
LedgerLive == \A r \in Req : status[r] = "open" ~> status[r] = "settled"
=============================================================================
