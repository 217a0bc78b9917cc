--------------------------- MODULE Retransmission ---------------------------
(***************************************************************************)
(* The timing of one client transaction: which options NewClient is given, *)
(* when the request is written again and when it times out (client.go).    *)
(* Time is discrete; DefaultRTO, DefaultMaxAttempts and Rate stand for     *)
(* defaultRTO, defaultMaxAttempts and the period of the collector.         *)
(*                                                                         *)
(* Goroutines are taken to run promptly: time does not pass while a        *)
(* collection is due.  No answer ever arrives; an answer only ends the     *)
(* transaction earlier.                                                    *)
(***************************************************************************)
EXTENDS Naturals, Sequences

CONSTANTS DefaultRTO, DefaultMaxAttempts, Rate,
          RTOs,                   \* values for WithRTO and SetRTO
          MaxStart                \* bound: latest time of Start

ASSUME TimingAssumption ==
  /\ DefaultRTO \in Nat \ {0} /\ DefaultMaxAttempts \in Nat /\ Rate \in Nat \ {0}
  /\ RTOs \subseteq Nat /\ MaxStart \in Nat

VARIABLES phase,                  \* "options", "open", "waiting", "timedout"
          options,                \* the options NewClient has applied
          rto, maxAttempts,       \* Client.rto, Client.maxAttempts
          now,                    \* the time
          collected,              \* the collector ran at this tick
          tRto, attempt,          \* clientTransaction.rto, attempt
          deadline,               \* of the agent's transaction
          writes                  \* the times the request was written

vars == <<phase, options, rto, maxAttempts, now, collected, tRto, attempt, deadline, writes>>
tVars == <<tRto, attempt, deadline, writes>>

Init ==
  /\ phase = "options" /\ options = {}
  /\ rto = DefaultRTO /\ maxAttempts = DefaultMaxAttempts
  /\ now = 0 /\ collected = FALSE
  /\ tRto = 0 /\ attempt = 0 /\ deadline = 0 /\ writes = <<>>

(* Options are applied in the order given; each at most once here.         *)
WithRTO(d) ==
  /\ phase = "options" /\ "WithRTO" \notin options
  /\ options' = options \cup {"WithRTO"}
  /\ rto' = d
  /\ UNCHANGED <<phase, maxAttempts, now, collected, tVars>>

WithNoRetransmit ==
  /\ phase = "options" /\ "WithNoRetransmit" \notin options
  /\ options' = options \cup {"WithNoRetransmit"}
  /\ maxAttempts' = 0
  /\ rto' = IF rto = 0 THEN DefaultMaxAttempts * DefaultRTO ELSE rto
  /\ UNCHANGED <<phase, now, collected, tVars>>

NewClient ==
  /\ phase = "options"
  /\ phase' = "open"
  /\ UNCHANGED <<options, rto, maxAttempts, now, collected, tVars>>

(* SetRTO may be called at any time, also while a transaction is running.  *)
SetRTO(d) ==
  /\ phase \in {"open", "waiting"}
  /\ rto' = d
  /\ options' = options \cup {"SetRTO"}
  /\ UNCHANGED <<phase, maxAttempts, now, collected, tVars>>

nextTimeout_Constant(r, a) == now + r
nextTimeout(r, a) == now + (a + 1) * r

Start ==
  /\ phase = "open"
  /\ phase' = "waiting"
  /\ tRto' = rto /\ attempt' = 0
  /\ deadline' = nextTimeout(rto, 0)
  /\ writes' = <<now>>
  /\ UNCHANGED <<options, rto, maxAttempts, now, collected>>

(* A tick of the collector.  A transaction past its deadline times out or  *)
(* is written again with a longer deadline.                                *)
Due == phase = "waiting" /\ deadline < now
AtTick == now % Rate = 0 /\ ~collected

Exhausted_OneMore == maxAttempts < attempt
Exhausted == maxAttempts <= attempt

Collect_NotStarted == FALSE
Collect ==
  /\ phase \in {"open", "waiting"} /\ AtTick
  /\ collected' = TRUE
  /\ \/ /\ ~Due
        /\ UNCHANGED <<phase, tVars>>
     \/ /\ Due /\ Exhausted
        /\ phase' = "timedout"
        /\ UNCHANGED tVars
     \/ /\ Due /\ ~Exhausted
        /\ attempt' = attempt + 1
        /\ deadline' = nextTimeout(tRto, attempt + 1)
        /\ writes' = Append(writes, now)
        /\ UNCHANGED <<phase, tRto>>
  /\ UNCHANGED <<options, rto, maxAttempts, now>>

Tick ==
  /\ \/ phase = "open" /\ now < MaxStart
     \/ phase = "waiting"
  /\ ~AtTick
  /\ now' = now + 1
  /\ collected' = FALSE
  /\ UNCHANGED <<phase, options, rto, maxAttempts, tVars>>

Next ==
  \/ \E d \in RTOs : WithRTO(d) \/ SetRTO(d)
  \/ WithNoRetransmit \/ NewClient \/ Start \/ Collect \/ Tick

Spec == Init /\ [][Next]_vars
FairSpec == Spec /\ WF_vars(Tick) /\ WF_vars(Collect)
-----------------------------------------------------------------------------
(* The shape of the state: a request is written at most maxAttempts + 1    *)
(* times, once for the start and once for each attempt.                    *)
TypeOK ==
  /\ phase \in {"options", "open", "waiting", "timedout"}
  /\ options \subseteq {"WithRTO", "WithNoRetransmit", "SetRTO"}
  /\ {rto, now, tRto, deadline} \subseteq Nat
  /\ maxAttempts \in {0, DefaultMaxAttempts}
  /\ attempt \in 0 .. maxAttempts
  /\ collected \in BOOLEAN
  /\ Len(writes) = IF phase \in {"waiting", "timedout"} THEN attempt + 1 ELSE 0

(* The k-th wait lasts longer than k times the RTO that was set when Start *)
(* was called, whatever SetRTO is called with meanwhile, and at most one   *)
(* collector period longer.                                                *)
LinearBackoff ==
  \A k \in 1 .. Len(writes) :
    LET end == IF k < Len(writes) THEN writes[k + 1] ELSE now
    IN /\ k < Len(writes) \/ phase = "timedout" => end - writes[k] > k * tRto
       /\ end - writes[k] <= k * tRto + Rate

(* A transaction that is never answered times out.                         *)
TimesOut == phase = "waiting" ~> phase = "timedout"
=============================================================================
