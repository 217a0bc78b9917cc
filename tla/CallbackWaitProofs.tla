------------------------- MODULE CallbackWaitProofs -------------------------
(***************************************************************************)
(* Client.Do over any number of goroutines, pooled callbackWaitHandlers    *)
(* and calls: HandleEvent finds a callback, the callback gets the event of *)
(* its own call, and Do returns after it.                                  *)
(*                                                                         *)
(* The inductive invariant Inv says whose a struct is: two calls of Do     *)
(* share neither struct nor number, a struct holds the callback of the     *)
(* call that uses it from setCallback to the end of wait, and, as long as  *)
(* no event of a failed Start has come, an event still owed has its call   *)
(* waiting and a processed flag stands for the event of a waiting call.    *)
(***************************************************************************)
EXTENDS CallbackWait, TLAPS

Busy(u) == pc[u] # "idle"
Waiting(u) == pc[u] \in {"wait", "asleep"}

(* Calls of Do in progress share neither struct nor number.                *)
Apart ==
  /\ \A u, v \in User : u # v /\ Busy(u) /\ Busy(v) => w[u] # w[v]
  /\ \A u, v \in User : u # v /\ Busy(u) /\ Busy(v) => call[u] # call[v]
  /\ \A u \in User : Busy(u) => call[u] # 0 /\ call[u] <= calls

(* Only calls that were made fail or have events.                          *)
Known ==
  /\ \A n \in failed : n <= calls
  /\ \A n \in Call, x \in Wait : <<n, x>> \in due => n <= calls

(* The struct of a call has its callback until wait clears it.             *)
Ready ==
  /\ \A u \in User : pc[u] \in {"start", "wait", "asleep"} => callback[w[u]] = call[u]
  /\ \A u \in User : pc[u] \in {"set", "start"} =>
       call[u] \notin failed /\ \A x \in Wait : <<call[u], x>> \notin due
  /\ \A u \in User : Waiting(u) => call[u] \notin failed

(* An event of a call that did not fail is owed to a goroutine that waits. *)
Owed ==
  \A n \in Call, x \in Wait : <<n, x>> \in due /\ n \notin failed =>
    ~processed[x] /\ \E u \in User : Waiting(u) /\ call[u] = n /\ w[u] = x

(* The flag of a struct is set for the goroutine that waits for it.        *)
Flagged ==
  \A x \in Wait : processed[x] =>
    \E u \in User : pc[u] = "wait" /\ w[u] = x /\ ran[call[u]] # {}

Inv == /\ TypeOK /\ Apart /\ Known /\ Ready
       /\ ~stray => Owed /\ Flagged /\ ~panicked /\ OwnCallback

(* A client that made no call of Do satisfies the invariant.               *)
LEMMA InitInv == Init => Inv
<1> SUFFICES ASSUME Init PROVE Inv
  OBVIOUS
<1>1. processed \in [Wait -> BOOLEAN] /\ {panicked, stray} \subseteq BOOLEAN
  BY Zenon DEF Init
<1>2. TypeOK
  BY <1>1, WaitAssumption DEF Init, TypeOK, UserPc, Call
<1>3. Apart /\ Known /\ Ready
  BY DEF Init, Apart, Known, Ready, Busy, Waiting
<1>4. Owed /\ Flagged /\ ~panicked /\ OwnCallback
  BY DEF Init, Owed, Flagged, OwnCallback
<1> QED
  BY <1>2, <1>3, <1>4 DEF Inv

(* Do takes a struct nobody uses and a number nobody has.                  *)
LEMMA DoInv == ASSUME Inv, NEW u \in User, NEW x \in Wait, Do(u, x) PROVE Inv'
<1> USE WaitAssumption DEF Do, Goto, lateVars
<1>1. TypeOK'
  BY DEF Inv, TypeOK, UserPc
<1>2. Apart'
  BY DEF Inv, TypeOK, Apart, Busy
<1>3. Known'
  BY DEF Inv, TypeOK, Known, Call
<1>4. Ready'
  BY DEF Inv, TypeOK, Known, Ready, Waiting, Call
<1>5. ASSUME ~stray PROVE Owed' /\ Flagged' /\ ~panicked' /\ OwnCallback'
  <2>1. ASSUME NEW v \in User, pc[v] \in {"wait", "asleep"}
        PROVE  pc'[v] = pc[v] /\ call'[v] = call[v] /\ w'[v] = w[v]
    BY <2>1 DEF Inv, TypeOK
  <2>2. Owed'
    BY <1>5, <2>1 DEF Inv, Owed, Waiting
  <2>3. Flagged'
    BY <1>5, <2>1 DEF Inv, Flagged
  <2> QED
    BY <1>5, <2>2, <2>3 DEF Inv, OwnCallback
<1> QED
  BY <1>1, <1>2, <1>3, <1>4, <1>5 DEF Inv

(* setCallback writes the struct of its own call.                          *)
LEMMA SetInv == ASSUME Inv, NEW u \in User, setCallback(u) PROVE Inv'
<1> USE WaitAssumption DEF setCallback, Goto, lateVars
<1>1. TypeOK'
  BY DEF Inv, TypeOK, UserPc
<1>2. Apart' /\ Known'
  BY DEF Inv, TypeOK, Apart, Known, Busy
<1>3. Ready'
  BY DEF Inv, TypeOK, Ready, Apart, Busy, Waiting
<1>4. ASSUME ~stray PROVE Owed' /\ Flagged' /\ ~panicked' /\ OwnCallback'
  <2>1. ASSUME NEW v \in User, pc[v] \in {"wait", "asleep"}
        PROVE  pc'[v] = pc[v] /\ call'[v] = call[v] /\ w'[v] = w[v]
    BY <2>1 DEF Inv, TypeOK
  <2>2. Owed'
    BY <1>4, <2>1 DEF Inv, Owed, Waiting
  <2>3. Flagged'
    BY <1>4, <2>1 DEF Inv, Flagged
  <2> QED
    BY <1>4, <2>2, <2>3 DEF Inv, OwnCallback
<1> QED
  BY <1>1, <1>2, <1>3, <1>4 DEF Inv

(* A Start that succeeds leaves its call waiting for its event.            *)
LEMMA StartOKInv == ASSUME Inv, NEW u \in User, StartOK(u) PROVE Inv'
<1> USE WaitAssumption DEF StartOK, Goto, lateVars
<1>0. call[u] \in Call /\ w[u] \in Wait /\ Busy(u)
  BY DEF Inv, TypeOK, Apart, Busy, Call
<1>1. TypeOK'
  BY <1>0 DEF Inv, TypeOK, UserPc
<1>2. Apart' /\ Known'
  BY DEF Inv, TypeOK, Apart, Known, Busy
<1>3. Ready'
  BY DEF Inv, TypeOK, Ready, Apart, Busy, Waiting
<1>4. ASSUME ~stray PROVE Owed' /\ Flagged' /\ ~panicked' /\ OwnCallback'
  <2>1. ~processed[w[u]]
    BY <1>0, <1>4 DEF Inv, TypeOK, Flagged, Apart, Busy
  <2>2. Owed'
    BY <1>4, <2>1 DEF Inv, TypeOK, Owed, Waiting
  <2>3. ASSUME NEW v \in User, pc[v] = "wait" PROVE pc'[v] = pc[v]
    BY <2>3 DEF Inv, TypeOK
  <2>4. Flagged'
    BY <1>4, <2>3 DEF Inv, Flagged
  <2> QED
    BY <1>4, <2>2, <2>4 DEF Inv, OwnCallback
<1> QED
  BY <1>1, <1>2, <1>3, <1>4 DEF Inv

(* A Start that fails leaves at most an event of a failed call.            *)
LEMMA StartErrInv == ASSUME Inv, NEW u \in User, StartErr(u) PROVE Inv'
<1> USE WaitAssumption DEF StartErr, Goto
<1>0. call[u] \in Call /\ w[u] \in Wait /\ Busy(u)
  BY DEF Inv, TypeOK, Apart, Busy, Call
<1>1. TypeOK'
  BY <1>0 DEF Inv, TypeOK, UserPc
<1>2. Apart' /\ Known'
  BY DEF Inv, TypeOK, Apart, Known, Busy
<1>3. Ready'
  BY DEF Inv, TypeOK, Ready, Apart, Busy, Waiting
<1>4. ASSUME ~stray PROVE Owed' /\ Flagged' /\ ~panicked' /\ OwnCallback'
  <2>1. ASSUME NEW n \in Call, NEW x \in Wait, <<n, x>> \in due', n \notin failed'
        PROVE  <<n, x>> \in due /\ n \notin failed /\ n # call[u]
    BY <2>1
  <2>2. ASSUME NEW v \in User, pc[v] \in {"wait", "asleep"} PROVE pc'[v] = pc[v]
    BY <2>2 DEF Inv, TypeOK
  <2>3. Owed'
    BY <1>4, <2>1, <2>2 DEF Inv, Owed, Waiting
  <2>4. Flagged'
    BY <1>4, <2>2 DEF Inv, Flagged
  <2> QED
    BY <1>4, <2>3, <2>4 DEF Inv, OwnCallback
<1> QED
  BY <1>1, <1>2, <1>3, <1>4 DEF Inv

(* wait clears the flag and the callback of its own struct.                *)
LEMMA WaitInv == ASSUME Inv, NEW u \in User, wait(u) PROVE Inv'
<1> USE WaitAssumption DEF wait, Goto, lateVars
<1>0. processed' \in [Wait -> BOOLEAN]
  BY DEF Inv, TypeOK
<1>1. TypeOK'
  BY <1>0 DEF Inv, TypeOK, UserPc
<1>2. Apart' /\ Known'
  BY DEF Inv, TypeOK, Apart, Known, Busy
<1>3. Ready'
  BY DEF Inv, TypeOK, Ready, Apart, Busy, Waiting
<1>4. ASSUME ~stray PROVE Owed' /\ Flagged' /\ ~panicked' /\ OwnCallback'
  <2>1. Owed'
    BY <1>4, SMTT(60) DEF Inv, TypeOK, Owed, Waiting
  <2>2. Flagged'
    BY <1>4, SMTT(60) DEF Inv, TypeOK, Flagged, Apart, Busy
  <2> QED
    BY <1>4, <2>1, <2>2 DEF Inv, OwnCallback
<1> QED
  BY <1>1, <1>2, <1>3, <1>4 DEF Inv

(* Put gives back the struct of its own call.                              *)
LEMMA PutInv == ASSUME Inv, NEW u \in User, Put(u) PROVE Inv'
<1> USE WaitAssumption DEF Put, Goto, lateVars
<1>1. TypeOK'
  BY DEF Inv, TypeOK, Apart, Busy, UserPc
<1>2. Apart' /\ Known'
  BY DEF Inv, TypeOK, Apart, Known, Busy
<1>3. Ready'
  BY DEF Inv, TypeOK, Ready, Apart, Busy, Waiting
<1>4. ASSUME ~stray PROVE Owed' /\ Flagged' /\ ~panicked' /\ OwnCallback'
  <2>1. Owed'
    BY <1>4 DEF Inv, TypeOK, Owed, Waiting
  <2>2. Flagged'
    BY <1>4 DEF Inv, TypeOK, Flagged
  <2> QED
    BY <1>4, <2>1, <2>2 DEF Inv, OwnCallback
<1> QED
  BY <1>1, <1>2, <1>3, <1>4 DEF Inv

(* An event finds the callback of its call, wakes it and sets its flag.    *)
LEMMA HandleInv ==
  ASSUME Inv, NEW n \in Call, NEW x \in Wait, HandleEvent(n, x) PROVE Inv'
<1> USE WaitAssumption DEF HandleEvent
<1>0. callback[x] # 0 => callback[x] \in Call
  BY DEF Inv, TypeOK, Call
<1>1. TypeOK'
  <2>0. ran' \in [Call -> SUBSET Call]
    BY <1>0 DEF Inv, TypeOK
  <2>1. processed' \in [Wait -> BOOLEAN]
    BY DEF Inv, TypeOK
  <2>2. pc' \in [User -> UserPc] /\ \A v \in User : pc'[v] = "idle" <=> pc[v] = "idle"
    BY DEF Inv, TypeOK, UserPc
  <2>3. panicked' \in BOOLEAN /\ stray' \in BOOLEAN
    BY Zenon DEF Inv, TypeOK
  <2> QED
    BY <2>0, <2>1, <2>2, <2>3 DEF Inv, TypeOK
<1>2. \A v \in User : /\ pc'[v] = pc[v] \/ (pc[v] = "asleep" /\ pc'[v] = "wait" /\ w[v] = x)
                      /\ Waiting(v)' <=> Waiting(v)
  BY DEF Inv, TypeOK, Waiting
<1>3. Apart' /\ Known'
  BY <1>2 DEF Inv, Apart, Known, Busy
<1>4. Ready'
  BY <1>2 DEF Inv, Ready, Waiting
<1>5. ASSUME ~stray' PROVE Owed' /\ Flagged' /\ ~panicked' /\ OwnCallback'
  <2>1. ~stray /\ n \notin failed /\ Owed /\ Flagged
    BY <1>5 DEF Inv
  <2>2. PICK u \in User : Waiting(u) /\ call[u] = n /\ w[u] = x
    BY <2>1 DEF Owed
  <2>3. callback[x] = n /\ callback[x] # 0
    BY <2>2 DEF Inv, Ready, Waiting, Call
  <2>4. /\ ran' = [ran EXCEPT ![n] = @ \cup {n}]
        /\ processed' = [processed EXCEPT ![x] = TRUE]
        /\ pc'[u] = "wait" /\ ~panicked'
        /\ UNCHANGED <<call, w, failed>> /\ due' = due \ {<<n, x>>}
    BY <2>2, <2>3, <2>1 DEF Inv, TypeOK, Waiting
  <2>5. OwnCallback'
    BY <2>1, <2>4 DEF Inv, TypeOK, OwnCallback
  <2>6. Flagged'
    <3> SUFFICES ASSUME NEW y \in Wait, processed'[y]
                 PROVE  \E v \in User : pc'[v] = "wait" /\ w[v] = y /\ ran'[call[v]] # {}
      BY <2>4 DEF Flagged
    <3>1. CASE y = x
      BY <2>2, <2>4, <3>1 DEF Inv, TypeOK
    <3>2. CASE y # x
      <4>1. PICK v \in User : pc[v] = "wait" /\ w[v] = y /\ ran[call[v]] # {}
        BY <2>1, <2>4, <3>2 DEF Inv, TypeOK, Flagged
      <4>2. call[v] \in Call
        BY <4>1 DEF Inv, TypeOK, Apart, Busy, Call
      <4>3. ran'[call[v]] # {}
        BY <2>4, <4>1, <4>2 DEF Inv, TypeOK
      <4> QED
        BY <1>2, <4>1, <4>3
    <3> QED
      BY <3>1, <3>2
  <2>7. Owed'
    <3> SUFFICES ASSUME NEW m \in Call, NEW y \in Wait, <<m, y>> \in due, m \notin failed,
                        <<m, y>> # <<n, x>>
                 PROVE  ~processed'[y] /\ \E v \in User : Waiting(v)' /\ call[v] = m /\ w[v] = y
      BY <2>4 DEF Owed
    <3>1. PICK v \in User : Waiting(v) /\ call[v] = m /\ w[v] = y
      BY <2>1 DEF Owed
    <3>2. y # x
      BY <2>2, <3>1 DEF Inv, Apart, Busy, Waiting
    <3>3. ~processed'[y]
      BY <2>1, <2>4, <3>2 DEF Inv, TypeOK, Owed
    <3> QED
      BY <1>2, <3>1, <3>3
  <2> QED
    BY <2>4, <2>5, <2>6, <2>7
<1> QED
  BY <1>1, <1>3, <1>4, <1>5 DEF Inv

(* Every step preserves the invariant.                                     *)
LEMMA NextInv == Inv /\ [Next]_vars => Inv'
<1> SUFFICES ASSUME Inv, [Next]_vars PROVE Inv'
  OBVIOUS
<1>1. CASE UNCHANGED vars
  BY <1>1 DEF vars, Inv, TypeOK, Apart, Known, Ready, Owed, Flagged, OwnCallback, Busy, Waiting
<1> QED
  BY <1>1, DoInv, SetInv, StartOKInv, StartErrInv, WaitInv, PutInv, HandleInv
  DEF Next, UserStep

(* Inv is an invariant of Client.Do.                                       *)
LEMMA Invariance == Spec => []Inv
BY InitInv, NextInv, PTL DEF Spec

(* The pool never hands out a struct that a call of Do still uses, and     *)
(* pooled structs, callbacks and call numbers stay what they are.          *)
THEOREM TypeCorrect == Spec => []TypeOK
<1>1. Inv => TypeOK
  BY DEF Inv
<1> QED
  BY <1>1, Invariance, PTL

(* HandleEvent panics only on, or after, an event of a failed Start.       *)
THEOREM CallbackFound == Spec => []CallbackIsSet
<1>1. Inv => CallbackIsSet
  BY DEF Inv, CallbackIsSet
<1> QED
  BY <1>1, Invariance, PTL

(* Until then, a callback gets the event of its own call of Do.            *)
THEOREM CallbackIsOwn == Spec => []OwnCallback
<1>1. Inv => OwnCallback
  BY DEF Inv, OwnCallback
<1> QED
  BY <1>1, Invariance, PTL

(* Until then, wait returns only after the callback of its call was called.*)
THEOREM WaitsForCallback == Spec => ReturnsAfterCallback
<1> DEFINE A == \A u \in User : pc[u] = "wait" /\ pc'[u] = "put" => ran[call[u]] # {} \/ stray
<1>1. ASSUME Inv, [Next]_vars PROVE A \/ UNCHANGED vars
  <2> SUFFICES ASSUME Next, NEW u \in User, pc[u] = "wait", pc'[u] = "put", ~stray
               PROVE  ran[call[u]] # {}
    BY <1>1
  <2>1. processed[w[u]]
    <3>1. ASSUME NEW v \in User, v # u, NEW p, Goto(v, p) PROVE FALSE
      BY <1>1, <3>1 DEF Inv, TypeOK, Goto
    <3>2. ASSUME NEW p, p # "put", Goto(u, p) PROVE FALSE
      BY <1>1, <3>2 DEF Inv, TypeOK, Goto
    <3>3. ASSUME NEW v \in User, NEW x \in Wait, Do(v, x) PROVE FALSE
      BY <3>1, <3>2, <3>3 DEF Do
    <3>4. ASSUME NEW v \in User, setCallback(v) \/ StartOK(v) \/ StartErr(v) \/ Put(v)
          PROVE  FALSE
      BY <3>1, <3>2, <3>4 DEF setCallback, StartOK, StartErr, Put
    <3>5. ASSUME NEW v \in User, wait(v) PROVE processed[w[u]]
      BY <3>1, <3>2, <3>5 DEF wait
    <3>6. ASSUME NEW n \in Call, NEW x \in Wait, HandleEvent(n, x) PROVE FALSE
      BY <1>1, <3>6 DEF Inv, TypeOK, HandleEvent
    <3> QED
      BY <3>3, <3>4, <3>5, <3>6 DEF Next, UserStep
  <2>2. PICK v \in User : pc[v] = "wait" /\ w[v] = w[u] /\ ran[call[v]] # {}
    BY <1>1, <2>1 DEF Inv, TypeOK, Flagged
  <2>3. v = u
    BY <1>1, <2>2 DEF Inv, Apart, Busy
  <2> QED
    BY <2>2, <2>3
<1>2. Inv /\ [Next]_vars => [A]_vars
  BY <1>1
<1> QED
  BY <1>2, Invariance, PTL DEF Spec, ReturnsAfterCallback
=============================================================================
