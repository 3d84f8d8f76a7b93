-------------------------- MODULE NodeCallsProofs --------------------------
(***************************************************************************)
(* What nodes are given, for any graph, any number of workers and calls,   *)
(* and every setting: the pauses between attempts, and execution_id.       *)
(***************************************************************************)
EXTENDS NodeCalls, ThreadRunsProofs, SequenceTheorems

-----------------------------------------------------------------------------
(* NodeCalls only watches ThreadRuns. *)

LEMMA NodeCallsStep ==
  ASSUME [NodeCallsNext]_nvars
  PROVE  [Next]_vars
PROOF
  <1>1. CASE UNCHANGED nvars
    BY <1>1 DEF nvars
  <1>2. CASE NodeCallsNext
    <2>1. PICK w \in Workers :
            \/ Start(w) /\ UNCHANGED extra
            \/ CallNode(w) \/ Retry(w) \/ CallOk(w) \/ SaveWithId(w)
            \/ (\E c \in ChildNodes : RunChild(w, c))
            \/ Succeed(w) \/ Otherwise(w) \/ Die(w)
      BY <1>2 DEF NodeCallsNext
    <2>2. Start(w) \/ Step(w) \/ Faulty(w) \/ UNCHANGED vars
      BY <2>1
         DEF CallNode, Retry, CallOk, SaveWithId, RunChild, Succeed, Otherwise, Die, Step, Faulty
    <2>3. QED
      BY <2>2 DEF Next
  <1>3. QED
    BY <1>1, <1>2

LEMMA NodeCallsTypeInv == NodeCallsSpec => []TypeInv
PROOF
  <1>1. NodeCallsInit => TypeInv
    BY TypeInvInit DEF NodeCallsInit
  <1>2. TypeInv /\ [NodeCallsNext]_nvars => TypeInv'
    BY NodeCallsStep, TypeInvNext
  <1>3. QED
    BY <1>1, <1>2, PTL DEF NodeCallsSpec

-----------------------------------------------------------------------------
(* Pauses. *)

LEMMA ShiftedIsNat ==
  ASSUME NEW n \in Nat
  PROVE  Shifted(n) \in Nat
PROOF
  <1>1. CASE n > 10
    BY <1>1 DEF Shifted
  <1>2. CASE n \in 0..10
    <2>1. \/ n = 0 \/ n = 1 \/ n = 2 \/ n = 3 \/ n = 4 \/ n = 5
          \/ n = 6 \/ n = 7 \/ n = 8 \/ n = 9 \/ n = 10
      BY <1>2
    <2>2. QED
      BY <2>1 DEF Shifted
  <1>3. QED
    BY <1>1, <1>2

\* The cap limits, and the result is a u64.
LEMMA CappedInRange ==
  ASSUME NEW n \in Nat
  PROVE  Capped(n) \in Nat /\ Capped(n) <= MaxDelay /\ Capped(n) <= U64Max
PROOF
  <1> DEFINE ms == BaseDelay * Shifted(n)
  <1>1. ms \in Nat
    <2>1. BaseDelay \in Nat /\ Shifted(n) \in Nat
      BY ShiftedIsNat, RetryAssumption
    <2> HIDE DEF ms
    <2>2. \A p, q \in Nat : p * q \in Nat
      OBVIOUS
    <2>3. QED
      BY <2>1, <2>2 DEF ms
  <1>2. Capped(n) = IF Saturated(ms) < MaxDelay THEN Saturated(ms) ELSE MaxDelay
    BY DEF Capped
  <1>3. QED
    <2> HIDE DEF ms
    <2> QED BY <1>1, <1>2, RetryAssumption DEF Saturated

\* An eighth of the capped delay either way.
LEMMA DelaysInRange ==
  ASSUME NEW n \in Nat, NEW d \in Delays(n)
  PROVE  d \in Nat /\ 8 * d >= 7 * Capped(n) /\ 8 * d <= 9 * MaxDelay
PROOF
  <1> DEFINE c == Capped(n)
             range == c \div 4
  <1>1. c \in Nat /\ c <= MaxDelay /\ c <= U64Max /\ MaxDelay \in Nat /\ U64Max \in Nat
    BY CappedInRange, RetryAssumption
  <1>2. CASE ~Jitter
    <2>1. d = c
      BY <1>2 DEF Delays
    <2> HIDE DEF c
    <2>2. QED
      BY <1>1, <2>1 DEF c
  <1>3. CASE Jitter
    <2>1. PICK r \in IF range > 0 THEN 0..(range - 1) ELSE {0} :
            d = Saturated(c - range \div 2 + r)
      BY <1>3 DEF Delays
    <2> HIDE DEF c
    <2>2. range \in Nat /\ 4 * range <= c
      BY <1>1
    <2> DEFINE half == range \div 2
    <2> HIDE DEF range
    <2>3. half \in Nat /\ 2 * half <= range /\ range <= 2 * half + 1
      BY <2>2
    <2> HIDE DEF half
    <2>4. r \in Nat /\ (r = 0 \/ r <= range - 1)
      BY <2>1, <2>2
    <2> DEFINE ms == c - half + r
    <2>5. ms \in Nat /\ 8 * ms >= 7 * c /\ 8 * ms <= 9 * c
      BY <1>1, <2>2, <2>3, <2>4
    <2>6. d = IF ms > U64Max THEN U64Max ELSE ms
      BY <2>1 DEF Saturated, half
    <2> HIDE DEF ms
    <2>7. QED
      BY <1>1, <2>5, <2>6 DEF c
  <1>4. QED
    BY <1>2, <1>3 DEF RetryAssumption, Delays

PausesOK == pause \in [Workers -> [after : Nat, delay : Nat]] /\ PauseInRange

LEMMA PausesOKNext ==
  ASSUME TypeInv, PausesOK, [NodeCallsNext]_nvars
  PROVE  PausesOK'
PROOF
  <1>1. CASE UNCHANGED pause
    BY <1>1 DEF PausesOK, PauseInRange
  <1>2. CASE \E w \in Workers : Retry(w)
    <2>1. PICK w \in Workers : Retry(w)
      BY <1>2
    <2>2. PICK d \in Delays(op[w].attempt) :
            pause' = [pause EXCEPT ![w] = [after |-> op[w].attempt, delay |-> d]]
      BY <2>1 DEF Retry
    <2>3. op[w].attempt \in Nat
      BY DEF TypeInv, TypeOK, Op
    <2> DEFINE n == op[w].attempt
    <2>4. d \in Nat /\ 8 * d >= 7 * Capped(n) /\ 8 * d <= 9 * MaxDelay
      BY <2>2, <2>3, DelaysInRange
    <2>5. pause' = [pause EXCEPT ![w] = [after |-> n, delay |-> d]] /\ n \in Nat
      BY <2>2, <2>3
    <2> HIDE DEF n
    <2>6. pause' \in [Workers -> [after : Nat, delay : Nat]]
      BY <2>4, <2>5 DEF PausesOK
    <2>7. ASSUME NEW v \in Workers, pause'[v] # NoPause
          PROVE  /\ 8 * pause'[v].delay >= 7 * Capped(pause'[v].after)
                 /\ 8 * pause'[v].delay <= 9 * MaxDelay
      <3>1. CASE v = w
        <4>1. pause'[v] = [after |-> n, delay |-> d]
          BY <2>5, <3>1 DEF PausesOK
        <4>2. QED
          BY <2>4, <4>1
      <3>2. CASE v # w
        <4>1. pause'[v] = pause[v]
          BY <2>5, <3>2 DEF PausesOK
        <4>2. QED
          BY <2>7, <4>1 DEF PausesOK, PauseInRange
      <3>3. QED
        BY <3>1, <3>2
    <2>8. QED
      BY <2>6, <2>7 DEF PausesOK, PauseInRange
  <1>3. QED
    BY <1>1, <1>2
       DEF NodeCallsNext, nvars, extra, CallNode, CallOk, SaveWithId, RunChild, Succeed, Otherwise,
           Die, Forget

\* Whatever the policy's settings: a pause is an eighth off the backoff at most,
\* so it exceeds max_delay_ms by an eighth at most.
THEOREM PausesKeepToTheBackoff == NodeCallsSpec => []PauseInRange
PROOF
  <1>1. NodeCallsInit => PausesOK
    BY DEF NodeCallsInit, NoPause, PausesOK, PauseInRange
  <1>2. TypeInv /\ PausesOK /\ [NodeCallsNext]_nvars => PausesOK'
    BY PausesOKNext
  <1>3. PausesOK => PauseInRange
    BY DEF PausesOK
  <1>4. QED
    BY <1>1, <1>2, <1>3, NodeCallsTypeInv, PTL DEF NodeCallsSpec

-----------------------------------------------------------------------------
(* execution_id.  The inductive invariant: while a call runs, what it has        *)
(* invoked so far was given the state it started from and no checkpoint, or the  *)
(* state and the id of one of its own checkpoints.                              *)

\* Where a call is in run_inner.
Calling == {"head", "loop", "call", "saveStep", "saveYield", "saveGate"}

\* `l` is the call's last_checkpoint_id, `s` the rows, `inv` the invocations.
OwnKeys(inv, o, l, s) ==
  /\ o.basis <= Len(s)
  /\ l = 0 \/ l = o.basis
  /\ \A x \in inv : x.call = o.id /\ ~x.child =>
       /\ x.basis <= o.basis
       /\ l = 0 => x.basis = o.basis /\ x.key[2] = 0
       /\ l # 0 => x.key[2] = x.basis \/ (x.key[2] = 0 /\ x.basis < o.basis)

\* Invocations are of calls that have started; a key names its node.
InvokedOK == \A x \in invoked : /\ x.call \in Nat /\ x.call <= started
                                /\ x.basis \in Nat
                                /\ x.key = <<x.node, x.key[2]>>

CallsNumbered ==
  /\ \A w \in Workers : Live(w) => op[w].id <= started
  /\ \A v, w \in Workers : Live(v) /\ Live(w) /\ v # w => op[v].id # op[w].id

\* A call begins with no checkpoint of its own, and has invoked nothing.
BeginsEmpty ==
  \A w \in Workers :
    /\ pc[w] \in {"idle", "claimed", "head"} => last[w] = 0
    /\ pc[w] \in {"claimed", "head"} => \A x \in invoked : x.call # op[w].id

KeysInv == /\ last \in [Workers -> Nat]
           /\ InvokedOK
           /\ CallsNumbered
           /\ BeginsEmpty
           /\ \A w \in Workers : pc[w] \in Calling => OwnKeys(invoked, op[w], last[w], rows)
           /\ KeysNameSteps

\* A step of one call, which may invoke nodes.
LEMMA StepKeepsKeys ==
  ASSUME TypeInv, KeysInv, NEW w \in Workers, Live(w),
         \E to, o : Move(w, to, o), started' = started,
         rows \in Seq(Row), rows' \in Seq(Row), Len(rows) <= Len(rows'),
         last' \in [Workers -> Nat], \A v \in Workers : v # w => last'[v] = last[v],
         InvokedOK', KeysNameSteps',
         \A x \in invoked' : x \in invoked \/ x.call = op[w].id,
         pc'[w] = "idle" => last'[w] = 0,
         pc'[w] # "idle" => op'[w].id = op[w].id /\ pc'[w] # "claimed",
         pc'[w] = "head" => last'[w] = 0 /\ pc[w] = "claimed" /\ invoked' = invoked,
         pc'[w] \in Calling => OwnKeys(invoked', op'[w], last'[w], rows')
  PROVE  KeysInv'
PROOF
  <1>1. \A v \in Workers : v # w => pc'[v] = pc[v] /\ op'[v] = op[v] /\ last'[v] = last[v]
    BY DEF TypeInv, TypeOK, Move, KeysInv
  <1>2. CallsNumbered'
    <2>1. \A v \in Workers : Live(v)' => Live(v) /\ op'[v].id = op[v].id
      <3> SUFFICES ASSUME NEW v \in Workers, pc'[v] # "idle"
                   PROVE  pc[v] # "idle" /\ op'[v].id = op[v].id
        BY DEF Live
      <3>1. CASE v = w
        BY <3>1 DEF Live
      <3>2. CASE v # w
        BY <1>1, <3>2
      <3>3. QED
        BY <3>1, <3>2
    <2>2. QED
      BY <2>1 DEF KeysInv, CallsNumbered
  <1>3. \A v \in Workers : v # w /\ Live(v) => op[v].id # op[w].id
    BY DEF KeysInv, CallsNumbered
  <1>4. BeginsEmpty'
    <2> SUFFICES ASSUME NEW v \in Workers
                 PROVE  /\ pc'[v] \in {"idle", "claimed", "head"} => last'[v] = 0
                        /\ pc'[v] \in {"claimed", "head"} =>
                             \A x \in invoked' : x.call # op'[v].id
      BY DEF BeginsEmpty
    <2>1. CASE v = w
      BY <1>1, <2>1 DEF KeysInv, BeginsEmpty
    <2>2. CASE v # w
      BY <1>1, <1>3, <2>2 DEF KeysInv, BeginsEmpty, Live
    <2>3. QED
      BY <2>1, <2>2
  <1>5. ASSUME NEW v \in Workers, pc'[v] \in Calling
        PROVE  OwnKeys(invoked', op'[v], last'[v], rows')
    <2>1. CASE v = w
      BY <1>1, <1>5, <2>1
    <2>2. CASE v # w
      <3>1. /\ OwnKeys(invoked, op[v], last[v], rows) /\ op[v].basis \in Nat
            /\ \A x \in invoked' : x.call = op[v].id => x \in invoked
        BY <1>1, <1>3, <1>5, <2>2 DEF KeysInv, Calling, Live, TypeInv, TypeOK, Op
      <3>2. op[v].basis <= Len(rows')
        BY <3>1 DEF OwnKeys
      <3>3. OwnKeys(invoked', op[v], last[v], rows')
        BY <3>1, <3>2 DEF OwnKeys
      <3>4. QED
        BY <1>1, <2>2, <3>3
    <2>3. QED
      BY <2>1, <2>2
  <1>6. QED
    BY <1>1, <1>2, <1>4, <1>5 DEF KeysInv

\* A step that invokes nothing and goes on with the same call, if it goes on.
LEMMA QuietKeepsKeys ==
  ASSUME TypeInv, KeysInv, NEW w \in Workers, Live(w), rows' \in Seq(Row),
         \E to, o : Move(w, to, o), started' = started, Len(rows) <= Len(rows'),
         last' = [last EXCEPT ![w] = IF pc'[w] # "idle" THEN @ ELSE 0], invoked' = invoked,
         pc'[w] # "idle" => /\ op'[w].id = op[w].id /\ op'[w].basis = op[w].basis
                            /\ pc'[w] \notin {"claimed", "head"},
         pc'[w] \in Calling => pc[w] \in Calling
  PROVE  KeysInv'
PROOF
  <1>1. rows \in Seq(Row) /\ op[w] \in Op
    BY DEF TypeInv, TypeOK
  <1>2. /\ last' \in [Workers -> Nat] /\ \A v \in Workers : v # w => last'[v] = last[v]
        /\ last'[w] = IF pc'[w] # "idle" THEN last[w] ELSE 0
    BY DEF KeysInv
  <1>3. InvokedOK' /\ KeysNameSteps'
    BY DEF KeysInv, InvokedOK, KeysNameSteps
  <1>4. pc'[w] \in Calling => OwnKeys(invoked', op'[w], last'[w], rows')
    <2>1. op[w].basis \in Nat /\ Len(rows) \in Nat /\ Len(rows') \in Nat
      BY <1>1 DEF Op
    <2>2. pc'[w] \in Calling => OwnKeys(invoked, op[w], last[w], rows) /\ pc'[w] # "idle"
      BY DEF KeysInv, Calling
    <2>3. QED
      BY <1>2, <2>1, <2>2 DEF OwnKeys
  <1>5. QED
    BY <1>1, <1>2, <1>3, <1>4, StepKeepsKeys

\* An attempt of the step that the call is at.
LEMMA InvokeKeepsKeys ==
  ASSUME TypeInv, KeysInv, NEW w \in Workers, pc[w] \in {"loop", "call"},
         NEW o, Move(w, "call", o), SameCall(o, op[w]), o.node = op[w].node,
         Invoke(w), UNCHANGED <<rows, started, last>>
  PROVE  KeysInv'
PROOF
  <1> DEFINE y == ContextOf(w, o, o.node, FALSE)
             l == last[w]
  <1>1. /\ op'[w] = o /\ pc'[w] = "call"
        /\ rows \in Seq(Row) /\ rows' \in Seq(Row) /\ Len(rows) <= Len(rows')
        /\ op[w] \in Op /\ o.id \in Nat /\ o.basis \in Nat
        /\ o.id = op[w].id /\ o.basis = op[w].basis
    BY DEF Move, TypeInv, TypeOK, SameCall, Op
  <1>2. invoked' = invoked \cup {y}
    BY <1>1 DEF Invoke
  <1>3. /\ y.call = o.id /\ ~y.child /\ y.basis = o.basis /\ y.node = o.node
        /\ y.key = <<o.node, l>> /\ y.key[2] = l
    BY DEF ContextOf, Key
  <1>4. /\ Live(w) /\ l \in Nat /\ last' \in [Workers -> Nat] /\ last'[w] = l
        /\ \A v \in Workers : v # w => last'[v] = last[v]
    BY DEF KeysInv, Live
  <1>5. OwnKeys(invoked, op[w], l, rows)
    BY DEF KeysInv, Calling
  <1> HIDE DEF y, l
  <1>6. InvokedOK'
    <2>1. o.id <= started
      BY <1>1, <1>4 DEF KeysInv, CallsNumbered
    <2>2. QED
      BY <1>1, <1>2, <1>3, <2>1 DEF KeysInv, InvokedOK
  <1>7. ASSUME NEW x \in invoked, x.call = y.call, ~x.child
        PROVE  x.key = y.key <=> StepOf(x) = StepOf(y)
    <2>1. /\ x.basis \in Nat /\ x.key = <<x.node, x.key[2]>>
      BY DEF KeysInv, InvokedOK
    <2>2. x.key[2] = l <=> x.basis = o.basis
      <3>1. CASE l = 0
        BY <1>1, <1>3, <1>5, <1>7, <3>1 DEF OwnKeys
      <3>2. CASE l # 0
        <4>1. l = o.basis
          BY <1>1, <1>5, <3>2 DEF OwnKeys
        <4>2. x.key[2] = x.basis \/ (x.key[2] = 0 /\ x.basis < o.basis)
          BY <1>1, <1>3, <1>5, <1>7, <3>2 DEF OwnKeys
        <4>3. QED
          BY <1>1, <2>1, <3>2, <4>1, <4>2
      <3>3. QED
        BY <3>1, <3>2
    <2>3. x.key = y.key <=> x.node = o.node /\ x.key[2] = l
      <3> DEFINE m == x.key[2]
      <3>1. x.key = <<x.node, m>> /\ y.key = <<o.node, l>>
        BY <1>3, <2>1
      <3> HIDE DEF m
      <3>2. x.key = y.key <=> x.node = o.node /\ m = l
        BY <3>1
      <3>3. QED
        BY <3>2 DEF m
    <2>4. StepOf(x) = StepOf(y) <=> x.basis = o.basis /\ x.node = o.node
      BY <1>3 DEF StepOf
    <2>5. QED
      BY <2>2, <2>3, <2>4
  <1>8. KeysNameSteps'
    <2> SUFFICES ASSUME NEW x \in invoked', NEW z \in invoked',
                        x.call = z.call, ~x.child, ~z.child
                 PROVE  x.key = z.key <=> StepOf(x) = StepOf(z)
      BY DEF KeysNameSteps, StepOf
    <2>1. CASE x \in invoked /\ z \in invoked
      BY <2>1 DEF KeysInv, KeysNameSteps
    <2>2. CASE x \in invoked /\ z = y
      BY <1>7, <2>2
    <2>3. CASE x = y /\ z \in invoked
      BY <1>7, <2>3
    <2>4. CASE x = y /\ z = y
      BY <2>4
    <2>5. QED
      BY <1>2, <2>1, <2>2, <2>3, <2>4
  <1>9. OwnKeys(invoked', o, l, rows')
    BY <1>1, <1>2, <1>3, <1>4, <1>5 DEF OwnKeys
  <1>10. \A x \in invoked' : x \in invoked \/ x.call = op[w].id
    BY <1>1, <1>2, <1>3
  <1>11. pc'[w] \in Calling => OwnKeys(invoked', op'[w], last'[w], rows')
    BY <1>1, <1>4, <1>9
  <1>12. /\ pc'[w] = "idle" => last'[w] = 0
         /\ pc'[w] # "idle" => op'[w].id = op[w].id /\ pc'[w] # "claimed"
         /\ pc'[w] = "head" => last'[w] = 0 /\ pc[w] = "claimed" /\ invoked' = invoked
    BY <1>1
  <1>13. \E at, p : Move(w, at, p)
    OBVIOUS
  <1>14. QED
    BY <1>1, <1>4, <1>6, <1>8, <1>10, <1>11, <1>12, <1>13, StepKeepsKeys

\* A child of the node that is being called.
LEMMA ChildKeepsKeys ==
  ASSUME TypeInv, KeysInv, NEW w \in Workers, NEW c, RunChild(w, c)
  PROVE  KeysInv'
PROOF
  <1> DEFINE y == ContextOf(w, op[w], c, TRUE)
  <1>1. /\ pc[w] = "call" /\ UNCHANGED <<rows, pc, op, started, last>>
        /\ invoked' = invoked \cup {y}
    BY DEF RunChild, vars
  <1>2. y.call = op[w].id /\ y.child /\ y.basis = op[w].basis /\ y.node = c /\ y.key = <<c, last[w]>>
    BY DEF ContextOf, Key
  <1> HIDE DEF y
  <1>3. y.key = <<y.node, y.key[2]>>
    BY <1>2
  <1>4. op[w].id \in Nat /\ op[w].basis \in Nat /\ op[w].id <= started
    BY <1>1 DEF TypeInv, TypeOK, Op, KeysInv, CallsNumbered, Live
  <1>5. InvokedOK'
    BY <1>1, <1>2, <1>3, <1>4 DEF KeysInv, InvokedOK
  <1>6. KeysNameSteps'
    BY <1>1, <1>2 DEF KeysInv, KeysNameSteps, StepOf
  <1>7. CallsNumbered'
    BY <1>1 DEF KeysInv, CallsNumbered, Live
  <1>8. BeginsEmpty'
    BY <1>1, <1>2 DEF KeysInv, BeginsEmpty, CallsNumbered, Live
  <1>9. \A v \in Workers : pc'[v] \in Calling => OwnKeys(invoked', op'[v], last'[v], rows')
    BY <1>1, <1>2 DEF KeysInv, OwnKeys
  <1>10. QED
    BY <1>1, <1>5, <1>6, <1>7, <1>8, <1>9 DEF KeysInv

\* The next step is given a checkpoint that no earlier invocation was given.
LEMMA SaveKeepsKeys ==
  ASSUME TypeInv, KeysInv, NEW w \in Workers, SaveWithId(w)
  PROVE  KeysInv'
PROOF
  <1> DEFINE n == Len(rows)
  <1>1. /\ pc[w] = "saveStep" /\ SaveStep(w) /\ Live(w) /\ UNCHANGED <<started, invoked>>
        /\ op[w] \in Op /\ rows \in Seq(Row) /\ n \in Nat
    BY DEF SaveWithId, SaveStep, Unchanged, Live, TypeInv, TypeOK
  <1>2. rows' \in Seq(Row) /\ Len(rows') = n + 1
    <2> DEFINE r == StepRow(op[w].next, op[w].resolved, op[w].basis, op[w].id)
    <2>1. r \in Row /\ Written(r)
      BY <1>1, PendingRowsOK DEF SaveStep
    <2> HIDE DEF r
    <2>2. QED
      BY <1>1, <2>1, AppendRow DEF Written
  <1>3. InvokedOK' /\ KeysNameSteps'
    BY <1>1 DEF KeysInv, InvokedOK, KeysNameSteps
  <1>4. \E to, o : Move(w, to, o)
    BY <1>1, WorkIsMove DEF Step
  <1>5. \/ pc'[w] = "idle"
        \/ pc'[w] = "loop" /\ op'[w].id = op[w].id /\ op'[w].basis = n + 1
    BY <1>1 DEF SaveStep, Return, Move, TypeInv, TypeOK, Op
  <1>6. last' = [last EXCEPT ![w] = IF pc'[w] = "loop" THEN n + 1 ELSE 0]
    BY <1>2 DEF SaveWithId
  <1>7. /\ last' \in [Workers -> Nat] /\ \A v \in Workers : v # w => last'[v] = last[v]
        /\ last'[w] = IF pc'[w] = "loop" THEN n + 1 ELSE 0
    BY <1>1, <1>6 DEF KeysInv
  <1>8. OwnKeys(invoked, op[w], last[w], rows)
    BY <1>1 DEF KeysInv, Calling
  <1>9. ASSUME pc'[w] = "loop" PROVE OwnKeys(invoked', op'[w], last'[w], rows')
    <2> SUFFICES ASSUME NEW x \in invoked, x.call = op[w].id, ~x.child
                 PROVE  x.basis <= n + 1 /\ (x.key[2] = x.basis \/ (x.key[2] = 0 /\ x.basis < n + 1))
      BY <1>1, <1>2, <1>5, <1>7, <1>9 DEF OwnKeys
    <2>1. x.basis \in Nat /\ op[w].basis \in Nat /\ op[w].basis <= n /\ x.basis <= op[w].basis
      BY <1>1, <1>8 DEF OwnKeys, KeysInv, InvokedOK, Op
    <2>2. x.key[2] = x.basis \/ x.key[2] = 0
      BY <1>8 DEF OwnKeys
    <2>3. QED
      BY <1>1, <2>1, <2>2
  <1>10. /\ pc'[w] = "idle" => last'[w] = 0
         /\ pc'[w] # "idle" => op'[w].id = op[w].id /\ pc'[w] # "claimed"
         /\ pc'[w] # "head"
         /\ pc'[w] \in Calling => pc'[w] = "loop"
    BY <1>5, <1>7 DEF Calling
  <1>11. Len(rows) <= Len(rows') /\ \A x \in invoked' : x \in invoked
    BY <1>1, <1>2
  <1>12. QED
    BY <1>1, <1>2, <1>3, <1>4, <1>7, <1>9, <1>10, <1>11, StepKeepsKeys

\* The claimed row is loaded before anything is invoked.
LEMMA LoadKeepsKeys ==
  ASSUME TypeInv, KeysInv, NEW w \in Workers, LoadClaimed(w), Forget(w)
  PROVE  KeysInv'
PROOF
  <1>1. /\ pc[w] = "claimed" /\ Live(w) /\ UNCHANGED <<rows, started, invoked>>
        /\ op[w] \in Op /\ rows \in Seq(Row) /\ Len(rows) \in Nat
    BY DEF LoadClaimed, Unchanged, Forget, Live, TypeInv, TypeOK
  <1>2. pc'[w] = "head" /\ op'[w].id = op[w].id /\ op'[w].basis = Len(rows)
    BY <1>1 DEF LoadClaimed, Move, TypeInv, TypeOK, Op
  <1>3. \E to, o : Move(w, to, o)
    BY WorkIsMove DEF Step
  <1>4. InvokedOK' /\ KeysNameSteps'
    BY <1>1 DEF KeysInv, InvokedOK, KeysNameSteps
  <1>5. /\ last' \in [Workers -> Nat] /\ \A v \in Workers : v # w => last'[v] = last[v]
        /\ last'[w] = 0
    BY <1>1, <1>2 DEF Forget, Live, KeysInv, BeginsEmpty
  <1>6. \A x \in invoked : x.call # op[w].id
    BY <1>1 DEF KeysInv, BeginsEmpty
  <1>7. OwnKeys(invoked', op'[w], last'[w], rows')
    BY <1>1, <1>2, <1>5, <1>6 DEF OwnKeys
  <1>8. Len(rows) <= Len(rows') /\ rows' \in Seq(Row)
    BY <1>1
  <1>9. QED
    BY <1>1, <1>2, <1>3, <1>4, <1>5, <1>7, <1>8, StepKeepsKeys

\* A new call has a number of its own.
LEMMA StartKeepsKeys ==
  ASSUME TypeInv, KeysInv, NEW w \in Workers, Start(w), UNCHANGED extra
  PROVE  KeysInv'
PROOF
  <1>1. /\ ~Live(w) /\ started' = started + 1 /\ started \in Nat /\ UNCHANGED <<last, invoked>>
        /\ rows \in Seq(Row) /\ rows' \in Seq(Row) /\ Len(rows') = Len(rows)
        /\ op \in [Workers -> Op]
    <2>1. CASE \E i \in Interrupts : StartClaim(w, i)
      BY <2>1, ClaimedRow DEF StartClaim, Claimable, Begin, TypeInv, TypeOK, extra
    <2>2. CASE StartResume(w) \/ \E n \in Starts : StartRun(w, n)
      BY <2>2 DEF StartRun, StartResume, Begin, TypeInv, TypeOK, extra
    <2>3. QED
      BY <2>1, <2>2 DEF Start
  <1>2. PICK to, o : /\ Move(w, to, o) /\ to \in {"head", "claimed"} /\ o.id = started + 1
                     /\ to = "head" => o.basis <= Len(rows)
    <2>1. CASE \E i \in Interrupts : StartClaim(w, i)
      <3>1. PICK i : Move(w, "claimed", NewOp("input", started + 1, End, i, 0))
        BY <2>1 DEF StartClaim, Begin
      <3>2. QED
        BY <3>1 DEF NewOp
    <2>2. CASE \E n \in Starts : StartRun(w, n)
      <3>1. PICK n : Move(w, "head", NewOp("run", started + 1, n, NoInterrupt, 0))
        BY <2>2 DEF StartRun, Begin
      <3>2. QED
        BY <1>1, <3>1 DEF NewOp
    <2>3. CASE StartResume(w)
      <3>1. PICK n : Move(w, "head", NewOp("resume", started + 1, n, Latest(rows).claimed, Len(rows)))
        BY <2>3 DEF StartResume, Begin
      <3>2. QED
        BY <1>1, <3>1 DEF NewOp
    <2>4. QED
      BY <2>1, <2>2, <2>3 DEF Start
  <1>3. /\ pc'[w] = to /\ op'[w] = o /\ last[w] = 0
        /\ \A v \in Workers : v # w => pc'[v] = pc[v] /\ op'[v] = op[v]
    BY <1>1, <1>2 DEF Move, Live, KeysInv, BeginsEmpty, TypeInv, TypeOK
  <1>4. InvokedOK' /\ KeysNameSteps'
    BY <1>1 DEF KeysInv, InvokedOK, KeysNameSteps
  <1>5. \A x \in invoked : x.call # o.id
    BY <1>1, <1>2 DEF KeysInv, InvokedOK
  <1>6. CallsNumbered'
    <2>1. \A v \in Workers : v # w /\ Live(v) => op[v].id \in Nat /\ op[v].id <= started
      BY <1>1 DEF KeysInv, CallsNumbered, Op
    <2>2. QED
      BY <1>1, <1>2, <1>3, <2>1 DEF KeysInv, CallsNumbered, Live
  <1>7. BeginsEmpty'
    BY <1>1, <1>2, <1>3, <1>5 DEF KeysInv, BeginsEmpty
  <1>8. \A v \in Workers : pc'[v] \in Calling => OwnKeys(invoked', op'[v], last'[v], rows')
    <2> SUFFICES ASSUME NEW v \in Workers, pc'[v] \in Calling
                 PROVE  OwnKeys(invoked, op'[v], last[v], rows')
      BY <1>1
    <2>1. CASE v = w
      BY <1>1, <1>2, <1>3, <1>5, <2>1 DEF OwnKeys, Calling
    <2>2. CASE v # w
      BY <1>1, <1>3, <2>2 DEF KeysInv, OwnKeys
    <2>3. QED
      BY <2>1, <2>2
  <1>9. QED
    BY <1>1, <1>4, <1>6, <1>7, <1>8 DEF KeysInv

\* All other steps of a call, with the places between which they go.
LEMMA OtherwisePlaces ==
  ASSUME TypeInv, NEW w \in Workers, Succeed(w) \/ Otherwise(w) \/ Die(w) \/ CallOk(w),
         ~LoadClaimed(w)
  PROVE  /\ Live(w) /\ started' = started /\ invoked' = invoked
         /\ pc'[w] # "idle" => /\ op'[w].id = op[w].id /\ op'[w].basis = op[w].basis
                               /\ pc'[w] \notin {"claimed", "head"}
         /\ pc'[w] \in Calling => pc[w] \in Calling
PROOF
  <1>0. pc \in [Workers -> PC] /\ op \in [Workers -> Op] /\ op[w] \in Op
    BY DEF TypeInv, TypeOK
  <1>1. CASE \/ LoadRejected(w) \/ SchemaRejected(w) \/ ReachEnd(w) \/ RevertConflict(w)
             \/ SaveYield(w) \/ SaveGate(w) \/ Revert(w) \/ Crash(w)
    <2>1. pc'[w] = "idle" /\ Live(w) /\ started' = started
      BY <1>0, <1>1
         DEF LoadRejected, SchemaRejected, ReachEnd, RevertConflict, SaveYield, SaveGate,
             Revert, Crash, Return, Move, Live, Unchanged, Fault
    <2>2. QED
      BY <1>1, <2>1 DEF Succeed, Otherwise, Die, CallOk, Forget, Calling
  <1>2. CASE \/ StepLimit(w) \/ NodeNotFound(w) \/ NodeFails(w) \/ SaveConflict(w)
             \/ StoreFails(w) \/ AnswerLost(w)
    <2>1. /\ pc'[w] \in {"idle", "revert", "revertHead"} /\ Live(w) /\ started' = started
          /\ pc'[w] # "idle" => op'[w] = op[w]
      <3>1. CASE Fail(w)
        BY <1>0, <1>2, <3>1
           DEF StepLimit, NodeNotFound, NodeFails, SaveConflict, StoreFails, AnswerLost, Saving,
               Fail, Return, Move, Live, Unchanged, Fault
      <3>2. CASE Return(w)
        BY <1>0, <1>2, <3>2
           DEF StepLimit, NodeNotFound, NodeFails, SaveConflict, StoreFails, AnswerLost, Saving,
               Return, Move, Live, Unchanged, Fault
      <3>3. QED
        BY <1>2, <3>1, <3>2
           DEF StepLimit, NodeNotFound, NodeFails, SaveConflict, StoreFails, AnswerLost
    <2>2. QED
      BY <1>2, <2>1 DEF Succeed, Otherwise, Die, CallOk, Forget, Calling
  <1>3. CASE ReadHead(w) \/ InterruptAtGate(w) \/ NodeYields(w) \/ NodeOk(w) \/ RevertHead(w)
    <2>1. /\ Live(w) /\ started' = started /\ rows' = rows
          /\ pc'[w] \in {"loop", "saveGate", "saveYield", "saveStep", "revert"}
          /\ pc'[w] \in Calling => pc[w] \in Calling
      BY <1>0, <1>3
         DEF ReadHead, InterruptAtGate, NodeYields, NodeOk, RevertHead, Move, Live,
             Unchanged, Calling
    <2>2. op'[w].id = op[w].id /\ op'[w].basis = op[w].basis
      <3>1. QuietStep(w) \/ WriteStep(w)
        BY <1>3, StepShapes DEF Step
      <3>2. ~WriteStep(w)
        BY <2>1, AppendRow DEF WriteStep, OwnWrite, Written, TypeInv, TypeOK
      <3>3. QED
        BY <2>1, <3>1, <3>2 DEF QuietStep, SameCall
    <2>3. QED
      BY <1>3, <2>1, <2>2 DEF Succeed, Otherwise, Die, CallOk, Forget
  <1>4. QED
    BY <1>1, <1>2, <1>3 DEF Succeed, Otherwise, Die, CallOk

LEMMA OtherwiseKeepsKeys ==
  ASSUME TypeInv, TypeInv', KeysInv, NEW w \in Workers,
         Succeed(w) \/ Otherwise(w) \/ Die(w) \/ CallOk(w)
  PROVE  KeysInv'
PROOF
  <1>1. CASE LoadClaimed(w)
    <2>1. ~CallOk(w) /\ ~Die(w) /\ ~Succeed(w)
      BY <1>1
         DEF CallOk, NodeOk, Die, Crash, Succeed, ReachEnd, SaveGate, SaveYield, LoadClaimed,
             Move, Return, TypeInv, TypeOK
    <2>2. QED
      BY <1>1, <2>1, LoadKeepsKeys DEF Otherwise
  <1>2. CASE ~LoadClaimed(w)
    <2>1. /\ Live(w) /\ started' = started /\ invoked' = invoked
          /\ pc'[w] # "idle" => /\ op'[w].id = op[w].id /\ op'[w].basis = op[w].basis
                                /\ pc'[w] \notin {"claimed", "head"}
          /\ pc'[w] \in Calling => pc[w] \in Calling
      BY <1>2, OtherwisePlaces
    <2>2. Step(w) \/ Faulty(w)
      BY DEF Succeed, Otherwise, Die, CallOk, Step, Faulty
    <2>3. \E to, o : Move(w, to, o)
      BY <2>2, WorkIsMove
    <2>4. rows \in Seq(Row) /\ rows' \in Seq(Row) /\ Len(rows) <= Len(rows')
      <3>1. rows' = rows \/ \E r \in Row : Written(r)
        BY <2>2, StepShapes, FaultyShapes DEF QuietStep, LoadClaimed, WriteStep, OwnWrite
      <3>2. rows \in Seq(Row)
        BY DEF TypeInv, TypeOK
      <3>3. QED
        BY <3>1, <3>2, AppendRow DEF Written
    <2>5. last' = [last EXCEPT ![w] = IF pc'[w] # "idle" THEN @ ELSE 0]
      <3>1. CASE Succeed(w) \/ Otherwise(w) \/ Die(w)
        BY <3>1 DEF Succeed, Otherwise, Die, Forget, Live
      <3>2. CASE CallOk(w)
        <4>1. pc'[w] = "saveStep" /\ last' = last
          BY <3>2 DEF CallOk, NodeOk, Move, TypeInv, TypeOK
        <4>2. QED
          BY <4>1 DEF KeysInv
      <3>3. QED
        BY <3>1, <3>2
    <2>6. QED
      BY <2>1, <2>3, <2>4, <2>5, QuietKeepsKeys
  <1>3. QED
    BY <1>1, <1>2

LEMMA KeysInvNext ==
  ASSUME TypeInv, TypeInv', KeysInv, [NodeCallsNext]_nvars
  PROVE  KeysInv'
PROOF
  <1>1. CASE UNCHANGED nvars
    BY <1>1 DEF nvars, vars, extra, KeysInv, InvokedOK, CallsNumbered, BeginsEmpty, Live,
                KeysNameSteps
  <1>2. CASE NodeCallsNext
    <2>1. PICK w \in Workers :
            \/ Start(w) /\ UNCHANGED extra
            \/ CallNode(w) \/ Retry(w) \/ CallOk(w) \/ SaveWithId(w)
            \/ (\E c \in ChildNodes : RunChild(w, c))
            \/ Succeed(w) \/ Otherwise(w) \/ Die(w)
      BY <1>2 DEF NodeCallsNext
    <2>2. CASE CallNode(w)
      <3> DEFINE o == [op[w] EXCEPT !.steps = @ + 1, !.attempt = 0]
      <3>1. /\ Move(w, "call", o) /\ pc[w] = "loop" /\ Invoke(w)
            /\ UNCHANGED <<rows, started, last>>
        BY <2>2 DEF CallNode, EnterNode, Unchanged
      <3>2. SameCall(o, op[w]) /\ o.node = op[w].node
        BY DEF SameCall, TypeInv, TypeOK, Op
      <3>3. QED
        <4> HIDE DEF o
        <4> QED BY <3>1, <3>2, InvokeKeepsKeys
    <2>3. CASE Retry(w)
      <3> DEFINE o == [Taken(op[w]) EXCEPT !.attempt = @ + 1]
      <3>1. /\ Move(w, "call", o) /\ pc[w] = "call" /\ Invoke(w)
            /\ UNCHANGED <<rows, started, last>>
        BY <2>3 DEF Retry, NodeRetries, Unchanged
      <3>2. SameCall(o, op[w]) /\ o.node = op[w].node
        BY DEF SameCall, Taken, TypeInv, TypeOK, Op
      <3>3. QED
        <4> HIDE DEF o
        <4> QED BY <3>1, <3>2, InvokeKeepsKeys
    <2>4. QED
      BY <2>1, <2>2, <2>3, StartKeepsKeys, SaveKeepsKeys, ChildKeepsKeys, OtherwiseKeepsKeys
  <1>3. QED
    BY <1>1, <1>2

\* What a call has invoked, whoever else works on the thread.
LEMMA KeysInvHolds == NodeCallsSpec => []KeysInv
PROOF
  <1>1. NodeCallsInit => KeysInv
    BY DEF NodeCallsInit, Init, KeysInv, InvokedOK, CallsNumbered, BeginsEmpty, Live, Calling,
           KeysNameSteps
  <1>2. TypeInv /\ TypeInv' /\ KeysInv /\ [NodeCallsNext]_nvars => KeysInv'
    BY KeysInvNext
  <1>3. QED
    BY <1>1, <1>2, NodeCallsTypeInv, PTL DEF NodeCallsSpec

\* Within one call execution_id tells steps apart and attempts of a step not,
\* for every graph with loops, every retry policy, and whatever other workers write.
THEOREM ExecutionIdsNameSteps == NodeCallsSpec => []KeysNameSteps
PROOF
  <1>1. KeysInv => KeysNameSteps
    BY DEF KeysInv
  <1>2. QED
    BY <1>1, KeysInvHolds, PTL

-----------------------------------------------------------------------------
(* The ring of execution records: by positions, since the rings that the model *)
(* compares are built by Append and SubSeq.                                    *)

\* `ring` is the end of `all`, as long as the limit allows.
IsEnd(ring, all) ==
  /\ Len(ring) = IF Len(all) > RecordLimit THEN RecordLimit ELSE Len(all)
  /\ \A i \in 1..Len(ring) : ring[i] = all[Len(all) - Len(ring) + i]

\* The eviction makes room for one, at the old end.
LEMMA Evicted ==
  ASSUME NEW ring \in Seq(Record), Len(ring) <= RecordLimit
  PROVE  /\ Evict(ring) \in Seq(Record)
         /\ Len(Evict(ring)) = IF Len(ring) = RecordLimit THEN RecordLimit - 1 ELSE Len(ring)
         /\ \A i \in 1..Len(Evict(ring)) :
              Evict(ring)[i] = ring[Len(ring) - Len(Evict(ring)) + i]
PROOF
  <1>1. RecordLimit \in Nat /\ RecordLimit > 0
    BY LimitAssumption
  <1>2. Len(ring) \in Nat
    BY LenProperties
  <1>3. CASE Len(ring) = RecordLimit
    <2>1. Evict(ring) = SubSeq(ring, 2, RecordLimit)
      BY <1>1, <1>3 DEF Evict
    <2>2. \A i \in 2..RecordLimit : ring[i] \in Record
      BY <1>1, <1>3, ElementOfSeq
    <2>3. /\ SubSeq(ring, 2, RecordLimit) \in Seq(Record)
          /\ Len(SubSeq(ring, 2, RecordLimit))
               = IF 2 <= RecordLimit THEN RecordLimit - 2 + 1 ELSE 0
          /\ \A i \in 1..(RecordLimit - 2 + 1) :
               SubSeq(ring, 2, RecordLimit)[i] = ring[2 + i - 1]
      BY <1>1, <2>2, SubSeqProperties
    <2>4. Len(Evict(ring)) = RecordLimit - 1
      BY <1>1, <2>1, <2>3
    <2>5. ASSUME NEW i \in 1..(RecordLimit - 1)
          PROVE  Evict(ring)[i] = ring[1 + i]
      <3>1. i \in 1..(RecordLimit - 2 + 1) /\ 2 + i - 1 = 1 + i
        BY <1>1
      <3>2. QED
        BY <2>1, <2>3, <3>1
    <2>6. Len(ring) - Len(Evict(ring)) = 1
      BY <1>1, <1>3, <2>4
    <2>7. QED
      BY <1>3, <2>1, <2>3, <2>4, <2>5, <2>6
  <1>4. CASE Len(ring) < RecordLimit
    <2>1. Evict(ring) = ring
      BY <1>1, <1>2, <1>4 DEF Evict
    <2>2. \A i \in 1..Len(ring) : Len(ring) - Len(ring) + i = i
      BY <1>2
    <2>3. QED
      BY <1>1, <1>2, <1>4, <2>1, <2>2
  <1>5. QED
    BY <1>1, <1>2, <1>3, <1>4

LEMMA PushKeepsTheEnd ==
  ASSUME NEW ring \in Seq(Record), NEW all \in Seq(Record), NEW r \in Record, IsEnd(ring, all)
  PROVE  /\ Append(Evict(ring), r) \in Seq(Record)
         /\ Append(all, r) \in Seq(Record)
         /\ IsEnd(Append(Evict(ring), r), Append(all, r))
PROOF
  <1> DEFINE e == Evict(ring)
             s == Append(e, r)
             t == Append(all, r)
  <1>1. RecordLimit \in Nat /\ RecordLimit > 0 /\ Len(ring) \in Nat /\ Len(all) \in Nat
    BY LimitAssumption, LenProperties
  <1>2. /\ Len(ring) = IF Len(all) > RecordLimit THEN RecordLimit ELSE Len(all)
        /\ \A i \in 1..Len(ring) : ring[i] = all[Len(all) - Len(ring) + i]
    BY DEF IsEnd
  <1>3. /\ e \in Seq(Record)
        /\ Len(e) = IF Len(ring) = RecordLimit THEN RecordLimit - 1 ELSE Len(ring)
        /\ \A i \in 1..Len(e) : e[i] = ring[Len(ring) - Len(e) + i]
    BY <1>1, <1>2, Evicted
  <1> HIDE DEF e
  <1>4. /\ s \in Seq(Record) /\ Len(s) = Len(e) + 1
        /\ \A i \in 1..Len(e) : s[i] = e[i]
        /\ s[Len(e) + 1] = r
    BY <1>3, AppendProperties
  <1>5. /\ t \in Seq(Record) /\ Len(t) = Len(all) + 1
        /\ \A i \in 1..Len(all) : t[i] = all[i]
        /\ t[Len(all) + 1] = r
    BY AppendProperties
  <1> HIDE DEF s, t
  <1>6. Len(e) \in Nat /\ Len(e) <= Len(ring) /\ Len(ring) <= Len(all)
    BY <1>1, <1>2, <1>3
  <1>7. ASSUME NEW i \in 1..Len(s)
        PROVE  s[i] = t[Len(t) - Len(s) + i]
    <2>1. CASE i = Len(e) + 1
      <3>1. Len(t) - Len(s) + i = Len(all) + 1
        BY <1>1, <1>4, <1>5, <1>6, <2>1
      <3>2. QED
        BY <1>4, <1>5, <2>1, <3>1
    <2>2. CASE i \in 1..Len(e)
      <3> DEFINE j == Len(ring) - Len(e) + i
                 k == Len(all) - Len(e) + i
      <3>1. /\ j \in 1..Len(ring) /\ k \in 1..Len(all)
            /\ Len(all) - Len(ring) + j = k /\ Len(t) - Len(s) + i = k
        BY <1>1, <1>4, <1>5, <1>6, <2>2
      <3>2. s[i] = e[i] /\ e[i] = ring[j]
        BY <1>3, <1>4, <2>2
      <3> HIDE DEF j, k
      <3>3. ring[j] = all[k]
        BY <1>2, <3>1
      <3>4. t[k] = all[k]
        BY <1>5, <3>1
      <3>5. QED
        BY <3>1, <3>2, <3>3, <3>4
    <2>3. QED
      BY <1>4, <1>6, <2>1, <2>2
  <1>8. Len(s) = IF Len(t) > RecordLimit THEN RecordLimit ELSE Len(t)
    BY <1>1, <1>2, <1>3, <1>4, <1>5
  <1>9. IsEnd(s, t)
    BY <1>7, <1>8 DEF IsEnd
  <1>10. QED
    BY <1>4, <1>5, <1>9 DEF s, t, e

\* A ring that ends as the history does is the subsequence the property names.
LEMMA EndIsSubSeq ==
  ASSUME NEW ring \in Seq(Record), NEW all \in Seq(Record), IsEnd(ring, all)
  PROVE  ring = SubSeq(all,
                       IF Len(all) > RecordLimit THEN Len(all) - RecordLimit + 1 ELSE 1,
                       Len(all))
PROOF
  <1> DEFINE n == Len(all)
             m == IF n > RecordLimit THEN n - RecordLimit + 1 ELSE 1
             s == SubSeq(all, m, n)
  <1>1. RecordLimit \in Nat /\ RecordLimit > 0 /\ Len(ring) \in Nat /\ n \in Nat
    BY LimitAssumption, LenProperties
  <1>2. /\ Len(ring) = IF n > RecordLimit THEN RecordLimit ELSE n
        /\ \A i \in 1..Len(ring) : ring[i] = all[n - Len(ring) + i]
    BY DEF IsEnd
  <1>3. m \in Int /\ m >= 1 /\ m = n - Len(ring) + 1
    BY <1>1, <1>2
  <1>4. \A i \in m..n : all[i] \in Record
    BY <1>1, <1>3, ElementOfSeq
  <1> HIDE DEF m, n
  <1>5. /\ s \in Seq(Record) /\ Len(s) = IF m <= n THEN n - m + 1 ELSE 0
        /\ \A i \in 1..(n - m + 1) : s[i] = all[m + i - 1]
    BY <1>1, <1>3, <1>4, SubSeqProperties
  <1> HIDE DEF s
  <1>6. Len(s) = Len(ring)
    BY <1>1, <1>3, <1>5
  <1>7. ASSUME NEW i \in 1..Len(ring)
        PROVE  ring[i] = s[i]
    <2>1. i \in 1..(n - m + 1) /\ m + i - 1 = n - Len(ring) + i
      BY <1>1, <1>3
    <2>2. QED
      BY <1>2, <1>5, <2>1
  <1>8. ring = s
    BY <1>5, <1>6, <1>7, SeqEqual
  <1>9. QED
    BY <1>8 DEF s, m, n

RingsOK == /\ records \in [Workers -> Seq(Record)]
           /\ recorded \in [Workers -> Seq(Record)]
           /\ \A w \in Workers : IsEnd(records[w], recorded[w])

LEMMA EmptyEnd == <<>> \in Seq(Record) /\ IsEnd(<<>>, <<>>)
  BY LimitAssumption DEF IsEnd

\* What a process pushes is a record.
LEMMA NodeRecordIsRecord ==
  ASSUME TypeInv, NEW w \in Workers, pc[w] = "call"
  PROVE  NodeRecord(op[w]) \in Record
PROOF
  <1>1. op[w] \in Op /\ WorkerOK("call", op[w], rows)
    BY DEF TypeInv, TypeOK, WorkersOK
  <1>2. op[w].id \in Nat /\ op[w].basis \in Nat /\ op[w].node \in Nodes
    BY <1>1 DEF Op, WorkerOK
  <1>3. QED
    BY <1>2 DEF NodeRecord, Record

\* An answer's call has loaded a row that asked for input, by one of the nodes.
LEMMA ResumeRecordIsRecord ==
  ASSUME TypeInv, NEW w \in Workers, pc[w] \notin {"idle", "claimed"}, op[w].kind = "input"
  PROVE  ResumeRecord(op[w]) \in Record
PROOF
  <1>1. /\ op[w] \in Op /\ WorkerOK(pc[w], op[w], rows) /\ rows \in Seq(Row)
        /\ \A k \in 1..Len(rows) : RowOK(rows[k])
    BY DEF TypeInv, TypeOK, WorkersOK, RowsOK
  <1>2. /\ op[w].id \in Nat /\ op[w].loaded \in 1..Len(rows) /\ Len(rows) \in Nat
        /\ rows[op[w].loaded].request \in Interrupts
    BY <1>1 DEF Op, WorkerOK
  <1>3. rows[op[w].loaded].next \in Nodes /\ op[w].loaded \in Nat
    BY <1>1, <1>2, NamesAssumption DEF RowOK
  <1>4. QED
    BY <1>2, <1>3 DEF ResumeRecord, Record

LEMMA PushKeepsRings ==
  ASSUME RingsOK, NEW w \in Workers, NEW r \in Record, Push(w, r)
  PROVE  RingsOK'
PROOF
  <1>1. /\ records[w] \in Seq(Record) /\ recorded[w] \in Seq(Record)
        /\ IsEnd(records[w], recorded[w])
    BY DEF RingsOK
  <1>2. /\ Append(Evict(records[w]), r) \in Seq(Record)
        /\ Append(recorded[w], r) \in Seq(Record)
        /\ IsEnd(Append(Evict(records[w]), r), Append(recorded[w], r))
    BY <1>1, PushKeepsTheEnd
  <1>3. QED
    BY <1>2 DEF Push, RingsOK

LEMMA AuditKeepsRings ==
  ASSUME TypeInv, RingsOK, NEW w \in Workers, pc[w] \notin {"idle", "claimed"}, Audit(w)
  PROVE  RingsOK'
PROOF
  <1>1. CASE UNCHANGED <<records, recorded>>
    BY <1>1 DEF RingsOK
  <1>2. CASE op[w].kind = "input" /\ Push(w, ResumeRecord(op[w]))
    BY <1>2, ResumeRecordIsRecord, PushKeepsRings
  <1>3. QED
    BY <1>1, <1>2 DEF Audit

LEMMA RingsOKNext ==
  ASSUME TypeInv, RingsOK, [NodeCallsNext]_nvars
  PROVE  RingsOK'
PROOF
  <1>1. CASE UNCHANGED <<records, recorded>>
    BY <1>1 DEF RingsOK
  <1>2. CASE \E w \in Workers : CallOk(w)
    <2>1. PICK w \in Workers : CallOk(w)
      BY <1>2
    <2>2. pc[w] = "call" /\ Push(w, NodeRecord(op[w]))
      BY <2>1 DEF CallOk, NodeOk
    <2>3. QED
      BY <2>2, NodeRecordIsRecord, PushKeepsRings
  <1>3. CASE \E w \in Workers : SaveWithId(w) \/ Succeed(w)
    <2>1. PICK w \in Workers : SaveWithId(w) \/ Succeed(w)
      BY <1>3
    <2>2. Audit(w) /\ pc[w] \notin {"idle", "claimed"}
      BY <2>1 DEF SaveWithId, Succeed, SaveStep, ReachEnd, SaveGate, SaveYield
    <2>3. QED
      BY <2>2, AuditKeepsRings
  <1>4. CASE \E w \in Workers : Die(w)
    <2>1. PICK w \in Workers : Die(w)
      BY <1>4
    <2>2. /\ records' = [records EXCEPT ![w] = <<>>]
          /\ recorded' = [recorded EXCEPT ![w] = <<>>]
      BY <2>1 DEF Die
    <2>3. QED
      BY <2>2, EmptyEnd DEF RingsOK
  <1>5. QED
    BY <1>1, <1>2, <1>3, <1>4
       DEF NodeCallsNext, nvars, extra, CallNode, Retry, RunChild, Otherwise

\* However many calls a worker makes, its ring holds the newest records, no more
\* than the limit: those of node calls and the "resumed" ones of answers.  Neither
\* eviction loses one of them or keeps an older one.
THEOREM TheRingHoldsTheNewest == NodeCallsSpec => []RecordsAreTheLast
PROOF
  <1>1. NodeCallsInit => RingsOK
    BY EmptyEnd DEF NodeCallsInit, RingsOK
  <1>2. TypeInv /\ RingsOK /\ [NodeCallsNext]_nvars => RingsOK'
    BY RingsOKNext
  <1>3. RingsOK => RecordsAreTheLast
    BY EndIsSubSeq DEF RingsOK, RecordsAreTheLast
  <1>4. QED
    BY <1>1, <1>2, <1>3, NodeCallsTypeInv, PTL DEF NodeCallsSpec
-----------------------------------------------------------------------------
(* A human's input.  A call that still holds one has invoked nothing, and the    *)
(* call of a node that has returned has taken it.                                *)

InputsInv ==
  /\ InputReachesFirstAttempt
  /\ \A w \in Workers :
       /\ pc[w] = "loop" /\ op[w].input => \A x \in invoked : x.call # op[w].id
       /\ pc[w] = "saveStep" => ~op[w].input

\* A step that invokes nothing.
LEMMA QuietKeepsInputs ==
  ASSUME TypeInv, InputsInv, NEW w \in Workers, \E to, o : Move(w, to, o), invoked' = invoked,
         pc'[w] = "loop" /\ op'[w].input => \A x \in invoked : x.call # op'[w].id,
         pc'[w] = "saveStep" => ~op'[w].input
  PROVE  InputsInv'
PROOF
  <1>1. \A v \in Workers : v # w => pc'[v] = pc[v] /\ op'[v] = op[v]
    BY DEF TypeInv, TypeOK, Move
  <1>2. InputReachesFirstAttempt'
    BY DEF InputsInv, InputReachesFirstAttempt
  <1>3. ASSUME NEW v \in Workers
        PROVE  /\ pc'[v] = "loop" /\ op'[v].input => \A x \in invoked' : x.call # op'[v].id
               /\ pc'[v] = "saveStep" => ~op'[v].input
    <2>1. CASE v = w
      BY <2>1
    <2>2. CASE v # w
      BY <1>1, <2>2 DEF InputsInv
    <2>3. QED
      BY <2>1, <2>2
  <1>4. QED
    BY <1>2, <1>3 DEF InputsInv

\* An invocation with the state that the call holds: it is the call's first if it
\* is given the input, and its basis is no older than that of any before it.
LEMMA InvocationKeepsInputs ==
  ASSUME TypeInv, KeysInv, InputsInv, NEW w \in Workers, pc[w] \in {"loop", "call"},
         NEW y, invoked' = invoked \cup {y}, y.call = op[w].id, y.basis = op[w].basis,
         y.input => /\ y.attempt = 0 /\ ~y.child
                    /\ \A x \in invoked : x.call # op[w].id,
         pc'[w] = "call",
         \A v \in Workers : v # w => pc'[v] = pc[v] /\ op'[v] = op[v]
  PROVE  InputsInv'
PROOF
  <1>1. op[w].basis \in Nat /\ OwnKeys(invoked, op[w], last[w], rows)
    BY DEF KeysInv, Calling, TypeInv, TypeOK, Op
  <1>2. ASSUME NEW x \in invoked', x.input
        PROVE  /\ x.attempt = 0 /\ ~x.child
               /\ \A z \in invoked' : z.call = x.call /\ z # x => ~z.input /\ z.basis >= x.basis
    <2>1. CASE x = y
      BY <1>2, <2>1
    <2>2. CASE x \in invoked
      <3>1. /\ x.attempt = 0 /\ ~x.child
            /\ \A z \in invoked : z.call = x.call /\ z # x => ~z.input /\ z.basis >= x.basis
        BY <1>2, <2>2 DEF InputsInv, InputReachesFirstAttempt
      <3>2. ASSUME x.call = y.call
            PROVE  ~y.input /\ y.basis >= x.basis
        <4>1. ~y.input
          BY <2>2, <3>2
        <4>2. x.basis \in Nat /\ x.basis <= op[w].basis
          BY <1>1, <2>2, <3>1, <3>2 DEF OwnKeys, KeysInv, InvokedOK
        <4>3. QED
          BY <1>1, <4>1, <4>2
      <3>3. QED
        BY <3>1, <3>2
    <2>3. QED
      BY <2>1, <2>2
  <1>3. ASSUME NEW v \in Workers
        PROVE  /\ pc'[v] = "loop" /\ op'[v].input => \A x \in invoked' : x.call # op'[v].id
               /\ pc'[v] = "saveStep" => ~op'[v].input
    <2>1. CASE v = w
      BY <2>1
    <2>2. CASE v # w
      <3>1. pc'[v] = "loop" => op[v].id # op[w].id
        BY <2>2 DEF KeysInv, CallsNumbered, Live
      <3>2. QED
        BY <2>2, <3>1 DEF InputsInv
    <2>3. QED
      BY <2>1, <2>2
  <1>4. QED
    BY <1>2, <1>3 DEF InputsInv, InputReachesFirstAttempt

\* Only the first invocation of a call, by EnterNode, may be given the input.
LEMMA InputsInvNext ==
  ASSUME TypeInv, KeysInv, InputsInv, [NodeCallsNext]_nvars
  PROVE  InputsInv'
PROOF
  <1>0. op \in [Workers -> Op] /\ pc \in [Workers -> PC]
    BY DEF TypeInv, TypeOK
  <1>1. CASE UNCHANGED nvars
    BY <1>1 DEF nvars, vars, extra, InputsInv, InputReachesFirstAttempt
  <1>2. CASE NodeCallsNext
    <2>1. PICK w \in Workers :
            \/ Start(w) /\ UNCHANGED extra
            \/ CallNode(w) \/ Retry(w) \/ CallOk(w) \/ SaveWithId(w)
            \/ (\E c \in ChildNodes : RunChild(w, c))
            \/ Succeed(w) \/ Otherwise(w) \/ Die(w)
      BY <1>2 DEF NodeCallsNext
    <2>2. CASE Start(w) /\ UNCHANGED extra
      <3>1. \E to, o : Move(w, to, o) /\ to \in {"head", "claimed"}
        BY <2>2 DEF Start, StartRun, StartResume, StartClaim, Begin
      <3>2. pc'[w] \notin {"loop", "saveStep"} /\ invoked' = invoked
        BY <1>0, <2>2, <3>1 DEF Move, extra
      <3>3. \E to, o : Move(w, to, o)
        BY <3>1
      <3>4. QED
        BY <3>2, <3>3, QuietKeepsInputs
    <2>3. CASE CallNode(w)
      <3> DEFINE y == ContextOf(w, op'[w], op'[w].node, FALSE)
      <3>1. /\ pc[w] = "loop" /\ pc'[w] = "call"
            /\ op'[w].id = op[w].id /\ op'[w].basis = op[w].basis
            /\ op'[w].input = op[w].input /\ op'[w].attempt = 0
            /\ \A v \in Workers : v # w => pc'[v] = pc[v] /\ op'[v] = op[v]
        BY <1>0, <2>3 DEF CallNode, EnterNode, Move, Op
      <3>2. invoked' = invoked \cup {y}
        BY <2>3 DEF CallNode, Invoke
      <3>3. /\ y.call = op[w].id /\ y.basis = op[w].basis /\ y.attempt = 0 /\ ~y.child
            /\ y.input = op[w].input
        BY <1>0, <3>1 DEF ContextOf, Op
      <3> HIDE DEF y
      <3>4. y.input => \A x \in invoked : x.call # op[w].id
        BY <3>1, <3>3 DEF InputsInv
      <3>5. QED
        BY <3>1, <3>2, <3>3, <3>4, InvocationKeepsInputs
    <2>4. CASE Retry(w)
      <3> DEFINE y == ContextOf(w, op'[w], op'[w].node, FALSE)
      <3>1. /\ pc[w] = "call" /\ pc'[w] = "call"
            /\ op'[w].id = op[w].id /\ op'[w].basis = op[w].basis /\ ~op'[w].input
            /\ \A v \in Workers : v # w => pc'[v] = pc[v] /\ op'[v] = op[v]
        BY <1>0, <2>4 DEF Retry, NodeRetries, Taken, Move, Op
      <3>2. invoked' = invoked \cup {y}
        BY <2>4 DEF Retry, Invoke
      <3>3. y.call = op[w].id /\ y.basis = op[w].basis /\ ~y.input
        BY <3>1 DEF ContextOf
      <3> HIDE DEF y
      <3>4. QED
        BY <3>1, <3>2, <3>3, InvocationKeepsInputs
    <2>5. CASE \E c \in ChildNodes : RunChild(w, c)
      <3>1. PICK c \in ChildNodes : RunChild(w, c)
        BY <2>5
      <3> DEFINE y == ContextOf(w, op[w], c, TRUE)
      <3>2. pc[w] = "call" /\ UNCHANGED <<pc, op>> /\ invoked' = invoked \cup {y}
        BY <3>1 DEF RunChild, vars
      <3>3. y.call = op[w].id /\ y.basis = op[w].basis /\ ~y.input
        BY DEF ContextOf
      <3> HIDE DEF y
      <3>4. QED
        BY <3>2, <3>3, InvocationKeepsInputs
    <2>6. CASE CallOk(w)
      <3>1. PICK n : Move(w, "saveStep", [Taken(op[w]) EXCEPT !.next = n])
        BY <2>6 DEF CallOk, NodeOk
      <3>2. pc'[w] = "saveStep" /\ ~op'[w].input
        BY <1>0, <3>1 DEF Move, Taken, Op
      <3>3. invoked' = invoked
        BY <2>6 DEF CallOk
      <3>4. QED
        BY <3>1, <3>2, <3>3, QuietKeepsInputs
    <2>7. CASE SaveWithId(w)
      <3>1. /\ pc[w] = "saveStep" /\ invoked' = invoked /\ \E to, o : Move(w, to, o)
            /\ pc'[w] # "saveStep"
            /\ pc'[w] = "loop" => op'[w].input = op[w].input
        BY <1>0, <2>7 DEF SaveWithId, SaveStep, Return, Move, Op
      <3>2. ~op[w].input
        BY <3>1 DEF InputsInv
      <3>3. QED
        BY <3>1, <3>2, QuietKeepsInputs
    <2>8. CASE Succeed(w) \/ Otherwise(w) \/ Die(w)
      <3>1. Step(w) \/ Faulty(w)
        BY <2>8 DEF Succeed, Otherwise, Die, Step, Faulty
      <3>2. \E to, o : Move(w, to, o)
        BY <3>1, WorkIsMove
      <3>3. invoked' = invoked
        BY <2>8 DEF Succeed, Otherwise, Die, Forget
      <3>4. CASE ReadHead(w)
        <4>1. pc[w] = "head" /\ pc'[w] = "loop" /\ op'[w].id = op[w].id
          BY <1>0, <3>4 DEF ReadHead, Move, Op
        <4>2. QED
          BY <3>2, <3>3, <4>1, QuietKeepsInputs DEF KeysInv, BeginsEmpty
      <3>5. CASE ~ReadHead(w)
        <4>1. pc'[w] \notin {"loop", "saveStep"}
          BY <1>0, <2>8, <3>5
             DEF Succeed, Otherwise, Die, LoadRejected, SchemaRejected, LoadClaimed, StepLimit, ReachEnd,
                 InterruptAtGate, NodeNotFound, NodeYields, NodeFails, SaveYield, SaveGate,
                 SaveConflict, RevertHead, Revert, RevertConflict, StoreFails, AnswerLost, Crash,
                 Fail, Return, Move
        <4>2. QED
          BY <3>2, <3>3, <4>1, QuietKeepsInputs
      <3>6. QED
        BY <3>4, <3>5
    <2>9. QED
      BY <2>1, <2>2, <2>3, <2>4, <2>5, <2>6, <2>7, <2>8
  <1>3. QED
    BY <1>1, <1>2

\* However often a step is retried, and whatever children a dynamic node runs: a
\* human's input is given to one invocation, the first that its call makes.
THEOREM InputIsGivenOnce == NodeCallsSpec => []InputReachesFirstAttempt
PROOF
  <1>1. NodeCallsInit => InputsInv
    BY DEF NodeCallsInit, Init, InputsInv, InputReachesFirstAttempt
  <1>2. TypeInv /\ KeysInv /\ InputsInv /\ [NodeCallsNext]_nvars => InputsInv'
    BY InputsInvNext
  <1>3. InputsInv => InputReachesFirstAttempt
    BY DEF InputsInv
  <1>4. QED
    BY <1>1, <1>2, <1>3, NodeCallsTypeInv, KeysInvHolds, PTL DEF NodeCallsSpec
-----------------------------------------------------------------------------
(* Type correctness.  The attempts are the ones that max_attempts allows, a      *)
(* delay fits its u64, and a checkpoint id names a row.                          *)

\* A thread's rows are never taken away.
LEMMA RowsOnlyGrow ==
  ASSUME TypeInv, [Next]_vars
  PROVE  rows \in Seq(Row) /\ rows' \in Seq(Row) /\ Len(rows) <= Len(rows')
PROOF
  <1>1. rows \in Seq(Row) /\ rows' \in Seq(Row)
    BY TypeInvNext DEF TypeInv, TypeOK
  <1>2. CASE rows' = rows
    BY <1>1, <1>2
  <1>3. CASE \E w \in Workers, i \in Interrupts : StartClaim(w, i)
    BY <1>1, <1>3, ClaimedRow DEF StartClaim, Claimable
  <1>4. CASE \E r \in Row : Written(r)
    BY <1>1, <1>4, AppendRow DEF Written
  <1>5. ASSUME NEW w \in Workers, Step(w) \/ Faulty(w)
        PROVE  rows' = rows \/ \E r \in Row : Written(r)
    BY <1>5, StepShapes, FaultyShapes DEF QuietStep, LoadClaimed, WriteStep, OwnWrite
  <1>6. QED
    BY <1>2, <1>3, <1>4, <1>5 DEF Next, vars, Start, StartRun, StartResume

\* The arithmetic saturates: a delay is a u64.
LEMMA DelaysFit ==
  ASSUME NEW n \in Nat, NEW d \in Delays(n)
  PROVE  d \in 0..U64Max
PROOF
  <1>1. d \in Nat /\ U64Max \in Nat
    BY DelaysInRange, RetryAssumption
  <1>2. d <= U64Max
    <2>1. CASE d = Capped(n)
      BY <2>1, CappedInRange
    <2>2. CASE \E ms : d = Saturated(ms)
      <3>1. PICK ms : d = IF ms > U64Max THEN U64Max ELSE ms
        BY <2>2 DEF Saturated
      <3>2. CASE ms > U64Max
        BY <1>1, <3>1, <3>2
      <3>3. CASE ~(ms > U64Max)
        BY <1>1, <3>1, <3>3
      <3>4. QED
        BY <3>2, <3>3
    <2>3. QED
      BY <2>1, <2>2 DEF Delays
  <1>3. QED
    BY <1>1, <1>2

PlacesOK == /\ last \in [Workers -> 0..Len(rows)]
            /\ invoked \subseteq Invocation
            /\ children \in [Workers -> 0..MaxChildren]
            /\ pause \in [Workers -> [after : Attempts, delay : 0..U64Max]]
            /\ \A w \in Workers : pc[w] = "call" => op[w].attempt \in Attempts

LEMMA ContextIsInvocation ==
  ASSUME NEW w \in Workers, NEW o \in Op, NEW n \in Nodes, NEW child \in BOOLEAN,
         last[w] \in Nat, ~child => o.attempt \in Attempts
  PROVE  ContextOf(w, o, n, child) \in Invocation
  BY DEF ContextOf, Invocation, Key, Op, Attempts

\* The attempt that a retry makes is one that the policy allows.
LEMMA NextAttempt ==
  ASSUME TypeInv, NEW w \in Workers, NodeRetries(w)
  PROVE  /\ pc'[w] = "call" /\ op'[w].node = op[w].node
         /\ op'[w].attempt \in Attempts
PROOF
  <1>1. op[w].attempt \in Nat /\ MaxAttempts \in Nat
    BY SettingsAssumption DEF TypeInv, TypeOK, Op
  <1>2. op[w].attempt + 1 < MaxAttempts
    BY <1>1 DEF NodeRetries, AttemptsOf
  <1>3. pc'[w] = "call" /\ op'[w].node = op[w].node /\ op'[w].attempt = op[w].attempt + 1
    BY DEF NodeRetries, Taken, Move, TypeInv, TypeOK, Op
  <1>4. QED
    BY <1>1, <1>2, <1>3 DEF Attempts

\* A step that invokes nothing and calls no node anew.
LEMMA QuietKeepsPlaces ==
  ASSUME TypeInv, PlacesOK, NEW w \in Workers, \E to, o : Move(w, to, o),
         rows' \in Seq(Row), Len(rows) <= Len(rows'), pc'[w] # "call",
         NEW n \in 0..Len(rows'), last' = [last EXCEPT ![w] = n],
         UNCHANGED <<invoked, children, pause>>
  PROVE  PlacesOK'
PROOF
  <1>1. Len(rows) \in Nat /\ Len(rows') \in Nat
    BY DEF TypeInv, TypeOK
  <1>2. last' \in [Workers -> 0..Len(rows')]
    BY <1>1 DEF PlacesOK
  <1>3. \A v \in Workers : pc'[v] = "call" => op'[v].attempt \in Attempts
    BY DEF Move, TypeInv, TypeOK, PlacesOK
  <1>4. QED
    BY <1>2, <1>3 DEF PlacesOK

\* An attempt of the node that the call is at.
LEMMA InvokeKeepsPlaces ==
  ASSUME TypeInv, TypeInv', PlacesOK, NEW w \in Workers, \E to, o : Move(w, to, o), Invoke(w),
         pc'[w] = "call", op'[w].attempt \in Attempts, UNCHANGED <<rows, last>>,
         pause' \in [Workers -> [after : Attempts, delay : 0..U64Max]]
  PROVE  PlacesOK'
PROOF
  <1>1. op'[w] \in Op /\ op'[w].node \in Nodes /\ last[w] \in Nat
    BY DEF TypeInv, TypeOK, WorkersOK, WorkerOK, PlacesOK
  <1>2. ContextOf(w, op'[w], op'[w].node, FALSE) \in Invocation
    BY <1>1, ContextIsInvocation
  <1>3. invoked' \subseteq Invocation
    BY <1>2 DEF Invoke, PlacesOK
  <1>4. children' \in [Workers -> 0..MaxChildren]
    BY LimitAssumption DEF Invoke, PlacesOK
  <1>5. \A v \in Workers : pc'[v] = "call" => op'[v].attempt \in Attempts
    BY DEF Move, TypeInv, TypeOK, PlacesOK
  <1>6. QED
    BY <1>3, <1>4, <1>5 DEF PlacesOK

\* Whatever a worker does, its call stays within the policy and the limits.
LEMMA PlacesOKNext ==
  ASSUME TypeInv, TypeInv', PlacesOK, [NodeCallsNext]_nvars
  PROVE  PlacesOK'
PROOF
  <1>0. /\ op \in [Workers -> Op] /\ pc \in [Workers -> PC]
        /\ rows' \in Seq(Row) /\ Len(rows) <= Len(rows') /\ Len(rows) \in Nat /\ Len(rows') \in Nat
    BY NodeCallsStep, RowsOnlyGrow DEF TypeInv, TypeOK
  <1>1. CASE UNCHANGED nvars
    BY <1>1 DEF nvars, vars, extra, PlacesOK
  <1>2. CASE NodeCallsNext
    <2>1. PICK w \in Workers :
            \/ Start(w) /\ UNCHANGED extra
            \/ CallNode(w) \/ Retry(w) \/ CallOk(w) \/ SaveWithId(w)
            \/ (\E c \in ChildNodes : RunChild(w, c))
            \/ Succeed(w) \/ Otherwise(w) \/ Die(w)
      BY <1>2 DEF NodeCallsNext
    <2>0. last[w] \in 0..Len(rows') /\ last = [last EXCEPT ![w] = last[w]]
      <3>1. last[w] \in 0..Len(rows)
        BY DEF PlacesOK
      <3>2. last = [last EXCEPT ![w] = last[w]]
        BY DEF PlacesOK
      <3>3. QED
        BY <1>0, <3>1, <3>2
    <2>2. CASE Start(w) /\ UNCHANGED extra
      <3>1. \E to, o : Move(w, to, o) /\ to \in {"head", "claimed"}
        BY <2>2 DEF Start, StartRun, StartResume, StartClaim, Begin
      <3>2. pc'[w] # "call" /\ \E to, o : Move(w, to, o)
        BY <1>0, <3>1 DEF Move
      <3>3. UNCHANGED <<last, invoked, children, pause>>
        BY <2>2 DEF extra
      <3>4. QED
        BY <1>0, <2>0, <3>2, <3>3, QuietKeepsPlaces
    <2>3. CASE CallNode(w)
      <3>1. pc'[w] = "call" /\ op'[w].attempt = 0 /\ \E to, o : Move(w, to, o)
        BY <1>0, <2>3 DEF CallNode, EnterNode, Move, Op
      <3>2. op'[w].attempt \in Attempts
        BY <3>1 DEF Attempts
      <3>3. Invoke(w) /\ UNCHANGED <<rows, last, pause>>
        BY <2>3 DEF CallNode, EnterNode
      <3>4. pause' \in [Workers -> [after : Attempts, delay : 0..U64Max]]
        BY <3>3 DEF PlacesOK
      <3>5. QED
        BY <3>1, <3>2, <3>3, <3>4, InvokeKeepsPlaces
    <2>4. CASE Retry(w)
      <3>1. pc[w] = "call" /\ \E to, o : Move(w, to, o)
        BY <2>4 DEF Retry, NodeRetries
      <3>2. pc'[w] = "call" /\ op'[w].attempt \in Attempts
        BY <2>4, NextAttempt DEF Retry
      <3>3. Invoke(w) /\ UNCHANGED <<rows, last>>
        BY <2>4 DEF Retry, NodeRetries
      <3>4. PICK d \in Delays(op[w].attempt) :
              pause' = [pause EXCEPT ![w] = [after |-> op[w].attempt, delay |-> d]]
        BY <2>4 DEF Retry
      <3>5. op[w].attempt \in Attempts /\ op[w].attempt \in Nat
        BY <1>0, <3>1 DEF PlacesOK, Op
      <3>6. d \in 0..U64Max
        BY <3>5, DelaysFit
      <3>7. pause' \in [Workers -> [after : Attempts, delay : 0..U64Max]]
        BY <3>4, <3>5, <3>6 DEF PlacesOK
      <3>8. QED
        BY <3>1, <3>2, <3>3, <3>7, InvokeKeepsPlaces
    <2>5. CASE \E c \in ChildNodes : RunChild(w, c)
      <3>1. PICK c \in ChildNodes : RunChild(w, c)
        BY <2>5
      <3>2. /\ UNCHANGED <<rows, pc, op, last, pause>>
            /\ invoked' = invoked \cup {ContextOf(w, op[w], c, TRUE)}
            /\ children[w] < MaxChildren /\ children' = [children EXCEPT ![w] = @ + 1]
        BY <3>1 DEF RunChild, vars
      <3>3. c \in Nodes /\ last[w] \in Nat /\ op[w] \in Op
        BY <1>0, LimitAssumption DEF PlacesOK
      <3>4. ContextOf(w, op[w], c, TRUE) \in Invocation
        BY <3>3, ContextIsInvocation
      <3>5. children' \in [Workers -> 0..MaxChildren]
        <4>1. children[w] + 1 \in 0..MaxChildren
          BY <3>2, LimitAssumption DEF PlacesOK
        <4>2. QED
          BY <3>2, <4>1 DEF PlacesOK
      <3>6. QED
        BY <3>2, <3>4, <3>5 DEF PlacesOK
    <2>6. CASE CallOk(w)
      <3>1. pc'[w] # "call" /\ \E to, o : Move(w, to, o)
        BY <1>0, <2>6 DEF CallOk, NodeOk, Move
      <3>2. UNCHANGED <<last, invoked, children, pause>>
        BY <2>6 DEF CallOk
      <3>3. QED
        BY <1>0, <2>0, <3>1, <3>2, QuietKeepsPlaces
    <2>7. CASE SaveWithId(w)
      <3>1. pc'[w] # "call" /\ \E to, o : Move(w, to, o)
        BY <1>0, <2>7 DEF SaveWithId, SaveStep, Return, Move
      <3> DEFINE n == IF pc'[w] = "loop" THEN Len(rows') ELSE 0
      <3>2. n \in 0..Len(rows')
        BY <1>0
      <3>3. last' = [last EXCEPT ![w] = n] /\ UNCHANGED <<invoked, children, pause>>
        BY <2>7 DEF SaveWithId
      <3> HIDE DEF n
      <3>4. QED
        BY <1>0, <3>1, <3>2, <3>3, QuietKeepsPlaces
    <2>8. CASE Succeed(w) \/ Otherwise(w) \/ Die(w)
      <3>1. Step(w) \/ Faulty(w)
        BY <2>8 DEF Succeed, Otherwise, Die, Step, Faulty
      <3>2. \E to, o : Move(w, to, o)
        BY <3>1, WorkIsMove
      <3>3. pc'[w] # "call"
        BY <1>0, <2>8
           DEF Succeed, Otherwise, Die, LoadRejected, SchemaRejected, LoadClaimed, ReadHead, StepLimit,
               ReachEnd, InterruptAtGate, NodeNotFound, NodeYields, NodeFails, SaveYield, SaveGate,
               SaveConflict, RevertHead, Revert, RevertConflict, StoreFails, AnswerLost, Crash,
               Fail, Return, Move
      <3> DEFINE n == IF Live(w)' THEN last[w] ELSE 0
      <3>4. n \in 0..Len(rows')
        BY <1>0, <2>0
      <3>5. last' = [last EXCEPT ![w] = n] /\ UNCHANGED <<invoked, children, pause>>
        BY <2>8 DEF Succeed, Otherwise, Die, Forget
      <3> HIDE DEF n
      <3>6. QED
        BY <1>0, <3>2, <3>3, <3>4, <3>5, QuietKeepsPlaces
    <2>9. QED
      BY <2>1, <2>2, <2>3, <2>4, <2>5, <2>6, <2>7, <2>8
  <1>3. QED
    BY <1>1, <1>2

\* Type correctness of what the nodes are given: no attempt beyond max_attempts,
\* no delay beyond a u64, no id of a checkpoint that was never saved.
THEOREM NodeCallsTypeCorrect == NodeCallsSpec => []NodeCallsTypeOK
PROOF
  <1>1. NodeCallsInit => PlacesOK /\ RingsOK
    BY RetryAssumption, LimitAssumption, EmptyEnd
       DEF NodeCallsInit, Init, PlacesOK, RingsOK, NoPause, Attempts
  <1>2. TypeInv /\ TypeInv' /\ PlacesOK /\ [NodeCallsNext]_nvars => PlacesOK'
    BY PlacesOKNext
  <1>3. TypeInv /\ RingsOK /\ [NodeCallsNext]_nvars => RingsOK'
    BY RingsOKNext
  <1>4. TypeInv /\ PlacesOK /\ RingsOK => NodeCallsTypeOK
    BY DEF TypeInv, PlacesOK, RingsOK, NodeCallsTypeOK
  <1>5. QED
    BY <1>1, <1>2, <1>3, <1>4, NodeCallsTypeInv, PTL DEF NodeCallsSpec
=============================================================================
