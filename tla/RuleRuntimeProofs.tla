------------------------- MODULE RuleRuntimeProofs -------------------------
(***************************************************************************)
(* Proofs about RuleRuntime, for every set of rules and readings, every    *)
(* choice of fault policies and every length of the event queue.           *)
(***************************************************************************)
EXTENDS RuleRuntime, SequenceTheorems, TLAPS

\* TypeOK in three parts.
RuntimeTyped == /\ rule \in Rules \cup {NoRule} /\ policy \in Choices
                /\ state \in {"DISABLED", "ARMED", "EVALUATING"}
                /\ task \in Task!Task
                /\ candidate \in [rule : Rules \cup {NoRule}, policy : Choices]
                /\ web \in {"idle", "policy", "refresh", "again", "request"}
WorldTyped   == /\ input \in Input
                /\ queue \in Seq(Events) /\ Len(queue) <= QueueSize
                /\ left \in 0..Batch
                /\ loop \in {"schedule", "callback", "resolve", "decide", "apply", "done",
                            "tasks", "deliver"}
FlagsTyped   == /\ pending \in BOOLEAN /\ output \in BOOLEAN /\ missed \in BOOLEAN
                /\ current \in BOOLEAN /\ desired \in BOOLEAN

\* ArmedOnlyForRule also while an evaluation is in hand: whoever takes the rule
\* away refreshes the runtime before the activation is over.
Disarmed == web \in {"idle", "again", "request"} /\ ~Enabled =>
               state = "DISABLED" /\ ~Task!Armed(task)

\* The engine holds the rule that is being activated.
Activating == web # "idle" => rule = candidate.rule

\* Something is on its way that will make the runtime look at its input again.
InputQueued == \E i \in 1..Len(queue) : queue[i] # "other"
Awaited     == missed \/ pending \/ web # "idle" \/ InputQueued

\* What the loop task has in hand for an eligible rule is right for the input.
Settled == loop \in {"schedule", "done", "tasks", "deliver"}
Agrees  == output = IF Healthy THEN Desired(rule, input.value, output)
                               ELSE Resolve(policy, output)
InHand  == /\ loop = "decide" => Healthy
           /\ loop = "resolve" => ~Healthy /\ desired = Resolve(policy, output)
           /\ loop = "apply" => Healthy /\ desired = Desired(rule, input.value, output)
           /\ Settled => Agrees

\* RestingOutputAgrees in every state: what is not in order is awaited.
Covered == /\ Awaited \/ (Eligible => InHand)
           /\ loop = "decide" => current = output

\* The inductive invariant.
IInv == /\ RuntimeTyped /\ WorldTyped /\ FlagsTyped
        /\ NeverStuckEvaluating /\ Disarmed /\ Activating /\ Covered

-----------------------------------------------------------------------------
(* The engine: deciding twice is deciding once *)

LEMMA DesiredTwice ==
  ASSUME NEW r, NEW v, NEW c
  PROVE  Desired(r, v, Desired(r, v, c)) = Desired(r, v, c)
BY Zenon DEF Desired

LEMMA ResolveTwice ==
  ASSUME NEW p, NEW c
  PROVE  Resolve(p, Resolve(p, c)) = Resolve(p, c)
BY DEF Resolve

-----------------------------------------------------------------------------
(* The bus *)

\* A burst that is posted leaves a queue of events no longer than it may be, and
\* what was in it still in it.
LEMMA Posted ==
  ASSUME WorldTyped, NEW events \in Seq(Events), Post(events)
  PROVE  /\ queue' \in Seq(Events) /\ Len(queue') <= QueueSize
         /\ Len(queue') = Len(queue) + Len(Fitting(events))
         /\ \A i \in 1..Len(queue) : queue'[i] = queue[i]
         /\ \A i \in 1..Len(Fitting(events)) : queue'[Len(queue) + i] = events[i]
         /\ Len(Fitting(events)) \in 0..Len(events) /\ Len(queue) \in Nat
<1> DEFINE room == QueueSize - Len(queue)
           n == IF Len(events) < room THEN Len(events) ELSE room
<1>1. Len(queue) \in Nat /\ Len(events) \in Nat /\ room \in Nat /\ n \in 0..Len(events)
      /\ n <= room
  BY RuntimeAssumption DEF WorldTyped
<1>2. Fitting(events) = SubSeq(events, 1, n)
  BY DEF Fitting
<1> HIDE DEF n
<1>3. /\ Fitting(events) \in Seq(Events) /\ Len(Fitting(events)) = n
      /\ \A i \in 1..n : Fitting(events)[i] = events[i]
  <2>1. \A i \in 1..n : events[i] \in Events
    BY <1>1
  <2>2. /\ SubSeq(events, 1, n) \in Seq(Events)
        /\ Len(SubSeq(events, 1, n)) = n
        /\ \A i \in 1..n : SubSeq(events, 1, n)[i] = events[i]
    BY <1>1, <2>1, SubSeqProperties
  <2> QED BY <1>2, <2>2
<1>4. /\ queue' \in Seq(Events) /\ Len(queue') = Len(queue) + Len(Fitting(events))
      /\ \A i \in 1..Len(queue) + Len(Fitting(events)) : queue'[i] =
            IF i <= Len(queue) THEN queue[i] ELSE Fitting(events)[i - Len(queue)]
  BY <1>3, ConcatProperties DEF Post, WorldTyped
<1>5. \A i \in 1..Len(queue) : queue'[i] = queue[i]
  BY <1>1, <1>3, <1>4
<1>6. ASSUME NEW i \in 1..Len(Fitting(events)) PROVE queue'[Len(queue) + i] = events[i]
  <2>1. queue'[Len(queue) + i] = Fitting(events)[(Len(queue) + i) - Len(queue)]
    BY <1>1, <1>3, <1>4
  <2>2. (Len(queue) + i) - Len(queue) = i
    BY <1>1
  <2> QED BY <1>3, <2>1, <2>2
<1>7. Len(queue') <= QueueSize /\ Len(Fitting(events)) \in 0..Len(events)
  BY <1>1, <1>3, <1>4, RuntimeAssumption
<1> QED BY <1>1, <1>4, <1>5, <1>6, <1>7, Zenon

LEMMA KeepsQueued ==
  ASSUME WorldTyped, NEW events \in Seq(Events), Post(events), InputQueued
  PROVE  InputQueued'
<1>1. PICK i \in 1..Len(queue) : queue[i] # "other"
  BY DEF InputQueued
<1>2. i \in 1..Len(queue') /\ queue'[i] = queue[i]
  BY Posted
<1> QED BY <1>1, <1>2 DEF InputQueued

\* An event of the input is queued, unless it is one the bus drops.
LEMMA QueuesInput ==
  ASSUME WorldTyped, NEW events \in Seq(Events), Post(events),
         NEW i \in 1..Len(events), events[i] # "other", ~Drops(events)
  PROVE  InputQueued'
<1>1. i <= Len(Fitting(events))
  <2>1. DOMAIN events = 1..Len(events) /\ Len(events) \in Nat
    OBVIOUS
  <2>2. ~(i > Len(Fitting(events)))
    BY <2>1 DEF Drops
  <2> QED BY <2>1, <2>2, Posted
<1>2. Len(queue) + i \in 1..Len(queue') /\ queue'[Len(queue) + i] = events[i]
  BY <1>1, Posted
<1> QED BY <1>2 DEF InputQueued


\* What the rule runtime and its actuator post is not an event of the input.
LEMMA PostedOther ==
  ASSUME WorldTyped, Post(<<"other">>)
  PROVE  /\ queue' \in Seq(Events) /\ Len(queue') <= QueueSize
         /\ InputQueued => InputQueued'
<1>1. "other" \in Events
  BY DEF Events
<1>2. <<"other">> \in Seq(Events)
  BY <1>1
<1> QED BY <1>2, Posted, KeepsQueued

-----------------------------------------------------------------------------
(* The one-shot task and the FSM *)

LEMMA TaskSteps ==
  ASSUME NEW t \in Task!Task
  PROVE  /\ Task!Disable(t) \in Task!Task /\ ~Task!Armed(Task!Disable(t))
         /\ Task!CountDown(t) \in Task!Task /\ ~Task!Armed(Task!CountDown(t))
         /\ Task!Restart(t) \in Task!Task
<1> USE DEF Task!Task, Task!Armed
<1>1. Task!Disable(t) \in Task!Task /\ ~Task!Armed(Task!Disable(t))
  BY DEF Task!Disable
<1>2. Task!CountDown(t) \in Task!Task
  BY DEF Task!CountDown
<1>3. ~Task!Armed(Task!CountDown(t))
  BY DEF Task!CountDown
<1>4. Task!Restart(t) \in Task!Task
  BY DEF Task!Restart, Task!Once
<1> QED BY <1>1, <1>2, <1>3, <1>4

\* refreshEligibility disables a runtime that may not run and keeps the work of
\* one that may.
LEMMA Refreshes ==
  ASSUME RuntimeTyped, FlagsTyped, Refresh
  PROVE  /\ state' \in {"DISABLED", "ARMED", "EVALUATING"} /\ task' \in Task!Task
         /\ pending' \in BOOLEAN
         /\ state' = "EVALUATING" => state = "EVALUATING"
         /\ Eligible => task' = task /\ pending' = pending
         /\ ~Eligible => state' = "DISABLED" /\ ~Task!Armed(task')
<1>1. CASE Eligible
  BY <1>1 DEF Refresh, Refreshed, RuntimeTyped, FlagsTyped
<1>2. CASE ~Eligible
  <2>1. state' = "DISABLED" /\ task' = Task!Disable(task) /\ pending' = FALSE
    BY <1>2 DEF Refresh, Refreshed
  <2>2. task' \in Task!Task /\ ~Task!Armed(task')
    BY <2>1, TaskSteps DEF RuntimeTyped
  <2> QED BY <1>2, <2>1, <2>2
<1> QED BY <1>1, <1>2

\* A request of an eligible runtime leaves it pending, unless it is refused.
LEMMA Requests ==
  ASSUME RuntimeTyped, FlagsTyped, RequestEvaluation
  PROVE  /\ state' \in {"DISABLED", "ARMED", "EVALUATING"} /\ task' \in Task!Task
         /\ pending' \in BOOLEAN /\ missed' \in BOOLEAN
         /\ state' = "EVALUATING" => state = "EVALUATING"
         /\ Eligible => missed' \/ pending'
         /\ missed => missed'
         /\ ~Eligible => state' = "DISABLED" /\ ~Task!Armed(task')
<1>1. CASE Granted
  <2>1. task' \in Task!Task
    BY <1>1, TaskSteps DEF Granted, RuntimeTyped
  <2>2. state' = "ARMED" /\ pending' = TRUE /\ missed' = missed /\ Eligible
    BY <1>1, Zenon DEF Granted
  <2> QED BY <2>1, <2>2 DEF FlagsTyped
<1>2. CASE Refused
  <2>1. /\ state' \in {"DISABLED", "ARMED", "EVALUATING"} /\ task' \in Task!Task
        /\ pending' \in BOOLEAN
        /\ state' = "EVALUATING" => state = "EVALUATING"
        /\ ~Eligible => state' = "DISABLED" /\ ~Task!Armed(task')
    BY <1>2, Refreshes DEF Refused
  <2>2. missed' = (missed \/ Eligible)
    BY <1>2, Zenon DEF Refused
  <2>3. missed' \in BOOLEAN /\ (Eligible => missed') /\ (missed => missed')
    BY <2>2, Zenon
  <2> QED BY <2>1, <2>3, Zenon
<1> QED BY <1>1, <1>2 DEF RequestEvaluation

-----------------------------------------------------------------------------
(* The input *)

InputStep == (\E v \in Readings : SetValue(v)) \/ InjectFault \/ Recover

\* An input that changes announces it, unless the bus drops the announcement.
LEMMA InputSteps ==
  ASSUME WorldTyped, FlagsTyped, InputStep
  PROVE  /\ input' \in Input /\ missed' \in BOOLEAN
         /\ queue' \in Seq(Events) /\ Len(queue') <= QueueSize
         /\ missed => missed'
         /\ InputQueued => InputQueued'
         /\ input' = input \/ missed' \/ InputQueued'
<1> DEFINE Announced(events) ==
      /\ queue' \in Seq(Events) /\ Len(queue') <= QueueSize /\ missed' \in BOOLEAN
      /\ missed => missed'
      /\ InputQueued => InputQueued'
      /\ \A i \in 1..Len(events) : events[i] # "other" => missed' \/ InputQueued'
<1>1. ASSUME NEW events \in Seq(Events), Posts(events) PROVE Announced(events)
  <2>1. Post(events) /\ missed' = (missed \/ Drops(events))
    BY <1>1, Zenon DEF Posts
  <2>2. queue' \in Seq(Events) /\ Len(queue') <= QueueSize
    BY <2>1, Posted
  <2>3. InputQueued => InputQueued'
    BY <2>1, KeepsQueued
  <2>4. missed' \in BOOLEAN /\ (missed => missed') /\ (Drops(events) => missed')
    BY <2>1, Zenon
  <2>5. ASSUME NEW i \in 1..Len(events), events[i] # "other", ~Drops(events)
        PROVE  InputQueued'
    BY <2>1, <2>5, QueuesInput
  <2> QED BY <2>2, <2>3, <2>4, <2>5
<1>2. ASSUME NEW h
      PROVE  /\ HealthTo(h) \in Seq(Events)
             /\ input.health = h \/ /\ Len(HealthTo(h)) = 2
                                    /\ HealthTo(h)[2] = "health"
  <2>1. CASE input.health = h
    BY <2>1, EmptySeq DEF HealthTo
  <2>2. CASE input.health # h
    <3>1. HealthTo(h) = <<"other", "health">>
      BY <2>2 DEF HealthTo
    <3>2. "other" \in Events /\ "health" \in Events
      BY DEF Events
    <3>3. <<"other", "health">> \in Seq(Events)
      BY <3>2
    <3> QED BY <3>1, <3>3
  <2> QED BY <2>1, <2>2
<1> HIDE DEF Announced
<1>3. input \in Input
  BY DEF WorldTyped
<1>4. CASE \E v \in Readings : SetValue(v)
  <2> DEFINE events == Append(HealthTo("Ok"), "value")
  <2>1. PICK v \in Readings : SetValue(v)
    BY <1>4
  <2>2. events \in Seq(Events) /\ Len(events) \in 1..Len(events)
        /\ events[Len(events)] = "value"
    BY <1>2, AppendProperties DEF Events
  <2>3. Announced(events)
    BY <1>1, <2>1, <2>2 DEF SetValue
  <2>4. input' \in Input
    BY <2>1 DEF SetValue, Input
  <2> QED BY <2>2, <2>3, <2>4 DEF Announced
<1>5. CASE InjectFault
  <2>1. input' \in Input
    BY <1>3, <1>5 DEF InjectFault, Input
  <2>2. <<"health">> \in Seq(Events)
    BY DEF Events
  <2>3. CASE Posts(HealthTo("Fault"))
    <3>1. Announced(HealthTo("Fault"))
      BY <1>1, <1>2, <2>3
    <3>2. CASE input.health = "Fault"
      <4>1. input' = input
        BY <1>3, <1>5, <3>2 DEF InjectFault, Input
      <4> QED BY <2>1, <3>1, <4>1 DEF Announced
    <3>3. CASE input.health # "Fault"
      BY <1>2, <2>1, <3>1, <3>3 DEF Announced
    <3> QED BY <3>2, <3>3
  <2>4. CASE input.health = "Fault" /\ Posts(<<"health">>)
    <3>1. Announced(<<"health">>)
      BY <1>1, <2>2, <2>4
    <3>2. input' = input
      BY <1>3, <1>5, <2>4 DEF InjectFault, Input
    <3> QED BY <2>1, <3>1, <3>2 DEF Announced
  <2> QED BY <1>5, <2>3, <2>4 DEF InjectFault
<1>6. CASE Recover
  <2> DEFINE h == IF input.has THEN "Ok" ELSE "Disabled"
  <2>1. input' = [input EXCEPT !.health = h] /\ Posts(HealthTo(h))
    BY <1>6 DEF Recover
  <2>2. input' \in Input
    BY <1>3, <2>1 DEF Input
  <2> HIDE DEF h
  <2>3. Announced(HealthTo(h))
    BY <1>1, <1>2, <2>1
  <2>4. CASE input.health = h
    <3>1. input' = input
      BY <1>3, <2>1, <2>4 DEF Input
    <3> QED BY <2>2, <2>3, <3>1 DEF Announced
  <2>5. CASE input.health # h
    BY <1>2, <2>2, <2>3, <2>5 DEF Announced
  <2> QED BY <2>4, <2>5
<1> QED BY <1>4, <1>5, <1>6 DEF InputStep


-----------------------------------------------------------------------------
(* What is awaited, and what is in hand *)

\* Rule, policy and input are all that eligibility and health depend on.
LEMMA SameWorld ==
  ASSUME UNCHANGED <<rule, policy, input>>
  PROVE  (Eligible' <=> Eligible) /\ (Healthy' <=> Healthy) /\ (Enabled' <=> Enabled)
BY Zenon DEF Eligible, Suspended, Healthy, Enabled

LEMMA StillAwaited ==
  ASSUME missed => missed', pending => pending', UNCHANGED web, InputQueued => InputQueued'
  PROVE  Awaited => Awaited'
BY Zenon DEF Awaited

\* A step of the loop task between two places where nothing is in hand, and a
\* step of anybody else.
LEMMA StaysSettled ==
  ASSUME UNCHANGED <<rule, policy, input, output>>, Settled, Settled'
  PROVE  InHand => InHand'
<1>1. Agrees => Agrees'
  BY SameWorld, Zenon DEF Agrees
<1>2. loop' \notin {"decide", "resolve", "apply"}
  BY DEF Settled
<1> QED BY <1>1, <1>2, Zenon DEF InHand

LEMMA StaysInHand ==
  ASSUME UNCHANGED <<rule, policy, input, output, loop, desired>>
  PROVE  InHand => InHand'
BY SameWorld, Zenon DEF InHand, Agrees, Settled

\* Nothing is asked of a runtime that is not eligible.
LEMMA Covers ==
  ASSUME Covered, Awaited => Awaited', Eligible' => Eligible, InHand => InHand',
         loop' = "decide" => current' = output'
  PROVE  Covered'
BY Zenon DEF Covered

-----------------------------------------------------------------------------
(* The invariant *)

LEMMA Typed == RuntimeTyped /\ WorldTyped /\ FlagsTyped <=> TypeOK
BY DEF TypeOK, RuntimeTyped, WorldTyped, FlagsTyped

LEMMA InitIInv == Init => IInv
<1> SUFFICES ASSUME Init PROVE IInv
  OBVIOUS
<1> USE RuntimeAssumption DEF Init
<1>1. RuntimeTyped
  BY DEF RuntimeTyped, Task!Task, Task!Disabled
<1>2. WorldTyped
  BY DEF WorldTyped, Input
<1>3. FlagsTyped
  BY DEF FlagsTyped
<1>4. NeverStuckEvaluating /\ Disarmed /\ Activating
  BY DEF NeverStuckEvaluating, Disarmed, Activating, Task!Armed, Task!Disabled
<1>5. Covered
  BY DEF Covered, Eligible, Enabled
<1> QED BY <1>1, <1>2, <1>3, <1>4, <1>5 DEF IInv

\* Every step keeps the invariant.
LEMMA NextIInv == IInv /\ [Next]_vars => IInv'
<1> SUFFICES ASSUME IInv, [Next]_vars PROVE IInv'
  OBVIOUS
<1> USE RuntimeAssumption DEF IInv, engineVars, fsmVars, loopVars, webVars
<1>1. ASSUME Schedule PROVE IInv'
  <2> USE <1>1 DEF Schedule
  <2>1. RuntimeTyped'
    <3>1. task' \in Task!Task
      BY TaskSteps DEF RuntimeTyped
    <3> QED BY <3>1 DEF RuntimeTyped
  <2>2. WorldTyped'
    BY DEF WorldTyped
  <2>3. FlagsTyped'
    BY DEF FlagsTyped
  <2>4. NeverStuckEvaluating'
    BY DEF NeverStuckEvaluating, Evaluating
  <2>5. Disarmed'
    <3>1. Task!Armed(task') => Task!Armed(task)
      BY TaskSteps DEF RuntimeTyped
    <3> QED BY <3>1, SameWorld DEF Disarmed
  <2>6. Activating'
    BY DEF Activating
  <2>7. Covered'
    <3>1. Awaited => Awaited'
      BY StillAwaited DEF InputQueued
    <3>2. Eligible' => Eligible
      BY SameWorld
    <3>3. InHand => InHand'
      <4>1. CASE loop' = "callback"
        BY <4>1 DEF InHand, Settled
      <4>2. CASE loop' = "tasks"
        BY <4>2, StaysSettled DEF Settled
      <4> QED BY <4>1, <4>2
    <3>4. loop' = "decide" => current' = output'
      BY DEF Covered
    <3> QED BY <3>1, <3>2, <3>3, <3>4, Covers
  <2> QED BY <2>1, <2>2, <2>3, <2>4, <2>5, <2>6, <2>7
<1>2. ASSUME Callback PROVE IInv'
  <2> USE <1>2 DEF Callback, Begin
  <2>1. CASE ~Eligible /\ Refresh /\ loop' = "tasks" /\ UNCHANGED <<current, desired>>
    <3> USE <2>1
    <3>1. RuntimeTyped'
      BY Refreshes DEF RuntimeTyped
    <3>2. WorldTyped'
      BY DEF WorldTyped
    <3>3. FlagsTyped'
      BY Refreshes DEF FlagsTyped
    <3>4. NeverStuckEvaluating'
      BY Refreshes DEF NeverStuckEvaluating, Evaluating
    <3>5. Disarmed'
      <4>1. ~Enabled' => ~Eligible
        BY SameWorld DEF Eligible
      <4> QED BY <4>1, Refreshes DEF Disarmed
    <3>6. Activating'
      BY DEF Activating
    <3>7. Covered'
      <4>1. ~Eligible'
        BY SameWorld
      <4> QED BY <4>1 DEF Covered
    <3> QED BY <3>1, <3>2, <3>3, <3>4, <3>5, <3>6, <3>7
  <2>2. CASE /\ Eligible /\ Healthy /\ pending' = FALSE /\ Begin
             /\ loop' = "decide" /\ current' = output /\ UNCHANGED <<task, desired>>
    <3> USE <2>2
    <3>1. RuntimeTyped'
      BY DEF RuntimeTyped
    <3>2. WorldTyped'
      BY DEF WorldTyped
    <3>3. FlagsTyped'
      BY DEF FlagsTyped
    <3>4. NeverStuckEvaluating'
      BY DEF NeverStuckEvaluating, Evaluating, RuntimeTyped
    <3>5. Disarmed'
      <4>1. Enabled'
        BY SameWorld DEF Eligible
      <4> QED BY <4>1 DEF Disarmed
    <3>6. Activating'
      BY DEF Activating
    <3>7. Covered'
      <4>1. Healthy'
        BY SameWorld
      <4>2. current' = output'
        OBVIOUS
      <4> QED BY <4>1, <4>2 DEF Covered, InHand, Settled
    <3> QED BY <3>1, <3>2, <3>3, <3>4, <3>5, <3>6, <3>7
  <2>3. CASE /\ Eligible /\ ~Healthy /\ pending' = FALSE /\ Begin
             /\ loop' = "resolve" /\ desired' = Resolve(policy, output)
             /\ UNCHANGED <<task, current>>
    <3> USE <2>3
    <3>1. RuntimeTyped'
      BY DEF RuntimeTyped
    <3>2. WorldTyped'
      BY DEF WorldTyped
    <3>3. FlagsTyped'
      <4>1. desired' \in BOOLEAN
        BY DEF FlagsTyped, Resolve
      <4> QED BY <4>1 DEF FlagsTyped
    <3>4. NeverStuckEvaluating'
      BY DEF NeverStuckEvaluating, Evaluating, RuntimeTyped
    <3>5. Disarmed'
      <4>1. Enabled'
        BY SameWorld DEF Eligible
      <4> QED BY <4>1 DEF Disarmed
    <3>6. Activating'
      BY DEF Activating
    <3>7. Covered'
      <4>1. ~Healthy' /\ desired' = Resolve(policy', output')
        BY SameWorld
      <4> QED BY <4>1 DEF Covered, InHand, Settled
    <3> QED BY <3>1, <3>2, <3>3, <3>4, <3>5, <3>6, <3>7
  <2> QED BY <2>1, <2>2, <2>3
<1>3. ASSUME ResolveFault PROVE IInv'
  <2> USE <1>3 DEF ResolveFault, ApplyDesired
  <2>1. RuntimeTyped'
    BY DEF RuntimeTyped
  <2>2. WorldTyped'
    <3>1. queue' \in Seq(Events) /\ Len(queue') <= QueueSize
      <4>1. CASE UNCHANGED queue
        BY <4>1 DEF WorldTyped
      <4>2. CASE Post(<<"other">>)
        BY <4>2, PostedOther
      <4> QED BY <4>1, <4>2
    <3> QED BY <3>1 DEF WorldTyped
  <2>3. FlagsTyped'
    BY DEF FlagsTyped
  <2>4. NeverStuckEvaluating'
    BY DEF NeverStuckEvaluating, Evaluating
  <2>5. Disarmed'
    BY DEF Disarmed, Enabled
  <2>6. Activating'
    BY DEF Activating
  <2>7. Covered'
    <3>1. Awaited => Awaited'
      BY PostedOther, StillAwaited DEF InputQueued
    <3>2. Eligible' => Eligible
      BY SameWorld
    <3>3. InHand => InHand'
      <4> SUFFICES ASSUME InHand PROVE InHand'
        OBVIOUS
      <4>1. ~Healthy /\ desired = Resolve(policy, output)
        BY DEF InHand
      <4>2. output' = Resolve(policy, output')
        BY <4>1, ResolveTwice
      <4>3. Agrees'
        BY <4>1, <4>2, SameWorld, Zenon DEF Agrees
      <4> QED BY <4>3 DEF InHand
    <3> QED BY <3>1, <3>2, <3>3, Covers
  <2> QED BY <2>1, <2>2, <2>3, <2>4, <2>5, <2>6, <2>7
<1>4. ASSUME Decide PROVE IInv'
  <2> USE <1>4 DEF Decide
  <2>1. RuntimeTyped'
    BY DEF RuntimeTyped
  <2>2. WorldTyped'
    <3>1. queue' \in Seq(Events) /\ Len(queue') <= QueueSize
      <4>1. CASE UNCHANGED queue
        BY <4>1 DEF WorldTyped
      <4>2. CASE Post(<<"other">>)
        BY <4>2, PostedOther
      <4> QED BY <4>1, <4>2
    <3> QED BY <3>1 DEF WorldTyped
  <2>3. FlagsTyped'
    <3>1. desired' \in BOOLEAN
      BY Zenon DEF FlagsTyped, Desired
    <3> QED BY <3>1 DEF FlagsTyped
  <2>4. NeverStuckEvaluating'
    BY DEF NeverStuckEvaluating, Evaluating
  <2>5. Disarmed'
    BY DEF Disarmed, Enabled
  <2>6. Activating'
    BY DEF Activating
  <2>7. Covered'
    <3>1. Awaited => Awaited'
      BY PostedOther, StillAwaited DEF InputQueued
    <3>2. Eligible' => Eligible
      BY SameWorld
    <3>3. ASSUME Eligible, InHand PROVE InHand'
      <4>1. /\ Healthy /\ current = output
            /\ desired' = Desired(rule, input.value, current) /\ loop' = "apply"
        BY <3>3, Zenon DEF InHand, Covered, Eligible
      <4>2. Healthy' /\ desired' = Desired(rule', input.value', output')
        BY <4>1, SameWorld, Zenon
      <4> QED BY <4>1, <4>2 DEF InHand, Settled
    <3> QED BY <3>1, <3>2, <3>3 DEF Covered
  <2> QED BY <2>1, <2>2, <2>3, <2>4, <2>5, <2>6, <2>7
<1>5. ASSUME Apply PROVE IInv'
  <2> USE <1>5 DEF Apply, ApplyDesired
  <2>1. RuntimeTyped'
    BY DEF RuntimeTyped
  <2>2. WorldTyped'
    <3>1. queue' \in Seq(Events) /\ Len(queue') <= QueueSize
      <4>1. CASE UNCHANGED queue
        BY <4>1 DEF WorldTyped
      <4>2. CASE Post(<<"other">>)
        BY <4>2, PostedOther
      <4> QED BY <4>1, <4>2
    <3> QED BY <3>1 DEF WorldTyped
  <2>3. FlagsTyped'
    BY DEF FlagsTyped
  <2>4. NeverStuckEvaluating'
    BY DEF NeverStuckEvaluating, Evaluating
  <2>5. Disarmed'
    BY DEF Disarmed, Enabled
  <2>6. Activating'
    BY DEF Activating
  <2>7. Covered'
    <3>1. Awaited => Awaited'
      BY PostedOther, StillAwaited DEF InputQueued
    <3>2. Eligible' => Eligible
      BY SameWorld
    <3>3. InHand => InHand'
      <4> SUFFICES ASSUME InHand PROVE InHand'
        OBVIOUS
      <4>1. Healthy /\ desired = Desired(rule, input.value, output)
        BY DEF InHand
      <4>2. output' = Desired(rule, input.value, output')
        BY <4>1, DesiredTwice, Zenon
      <4>3. Agrees'
        BY <4>1, <4>2, SameWorld, Zenon DEF Agrees
      <4> QED BY <4>3 DEF InHand
    <3> QED BY <3>1, <3>2, <3>3, Covers
  <2> QED BY <2>1, <2>2, <2>3, <2>4, <2>5, <2>6, <2>7
<1>6. ASSUME Done PROVE IInv'
  <2> USE <1>6 DEF Done
  <2>1. RuntimeTyped'
    BY DEF RuntimeTyped
  <2>2. WorldTyped'
    BY DEF WorldTyped
  <2>3. FlagsTyped'
    BY DEF FlagsTyped
  <2>4. NeverStuckEvaluating'
    BY DEF NeverStuckEvaluating, Evaluating
  <2>5. Disarmed'
    BY DEF Disarmed, Enabled
  <2>6. Activating'
    BY DEF Activating
  <2>7. Covered'
    <3>1. Awaited => Awaited'
      BY StillAwaited DEF InputQueued
    <3>2. Eligible' => Eligible
      BY SameWorld
    <3>3. InHand => InHand'
      BY StaysSettled DEF Settled
    <3>4. loop' = "decide" => current' = output'
      BY DEF Covered
    <3> QED BY <3>1, <3>2, <3>3, <3>4, Covers
  <2> QED BY <2>1, <2>2, <2>3, <2>4, <2>5, <2>6, <2>7
<1>7. ASSUME OtherTasks PROVE IInv'
  <2> USE <1>7 DEF OtherTasks
  <2>1. RuntimeTyped'
    BY DEF RuntimeTyped
  <2>2. WorldTyped'
    BY DEF WorldTyped
  <2>3. FlagsTyped'
    BY DEF FlagsTyped
  <2>4. NeverStuckEvaluating'
    BY DEF NeverStuckEvaluating, Evaluating
  <2>5. Disarmed'
    BY DEF Disarmed, Enabled
  <2>6. Activating'
    BY DEF Activating
  <2>7. Covered'
    <3>1. Awaited => Awaited'
      BY StillAwaited DEF InputQueued
    <3>2. Eligible' => Eligible
      BY SameWorld
    <3>3. InHand => InHand'
      BY StaysSettled DEF Settled
    <3>4. loop' = "decide" => current' = output'
      BY DEF Covered
    <3> QED BY <3>1, <3>2, <3>3, <3>4, Covers
  <2> QED BY <2>1, <2>2, <2>3, <2>4, <2>5, <2>6, <2>7
<1>8. ASSUME Deliver PROVE IInv'
  <2> USE <1>8 DEF Deliver
  <2> DEFINE first == Head(queue)
  <2>1. /\ queue' \in Seq(Events) /\ Len(queue') <= QueueSize /\ left' \in 0..Batch
        /\ Len(queue') = Len(queue) - 1 /\ Len(queue) \in Nat
        /\ \A i \in 1..Len(queue') : queue'[i] = queue[i + 1]
    BY HeadTailProperties DEF WorldTyped
  <2>2. WorldTyped'
    BY <2>1 DEF WorldTyped
  <2>3. Activating'
    BY DEF Activating
  <2>4. ASSUME first = "other", InputQueued PROVE InputQueued'
    <3>1. PICK i \in 1..Len(queue) : queue[i] # "other"
      BY <2>4 DEF InputQueued
    <3>2. i # 1
      BY <2>4, <3>1 DEF WorldTyped
    <3>3. i - 1 \in 1..Len(queue') /\ queue'[i - 1] = queue[(i - 1) + 1] /\ (i - 1) + 1 = i
      BY <2>1, <3>2
    <3> QED BY <3>1, <3>3 DEF InputQueued
  <2> HIDE DEF first
  <2>5. CASE first = "other" /\ UNCHANGED <<fsmVars, missed>>
    <3> USE <2>5
    <3>1. RuntimeTyped'
      BY DEF RuntimeTyped
    <3>2. WorldTyped'
      BY <2>2
    <3>3. FlagsTyped'
      BY DEF FlagsTyped
    <3>4. NeverStuckEvaluating'
      BY DEF NeverStuckEvaluating, Evaluating
    <3>5. Disarmed'
      BY DEF Disarmed, Enabled
    <3>6. Activating'
      BY <2>3
    <3>7. Covered'
      <4>1. Awaited => Awaited'
        BY <2>4, <2>5, StillAwaited
      <4>2. Eligible' => Eligible
        BY SameWorld
      <4>3. InHand => InHand'
        BY <2>5, StaysSettled DEF Settled
      <4>4. loop' = "decide" => current' = output'
        BY DEF Covered
      <4> QED BY <4>1, <4>2, <4>3, <4>4, Covers
    <3> QED BY <3>1, <3>2, <3>3, <3>4, <3>5, <3>6, <3>7
  <2>6. CASE RequestEvaluation
    <3> USE <2>6
    <3>1. RuntimeTyped'
      BY Requests DEF RuntimeTyped
    <3>2. WorldTyped'
      BY <2>2
    <3>3. FlagsTyped'
      BY Requests DEF FlagsTyped
    <3>4. NeverStuckEvaluating'
      BY Requests DEF NeverStuckEvaluating, Evaluating
    <3>5. Disarmed'
      <4>1. ~Enabled' => ~Eligible
        BY SameWorld DEF Eligible
      <4> QED BY <4>1, Requests DEF Disarmed
    <3>6. Activating'
      BY <2>3
    <3>7. Covered'
      <4>1. ~Eligible => ~Eligible'
        BY SameWorld
      <4>2. Eligible => Awaited'
        BY Requests DEF Awaited
      <4> QED BY <4>1, <4>2 DEF Covered
    <3> QED BY <3>1, <3>2, <3>3, <3>4, <3>5, <3>6, <3>7
  <2> QED BY <2>5, <2>6 DEF first
<1>9. ASSUME EndPass PROVE IInv'
  <2> USE <1>9 DEF EndPass
  <2>1. RuntimeTyped'
    BY DEF RuntimeTyped
  <2>2. WorldTyped'
    BY DEF WorldTyped
  <2>3. FlagsTyped'
    BY DEF FlagsTyped
  <2>4. NeverStuckEvaluating'
    BY DEF NeverStuckEvaluating, Evaluating
  <2>5. Disarmed'
    BY DEF Disarmed, Enabled
  <2>6. Activating'
    BY DEF Activating
  <2>7. Covered'
    <3>1. Awaited => Awaited'
      BY StillAwaited DEF InputQueued
    <3>2. Eligible' => Eligible
      BY SameWorld
    <3>3. InHand => InHand'
      BY StaysSettled DEF Settled
    <3>4. loop' = "decide" => current' = output'
      BY DEF Covered
    <3> QED BY <3>1, <3>2, <3>3, <3>4, Covers
  <2> QED BY <2>1, <2>2, <2>3, <2>4, <2>5, <2>6, <2>7
<1>10. ASSUME FeedInput PROVE IInv'
  <2> USE <1>10 DEF FeedInput
  <2>1. WorldTyped /\ FlagsTyped /\ InputStep
    BY DEF InputStep
  <2>2. /\ input' \in Input /\ missed' \in BOOLEAN
        /\ queue' \in Seq(Events) /\ Len(queue') <= QueueSize
        /\ missed => missed'
        /\ InputQueued => InputQueued'
        /\ input' = input \/ missed' \/ InputQueued'
    BY ONLY <2>1, InputSteps
  <2>3. RuntimeTyped'
    BY DEF RuntimeTyped
  <2>4. WorldTyped'
    BY <2>2 DEF WorldTyped
  <2>5. FlagsTyped'
    BY <2>2 DEF FlagsTyped
  <2>6. NeverStuckEvaluating'
    BY DEF NeverStuckEvaluating, Evaluating
  <2>7. Disarmed'
    BY DEF Disarmed, Enabled
  <2>8. Activating'
    BY DEF Activating
  <2>9. Covered'
    <3>1. Awaited => Awaited'
      <4>1. (missed => missed') /\ (InputQueued => InputQueued')
        BY <2>2
      <4>2. (pending => pending') /\ UNCHANGED web
        OBVIOUS
      <4> QED BY <4>1, <4>2, StillAwaited
    <3>2. CASE input' = input
      <4>1. Eligible' => Eligible
        BY <3>2, SameWorld
      <4>2. InHand => InHand'
        BY <3>2, StaysSettled DEF Settled
      <4> QED BY <3>1, <4>1, <4>2, Covers DEF Covered
    <3>3. CASE input' # input
      <4>1. Awaited'
        BY <2>2, <3>3 DEF Awaited
      <4> QED BY <4>1 DEF Covered
    <3> QED BY <3>2, <3>3
  <2> QED BY <2>3, <2>4, <2>5, <2>6, <2>7, <2>8, <2>9
<1>11. ASSUME InputRequest PROVE IInv'
  <2> USE <1>11 DEF InputRequest
  <2>1. WorldTyped /\ FlagsTyped /\ InputStep
    BY DEF InputStep
  <2>2. /\ input' \in Input /\ missed' \in BOOLEAN
        /\ queue' \in Seq(Events) /\ Len(queue') <= QueueSize
        /\ missed => missed'
        /\ InputQueued => InputQueued'
        /\ input' = input \/ missed' \/ InputQueued'
    BY ONLY <2>1, InputSteps
  <2>3. RuntimeTyped'
    BY DEF RuntimeTyped
  <2>4. WorldTyped'
    BY <2>2 DEF WorldTyped
  <2>5. FlagsTyped'
    BY <2>2 DEF FlagsTyped
  <2>6. NeverStuckEvaluating'
    BY DEF NeverStuckEvaluating, Evaluating
  <2>7. Disarmed'
    BY DEF Disarmed, Enabled
  <2>8. Activating'
    BY DEF Activating
  <2>9. Covered'
    <3>1. Awaited => Awaited'
      <4>1. (missed => missed') /\ (InputQueued => InputQueued')
        BY <2>2
      <4>2. (pending => pending') /\ UNCHANGED web
        OBVIOUS
      <4> QED BY <4>1, <4>2, StillAwaited
    <3>2. CASE input' = input
      <4>1. Eligible' => Eligible
        BY <3>2, SameWorld
      <4>2. InHand => InHand'
        BY <3>2, StaysInHand
      <4> QED BY <3>1, <4>1, <4>2, Covers DEF Covered
    <3>3. CASE input' # input
      <4>1. Awaited'
        BY <2>2, <3>3 DEF Awaited
      <4> QED BY <4>1 DEF Covered
    <3> QED BY <3>2, <3>3
  <2> QED BY <2>3, <2>4, <2>5, <2>6, <2>7, <2>8, <2>9
<1>12. ASSUME SetFaultPolicy PROVE IInv'
  <2> USE <1>12 DEF SetFaultPolicy
  <2>1. RuntimeTyped'
    BY DEF RuntimeTyped
  <2>2. WorldTyped'
    BY DEF WorldTyped
  <2>3. FlagsTyped'
    BY DEF FlagsTyped
  <2>4. NeverStuckEvaluating'
    BY DEF NeverStuckEvaluating, Evaluating
  <2>5. Disarmed'
    BY DEF Disarmed, Enabled
  <2>6. Activating'
    BY DEF Activating
  <2>7. Covered'
    BY DEF Covered, Awaited
  <2> QED BY <2>1, <2>2, <2>3, <2>4, <2>5, <2>6, <2>7
<1>13. ASSUME WebRefresh PROVE IInv'
  <2> USE <1>13 DEF WebRefresh
  <2>1. RuntimeTyped'
    BY Refreshes DEF RuntimeTyped
  <2>2. WorldTyped'
    BY DEF WorldTyped
  <2>3. FlagsTyped'
    BY Refreshes DEF FlagsTyped
  <2>4. NeverStuckEvaluating'
    BY Refreshes DEF NeverStuckEvaluating, Evaluating
  <2>5. Disarmed'
    <3>1. ~Enabled' => ~Eligible
      BY SameWorld DEF Eligible
    <3> QED BY <3>1, Refreshes DEF Disarmed
  <2>6. Activating'
    BY DEF Activating
  <2>7. Covered'
    <3>1. ~Eligible => ~Eligible'
      BY SameWorld
    <3>2. CASE ~Eligible
      BY <3>1, <3>2 DEF Covered
    <3>3. CASE Eligible /\ web' # "idle"
      BY <3>3 DEF Covered, Awaited
    <3>4. CASE Eligible /\ web' = "idle"
      BY <3>4 DEF Activating, Eligible, Enabled
    <3> QED BY <3>2, <3>3, <3>4
  <2> QED BY <2>1, <2>2, <2>3, <2>4, <2>5, <2>6, <2>7
<1>14. ASSUME WebRequest PROVE IInv'
  <2> USE <1>14 DEF WebRequest
  <2>1. RuntimeTyped'
    BY Requests DEF RuntimeTyped
  <2>2. WorldTyped'
    BY DEF WorldTyped
  <2>3. FlagsTyped'
    BY Requests DEF FlagsTyped
  <2>4. NeverStuckEvaluating'
    BY Requests DEF NeverStuckEvaluating, Evaluating
  <2>5. Disarmed'
    <3>1. ~Enabled' => ~Eligible
      BY SameWorld DEF Eligible
    <3> QED BY <3>1, Requests DEF Disarmed
  <2>6. Activating'
    BY DEF Activating
  <2>7. Covered'
    <3>1. ~Eligible => ~Eligible'
      BY SameWorld
    <3>2. Eligible => Awaited'
      BY Requests DEF Awaited
    <3> QED BY <3>1, <3>2 DEF Covered
  <2> QED BY <2>1, <2>2, <2>3, <2>4, <2>5, <2>6, <2>7
<1>15. ASSUME NEW r \in Rules \cup {NoRule}, NEW p \in Choices, Configure(r, p)
      PROVE  IInv'
  <2> USE <1>15 DEF Configure
  <2>1. RuntimeTyped'
    BY DEF RuntimeTyped
  <2>2. WorldTyped'
    BY DEF WorldTyped
  <2>3. FlagsTyped'
    BY DEF FlagsTyped
  <2>4. NeverStuckEvaluating'
    BY DEF NeverStuckEvaluating, Evaluating
  <2>5. Disarmed'
    BY DEF Disarmed, Enabled
  <2>6. Activating'
    BY DEF Activating
  <2>7. Covered'
    BY DEF Covered, Awaited
  <2> QED BY <2>1, <2>2, <2>3, <2>4, <2>5, <2>6, <2>7
<1>16. CASE UNCHANGED vars
  <2> USE <1>16 DEF vars
  <2>1. RuntimeTyped'
    BY DEF RuntimeTyped
  <2>2. WorldTyped'
    BY DEF WorldTyped
  <2>3. FlagsTyped'
    BY DEF FlagsTyped
  <2>4. NeverStuckEvaluating'
    BY DEF NeverStuckEvaluating, Evaluating
  <2>5. Disarmed'
    BY DEF Disarmed, Enabled
  <2>6. Activating'
    BY DEF Activating
  <2>7. Covered'
    <3>1. Awaited => Awaited'
      BY StillAwaited DEF InputQueued
    <3>2. Eligible' => Eligible
      BY SameWorld
    <3>3. InHand => InHand'
      BY StaysInHand
    <3>4. loop' = "decide" => current' = output'
      BY DEF Covered
    <3> QED BY <3>1, <3>2, <3>3, <3>4, Covers
  <2> QED BY <2>1, <2>2, <2>3, <2>4, <2>5, <2>6, <2>7
<1> QED BY <1>1, <1>2, <1>3, <1>4, <1>5, <1>6, <1>7, <1>8, <1>9, <1>10, <1>11, <1>12, <1>13, <1>14, <1>15, <1>16
       DEF Next, LoopStep, WebStep, Activation

LEMMA Invariant == Spec => []IInv
<1> QED BY InitIInv, NextIInv, PTL DEF Spec

\* Every variable stays in its range, and the queue within its length.
THEOREM TypeCorrect == Spec => []TypeOK
<1>1. IInv => TypeOK
  BY Typed DEF IInv
<1> QED BY <1>1, Invariant, PTL

\* No crossing of an activation and an evaluation leaves the FSM in EVALUATING.
THEOREM NeverLeftEvaluating == Spec => []NeverStuckEvaluating
<1>1. IInv => NeverStuckEvaluating
  BY DEF IInv
<1> QED BY <1>1, Invariant, PTL

\* A rule that was taken away or disabled is never evaluated again, whatever the
\* evaluation that was under way made of the FSM.
THEOREM NeverArmedWithoutRule == Spec => []ArmedOnlyForRule
<1>1. IInv => ArmedOnlyForRule
  BY DEF IInv, Disarmed, ArmedOnlyForRule
<1> QED BY <1>1, Invariant, PTL

\* A runtime at rest has the output its rule or its fault policy wants, unless it
\* missed an event or a request of its own was refused.
THEOREM RestingOutputRight == Spec => []RestingOutputAgrees
<1>1. IInv => RestingOutputAgrees
  <2> SUFFICES ASSUME IInv, AtRest, ~missed, ~pending, Eligible
               PROVE  output = IF Healthy THEN Desired(rule, input.value, output)
                                          ELSE Resolve(policy, output)
    BY Zenon DEF RestingOutputAgrees, OutputAgrees
  <2>1. ~Awaited
    <3>1. ~InputQueued
      BY DEF AtRest, InputQueued
    <3> QED BY <3>1 DEF Awaited, AtRest
  <2>2. InHand /\ Settled
    BY <2>1 DEF IInv, Covered, AtRest, Settled
  <2> QED BY <2>2, Zenon DEF InHand, Agrees
<1> QED BY <1>1, Invariant, PTL
=============================================================================
