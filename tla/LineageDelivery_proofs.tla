------------------------ MODULE LineageDelivery_proofs ------------------------
(***************************************************************************)
(* Proofs about LineageDelivery, for any number of runs, invocations,      *)
(* processes, drainers and deliveries: its variables keep their types, an  *)
(* acknowledged run is accounted for, and the outbox forgets no run.       *)
(***************************************************************************)
EXTENDS LineageDelivery, TLAPS

HandlerType ==
    /\ handler \in [Movers -> [at : Steps, event : Event \cup {NoEvent}, answer : Answers]]
    /\ \A m \in Movers : At(m, "idle") \/ handler[m].event \in Event

\* What every step of an invocation rests on: it works on an event of some run.
LEMMA WorkingHasEvent ==
    ASSUME TypeOK, NEW m \in Movers, ~At(m, "idle")
    PROVE  /\ handler[m].event \in Event
           /\ handler[m].answer \in Answers
           /\ RunOf(m) \in Runs
BY DEF TypeOK, Event, RunOf

\* Moving one invocation to a working step keeps the handlers typed.
LEMMA GotoType ==
    ASSUME TypeOK, NEW m \in Movers, NEW step \in Steps, NEW e \in Event,
           NEW answer \in Answers, Goto(m, step, e, answer)
    PROVE  HandlerType'
BY DEF TypeOK, HandlerType, Goto, At

LEMMA FailIsEvent == ASSUME NEW r \in Runs PROVE Fail(r) \in Event
BY DEF Fail, Event

LEMMA CompleteIsEvent ==
    ASSUME NEW r \in Runs, NEW v \in Nat PROVE Complete(r, v) \in Event
BY DEF Complete, Event

\* A raise moves the invocation to a working step.
LEMMA RaiseType ==
    ASSUME TypeOK, NEW m \in Movers, ~At(m, "idle"), Raise(m)
    PROVE  HandlerType'
<1> USE WorkingHasEvent, FailIsEvent
<1>1. CASE handler[m].event.type = "COMPLETE"
  BY <1>1, GotoType DEF Raise, Steps, Answers
<1>2. CASE handler[m].event.type # "COMPLETE"
  BY <1>2, GotoType DEF Raise, Steps
<1>3. QED BY <1>1, <1>2

\* Ingesting an event keeps the graph typed.
LEMMA IngestType ==
    ASSUME TypeOK, NEW e \in Event, Ingest(e)
    PROVE  /\ runState' \in [Runs -> {"UNKNOWN", "COMPLETE", "FAIL"}]
           /\ wrote' \in [Runs -> Nat]
           /\ ingested' \subseteq Event
BY DEF TypeOK, Ingest, Event

\* Every reachable state is well typed: in particular no trigger is delivered
\* more often than MaxDeliver and the outbox holds one object per run id.
THEOREM TypeCorrect == Spec => []TypeOK
<1>1. Init => TypeOK
  BY DeliverAssumption DEF Init, TypeOK, Idle, Outcomes, Steps, Answers, At, NoEvent
<1>2. TypeOK /\ [Next]_vars => TypeOK'
  <2> SUFFICES ASSUME TypeOK, [Next]_vars PROVE TypeOK'
    OBVIOUS
  <2>1. ASSUME NEW m \in Movers, NEW r \in Runs, Deliver(m, r) PROVE TypeOK'
    <3>1. HandlerType'
      BY <2>1, GotoType, FailIsEvent DEF Deliver, Steps, Answers
    <3>2. left' \in [Runs -> 0..MaxDeliver]
      BY <2>1, DeliverAssumption DEF Deliver, TypeOK
    <3>3. QED
      BY <2>1, <3>1, <3>2 DEF Deliver, TypeOK, HandlerType, graphVars, drainVars
  <2>2. ASSUME NEW m \in Movers, Refuse(m) PROVE TypeOK'
    <3>1. HandlerType'
      BY <2>2, GotoType, WorkingHasEvent DEF Refuse, Steps, Answers, At
    <3>2. QED
      BY <2>2, <3>1 DEF Refuse, TypeOK, HandlerType, graphVars, drainVars
  <2>3. ASSUME NEW m \in Movers, Unresolved(m) PROVE TypeOK'
    <3>1. HandlerType'
      BY <2>3, GotoType, WorkingHasEvent, FailIsEvent DEF Unresolved, Steps, Answers, At
    <3>2. QED
      BY <2>3, <3>1 DEF Unresolved, TypeOK, HandlerType, graphVars, drainVars
  <2>4. ASSUME NEW m \in Movers, Admit(m) PROVE TypeOK'
    <3>1. HandlerType'
      BY <2>4, GotoType, WorkingHasEvent DEF Admit, Steps, Answers, At
    <3>2. QED
      BY <2>4, <3>1 DEF Admit, TypeOK, HandlerType, graphVars, drainVars
  <2>5. ASSUME NEW m \in Movers, Acquire(m) PROVE TypeOK'
    <3>1. HandlerType'
      BY <2>5, GotoType, WorkingHasEvent DEF Acquire, Steps, Answers, At
    <3>2. lock' \in [Procs -> Movers \cup {None}]
      BY <2>5, ProcAssumption DEF Acquire, TypeOK
    <3>3. QED
      BY <2>5, <3>1, <3>2 DEF Acquire, TypeOK, HandlerType, graphVars, drainVars
  <2>6. ASSUME NEW m \in Movers, Commit(m) PROVE TypeOK'
    <3>1. HandlerType'
      BY <2>6, GotoType, WorkingHasEvent DEF Commit, Steps, Answers, At
    <3>2. lance' \in Seq(Runs)
      BY <2>6, WorkingHasEvent DEF Commit, TypeOK, At
    <3>3. QED
      BY <2>6, <3>1, <3>2 DEF Commit, TypeOK, HandlerType, graphVars, drainVars
  <2>7. ASSUME NEW m \in Movers, TransformFails(m) PROVE TypeOK'
    <3>1. HandlerType'
      BY <2>7, GotoType, WorkingHasEvent, FailIsEvent DEF TransformFails, Steps, Answers, At
    <3>2. lock' \in [Procs -> Movers \cup {None}]
      BY <2>7, ProcAssumption DEF TransformFails, Release, TypeOK
    <3>3. QED
      BY <2>7, <3>1, <3>2 DEF TransformFails, TypeOK, HandlerType, graphVars, drainVars
  <2>8. ASSUME NEW m \in Movers, Measure(m) PROVE TypeOK'
    <3>1. Len(lance) \in Nat
      BY DEF TypeOK
    <3>2. HandlerType'
      BY <2>8, <3>1, GotoType, WorkingHasEvent, CompleteIsEvent
      DEF Measure, Steps, Answers, At
    <3>3. lock' \in [Procs -> Movers \cup {None}]
      BY <2>8, ProcAssumption DEF Measure, Release, TypeOK
    <3>4. QED
      BY <2>8, <3>2, <3>3 DEF Measure, TypeOK, HandlerType, graphVars, drainVars
  <2>9. ASSUME NEW m \in Movers, Stage(m) PROVE TypeOK'
    <3>1. HandlerType'
      BY <2>9, GotoType, WorkingHasEvent DEF Stage, Steps, At
    <3>2. staged' \subseteq Event /\ \A e, f \in staged' : e.run = f.run => e = f
      BY <2>9, WorkingHasEvent DEF Stage, WithoutRun, RunOf, TypeOK, At
    <3>3. QED
      BY <2>9, <3>1, <3>2 DEF Stage, TypeOK, HandlerType, graphVars, drainVars
  <2>10. ASSUME NEW m \in Movers, StageFails(m) PROVE TypeOK'
    <3>1. HandlerType'
      BY <2>10, RaiseType DEF StageFails, At
    <3>2. QED
      BY <2>10, <3>1 DEF StageFails, TypeOK, HandlerType, graphVars, drainVars
  <2>11. ASSUME NEW m \in Movers, Publish(m) PROVE TypeOK'
    <3>1. HandlerType'
      BY <2>11, GotoType, WorkingHasEvent DEF Publish, Steps, At
    <3>2. stream' \subseteq Event /\ pending' \subseteq stream' /\ deadLetters \subseteq stream'
      BY <2>11, WorkingHasEvent DEF Publish, Accept, TypeOK, At
    <3>3. QED
      BY <2>11, <3>1, <3>2 DEF Publish, TypeOK, HandlerType, graphVars, drainVars
  <2>12. ASSUME NEW m \in Movers, PublishFails(m) PROVE TypeOK'
    <3>1. HandlerType'
      BY <2>12, RaiseType DEF PublishFails, At
    <3>2. stream' \subseteq Event /\ pending' \subseteq stream' /\ deadLetters \subseteq stream'
      BY <2>12, WorkingHasEvent DEF PublishFails, Accept, TypeOK, At
    <3>3. QED
      BY <2>12, <3>1, <3>2 DEF PublishFails, TypeOK, HandlerType, graphVars, drainVars
  <2>13. ASSUME NEW m \in Movers, Unstage(m) PROVE TypeOK'
    <3>1. HandlerType'
      BY <2>13, GotoType, WorkingHasEvent DEF Unstage, Steps, Answers, At
    <3>2. staged' \subseteq staged
      BY <2>13 DEF Unstage, WithoutRun
    <3>3. QED
      BY <2>13, <3>1, <3>2 DEF Unstage, TypeOK, HandlerType, graphVars, drainVars
  <2>14. ASSUME NEW m \in Movers, Block(m) PROVE TypeOK'
    <3>1. HandlerType'
      BY <2>14, GotoType, WorkingHasEvent DEF Block, Steps, Answers, At
    <3>2. QED
      BY <2>14, <3>1 DEF Block, TypeOK, HandlerType, graphVars, drainVars
  <2>15. ASSUME NEW m \in Movers, Promote(m) \/ PromoteFails(m) PROVE TypeOK'
    <3>1. HandlerType'
      BY <2>15, GotoType, WorkingHasEvent DEF Promote, PromoteFails, Steps, Answers, At
    <3>2. promoted' \subseteq Runs
      BY <2>15, WorkingHasEvent DEF Promote, PromoteFails, TypeOK, At
    <3>3. QED
      BY <2>15, <3>1, <3>2
      DEF Promote, PromoteFails, TypeOK, HandlerType, graphVars, drainVars
  <2>16. ASSUME NEW m \in Movers, Reply(m) PROVE TypeOK'
    <3>1. HandlerType'
      BY <2>16 DEF Reply, TypeOK, HandlerType, Idle, Steps, Answers, At
    <3>2. trigger' \in [Runs -> Outcomes]
      <4>1. \A deliveries : Verdict(handler[m].answer, deliveries) \in Outcomes
        BY <2>16, WorkingHasEvent DEF Reply, Verdict, Outcomes, Answers, At
      <4>2. QED BY <2>16, <4>1 DEF Reply, TypeOK
    <3>3. QED
      BY <2>16, <3>1, <3>2 DEF Reply, TypeOK, HandlerType, graphVars, drainVars
  <2>17. ASSUME NEW p \in Procs, Crash(p) PROVE TypeOK'
    <3>1. HandlerType'
      BY <2>17 DEF Crash, TypeOK, HandlerType, Idle, Steps, Answers, At
    <3>2. lock' \in [Procs -> Movers \cup {None}]
      BY <2>17 DEF Crash, TypeOK
    <3>3. QED
      BY <2>17, <3>1, <3>2 DEF Crash, TypeOK, HandlerType, graphVars, drainVars
  <2>18. ASSUME Lineage PROVE TypeOK'
    <3>1. ASSUME LineageRestart PROVE TypeOK'
      BY <3>1 DEF LineageRestart, TypeOK, At, moverVars, graphVars, drainVars
    <3>2. ASSUME NEW e \in pending, Consume(e) PROVE TypeOK'
      <4>1. e \in Event
        BY DEF TypeOK
      <4>2. QED
        BY <3>2, <4>1, IngestType DEF Consume, TypeOK, At, moverVars, drainVars
    <3>3. ASSUME NEW e \in pending, DeadLetter(e) PROVE TypeOK'
      BY <3>3 DEF DeadLetter, TypeOK, At, moverVars, graphVars, drainVars
    <3>4. QED BY <2>18, <3>1, <3>2, <3>3 DEF Lineage
  <2>19. ASSUME NEW d \in Drainers, Drain(d) PROVE TypeOK'
    <3>1. ASSUME List(d) PROVE TypeOK'
      <4>1. {e.run : e \in staged} \subseteq Runs
        BY DEF TypeOK, Event
      <4>2. QED
        BY <3>1, <4>1 DEF List, TypeOK, At, moverVars, graphVars
    <3>2. ASSUME NEW e \in staged, Replay(d, e) PROVE TypeOK'
      BY <3>2 DEF Replay, TypeOK, At, moverVars, graphVars
    <3>3. ASSUME NEW r \in keys[d], ReadObject(d, r) PROVE TypeOK'
      BY <3>3 DEF ReadObject, TypeOK, At, moverVars, graphVars
    <3>4. ASSUME NEW e \in batch[d], DrainIngest(d, e) PROVE TypeOK'
      <4>1. e \in Event
        BY DEF TypeOK
      <4>2. QED
        BY <3>4, <4>1, IngestType DEF DrainIngest, TypeOK, At, moverVars
    <3>5. ASSUME DrainDrop(d) PROVE TypeOK'
      BY <3>5 DEF DrainDrop, WithoutRun, TypeOK, At, moverVars, graphVars
    <3>6. ASSUME DrainAbort(d) PROVE TypeOK'
      BY <3>6 DEF DrainAbort, TypeOK, At, moverVars, graphVars
    <3>7. QED BY <2>19, <3>1, <3>2, <3>3, <3>4, <3>5, <3>6 DEF Drain
  <2>20. ASSUME UNCHANGED vars PROVE TypeOK'
    BY <2>20 DEF vars, TypeOK, At
  <2>21. QED
    BY <2>1, <2>2, <2>3, <2>4, <2>5, <2>6, <2>7, <2>8, <2>9, <2>10, <2>11, <2>12,
       <2>13, <2>14, <2>15, <2>16, <2>17, <2>18, <2>19, <2>20
    DEF Next, Handle
<1>3. QED BY <1>1, <1>2, PTL DEF Spec

-----------------------------------------------------------------------------
(* The broker keeps what it accepted.                                      *)

\* No step removes an event from the retained stream.
LEMMA StreamGrows == ASSUME [Next]_vars PROVE stream \subseteq stream'
<1>1. ASSUME NEW m \in Movers, Handle(m) \/ \E r \in Runs : Deliver(m, r)
      PROVE  stream \subseteq stream'
  BY <1>1 DEF Handle, Deliver, Refuse, Unresolved, Admit, Acquire, Commit, TransformFails,
     Measure, Stage, StageFails, Publish, PublishFails, Unstage, Block, Promote,
     PromoteFails, Reply, Accept
<1>2. ASSUME NEW p \in Procs, Crash(p) PROVE stream \subseteq stream'
  BY <1>2 DEF Crash
<1>3. ASSUME Lineage PROVE stream \subseteq stream'
  BY <1>3 DEF Lineage, LineageRestart, Consume, DeadLetter
<1>4. ASSUME NEW d \in Drainers, Drain(d) PROVE stream \subseteq stream'
  BY <1>4 DEF Drain, List, Replay, ReadObject, DrainIngest, DrainDrop, DrainAbort
<1>5. ASSUME UNCHANGED vars PROVE stream \subseteq stream'
  BY <1>5 DEF vars
<1>6. QED BY <1>1, <1>2, <1>3, <1>4, <1>5 DEF Next

-----------------------------------------------------------------------------
(* Acknowledged runs are accounted for.                                    *)

\* What an invocation may claim, given the events the broker accepted: only a
\* COMPLETE can be answered SUCCESS or BLOCKED, and from the moment its publish
\* returned the event is on the stream; before the run is measured it can only FAIL.
ClaimIsBacked(h, events) ==
    /\ h.answer \in {"DROP", "RETRY"} \/ h.event.type = "COMPLETE"
    /\ h.at \in {"gate", "wait", "write", "measure"} => h.event.type = "FAIL"
    /\ h.at = "promote" => h.event.type = "COMPLETE"
    /\ h.at \in {"promote", "reply"} /\ h.event.type = "COMPLETE" => h.event \in events
    /\ h.at = "unstage" => h.event \in events

ClaimsBacked == \A m \in Movers : ClaimIsBacked(handler[m], stream)

\* An invocation that moves to a backed claim leaves all claims backed.
LEMMA GotoBacked ==
    ASSUME TypeOK, ClaimsBacked, stream \subseteq stream',
           NEW m \in Movers, NEW step, NEW e, NEW answer, Goto(m, step, e, answer),
           ClaimIsBacked([at |-> step, event |-> e, answer |-> answer], stream')
    PROVE  ClaimsBacked'
<1> SUFFICES ASSUME NEW n \in Movers PROVE ClaimIsBacked(handler'[n], stream')
  BY DEF ClaimsBacked
<1>1. CASE n = m
  BY <1>1 DEF Goto, TypeOK
<1>2. CASE n # m
  <2>1. handler'[n] = handler[n]
    BY <1>2 DEF Goto, TypeOK
  <2>2. QED BY <2>1 DEF ClaimsBacked, ClaimIsBacked
<1>3. QED BY <1>1, <1>2

\* A raise claims nothing.
LEMMA RaiseBacked ==
    ASSUME TypeOK, ClaimsBacked, stream \subseteq stream',
           NEW m \in Movers, Raise(m)
    PROVE  ClaimsBacked'
<1>1. CASE handler[m].event.type = "COMPLETE"
  BY <1>1, GotoBacked DEF Raise, ClaimIsBacked, Fail
<1>2. CASE handler[m].event.type # "COMPLETE"
  BY <1>2, GotoBacked DEF Raise, ClaimIsBacked, ClaimsBacked
<1>3. QED BY <1>1, <1>2

\* No step leaves a claim without its backing.
LEMMA ClaimsStayBacked ==
    ASSUME TypeOK, ClaimsBacked, [Next]_vars PROVE ClaimsBacked'
<1> USE StreamGrows
<1>1. ASSUME NEW m \in Movers, NEW r \in Runs, Deliver(m, r) PROVE ClaimsBacked'
  BY <1>1, GotoBacked DEF Deliver, ClaimIsBacked, Fail
<1>2. ASSUME NEW m \in Movers, Refuse(m) PROVE ClaimsBacked'
  BY <1>2, GotoBacked DEF Refuse, At, ClaimsBacked, ClaimIsBacked
<1>3. ASSUME NEW m \in Movers, Unresolved(m) PROVE ClaimsBacked'
  BY <1>3, GotoBacked DEF Unresolved, ClaimIsBacked, Fail
<1>4. ASSUME NEW m \in Movers, Admit(m) PROVE ClaimsBacked'
  BY <1>4, GotoBacked DEF Admit, At, ClaimsBacked, ClaimIsBacked
<1>5. ASSUME NEW m \in Movers, Acquire(m) PROVE ClaimsBacked'
  BY <1>5, GotoBacked DEF Acquire, At, ClaimsBacked, ClaimIsBacked
<1>6. ASSUME NEW m \in Movers, Commit(m) PROVE ClaimsBacked'
  BY <1>6, GotoBacked DEF Commit, At, ClaimsBacked, ClaimIsBacked
<1>7. ASSUME NEW m \in Movers, TransformFails(m) PROVE ClaimsBacked'
  BY <1>7, GotoBacked DEF TransformFails, ClaimIsBacked, Fail
<1>8. ASSUME NEW m \in Movers, Measure(m) PROVE ClaimsBacked'
  BY <1>8, GotoBacked DEF Measure, ClaimIsBacked, Complete
<1>9. ASSUME NEW m \in Movers, Stage(m) PROVE ClaimsBacked'
  BY <1>9, GotoBacked DEF Stage, ClaimsBacked, ClaimIsBacked
<1>10. ASSUME NEW m \in Movers, StageFails(m) \/ PublishFails(m) PROVE ClaimsBacked'
  BY <1>10, RaiseBacked DEF StageFails, PublishFails
<1>11. ASSUME NEW m \in Movers, Publish(m) PROVE ClaimsBacked'
  <2>1. handler[m].event \in stream'
    BY <1>11 DEF Publish, Accept
  <2>2. QED BY <1>11, <2>1, GotoBacked DEF Publish, ClaimsBacked, ClaimIsBacked
<1>12. ASSUME NEW m \in Movers, Unstage(m) PROVE ClaimsBacked'
  <2>1. handler[m].event \in stream'
    BY <1>12 DEF Unstage, At, ClaimsBacked, ClaimIsBacked
  <2>2. CASE handler[m].event.type = "COMPLETE"
    BY <1>12, <2>1, <2>2, GotoBacked DEF Unstage, ClaimIsBacked
  <2>3. CASE handler[m].event.type # "COMPLETE"
    BY <1>12, <2>3, GotoBacked DEF Unstage, ClaimsBacked, ClaimIsBacked
  <2>4. QED BY <2>2, <2>3
<1>13. ASSUME NEW m \in Movers, Block(m) \/ Promote(m) \/ PromoteFails(m)
       PROVE  ClaimsBacked'
  <2>1. handler[m].event \in stream' /\ handler[m].event.type = "COMPLETE"
    BY <1>13 DEF Block, Promote, PromoteFails, At, ClaimsBacked, ClaimIsBacked
  <2>2. QED BY <1>13, <2>1, GotoBacked DEF Block, Promote, PromoteFails, ClaimIsBacked
<1>14. ASSUME NEW m \in Movers, Reply(m) PROVE ClaimsBacked'
  BY <1>14 DEF Reply, TypeOK, ClaimsBacked, ClaimIsBacked, Idle, NoEvent
<1>15. ASSUME NEW p \in Procs, Crash(p) PROVE ClaimsBacked'
  BY <1>15 DEF Crash, TypeOK, ClaimsBacked, ClaimIsBacked, Idle, NoEvent
<1>16. ASSUME Lineage \/ (\E d \in Drainers : Drain(d)) \/ UNCHANGED vars
       PROVE  ClaimsBacked'
  <2>1. UNCHANGED handler
    BY <1>16 DEF Lineage, LineageRestart, Consume, DeadLetter, Drain, List, Replay,
       ReadObject, DrainIngest, DrainDrop, DrainAbort, moverVars, vars
  <2>2. QED BY <2>1 DEF ClaimsBacked, ClaimIsBacked
<1>17. QED
  BY <1>1, <1>2, <1>3, <1>4, <1>5, <1>6, <1>7, <1>8, <1>9, <1>10, <1>11, <1>12,
     <1>13, <1>14, <1>15, <1>16 DEF Next, Handle

\* A run becomes acknowledged or promoted only by an invocation whose claim is
\* backed, and what the broker accepted stays accepted.
LEMMA AccountedStep ==
    ASSUME TypeOK, ClaimsBacked, AcknowledgedAccounted, [Next]_vars
    PROVE  AcknowledgedAccounted'
<1> SUFFICES ASSUME NEW r \in Runs, (trigger[r] \in {"done", "blocked"} \/ r \in promoted)'
             PROVE  Succeeded(r, stream')
  BY DEF AcknowledgedAccounted
<1>1. stream \subseteq stream'
  BY StreamGrows
<1>2. CASE trigger[r] \in {"done", "blocked"} \/ r \in promoted
  BY <1>1, <1>2 DEF AcknowledgedAccounted, Succeeded
<1>3. ASSUME NEW m \in Movers, handler[m].event \in stream, RunOf(m) = r,
             handler[m].event.type = "COMPLETE"
      PROVE  Succeeded(r, stream')
  BY <1>1, <1>3 DEF Succeeded, RunOf
<1>4. ASSUME ~(trigger[r] \in {"done", "blocked"} \/ r \in promoted),
             NEW m \in Movers, Promote(m) \/ PromoteFails(m)
      PROVE  Succeeded(r, stream')
  <2>1. RunOf(m) = r
    BY <1>4 DEF Promote, PromoteFails
  <2>2. handler[m].event \in stream /\ handler[m].event.type = "COMPLETE"
    BY <1>4 DEF Promote, PromoteFails, At, ClaimsBacked, ClaimIsBacked
  <2>3. QED BY <2>1, <2>2, <1>3
<1>5. ASSUME ~(trigger[r] \in {"done", "blocked"} \/ r \in promoted),
             NEW m \in Movers, Reply(m)
      PROVE  Succeeded(r, stream')
  <2>1. RunOf(m) = r /\ Verdict(handler[m].answer, left[r]) \in {"done", "blocked"}
    BY <1>5, WorkingHasEvent DEF Reply, TypeOK, At
  <2>2. handler[m].answer \in Answers
    BY DEF TypeOK
  <2>3. handler[m].answer \notin {"DROP", "RETRY"}
    BY <2>1, <2>2 DEF Verdict, Answers
  <2>4. handler[m].event \in stream /\ handler[m].event.type = "COMPLETE"
    BY <1>5, <2>3 DEF Reply, At, ClaimsBacked, ClaimIsBacked
  <2>5. QED BY <2>1, <2>4, <1>3
<1>6. CASE \E m \in Movers : Promote(m) \/ PromoteFails(m) \/ Reply(m)
  BY <1>2, <1>4, <1>5, <1>6
<1>7. CASE UNCHANGED <<trigger, promoted>>
  BY <1>2, <1>7
<1>8. (\E m \in Movers : Promote(m) \/ PromoteFails(m) \/ Reply(m)) \/ UNCHANGED <<trigger, promoted>>
  BY DEF Next, Handle, Deliver, Refuse, Unresolved, Admit, Acquire, Commit, TransformFails,
     Measure, Stage, StageFails, Publish, PublishFails, Unstage, Block, Crash, Lineage,
     LineageRestart, Consume, DeadLetter, Drain, List, Replay, ReadObject, DrainIngest,
     DrainDrop, DrainAbort, moverVars, vars
<1>9. QED BY <1>6, <1>7, <1>8

\* A run acknowledged as moved or blocked, and a run whose next stage was
\* triggered, has a COMPLETE the broker accepted.
THEOREM AcknowledgedIsAccounted == Spec => []AcknowledgedAccounted
<1>1. Init => ClaimsBacked /\ AcknowledgedAccounted
  BY DEF Init, ClaimsBacked, ClaimIsBacked, AcknowledgedAccounted, Idle, NoEvent
<1>2. TypeOK /\ ClaimsBacked /\ AcknowledgedAccounted /\ [Next]_vars
        => ClaimsBacked' /\ AcknowledgedAccounted'
  BY ClaimsStayBacked, AccountedStep
<1>3. QED BY <1>1, <1>2, TypeCorrect, PTL DEF Spec

-----------------------------------------------------------------------------
(* The outbox forgets no run.                                              *)

\* A drainer drops an object only after the graph was given its event.
HeldIngested == \A d \in Drainers : held[d] # NoEvent => held[d] \in ingested

LEMMA HeldStaysIngested ==
    ASSUME TypeOK, HeldIngested, [Next]_vars PROVE HeldIngested'
<1>1. ASSUME NEW d \in Drainers, Drain(d) PROVE HeldIngested'
  <2>1. ingested \subseteq ingested'
    BY <1>1 DEF Drain, List, Replay, ReadObject, DrainIngest, DrainDrop, DrainAbort,
       Ingest, graphVars
  <2>2. \A c \in Drainers \ {d} : held'[c] = held[c]
    BY <1>1 DEF Drain, List, Replay, ReadObject, DrainIngest, DrainDrop, DrainAbort, TypeOK
  <2>3. held'[d] = held[d] \/ held'[d] = NoEvent \/ held'[d] \in ingested'
    BY <1>1 DEF Drain, List, Replay, ReadObject, DrainIngest, DrainDrop, DrainAbort,
       Ingest, TypeOK
  <2>4. QED BY <2>1, <2>2, <2>3 DEF HeldIngested
<1>2. CASE Lineage
  BY <1>2 DEF Lineage, LineageRestart, Consume, DeadLetter, Ingest, HeldIngested,
     graphVars, drainVars
<1>3. ASSUME ~Lineage, \A d \in Drainers : ~Drain(d) PROVE HeldIngested'
  <2>1. UNCHANGED <<held, ingested>>
    BY <1>3 DEF Next, Handle, Deliver, Refuse, Unresolved, Admit, Acquire, Commit,
       TransformFails, Measure, Stage, StageFails, Publish, PublishFails, Unstage, Block,
       Promote, PromoteFails, Reply, Crash, graphVars, drainVars, vars
  <2>2. QED BY <2>1 DEF HeldIngested
<1>4. QED BY <1>1, <1>2, <1>3

\* An object that disappears leaves another of its run, or an event of its run
\* on the stream or in the graph.
LEMMA OutboxStep ==
    ASSUME TypeOK, ClaimsBacked, HeldIngested, [Next]_vars, NEW e \in staged
    PROVE  \E f \in staged' \cup stream' \cup ingested' : f.run = e.run
<1>1. CASE e \in staged'
  BY <1>1
<1>2. ASSUME e \notin staged', NEW m \in Movers, Stage(m)
      PROVE  \E f \in staged' : f.run = e.run
  BY <1>2 DEF Stage, WithoutRun, RunOf
<1>3. ASSUME e \notin staged', NEW m \in Movers, Unstage(m)
      PROVE  \E f \in stream' : f.run = e.run
  BY <1>3 DEF Unstage, At, WithoutRun, RunOf, ClaimsBacked, ClaimIsBacked
<1>4. ASSUME e \notin staged', NEW d \in Drainers, DrainDrop(d)
      PROVE  \E f \in ingested' : f.run = e.run
  BY <1>4 DEF DrainDrop, WithoutRun, HeldIngested, graphVars
<1>5. CASE \E m \in Movers : Stage(m) \/ Unstage(m)
  BY <1>1, <1>2, <1>3, <1>5
<1>6. CASE \E d \in Drainers : DrainDrop(d)
  BY <1>1, <1>4, <1>6
<1>7. ASSUME \A m \in Movers : ~Stage(m) /\ ~Unstage(m), \A d \in Drainers : ~DrainDrop(d)
      PROVE  staged' = staged
  BY <1>7 DEF Next, Handle, Deliver, Refuse, Unresolved, Admit, Acquire, Commit,
     TransformFails, Measure, StageFails, Publish, PublishFails, Block, Promote,
     PromoteFails, Reply, Crash, Lineage, LineageRestart, Consume, DeadLetter, Drain,
     List, Replay, ReadObject, DrainIngest, DrainAbort, vars
<1>8. QED BY <1>5, <1>6, <1>7

\* Between the mover, the relay and the operators, no staged run is ever
\* forgotten: its object goes only after one of its events was published or
\* ingested.
THEOREM OutboxRemembers == Spec => StagedRunNeverForgotten
<1>1. Init => ClaimsBacked /\ HeldIngested
  BY DEF Init, ClaimsBacked, ClaimIsBacked, HeldIngested, Idle, NoEvent
<1>2. TypeOK /\ ClaimsBacked /\ HeldIngested /\ [Next]_vars
        => ClaimsBacked' /\ HeldIngested'
  BY ClaimsStayBacked, HeldStaysIngested
<1>3. TypeOK /\ ClaimsBacked /\ HeldIngested /\ [Next]_vars
        => [\A e \in staged : \E f \in staged' \cup stream' \cup ingested' : f.run = e.run]_vars
  BY OutboxStep
<1>4. QED BY <1>1, <1>2, <1>3, TypeCorrect, PTL DEF Spec, StagedRunNeverForgotten

=============================================================================
