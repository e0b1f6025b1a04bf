----------------------- MODULE LineageRefinement_proofs -----------------------
(***************************************************************************)
(* With one mover process per stage, LineageDelivery reports no phantom (a *)
(* COMPLETE names a version its own run committed) and implements the      *)
(* ledger of LineageLedger: every step of the pipeline is a step of the    *)
(* ledger or leaves it alone.                                              *)
(***************************************************************************)
EXTENDS LineageDelivery_proofs

\* The deployment the argument needs: every invocation runs in one process, so
\* the process-wide lock covers them all.
SingleProcess == \A m, n \in Movers : ProcOf[m] = ProcOf[n]

\* An invocation inside the transform holds its process's lock.
WriterHoldsLock ==
    \A m \in Movers : handler[m].at \in {"write", "measure"} => lock[ProcOf[m]] = m

\* Between its commit and its measurement, an invocation's version is the newest.
OwnVersionIsCurrent ==
    \A m \in Movers :
        handler[m].at = "measure" => lance # <<>> /\ lance[Len(lance)] = RunOf(m)

\* No event is wrong wherever it rests: in a handler, in the outbox, on the
\* stream, in the graph, or between a drainer's read and its ingest.
Everywhere ==
    {handler[m].event : m \in Movers} \cup staged \cup stream \cup ingested
        \cup UNION {batch[d] : d \in Drainers}

EventsGenuine == \A e \in Everywhere : Genuine(e)

Owns(r, v) == v \in 1..Len(lance) /\ lance[v] = r

WroteGenuine == \A r \in Runs : wrote[r] # 0 => Owns(r, wrote[r])

PhantomInv == WriterHoldsLock /\ OwnVersionIsCurrent /\ EventsGenuine /\ WroteGenuine

-----------------------------------------------------------------------------
\* A version, once committed, stays committed by the run that committed it.
LEMMA GenuineStays ==
    ASSUME TypeOK, NEW e, Genuine(e),
           UNCHANGED lance \/ \E r \in Runs : lance' = Append(lance, r)
    PROVE  Genuine(e)'
<1>1. lance \in Seq(Runs)
  BY DEF TypeOK
<1>2. CASE UNCHANGED lance
  BY <1>2 DEF Genuine
<1>3. ASSUME NEW r \in Runs, lance' = Append(lance, r) PROVE Genuine(e)'
  BY <1>1, <1>3 DEF Genuine
<1>4. QED BY <1>2, <1>3

\* Every step leaves the dataset alone or commits one version.
LEMMA LanceGrows ==
    ASSUME TypeOK, [Next]_vars
    PROVE  UNCHANGED lance \/ \E r \in Runs : lance' = Append(lance, r)
<1>1. ASSUME NEW m \in Movers, Commit(m) PROVE \E r \in Runs : lance' = Append(lance, r)
  BY <1>1, WorkingHasEvent DEF Commit, At
<1>2. CASE \A m \in Movers : ~Commit(m)
  BY <1>2 DEF Next, Handle, Deliver, Refuse, Unresolved, Admit, Acquire, TransformFails,
     Measure, Stage, StageFails, Publish, PublishFails, Unstage, Block, Promote,
     PromoteFails, Reply, Crash, Lineage, LineageRestart, Consume, DeadLetter, Drain,
     List, Replay, ReadObject, DrainIngest, DrainDrop, DrainAbort, moverVars, vars
<1>3. QED BY <1>1, <1>2

\* The lock is handed over only when nobody works under it.
LEMMA LockStep ==
    ASSUME TypeOK, WriterHoldsLock, [Next]_vars PROVE WriterHoldsLock'
<1>1. ASSUME NEW m \in Movers, Acquire(m) PROVE WriterHoldsLock'
  <2>1. lock'[ProcOf[m]] = m /\ \A n \in Movers \ {m} : handler'[n] = handler[n]
    BY <1>1, ProcAssumption DEF Acquire, Goto, TypeOK
  <2>2. ASSUME NEW n \in Movers, n # m, handler[n].at \in {"write", "measure"}
        PROVE  lock'[ProcOf[n]] = n
    <3>1. lock[ProcOf[n]] = n /\ n # None
      BY <2>2, NoneAssumption DEF WriterHoldsLock
    <3>2. ProcOf[n] # ProcOf[m]
      BY <1>1, <3>1 DEF Acquire
    <3>3. QED BY <1>1, <3>1, <3>2, ProcAssumption DEF Acquire, TypeOK
  <2>3. QED BY <2>1, <2>2 DEF WriterHoldsLock
<1>2. ASSUME NEW m \in Movers, TransformFails(m) \/ Measure(m) PROVE WriterHoldsLock'
  <2>1. handler'[m].at = "stage" /\ \A n \in Movers \ {m} : handler'[n] = handler[n]
    BY <1>2 DEF TransformFails, Measure, Goto, TypeOK
  <2>2. lock[ProcOf[m]] = m
    BY <1>2 DEF TransformFails, Measure, At, WriterHoldsLock
  <2>3. ASSUME NEW n \in Movers, n # m, handler[n].at \in {"write", "measure"}
        PROVE  lock'[ProcOf[n]] = n
    <3>1. lock[ProcOf[n]] = n
      BY <2>3 DEF WriterHoldsLock
    <3>2. ProcOf[n] # ProcOf[m]
      BY <2>2, <2>3, <3>1
    <3>3. QED
      BY <1>2, <3>1, <3>2, ProcAssumption DEF TransformFails, Measure, Release, TypeOK
  <2>4. QED BY <2>1, <2>3 DEF WriterHoldsLock
<1>3. ASSUME NEW p \in Procs, Crash(p) PROVE WriterHoldsLock'
  BY <1>3, ProcAssumption DEF Crash, Idle, TypeOK, WriterHoldsLock
<1>4. ASSUME NEW m \in Movers, UNCHANGED lock, handler[m].at \in {"write", "measure"} \/ handler'[m].at \notin {"write", "measure"},
             \A n \in Movers \ {m} : handler'[n] = handler[n]
      PROVE  WriterHoldsLock'
  BY <1>4 DEF WriterHoldsLock
<1>5. CASE UNCHANGED <<handler, lock>>
  BY <1>5 DEF WriterHoldsLock
<1>6. ASSUME NEW m \in Movers, Handle(m) \/ (\E r \in Runs : Deliver(m, r)),
             ~Acquire(m), ~TransformFails(m), ~Measure(m)
      PROVE  WriterHoldsLock'
  <2>1. UNCHANGED lock
    BY <1>6 DEF Handle, Deliver, Refuse, Unresolved, Admit, Commit, Stage, StageFails,
       Publish, PublishFails, Unstage, Block, Promote, PromoteFails, Reply
  <2>2. handler[m].at \in {"write", "measure"} \/ handler'[m].at \notin {"write", "measure"}
    BY <1>6 DEF Handle, Deliver, Refuse, Unresolved, Admit, Commit, Stage, StageFails,
       Publish, PublishFails, Unstage, Block, Promote, PromoteFails, Reply, Goto, Raise,
       Idle, At, TypeOK
  <2>3. \A n \in Movers \ {m} : handler'[n] = handler[n]
    BY <1>6 DEF Handle, Deliver, Refuse, Unresolved, Admit, Commit, Stage, StageFails,
       Publish, PublishFails, Unstage, Block, Promote, PromoteFails, Reply, Goto, Raise,
       TypeOK
  <2>4. QED BY <1>4, <2>1, <2>2, <2>3
<1>7. CASE Lineage \/ (\E d \in Drainers : Drain(d)) \/ UNCHANGED vars
  BY <1>7, <1>5 DEF Lineage, LineageRestart, Consume, DeadLetter, Drain, List, Replay,
     ReadObject, DrainIngest, DrainDrop, DrainAbort, moverVars, vars
<1>8. QED BY <1>1, <1>2, <1>3, <1>6, <1>7 DEF Next

\* Nobody else commits between an invocation's commit and its measurement.
LEMMA OwnVersionStep ==
    ASSUME TypeOK, SingleProcess, WriterHoldsLock, OwnVersionIsCurrent, [Next]_vars
    PROVE  OwnVersionIsCurrent'
<1>1. ASSUME NEW m \in Movers, Commit(m) PROVE OwnVersionIsCurrent'
  <2>1. handler'[m].event = handler[m].event /\ RunOf(m)' = RunOf(m)
    BY <1>1 DEF Commit, Goto, RunOf, TypeOK
  <2>2. lance' # <<>> /\ lance'[Len(lance')] = RunOf(m)
    <3>1. lance \in Seq(Runs) /\ RunOf(m) \in Runs
      BY <1>1, WorkingHasEvent DEF Commit, At, TypeOK
    <3>2. QED BY <1>1, <3>1 DEF Commit
  <2>3. ASSUME NEW n \in Movers, n # m PROVE handler'[n].at # "measure"
    <3>1. lock[ProcOf[m]] = m
      BY <1>1 DEF Commit, At, WriterHoldsLock
    <3>2. handler[n].at # "measure"
      BY <2>3, <3>1 DEF WriterHoldsLock, SingleProcess
    <3>3. QED BY <1>1, <2>3, <3>2 DEF Commit, Goto, TypeOK
  <2>4. QED BY <2>1, <2>2, <2>3 DEF OwnVersionIsCurrent
<1>2. ASSUME \A m \in Movers : ~Commit(m) PROVE OwnVersionIsCurrent'
  <2>1. UNCHANGED lance
    BY <1>2 DEF Next, Handle, Deliver, Refuse, Unresolved, Admit, Acquire, TransformFails,
       Measure, Stage, StageFails, Publish, PublishFails, Unstage, Block, Promote,
       PromoteFails, Reply, Crash, Lineage, LineageRestart, Consume, DeadLetter, Drain,
       List, Replay, ReadObject, DrainIngest, DrainDrop, DrainAbort, moverVars, vars
  <2>2. ASSUME NEW n \in Movers, handler'[n].at = "measure"
        PROVE  handler'[n] = handler[n]
    <3>1. CASE UNCHANGED handler
      BY <3>1
    <3>2. ASSUME NEW p \in Procs, Crash(p) PROVE handler'[n] = handler[n]
      BY <2>2, <3>2 DEF Crash, Idle, TypeOK
    <3>3. ASSUME NEW m \in Movers, Handle(m) \/ \E r \in Runs : Deliver(m, r)
          PROVE  handler'[n] = handler[n]
      <4>1. handler'[m].at # "measure" /\ (n # m => handler'[n] = handler[n])
        BY <1>2, <3>3 DEF Handle, Deliver, Refuse, Unresolved, Admit, Acquire,
           TransformFails, Measure, Stage, StageFails, Publish, PublishFails, Unstage,
           Block, Promote, PromoteFails, Reply, Goto, Raise, Idle, TypeOK
      <4>2. QED BY <2>2, <4>1
    <3>4. CASE Lineage \/ (\E d \in Drainers : Drain(d)) \/ UNCHANGED vars
      BY <3>4 DEF Lineage, LineageRestart, Consume, DeadLetter, Drain, List, Replay,
         ReadObject, DrainIngest, DrainDrop, DrainAbort, moverVars, vars
    <3>5. QED BY <3>2, <3>3, <3>4 DEF Next
  <2>3. QED BY <2>1, <2>2 DEF OwnVersionIsCurrent, RunOf
<1>3. QED BY <1>1, <1>2

\* An event that comes into being is genuine, any other was there before.
LEMMA NewEventsGenuine ==
    ASSUME TypeOK, OwnVersionIsCurrent, [Next]_vars, NEW e \in Everywhere'
    PROVE  e \in Everywhere \/ Genuine(e)'
<1>1. ASSUME NEW r, e = Fail(r) \/ e = NoEvent PROVE Genuine(e)'
  BY <1>1 DEF Fail, NoEvent, Genuine
<1>2. ASSUME NEW m \in Movers, Measure(m), e = Complete(RunOf(m), Len(lance))
      PROVE  Genuine(e)'
  <2>1. lance \in Seq(Runs) /\ lance # <<>> /\ lance[Len(lance)] = RunOf(m)
    BY <1>2 DEF Measure, At, OwnVersionIsCurrent, TypeOK
  <2>2. QED BY <1>2, <2>1 DEF Measure, Genuine, Complete
<1>3. ASSUME NEW m \in Movers, Handle(m) \/ \E r \in Runs : Deliver(m, r)
      PROVE  e \in Everywhere \/ Genuine(e)'
  <2>1. \/ \E n \in Movers : e = handler[n].event
        \/ \E r \in Runs : e = Fail(r)
        \/ e = NoEvent
        \/ Measure(m) /\ e = Complete(RunOf(m), Len(lance))
        \/ e \in staged \cup stream \cup ingested \cup UNION {batch[d] : d \in Drainers}
    <3>1. CASE \E n \in Movers : e = handler'[n].event
      <4>1. PICK n \in Movers : e = handler'[n].event
        BY <3>1
      <4>2. CASE n # m
        <5>1. handler'[n] = handler[n]
          BY <1>3, <4>2 DEF Handle, Deliver, Refuse, Unresolved, Admit, Acquire, Commit,
             TransformFails, Measure, Stage, StageFails, Publish, PublishFails, Unstage,
             Block, Promote, PromoteFails, Reply, Goto, Raise, TypeOK
        <5>2. QED BY <4>1, <5>1
      <4>3. CASE n = m
        <5>1. At(m, "idle") \/ RunOf(m) \in Runs
          BY WorkingHasEvent
        <5>2. CASE \E r \in Runs : Deliver(m, r)
          BY <4>1, <4>3, <5>2 DEF Deliver, Goto, TypeOK
        <5>3. CASE Measure(m)
          BY <4>1, <4>3, <5>3 DEF Measure, Goto, TypeOK
        <5>4. CASE Reply(m)
          BY <4>1, <4>3, <5>4 DEF Reply, Idle, TypeOK
        <5>5. CASE Unresolved(m) \/ TransformFails(m) \/ StageFails(m) \/ PublishFails(m)
          BY <4>1, <4>3, <5>1, <5>5
          DEF Unresolved, TransformFails, StageFails, PublishFails, At, Goto, Raise, TypeOK
        <5>6. CASE \/ Refuse(m) \/ Admit(m) \/ Acquire(m) \/ Commit(m) \/ Stage(m)
                   \/ Publish(m) \/ Unstage(m) \/ Block(m) \/ Promote(m) \/ PromoteFails(m)
          BY <4>1, <4>3, <5>6 DEF Refuse, Admit, Acquire, Commit, Stage, Publish, Unstage,
             Block, Promote, PromoteFails, Goto, TypeOK
        <5>7. QED BY <1>3, <5>2, <5>3, <5>4, <5>5, <5>6 DEF Handle
      <4>4. QED BY <4>2, <4>3
    <3>2. CASE e \in staged' \cup stream'
      BY <1>3, <3>2 DEF Handle, Deliver, Refuse, Unresolved, Admit, Acquire, Commit,
         TransformFails, Measure, Stage, StageFails, Publish, PublishFails, Unstage,
         Block, Promote, PromoteFails, Reply, Accept, WithoutRun
    <3>3. CASE e \in ingested' \cup UNION {batch'[d] : d \in Drainers}
      BY <1>3, <3>3 DEF Handle, Deliver, Refuse, Unresolved, Admit, Acquire, Commit,
         TransformFails, Measure, Stage, StageFails, Publish, PublishFails, Unstage,
         Block, Promote, PromoteFails, Reply, graphVars, drainVars
    <3>4. QED BY <3>1, <3>2, <3>3 DEF Everywhere
  <2>2. QED BY <1>1, <1>2, <2>1 DEF Everywhere
<1>4. ASSUME NEW p \in Procs, Crash(p) PROVE e \in Everywhere \/ Genuine(e)'
  <2>1. \A n \in Movers : handler'[n].event \in {handler[n].event, NoEvent}
    BY <1>4 DEF Crash, Idle
  <2>2. QED BY <1>1, <1>4, <2>1 DEF Crash, Everywhere, graphVars, drainVars
<1>5. CASE Lineage
  BY <1>5 DEF Lineage, LineageRestart, Consume, DeadLetter, Ingest, Everywhere, TypeOK,
     moverVars, graphVars, drainVars
<1>6. ASSUME NEW d \in Drainers, Drain(d) PROVE e \in Everywhere
  <2>1. UNCHANGED <<handler, stream>> /\ staged' \subseteq staged
    BY <1>6 DEF Drain, List, Replay, ReadObject, DrainIngest, DrainDrop, DrainAbort,
       WithoutRun, moverVars
  <2>2. ingested' \subseteq ingested \cup batch[d]
    BY <1>6 DEF Drain, List, Replay, ReadObject, DrainIngest, DrainDrop, DrainAbort,
       Ingest, graphVars
  <2>3. batch'[d] \subseteq batch[d] \cup staged
    BY <1>6 DEF Drain, List, Replay, ReadObject, DrainIngest, DrainDrop, DrainAbort, TypeOK
  <2>4. \A c \in Drainers \ {d} : batch'[c] = batch[c]
    BY <1>6 DEF Drain, List, Replay, ReadObject, DrainIngest, DrainDrop, DrainAbort, TypeOK
  <2>5. QED BY <2>1, <2>2, <2>3, <2>4 DEF Everywhere
<1>7. CASE UNCHANGED vars
  BY <1>7 DEF vars, Everywhere
<1>8. QED BY <1>3, <1>4, <1>5, <1>6, <1>7 DEF Next

\* A version on a WROTE edge comes from an event the graph was given.
LEMMA WroteStep ==
    ASSUME TypeOK, EventsGenuine, WroteGenuine, [Next]_vars PROVE WroteGenuine'
<1> SUFFICES ASSUME NEW r \in Runs, (wrote[r] # 0)' PROVE Owns(r, wrote[r])'
  BY DEF WroteGenuine
<1>1. CASE UNCHANGED wrote
  <2>1. Genuine(Complete(r, wrote[r]))
    BY <1>1 DEF WroteGenuine, Owns, Genuine, Complete
  <2>2. Genuine(Complete(r, wrote[r]))'
    BY <1>1, <2>1, GenuineStays, LanceGrows DEF Complete
  <2>3. QED BY <2>2 DEF Owns, Genuine, Complete
<1>2. ASSUME NEW e \in Event, e \in Everywhere, Ingest(e), UNCHANGED lance
      PROVE  Owns(r, wrote[r])'
  <2>1. CASE wrote'[r] = wrote[r]
    BY <1>2, <2>1 DEF WroteGenuine, Owns
  <2>2. CASE wrote'[r] # wrote[r]
    <3>1. e.type = "COMPLETE" /\ e.run = r /\ wrote'[r] = e.version
      BY <1>2, <2>2 DEF Ingest, TypeOK
    <3>2. Genuine(e)
      BY <1>2 DEF EventsGenuine
    <3>3. QED BY <1>2, <3>1, <3>2 DEF Genuine, Owns
  <2>3. QED BY <2>1, <2>2
<1>3. CASE Lineage
  BY <1>1, <1>2, <1>3
  DEF Lineage, LineageRestart, Consume, DeadLetter, Everywhere, TypeOK, moverVars, graphVars
<1>4. ASSUME NEW d \in Drainers, Drain(d) PROVE Owns(r, wrote[r])'
  <2>1. UNCHANGED wrote \/ \E e \in batch[d] : Ingest(e)
    BY <1>4 DEF Drain, List, Replay, ReadObject, DrainIngest, DrainDrop, DrainAbort,
       graphVars
  <2>2. batch[d] \subseteq Event /\ batch[d] \subseteq Everywhere /\ UNCHANGED lance
    BY <1>4 DEF Drain, List, Replay, ReadObject, DrainIngest, DrainDrop, DrainAbort,
       TypeOK, Everywhere, moverVars
  <2>3. QED BY <1>1, <1>2, <2>1, <2>2
<1>5. CASE (\E m \in Movers : Handle(m) \/ \E s \in Runs : Deliver(m, s)) \/ UNCHANGED vars
  BY <1>1, <1>5 DEF Handle, Deliver, Refuse, Unresolved, Admit, Acquire, Commit,
     TransformFails, Measure, Stage, StageFails, Publish, PublishFails, Unstage, Block,
     Promote, PromoteFails, Reply, graphVars, vars
<1>6. CASE \E p \in Procs : Crash(p)
  BY <1>1, <1>6 DEF Crash, graphVars
<1>7. QED BY <1>3, <1>4, <1>5, <1>6 DEF Next

LEMMA PhantomInit == Init => PhantomInv
BY DEF Init, PhantomInv, WriterHoldsLock, OwnVersionIsCurrent, EventsGenuine, Everywhere,
   WroteGenuine, Owns, Genuine, Idle, NoEvent

LEMMA PhantomStep ==
    ASSUME SingleProcess, TypeOK, PhantomInv, [Next]_vars PROVE PhantomInv'
<1>1. EventsGenuine'
  <2> SUFFICES ASSUME NEW e \in Everywhere' PROVE Genuine(e)'
    BY DEF EventsGenuine
  <2>1. CASE e \in Everywhere
    BY <2>1, GenuineStays, LanceGrows DEF PhantomInv, EventsGenuine
  <2>2. QED BY <2>1, NewEventsGenuine DEF PhantomInv
<1>2. QED BY <1>1, LockStep, OwnVersionStep, WroteStep DEF PhantomInv

\* In the deployed configuration, one mover process per stage, no event and no
\* WROTE edge names a version that its run did not commit.
THEOREM NoPhantomOneProcess ==
    ASSUME SingleProcess PROVE Spec => []NoPhantom
<1>1. PhantomInv => NoPhantom
  BY DEF PhantomInv, EventsGenuine, Everywhere, WroteGenuine, Owns, NoPhantom, Genuine,
     Complete
<1>2. TypeOK /\ PhantomInv /\ [Next]_vars => PhantomInv'
  BY PhantomStep
<1>3. QED BY <1>1, <1>2, PhantomInit, TypeCorrect, PTL DEF Spec

-----------------------------------------------------------------------------
(* The ledger.                                                             *)

\* The pairs of run and version that a set of events reports.
Pairs(events) == {<<e.run, e.version>> : e \in {f \in events : f.type = "COMPLETE"}}
Vouched == promoted \cup {r \in Runs : trigger[r] \in {"done", "blocked"}}

LedgerUnchanged == UNCHANGED <<lance, Pairs(stream), Pairs(ingested), Vouched>>
LedgerStep == [Ledger!Next]_(Ledger!ledgerVars)

LEMMA LedgerVars == LedgerUnchanged => UNCHANGED Ledger!ledgerVars
BY DEF LedgerUnchanged, Ledger!ledgerVars, Pairs, Vouched

\* A genuine COMPLETE is a fact of the ledger.
LEMMA GenuineIsFact ==
    ASSUME TypeOK, NEW e \in Event, Genuine(e), e.type = "COMPLETE"
    PROVE  <<e.run, e.version>> \in Ledger!Facts
BY DEF Genuine, Ledger!Facts

\* One more event reports one more pair, if it is a COMPLETE.
LEMMA PairsAdd ==
    ASSUME NEW events, NEW e
    PROVE  Pairs(events \cup {e}) =
             IF e.type = "COMPLETE" THEN Pairs(events) \cup {<<e.run, e.version>>}
             ELSE Pairs(events)
BY DEF Pairs

\* The broker accepting a genuine event is an Accept or a stutter.
LEMMA AcceptStep ==
    ASSUME TypeOK, NEW e \in Event, Genuine(e), stream' = stream \cup {e},
           UNCHANGED <<lance, ingested, promoted, trigger>>
    PROVE  LedgerStep
<1>1. UNCHANGED <<Pairs(ingested), Vouched>>
  BY DEF Pairs, Vouched
<1>2. CASE e.type # "COMPLETE"
  BY <1>1, <1>2, PairsAdd, LedgerVars DEF LedgerUnchanged, LedgerStep, Pairs
<1>3. CASE e.type = "COMPLETE"
  <2>1. <<e.run, e.version>> \in Ledger!Facts
    BY <1>3, GenuineIsFact
  <2>2. Pairs(stream)' = Pairs(stream) \cup {<<e.run, e.version>>}
    BY <1>3, PairsAdd DEF Pairs
  <2>3. Ledger!Accept
    BY <1>1, <2>1, <2>2 DEF Ledger!Accept, Pairs, Vouched
  <2>4. QED BY <2>3 DEF LedgerStep, Ledger!Next
<1>4. QED BY <1>2, <1>3

\* The graph ingesting a genuine event is a Record or a stutter.
LEMMA RecordStep ==
    ASSUME TypeOK, NEW e \in Event, Genuine(e), Ingest(e),
           UNCHANGED <<lance, stream, promoted, trigger>>
    PROVE  LedgerStep
<1>1. UNCHANGED <<Pairs(stream), Vouched>> /\ ingested' = ingested \cup {e}
  BY DEF Pairs, Vouched, Ingest
<1>2. CASE e.type # "COMPLETE"
  BY <1>1, <1>2, PairsAdd, LedgerVars DEF LedgerUnchanged, LedgerStep, Pairs
<1>3. CASE e.type = "COMPLETE"
  <2>1. <<e.run, e.version>> \in Ledger!Facts
    BY <1>3, GenuineIsFact
  <2>2. Pairs(ingested)' = Pairs(ingested) \cup {<<e.run, e.version>>}
    BY <1>1, <1>3, PairsAdd DEF Pairs
  <2>3. Ledger!Record
    BY <1>1, <2>1, <2>2 DEF Ledger!Record, Pairs, Vouched
  <2>4. QED BY <2>3 DEF LedgerStep, Ledger!Next
<1>4. QED BY <1>2, <1>3

\* Vouching for the run of an accepted COMPLETE is a Vouch or a stutter.
LEMMA VouchStep ==
    ASSUME TypeOK, NEW e \in stream, e.type = "COMPLETE",
           Vouched' = Vouched \/ Vouched' = Vouched \cup {e.run},
           UNCHANGED <<lance, stream, ingested>>
    PROVE  LedgerStep
<1>1. UNCHANGED <<Pairs(stream), Pairs(ingested)>>
  BY DEF Pairs
<1>2. CASE Vouched' = Vouched
  BY <1>1, <1>2, LedgerVars DEF LedgerUnchanged, LedgerStep
<1>3. CASE Vouched' = Vouched \cup {e.run}
  <2>1. <<e.run, e.version>> \in Pairs(stream)
    BY DEF Pairs
  <2>2. Ledger!Vouch
    BY <1>1, <1>3, <2>1 DEF Ledger!Vouch, Pairs, Vouched
  <2>3. QED BY <2>2 DEF LedgerStep, Ledger!Next
<1>4. QED BY <1>2, <1>3

LEMMA LedgerRefines ==
    ASSUME TypeOK, ClaimsBacked, PhantomInv, [Next]_vars PROVE LedgerStep
<1>1. ASSUME NEW m \in Movers, Commit(m) PROVE LedgerStep
  <2>1. Ledger!Commit
    BY <1>1, WorkingHasEvent DEF Commit, At, Ledger!Commit, graphVars
  <2>2. QED BY <2>1 DEF LedgerStep, Ledger!Next
<1>2. ASSUME NEW m \in Movers, Publish(m) \/ PublishFails(m) PROVE LedgerStep
  <2>1. handler[m].event \in Event /\ Genuine(handler[m].event)
    BY <1>2, WorkingHasEvent
    DEF Publish, PublishFails, At, PhantomInv, EventsGenuine, Everywhere
  <2>2. UNCHANGED <<lance, ingested, promoted, trigger>>
    BY <1>2 DEF Publish, PublishFails, graphVars
  <2>3. CASE stream' = stream \cup {handler[m].event}
    BY <2>1, <2>2, <2>3, AcceptStep
  <2>4. CASE UNCHANGED stream
    BY <2>2, <2>4, LedgerVars DEF LedgerUnchanged, LedgerStep, Pairs, Vouched
  <2>5. QED BY <1>2, <2>3, <2>4 DEF Publish, PublishFails, Accept
<1>3. ASSUME NEW m \in Movers, Promote(m) \/ PromoteFails(m) PROVE LedgerStep
  <2>1. handler[m].event \in stream /\ handler[m].event.type = "COMPLETE"
    BY <1>3 DEF Promote, PromoteFails, At, ClaimsBacked, ClaimIsBacked
  <2>2. Vouched' = Vouched \/ Vouched' = Vouched \cup {handler[m].event.run}
    BY <1>3 DEF Promote, PromoteFails, Vouched, RunOf
  <2>3. QED BY <1>3, <2>1, <2>2, VouchStep DEF Promote, PromoteFails, graphVars
<1>4. ASSUME NEW m \in Movers, Reply(m) PROVE LedgerStep
  <2>1. UNCHANGED <<lance, stream, ingested, promoted>> /\ RunOf(m) \in Runs
    BY <1>4, WorkingHasEvent DEF Reply, At, graphVars
  <2>2. CASE Vouched' = Vouched
    BY <2>1, <2>2, LedgerVars DEF LedgerUnchanged, LedgerStep, Pairs
  <2>3. CASE Vouched' # Vouched
    <3>1. /\ trigger[RunOf(m)] = "owed"
          /\ trigger' = [trigger EXCEPT ![RunOf(m)] =
                            Verdict(handler[m].answer, left[RunOf(m)])]
      BY <1>4, <2>3 DEF Reply, Vouched
    <3>2. Verdict(handler[m].answer, left[RunOf(m)]) \in {"done", "blocked"}
      BY <2>1, <2>3, <3>1 DEF Vouched, TypeOK
    <3>3. handler[m].answer \in Answers
      BY DEF TypeOK
    <3>4. handler[m].answer \notin {"DROP", "RETRY"}
      BY <3>2, <3>3 DEF Verdict, Answers
    <3>5. handler[m].event \in stream /\ handler[m].event.type = "COMPLETE"
      BY <1>4, <3>4 DEF Reply, At, ClaimsBacked, ClaimIsBacked
    <3>6. Vouched' = Vouched \cup {handler[m].event.run}
      BY <2>1, <3>1, <3>2 DEF Vouched, TypeOK, RunOf
    <3>7. QED BY <2>1, <3>5, <3>6, VouchStep
  <2>4. QED BY <2>2, <2>3
<1>5. ASSUME NEW e \in Everywhere \cap Event, Ingest(e),
             UNCHANGED <<lance, stream, promoted, trigger>>
      PROVE  LedgerStep
  BY <1>5, RecordStep DEF PhantomInv, EventsGenuine
<1>6. ASSUME UNCHANGED <<lance, stream, ingested, promoted, trigger>> PROVE LedgerStep
  BY <1>6, LedgerVars DEF LedgerUnchanged, LedgerStep, Pairs, Vouched
<1>7. CASE Lineage
  <2>1. CASE LineageRestart
    BY <1>6, <2>1 DEF LineageRestart, moverVars, graphVars
  <2>2. ASSUME NEW e \in pending, Consume(e) PROVE LedgerStep
    BY <1>5, <2>2 DEF Consume, moverVars, TypeOK, Everywhere
  <2>3. ASSUME NEW e \in pending, DeadLetter(e) PROVE LedgerStep
    BY <1>6, <2>3 DEF DeadLetter, moverVars, graphVars
  <2>4. QED BY <1>7, <2>1, <2>2, <2>3 DEF Lineage
<1>8. ASSUME NEW d \in Drainers, Drain(d) PROVE LedgerStep
  <2>1. ASSUME NEW e \in batch[d], DrainIngest(d, e) PROVE LedgerStep
    BY <1>5, <2>1 DEF DrainIngest, moverVars, TypeOK, Everywhere
  <2>2. CASE \A e \in batch[d] : ~DrainIngest(d, e)
    BY <1>6, <1>8, <2>2 DEF Drain, List, Replay, ReadObject, DrainDrop, DrainAbort,
       moverVars, graphVars
  <2>3. QED BY <2>1, <2>2
<1>9. ASSUME NEW m \in Movers, Handle(m) \/ (\E r \in Runs : Deliver(m, r)),
             ~Commit(m), ~Publish(m), ~PublishFails(m), ~Promote(m), ~PromoteFails(m),
             ~Reply(m)
      PROVE  LedgerStep
  BY <1>6, <1>9 DEF Handle, Deliver, Refuse, Unresolved, Admit, Acquire, TransformFails,
     Measure, Stage, StageFails, Unstage, Block, graphVars
<1>10. CASE (\E p \in Procs : Crash(p)) \/ UNCHANGED vars
  BY <1>6, <1>10 DEF Crash, vars, graphVars
<1>11. QED
  BY <1>1, <1>2, <1>3, <1>4, <1>7, <1>8, <1>9, <1>10 DEF Next

\* In the deployed configuration, one mover process per stage, the pipeline
\* implements the ledger: what is accepted and recorded was committed and is
\* never taken back, and a run is vouched for only after it was accepted.
THEOREM ImplementsLedger ==
    ASSUME SingleProcess PROVE Spec => LedgerSpec
<1>1. Init => Ledger!Init
  BY DEF Init, Ledger!Init
<1>2. Init => ClaimsBacked
  BY DEF Init, ClaimsBacked, ClaimIsBacked, Idle, NoEvent
<1>3. TypeOK /\ ClaimsBacked /\ PhantomInv /\ [Next]_vars
        => ClaimsBacked' /\ PhantomInv' /\ [Ledger!Next]_(Ledger!ledgerVars)
  BY ClaimsStayBacked, PhantomStep, LedgerRefines DEF LedgerStep
<1>4. QED BY <1>1, <1>2, <1>3, PhantomInit, TypeCorrect, PTL DEF Spec, LedgerSpec, Ledger!Spec

=============================================================================
