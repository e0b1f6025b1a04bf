----------------------------- MODULE Serving_proofs -----------------------------
(***************************************************************************)
(* What the services that answer readers promise, proved for any numbers   *)
(* of threads, replicas, pages, tables and events, and for caches, rings,  *)
(* windows and stores of any size.                                         *)
(***************************************************************************)
EXTENDS Serving, SequenceTheorems, FiniteSetTheorems, WellFoundedInduction, TLAPS

USE DEF searchVars, descriptionVars, feedVars, feedPageVars, userVars, blobVars, pointVars

-----------------------------------------------------------------------------
(* Numbers and sequences.                                                  *)

\* The provers are not given it, so it comes from the well-foundedness of <.
LEMMA LeastIn ==
    ASSUME NEW S \in SUBSET Nat, S # {}
    PROVE  \E least \in S : \A n \in S : least <= n
<1> DEFINE Before == {p \in Nat \X Nat : p[1] < p[2]}
<1>1. IsWellFoundedOn(Before, Nat)
  <2>1. OpToRel(<, Nat) = Before
    BY Zenon DEF OpToRel
  <2>2. QED BY <2>1, NatLessThanWellFounded
<1>2. PICK least \in S : \A n \in S : ~(<<n, least>> \in Before)
  BY <1>1, WFMin
<1>3. ASSUME NEW n \in S PROVE least <= n
  <2>1. n \in Nat /\ least \in Nat
    OBVIOUS
  <2>2. ~(n < least)
    BY <1>2, <2>1
  <2>3. QED BY <2>1, <2>2
<1>4. QED BY <1>3

LEMMA MinIn ==
    ASSUME NEW S \in SUBSET Nat, S # {}
    PROVE  Min(S) \in S /\ \A n \in S : Min(S) <= n
BY LeastIn DEF Min

\* A sequence without one of its entries.
LEMMA WithoutOne ==
    ASSUME NEW S, NEW s \in Seq(S), NEW i \in 1..Len(s)
    PROVE  RemoveAt(s, i) \in Seq(S) /\ Len(RemoveAt(s, i)) = Len(s) - 1
<1>1. Len(s) \in Nat /\ i \in Int /\ \A j \in 1..Len(s) : s[j] \in S
  BY ElementOfSeq, LenProperties
<1>2. SubSeq(s, 1, i - 1) \in Seq(S) /\ Len(SubSeq(s, 1, i - 1)) = i - 1
  <2>1. \A j \in 1..i - 1 : s[j] \in S
    BY <1>1
  <2>2. i - 1 \in Int /\ 1 \in Int
    BY <1>1
  <2>3. SubSeq(s, 1, i - 1) \in Seq(S) /\ Len(SubSeq(s, 1, i - 1)) = IF 1 <= i - 1 THEN i - 1 - 1 + 1 ELSE 0
    BY <2>1, <2>2, SubSeqProperties
  <2>4. QED BY <1>1, <2>3
<1>3. SubSeq(s, i + 1, Len(s)) \in Seq(S) /\ Len(SubSeq(s, i + 1, Len(s))) = Len(s) - i
  <2>1. \A j \in i + 1..Len(s) : s[j] \in S
    BY <1>1
  <2>2. i + 1 \in Int /\ Len(s) \in Int
    BY <1>1
  <2>3. SubSeq(s, i + 1, Len(s)) \in Seq(S) /\ Len(SubSeq(s, i + 1, Len(s))) = IF i + 1 <= Len(s) THEN Len(s) - (i + 1) + 1 ELSE 0
    BY <2>1, <2>2, SubSeqProperties
  <2>4. QED BY <1>1, <2>3
<1>4. PICK a, b : a = SubSeq(s, 1, i - 1) /\ b = SubSeq(s, i + 1, Len(s))
  OBVIOUS
<1>5. a \o b \in Seq(S) /\ Len(a \o b) = Len(a) + Len(b)
  BY <1>2, <1>3, <1>4, ConcatProperties
<1>6. RemoveAt(s, i) = a \o b
  BY <1>4 DEF RemoveAt
<1>7. Len(a \o b) = Len(s) - 1
  <2>1. PICK n \in Int : n = Len(s)
    BY <1>1
  <2>2. Len(a \o b) = (i - 1) + (n - i)
    BY <1>2, <1>3, <1>4, <1>5, <2>1
  <2>3. (i - 1) + (n - i) = n - 1
    BY <1>1
  <2>4. QED BY <2>1, <2>2, <2>3
<1>8. QED BY <1>5, <1>6, <1>7

-----------------------------------------------------------------------------
(* The description of a table.                                             *)

\* Only the thread that holds the lock is past it, and what it has read is at
\* least as new as the description it replaces.
DescriptionInv ==
    /\ written \in Nat /\ info \in Nat /\ info <= written
    /\ DOMAIN opening = Openers
    /\ \A c \in Openers :
          /\ opening[c].at \in {"locked", "described"} => lock = c
          /\ opening[c].at = "described" => opening[c].fresh \in info..written

\* A step of one thread: the others stay where they are.
LEMMA Others ==
    ASSUME DescriptionInv, NEW c \in Openers, NEW next, Step(c, next)
    PROVE  /\ DOMAIN opening' = Openers
           /\ opening'[c] = next
           /\ \A d \in Openers \ {c} : opening'[d] = opening[d]
BY DEF Step, DescriptionInv

LEMMA DescriptionStep ==
    ASSUME DescriptionInv, DescriptionNext
    PROVE  DescriptionInv' /\ info' >= info
<1>1. CASE WriteRows
  BY <1>1 DEF WriteRows, DescriptionInv
<1>2. ASSUME NEW c \in Openers, TableDataset(c) PROVE DescriptionInv' /\ info' = info
  BY <1>2, Others DEF TableDataset, DescriptionInv
<1>3. ASSUME NEW c \in Openers, CompareInfo(c) PROVE DescriptionInv' /\ info' = info
  <2>1. PICK next : Step(c, next) /\ next.at \in {"closed", "drift"}
    BY <1>3 DEF CompareInfo, Closed
  <2>2. QED BY <1>3, <2>1, Others DEF CompareInfo, DescriptionInv
<1>4. ASSUME NEW c \in Openers, AwaitLock(c) PROVE DescriptionInv' /\ info' = info
  <2>1. lock = Free /\ \A d \in Openers : opening[d].at \notin {"locked", "described"}
    BY <1>4, OpenersAssumption DEF AwaitLock, DescriptionInv
  <2>2. CASE info = opening[c].seen
    BY <1>4, <2>1, <2>2, Others DEF AwaitLock, DescriptionInv
  <2>3. CASE info # opening[c].seen
    BY <1>4, <2>1, <2>3, Others DEF AwaitLock, Closed, DescriptionInv
  <2>4. QED BY <2>2, <2>3
<1>5. ASSUME NEW c \in Openers, Introspect(c) PROVE DescriptionInv' /\ info' = info
  BY <1>5, Others DEF Introspect, TableInfo, Opening, DescriptionInv
<1>6. ASSUME NEW c \in Openers, SyncTableInfo(c) PROVE DescriptionInv' /\ info' >= info
  <2>1. lock = c /\ opening[c].fresh \in info..written
    BY <1>6 DEF SyncTableInfo, Opening, DescriptionInv
  <2>2. \A d \in Openers \ {c} : opening[d].at \notin {"locked", "described"}
    BY <2>1 DEF DescriptionInv
  <2>3. QED BY <1>6, <2>1, <2>2, Others DEF SyncTableInfo, Closed, DescriptionInv
<1>7. ASSUME NEW c \in Openers, FailSync(c) PROVE DescriptionInv' /\ info' = info
  <2>1. \A d \in Openers \ {c} : opening[d].at \notin {"locked", "described"}
    BY <1>7 DEF FailSync, Opening, DescriptionInv
  <2>2. QED BY <1>7, <2>1, Others DEF FailSync, Closed, DescriptionInv
<1>8. info \in Nat
  BY DEF DescriptionInv
<1>9. QED BY <1>1, <1>2, <1>3, <1>4, <1>5, <1>6, <1>7, <1>8 DEF DescriptionNext, WriteRows

\* registry.py's double check under the lock: the description never goes back to
\* an older version, for any number of threads.
THEOREM DescriptionNeverBack == Spec => DescriptionAdvances
<1>1. Init => DescriptionInv
  BY DEF Init, DescriptionInit, DescriptionInv, Closed
<1>2. DescriptionInv /\ [Next]_vars => DescriptionInv' /\ [info' >= info]_info
  <2> SUFFICES ASSUME DescriptionInv, [Next]_vars
               PROVE  DescriptionInv' /\ [info' >= info]_info
    OBVIOUS
  <2>1. CASE DescriptionNext
    BY <2>1, DescriptionStep
  <2>2. CASE UNCHANGED descriptionVars
    BY <2>2 DEF DescriptionInv
  <2>3. QED BY <2>1, <2>2 DEF Next, vars
<1>3. QED BY <1>1, <1>2, PTL DEF Spec, DescriptionAdvances

-----------------------------------------------------------------------------
(* The feed of control-plane events.                                       *)

\* A ring holds the last events the replica took, each under its place among
\* them as its cursor, and is empty only if it took none.
RingInv(r) ==
    /\ taken[r] \in Seq(Changes)
    /\ \A i \in 1..Len(taken[r]) : taken[r][i] \in sent
    /\ head[r] = Len(taken[r])
    /\ ring[r] \in Seq([cursor : Nat, event : Changes])
    /\ Len(ring[r]) <= head[r]
    /\ head[r] > 0 => ring[r] # <<>>
    /\ \A i \in 1..Len(ring[r]) :
          /\ ring[r][i].cursor = head[r] - Len(ring[r]) + i
          /\ ring[r][i].event = taken[r][head[r] - Len(ring[r]) + i]

\* A console's cursor is a number.
FeedInv ==
    /\ sent \subseteq made
    /\ DOMAIN taken = Replicas /\ DOMAIN ring = Replicas /\ DOMAIN head = Replicas
    /\ console = [cursor |-> console.cursor, issuer |-> console.issuer, known |-> console.known]
    /\ console.cursor \in Nat
    /\ \A r \in Replicas : RingInv(r)

\* A ring that no event entered.
LEMMA SameRing ==
    ASSUME NEW r \in Replicas, RingInv(r), sent \subseteq sent',
           taken'[r] = taken[r], ring'[r] = ring[r], head'[r] = head[r]
    PROVE  RingInv(r)'
BY DEF RingInv

\* One more event in a ring that has room, or in place of the oldest.
LEMMA AppendStep ==
    ASSUME FeedInv, NEW r \in Replicas, NEW e \in Changes, AppendEvent(r, e)
    PROVE  FeedInv'
<1> DEFINE old == ring[r]
           kept == IF Len(old) = RingSize THEN Tail(old) ELSE old
           h == head[r]
           Entry == [cursor : Nat, event : Changes]
<1>1. /\ e \in sent /\ e \in Changes /\ h \in Nat /\ Len(old) \in Nat /\ Len(old) <= h
      /\ old \in Seq(Entry) /\ taken[r] \in Seq(Changes) /\ h = Len(taken[r])
      /\ \A i \in 1..h : taken[r][i] \in sent
      /\ \A i \in 1..Len(old) :
            /\ old[i].cursor = h - Len(old) + i
            /\ old[i].event = taken[r][h - Len(old) + i]
  <2>1. RingInv(r) /\ e \in sent
    BY DEF AppendEvent, FeedInv
  <2>2. taken[r] \in Seq(Changes) /\ h = Len(taken[r]) /\ h \in Nat
    BY <2>1 DEF RingInv
  <2>3. old \in Seq(Entry) /\ Len(old) \in Nat /\ Len(old) <= h
    BY <2>1 DEF RingInv
  <2>4. \A i \in 1..h : taken[r][i] \in sent
    BY <2>1, <2>2 DEF RingInv
  <2>5. \A i \in 1..Len(old) :
           /\ old[i].cursor = h - Len(old) + i
           /\ old[i].event = taken[r][h - Len(old) + i]
    BY <2>1 DEF RingInv
  <2>6. QED BY <2>1, <2>2, <2>3, <2>4, <2>5
<1>2. /\ kept \in Seq(Entry) /\ Len(kept) \in Nat /\ Len(kept) <= h
      /\ \A i \in 1..Len(kept) :
            /\ kept[i].cursor = h - Len(kept) + i
            /\ kept[i].event = taken[r][h - Len(kept) + i]
  <2>1. CASE Len(old) = RingSize
    <3>1. old # <<>>
      BY <2>1, FeedAssumption
    <3>2. /\ Tail(old) \in Seq(Entry) /\ Len(Tail(old)) = Len(old) - 1
          /\ \A i \in 1..Len(Tail(old)) : Tail(old)[i] = old[i + 1]
      BY <1>1, <3>1
    <3>3. kept = Tail(old)
      BY <2>1
    <3> HIDE DEF old, h, kept
    <3>4. kept \in Seq(Entry) /\ Len(kept) = Len(old) - 1
      BY <3>2, <3>3
    <3>5. Len(kept) \in Nat /\ Len(kept) <= h
      BY <1>1, <3>4
    <3>6. ASSUME NEW i \in 1..Len(kept)
          PROVE  /\ kept[i].cursor = h - Len(kept) + i
                 /\ kept[i].event = taken[r][h - Len(kept) + i]
      <4>1. i + 1 \in 1..Len(old) /\ h - Len(old) + (i + 1) = h - Len(kept) + i
        <5>1. h \in Nat /\ Len(old) \in Nat /\ Len(kept) = Len(old) - 1
          BY <1>1, <3>4
        <5>2. i \in 1..(Len(old) - 1)
          BY <5>1
        <5>3. QED BY <5>1, <5>2
      <4>2. kept[i] = old[i + 1]
        BY <3>2, <3>3
      <4>3. PICK j \in 1..Len(old) : j = i + 1
        BY <4>1
      <4>4. /\ old[j].cursor = h - Len(old) + j
            /\ old[j].event = taken[r][h - Len(old) + j]
        BY <1>1
      <4>5. kept[i] = old[j] /\ h - Len(old) + j = h - Len(kept) + i
        BY <4>1, <4>2, <4>3
      <4>6. QED BY <4>4, <4>5, Zenon
    <3>7. QED BY <3>4, <3>5, <3>6
  <2>2. CASE Len(old) # RingSize
    BY <1>1, <2>2
  <2>3. QED BY <2>1, <2>2
<1> DEFINE entry == [cursor |-> h + 1, event |-> e]
<1>3. /\ head' = [head EXCEPT ![r] = h + 1]
      /\ ring' = [ring EXCEPT ![r] = Append(kept, entry)]
      /\ taken' = [taken EXCEPT ![r] = Append(taken[r], e)]
      /\ UNCHANGED <<made, sent>>
  BY DEF AppendEvent, FeedInv
<1>4. /\ head'[r] = h + 1 /\ ring'[r] = Append(kept, entry) /\ taken'[r] = Append(taken[r], e)
      /\ \A q \in Replicas \ {r} : head'[q] = head[q] /\ ring'[q] = ring[q] /\ taken'[q] = taken[q]
      /\ DOMAIN taken' = Replicas /\ DOMAIN ring' = Replicas /\ DOMAIN head' = Replicas
  BY <1>3 DEF FeedInv
<1> HIDE DEF kept, h, old
<1>5. /\ taken'[r] \in Seq(Changes) /\ Len(taken'[r]) = h + 1
      /\ \A i \in 1..h : taken'[r][i] = taken[r][i]
      /\ taken'[r][h + 1] = e
      /\ \A i \in 1..(h + 1) : taken'[r][i] \in sent
  <2>1. /\ taken'[r] \in Seq(Changes) /\ Len(taken'[r]) = h + 1
        /\ \A i \in 1..h : taken'[r][i] = taken[r][i]
        /\ taken'[r][h + 1] = e
    BY <1>1, <1>4
  <2>2. ASSUME NEW i \in 1..(h + 1) PROVE taken'[r][i] \in sent
    <3>1. h \in Nat
      BY <1>1
    <3>2. i \in 1..h \/ i = h + 1
      BY <3>1
    <3>3. QED BY <1>1, <2>1, <3>2
  <2>3. QED BY <2>1, <2>2
<1>6. /\ ring'[r] \in Seq(Entry) /\ Len(ring'[r]) = Len(kept) + 1
      /\ \A i \in 1..Len(kept) : ring'[r][i] = kept[i]
      /\ ring'[r][Len(kept) + 1] = entry
  <2>1. entry \in Entry
    BY <1>1
  <2>2. QED BY <1>2, <1>4, <2>1
<1>7. \A i \in 1..Len(ring'[r]) :
         /\ ring'[r][i].cursor = head'[r] - Len(ring'[r]) + i
         /\ ring'[r][i].event = taken'[r][head'[r] - Len(ring'[r]) + i]
  <2> SUFFICES ASSUME NEW i \in 1..Len(ring'[r])
               PROVE  /\ ring'[r][i].cursor = head'[r] - Len(ring'[r]) + i
                      /\ ring'[r][i].event = taken'[r][head'[r] - Len(ring'[r]) + i]
    OBVIOUS
  <2>1. CASE i = Len(kept) + 1
    BY <1>1, <1>2, <1>4, <1>5, <1>6, <2>1
  <2>2. CASE i # Len(kept) + 1
    <3>1. i \in 1..Len(kept) /\ h - Len(kept) + i \in 1..h
      BY <1>1, <1>2, <1>6, <2>2
    <3>2. QED BY <1>1, <1>2, <1>4, <1>5, <1>6, <3>1
  <2>3. QED BY <2>1, <2>2
<1>8. ring'[r] # <<>> /\ Len(ring'[r]) <= head'[r] /\ head'[r] = Len(taken'[r])
  <2>1. head'[r] = h + 1 /\ head'[r] = Len(taken'[r])
    BY <1>4, <1>5
  <2>2. Len(ring'[r]) <= h + 1 /\ Len(ring'[r]) >= 1
    BY <1>1, <1>2, <1>6
  <2>3. QED BY <2>1, <2>2
<1>9. RingInv(r)'
  BY <1>1, <1>3, <1>4, <1>5, <1>6, <1>7, <1>8 DEF RingInv
<1>10. \A q \in Replicas \ {r} : RingInv(q)'
  BY <1>3, <1>4, SameRing DEF FeedInv
<1>11. UNCHANGED console
  BY DEF AppendEvent
<1>12. QED BY <1>3, <1>4, <1>9, <1>10, <1>11 DEF FeedInv

LEMMA FeedStep == ASSUME FeedInv, FeedNext PROVE FeedInv'
<1>1. ASSUME NEW e \in Changes, EmitControl(e) PROVE FeedInv'
  <2>1. /\ sent \subseteq sent' /\ sent' \subseteq made'
        /\ UNCHANGED <<ring, head, taken, console>>
    BY <1>1 DEF EmitControl, Emitted, FeedInv
  <2>2. \A r \in Replicas : RingInv(r)'
    BY <2>1, SameRing DEF FeedInv
  <2>3. QED BY <2>1, <2>2 DEF FeedInv
<1>2. ASSUME NEW r \in Replicas, NEW e \in Changes, AppendEvent(r, e) PROVE FeedInv'
  BY <1>2, AppendStep
<1>3. ASSUME NEW r \in Replicas, PollControlEvents(r) PROVE FeedInv'
  <2>1. /\ console' = [cursor |-> head[r], issuer |-> r, known |-> console'.known]
        /\ UNCHANGED <<made, sent, ring, head, taken>>
    BY <1>3 DEF PollControlEvents
  <2>2. head[r] \in Nat
    BY DEF FeedInv, RingInv
  <2>3. \A q \in Replicas : RingInv(q)'
    BY <2>1, SameRing DEF FeedInv
  <2>4. QED BY <2>1, <2>2, <2>3 DEF FeedInv
<1>4. ASSUME NEW r \in Replicas, RestartReplica(r) PROVE FeedInv'
  <2>1. /\ ring'[r] = <<>> /\ head'[r] = 0 /\ taken'[r] = <<>>
        /\ \A q \in Replicas \ {r} :
              head'[q] = head[q] /\ ring'[q] = ring[q] /\ taken'[q] = taken[q]
        /\ DOMAIN taken' = Replicas /\ DOMAIN ring' = Replicas /\ DOMAIN head' = Replicas
        /\ UNCHANGED <<made, sent>>
    BY <1>4 DEF RestartReplica, FeedInv
  <2>2. RingInv(r)'
    BY <2>1 DEF RingInv
  <2>3. \A q \in Replicas \ {r} : RingInv(q)'
    BY <2>1, SameRing DEF FeedInv
  <2>4. /\ console'.cursor = console.cursor
        /\ console' = [cursor |-> console'.cursor, issuer |-> console'.issuer,
                       known |-> console'.known]
    BY <1>4 DEF RestartReplica, FeedInv
  <2>5. QED BY <2>1, <2>2, <2>3, <2>4 DEF FeedInv
<1>5. QED BY <1>1, <1>2, <1>3, <1>4 DEF FeedNext

\* What a poll with an own cursor answers.
LEMMA PollAnswers ==
    ASSUME FeedInv, NEW r \in Replicas, PollControlEvents(r), console.cursor > 0,
           NEW i \in DOMAIN taken[r], i > console.cursor
    PROVE  taken[r][i] \in console'.known
<1> DEFINE buffer == ring[r]
           h == head[r]
           oldest == h - Len(buffer) + 1
           events == {en.event : en \in {buffer[j] : j \in {k \in DOMAIN buffer :
                                            buffer[k].cursor > console.cursor}}}
<1>1. /\ i \in 1..h /\ h \in Nat /\ Len(buffer) \in Nat /\ Len(buffer) <= h
      /\ DOMAIN buffer = 1..Len(buffer) /\ taken[r][i] \in made
      /\ \A j \in 1..Len(buffer) :
            /\ buffer[j].cursor = h - Len(buffer) + j
            /\ buffer[j].event = taken[r][h - Len(buffer) + j]
  BY DEF FeedInv, RingInv
<1>2. buffer # <<>> /\ Len(buffer) >= 1
  BY <1>1 DEF FeedInv, RingInv
<1>3. buffer[1].cursor = oldest
  BY <1>1, <1>2
<1>4. CASE FellOff(console.cursor, buffer[1].cursor)
  BY <1>1, <1>2, <1>4 DEF PollControlEvents
<1>5. CASE ~FellOff(console.cursor, buffer[1].cursor)
  <2>1. console'.known = console.known \cup events
    BY <1>5 DEF PollControlEvents
  <2>2. i >= oldest
    BY <1>1, <1>3, <1>5 DEF FellOff, FeedInv
  <2> DEFINE j == i - (h - Len(buffer))
  <2>3. j \in 1..Len(buffer) /\ h - Len(buffer) + j = i
    BY <1>1, <2>2
  <2>4. buffer[j].cursor = i /\ buffer[j].event = taken[r][i]
    BY <1>1, <2>3
  <2>5. j \in {k \in DOMAIN buffer : buffer[k].cursor > console.cursor}
    BY <1>1, <2>3, <2>4
  <2>6. buffer[j].event \in events
    BY <2>5
  <2>7. QED BY <2>1, <2>4, <2>6
<1>6. QED BY <1>4, <1>5

\* control_buffer.py's reset: a console that polls the replica that issued its
\* cursor misses nothing silently, for rings of any size and any number of events.
THEOREM FeedIsHonest == Spec => PollMissesNothing
<1>1. Init => FeedInv
  BY DEF Init, FeedInit, FeedInv, RingInv
<1>2. FeedInv /\ [Next]_vars => FeedInv'
  <2> SUFFICES ASSUME FeedInv, [Next]_vars PROVE FeedInv'
    OBVIOUS
  <2>1. CASE FeedNext
    BY <2>1, FeedStep
  <2>2. CASE UNCHANGED feedVars
    BY <2>2, SameRing DEF FeedInv
  <2>3. QED BY <2>1, <2>2 DEF Next, vars
<1>3. FeedInv =>
         \A r \in Replicas :
            (PollControlEvents(r) /\ console.issuer = r /\ console.cursor > 0)
                => \A i \in DOMAIN taken[r] :
                       i > console.cursor => taken[r][i] \in console'.known
  BY PollAnswers
<1>4. QED BY <1>1, <1>2, <1>3, PTL DEF Spec, PollMissesNothing

-----------------------------------------------------------------------------
(* Pages of the feed of lineage events.                                    *)

\* A finite set of rows, each under a number of its own.
Numbered(of, top) ==
    /\ IsFiniteSet(of)
    /\ \A row \in of : row.seq \in 1..top
    /\ \A r1, r2 \in of : r1.seq = r2.seq => r1 = r2

Above(of, s) == {r \in of : r.seq > s}

LEMMA PartNumbered ==
    ASSUME NEW top, NEW of, Numbered(of, top), NEW part \in SUBSET of
    PROVE  Numbered(part, top)
BY FS_Subset DEF Numbered

\* A row left out of the newest is below all of them.
LEMMA LeftOutBelow ==
    ASSUME NEW top \in Nat, NEW of, Numbered(of, top), NEW n \in Nat,
           NEW out \in of, out \notin Newest(n, of), NEW row \in Newest(n, of)
    PROVE  out.seq < row.seq
<1>1. row \in of /\ row.seq \in Nat /\ out.seq \in Nat
  BY DEF Newest, Numbered
<1>2. /\ IsFiniteSet(Above(of, row.seq)) /\ IsFiniteSet(Above(of, out.seq))
      /\ Cardinality(Above(of, row.seq)) \in Nat /\ Cardinality(Above(of, out.seq)) \in Nat
  BY FS_Subset, FS_CardinalityType DEF Numbered, Above
<1>3. Cardinality(Above(of, row.seq)) < n /\ ~(Cardinality(Above(of, out.seq)) < n)
  BY DEF Newest, Above
<1>4. ASSUME row.seq <= out.seq PROVE FALSE
  <2>1. Above(of, out.seq) \subseteq Above(of, row.seq)
    BY <1>1, <1>4 DEF Above, Numbered
  <2>2. Cardinality(Above(of, out.seq)) <= Cardinality(Above(of, row.seq))
    BY <1>2, <2>1, FS_Subset
  <2>3. QED BY <1>2, <1>3, <2>2
<1>5. QED BY <1>1, <1>4

\* The highest and the lowest row of a set.
LEMMA Extremes ==
    ASSUME NEW top \in Nat, NEW of, Numbered(of, top), of # {}
    PROVE  /\ \E high \in of : \A row \in of : row.seq <= high.seq
           /\ \E low \in of : Lowest(of) = low.seq /\ \A row \in of : low.seq <= row.seq
<1>1. \A row \in of : row.seq \in Nat /\ row.seq <= top /\ row.seq >= 1
  BY DEF Numbered
<1>2. \E high \in of : \A row \in of : row.seq <= high.seq
  <2> DEFINE Gaps == {top - row.seq : row \in of}
  <2>1. Gaps \in SUBSET Nat /\ Gaps # {}
    BY <1>1
  <2>2. PICK gap \in Gaps : \A g \in Gaps : gap <= g
    BY <2>1, LeastIn
  <2>3. PICK high \in of : gap = top - high.seq
    BY <2>2
  <2>4. ASSUME NEW row \in of PROVE row.seq <= high.seq
    <3>1. top - high.seq <= top - row.seq
      BY <2>2, <2>3
    <3>2. QED BY <1>1, <3>1
  <2>5. QED BY <2>4
<1>3. \E low \in of : Lowest(of) = low.seq /\ \A row \in of : low.seq <= row.seq
  <2> DEFINE Seqs == {row.seq : row \in of}
  <2>1. Seqs \in SUBSET Nat /\ Seqs # {}
    BY <1>1
  <2>2. Min(Seqs) \in Seqs /\ \A s \in Seqs : Min(Seqs) <= s
    BY <2>1, MinIn
  <2>3. Lowest(of) = Min(Seqs)
    BY DEF Lowest
  <2>4. PICK low \in of : Min(Seqs) = low.seq
    BY <2>2
  <2>5. QED BY <2>2, <2>3, <2>4
<1>4. QED BY <1>2, <1>3

\* Nothing is left out unless there are n newer ones.
LEMMA LeftOutFull ==
    ASSUME NEW top \in Nat, NEW of, Numbered(of, top), NEW n \in Nat,
           NEW out \in of, out \notin Newest(n, of)
    PROVE  Cardinality(Newest(n, of)) >= n
<1> DEFINE Rest == of \ Newest(n, of)
<1>1. PICK high \in Rest : \A row \in Rest : row.seq <= high.seq
  <2>1. Numbered(Rest, top) /\ Rest # {}
    BY PartNumbered
  <2>2. QED BY <2>1, Extremes
<1>2. Above(of, high.seq) \subseteq Newest(n, of)
  <2>1. ASSUME NEW row \in Above(of, high.seq), row \notin Newest(n, of) PROVE FALSE
    <3>1. row \in Rest /\ row.seq > high.seq /\ row.seq \in Nat /\ high.seq \in Nat
      BY <2>1 DEF Above, Numbered
    <3>2. QED BY <1>1, <3>1
  <2>2. QED BY <2>1
<1>3. ~(Cardinality(Above(of, high.seq)) < n)
  BY DEF Newest, Above
<1>4. IsFiniteSet(Newest(n, of)) /\ IsFiniteSet(of)
  BY FS_Subset DEF Newest, Numbered
<1>5. /\ Cardinality(Newest(n, of)) \in Nat /\ Cardinality(Above(of, high.seq)) \in Nat
      /\ Cardinality(Above(of, high.seq)) <= Cardinality(Newest(n, of))
  BY <1>2, <1>4, FS_Subset, FS_CardinalityType
<1>6. QED BY <1>3, <1>5

\* The newest n are no more than n.
LEMMA NewestFew ==
    ASSUME NEW top \in Nat, NEW of, Numbered(of, top), NEW n \in Nat
    PROVE  Cardinality(Newest(n, of)) \in Nat /\ Cardinality(Newest(n, of)) <= n
<1> DEFINE new == Newest(n, of)
<1>1. IsFiniteSet(new) /\ Cardinality(new) \in Nat /\ Numbered(new, top) /\ new \subseteq of
  BY PartNumbered, FS_Subset, FS_CardinalityType DEF Newest, Numbered
<1>2. CASE new = {}
  BY <1>2, FS_EmptySet
<1>3. CASE new # {}
  <2>1. PICK low \in new : \A row \in new : low.seq <= row.seq
    BY <1>1, <1>3, Extremes
  <2>2. new \ {low} \subseteq Above(of, low.seq)
    <3>1. ASSUME NEW row \in new, row # low PROVE row \in of /\ row.seq > low.seq
      <4>1. row.seq \in Nat /\ low.seq \in Nat /\ row.seq # low.seq /\ row \in of
        BY <1>1, <3>1 DEF Numbered
      <4>2. QED BY <2>1, <3>1, <4>1
    <3>2. QED BY <3>1 DEF Above
  <2>3. Cardinality(Above(of, low.seq)) < n /\ low \in of
    BY DEF Newest, Above
  <2>4. IsFiniteSet(Above(of, low.seq)) /\ Cardinality(Above(of, low.seq)) \in Nat
    BY FS_Subset, FS_CardinalityType DEF Above, Numbered
  <2>5. Cardinality(new \ {low}) = Cardinality(new) - 1
    BY <1>1, FS_RemoveElement
  <2>6. Cardinality(new \ {low}) <= Cardinality(Above(of, low.seq))
    BY <2>2, <2>4, FS_Subset
  <2>7. QED BY <1>1, <2>3, <2>4, <2>5, <2>6
<1>4. QED BY <1>2, <1>3

\* Every row the reader has yet to be shown is there, may be seen, and is below
\* the cursor; when the walk is over there is none.
FeedPagesInv ==
    /\ lastSeq \in Nat
    /\ Numbered(rows, lastSeq)
    /\ {"on", "over", "after", "due"} \subseteq DOMAIN walk
    /\ walk.after \in Nat
    /\ \A s \in walk.due :
          /\ \E row \in rows : row.seq = s /\ Visible(row)
          /\ s < walk.after
    /\ walk.over => walk.due = {}

\* What the cursor of a page leaves behind.
LEMMA CursorSkipsNothing ==
    ASSUME FeedPagesInv, walk.on, ~walk.over
    PROVE  /\ NextCursor \in Nat
           /\ \A row \in rows : (Visible(row) /\ row.seq < walk.after /\ row \notin Returned)
                                    => row.seq < NextCursor
<1> DEFINE n == IF governed THEN Fetch ELSE Limit
           S == {row \in rows : row.seq < walk.after}
           V == {row \in Window : Visible(row)}
<1>1. n \in Nat \ {0} /\ Limit \in Nat \ {0} /\ lastSeq \in Nat
  BY PagesAssumption DEF FeedPagesInv
<1>2. Numbered(S, lastSeq) /\ Window = Newest(n, S) /\ Window \subseteq S /\ S \subseteq rows
  BY PartNumbered DEF FeedPagesInv, Window, Newest
<1>3. Numbered(Window, lastSeq) /\ Numbered(V, lastSeq) /\ Numbered(Returned, lastSeq)
      /\ Returned = Newest(Limit, V) /\ Returned \subseteq Window
  <2>1. Numbered(Window, lastSeq) /\ Numbered(V, lastSeq)
    BY <1>2, PartNumbered
  <2>2. Returned = Newest(Limit, V) /\ Returned \subseteq V
    BY DEF Returned, Newest
  <2>3. QED BY <2>1, <2>2, PartNumbered
<1> HIDE DEF n, S, V
<1>4. /\ Cardinality(Window) \in Nat /\ Cardinality(Window) <= n
      /\ Cardinality(Returned) \in Nat /\ Cardinality(Returned) <= Limit
  BY <1>1, <1>2, <1>3, NewestFew
<1>5. ASSUME NEW row \in S, row \notin Window
      PROVE  Cardinality(Window) = n /\ \A q \in Window : row.seq < q.seq
  BY <1>1, <1>2, <1>4, <1>5, LeftOutBelow, LeftOutFull
<1>6. ASSUME NEW row \in V, row \notin Returned
      PROVE  Cardinality(Returned) = Limit /\ \A q \in Returned : row.seq < q.seq
  BY <1>1, <1>3, <1>4, <1>6, LeftOutBelow, LeftOutFull
<1>7. ASSUME NEW of \in {Returned, Window}, Cardinality(of) # 0
      PROVE  /\ Lowest(of) \in Nat \ {0}
             /\ \E low \in of : Lowest(of) = low.seq
  <2>1. Numbered(of, lastSeq) /\ of # {}
    BY <1>3, <1>7, FS_EmptySet
  <2>2. PICK low \in of : Lowest(of) = low.seq
    BY <1>1, <2>1, Extremes
  <2>3. QED BY <2>1, <2>2 DEF Numbered
<1>8. CASE Cardinality(Returned) = Limit
  <2>1. NextCursor = Lowest(Returned)
    BY <1>4, <1>8 DEF NextCursor
  <2>2. PICK low \in Returned : Lowest(Returned) = low.seq
    BY <1>1, <1>7, <1>8
  <2>3. ASSUME NEW row \in rows, Visible(row), row.seq < walk.after, row \notin Returned
        PROVE  row.seq < low.seq
    BY <1>3, <1>5, <1>6, <2>3 DEF S, V
  <2>4. QED BY <1>1, <1>7, <1>8, <2>1, <2>2, <2>3
<1>9. CASE Cardinality(Returned) # Limit /\ Cardinality(Window) = n
  <2>1. NextCursor = Lowest(Window)
    BY <1>1, <1>4, <1>9 DEF NextCursor, n
  <2>2. PICK low \in Window : Lowest(Window) = low.seq
    BY <1>1, <1>7, <1>9
  <2>3. ASSUME NEW row \in rows, Visible(row), row.seq < walk.after, row \notin Returned
        PROVE  row.seq < low.seq
    BY <1>5, <1>6, <1>9, <2>3 DEF S, V
  <2>4. QED BY <1>1, <1>7, <1>9, <2>1, <2>2, <2>3
<1>10. CASE Cardinality(Returned) # Limit /\ Cardinality(Window) # n
  <2>1. NextCursor = 0
    BY <1>10 DEF NextCursor, n
  <2>2. \A row \in rows : Visible(row) /\ row.seq < walk.after => row \in Returned
    BY <1>5, <1>6, <1>10 DEF S, V
  <2>3. QED BY <2>1, <2>2
<1>11. QED BY <1>8, <1>9, <1>10

LEMMA RecordStep ==
    ASSUME FeedPagesInv, NEW event \in mail, RecordEvent(event)
    PROVE  FeedPagesInv'
<1> DEFINE row == [seq |-> lastSeq + 1, run |-> event.run, type |-> event.type,
                   time |-> event.time, refs |-> event.refs]
<1>1. lastSeq' = lastSeq + 1 /\ lastSeq \in Nat /\ UNCHANGED <<governed, seen>>
  BY DEF RecordEvent, FeedPagesInv
<1>2. rows' \subseteq rows \cup {row}
  BY DEF RecordEvent, Pruned
<1>3. Numbered(rows \cup {row}, lastSeq + 1)
  <2>1. IsFiniteSet(rows \cup {row})
    BY FS_AddElement DEF FeedPagesInv, Numbered
  <2>2. \A r \in rows : r.seq \in 1..lastSeq
    BY DEF FeedPagesInv, Numbered
  <2>3. QED BY <1>1, <2>1, <2>2 DEF FeedPagesInv, Numbered
<1>4. Numbered(rows, lastSeq)'
  BY <1>1, <1>2, <1>3, PartNumbered
<1>5. /\ walk'.on = walk.on /\ walk'.over = walk.over /\ walk'.after = walk.after
      /\ walk'.due = Due(rows', walk.due)
      /\ {"on", "over", "after", "due"} \subseteq DOMAIN walk'
  BY DEF RecordEvent, FeedPagesInv
<1>6. ASSUME NEW s \in walk'.due
      PROVE  s < walk.after /\ \E r \in rows' : r.seq = s /\ Visible(r)'
  <2>1. s \in walk.due /\ \E r \in rows' : r.seq = s
    BY <1>5 DEF Due
  <2>2. PICK q \in rows : q.seq = s /\ Visible(q)
    BY <2>1 DEF FeedPagesInv
  <2>3. PICK r \in rows' : r.seq = s
    BY <2>1
  <2>4. r = q
    BY <1>2, <1>3, <2>2, <2>3 DEF Numbered
  <2>5. QED BY <1>1, <2>1, <2>2, <2>3, <2>4 DEF FeedPagesInv, Visible, BatchCheck
<1>7. QED BY <1>1, <1>4, <1>5, <1>6 DEF FeedPagesInv, Due

LEMMA FeedPagesStep == ASSUME FeedPagesInv, FeedPagesNext PROVE FeedPagesInv'
<1>1. ASSUME UNCHANGED <<rows, lastSeq, governed, seen, walk>> PROVE FeedPagesInv'
  BY <1>1 DEF FeedPagesInv, Numbered, Visible, BatchCheck
<1>2. CASE (\E type \in {"COMPLETE", "RUNNING"} : Report(type)) \/ EmitSweepLineage
  BY <1>1, <1>2 DEF Report, EmitSweepLineage
<1>3. ASSUME NEW event \in mail, RecordEvent(event) PROVE FeedPagesInv'
  BY <1>3, RecordStep
<1>4. CASE StartWalk
  <2>1. /\ walk' = [on |-> TRUE, over |-> FALSE, after |-> lastSeq + 1,
                    due |-> {row.seq : row \in {r \in rows : Visible(r)}}]
        /\ UNCHANGED <<rows, lastSeq, governed, seen>>
    BY <1>4 DEF StartWalk
  <2>2. \A row \in rows : row.seq < lastSeq + 1 /\ lastSeq \in Nat
    BY DEF FeedPagesInv, Numbered
  <2>3. QED BY <2>1, <2>2 DEF FeedPagesInv, Numbered, Visible, BatchCheck
<1>5. CASE GetEvents
  <2>1. /\ walk.on /\ ~walk.over
        /\ walk'.due = walk.due \ {row.seq : row \in Returned}
        /\ walk'.after = NextCursor /\ walk'.over = (NextCursor = 0)
        /\ {"on", "over", "after", "due"} \subseteq DOMAIN walk'
        /\ UNCHANGED <<rows, lastSeq, governed, seen>>
    BY <1>5 DEF GetEvents, FeedPagesInv
  <2>2. ASSUME NEW s \in walk'.due
        PROVE  s < NextCursor /\ \E row \in rows : row.seq = s /\ Visible(row)
    <3>1. PICK row \in rows : row.seq = s /\ Visible(row)
      BY <2>1 DEF FeedPagesInv
    <3>2. row \notin Returned /\ s < walk.after
      BY <2>1, <3>1 DEF FeedPagesInv
    <3>3. QED BY <2>1, <3>1, <3>2, CursorSkipsNothing
  <2>3. walk'.over => walk'.due = {}
    <3>1. \A s \in walk'.due : s \in Nat
      BY <2>2 DEF FeedPagesInv, Numbered
    <3>2. walk'.over => NextCursor = 0
      BY <2>1
    <3>3. ASSUME NextCursor = 0, NEW s \in walk'.due PROVE FALSE
      BY <2>2, <3>1, <3>3
    <3>4. QED BY <3>2, <3>3
  <2>4. NextCursor \in Nat
    BY <2>1, CursorSkipsNothing
  <2>5. QED BY <2>1, <2>2, <2>3, <2>4 DEF FeedPagesInv, Numbered, Visible, BatchCheck
<1>6. ASSUME NEW d \in Datasets, ChangeGrant(d) PROVE FeedPagesInv'
  <2>1. /\ walk'.over = walk.over /\ walk'.after = walk.after
        /\ walk'.due = {s \in walk.due : \E row \in rows :
                           row.seq = s /\ (governed => row.refs \subseteq seen')}
        /\ {"on", "over", "after", "due"} \subseteq DOMAIN walk'
        /\ UNCHANGED <<rows, lastSeq, governed>>
    BY <1>6 DEF ChangeGrant, FeedPagesInv
  <2>2. ASSUME NEW s \in walk'.due
        PROVE  s < walk.after /\ \E row \in rows : row.seq = s /\ Visible(row)'
    <3>1. PICK row \in rows : row.seq = s /\ (governed => row.refs \subseteq seen')
      BY <2>1
    <3>2. s < walk.after /\ \E q \in rows : q.seq = s /\ Visible(q)
      BY <2>1 DEF FeedPagesInv
    <3>3. Visible(row)
      BY <3>1, <3>2 DEF FeedPagesInv, Numbered
    <3>4. QED BY <2>1, <3>1, <3>2, <3>3 DEF Visible, BatchCheck
  <2>3. QED BY <2>1, <2>2 DEF FeedPagesInv, Numbered
<1>7. QED BY <1>2, <1>3, <1>4, <1>5, <1>6 DEF FeedPagesNext

\* runs.py's cursor: a reader who pages to the end is shown every row that it might
\* see all along and that is still kept, for pages and windows of any size.
THEOREM PagesSkipNothing == Spec => []PagingSkipsNothing
<1>1. Init => FeedPagesInv
  BY FS_EmptySet DEF Init, FeedPagesInit, FeedPagesInv, Numbered, NoWalk
<1>2. FeedPagesInv /\ [Next]_vars => FeedPagesInv'
  <2> SUFFICES ASSUME FeedPagesInv, [Next]_vars PROVE FeedPagesInv'
    OBVIOUS
  <2>1. CASE FeedPagesNext
    BY <2>1, FeedPagesStep
  <2>2. CASE UNCHANGED feedPageVars
    BY <2>2 DEF FeedPagesInv, Numbered, Visible, BatchCheck
  <2>3. QED BY <2>1, <2>2 DEF Next, vars
<1>3. FeedPagesInv => PagingSkipsNothing
  BY DEF FeedPagesInv, PagingSkipsNothing
<1>4. QED BY <1>1, <1>2, <1>3, PTL DEF Spec

-----------------------------------------------------------------------------
(* A person's saved views.                                                 *)

\* A page that was answered by the catalog was told of every view in the record.
PageOk(g) ==
    /\ {"asked", "ready", "answer", "unseen", "views"} \subseteq DOMAIN g
    /\ g.answer.from = "catalog" => g.unseen = {}

UserInv ==
    /\ DOMAIN pages = Pages
    /\ \A p \in Pages : PageOk(pages[p])
    /\ \A put \in puts : put.from = "catalog" => put.unseen = {}

\* What the page's own steps leave of what it read.
LEMMA OtherFields ==
    ASSUME NEW g, PageOk(g), NEW ready, NEW views
    PROVE  PageOk([g EXCEPT !.ready = ready, !.views = views]) /\ PageOk([g EXCEPT !.views = views])
BY DEF PageOk

\* One page changes.
LEMMA OnePage ==
    ASSUME UserInv, NEW p \in Pages, NEW g, PageOk(g), pages' = [pages EXCEPT ![p] = g],
           \A put \in puts' : put.from = "catalog" => put.unseen = {}
    PROVE  UserInv'
BY DEF UserInv, PageOk

LEMMA SamePages ==
    ASSUME UserInv, UNCHANGED pages,
           \A put \in puts' : put.from = "catalog" => put.unseen = {}
    PROVE  UserInv'
BY DEF UserInv, PageOk

\* An answer of the catalog's own names every view of the record.
LEMMA FetchedTellsAll == Fetched.from = "catalog" => stored.views \ Fetched.views = {}
<1>1. CASE stored = NoRecord
  BY <1>1 DEF Fetched, Absent, NoRecord
<1>2. CASE stored # NoRecord /\ Fits(stored)
  BY <1>2 DEF Fetched, Ok
<1>3. CASE stored # NoRecord /\ ~Fits(stored)
  BY <1>3 DEF Fetched, CannotRead
<1>4. QED BY <1>1, <1>2, <1>3

LEMMA AskStep ==
    ASSUME UserInv, NEW p \in Pages, NEW answer, Ask(p, answer),
           answer.from = "catalog" => stored.views \ answer.views = {}
    PROVE  UserInv'
<1>1. PICK g : g = [pages[p] EXCEPT !.asked = TRUE, !.answer = answer,
                                    !.unseen = stored.views \ answer.views]
  OBVIOUS
<1>2. PageOk(pages[p]) /\ p \in DOMAIN pages
  BY DEF UserInv
<1>3. pages' = [pages EXCEPT ![p] = g]
  BY <1>1, <1>2 DEF Ask
<1>4. PageOk(g)
  BY <1>1, <1>2 DEF PageOk
<1>5. UNCHANGED puts
  BY DEF Ask
<1>6. QED BY <1>3, <1>4, <1>5, OnePage DEF UserInv

LEMMA UserStep == ASSUME UserInv, UserNext PROVE UserInv'
<1>1. ASSUME NEW p \in Pages, ReadUserState(p) PROVE UserInv'
  BY <1>1, AskStep, FetchedTellsAll DEF ReadUserState
<1>2. ASSUME NEW p \in Pages, ReadFails(p) PROVE UserInv'
  <2>1. PICK answer : Ask(p, answer) /\ answer.from # "catalog"
    BY <1>2 DEF ReadFails, Mirrored, CannotRead, Absent, Ok
  <2>2. QED BY <2>1, AskStep
<1>3. ASSUME NEW p \in Pages, Settle(p) PROVE UserInv'
  <2>1. PICK g : g = [pages[p] EXCEPT !.ready = TRUE, !.views = pages[p].answer.views]
    OBVIOUS
  <2>2. PageOk(pages[p]) /\ p \in DOMAIN pages
    BY DEF UserInv
  <2>3. pages' = [pages EXCEPT ![p] = g] /\ UNCHANGED puts
    BY <1>3, <2>1, <2>2 DEF Settle
  <2>4. PageOk(g)
    BY <2>1, <2>2, OtherFields
  <2>5. QED BY <2>3, <2>4, OnePage DEF UserInv
<1>4. ASSUME NEW p \in Pages, NEW views, Save(p, views) PROVE UserInv'
  <2>1. PICK g : g = [pages[p] EXCEPT !.views = views]
    OBVIOUS
  <2>2. PageOk(pages[p]) /\ p \in DOMAIN pages
    BY DEF UserInv
  <2>3. pages' = [pages EXCEPT ![p] = g]
    BY <1>4, <2>1, <2>2 DEF Save
  <2>4. PageOk(g)
    BY <2>1, <2>2, OtherFields
  <2>5. \A put \in puts' : put.from = "catalog" => put.unseen = {}
    BY <1>4, <2>2 DEF Save, UserInv, PageOk
  <2>6. QED BY <2>3, <2>4, <2>5, OnePage
<1>5. ASSUME NEW p \in Pages, Reload(p) PROVE UserInv'
  <2>1. PICK g : g = Fresh
    OBVIOUS
  <2>2. PageOk(g)
    BY <2>1 DEF PageOk, Fresh, CannotRead
  <2>3. QED BY <1>5, <2>1, <2>2, OnePage DEF Reload, UserInv
<1>6. ASSUME NEW put \in puts, PutLands(put) \/ PutFails(put) PROVE UserInv'
  BY <1>6, SamePages DEF PutLands, PutFails, UserInv
<1>7. CASE Erase \/ Deploy \/ Recover
  BY <1>7, SamePages DEF Erase, Deploy, Recover, UserInv
<1>8. QED BY <1>1, <1>2, <1>3, <1>4, <1>5, <1>6, <1>7 DEF UserNext

\* user_state.py's 409 and user-state.ts's `ready`: for any numbers of pages and
\* saves, a save of a page that read the record loses no view the page was not shown.
THEOREM NoSaveOverTheUnseen == Spec => NothingUnseenLost
<1>1. Init => UserInv
  BY DEF Init, UserInit, UserInv, PageOk, Fresh, CannotRead
<1>2. UserInv /\ [Next]_vars => UserInv'
  <2> SUFFICES ASSUME UserInv, [Next]_vars PROVE UserInv'
    OBVIOUS
  <2>1. CASE UserNext
    BY <2>1, UserStep
  <2>2. CASE UNCHANGED userVars
    BY <2>2, SamePages DEF UserInv
  <2>3. QED BY <2>1, <2>2 DEF Next, vars
<1>3. UserInv => \A put \in puts \ puts' :
          put.from = "catalog" => (stored.views \ stored'.views) \cap put.unseen = {}
  BY DEF UserInv
<1>4. QED BY <1>1, <1>2, <1>3, PTL DEF Spec, NothingUnseenLost

-----------------------------------------------------------------------------
(* Results of searches.                                                    *)

\* RemoveKey takes nothing but entries away.
LEMMA KeyRemoved ==
    ASSUME NEW S, cached \in Seq(S), NEW key
    PROVE  RemoveKey(key) \in Seq(S)
<1> DEFINE I == {i \in 1..Len(cached) : cached[i].key = key}
<1>1. CASE \E i \in 1..Len(cached) : cached[i].key = key
  <2>1. I # {} /\ I \in SUBSET Nat
    BY <1>1
  <2>2. Min(I) \in 1..Len(cached)
    BY <2>1, MinIn
  <2>3. RemoveKey(key) = RemoveAt(cached, Min(I))
    BY <1>1, <2>1 DEF RemoveKey, RemoveFirstMatch, SelectInSeq
  <2>4. QED BY <2>2, <2>3, WithoutOne
<1>2. CASE ~ \E i \in 1..Len(cached) : cached[i].key = key
  BY <1>2 DEF RemoveKey, RemoveFirstMatch
<1>3. QED BY <1>1, <1>2

Versions == [SearchTables -> Nat]
Keys == [query : Modes, versions : Versions]

\* An answer of key k holds nothing older than the key's versions.
NotOlderThan(k, hits) ==
    \A t \in SearchTables : hits[t] = Unreadable \/ hits[t] >= k.versions[t]
Results == {e \in [key : Keys, hits : Versions] : NotOlderThan(e.key, e.hits)}

\* The versions of a key were the present ones, or older, when they were read;
\* the row table was opened after.
Askable(s) ==
    \/ s = Quiet
    \/ s \in [at : {"key"}, key : Keys, left : SUBSET SearchTables]
    \/ s \in [at : {"run"}, key : Keys, opened : Nat] /\ s.opened >= s.key.versions[RowTable]
    \/ /\ s \in [at : {"hit", "putback", "store", "keep"}, key : Keys, hits : Versions]
       /\ NotOlderThan(s.key, s.hits)

SearchOk(s) ==
    /\ Askable(s)
    /\ s.at \in {"key", "run"} => \A t \in SearchTables : s.key.versions[t] <= version[t]

SearchInv ==
    /\ version \in Versions
    /\ cached \in Seq(Results)
    /\ DOMAIN search = Threads
    /\ \A c \in Threads : SearchOk(search[c])

\* One search moves on.
LEMMA OneSearch ==
    ASSUME SearchInv, NEW c \in Threads, NEW s, Askable(s), UNCHANGED version,
           s.at \in {"key", "run"} => \A t \in SearchTables : s.key.versions[t] <= version[t],
           search' = [search EXCEPT ![c] = s], cached' \in Seq(Results)
    PROVE  SearchInv'
BY DEF SearchInv, SearchOk

LEMMA WriteTableStep ==
    ASSUME SearchInv, NEW t \in SearchTables, WriteTable(t)
    PROVE  SearchInv'
<1>1. version' \in Versions /\ \A u \in SearchTables : version[u] <= version'[u]
  BY DEF WriteTable, SearchInv, Versions
<1>2. ASSUME NEW c \in Threads PROVE SearchOk(search[c])'
  <2>1. Askable(search[c]) /\ UNCHANGED search
    BY DEF WriteTable, SearchInv, SearchOk
  <2>2. CASE search[c].at \in {"key", "run"}
    <3>1. search[c].key.versions \in Versions
      BY <2>1, <2>2 DEF Askable, Quiet, Keys
    <3>2. \A u \in SearchTables : search[c].key.versions[u] <= version[u]
      BY <2>2 DEF SearchInv, SearchOk
    <3>3. \A u \in SearchTables : search[c].key.versions[u] <= version'[u]
      BY <1>1, <3>1, <3>2 DEF Versions, SearchInv
    <3>4. QED BY <2>1, <3>3 DEF SearchOk, Askable
  <2>3. CASE search[c].at \notin {"key", "run"}
    BY <2>1, <2>3 DEF SearchOk, Askable
  <2>4. QED BY <2>2, <2>3
<1>3. QED BY <1>1, <1>2 DEF WriteTable, SearchInv

LEMMA AskSteps ==
    ASSUME SearchInv, NEW c \in Threads
    PROVE  /\ \A query \in Modes : Search(c, query) => SearchInv'
           /\ VersionSignature(c) => SearchInv'
           /\ Lookup(c) => SearchInv'
<1>1. ASSUME NEW query \in Modes, Search(c, query) PROVE SearchInv'
  <2>1. PICK s : s = [at |-> "key", key |-> [query |-> query, versions |-> Unasked],
                      left |-> SearchTables]
    OBVIOUS
  <2>2. Askable(s) /\ \A t \in SearchTables : s.key.versions[t] <= version[t]
    BY <2>1 DEF Askable, Keys, Versions, Unasked, Unreadable, SearchInv
  <2>3. QED BY <1>1, <2>1, <2>2, OneSearch DEF Search, Move, SearchInv
<1>2. ASSUME VersionSignature(c) PROVE SearchInv'
  <2>1. PICK r : r = search[c]
    OBVIOUS
  <2>2. /\ r \in [at : {"key"}, key : Keys, left : SUBSET SearchTables]
        /\ \A t \in SearchTables : r.key.versions[t] <= version[t]
    BY <1>2, <2>1 DEF VersionSignature, Ran, SearchInv, SearchOk, Askable, Quiet
  <2>3. PICK t \in SearchTables : \E v \in {Unreadable, version[t]} :
             Move(c, [r EXCEPT !.key.versions[t] = v, !.left = @ \ {t}])
    <3>1. r.left # {} /\ r.left \subseteq SearchTables
      BY <1>2, <2>1, <2>2 DEF VersionSignature
    <3>2. (CHOOSE u \in r.left : TRUE) \in SearchTables
      BY <3>1
    <3>3. QED BY <1>2, <2>1, <3>2 DEF VersionSignature
  <2>11. PICK v \in {Unreadable, version[t]} :
             Move(c, [r EXCEPT !.key.versions[t] = v, !.left = @ \ {t}])
    BY <2>3
  <2>4. PICK s : s = [r EXCEPT !.key.versions[t] = v, !.left = @ \ {t}]
    OBVIOUS
  <2>5. v \in Nat /\ v <= version[t]
    BY DEF SearchInv, Versions, Unreadable
  <2>6. /\ s.at = "key" /\ s.left = r.left \ {t} /\ s.key.query = r.key.query
        /\ s.key.versions = [r.key.versions EXCEPT ![t] = v]
        /\ s = [at |-> s.at, key |-> s.key, left |-> s.left]
        /\ s.key = [query |-> s.key.query, versions |-> s.key.versions]
    BY <2>2, <2>4 DEF Keys
  <2>7. s.key.versions \in Versions
    BY <2>2, <2>5, <2>6 DEF Keys, Versions
  <2>8. Askable(s)
    BY <2>2, <2>6, <2>7 DEF Askable, Keys
  <2>9. \A u \in SearchTables : s.key.versions[u] <= version[u]
    BY <2>2, <2>5, <2>6 DEF Keys, Versions
  <2>10. QED BY <1>2, <2>11, <2>4, <2>8, <2>9, OneSearch DEF VersionSignature, Move, SearchInv
<1>3. ASSUME Lookup(c) PROVE SearchInv'
  <2>1. PICK r : r = search[c]
    OBVIOUS
  <2>2. /\ r \in [at : {"key"}, key : Keys, left : SUBSET SearchTables]
        /\ \A t \in SearchTables : r.key.versions[t] <= version[t]
    BY <1>3, <2>1 DEF Lookup, Ran, SearchInv, SearchOk, Askable, Quiet
  <2>3. CASE ResolveTarget(c)
    <3>1. PICK s : s = [at |-> "run", key |-> r.key, opened |-> version[RowTable]]
      OBVIOUS
    <3>2. RowTable \in SearchTables
      BY DEF SearchTables
    <3>3. Askable(s)
      BY <2>2, <3>1, <3>2 DEF Askable, SearchInv, Versions
    <3>4. QED BY <1>3, <2>1, <2>2, <2>3, <3>1, <3>3, OneSearch DEF Lookup, ResolveTarget, Move, SearchInv
  <2>4. ASSUME NEW i \in Entries(r.key), Move(c, [at |-> "hit", key |-> r.key, hits |-> cached[i].hits])
        PROVE  SearchInv'
    <3>1. PICK s : s = [at |-> "hit", key |-> r.key, hits |-> cached[i].hits]
      OBVIOUS
    <3>2. cached[i] \in Results /\ cached[i].key = r.key
      BY <2>4, ElementOfSeq DEF Entries, SearchInv
    <3>3. Askable(s)
      BY <2>2, <3>1, <3>2 DEF Askable, Results
    <3>4. QED BY <1>3, <2>4, <3>1, <3>3, OneSearch DEF Lookup, Move, SearchInv
  <2>5. QED BY <1>3, <2>1, <2>3, <2>4 DEF Lookup
<1>4. QED BY <1>1, <1>2, <1>3

LEMMA RunStep == ASSUME SearchInv, NEW c \in Threads, RunSearch(c) PROVE SearchInv'
<1>1. PICK r : r = search[c]
  OBVIOUS
<1>2. /\ r \in [at : {"run"}, key : Keys, opened : Nat]
      /\ \A t \in SearchTables : r.key.versions[t] <= version[t]
      /\ r.opened >= r.key.versions[RowTable]
  BY <1>1 DEF RunSearch, Ran, SearchInv, SearchOk, Askable, Quiet
<1>3. PICK read : Move(c, [at |-> "store", key |-> r.key,
                   hits |-> [t \in SearchTables |->
                                IF t \notin read THEN Unreadable
                                ELSE IF t = RowTable THEN r.opened
                                ELSE version[t]]])
  BY <1>1 DEF RunSearch
<1>4. PICK hits : hits = [t \in SearchTables |-> IF t \notin read THEN Unreadable
                                             ELSE IF t = RowTable THEN r.opened
                                             ELSE version[t]]
  OBVIOUS
<1>5. ASSUME NEW t \in SearchTables
      PROVE  hits[t] \in Nat /\ (hits[t] = Unreadable \/ hits[t] >= r.key.versions[t])
  <2>1. version[t] \in Nat
    BY DEF SearchInv, Versions
  <2>2. CASE t \notin read
    <3>1. hits[t] = Unreadable
      BY <1>4, <2>2
    <3>2. QED BY <3>1 DEF Unreadable
  <2>3. CASE t \in read /\ t = RowTable
    <3>1. hits[t] = r.opened
      BY <1>4, <2>3
    <3>3. hits[t] \in Nat /\ hits[t] >= r.key.versions[RowTable]
      BY <1>2, <3>1
    <3>2. QED BY <2>3, <3>3
  <2>4. CASE t \in read /\ t # RowTable
    <3>1. hits[t] = version[t] /\ r.key.versions[t] \in Nat
      BY <1>2, <1>4, <2>4 DEF Keys, Versions
    <3>2. QED BY <1>2, <2>1, <3>1
  <2>5. QED BY <2>2, <2>3, <2>4
<1>6. hits \in Versions
  BY <1>4, <1>5 DEF Versions
<1>7. PICK s : s = [at |-> "store", key |-> r.key, hits |-> hits]
  OBVIOUS
<1>8. Askable(s)
  BY <1>2, <1>5, <1>6, <1>7 DEF Askable, NotOlderThan
<1>9. QED BY <1>3, <1>4, <1>7, <1>8, OneSearch DEF RunSearch, Move, SearchInv

LEMMA CacheSteps ==
    ASSUME SearchInv, NEW c \in Threads
    PROVE  /\ TakeOut(c) \/ PutBack(c) => SearchInv'
           /\ EvictOldest(c) \/ Checked(c) \/ Keep(c) \/ FailSearch(c) => SearchInv'
<1> DEFINE r == search[c]
<1>0. /\ r.at \in {"hit", "putback", "store", "keep"} =>
            /\ r \in [at : {"hit", "putback", "store", "keep"}, key : Keys, hits : Versions]
            /\ NotOlderThan(r.key, r.hits)
      /\ cached \in Seq(Results)
      /\ Askable(Quiet) /\ Quiet.at = "idle"
  BY DEF SearchInv, SearchOk, Askable, Quiet
<1>1. r.at \in {"hit", "putback", "store", "keep"} => [key |-> r.key, hits |-> r.hits] \in Results
  BY <1>0 DEF Results
<1>2. ASSUME r.at \in {"hit", "store"}, NEW step \in {"putback", "keep"}, With(c, step),
             cached' \in Seq(Results), UNCHANGED version
      PROVE  SearchInv'
  <2>1. PICK s : s = [r EXCEPT !.at = step]
    OBVIOUS
  <2>2. s.at = step /\ Askable(s)
    BY <1>0, <1>2, <2>1 DEF Askable
  <2>3. QED BY <1>2, <2>1, <2>2, OneSearch DEF With, Move
<1>3. ASSUME Move(c, Quiet), cached' \in Seq(Results), UNCHANGED version PROVE SearchInv'
  BY <1>0, <1>3, OneSearch DEF Move
<1>4. CASE TakeOut(c)
  BY <1>0, <1>2, <1>4, KeyRemoved DEF TakeOut, Ran
<1>5. CASE PutBack(c)
  <2>1. RemoveKey(r.key) \in Seq(Results)
    BY <1>0, KeyRemoved
  <2>2. [key |-> r.key, hits |-> r.hits] \in Results
    BY <1>1, <1>5 DEF PutBack, Ran
  <2>3. Append(RemoveKey(r.key), [key |-> r.key, hits |-> r.hits]) \in Seq(Results)
    BY <2>1, <2>2, AppendProperties
  <2>4. QED BY <1>3, <1>5, <2>3 DEF PutBack
<1>6. CASE EvictOldest(c)
  <2>1. cached # <<>>
    BY <1>6, SearchAssumption DEF EvictOldest, Full
  <2>2. Tail(cached) \in Seq(Results)
    BY <1>0, <2>1, HeadTailProperties
  <2>3. QED BY <1>6, <2>2 DEF EvictOldest, SearchInv, SearchOk
<1>7. CASE Checked(c)
  BY <1>0, <1>2, <1>7 DEF Checked, Ran
<1>8. CASE Keep(c)
  <2> DEFINE entry == [key |-> CacheKey(c), hits |-> r.hits]
             over == [i \in DOMAIN cached |->
                         IF i \in Entries(CacheKey(c)) THEN entry ELSE cached[i]]
  <2>1. entry \in Results
    BY <1>1, <1>8 DEF Keep, Ran, CacheKey
  <2>2. Append(cached, entry) \in Seq(Results)
    BY <1>0, <2>1, AppendProperties
  <2>3. over \in Seq(Results)
    <3>1. Len(cached) \in Nat /\ DOMAIN cached = 1..Len(cached)
          /\ \A i \in 1..Len(cached) : cached[i] \in Results
      BY <1>0, LenProperties, ElementOfSeq
    <3>2. over \in [1..Len(cached) -> Results]
      BY <2>1, <3>1
    <3>3. QED BY <3>1, <3>2, IsASeq
  <2>4. cached' \in Seq(Results)
    BY <1>8, <2>2, <2>3 DEF Keep
  <2>5. QED BY <1>3, <1>8, <2>4 DEF Keep
<1>9. CASE FailSearch(c)
  BY <1>0, <1>3, <1>9 DEF FailSearch
<1>10. QED BY <1>4, <1>5, <1>6, <1>7, <1>8, <1>9

LEMMA SearchStep == ASSUME SearchInv, SearchNext PROVE SearchInv'
BY WriteTableStep, AskSteps, RunStep, CacheSteps DEF SearchNext

\* search_cache.py's key: no answer is older than the versions its request read,
\* for any numbers of threads and tables, and caches of any size.
THEOREM AnswersAreCurrent == Spec => []AnswerNotStale
<1>1. Init => SearchInv
  BY DEF Init, SearchInit, SearchInv, SearchOk, Askable, Versions, Quiet
<1>2. SearchInv /\ [Next]_vars => SearchInv'
  <2> SUFFICES ASSUME SearchInv, [Next]_vars PROVE SearchInv'
    OBVIOUS
  <2>1. CASE SearchNext
    BY <2>1, SearchStep
  <2>2. CASE UNCHANGED searchVars
    BY <2>2 DEF SearchInv, SearchOk, Askable
  <2>3. QED BY <2>1, <2>2 DEF Next, vars
<1>3. SearchInv => AnswerNotStale
  <2> SUFFICES ASSUME SearchInv PROVE AnswerNotStale
    OBVIOUS
  <2>1. \A i \in DOMAIN cached : cached[i] \in Results
    BY LenProperties, ElementOfSeq DEF SearchInv
  <2>2. \A c \in Threads : search[c].at \in {"hit", "putback", "store", "keep"} =>
            NotOlderThan(search[c].key, search[c].hits)
    BY DEF SearchInv, SearchOk, Askable, Quiet
  <2>3. QED BY <2>1, <2>2 DEF AnswerNotStale, Results, NotOlderThan
<1>4. QED BY <1>1, <1>2, <1>3, PTL DEF Spec

-----------------------------------------------------------------------------
(* A recording, in ranges and as clips.                                    *)

Replies == [version : Nat, at : Int, left : Int]

\* What the client has is of the version its tag names, and so is what it is
\* being sent; without a tag it has nothing.
DownloadInv ==
    /\ contents \in Seq(Payloads)
    /\ {"etag", "size", "parts", "reply"} \subseteq DOMAIN download
    /\ download.etag \in 0..Len(contents)
    /\ DOMAIN download.parts \subseteq Int
    /\ download.etag = NoEtag => DOMAIN download.parts = {} /\ download.reply = NoReply
    /\ download.reply \in Replies
    /\ download.reply.left > 0 => download.reply.version = download.etag
    /\ \A at \in DOMAIN download.parts : download.parts[at] = <<contents[download.etag], at - 1>>

\* Files of clips begun by version n: only one in the making may be unfinished.
Clips(n) ==
    {f \in [path : Windows \X {"mp4", "tmp.mp4"}, of : SUBSET Nat, since : 0..n, whole : BOOLEAN] :
        /\ \A v \in f.of : f.since <= v
        /\ f.path[2] = "mp4" => f.whole /\ f.of # {}}

ClipsInv ==
    /\ contents \in Seq(Payloads)
    /\ clips \in Seq(Clips(Len(contents)))
    /\ DOMAIN asks = Viewers
    /\ \A c \in Viewers : \/ asks[c] = NoAsk
                          \/ /\ asks[c] \in [at : {"send", "wait", "build"}, window : Windows]
                             /\ contents # <<>>

LEMMA WriteBlobStep ==
    ASSUME WriteBlob
    PROVE  (DownloadInv => DownloadInv') /\ (ClipsInv => ClipsInv')
<1>1. PICK p \in Payloads : contents' = Append(contents, p)
  BY DEF WriteBlob
<1>2. ASSUME contents \in Seq(Payloads)
      PROVE  /\ contents' \in Seq(Payloads) /\ Len(contents') = Len(contents) + 1
             /\ Len(contents) \in Nat /\ contents' # <<>>
             /\ \A i \in 1..Len(contents) : contents'[i] = contents[i]
  <2>1. Len(contents) \in Nat
    BY <1>2, LenProperties
  <2>2. QED BY <1>1, <1>2, <2>1, AppendProperties
<1>3. ASSUME DownloadInv PROVE DownloadInv'
  <2>1. UNCHANGED download
    BY DEF WriteBlob
  <2>2. ASSUME NEW at \in DOMAIN download.parts
        PROVE  download.parts[at] = <<contents'[download.etag], at - 1>>
    <3>1. download.etag \in 1..Len(contents)
      BY <1>2, <1>3 DEF DownloadInv, NoEtag
    <3>2. QED BY <1>2, <1>3, <3>1 DEF DownloadInv
  <2>3. download.etag \in 0..Len(contents')
    BY <1>2, <1>3 DEF DownloadInv
  <2>4. QED BY <1>2, <1>3, <2>1, <2>2, <2>3 DEF DownloadInv
<1>4. ASSUME ClipsInv PROVE ClipsInv'
  <2>1. contents \in Seq(Payloads) /\ clips \in Seq(Clips(Len(contents)))
    BY <1>4 DEF ClipsInv
  <2>2. Clips(Len(contents)) \subseteq Clips(Len(contents'))
    BY <1>2, <2>1 DEF Clips
  <2>3. clips' \in Seq(Clips(Len(contents')))
    BY <2>1, <2>2, SeqMonotonic DEF WriteBlob
  <2>4. QED BY <1>2, <1>4, <2>1, <2>3 DEF WriteBlob, ClipsInv
<1>5. QED BY <1>3, <1>4

LEMMA WindowOfRange ==
    ASSUME NEW r \in Ranges, NEW size \in Nat
    PROVE  Resolved(r, size).at \in Int /\ Resolved(r, size).left \in Int
<1> DEFINE least(a, b) == IF a <= b THEN a ELSE b
<1>1. r.first \in Nat /\ r.last \in Nat
  BY DEF Ranges, Whole, Bounds
<1>2. least(r.last, size) \in Int /\ least(r.last, size - 1) \in Int /\ size - 1 \in Int
  BY <1>1
<1>3. CASE r.kind = "suffix"
  BY <1>1, <1>2, <1>3 DEF Resolved
<1>4. CASE r.kind # "suffix"
  BY <1>1, <1>2, <1>4 DEF Resolved
<1>5. QED BY <1>3, <1>4

LEMMA ReadBlobStep ==
    ASSUME DownloadInv, NEW r \in Ranges, ReadBlob(r)
    PROVE  DownloadInv'
<1> DEFINE size == Size[contents[Latest]]
<1>1. Len(contents) \in Nat /\ Len(contents) > 0 /\ Latest = Len(contents)
  BY LenProperties, EmptySeq DEF ReadBlob, DownloadInv, Latest
<1>2. size \in Nat
  BY <1>1, ElementOfSeq, BlobAssumption DEF DownloadInv
<1>3. contents' = contents
  BY DEF ReadBlob
<1>4. CASE ~Honoured(r, download.etag)
  <2>1. PICK d : d = [etag |-> Latest, size |-> size, parts |-> <<>>,
                      reply |-> [version |-> Latest, at |-> 0, left |-> size]]
    OBVIOUS
  <2>2. download' = d
    BY <1>4, <2>1 DEF ReadBlob
  <2>3. /\ d.etag = Latest /\ d.parts = <<>> /\ d.reply \in Replies
        /\ d.reply.version = Latest /\ {"etag", "size", "parts", "reply"} \subseteq DOMAIN d
    BY <1>1, <1>2, <2>1 DEF Replies
  <2>4. DOMAIN d.parts = {} /\ d.etag # NoEtag /\ d.etag \in 0..Len(contents)
    BY <1>1, <2>3 DEF NoEtag
  <2>5. QED BY <1>3, <2>2, <2>3, <2>4 DEF DownloadInv
<1>5. CASE Honoured(r, download.etag) /\ ~Satisfiable(r, size)
  <2>1. download' = NothingYet
    BY <1>5 DEF ReadBlob
  <2>2. QED BY <1>1, <1>3, <2>1 DEF DownloadInv, NothingYet, NoReply, NoEtag, Replies
<1>6. CASE Honoured(r, download.etag) /\ Satisfiable(r, size)
  <2>1. PICK reply : reply = [version |-> Latest, at |-> Resolved(r, size).at,
                              left |-> Resolved(r, size).left]
    OBVIOUS
  <2>2. reply \in Replies /\ reply.version = Latest
    BY <1>1, <1>2, <2>1, WindowOfRange DEF Replies
  <2>3. download' = [download EXCEPT !.etag = IF @ = NoEtag THEN Latest ELSE @,
                                     !.size = IF download.etag = NoEtag THEN size ELSE @,
                                     !.reply = reply]
    BY <1>6, <2>1 DEF ReadBlob
  <2>4. download.etag = NoEtag \/ download.etag = Latest
    BY <1>6 DEF Honoured
  <2>5. /\ download'.etag = Latest /\ download'.reply = reply
        /\ download'.parts = download.parts
        /\ {"etag", "size", "parts", "reply"} \subseteq DOMAIN download'
    BY <2>3, <2>4 DEF DownloadInv
  <2>6. \A at \in DOMAIN download.parts : download.parts[at] = <<contents[Latest], at - 1>>
    BY <2>4 DEF DownloadInv
  <2>7. Latest # NoEtag /\ Latest \in 0..Len(contents)
    BY <1>1 DEF NoEtag
  <2>8. DOMAIN download.parts \subseteq Int /\ contents \in Seq(Payloads)
    BY DEF DownloadInv
  <2>9. QED BY <1>3, <2>2, <2>5, <2>6, <2>7, <2>8 DEF DownloadInv
<1>7. QED BY <1>4, <1>5, <1>6

LEMMA ReceiveStep ==
    ASSUME DownloadInv, ReceiveChunk \/ EndReply
    PROVE  DownloadInv'
<1>0. PICK reply, e, had : reply = download.reply /\ e = download.etag /\ had = download.parts
  OBVIOUS
<1>1. contents' = contents /\ contents \in Seq(Payloads) /\ reply \in Replies
  BY <1>0 DEF ReceiveChunk, EndReply, DownloadInv
<1>2. NoReply \in Replies /\ NoReply.left = 0 /\ NoReply.version = 0
  BY DEF NoReply, Replies
<1>3. CASE ReceiveChunk
  <2>1. PICK parts : parts = [at \in DOMAIN had \cup {reply.at + 1} |->
                                 IF at = reply.at + 1 THEN Chunk(reply.version, reply.at)
                                 ELSE had[at]]
    OBVIOUS
  <2>2. PICK next : next = IF reply.left = 1 THEN NoReply
                           ELSE [reply EXCEPT !.at = reply.at + 1, !.left = reply.left - 1]
    OBVIOUS
  <2>3. download'.etag = e /\ {"etag", "size", "parts", "reply"} \subseteq DOMAIN download'
    BY <1>0, <1>3 DEF ReceiveChunk, DownloadInv
  <2>4. download'.parts = parts
    BY <1>0, <1>3, <2>1 DEF ReceiveChunk, DownloadInv
  <2>10. download'.reply = next
    BY <1>0, <1>3, <2>2 DEF ReceiveChunk, DownloadInv
  <2>5. reply.left > 0 /\ reply.version = e /\ e # NoEtag /\ reply.at \in Int
    BY <1>0, <1>1, <1>2, <1>3 DEF ReceiveChunk, DownloadInv, Replies, NoReply
  <2>6. ASSUME NEW at \in DOMAIN parts PROVE at \in Int /\ parts[at] = <<contents[e], at - 1>>
    <3>1. CASE at = reply.at + 1
      BY <2>1, <2>5, <3>1 DEF Chunk
    <3>2. CASE at # reply.at + 1
      BY <1>0, <2>1, <3>2 DEF DownloadInv
    <3>3. QED BY <3>1, <3>2
  <2>7. next \in Replies /\ (next.left > 0 => next.version = e)
    <3>1. CASE reply.left = 1
      BY <1>2, <2>2, <3>1
    <3>2. CASE reply.left # 1
      <4>1. next = [reply EXCEPT !.at = reply.at + 1, !.left = reply.left - 1]
        BY <2>2, <3>2
      <4>2. next.version = reply.version
        BY <1>1, <4>1 DEF Replies
      <4>3. next \in Replies
        <5>1. PICK at, left : at = reply.at + 1 /\ left = reply.left - 1
          OBVIOUS
        <5>2. at \in Int /\ left \in Int
          BY <1>1, <5>1 DEF Replies
        <5>3. next = [reply EXCEPT !.at = at, !.left = left]
          BY <1>1, <4>1, <5>1 DEF Replies
        <5>4. QED BY <1>1, <5>2, <5>3 DEF Replies
      <4>4. QED BY <2>5, <4>2, <4>3
    <3>3. QED BY <3>1, <3>2
  <2>8. e \in 0..Len(contents)
    BY <1>0 DEF DownloadInv
  <2>9. QED BY <1>1, <2>3, <2>4, <2>5, <2>6, <2>7, <2>8, <2>10 DEF DownloadInv
<1>4. CASE EndReply
  <2>1. /\ download'.etag = download.etag /\ download'.parts = download.parts
        /\ download'.reply = NoReply
        /\ {"etag", "size", "parts", "reply"} \subseteq DOMAIN download'
    BY <1>4 DEF EndReply, DownloadInv
  <2>2. QED BY <1>1, <1>2, <2>1 DEF DownloadInv
<1>5. QED BY <1>3, <1>4

LEMMA ScratchRemoved ==
    ASSUME NEW S, clips \in Seq(S), NEW path
    PROVE  Without(path) \in Seq(S)
<1> DEFINE I == {i \in 1..Len(clips) : clips[i].path = path}
<1>1. CASE \E i \in 1..Len(clips) : clips[i].path = path
  <2>1. I # {} /\ I \in SUBSET Nat
    BY <1>1
  <2>2. Min(I) \in 1..Len(clips)
    BY <2>1, MinIn
  <2>3. Without(path) = RemoveAt(clips, Min(I))
    BY <1>1, <2>1 DEF Without, RemoveFirstMatch, SelectInSeq
  <2>4. QED BY <2>2, <2>3, WithoutOne
<1>2. CASE ~ \E i \in 1..Len(clips) : clips[i].path = path
  BY <1>2 DEF Without, RemoveFirstMatch
<1>3. QED BY <1>1, <1>2

\* A file is added, and the oldest may go.
LEMMA KeptClips ==
    ASSUME NEW S, NEW files \in Seq(S)
    PROVE  EvictOldClips(files) \in Seq(S)
<1>1. CASE Len(files) <= Kept
  BY <1>1 DEF EvictOldClips
<1>2. CASE ~(Len(files) <= Kept)
  <2>1. Len(files) \in Nat /\ Kept \in Nat /\ \A i \in 1..Len(files) : files[i] \in S
    BY LenProperties, ElementOfSeq, BlobAssumption
  <2>2. Len(files) - Kept + 1 \in Int /\ \A i \in Len(files) - Kept + 1..Len(files) : files[i] \in S
    BY <1>2, <2>1
  <2>3. SubSeq(files, Len(files) - Kept + 1, Len(files)) \in Seq(S)
    BY <2>1, <2>2, SubSeqProperties
  <2>4. QED BY <1>2, <2>3 DEF EvictOldClips
<1>3. QED BY <1>1, <1>2

\* One thread moves on.
LEMMA OneAsk ==
    ASSUME ClipsInv, NEW c \in Viewers, NEW ask, Goto(c, ask), UNCHANGED contents,
           \/ ask = NoAsk
           \/ /\ ask \in [at : {"send", "wait", "build"}, window : Windows]
              /\ contents # <<>>,
           clips' \in Seq(Clips(Len(contents)))
    PROVE  ClipsInv'
BY DEF ClipsInv, Goto

LEMMA ClipStep == ASSUME ClipsInv, ClipNext PROVE ClipsInv'
<1> DEFINE Asks == [at : {"send", "wait", "build"}, window : Windows]
<1>0. ASSUME NEW c \in Viewers, asks[c].at \in {"send", "wait", "build"}
      PROVE  asks[c] \in Asks /\ contents # <<>> /\ asks[c].window \in Windows
  BY <1>0 DEF ClipsInv, NoAsk
<1>1. ASSUME NEW c \in Viewers, NEW w \in Windows, MediaClip(c, w) PROVE ClipsInv'
  <2>1. PICK at \in {"send", "wait"} : Goto(c, [at |-> at, window |-> w])
    BY <1>1 DEF MediaClip
  <2>2. QED BY <1>1, <2>1, OneAsk DEF MediaClip, ClipsInv
<1>2. ASSUME NEW c \in Viewers, TakeBuildLock(c) PROVE ClipsInv'
  <2>1. PICK a : a = asks[c]
    OBVIOUS
  <2>2. a \in Asks /\ contents # <<>> /\ a.window \in Windows
    BY <1>0, <1>2, <2>1 DEF TakeBuildLock
  <2>3. [a EXCEPT !.at = "send"] \in Asks /\ [a EXCEPT !.at = "build"] \in Asks
    BY <2>2
  <2>4. CASE Named(ClipPath(a.window)) # {}
    BY <1>2, <2>1, <2>2, <2>3, <2>4, OneAsk DEF TakeBuildLock, ClipsInv
  <2>5. CASE Named(ClipPath(a.window)) = {}
    <3>0. Latest \in 0..Len(contents)
      BY LenProperties DEF Latest, ClipsInv
    <3>1. [path |-> ScratchPath(a.window), of |-> {}, since |-> Latest, whole |-> FALSE]
            \in Clips(Len(contents))
      BY <2>2, <3>0 DEF Clips, ScratchPath
    <3>2. Without(ScratchPath(a.window)) \in Seq(Clips(Len(contents)))
      BY ScratchRemoved DEF ClipsInv
    <3>3. clips' \in Seq(Clips(Len(contents)))
      BY <1>2, <2>1, <2>5, <3>1, <3>2, AppendProperties DEF TakeBuildLock
    <3>4. QED BY <1>2, <2>1, <2>2, <2>3, <2>5, <3>3, OneAsk DEF TakeBuildLock
  <2>6. QED BY <2>4, <2>5
<1>3. ASSUME NEW c \in Viewers, TranscodeRange(c) PROVE ClipsInv'
  <2> DEFINE I == Named(ScratchPath(asks[c].window))
  <2>1. /\ Len(clips) \in Nat /\ DOMAIN clips = 1..Len(clips)
        /\ \A i \in 1..Len(clips) : clips[i] \in Clips(Len(contents))
    BY LenProperties, ElementOfSeq DEF ClipsInv
  <2>2. Latest \in Nat /\ \A n \in 0..Len(contents) : n <= Latest
    BY LenProperties DEF Latest, ClipsInv
  <2>3. ASSUME NEW i \in 1..Len(clips), i \in I
        PROVE  [clips[i] EXCEPT !.of = @ \cup {Latest}] \in Clips(Len(contents))
    <3>1. clips[i].path[2] # "mp4"
      BY <2>3 DEF Named, ScratchPath
    <3>2. QED BY <2>1, <2>2, <3>1 DEF Clips
  <2>4. clips' \in [1..Len(clips) -> Clips(Len(contents))]
    BY <1>3, <2>1, <2>3 DEF TranscodeRange
  <2>5. clips' \in Seq(Clips(Len(contents)))
    BY <2>1, <2>4, IsASeq
  <2>6. QED BY <1>3, <2>5 DEF TranscodeRange, ClipsInv
<1>4. ASSUME NEW c \in Viewers, FailBuild(c) PROVE ClipsInv'
  BY <1>4, ScratchRemoved, OneAsk DEF FailBuild, ClipsInv
<1>5. ASSUME NEW c \in Viewers, PublishClip(c) PROVE ClipsInv'
  <2>1. PICK a : a = asks[c]
    OBVIOUS
  <2>2. a \in Asks /\ contents # <<>> /\ a.window \in Windows
    BY <1>0, <1>5, <2>1 DEF PublishClip
  <2>3. [a EXCEPT !.at = "send"] \in Asks
    BY <2>2
  <2>4. PICK i, f :
           /\ i \in Named(ScratchPath(a.window))
           /\ f = [clips[i] EXCEPT !.path = ClipPath(a.window), !.whole = TRUE]
           /\ clips[i].of # {}
           /\ clips' = EvictOldClips(Append(Without(ScratchPath(a.window)), f))
    BY <1>5, <2>1 DEF PublishClip
  <2>5. clips[i] \in Clips(Len(contents))
    BY <2>4, LenProperties, ElementOfSeq DEF Named, ClipsInv
  <2>6. f \in Clips(Len(contents))
    BY <2>2, <2>4, <2>5 DEF Clips, ClipPath
  <2>7. Without(ScratchPath(a.window)) \in Seq(Clips(Len(contents)))
    BY ScratchRemoved DEF ClipsInv
  <2>8. clips' \in Seq(Clips(Len(contents)))
    <3>1. Append(Without(ScratchPath(a.window)), f) \in Seq(Clips(Len(contents)))
      BY <2>6, <2>7, AppendProperties
    <3>2. QED BY <2>4, <3>1, KeptClips
  <2>9. QED BY <1>5, <2>1, <2>2, <2>3, <2>8, OneAsk DEF PublishClip
<1>6. ASSUME NEW c \in Viewers, SendClip(c) PROVE ClipsInv'
  BY <1>6, OneAsk DEF SendClip, ClipsInv
<1>7. CASE ViewerDies
  BY <1>7 DEF ViewerDies, ClipsInv
<1>8. QED BY <1>1, <1>2, <1>3, <1>4, <1>5, <1>6, <1>7, WriteBlobStep DEF ClipNext

LEMMA RecordingsAreWhole == DownloadInv /\ ClipsInv => RecordingsWhole
<1> SUFFICES ASSUME DownloadInv, ClipsInv PROVE RecordingsWhole
  OBVIOUS
<1>1. ASSUME NEW c \in Viewers, asks[c].at = "send",
             NEW i \in Named(ClipPath(asks[c].window))
      PROVE  clips[i].whole /\ clips[i].of # {} /\ \A v \in clips[i].of : clips[i].since <= v
  <2>1. clips[i] \in Clips(Len(contents))
    BY LenProperties, ElementOfSeq DEF Named, ClipsInv
  <2>2. clips[i].path[2] = "mp4"
    BY DEF Named, ClipPath
  <2>3. QED BY <2>1, <2>2 DEF Clips
<1>2. QED BY <1>1 DEF RecordingsWhole, DownloadInv, Chunk

-----------------------------------------------------------------------------
(* The points of the map.                                                  *)

Rows == UNION {[ids -> Speech] : ids \in SUBSET Nat}

\* A table whose rows have ids it gave, some of them placed.
ChunkTables ==
    {t \in [rows : Rows, next : Nat, placed : [Layouts -> SUBSET Nat], layers : SUBSET Nat] :
        /\ \A id \in DOMAIN t.rows : id < t.next
        /\ \A s \in Layouts : t.placed[s] \subseteq DOMAIN t.rows}

\* Rows some version of the table has under these ids.
RowsKnown(listed) ==
    \A id \in DOMAIN listed :
        \E v \in 1..Len(commits) :
            id \in DOMAIN commits[v].rows /\ listed[id] = commits[v].rows[id]

\* An id is of the same chunk in every version that has it.
IdsAreStable ==
    \A v, w \in 1..Len(commits) :
        /\ commits[v].next <= Now.next
        /\ \A id \in DOMAIN commits[v].rows \cap DOMAIN commits[w].rows :
              commits[v].rows[id] = commits[w].rows[id]

\* A body under its key is the one built from that version, of known rows.
BodyOf(v, s) == BuildPoints(commits[v], s)
Bodies == {[key |-> <<s, v>>, body |-> BodyOf(v, s)] : s \in Layouts, v \in 1..Len(commits)}

Requests == [at : {"look", "store", "keep"}, space : Layouts, opened : 1..Len(commits)]
Evictions == [at : {"evict"}, space : Layouts, opened : 1..Len(commits), oldest : Layouts \X Nat]

Keepers == {c \in Drawers : drawing[c].at = "keep"}

TableInv == commits \in Seq(ChunkTables) /\ commits # <<>> /\ IdsAreStable

\* Threads that found room may all store, but no more than there are.
PointsInv ==
    /\ TableInv
    /\ bodies \in Seq(Bodies)
    /\ DOMAIN drawing = Drawers
    /\ \A c \in Drawers : drawing[c] \in {Resting} \cup Requests \cup Evictions
    /\ {"offered", "body", "opened"} \subseteq DOMAIN page
    /\ page.offered \subseteq Layouts
    /\ RowsKnown(page.body.rows) /\ RowsKnown(page.opened)
    /\ Len(bodies) + Cardinality(Keepers) < PointsMax + Cardinality(Drawers)

\* What the latest version is.
LEMMA NowIs ==
    ASSUME TableInv
    PROVE  /\ Len(commits) \in Nat /\ Len(commits) >= 1 /\ Now \in ChunkTables
           /\ \A v \in 1..Len(commits) : commits[v] \in ChunkTables
<1>1. Len(commits) \in Nat /\ Len(commits) >= 1
  BY LenProperties, EmptySeq DEF TableInv
<1>2. QED BY <1>1, ElementOfSeq DEF TableInv, Now

\* A version is added: its ids are those of the one before, or one no version had.
LEMMA TableGrows ==
    ASSUME TableInv, NEW table \in ChunkTables, CommitTable(table), Now.next <= table.next,
           \A id \in DOMAIN table.rows :
               \/ id \in DOMAIN Now.rows /\ table.rows[id] = Now.rows[id]
               \/ id = Now.next
    PROVE  /\ TableInv'
           /\ Len(commits') = Len(commits) + 1
           /\ \A v \in 1..Len(commits) : commits'[v] = commits[v]
<1> DEFINE n == Len(commits)
<1>1. commits' = Append(commits, table)
  BY DEF CommitTable
<1>2. n \in Nat /\ n >= 1 /\ Now = commits[n] /\ Now \in ChunkTables /\ \A v \in 1..n : commits[v] \in ChunkTables
  BY NowIs DEF Now
<1>3. /\ commits' \in Seq(ChunkTables) /\ Len(commits') = n + 1 /\ commits' # <<>>
      /\ \A v \in 1..n : commits'[v] = commits[v]
      /\ commits'[n + 1] = table
  BY <1>1, <1>2, AppendProperties DEF TableInv
<1>4. Now' = table
  BY <1>3 DEF Now
<1>5. ASSUME NEW v \in 1..n, NEW id \in DOMAIN commits[v].rows \cap DOMAIN table.rows
      PROVE  commits[v].rows[id] = table.rows[id]
  <2>1. id < commits[v].next /\ commits[v].next <= Now.next /\ id \in Nat
        /\ commits[v].next \in Nat /\ Now.next \in Nat
    <3>1. commits[v] \in ChunkTables /\ id \in DOMAIN commits[v].rows
      BY <1>2, <1>5
    <3>2. commits[v].next <= Now.next
      BY <1>2 DEF TableInv, IdsAreStable
    <3>3. commits[v].rows \in Rows /\ commits[v].next \in Nat /\ id < commits[v].next
      BY <3>1 DEF ChunkTables
    <3>4. id \in Nat /\ Now.next \in Nat
      <4>1. PICK ids \in SUBSET Nat : commits[v].rows \in [ids -> Speech]
        BY <3>3 DEF Rows
      <4>2. QED BY <1>2, <3>1, <4>1 DEF ChunkTables
    <3>5. QED BY <3>2, <3>3, <3>4
  <2>2. id # Now.next
    BY <2>1
  <2>3. id \in DOMAIN Now.rows /\ table.rows[id] = Now.rows[id]
    BY <2>2
  <2>4. n \in 1..n
    BY <1>2
  <2>5. commits[v].rows[id] = commits[n].rows[id]
    BY <1>2, <1>5, <2>3, <2>4 DEF TableInv, IdsAreStable
  <2>6. QED BY <1>2, <2>3, <2>5
<1>6. ASSUME NEW v \in 1..n + 1, NEW w \in 1..n + 1
      PROVE  /\ commits'[v].next <= table.next
             /\ \A id \in DOMAIN commits'[v].rows \cap DOMAIN commits'[w].rows :
                   commits'[v].rows[id] = commits'[w].rows[id]
  <2>1. commits'[v].next <= table.next
    <3>1. CASE v \in 1..n
      <4>1. commits[v].next <= Now.next
        BY <3>1 DEF TableInv, IdsAreStable
      <4>2. commits[v].next \in Nat /\ Now.next \in Nat /\ table.next \in Nat
        BY <1>2, <3>1 DEF ChunkTables
      <4>3. QED BY <1>3, <3>1, <4>1, <4>2
    <3>2. CASE v = n + 1
      BY <1>3, <3>2 DEF ChunkTables
    <3>3. QED BY <1>2, <3>1, <3>2
  <2>2. ASSUME NEW id \in DOMAIN commits'[v].rows \cap DOMAIN commits'[w].rows
        PROVE  commits'[v].rows[id] = commits'[w].rows[id]
    <3>1. CASE v \in 1..n /\ w \in 1..n
      BY <1>3, <2>2, <3>1 DEF TableInv, IdsAreStable
    <3>2. CASE v \in 1..n /\ w = n + 1
      BY <1>3, <1>5, <2>2, <3>2
    <3>3. CASE v = n + 1 /\ w \in 1..n
      BY <1>3, <1>5, <2>2, <3>3
    <3>4. CASE v = n + 1 /\ w = n + 1
      BY <3>4
    <3>5. QED BY <1>2, <3>1, <3>2, <3>3, <3>4
  <2>3. QED BY <2>1, <2>2
<1>7. IdsAreStable'
  BY <1>3, <1>4, <1>6 DEF IdsAreStable
<1>8. QED BY <1>3, <1>7 DEF TableInv

\* What was known of the versions stays so as one is added.
LEMMA PointsKeep ==
    ASSUME PointsInv, TableInv', UNCHANGED <<bodies, drawing, page>>,
           Len(commits') = Len(commits) + 1,
           \A v \in 1..Len(commits) : commits'[v] = commits[v]
    PROVE  PointsInv'
<1>1. Len(commits) \in Nat
  BY NowIs DEF PointsInv
<1>2. Bodies \subseteq Bodies'
  <2>1. ASSUME NEW s \in Layouts, NEW v \in 1..Len(commits)
        PROVE  [key |-> <<s, v>>, body |-> BodyOf(v, s)] \in Bodies'
    <3>1. BodyOf(v, s) = BodyOf(v, s)' /\ v \in 1..Len(commits')
      BY <1>1 DEF BodyOf
    <3>2. QED BY <3>1 DEF Bodies
  <2>2. ASSUME NEW b \in Bodies PROVE b \in Bodies'
    <3>1. PICK s \in Layouts : \E v \in 1..Len(commits) : b = [key |-> <<s, v>>, body |-> BodyOf(v, s)]
      BY DEF Bodies
    <3>2. QED BY <2>1, <3>1
  <2>3. QED BY <2>2
<1>3. bodies' \in Seq(Bodies')
  BY <1>2, SeqMonotonic DEF PointsInv
<1>4. Requests \subseteq Requests' /\ Evictions \subseteq Evictions'
  BY <1>1 DEF Requests, Evictions
<1>5. ASSUME NEW listed, RowsKnown(listed)
      PROVE  \A id \in DOMAIN listed : \E v \in 1..Len(commits') :
                id \in DOMAIN commits'[v].rows /\ listed[id] = commits'[v].rows[id]
  BY <1>1, <1>5 DEF RowsKnown
<1>6. RowsKnown(page.body.rows)' /\ RowsKnown(page.opened)'
  BY <1>5 DEF PointsInv, RowsKnown
<1>7. QED BY <1>3, <1>4, <1>6 DEF PointsInv, Keepers

LEMMA TableSteps ==
    ASSUME PointsInv
    PROVE  /\ \A k \in Speech, gone \in SUBSET DOMAIN Now.rows : IngestAgain(gone, k) => PointsInv'
           /\ \A s \in Layouts : PlaceAgain(s) => PointsInv'
           /\ \A named \in SUBSET (1..Layers) : NameTopics(named) => PointsInv'
<1>1. TableInv /\ Now \in ChunkTables
  BY NowIs DEF PointsInv
<1>2. /\ Now.rows \in Rows /\ Now.next \in Nat /\ Now.placed \in [Layouts -> SUBSET Nat]
      /\ Now.layers \in SUBSET Nat
      /\ DOMAIN Now.rows \in SUBSET Nat /\ Now.rows \in [DOMAIN Now.rows -> Speech]
      /\ \A id \in DOMAIN Now.rows : id < Now.next
      /\ \A s \in Layouts : Now.placed[s] \subseteq DOMAIN Now.rows
  BY <1>1 DEF ChunkTables, Rows
<1>3. ASSUME NEW table \in ChunkTables, CommitTable(table), Now.next <= table.next,
             \A id \in DOMAIN table.rows :
                 \/ id \in DOMAIN Now.rows /\ table.rows[id] = Now.rows[id]
                 \/ id = Now.next
      PROVE  PointsInv'
  BY <1>1, <1>3, TableGrows, PointsKeep DEF CommitTable
<1>4. ASSUME NEW k \in Speech, NEW gone \in SUBSET DOMAIN Now.rows, IngestAgain(gone, k)
      PROVE  PointsInv'
  <2>1. PICK kept : kept = DOMAIN Now.rows \ gone
    OBVIOUS
  <2>2. PICK listed : listed = [id \in kept \cup {Now.next} |->
                                 IF id = Now.next THEN k ELSE Now.rows[id]]
    OBVIOUS
  <2>3. PICK placed : placed = [s \in Layouts |-> Now.placed[s] \cap kept]
    OBVIOUS
  <2>4. PICK table : table = [rows |-> listed, next |-> Now.next + 1, placed |-> placed,
                              layers |-> Now.layers]
    OBVIOUS
  <2>5. CommitTable(table)
    <3> DEFINE before == [Now EXCEPT !.rows = [id \in kept |-> @[id]]]
    <3>1. before.next = Now.next
      BY <1>1 DEF ChunkTables
    <3>2. NewRowId(before) = Now.next
      BY <3>1 DEF NewRowId
    <3>3. QED BY <1>4, <2>1, <2>2, <2>3, <2>4, <3>2 DEF IngestAgain
  <2>6. listed \in Rows /\ DOMAIN listed = kept \cup {Now.next}
    <3>1. kept \cup {Now.next} \in SUBSET Nat
      BY <1>2, <2>1
    <3>2. listed \in [kept \cup {Now.next} -> Speech]
      BY <1>2, <2>1, <2>2
    <3>3. QED BY <3>1, <3>2 DEF Rows
  <2>7. placed \in [Layouts -> SUBSET Nat] /\ \A s \in Layouts : placed[s] \subseteq DOMAIN listed
    BY <1>2, <2>3, <2>6
  <2>8. \A id \in DOMAIN listed : id < Now.next + 1
    BY <1>2, <2>1, <2>6
  <2>9. table \in ChunkTables
    BY <1>2, <2>4, <2>6, <2>7, <2>8 DEF ChunkTables
  <2>10. \A id \in DOMAIN table.rows :
            \/ id \in DOMAIN Now.rows /\ table.rows[id] = Now.rows[id]
            \/ id = Now.next
    BY <2>1, <2>2, <2>4
  <2>11. QED BY <1>2, <1>3, <2>4, <2>5, <2>9, <2>10
<1>5. ASSUME NEW s \in Layouts, PlaceAgain(s) PROVE PointsInv'
  <2>1. PICK placed : placed = [Now.placed EXCEPT ![s] = IF Now.placed[s] = {} THEN DOMAIN Now.rows ELSE {}]
    OBVIOUS
  <2>2. PICK table : table = [rows |-> Now.rows, next |-> Now.next, placed |-> placed,
                              layers |-> Now.layers]
    OBVIOUS
  <2>3. CommitTable(table)
    <3>1. PICK placing : placing = IF Now.placed[s] = {} THEN DOMAIN Now.rows ELSE {}
      OBVIOUS
    <3>3. placed = [Now.placed EXCEPT ![s] = placing]
      BY <2>1, <3>1
    <3>4. table = [Now EXCEPT !.placed[s] = placing]
      BY <1>1, <2>2, <3>3 DEF ChunkTables
    <3>2. QED BY <1>5, <3>1, <3>4 DEF PlaceAgain
  <2>4. placed \in [Layouts -> SUBSET Nat] /\ \A u \in Layouts : placed[u] \subseteq DOMAIN Now.rows
    BY <1>2, <2>1
  <2>5. table \in ChunkTables
    BY <1>2, <2>2, <2>4 DEF ChunkTables
  <2>6. QED BY <1>2, <1>3, <2>2, <2>3, <2>5
<1>6. ASSUME NEW named \in SUBSET (1..Layers), NameTopics(named) PROVE PointsInv'
  <2>1. PICK table : table = [Now EXCEPT !.layers = named]
    OBVIOUS
  <2>2. /\ table \in ChunkTables /\ table.rows = Now.rows /\ table.next = Now.next
    BY <1>1, <2>1 DEF ChunkTables
  <2>3. CommitTable(table)
    BY <1>6, <2>1 DEF NameTopics
  <2>4. Now.next <= table.next /\ \A id \in DOMAIN table.rows :
            id \in DOMAIN Now.rows /\ table.rows[id] = Now.rows[id]
    BY <1>2, <2>2
  <2>5. QED BY <1>3, <2>2, <2>3, <2>4
<1>7. QED BY <1>4, <1>5, <1>6

LEMMA SameBlobs ==
    ASSUME UNCHANGED blobVars
    PROVE  (DownloadInv => DownloadInv') /\ (ClipsInv => ClipsInv')
BY DEF DownloadInv, ClipsInv

LEMMA SamePoints == ASSUME PointsInv, UNCHANGED pointVars PROVE PointsInv'
BY DEF PointsInv, TableInv, IdsAreStable, Now, Bodies, BodyOf, RowsKnown, Requests, Evictions, Keepers

\* One thread moves on: it becomes a keeper, stops being one, or neither.
LEMMA KeepersMove ==
    ASSUME DOMAIN drawing = Drawers, NEW c \in Drawers, NEW request, Draw(c, request)
    PROVE  /\ IsFiniteSet(Keepers) /\ Cardinality(Keepers) \in Nat
           /\ Cardinality(Keepers) <= Cardinality(Drawers) /\ Cardinality(Drawers) \in Nat
           /\ Cardinality(Keepers)' <= Cardinality(Drawers)
           /\ Cardinality(Keepers)' \in Nat
           /\ request.at # "keep" =>
                 Cardinality(Keepers)' <= Cardinality(Keepers)
                                            - (IF drawing[c].at = "keep" THEN 1 ELSE 0)
<1>1. /\ IsFiniteSet(Drawers) /\ Keepers \subseteq Drawers /\ Keepers' \subseteq Drawers
  BY PointsAssumption DEF Keepers
<1>2. /\ IsFiniteSet(Keepers) /\ IsFiniteSet(Keepers') /\ Cardinality(Drawers) \in Nat
      /\ Cardinality(Keepers) <= Cardinality(Drawers) /\ Cardinality(Keepers') <= Cardinality(Drawers)
      /\ Cardinality(Keepers) \in Nat /\ Cardinality(Keepers') \in Nat
  BY <1>1, FS_Subset, FS_CardinalityType
<1>3. ASSUME request.at # "keep"
      PROVE  Cardinality(Keepers') <= Cardinality(Keepers) - (IF drawing[c].at = "keep" THEN 1 ELSE 0)
  <2>1. Keepers' = Keepers \ {c}
    BY <1>3 DEF Draw, Keepers
  <2>2. CASE drawing[c].at = "keep"
    <3>1. c \in Keepers
      BY <2>2 DEF Keepers
    <3>2. Cardinality(Keepers \ {c}) = Cardinality(Keepers) - 1
      BY <1>2, <3>1, FS_RemoveElement
    <3>3. QED BY <1>2, <2>1, <2>2, <3>2
  <2>3. CASE drawing[c].at # "keep"
    <3>1. Keepers \ {c} = Keepers
      BY <2>3 DEF Keepers
    <3>2. QED BY <1>2, <2>1, <2>3, <3>1
  <2>4. QED BY <2>2, <2>3
<1>4. QED BY <1>2, <1>3

\* A request is answered, or goes on.
LEMMA OneRequest ==
    ASSUME PointsInv, NEW c \in Drawers, NEW request \in {Resting} \cup Requests \cup Evictions,
           Draw(c, request), UNCHANGED commits, bodies' \in Seq(Bodies),
           {"offered", "body", "opened"} \subseteq DOMAIN page',
           page'.offered \subseteq Layouts,
           RowsKnown(page'.body.rows), RowsKnown(page'.opened),
           \/ request.at = "keep" /\ Len(bodies') < PointsMax
           \/ request.at # "keep" /\ Len(bodies') <= Len(bodies)
           \/ /\ request.at # "keep" /\ drawing[c].at = "keep"
              /\ Len(bodies') <= Len(bodies) + 1
    PROVE  PointsInv'
<1>1. /\ Cardinality(Keepers) \in Nat /\ Cardinality(Keepers') \in Nat
      /\ Cardinality(Drawers) \in Nat /\ Cardinality(Keepers') <= Cardinality(Drawers)
      /\ request.at # "keep" =>
            Cardinality(Keepers') <= Cardinality(Keepers)
                                       - (IF drawing[c].at = "keep" THEN 1 ELSE 0)
      /\ Len(bodies) \in Nat /\ Len(bodies') \in Nat /\ PointsMax \in Nat
  BY KeepersMove, LenProperties, PointsAssumption DEF PointsInv
<1>2. Len(bodies') + Cardinality(Keepers') < PointsMax + Cardinality(Drawers)
  BY <1>1 DEF PointsInv
<1>3. DOMAIN drawing' = Drawers /\ \A d \in Drawers : drawing'[d] \in {Resting} \cup Requests \cup Evictions
  BY DEF Draw, PointsInv
<1>4. Bodies' = Bodies /\ Requests' = Requests /\ Evictions' = Evictions
  BY DEF Bodies, BodyOf, Requests, Evictions
<1>5. RowsKnown(page.body.rows)' /\ RowsKnown(page.opened)' /\ TableInv'
  BY DEF RowsKnown, TableInv, IdsAreStable, Now, PointsInv
<1>6. QED BY <1>2, <1>3, <1>4, <1>5 DEF PointsInv

\* A body shows rows its version has.
LEMMA BodyKnown ==
    ASSUME TableInv, NEW v \in 1..Len(commits), NEW s \in Layouts
    PROVE  RowsKnown(BodyOf(v, s).rows)
<1>1. commits[v] \in ChunkTables
  BY NowIs
<1>2. commits[v].placed[s] \subseteq DOMAIN commits[v].rows
  BY <1>1 DEF ChunkTables
<1>3. QED BY <1>2 DEF RowsKnown, BodyOf, BuildPoints, BuiltRows

\* TakeOldest takes nothing but an entry away.
LEMMA OldestRemoved ==
    ASSUME NEW S, bodies \in Seq(S), NEW key
    PROVE  /\ Popped(key) \in Seq(S)
           /\ Len(Popped(key)) <= Len(bodies)
<1> DEFINE I == {i \in 1..Len(bodies) : bodies[i].key = key}
<1>0. Len(bodies) \in Nat
  BY LenProperties
<1>1. CASE \E i \in 1..Len(bodies) : bodies[i].key = key
  <2>1. I # {} /\ I \in SUBSET Nat
    BY <1>1
  <2>2. Min(I) \in 1..Len(bodies)
    BY <2>1, MinIn
  <2>3. Popped(key) = RemoveAt(bodies, Min(I))
    BY <1>1, <2>1 DEF Popped, RemoveFirstMatch, SelectInSeq
  <2>4. PICK rest : rest = RemoveAt(bodies, Min(I))
    OBVIOUS
  <2>5. rest \in Seq(S) /\ Len(rest) = Len(bodies) - 1
    BY <2>2, <2>4, WithoutOne
  <2>6. Popped(key) = rest
    BY <2>3, <2>4
  <2>7. QED BY <1>0, <2>5, <2>6
<1>2. CASE ~ \E i \in 1..Len(bodies) : bodies[i].key = key
  BY <1>0, <1>2 DEF Popped, RemoveFirstMatch
<1>3. QED BY <1>1, <1>2

LEMMA RequestSteps ==
    ASSUME PointsInv, NEW c \in Drawers
    PROVE  /\ \A s \in Layouts : AtlasPoints(c, s) => PointsInv'
           /\ LookAtCache(c) => PointsInv'
           /\ PickOldest(c) => PointsInv'
           /\ TakeOldest(c) => PointsInv'
           /\ FoundRoom(c) => PointsInv'
           /\ StorePoints(c) => PointsInv'
<1>0. /\ TableInv /\ Len(commits) \in Nat /\ Len(commits) >= 1
      /\ bodies \in Seq(Bodies) /\ Len(bodies) \in Nat
      /\ {"offered", "body", "opened"} \subseteq DOMAIN page /\ page.offered \subseteq Layouts
      /\ RowsKnown(page.body.rows) /\ RowsKnown(page.opened)
      /\ drawing[c] \in {Resting} \cup Requests \cup Evictions
  BY NowIs, LenProperties DEF PointsInv
<1>1. ASSUME drawing[c].at \in {"look", "store", "keep"}
      PROVE  /\ drawing[c] \in Requests /\ drawing[c].space \in Layouts
             /\ drawing[c].opened \in 1..Len(commits)
  BY <1>0, <1>1 DEF Resting, Requests, Evictions
\* What is kept under a key is the body of that key, of rows that are known.
<1>2. ASSUME NEW i \in 1..Len(bodies)
      PROVE  bodies[i] \in Bodies /\ bodies[i].key \in Layouts \X Nat
             /\ RowsKnown(bodies[i].body.rows)
  <2>1. bodies[i] \in Bodies
    BY <1>0, <1>2, ElementOfSeq
  <2>2. PICK s \in Layouts : \E v \in 1..Len(commits) :
             bodies[i] = [key |-> <<s, v>>, body |-> BodyOf(v, s)]
    BY <2>1 DEF Bodies
  <2>3. QED BY <1>0, <2>1, <2>2, BodyKnown
<1>3. ASSUME NEW body, RowsKnown(body.rows), Answer(c, body)
      PROVE  /\ {"offered", "body", "opened"} \subseteq DOMAIN page'
             /\ page'.offered \subseteq Layouts /\ page'.opened = page.opened
             /\ RowsKnown(page'.body.rows) /\ RowsKnown(page'.opened)
             /\ Draw(c, Resting) /\ Resting.at = "rest"
  BY <1>0, <1>3 DEF Answer, Resting
<1>4. ASSUME NEW s \in Layouts, AtlasPoints(c, s) PROVE PointsInv'
  <2>1. PICK request : request = [at |-> "look", space |-> s, opened |-> Len(commits)]
    OBVIOUS
  <2>2. request \in Requests /\ request.at = "look"
    BY <1>0, <2>1 DEF Requests
  <2>3. QED BY <1>0, <1>4, <2>1, <2>2, OneRequest DEF AtlasPoints
<1>5. ASSUME LookAtCache(c) PROVE PointsInv'
  <2>1. drawing[c] \in Requests
    BY <1>1, <1>5 DEF LookAtCache
  <2>2. ASSUME NEW i \in Cached(PointsKey(drawing[c])), Answer(c, bodies[i].body)
        PROVE  PointsInv'
    <3>1. RowsKnown(bodies[i].body.rows)
      BY <1>0, <1>2, LenProperties DEF Cached
    <3>2. QED BY <1>0, <1>3, <1>5, <2>2, <3>1, OneRequest DEF LookAtCache
  <2>3. CASE Draw(c, [drawing[c] EXCEPT !.at = "store"]) /\ UNCHANGED page
    <3>1. PICK request : request = [drawing[c] EXCEPT !.at = "store"]
      OBVIOUS
    <3>2. request \in Requests /\ request.at = "store"
      BY <2>1, <3>1 DEF Requests
    <3>3. UNCHANGED <<commits, bodies, page>> /\ Draw(c, request)
      BY <1>5, <2>3, <3>1 DEF LookAtCache
    <3>4. QED BY <1>0, <3>2, <3>3, OneRequest
  <2>4. QED BY <1>5, <2>2, <2>3 DEF LookAtCache
<1>6. ASSUME PickOldest(c) PROVE PointsInv'
  <2>1. bodies[1].key \in Layouts \X Nat
    BY <1>0, <1>2, <1>6, PointsAssumption DEF PickOldest
  <2>2. PICK request : request = [at |-> "evict", space |-> drawing[c].space,
                                  opened |-> drawing[c].opened, oldest |-> bodies[1].key]
    OBVIOUS
  <2>3. request \in Evictions /\ request.at = "evict"
    BY <1>1, <1>6, <2>1, <2>2 DEF PickOldest, Evictions
  <2>4. QED BY <1>0, <1>6, <2>2, <2>3, OneRequest DEF PickOldest
<1>7. ASSUME TakeOldest(c) PROVE PointsInv'
  <2>1. drawing[c] \in Evictions
    BY <1>0, <1>7 DEF TakeOldest, Resting, Requests
  <2>2. bodies' \in Seq(Bodies) /\ Len(bodies') <= Len(bodies)
    BY <1>0, <1>7, OldestRemoved DEF TakeOldest
  <2>3. PICK request : /\ request \in {Resting, [at |-> "store", space |-> drawing[c].space,
                                                 opened |-> drawing[c].opened]}
                       /\ Draw(c, request)
    BY <1>7 DEF TakeOldest
  <2>4. request \in {Resting} \cup Requests /\ request.at # "keep"
    BY <2>1, <2>3 DEF Evictions, Requests, Resting
  <2>5. QED BY <1>0, <1>7, <2>2, <2>3, <2>4, OneRequest DEF TakeOldest
<1>8. ASSUME FoundRoom(c) PROVE PointsInv'
  <2>1. PICK request : request = [drawing[c] EXCEPT !.at = "keep"]
    OBVIOUS
  <2>2. request \in Requests /\ request.at = "keep"
    BY <1>1, <1>8, <2>1 DEF FoundRoom, Requests
  <2>3. QED BY <1>0, <1>8, <2>1, <2>2, OneRequest DEF FoundRoom
<1>9. ASSUME StorePoints(c) PROVE PointsInv'
  <2>1. PICK r : r = drawing[c]
    OBVIOUS
  <2>2. r \in Requests /\ r.space \in Layouts /\ r.opened \in 1..Len(commits) /\ r.at = "keep"
    BY <1>1, <1>9, <2>1 DEF StorePoints
  <2>3. PICK entry : entry = [key |-> <<r.space, r.opened>>, body |-> BodyOf(r.opened, r.space)]
    OBVIOUS
  <2>4. entry \in Bodies /\ RowsKnown(entry.body.rows)
    <3>1. entry \in Bodies
      BY <2>2, <2>3 DEF Bodies
    <3>2. RowsKnown(BodyOf(r.opened, r.space).rows) /\ entry.body = BodyOf(r.opened, r.space)
      BY <1>0, <2>2, <2>3, BodyKnown
    <3>3. QED BY <3>1, <3>2
  <2>5. PICK over : over = [i \in DOMAIN bodies |->
                              IF i \in Cached(PointsKey(r)) THEN entry ELSE bodies[i]]
    OBVIOUS
  <2>6. over \in Seq(Bodies) /\ Len(over) = Len(bodies)
    <3>1. DOMAIN bodies = 1..Len(bodies)
      BY <1>0, LenProperties
    <3>2. over \in [1..Len(bodies) -> Bodies]
      BY <1>2, <2>4, <2>5, <3>1
    <3>3. over \in Seq(Bodies)
      BY <1>0, <3>2, IsASeq
    <3>4. DOMAIN over = 1..Len(over) /\ Len(over) \in Nat /\ DOMAIN over = 1..Len(bodies)
      BY <3>2, <3>3, LenProperties
    <3>5. QED BY <1>0, <3>3, <3>4
  <2>7. bodies' = (IF Cached(PointsKey(r)) = {} THEN Append(bodies, entry) ELSE over)
        /\ Answer(c, entry.body) /\ UNCHANGED commits
    BY <1>9, <2>1, <2>3, <2>5 DEF StorePoints, BodyOf, PointsKey
  <2>8. Append(bodies, entry) \in Seq(Bodies) /\ Len(Append(bodies, entry)) = Len(bodies) + 1
    BY <1>0, <2>4, AppendProperties
  <2>9. bodies' \in Seq(Bodies) /\ Len(bodies') <= Len(bodies) + 1
    BY <1>0, <2>6, <2>7, <2>8
  <2>10. QED BY <1>3, <2>1, <2>2, <2>4, <2>7, <2>9, OneRequest
<1>10. QED BY <1>4, <1>5, <1>6, <1>7, <1>8, <1>9

\* The page asks what there is, and opens chunks.
LEMMA PageSteps ==
    ASSUME PointsInv
    PROVE  AtlasStatus \/ AtlasChunks \/ AtlasChunk => PointsInv'
<1>0. /\ TableInv /\ Len(commits) \in 1..Len(commits)
      /\ {"offered", "body", "opened"} \subseteq DOMAIN page /\ page.offered \subseteq Layouts
      /\ RowsKnown(page.body.rows) /\ RowsKnown(page.opened)
  BY NowIs DEF PointsInv
<1>1. ASSUME NEW p, Page(p), {"offered", "body", "opened"} \subseteq DOMAIN p,
             p.offered \subseteq Layouts, RowsKnown(p.body.rows), RowsKnown(p.opened)
      PROVE  PointsInv'
  <2>1. page' = p /\ UNCHANGED <<commits, bodies, drawing>>
    BY <1>1 DEF Page
  <2>2. Bodies' = Bodies /\ Requests' = Requests /\ Evictions' = Evictions /\ Keepers' = Keepers
    BY <2>1 DEF Bodies, BodyOf, Requests, Evictions, Keepers
  <2>3. RowsKnown(page.body.rows)' /\ RowsKnown(page.opened)' /\ TableInv'
    BY <1>0, <1>1, <2>1 DEF RowsKnown, TableInv, IdsAreStable, Now
  <2>4. QED BY <1>1, <2>1, <2>2, <2>3 DEF PointsInv
<1>2. CASE AtlasStatus
  <2>1. PICK p : p = [page EXCEPT !.offered = {s \in Layouts : BuiltRows(Now, s) # {}}]
    OBVIOUS
  <2>2. QED BY <1>0, <1>1, <1>2, <2>1 DEF AtlasStatus
<1>3. ASSUME NEW hits, Open(hits), RowsKnown(hits) PROVE PointsInv'
  <2>1. PICK p : p = [page EXCEPT !.opened = hits]
    OBVIOUS
  <2>2. QED BY <1>0, <1>1, <1>3, <2>1 DEF Open
<1>4. CASE AtlasChunks
  <2>1. PICK picked : Open([id \in picked \cap DOMAIN Now.rows |-> Now.rows[id]])
    BY <1>4 DEF AtlasChunks
  <2>2. RowsKnown([id \in picked \cap DOMAIN Now.rows |-> Now.rows[id]])
    BY <1>0 DEF RowsKnown, Now
  <2>3. QED BY <1>3, <2>1, <2>2
<1>5. CASE AtlasChunk
  <2>1. PICK id \in DOMAIN page.body.rows : Open([i \in {id} |-> page.body.rows[id]])
    BY <1>5 DEF AtlasChunk
  <2>2. RowsKnown([i \in {id} |-> page.body.rows[id]])
    BY <1>0 DEF RowsKnown
  <2>3. QED BY <1>3, <2>1, <2>2
<1>6. QED BY <1>2, <1>4, <1>5

LEMMA PointsStep == ASSUME PointsInv, PointsNext PROVE PointsInv'
BY TableSteps, RequestSteps, PageSteps DEF PointsNext

LEMMA PointsStart == PointsInit => PointsInv
<1> SUFFICES ASSUME PointsInit PROVE PointsInv
  OBVIOUS
<1>1. PICK table : table = [rows |-> [id \in {1} |-> CHOOSE k \in Speech : TRUE], next |-> 2,
                            placed |-> [s \in Layouts |-> {1}], layers |-> {1}]
  OBVIOUS
<1>2. commits = <<table>> /\ Len(commits) = 1 /\ commits[1] = table /\ commits # <<>>
  BY <1>1 DEF PointsInit
<1>3. table \in ChunkTables
  <2>1. (CHOOSE k \in Speech : TRUE) \in Speech
    BY PointsAssumption
  <2>2. table.rows \in [{1} -> Speech] /\ {1} \in SUBSET Nat
    BY <1>1, <2>1
  <2>3. table.rows \in Rows
    BY <2>2 DEF Rows
  <2>4. QED BY <1>1, <2>2, <2>3 DEF ChunkTables
<1>4. TableInv
  <2>1. commits \in Seq(ChunkTables)
    BY <1>2, <1>3
  <2>2. IdsAreStable
    BY <1>1, <1>2, <1>3 DEF IdsAreStable, Now, ChunkTables
  <2>3. QED BY <1>2, <2>1, <2>2 DEF TableInv
<1>5. bodies = <<>> /\ Len(bodies) = 0 /\ bodies \in Seq(Bodies)
  BY EmptySeq DEF PointsInit
<1>6. Keepers = {}
  BY DEF PointsInit, Keepers, Resting
<1>7. Cardinality(Drawers) \in Nat /\ Cardinality(Keepers) = 0 /\ PointsMax \in Nat \ {0}
  BY <1>6, FS_EmptySet, FS_CardinalityType, PointsAssumption
<1>8. RowsKnown(page.body.rows) /\ RowsKnown(page.opened)
  BY DEF PointsInit, RowsKnown, Blank
<1>9. QED BY <1>4, <1>5, <1>7, <1>8 DEF PointsInit, PointsInv

LEMMA PointsAreWhole == PointsInv => PointsWhole
<1> SUFFICES ASSUME PointsInv PROVE PointsWhole
  OBVIOUS
<1>1. ASSUME NEW i \in DOMAIN bodies
      PROVE  bodies[i].body = BuildPoints(commits[bodies[i].key[2]], bodies[i].key[1])
  <2>1. bodies[i] \in Bodies
    BY LenProperties, ElementOfSeq DEF PointsInv
  <2>2. PICK s \in Layouts : \E v \in 1..Len(commits) :
             bodies[i] = [key |-> <<s, v>>, body |-> BodyOf(v, s)]
    BY <2>1 DEF Bodies
  <2>3. QED BY <2>2 DEF BodyOf
<1>2. Len(bodies) < PointsMax + Cardinality(Drawers)
  <2>1. Keepers \subseteq Drawers /\ IsFiniteSet(Drawers)
    BY PointsAssumption DEF Keepers
  <2>2. Cardinality(Keepers) \in Nat /\ Cardinality(Drawers) \in Nat
    BY <2>1, FS_Subset, FS_CardinalityType
  <2>3. QED BY <2>2, LenProperties, PointsAssumption DEF PointsInv
<1>3. ASSUME NEW id \in DOMAIN page.opened \cap DOMAIN page.body.rows
      PROVE  page.opened[id] = page.body.rows[id]
  BY <1>3 DEF PointsInv, TableInv, RowsKnown, IdsAreStable
<1>4. QED BY <1>1, <1>2, <1>3 DEF PointsWhole

-----------------------------------------------------------------------------
\* dataplane.py's If-Range, clips.py's scratch file and rename, and atlas.py's key by
\* version: a download is of one version of its recording and the points of a map of
\* one version of their table; a clip is a finished one, cut from nothing but what
\* the recording was while it was transcoded.  For any numbers of writes, threads
\* and entries kept.
THEOREM ServedIsWhole == Spec => []ServedWhole
<1> DEFINE Inv == DownloadInv /\ ClipsInv /\ PointsInv
<1>1. Init => Inv
  <2> SUFFICES ASSUME Init PROVE Inv
    OBVIOUS
  <2>1. contents = <<>> /\ <<>> \in Seq(Payloads) /\ <<>> \in Seq(Clips(0)) /\ Len(contents) = 0
    BY EmptySeq DEF Init, BlobsInit
  <2>2. DownloadInv /\ ClipsInv
    BY <2>1 DEF Init, BlobsInit, DownloadInv, ClipsInv, NothingYet, NoReply, NoEtag, NoAsk, Replies
  <2>3. QED BY <2>2, PointsStart DEF Init
<1>2. Inv /\ [Next]_vars => Inv'
  <2> SUFFICES ASSUME Inv, [Next]_vars PROVE Inv'
    OBVIOUS
  <2>1. CASE DownloadNext /\ UNCHANGED pointVars
    <3>1. DownloadInv' /\ PointsInv'
      BY <2>1, WriteBlobStep, ReadBlobStep, ReceiveStep, SamePoints DEF DownloadNext
    <3>2. ClipsInv'
      BY <2>1, WriteBlobStep DEF DownloadNext, ClipsInv, ReadBlob, ReceiveChunk, EndReply
    <3>3. QED BY <3>1, <3>2
  <2>2. CASE ClipNext /\ UNCHANGED pointVars
    <3>1. ClipsInv' /\ PointsInv'
      BY <2>2, ClipStep, SamePoints
    <3>2. DownloadInv'
      BY <2>2, WriteBlobStep DEF ClipNext, DownloadInv, MediaClip, TakeBuildLock, TranscodeRange,
            FailBuild, PublishClip, SendClip, ViewerDies
    <3>3. QED BY <3>1, <3>2
  <2>3. CASE PointsNext /\ UNCHANGED blobVars
    BY <2>3, PointsStep, SameBlobs
  <2>4. CASE UNCHANGED <<blobVars, pointVars>>
    BY <2>4, SamePoints, SameBlobs
  <2>5. QED BY <2>1, <2>2, <2>3, <2>4 DEF Next, vars
<1>3. Inv => ServedWhole
  BY RecordingsAreWhole, PointsAreWhole DEF ServedWhole
<1>4. QED BY <1>1, <1>2, <1>3, PTL DEF Spec

=============================================================================
