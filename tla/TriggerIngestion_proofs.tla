----------------------- MODULE TriggerIngestion_proofs -----------------------
(***************************************************************************)
(* TLAPS proofs that trigger events are stored once and acknowledged only  *)
(* when stored, for any number of events, consumers and failures.          *)
(***************************************************************************)
EXTENDS TriggerIngestion, SequenceTheorems, TLAPS

\* A key is there exactly when its execution is.
RowsFollowKeys == \A e \in Event : rows[e] = IF e \in keys THEN 1 ELSE 0

\* A busy consumer is in front of a message; one about to commit has stored it.
ReadersBehind ==
  \A c \in Consumer :
    /\ position[c] <= Len(log)
    /\ pc[c] \in Busy => position[c] < Len(log)
    /\ pc[c] = "commit" => Message(c) \in keys

\* Only the consumer that owns the partition moves the offset, from where it is.
OwnerAtOffset == \A c \in Consumer : owner = c => position[c] = committed

AcknowledgedHasKey == \A i \in 1..committed : log[i] \in keys

Stored == /\ TypeOK /\ RowsFollowKeys /\ ReadersBehind
          /\ OwnerAtOffset /\ AcknowledgedHasKey

-----------------------------------------------------------------------------
LEMMA InitStored == Init => Stored
<1> SUFFICES ASSUME Init PROVE Stored
  OBVIOUS
<1>1. log \in Seq(Event) /\ Len(log) = 0
  BY EmptySeq DEF Init
<1>2. TypeOK
  BY <1>1 DEF Init, TypeOK, ConsumerState
<1>3. RowsFollowKeys /\ OwnerAtOffset /\ AcknowledgedHasKey
  BY IngestionAssumption DEF Init, RowsFollowKeys, OwnerAtOffset, AcknowledgedHasKey
<1>4. ReadersBehind
  BY <1>1 DEF Init, ReadersBehind, Busy
<1> QED
  BY <1>2, <1>3, <1>4 DEF Stored

\* Appending to the topic moves no message.
LEMMA Appended ==
  ASSUME Stored, NEW e \in Event, log' = Append(log, e)
  PROVE  /\ log' \in Seq(Event) /\ Len(log') = Len(log) + 1 /\ Len(log) \in Nat
         /\ \A i \in 1..Len(log) : log'[i] = log[i]
BY AppendProperties, LenProperties DEF Stored, TypeOK

\* What a step of one consumer that leaves the tables alone has to show.
LEMMA ReaderMoves ==
  ASSUME Stored, NEW c \in Consumer, NEW p \in Nat, NEW s \in ConsumerState,
         position' = [position EXCEPT ![c] = p], pc' = [pc EXCEPT ![c] = s],
         p <= Len(log), s \in Busy => p < Len(log),
         s = "commit" => log[p + 1] \in keys, UNCHANGED <<log, keys>>
  PROVE  /\ ReadersBehind'
         /\ position' \in [Consumer -> Nat] /\ pc' \in [Consumer -> ConsumerState]
<1>1. position'[c] = p /\ pc'[c] = s
  BY DEF Stored, TypeOK
<1>2. \A d \in Consumer \ {c} : position'[d] = position[d] /\ pc'[d] = pc[d]
  BY DEF Stored, TypeOK
<1>3. ReadersBehind'
  BY <1>1, <1>2 DEF Stored, ReadersBehind, Message
<1>4. position' \in [Consumer -> Nat] /\ pc' \in [Consumer -> ConsumerState]
  BY DEF Stored, TypeOK
<1> QED
  BY <1>3, <1>4

LEMMA NextStored == Stored /\ [Next]_vars => Stored'
<1> SUFFICES ASSUME Stored, [Next]_vars PROVE Stored'
  OBVIOUS
<1> DEFINE Goal == /\ TypeOK' /\ RowsFollowKeys' /\ ReadersBehind'
                   /\ OwnerAtOffset' /\ AcknowledgedHasKey'
<1>0. /\ TypeOK /\ RowsFollowKeys /\ ReadersBehind
      /\ OwnerAtOffset /\ AcknowledgedHasKey
  BY DEF Stored
<1>1. ASSUME NEW e \in Event, Publish(e) PROVE Goal
  <2>1. /\ log' = Append(log, e) /\ failures' \in Nat
        /\ UNCHANGED <<live, committed, owner, position, pc, rows, keys>>
    BY <1>0, <1>1 DEF Publish, Failure, consumerVars, tableVars, TypeOK
  <2>2. /\ log' \in Seq(Event) /\ Len(log') = Len(log) + 1 /\ Len(log) \in Nat
        /\ \A i \in 1..Len(log) : log'[i] = log[i]
    BY <2>1, Appended
  <2>3. TypeOK'
    BY <1>0, <2>1, <2>2 DEF TypeOK
  <2>4. ReadersBehind'
    BY <1>0, <2>1, <2>2 DEF ReadersBehind, Message, TypeOK, Busy
  <2>5. RowsFollowKeys' /\ OwnerAtOffset'
    BY <1>0, <2>1 DEF RowsFollowKeys, OwnerAtOffset
  <2>6. AcknowledgedHasKey'
    BY <1>0, <2>1, <2>2 DEF AcknowledgedHasKey, TypeOK
  <2> QED
    BY <2>3, <2>4, <2>5, <2>6
<1>2. ASSUME NEW e \in Event, Deactivate(e) \/ Activate(e) PROVE Goal
  <2>1. /\ live' \subseteq Event /\ failures' \in Nat
        /\ UNCHANGED <<log, committed, owner, position, pc, rows, keys>>
    BY <1>0, <1>2 DEF Deactivate, Activate, Failure, consumerVars, tableVars, TypeOK
  <2> QED
    BY <1>0, <2>1
       DEF TypeOK, RowsFollowKeys, ReadersBehind, OwnerAtOffset, AcknowledgedHasKey, Message
<1>3. ASSUME NEW c \in Consumer, StartConsumer(c) \/ Rebalance(c) PROVE Goal
  <2>1. /\ owner' = c /\ position' = [position EXCEPT ![c] = committed]
        /\ pc' = [pc EXCEPT ![c] = "poll"] /\ failures' \in Nat
        /\ UNCHANGED <<live, log, committed, rows, keys>>
    BY <1>0, <1>3 DEF StartConsumer, Rebalance, Join, StartPosition, GoTo, Failure,
       tableVars, TypeOK
  <2>2. committed \in Nat /\ committed <= Len(log)
    BY <1>0, LenProperties DEF TypeOK
  <2>3. /\ ReadersBehind'
        /\ position' \in [Consumer -> Nat] /\ pc' \in [Consumer -> ConsumerState]
    BY <2>1, <2>2, ReaderMoves DEF ConsumerState, Busy
  <2>4. TypeOK'
    BY <1>0, <2>1, <2>3 DEF TypeOK
  <2>5. OwnerAtOffset'
    BY <1>0, <2>1 DEF OwnerAtOffset, TypeOK
  <2>6. RowsFollowKeys' /\ AcknowledgedHasKey'
    BY <1>0, <2>1 DEF RowsFollowKeys, AcknowledgedHasKey
  <2> QED
    BY <2>3, <2>4, <2>5, <2>6
\* Steps of a consumer that only move it and may release the partition.
<1>4. ASSUME NEW c \in Consumer, NEW s \in ConsumerState,
             pc' = [pc EXCEPT ![c] = s],
             s \in Busy => position[c] < Len(log),
             s = "commit" => Message(c) \in keys,
             owner' \in {owner, None}, failures' \in Nat,
             UNCHANGED <<live, log, committed, position, rows, keys>>
      PROVE  Goal
  <2>1. /\ position[c] \in Nat /\ position[c] <= Len(log)
        /\ position' = [position EXCEPT ![c] = position[c]]
    BY <1>0, <1>4 DEF TypeOK, ReadersBehind
  <2>2. /\ ReadersBehind'
        /\ position' \in [Consumer -> Nat] /\ pc' \in [Consumer -> ConsumerState]
    BY <1>4, <2>1, ReaderMoves DEF Message
  <2>3. TypeOK'
    BY <1>0, <1>4, <2>2 DEF TypeOK
  <2>4. OwnerAtOffset'
    BY <1>0, <1>4, IngestionAssumption DEF OwnerAtOffset
  <2>5. RowsFollowKeys' /\ AcknowledgedHasKey'
    BY <1>0, <1>4 DEF RowsFollowKeys, AcknowledgedHasKey
  <2> QED
    BY <2>2, <2>3, <2>4, <2>5
<1>5. ASSUME NEW c \in Consumer,
             Poll(c) \/ Validate(c) \/ CallFails(c) \/ StopFailed(c) \/ Crash(c)
      PROVE  Goal
  <2> DEFINE Moves(s) ==
        /\ s \in ConsumerState /\ pc' = [pc EXCEPT ![c] = s]
        /\ s \in Busy => position[c] < Len(log)
        /\ s = "commit" => Message(c) \in keys
  <2>1. /\ owner' \in {owner, None} /\ failures' \in Nat
        /\ UNCHANGED <<live, log, committed, position, rows, keys>>
    BY <1>0, <1>5 DEF Poll, Validate, CallFails, StopFailed, Crash, EndProcess, Failure,
       tableVars, TypeOK
  <2>2. CASE Poll(c)
    BY <1>4, <2>1, <2>2 DEF Poll, GoTo, ConsumerState, Busy
  <2>3. CASE Validate(c)
    <3>1. PICK s \in {"insert", "failed"} : pc' = [pc EXCEPT ![c] = s]
      BY <2>3 DEF Validate, GoTo
    <3>2. position[c] < Len(log)
      BY <1>0, <2>3 DEF Validate, ReadersBehind, Busy
    <3> QED
      BY <1>4, <2>1, <3>1, <3>2 DEF ConsumerState, Busy
  <2>4. CASE CallFails(c)
    BY <1>4, <2>1, <2>4 DEF CallFails, GoTo, ConsumerState, Busy
  <2>5. CASE StopFailed(c) \/ Crash(c)
    BY <1>4, <2>1, <2>5 DEF StopFailed, Crash, EndProcess, GoTo, ConsumerState, Busy
  <2> QED
    BY <1>5, <2>2, <2>3, <2>4, <2>5
<1>6. ASSUME NEW c \in Consumer, Insert(c) PROVE Goal
  <2> DEFINE e == Message(c)
  <2>1. /\ Inserted(e) /\ failures' \in Nat
        /\ UNCHANGED <<live, log, committed, owner, position>>
    BY <1>0, <1>6 DEF Insert, Failure, TypeOK
  <2>2. PICK s \in {"commit", "failed"} : pc' = [pc EXCEPT ![c] = s]
    BY <1>6 DEF Insert, GoTo
  <2>3. position[c] < Len(log) /\ position[c] \in Nat
    BY <1>0, <1>6 DEF Insert, ReadersBehind, Busy, TypeOK
  <2>4. e \in Event
    BY <1>0, <2>3, ElementOfSeq, LenProperties DEF Message, TypeOK
  <2> HIDE DEF e
  <2>5. keys' = keys \cup {e} /\ rows' \in [Event -> Nat]
    <3>1. CASE e \in keys
      BY <1>0, <2>1, <3>1 DEF Inserted, TypeOK, tableVars
    <3>2. CASE e \notin keys
      <4>1. rows' = [rows EXCEPT ![e] = rows[e] + 1] /\ keys' = keys \cup {e}
        BY <2>1, <3>2 DEF Inserted
      <4> QED
        BY <1>0, <2>4, <4>1 DEF TypeOK
    <3> QED
      BY <3>1, <3>2
  <2>6. RowsFollowKeys'
    BY <1>0, <2>1, <2>4 DEF Inserted, RowsFollowKeys, TypeOK, tableVars
  <2>7. TypeOK'
    BY <1>0, <2>1, <2>2, <2>4, <2>5 DEF TypeOK, ConsumerState, Busy
  <2>8. ReadersBehind'
    <3> SUFFICES ASSUME NEW d \in Consumer
                 PROVE  /\ position'[d] <= Len(log')
                        /\ pc'[d] \in Busy => position'[d] < Len(log')
                        /\ pc'[d] = "commit" => Message(d)' \in keys'
      BY DEF ReadersBehind
    <3>1. CASE d = c
      BY <1>0, <2>1, <2>3, <2>5, <3>1 DEF ReadersBehind, Message, e
    <3>2. CASE d # c
      BY <1>0, <2>1, <2>2, <2>5, <3>2 DEF ReadersBehind, Message, TypeOK
    <3> QED
      BY <3>1, <3>2
  <2>9. OwnerAtOffset' /\ AcknowledgedHasKey'
    BY <1>0, <2>1, <2>5 DEF OwnerAtOffset, AcknowledgedHasKey
  <2> QED
    BY <2>6, <2>7, <2>8, <2>9
<1>7. ASSUME NEW c \in Consumer, Commit(c) PROVE Goal
  <2>1. pc[c] = "commit" /\ UNCHANGED <<live, log, owner, rows, keys, failures>>
    BY <1>7 DEF Commit, tableVars
  <2>2. position[c] < Len(log) /\ Message(c) \in keys /\ position[c] \in Nat
    BY <1>0, <2>1 DEF ReadersBehind, Busy, TypeOK
  <2>3. CASE owner # c
    <3>1. pc' = [pc EXCEPT ![c] = "failed"] /\ UNCHANGED <<committed, position>>
      BY <1>7, <2>3 DEF Commit, GoTo
    <3>2. failures' \in Nat
      BY <1>0, <2>1 DEF TypeOK
    <3> QED
      BY <1>4, <2>1, <3>1, <3>2 DEF ConsumerState, Busy
  <2>4. CASE owner = c
    <3>1. /\ position[c] = committed /\ committed' = committed + 1
          /\ position' = [position EXCEPT ![c] = committed + 1]
          /\ pc' = [pc EXCEPT ![c] = "poll"]
      BY <1>0, <1>7, <2>4 DEF Commit, CommitOffset, GoTo, OwnerAtOffset
    <3>2. committed + 1 \in Nat /\ committed + 1 <= Len(log) /\ Len(log) \in Nat
      BY <1>0, <2>2, <3>1, LenProperties DEF TypeOK
    <3>3. /\ ReadersBehind'
          /\ position' \in [Consumer -> Nat] /\ pc' \in [Consumer -> ConsumerState]
      BY <2>1, <3>1, <3>2, ReaderMoves DEF ConsumerState, Busy
    <3>4. TypeOK'
      BY <1>0, <2>1, <3>1, <3>2, <3>3 DEF TypeOK
    <3>5. OwnerAtOffset'
      BY <1>0, <2>1, <2>4, <3>1 DEF OwnerAtOffset, TypeOK
    <3>6. AcknowledgedHasKey'
      <4>1. log[committed + 1] \in keys
        BY <2>2, <3>1 DEF Message
      <4>2. \A i \in 1..committed' : i \in 1..committed \/ i = committed + 1
        <5>1. committed \in Nat
          BY <1>0, LenProperties DEF TypeOK
        <5> QED
          BY <3>1, <5>1
      <4> QED
        BY <1>0, <2>1, <4>1, <4>2 DEF AcknowledgedHasKey
    <3>7. RowsFollowKeys'
      BY <1>0, <2>1 DEF RowsFollowKeys
    <3> QED
      BY <3>3, <3>4, <3>5, <3>6, <3>7
  <2> QED
    BY <2>3, <2>4
<1>8. ASSUME UNCHANGED vars PROVE Goal
  BY <1>0, <1>8 DEF vars, consumerVars, tableVars, TypeOK, RowsFollowKeys, ReadersBehind,
     OwnerAtOffset, AcknowledgedHasKey, Message
<1>9. Goal
  <2> HIDE DEF Goal
  <2> QED
    BY <1>1, <1>2, <1>3, <1>5, <1>6, <1>7, <1>8 DEF Next, ConsumerStep
<1> QED
  BY <1>9 DEF Stored

-----------------------------------------------------------------------------
\* Every variable keeps its type; the committed offset stays in the topic.
THEOREM TypeCorrect == Spec => []TypeOK
<1>1. Stored => TypeOK
  BY DEF Stored
<1> QED
  BY <1>1, InitStored, NextStored, PTL DEF Spec

\* However often an event is sent and delivered, it has one execution at most.
THEOREM AtMostOnce == Spec => []OncePerEvent
<1>1. Stored => OncePerEvent
  <2> SUFFICES ASSUME Stored, NEW e \in Event PROVE rows[e] <= 1
    BY DEF OncePerEvent
  <2>1. rows[e] = 0 \/ rows[e] = 1
    BY DEF Stored, RowsFollowKeys
  <2> QED
    BY <2>1
<1> QED
  BY <1>1, InitStored, NextStored, PTL DEF Spec

\* No acknowledged event is without its execution.
THEOREM NothingLost == Spec => []AcknowledgedIsPersisted
<1>1. Stored => AcknowledgedIsPersisted
  <2> SUFFICES ASSUME Stored, NEW i \in 1..committed PROVE rows[log[i]] >= 1
    BY DEF AcknowledgedIsPersisted
  <2>1. log[i] \in Event
    BY ElementOfSeq, LenProperties DEF Stored, TypeOK
  <2> QED
    BY <2>1 DEF Stored, RowsFollowKeys, AcknowledgedHasKey
<1> QED
  BY <1>1, InitStored, NextStored, PTL DEF Spec
=============================================================================
