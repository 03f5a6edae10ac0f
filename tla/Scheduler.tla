----------------------------- MODULE Scheduler -----------------------------
(***************************************************************************)
(* The dispatch cycles that turn approved clips into polling jobs, in      *)
(* pages behind a cursor, from one or more instances of the application    *)
(* that share a queue (metric-scheduler.js, polling.policy.js,             *)
(* queues/index.js).                                                       *)
(* A clip is its id: pages are ordered by it.                              *)
(***************************************************************************)
EXTENDS Integers, Sequences, FiniteSets, FiniteSetsExt, SequencesExt

CONSTANTS
  Instances,  \* instances of the application
  Clips,      \* the ids
  BatchSize,  \* config.polling.batchSize
  Kept,       \* completed jobs the queue remembers
  Changes,    \* "join", "leave": how clips change while cycles run
  Faults,     \* "query", "add"
  MaxChanges, \* bound on the changes
  MaxErrors   \* bound on the failures

\* What the constants may be.
SchedulerConstants ==
  /\ Clips \subseteq Nat \ {0} /\ IsFiniteSet(Clips)
  /\ BatchSize \in Nat \ {0} /\ Kept \in Nat
  /\ Changes \subseteq {"join", "leave"} /\ Faults \subseteq {"query", "add"}
  /\ MaxChanges \in Nat /\ MaxErrors \in Nat

VARIABLES
  eligible,        \* the clips the where clause of the query holds for
  bucket,          \* the current interval, 0 or 1
  waiting,         \* jobs to be done, <<clip, bucket>>
  done,            \* completed jobs the queue remembers, oldest first
  isDispatching,   \* per instance, the guard
  cycle,           \* per instance, the dispatch cycle in progress
  changes, errors  \* changes and failures so far

vars  == <<eligible, bucket, waiting, done, isDispatching, cycle, changes, errors>>
queue == <<waiting, done>>

Buckets == {0, 1}
Jobs    == Clips \X Buckets
Idle    == [stage |-> "idle"]

TypeOK ==
  /\ eligible \subseteq Clips
  /\ bucket \in Buckets
  /\ waiting \subseteq Jobs
  /\ done \in Seq(Jobs) /\ Len(done) <= Kept
  /\ isDispatching \in [Instances -> BOOLEAN]
  /\ \A i \in Instances :
       \/ cycle[i] = Idle /\ ~isDispatching[i]
       \/ /\ isDispatching[i]
          /\ cycle[i].stage \in {"page", "add"}
          /\ cycle[i].bucket \in Buckets
          /\ cycle[i].cursor \in Clips \cup {0}
          /\ cycle[i].batch \in Seq(Clips) /\ Len(cycle[i].batch) <= BatchSize
          /\ cycle[i].full \in BOOLEAN
  /\ changes \in 0..MaxChanges /\ errors \in 0..MaxErrors

Init ==
  /\ eligible \in SUBSET Clips
  /\ bucket = 0
  /\ waiting = {} /\ done = <<>>
  /\ isDispatching = [i \in Instances |-> FALSE]
  /\ cycle = [i \in Instances |-> Idle]
  /\ changes = 0 /\ errors = 0

Fails(f) == f \in Faults /\ errors < MaxErrors /\ errors' = errors + 1

-----------------------------------------------------------------------------
(* The queue                                                               *)

\* BullMQ ignores an id that it still remembers, waiting or completed.
Known(j) == j \in waiting \/ Contains(done, j)

Add(j) ==
  /\ waiting' = IF Known(j) THEN waiting ELSE waiting \cup {j}
  /\ UNCHANGED done

Remembered(s) == IF Len(s) > Kept THEN Tail(s) ELSE s

Work(j) ==
  /\ j \in waiting
  /\ waiting' = waiting \ {j}
  /\ done' = Remembered(Append(done, j))
  /\ UNCHANGED <<eligible, bucket, isDispatching, cycle, changes, errors>>

-----------------------------------------------------------------------------
(* A dispatch cycle                                                        *)

\* The rows of a query with cursor, skip 1 and take: those from the cursor
\* on, of which the first is skipped, whether it is the cursor or not.
Rows(cursor) ==
  LET from == SetToSortSeq({c \in eligible : c >= cursor}, <)
      rows == IF cursor = 0 THEN from ELSE IF from = <<>> THEN <<>> ELSE Tail(from)
  IN SubSeq(rows, 1, IF Len(rows) < BatchSize THEN Len(rows) ELSE BatchSize)

\* The guard keeps cycles of one instance from overlapping.
Begin(i) ==
  /\ ~isDispatching[i]
  /\ isDispatching' = [isDispatching EXCEPT ![i] = TRUE]
  /\ cycle' = [cycle EXCEPT ![i] =
       [stage |-> "page", bucket |-> bucket, cursor |-> 0, batch |-> <<>>, full |-> FALSE]]
  /\ UNCHANGED <<eligible, bucket, queue, changes, errors>>

\* The finally of the cycle.
Ends(i) ==
  /\ cycle' = [cycle EXCEPT ![i] = Idle]
  /\ isDispatching' = [isDispatching EXCEPT ![i] = FALSE]

Page(i) ==
  /\ cycle[i].stage = "page"
  /\ LET batch == Rows(cycle[i].cursor) IN
     IF batch = <<>>
     THEN Ends(i)
     ELSE /\ cycle' = [cycle EXCEPT ![i] = [@ EXCEPT !.stage = "add", !.batch = batch,
                         !.full = Len(batch) = BatchSize, !.cursor = Last(batch)]]
          /\ UNCHANGED isDispatching
  /\ UNCHANGED <<eligible, bucket, queue, changes, errors>>

QueryFails(i) ==
  /\ cycle[i].stage = "page"
  /\ Fails("query")
  /\ Ends(i)
  /\ UNCHANGED <<eligible, bucket, queue, changes>>

BugAfterAdd(i) ==
  IF Len(cycle[i].batch) > 1
  THEN cycle' = [cycle EXCEPT ![i].batch = Tail(@)] /\ UNCHANGED isDispatching
  ELSE Ends(i)

\* The next clip of the page, the next page after a full one, or the end.
AfterAdd(i) ==
  IF Len(cycle[i].batch) > 1
  THEN cycle' = [cycle EXCEPT ![i].batch = Tail(@)] /\ UNCHANGED isDispatching
  ELSE IF cycle[i].full
       THEN /\ cycle' = [cycle EXCEPT ![i] = [@ EXCEPT !.stage = "page", !.batch = <<>>]]
            /\ UNCHANGED isDispatching
       ELSE Ends(i)

Enqueue(i) ==
  /\ cycle[i].stage = "add"
  /\ Add(<<Head(cycle[i].batch), cycle[i].bucket>>)
  /\ AfterAdd(i)
  /\ UNCHANGED <<eligible, bucket, changes, errors>>

\* Every error of an add is taken for a duplicate.
EnqueueFails(i) ==
  /\ cycle[i].stage = "add"
  /\ Fails("add")
  /\ AfterAdd(i)
  /\ UNCHANGED <<eligible, bucket, queue, changes>>

\* The interval is over; a cycle that began in it keeps its bucket.
NextBucket ==
  /\ \A i \in Instances : cycle[i] # Idle => cycle[i].bucket = bucket
  /\ \A j \in waiting : j[2] = bucket
  /\ bucket' = 1 - bucket
  /\ done' = SelectSeq(done, LAMBDA j : j[2] = bucket)
  /\ UNCHANGED <<eligible, waiting, isDispatching, cycle, changes, errors>>

-----------------------------------------------------------------------------
(* Clips are approved and stop being so                                    *)

Change ==
  /\ changes < MaxChanges
  /\ changes' = changes + 1
  /\ \E c \in Clips :
       \/ "join" \in Changes /\ c \notin eligible /\ eligible' = eligible \cup {c}
       \/ "leave" \in Changes /\ c \in eligible /\ eligible' = eligible \ {c}
  /\ UNCHANGED <<bucket, queue, isDispatching, cycle, errors>>

-----------------------------------------------------------------------------
Dispatches(i) == Page(i) \/ Enqueue(i)

Next ==
  \/ \E i \in Instances : Begin(i) \/ Dispatches(i) \/ QueryFails(i) \/ EnqueueFails(i)
  \/ \E j \in Jobs : Work(j)
  \/ NextBucket \/ Change

Spec == Init /\ [][Next]_vars

\* The timers fire, the database and the queue answer, jobs are done.
FairSpec ==
  /\ Spec
  /\ WF_vars(NextBucket)
  /\ \A i \in Instances : WF_vars(Begin(i)) /\ WF_vars(Dispatches(i))
  /\ WF_vars(\E j \in Jobs : Work(j))

-----------------------------------------------------------------------------
(* Properties                                                              *)

\* A clip that stays approved is polled again and again: no failure stops the
\* cycles for good and no page order leaves a clip out for ever.
EveryClipPolled ==
  \A c \in Clips : []<>(c \notin eligible \/ \E b \in Buckets : <<c, b>> \in waiting)
=============================================================================
