------------------------- MODULE SubmissionsProofs -------------------------
(***************************************************************************)
(* Proofs about Submissions, for every number of rows, clips, creators and *)
(* calls, every set of outcomes and faults, and every bound.               *)
(***************************************************************************)
EXTENDS Submissions, SequenceTheorems, TLAPS

USE SubmissionConstants

(***************************************************************************)
(* The inductive invariants                                                *)
(***************************************************************************)

\* The calls about a row, by stage.
OnRow == {"enqueue", "load", "load_forced", "measure", "decide", "record"}

\* The unique index on the clip.
OneRowPerClip == \A r, s \in Rows : clip[r] = clip[s] /\ clip[r] # None => r = s

\* A row that is not there has had no status, no entry and no job.
NothingBefore ==
  \A s \in Rows : ~Exists(s) => /\ held[s] = {}
                                /\ status[s] = "PENDING_VERIFICATION"
                                /\ history[s] = <<>>
                                /\ job[s] = "none"
                                /\ tries[s] = 0

\* A job that waits has an attempt left.
AttemptsLeft == \A s \in Rows : job[s] = "waiting" => tries[s] < Attempts

\* The calls about rows found them; only the call that inserted a row
\* queues its job, and it does so once.
CallsHaveRows ==
  /\ \A w \in Workers : call[w].stage \in OnRow => Exists(call[w].row)
  /\ \A w \in Workers : call[w].stage = "enqueue" =>
       job[call[w].row] = "none" /\ tries[call[w].row] = 0
  /\ \A v, w \in Workers :
       call[v].stage = "enqueue" /\ call[w].stage = "enqueue" /\ call[v].row = call[w].row
         => v = w

Sound == TypeOK /\ OneRowPerClip /\ NothingBefore /\ AttemptsLeft /\ CallsHaveRows

\* What is held of a row includes its status, and a review after approval
\* is decided of a row that has been approved.
Grounded ==
  /\ \A s \in Rows : Exists(s) => status[s] \in held[s]
  /\ \A w \in Workers : call[w].stage = "decide" =>
       /\ call[w].to # "PENDING_VERIFICATION"
       /\ call[w].to = "POST_APPROVAL_REVIEW" => "APPROVED" \in held[call[w].row]

\* What the history says while one call is about: up to the decision it
\* ends with the status, and the call knows that; between the decision and its
\* entry it ends with what the call knows and the status is what the entry
\* will say.
Following(w) ==
  /\ call[w].stage = "measure" => call[w].from = status[call[w].row]
  /\ call[w].stage = "decide" => call[w].from = status[call[w].row] /\ call[w].noted
  /\ call[w].stage = "record" =>
       call[w].from = Told(call[w].row) /\ call[w].to = status[call[w].row]

Recording(s) == \E w \in Workers : call[w].stage = "record" /\ call[w].row = s

OneCall == \A v, w \in Workers : call[v] # Idle /\ call[w] # Idle => v = w

Telling ==
  /\ OneCall
  /\ \A w \in Workers : Following(w)
  /\ \A s \in Rows : Chained(s) /\ (Recording(s) \/ Told(s) = status[s])

Undisturbed == met \cap {"overlap", "history", "crash", "keep"} = {} => Telling

(***************************************************************************)
(* Lemmas about the calls and the jobs                                     *)
(***************************************************************************)

Entry     == [from : Statuses, to : Statuses]
Mets      == AllFaults \cup {"overlap", "hidden", "keep", "reverify"}
Inserting == [stage : {"insert"}, clip : Clips, owner : Creators]
Deciding  == [stage : {"decide"}, row : Rows, from : Statuses, to : Statuses, noted : BOOLEAN]
Recorded  == [stage : {"record"}, row : Rows, from : Statuses, to : Statuses]

LEMMA IdleTyped == Idle \in Calls /\ Idle.stage = "idle"
  BY DEF Calls, Idle

\* A call is what its stage says it is.
LEMMA CallKinds ==
  ASSUME TypeOK, NEW w \in Workers
  PROVE  /\ call[w].stage \in OnRow \cup {"idle", "insert"}
         /\ call[w].stage = "idle" => call[w] = Idle
         /\ call[w].stage = "insert" => call[w] \in Inserting
         /\ call[w].stage \in OnRow => call[w].row \in Rows
         /\ call[w].stage = "measure" => call[w].from \in Statuses
         /\ call[w].stage = "decide" => call[w] \in Deciding
         /\ call[w].stage = "record" => call[w] \in Recorded
<1>1. call[w] \in Calls
  BY DEF TypeOK
<1>2. CASE call[w] \in Inserting
  BY <1>2 DEF OnRow, Inserting
<1>5. CASE call[w] = Idle
  <2>1. call[w].stage = "idle"
    BY <1>5, IdleTyped
  <2> QED BY <1>5, <2>1 DEF OnRow
<1>3. CASE call[w] \in Deciding \/ call[w] \in Recorded
  BY <1>3 DEF Deciding, Recorded, OnRow
<1>4. CASE \/ call[w] \in [stage : {"enqueue"}, row : Rows]
           \/ call[w] \in [stage : {"load", "load_forced"}, row : Rows]
           \/ call[w] \in [stage : {"measure"}, row : Rows, from : Statuses]
  BY <1>4 DEF OnRow
<1> QED BY <1>1, <1>2, <1>3, <1>4, <1>5 DEF Calls, Inserting, Deciding, Recorded

\* A worker that goes on keeps the other calls as they were.
LEMMA BecomeTyped ==
  ASSUME TypeOK, NEW w \in Workers, NEW c \in Calls, Become(w, c)
  PROVE  /\ call' \in [Workers -> Calls]
         /\ call'[w] = c
         /\ \A v \in Workers \ {w} : call'[v] = call[v]
  BY DEF TypeOK, Become

\* A run decides one of the four verdicts of the verification.
LEMMA VerdictKinds ==
  ASSUME NEW outcome \in Outcomes \ {"transient", "hidden"}
  PROVE  /\ Verdict(outcome) \in {"APPROVED", "FLAGGED", "REJECTED", "UNDER_REVIEW"}
         /\ Ends(outcome) \in Verifications
  BY DEF Verdict, Ends, AllOutcomes, Verifications

\* Staff decide statuses other than waiting, and a review only of what they
\* read as approved.
LEMMA DecisionKinds ==
  ASSUME NEW op, NEW from, NEW to \in Decision(op, from)
  PROVE  /\ to \in Statuses \ {"PENDING_VERIFICATION"}
         /\ to = "POST_APPROVAL_REVIEW" => from = "APPROVED"
  BY DEF Decision, Statuses

\* What becomes of a job in the hands of a worker: no job comes out of
\* nothing, and one that waits again has an attempt left.
JobKept ==
  /\ job' \in [Rows -> Jobs]
  /\ AttemptsLeft'
  /\ \A r \in Rows : job[r] = "none" => job'[r] = "none"

LEMMA JobUnchanged ==
  ASSUME Sound, UNCHANGED jobs
  PROVE  JobKept
  BY DEF Sound, TypeOK, AttemptsLeft, JobKept, jobs

LEMMA JobGoes ==
  ASSUME Sound, UNCHANGED tries, NEW s \in Rows, job[s] = "active",
         NEW j, j \in {"done", "failed"} \/ (j = "waiting" /\ tries[s] < Attempts),
         job' = [job EXCEPT ![s] = j]
  PROVE  JobKept
  BY DEF Sound, TypeOK, AttemptsLeft, JobKept, Jobs

LEMMA JobEnds ==
  ASSUME Sound, UNCHANGED tries, NEW w \in Workers, NEW s \in Rows,
         JobReturns(w, s) \/ JobThrows(w, s)
  PROVE  JobKept
<1>1. CASE UNCHANGED job
  BY <1>1, JobUnchanged DEF jobs
<1>2. CASE job[s] = "active" /\ job' = [job EXCEPT ![s] = "done"]
  BY <1>2, JobGoes
<1>3. CASE job[s] = "active" /\ job' = [job EXCEPT ![s] = AfterError(s)]
  <2>1. \/ AfterError(s) \in {"done", "failed"}
        \/ AfterError(s) = "waiting" /\ tries[s] < Attempts
    BY DEF AfterError
  <2> QED BY <1>3, <2>1, JobGoes
<1> QED BY <1>1, <1>2, <1>3 DEF JobReturns, JobThrows, JobBecomes

LEMMA MetTyped ==
  ASSUME TypeOK, NEW f
  PROVE  /\ Happens(f) => met' \subseteq Mets
         /\ Begins => met' \subseteq Mets
         /\ met \subseteq Mets /\ Overlap \subseteq Mets
  BY DEF TypeOK, Happens, Begins, Overlap, Mets

(***************************************************************************)
(* Type correctness                                                        *)
(***************************************************************************)

\* What a call about a row that is there may do to the tables: no other row
\* comes or goes.
TablesKept ==
  /\ UNCHANGED <<rows, tries>>
  /\ status' \in [Rows -> Statuses] /\ held' \in [Rows -> SUBSET Statuses]
  /\ history' \in [Rows -> Seq(Entry)]
  /\ \A s \in Rows : ~Exists(s) => /\ status'[s] = status[s]
                                   /\ held'[s] = held[s]
                                   /\ history'[s] = history[s]
  /\ verification' \in [Rows -> Verifications]
  /\ errors' \in Nat
  /\ met' \subseteq Mets

LEMMA CallSound ==
  ASSUME Sound, JobKept, TablesKept, NEW w \in Workers, NEW c \in Calls, Become(w, c),
         c.stage # "enqueue", c.stage \in OnRow => Exists(c.row)
  PROVE  Sound'
<1>1. /\ call' \in [Workers -> Calls]
      /\ call'[w] = c
      /\ \A v \in Workers \ {w} : call'[v] = call[v]
  BY BecomeTyped DEF Sound
<1>2. TypeOK'
  BY <1>1 DEF Sound, TypeOK, JobKept, TablesKept, rows, Entry, Mets
<1>3. OneRowPerClip'
  BY DEF Sound, OneRowPerClip, TablesKept, rows
<1>4. NothingBefore'
  BY DEF Sound, NothingBefore, TablesKept, JobKept, rows, Exists
<1>5. \A v \in Workers : call'[v].stage \in OnRow => clip'[call'[v].row] # None
  BY <1>1 DEF Sound, CallsHaveRows, TablesKept, rows, Exists
<1>6. \A v \in Workers : call'[v].stage = "enqueue" =>
        call'[v] = call[v] /\ job'[call'[v].row] = "none" /\ tries'[call'[v].row] = 0
  <2> SUFFICES ASSUME NEW v \in Workers, call'[v].stage = "enqueue"
               PROVE  call'[v] = call[v] /\ job'[call'[v].row] = "none" /\ tries'[call'[v].row] = 0
    OBVIOUS
  <2>1. v # w /\ call'[v] = call[v]
    BY <1>1
  <2>2. call[v].row \in Rows /\ job[call[v].row] = "none" /\ tries[call[v].row] = 0
    BY <2>1, CallKinds DEF Sound, CallsHaveRows, OnRow
  <2> QED BY <2>1, <2>2 DEF TablesKept, JobKept
<1>7. CallsHaveRows'
  BY <1>5, <1>6 DEF Sound, CallsHaveRows, Exists
<1> QED BY <1>2, <1>3, <1>4, <1>7 DEF Sound, JobKept

\* A call that only reads the tables keeps them.
LEMMA TablesRead ==
  ASSUME Sound, UNCHANGED <<rows, tries, states, history>>,
         verification' \in [Rows -> Verifications], errors' \in Nat, met' \subseteq Mets
  PROVE  TablesKept
  BY DEF Sound, TypeOK, TablesKept, rows, states, Entry

LEMMA BeginSound ==
  ASSUME Sound, NEW w \in Workers, Begin(w)
  PROVE  Sound'
<1>0. TypeOK
  BY DEF Sound
<1>1. PICK c \in Calls : Become(w, c) /\ c.stage # "enqueue" /\ (c.stage \in OnRow => Exists(c.row))
  <2>1. ASSUME NEW o \in Creators, NEW x \in Clips, BeginSubmit(w, o, x)
        PROVE  \E c \in Calls : Become(w, c) /\ c.stage # "enqueue"
                                  /\ (c.stage \in OnRow => Exists(c.row))
    <3>1. [stage |-> "insert", clip |-> x, owner |-> o] \in Calls
      BY DEF Calls
    <3> QED BY <2>1, <3>1 DEF BeginSubmit, OnRow
  <2>2. ASSUME NEW s \in Rows, NEW op \in Staff, BeginDecision(w, s, op)
        PROVE  \E c \in Calls : Become(w, c) /\ c.stage # "enqueue"
                                  /\ (c.stage \in OnRow => Exists(c.row))
    <3>1. PICK to \in Decision(op, status[s]) :
            Become(w, [stage |-> "decide", row |-> s, from |-> status[s], to |-> to,
                       noted |-> TRUE])
      BY <2>2 DEF BeginDecision
    <3>2. [stage |-> "decide", row |-> s, from |-> status[s], to |-> to, noted |-> TRUE] \in Calls
      BY <1>0, DecisionKinds DEF Calls, TypeOK
    <3> QED BY <2>2, <3>1, <3>2 DEF BeginDecision
  <2>3. ASSUME NEW s \in Rows, BeginKeep(w, s)
        PROVE  \E c \in Calls : Become(w, c) /\ c.stage # "enqueue"
                                  /\ (c.stage \in OnRow => Exists(c.row))
    <3>1. [stage |-> "decide", row |-> s, from |-> status[s], to |-> "UNDER_REVIEW",
           noted |-> FALSE] \in Calls
      BY <1>0 DEF Calls, TypeOK, Statuses
    <3> QED BY <2>3, <3>1 DEF BeginKeep
  <2>4. ASSUME NEW s \in Rows, BeginReverify(w, s)
        PROVE  \E c \in Calls : Become(w, c) /\ c.stage # "enqueue"
                                  /\ (c.stage \in OnRow => Exists(c.row))
    <3>1. [stage |-> "load_forced", row |-> s] \in Calls
      BY DEF Calls
    <3> QED BY <2>4, <3>1 DEF BeginReverify
  <2> QED BY <2>1, <2>2, <2>3, <2>4 DEF Begin
<1>2. UNCHANGED <<rows, states, verification, jobs, history, errors>>
  BY DEF Begin, BeginSubmit, BeginDecision, BeginKeep, BeginReverify
<1>3. met' \subseteq Mets
  BY <1>0, MetTyped DEF Begin, BeginSubmit, BeginDecision, BeginKeep, BeginReverify, Mets
<1>4. TablesKept
  BY <1>0, <1>2, <1>3, TablesRead DEF jobs, TypeOK
<1> QED BY <1>1, <1>2, <1>4, JobUnchanged, CallSound

\* The insert takes room that was free, and is the only one to queue the job
\* of the new row.
LEMMA InsertSound ==
  ASSUME Sound, NEW w \in Workers, InsertSubmission(w)
  PROVE  Sound'
<1>0. TypeOK /\ call[w] \in Inserting
  BY CallKinds DEF Sound, InsertSubmission
<1>1. CASE Become(w, Idle) /\ UNCHANGED <<rows, states>>
  <2>1. TablesKept
    BY <1>0, <1>1, TablesRead, MetTyped DEF InsertSubmission, jobs, TypeOK
  <2> QED BY <1>1, <2>1, JobUnchanged, CallSound, IdleTyped DEF InsertSubmission, OnRow
<1>2. ASSUME ~Taken(call[w].owner, call[w].clip), NEW s \in Rows, ~Exists(s),
             clip' = [clip EXCEPT ![s] = call[w].clip],
             owner' = [owner EXCEPT ![s] = call[w].owner],
             Enter(s, "PENDING_VERIFICATION"),
             Become(w, [stage |-> "enqueue", row |-> s])
      PROVE  Sound'
  <2>1. [stage |-> "enqueue", row |-> s] \in Calls
    BY DEF Calls
  <2>2. /\ call' \in [Workers -> Calls]
        /\ call'[w] = [stage |-> "enqueue", row |-> s]
        /\ \A v \in Workers \ {w} : call'[v] = call[v]
    BY <1>0, <1>2, <2>1, BecomeTyped
  <2>3. /\ clip' \in [Rows -> Clips \cup {None}]
        /\ clip'[s] # None /\ clip'[s] = call[w].clip
        /\ \A r \in Rows \ {s} : clip'[r] = clip[r]
    BY <1>0, <1>2 DEF TypeOK, Inserting
  <2>4. UNCHANGED <<verification, jobs, history, errors, met>>
    BY DEF InsertSubmission
  <2>5. TypeOK'
    BY <1>0, <1>2, <2>2, <2>3, <2>4 DEF TypeOK, Inserting, Enter, Statuses, jobs
  <2>6. OneRowPerClip'
    BY <1>2, <2>3 DEF Sound, OneRowPerClip, Taken
  <2>7. NothingBefore'
    BY <1>0, <1>2, <2>3, <2>4 DEF Sound, NothingBefore, Exists, Enter, jobs, TypeOK
  <2>8. AttemptsLeft'
    BY <2>4 DEF Sound, AttemptsLeft, jobs
  <2>9. \A v \in Workers : call[v].stage \in OnRow => call[v].row \in Rows \ {s}
    BY <1>0, <1>2, CallKinds DEF Sound, CallsHaveRows
  <2>10. CallsHaveRows'
    <3>1. \A v \in Workers : call'[v].stage \in OnRow => clip'[call'[v].row] # None
      BY <2>2, <2>3, <2>9 DEF Sound, CallsHaveRows, Exists
    <3>2. \A v \in Workers : call'[v].stage = "enqueue" =>
            job'[call'[v].row] = "none" /\ tries'[call'[v].row] = 0
      BY <1>2, <2>2, <2>4 DEF Sound, CallsHaveRows, NothingBefore, jobs
    <3>3. \A v \in Workers \ {w} : call'[v].stage = "enqueue" => call'[v].row # s
      BY <2>2, <2>9 DEF OnRow
    <3>4. \A u, v \in Workers :
            call'[u].stage = "enqueue" /\ call'[v].stage = "enqueue" /\ call'[u].row = call'[v].row
              => u = v
      BY <2>2, <3>3 DEF Sound, CallsHaveRows
    <3> QED BY <3>1, <3>2, <3>4 DEF CallsHaveRows, Exists
  <2> QED BY <2>5, <2>6, <2>7, <2>8, <2>10 DEF Sound
<1> QED BY <1>1, <1>2 DEF InsertSubmission

LEMMA EnqueueSound ==
  ASSUME Sound, NEW w \in Workers, Enqueue(w)
  PROVE  Sound'
<1> PICK s \in Rows : s = call[w].row
  BY CallKinds DEF Sound, Enqueue, OnRow
<1>0. TypeOK /\ s \in Rows /\ Exists(s) /\ job[s] = "none" /\ tries[s] = 0
  BY DEF Sound, Enqueue, CallsHaveRows, OnRow
<1>1. [stage |-> "load_forced", row |-> s] \in Calls
  BY <1>0 DEF Calls
<1>2. TablesKept
  BY <1>0, TablesRead, MetTyped DEF Enqueue, TypeOK
<1>3. CASE UNCHANGED job
  <2>1. JobKept
    BY <1>3, JobUnchanged DEF Enqueue, jobs
  <2> QED BY <1>0, <1>1, <1>2, <2>1, CallSound DEF Enqueue
<1>4. CASE job' = [job EXCEPT ![s] = "waiting"]
  <2>1. /\ call' \in [Workers -> Calls]
        /\ call'[w] = [stage |-> "load_forced", row |-> s]
        /\ \A v \in Workers \ {w} : call'[v] = call[v]
    BY <1>0, <1>1, BecomeTyped DEF Enqueue
  <2>2. job' \in [Rows -> Jobs]
    BY <1>0, <1>4 DEF TypeOK, Jobs
  <2>3. TypeOK'
    BY <1>0, <1>2, <2>1, <2>2 DEF TypeOK, TablesKept, rows, Entry, Mets
  <2>4. OneRowPerClip' /\ NothingBefore' /\ AttemptsLeft'
    BY <1>0, <1>2, <1>4
       DEF Sound, TypeOK, OneRowPerClip, NothingBefore, AttemptsLeft, TablesKept, rows, Exists,
           Attempts
  <2>5. \A v \in Workers : call'[v].stage \in OnRow => clip'[call'[v].row] # None
    <3>1. UNCHANGED clip
      BY <1>2 DEF TablesKept, rows
    <3>2. CallsHaveRows
      BY DEF Sound
    <3>3. call'[w].row = s
      BY <2>1
    <3> QED BY <1>0, <2>1, <3>1, <3>2, <3>3 DEF CallsHaveRows, Exists
  <2>6. \A v \in Workers : call'[v].stage = "enqueue" =>
          v # w /\ call'[v] = call[v] /\ call[v].row # s
    <3>1. call[w].stage = "enqueue"
      BY DEF Enqueue
    <3>2. call'[w].stage = "load_forced"
      BY <2>1
    <3>3. CallsHaveRows
      BY DEF Sound
    <3> QED BY <2>1, <3>1, <3>2, <3>3 DEF CallsHaveRows
  <2>7. CallsHaveRows'
    BY <1>0, <1>2, <1>4, <2>5, <2>6 DEF Sound, TypeOK, CallsHaveRows, TablesKept, Exists
  <2> QED BY <2>3, <2>4, <2>7 DEF Sound
<1> QED BY <1>3, <1>4 DEF Enqueue

LEMMA TakeJobSound ==
  ASSUME Sound, NEW w \in Workers, NEW s \in Rows, TakeJob(w, s)
  PROVE  Sound'
<1>0. TypeOK /\ Exists(s) /\ tries[s] < Attempts
  BY DEF Sound, TakeJob, NothingBefore, AttemptsLeft
<1>1. [stage |-> "load", row |-> s] \in Calls
  BY DEF Calls
<1>2. /\ call' \in [Workers -> Calls]
      /\ call'[w] = [stage |-> "load", row |-> s]
      /\ \A v \in Workers \ {w} : call'[v] = call[v]
  BY <1>0, <1>1, BecomeTyped DEF TakeJob
<1>3. job' \in [Rows -> Jobs] /\ tries' \in [Rows -> 0..Attempts]
  <2>1. tries[s] + 1 \in 0..Attempts
    <3>1. tries[s] \in 0..Attempts
      BY <1>0 DEF TypeOK
    <3> QED BY <1>0, <3>1 DEF Attempts
  <2>2. tries' = [tries EXCEPT ![s] = tries[s] + 1] /\ job' = [job EXCEPT ![s] = "active"]
    BY DEF TakeJob
  <2> QED BY <1>0, <2>1, <2>2 DEF TypeOK, Jobs
<1>4. TypeOK'
  BY <1>0, <1>2, <1>3, MetTyped DEF TakeJob, TypeOK, rows, states, Mets
<1>5. OneRowPerClip' /\ NothingBefore' /\ AttemptsLeft'
  BY <1>0 DEF Sound, TakeJob, TypeOK, OneRowPerClip, NothingBefore, AttemptsLeft, rows, states, Exists
<1>6. \A v \in Workers : call'[v].stage \in OnRow => clip'[call'[v].row] # None
  BY <1>0, <1>2 DEF Sound, CallsHaveRows, TakeJob, rows, Exists
<1>7. \A v \in Workers : call'[v].stage = "enqueue" =>
        call'[v] = call[v] /\ call[v].row # s /\ job'[call[v].row] = job[call[v].row]
          /\ tries'[call[v].row] = tries[call[v].row]
  <2> SUFFICES ASSUME NEW v \in Workers, call'[v].stage = "enqueue"
               PROVE  /\ call'[v] = call[v] /\ call[v].row # s
                      /\ job'[call[v].row] = job[call[v].row]
                      /\ tries'[call[v].row] = tries[call[v].row]
    OBVIOUS
  <2>1. v # w /\ call'[v] = call[v]
    BY <1>2
  <2>2. call[v].row \in Rows /\ job[call[v].row] = "none"
    BY <1>0, <2>1, CallKinds DEF Sound, CallsHaveRows, OnRow
  <2> QED BY <1>0, <2>1, <2>2 DEF TakeJob, TypeOK
<1>8. CallsHaveRows'
  BY <1>6, <1>7 DEF Sound, CallsHaveRows, Exists
<1> QED BY <1>4, <1>5, <1>8 DEF Sound

LEMMA ResumeSound ==
  ASSUME Sound, NEW w \in Workers, Resume(w)
  PROVE  Sound'
<1> DEFINE s == call[w].row
<1>0. TypeOK
  BY DEF Sound
<1>1. ASSUME call[w].stage \in OnRow PROVE s \in Rows /\ Exists(s)
  BY <1>0, <1>1, CallKinds DEF Sound, CallsHaveRows
<1>2. CASE Load(w)
  <2>1. s \in Rows /\ Exists(s)
    BY <1>1, <1>2 DEF Load, OnRow
  <2>2. verification' \in [Rows -> Verifications]
    BY <1>0, <1>2, <2>1 DEF Load, TypeOK, Verifications
  <2>3. TablesKept
    BY <1>0, <1>2, <2>2, TablesRead, MetTyped DEF Load, TypeOK
  <2>4. CASE Become(w, Idle) /\ JobReturns(w, s)
    <3>1. JobKept
      BY <1>2, <2>1, <2>4, JobEnds DEF Load
    <3> QED BY <2>3, <2>4, <3>1, CallSound, IdleTyped DEF OnRow
  <2>5. CASE Become(w, [stage |-> "measure", row |-> s, from |-> status[s]]) /\ UNCHANGED job
    <3>1. [stage |-> "measure", row |-> s, from |-> status[s]] \in Calls
      BY <1>0, <2>1 DEF Calls, TypeOK
    <3>2. JobKept
      BY <1>2, <2>5, JobUnchanged DEF Load, jobs
    <3> QED BY <2>1, <2>3, <2>5, <3>1, <3>2, CallSound
  <2> QED BY <1>2, <2>4, <2>5 DEF Load
<1>3. CASE Measure(w)
  <2>1. s \in Rows /\ Exists(s) /\ call[w].from \in Statuses
    BY <1>0, <1>1, <1>3, CallKinds DEF Measure, OnRow
  <2>2. PICK outcome \in Outcomes \ {"transient", "hidden"} :
          /\ verification' = [verification EXCEPT ![s] = Ends(outcome)]
          /\ Become(w, [stage |-> "decide", row |-> s, from |-> call[w].from,
                        to |-> Verdict(outcome), noted |-> TRUE])
    BY <1>3 DEF Measure
  <2>3. [stage |-> "decide", row |-> s, from |-> call[w].from, to |-> Verdict(outcome),
         noted |-> TRUE] \in Calls
    BY <2>1, VerdictKinds DEF Calls, Statuses
  <2>4. TablesKept
    BY <1>0, <1>3, <2>1, <2>2, TablesRead, MetTyped, VerdictKinds DEF Measure, TypeOK, jobs
  <2> QED BY <1>3, <2>1, <2>2, <2>3, <2>4, JobUnchanged, CallSound DEF Measure
<1>4. CASE Transient(w) \/ Hidden(w)
  <2>1. s \in Rows
    BY <1>1, <1>4 DEF Transient, Hidden, OnRow
  <2>2. /\ verification' \in [Rows -> Verifications] /\ errors' \in Nat /\ met' \subseteq Mets
        /\ UNCHANGED <<rows, tries, states, history>>
    <3>1. CASE Transient(w)
      <4>1. verification' \in [Rows -> Verifications]
        BY <1>0, <2>1, <3>1 DEF Transient, TypeOK, Verifications
      <4>2. errors' \in Nat
        BY <1>0, <3>1 DEF Transient, TypeOK
      <4> QED BY <1>0, <3>1, <4>1, <4>2, MetTyped DEF Transient
    <3>2. CASE Hidden(w)
      BY <1>0, <3>2, MetTyped DEF Hidden, TypeOK, Mets
    <3> QED BY <1>4, <3>1, <3>2
  <2>3. TablesKept /\ JobKept
    BY <1>4, <2>1, <2>2, TablesRead, JobEnds DEF Transient, Hidden
  <2> QED BY <1>4, <2>3, CallSound, IdleTyped DEF Transient, Hidden, OnRow
<1>5. CASE Decide(w)
  <2>1. s \in Rows /\ Exists(s) /\ call[w] \in Deciding
    BY <1>0, <1>1, <1>5, CallKinds DEF Decide, OnRow
  <2>2. TablesKept
    BY <1>0, <1>5, <2>1, MetTyped
       DEF Decide, Enter, TablesKept, Deciding, TypeOK, rows, Entry
  <2>3. CASE call[w].noted
    <3>1. [stage |-> "record", row |-> s, from |-> call[w].from, to |-> call[w].to] \in Calls
      BY <2>1 DEF Calls, Deciding
    <3>2. JobKept
      BY <1>5, <2>3, JobUnchanged DEF Decide, jobs
    <3> QED BY <1>5, <2>1, <2>2, <2>3, <3>1, <3>2, CallSound DEF Decide
  <2>4. CASE ~call[w].noted
    <3>1. JobKept
      BY <1>5, <2>1, <2>4, JobEnds DEF Decide
    <3> QED BY <1>5, <2>2, <2>4, <3>1, CallSound, IdleTyped DEF Decide, OnRow
  <2> QED BY <2>3, <2>4
<1>6. CASE Record(w)
  <2>1. s \in Rows /\ Exists(s) /\ [from |-> call[w].from, to |-> call[w].to] \in Entry
    BY <1>0, <1>1, <1>6, CallKinds DEF Record, OnRow, Recorded, Entry
  <2>2. history' \in [Rows -> Seq(Entry)] /\ \A r \in Rows \ {s} : history'[r] = history[r]
    <3>1. history \in [Rows -> Seq(Entry)]
      BY <1>0 DEF TypeOK, Entry
    <3>2. Append(history[s], [from |-> call[w].from, to |-> call[w].to]) \in Seq(Entry)
      BY <2>1, <3>1
    <3> QED BY <1>6, <3>1, <3>2 DEF Record
  <2>3. TablesKept
    BY <1>0, <1>6, <2>1, <2>2, MetTyped DEF Record, TablesKept, TypeOK, rows, states
  <2>4. JobKept
    BY <1>6, <2>1, JobEnds DEF Record
  <2> QED BY <1>6, <2>3, <2>4, CallSound, IdleTyped DEF Record, OnRow
<1> QED BY <1>2, <1>3, <1>4, <1>5, <1>6, InsertSound, EnqueueSound DEF Resume

LEMMA FailureSound ==
  ASSUME Sound, NEW w \in Workers, QueryFails(w) \/ Crash(w)
  PROVE  Sound'
<1> DEFINE s == call[w].row
<1>0. TypeOK
  BY DEF Sound
<1>1. TablesKept
  BY <1>0, TablesRead, MetTyped DEF QueryFails, Crash, TypeOK
<1>2. CASE QueryFails(w)
  <2>1. s \in Rows
    BY <1>0, <1>2, CallKinds DEF QueryFails, OnRow
  <2>2. JobKept
    BY <1>2, <2>1, JobEnds DEF QueryFails
  <2> QED BY <1>1, <1>2, <2>2, CallSound, IdleTyped DEF QueryFails, OnRow
<1>3. CASE Crash(w)
  <2>1. CASE UNCHANGED job
    <3>1. JobKept
      BY <1>3, <2>1, JobUnchanged DEF Crash, jobs
    <3> QED BY <1>1, <1>3, <3>1, CallSound, IdleTyped DEF Crash, OnRow
  <2>2. CASE call[w].stage # "insert" /\ job[s] = "active"
    <3>1. s \in Rows
      BY <1>0, <1>3, <2>2, CallKinds DEF Crash
    <3>2. JobKept
      <4>1. CASE job' = [job EXCEPT ![s] = "failed"]
        BY <1>3, <2>2, <3>1, <4>1, JobGoes DEF Crash
      <4>2. CASE tries[s] < Attempts /\ job' = [job EXCEPT ![s] = "waiting"]
        BY <1>3, <2>2, <3>1, <4>2, JobGoes DEF Crash
      <4> QED BY <1>3, <2>1, <2>2, <4>1, <4>2, JobUnchanged DEF Crash, jobs
    <3> QED BY <1>1, <1>3, <3>2, CallSound, IdleTyped DEF Crash, OnRow
  <2> QED BY <1>3, <2>1, <2>2 DEF Crash
<1> QED BY <1>2, <1>3

LEMMA SoundCorrect == Spec => []Sound
<1>1. Init => Sound
  <2> SUFFICES ASSUME Init PROVE Sound
    OBVIOUS
  <2>1. TypeOK
    <3>1. history \in [Rows -> Seq([from : Statuses, to : Statuses])]
      BY DEF Init
    <3>2. tries \in [Rows -> 0..Attempts] /\ job \in [Rows -> Jobs]
      BY DEF Init, Attempts, Jobs
    <3>3. call \in [Workers -> Calls]
      BY IdleTyped DEF Init
    <3> QED BY <3>1, <3>2, <3>3 DEF Init, TypeOK, Statuses, Verifications
  <2>2. OneRowPerClip /\ NothingBefore /\ AttemptsLeft
    BY DEF Init, OneRowPerClip, NothingBefore, AttemptsLeft
  <2>3. CallsHaveRows
    BY IdleTyped DEF Init, CallsHaveRows, OnRow
  <2> QED BY <2>1, <2>2, <2>3 DEF Sound
<1>2. Sound /\ [Next]_vars => Sound'
  <2> SUFFICES ASSUME Sound, [Next]_vars PROVE Sound'
    OBVIOUS
  <2>1. CASE Next
    BY <2>1, BeginSound, TakeJobSound, ResumeSound, FailureSound DEF Next
  <2>2. CASE UNCHANGED vars
    BY <2>2 DEF vars, Sound, TypeOK, OneRowPerClip, NothingBefore, AttemptsLeft, CallsHaveRows,
                Exists
  <2> QED BY <2>1, <2>2
<1> QED BY <1>1, <1>2, PTL DEF Spec

\* Every reachable state is well typed: the job of a submission never starts
\* more often than its attempts, although nothing but the insert itself keeps
\* a job from being queued again.
THEOREM TypeCorrect == Spec => []TypeOK
<1>1. Sound => TypeOK
  BY DEF Sound
<1> QED BY <1>1, SoundCorrect, PTL

(***************************************************************************)
(* The submissions implement SubmissionFlow                                *)
(***************************************************************************)

\* A call in flight decides as it did before, unless it is w's.
LEMMA GroundedKept ==
  ASSUME Sound, Grounded, UNCHANGED <<rows, states>>, NEW w \in Workers, NEW c \in Calls,
         Become(w, c),
         c.stage = "decide" =>
           /\ c.to # "PENDING_VERIFICATION"
           /\ c.to = "POST_APPROVAL_REVIEW" => "APPROVED" \in held[c.row]
  PROVE  Grounded'
<1>1. /\ call'[w] = c
      /\ \A v \in Workers \ {w} : call'[v] = call[v]
  BY BecomeTyped DEF Sound
<1> QED BY <1>1 DEF Grounded, rows, states, Exists

LEMMA BeginGrounded ==
  ASSUME Sound, Grounded, NEW w \in Workers, Begin(w)
  PROVE  Grounded'
<1>0. TypeOK
  BY DEF Sound
<1>1. ASSUME NEW o \in Creators, NEW x \in Clips, BeginSubmit(w, o, x) PROVE Grounded'
  <2>1. [stage |-> "insert", clip |-> x, owner |-> o] \in Calls
    BY DEF Calls
  <2> QED BY <1>1, <2>1, GroundedKept DEF BeginSubmit
<1>2. ASSUME NEW s \in Rows, NEW op \in Staff, BeginDecision(w, s, op) PROVE Grounded'
  <2>1. PICK to \in Decision(op, status[s]) :
          Become(w, [stage |-> "decide", row |-> s, from |-> status[s], to |-> to,
                     noted |-> TRUE])
    BY <1>2 DEF BeginDecision
  <2>2. [stage |-> "decide", row |-> s, from |-> status[s], to |-> to, noted |-> TRUE] \in Calls
    BY <1>0, DecisionKinds DEF Calls, TypeOK
  <2>3. to # "PENDING_VERIFICATION" /\ (to = "POST_APPROVAL_REVIEW" => "APPROVED" \in held[s])
    BY <1>2, DecisionKinds DEF BeginDecision, Grounded
  <2> QED BY <1>2, <2>1, <2>2, <2>3, GroundedKept DEF BeginDecision
<1>3. ASSUME NEW s \in Rows, BeginKeep(w, s) PROVE Grounded'
  <2>1. [stage |-> "decide", row |-> s, from |-> status[s], to |-> "UNDER_REVIEW",
         noted |-> FALSE] \in Calls
    BY <1>0 DEF Calls, TypeOK, Statuses
  <2> QED BY <1>3, <2>1, GroundedKept DEF BeginKeep
<1>4. ASSUME NEW s \in Rows, BeginReverify(w, s) PROVE Grounded'
  <2>1. [stage |-> "load_forced", row |-> s] \in Calls
    BY DEF Calls
  <2> QED BY <1>4, <2>1, GroundedKept DEF BeginReverify
<1> QED BY <1>1, <1>2, <1>3, <1>4 DEF Begin

LEMMA ResumeGrounded ==
  ASSUME Sound, Grounded, NEW w \in Workers, Resume(w)
  PROVE  Grounded'
<1>0. TypeOK /\ (call[w].stage \in OnRow => call[w].row \in Rows)
  BY CallKinds DEF Sound
<1>1. CASE InsertSubmission(w)
  <2>1. CASE Become(w, Idle) /\ UNCHANGED <<rows, states>>
    BY <2>1, GroundedKept, IdleTyped
  <2>2. ASSUME NEW s \in Rows, ~Exists(s), clip' = [clip EXCEPT ![s] = call[w].clip],
               Enter(s, "PENDING_VERIFICATION"), Become(w, [stage |-> "enqueue", row |-> s])
        PROVE  Grounded'
    <3>1. [stage |-> "enqueue", row |-> s] \in Calls
      BY DEF Calls
    <3>2. /\ call'[w] = [stage |-> "enqueue", row |-> s]
          /\ \A v \in Workers \ {w} : call'[v] = call[v]
      BY <1>0, <2>2, <3>1, BecomeTyped
    <3>3. \A r \in Rows : clip'[r] # None => status'[r] \in held'[r]
      BY <1>0, <2>2 DEF Grounded, Exists, Enter, TypeOK
    <3>4. \A r \in Rows : held[r] \subseteq held'[r]
      BY <1>0, <2>2 DEF Enter, TypeOK
    <3>5. \A v \in Workers : call'[v].stage = "decide" => call'[v] = call[v] /\ call[v].row \in Rows
      BY <1>0, <3>2, CallKinds DEF OnRow
    <3> QED BY <3>3, <3>4, <3>5 DEF Grounded, Exists
  <2> QED BY <1>1, <2>1, <2>2 DEF InsertSubmission
<1>2. CASE Enqueue(w)
  <2>1. [stage |-> "load_forced", row |-> call[w].row] \in Calls
    BY <1>0, <1>2 DEF Enqueue, Calls, OnRow
  <2> QED BY <1>2, <2>1, GroundedKept DEF Enqueue
<1>3. CASE Load(w)
  <2>1. [stage |-> "measure", row |-> call[w].row, from |-> status[call[w].row]] \in Calls
    BY <1>0, <1>3 DEF Load, Calls, OnRow, TypeOK
  <2> QED BY <1>3, <2>1, GroundedKept, IdleTyped DEF Load
<1>4. CASE Measure(w)
  <2>1. PICK outcome \in Outcomes \ {"transient", "hidden"} :
          Become(w, [stage |-> "decide", row |-> call[w].row, from |-> call[w].from,
                     to |-> Verdict(outcome), noted |-> TRUE])
    BY <1>4 DEF Measure
  <2>2. [stage |-> "decide", row |-> call[w].row, from |-> call[w].from, to |-> Verdict(outcome),
         noted |-> TRUE] \in Calls
    BY <1>0, <1>4, CallKinds, VerdictKinds DEF Measure, Calls, Statuses, OnRow
  <2>3. Verdict(outcome) \notin {"PENDING_VERIFICATION", "POST_APPROVAL_REVIEW"}
    BY VerdictKinds
  <2> QED BY <1>4, <2>1, <2>2, <2>3, GroundedKept DEF Measure
<1>5. CASE Transient(w) \/ Hidden(w)
  BY <1>5, GroundedKept, IdleTyped DEF Transient, Hidden
<1>6. CASE Decide(w)
  <2>1. call[w] \in Deciding /\ UNCHANGED rows
    BY <1>0, <1>6, CallKinds DEF Decide
  <2>2. [stage |-> "record", row |-> call[w].row, from |-> call[w].from, to |-> call[w].to] \in Calls
    BY <2>1 DEF Deciding, Calls
  <2>3. /\ call'[w].stage # "decide"
        /\ \A v \in Workers \ {w} : call'[v] = call[v]
    BY <1>0, <1>6, <2>2, BecomeTyped, IdleTyped DEF Decide
  <2>4. \A r \in Rows : held[r] \subseteq held'[r] /\ (Exists(r) => status'[r] \in held'[r])
    BY <1>0, <1>6, <2>1 DEF Decide, Enter, Deciding, Grounded, TypeOK
  <2>5. \A v \in Workers : call'[v].stage = "decide" => call'[v] = call[v] /\ call[v].row \in Rows
    BY <1>0, <2>3, CallKinds DEF OnRow
  <2> QED BY <2>1, <2>4, <2>5 DEF Grounded, Exists, rows
<1>7. CASE Record(w)
  BY <1>7, GroundedKept, IdleTyped DEF Record
<1> QED BY <1>1, <1>2, <1>3, <1>4, <1>5, <1>6, <1>7 DEF Resume

LEMMA NextGrounded ==
  ASSUME Sound, Grounded, [Next]_vars
  PROVE  Grounded'
<1>1. ASSUME NEW w \in Workers, NEW s \in Rows, TakeJob(w, s) PROVE Grounded'
  <2>1. [stage |-> "load", row |-> s] \in Calls
    BY DEF Calls
  <2> QED BY <1>1, <2>1, GroundedKept DEF TakeJob
<1>2. ASSUME NEW w \in Workers, QueryFails(w) \/ Crash(w) PROVE Grounded'
  BY <1>2, GroundedKept, IdleTyped DEF QueryFails, Crash
<1>3. CASE UNCHANGED vars
  BY <1>3 DEF vars, Grounded, Exists
<1> QED BY <1>1, <1>2, <1>3, BeginGrounded, ResumeGrounded DEF Next

\* The only row of a clip is the one a choice finds.
LEMMA ChosenRow ==
  ASSUME NEW c, NEW x, NEW s \in Rows, c[s] = x, \A r \in Rows : c[r] = x => r = s
  PROVE  (CHOOSE r \in Rows : c[r] = x) = s /\ {r \in Rows : c[r] = x} = {s}
  OBVIOUS

\* What the abstract specification sees of the one row of a clip, before and
\* after a step.
LEMMA StandingOfRow ==
  ASSUME NEW x \in Clips, NEW s \in Rows, clip[s] = x, \A r \in Rows : clip[r] = x => r = s
  PROVE  Standing[x] = status[s] /\ Had[x] = held[s]
<1>1. (CHOOSE r \in Rows : clip[r] = x) = s /\ {r \in Rows : clip[r] = x} = {s}
  BY ChosenRow
<1>2. Standing[x] = status[s]
  BY <1>1 DEF Standing
<1>3. UNION {held[r] : r \in {s}} = held[s]
  OBVIOUS
<1> QED BY <1>1, <1>2, <1>3 DEF Had

LEMMA StandingOfRowNext ==
  ASSUME NEW x \in Clips, NEW s \in Rows, clip'[s] = x, \A r \in Rows : clip'[r] = x => r = s
  PROVE  Standing'[x] = status'[s] /\ Had'[x] = held'[s]
<1>1. (CHOOSE r \in Rows : clip'[r] = x) = s /\ {r \in Rows : clip'[r] = x} = {s}
  BY ChosenRow
<1>2. Standing'[x] = status'[s]
  BY <1>1 DEF Standing
<1>3. UNION {held'[r] : r \in {s}} = held'[s]
  OBVIOUS
<1> QED BY <1>1, <1>2, <1>3 DEF Had

LEMMA StandingOfNone ==
  ASSUME NEW x \in Clips, \A r \in Rows : clip[r] # x
  PROVE  Standing[x] = None /\ Had[x] = {}
<1>1. {r \in Rows : clip[r] = x} = {}
  OBVIOUS
<1> QED BY <1>1 DEF Standing, Had

LEMMA StandingOfNoneNext ==
  ASSUME NEW x \in Clips, \A r \in Rows : clip'[r] # x
  PROVE  Standing'[x] = None /\ Had'[x] = {}
<1>1. {r \in Rows : clip'[r] = x} = {}
  OBVIOUS
<1> QED BY <1>1 DEF Standing, Had

\* A clip whose row a step leaves alone stands as it did.
LEMMA StandsElsewhere ==
  ASSUME OneRowPerClip, NEW x \in Clips,
         \A r \in Rows : clip'[r] = x <=> clip[r] = x,
         \A r \in Rows : clip[r] = x => status'[r] = status[r] /\ held'[r] = held[r]
  PROVE  Standing'[x] = Standing[x] /\ Had'[x] = Had[x]
<1>1. CASE \E s \in Rows : clip[s] = x
  <2>1. PICK s \in Rows : clip[s] = x
    BY <1>1
  <2>2. \A r \in Rows : clip[r] = x => r = s
    BY <2>1 DEF OneRowPerClip
  <2>3. Standing[x] = status[s] /\ Had[x] = held[s]
    BY <2>1, <2>2, StandingOfRow
  <2>4. Standing'[x] = status'[s] /\ Had'[x] = held'[s]
    BY <2>1, <2>2, StandingOfRowNext
  <2> QED BY <2>1, <2>3, <2>4
<1>2. CASE \A s \in Rows : clip[s] # x
  <2>1. Standing[x] = None /\ Had[x] = {}
    BY <1>2, StandingOfNone
  <2>2. Standing'[x] = None /\ Had'[x] = {}
    BY <1>2, StandingOfNoneNext
  <2> QED BY <2>1, <2>2
<1> QED BY <1>1, <1>2

\* A status written to the row of a clip, and no other, is entered for it.
LEMMA EntersClip ==
  ASSUME OneRowPerClip, NEW x \in Clips, NEW v,
         Standing'[x] = v, Had'[x] = Had[x] \cup {v},
         \A y \in Clips \ {x} : /\ \A r \in Rows : clip'[r] = y <=> clip[r] = y
                                /\ \A r \in Rows : clip[r] = y => status'[r] = status[r]
                                                                   /\ held'[r] = held[r]
  PROVE  Flow!Enter(x, v)
<1>1. \A y \in Clips \ {x} : Standing'[y] = Standing[y] /\ Had'[y] = Had[y]
  BY StandsElsewhere
<1>2. Standing' = [Standing EXCEPT ![x] = v]
  <2>1. Standing = [y \in Clips |-> Standing[y]] /\ Standing' = [y \in Clips |-> Standing'[y]]
    BY DEF Standing
  <2> QED BY <1>1, <2>1
<1>3. Had' = [Had EXCEPT ![x] = @ \cup {v}]
  <2>1. Had = [y \in Clips |-> Had[y]] /\ Had' = [y \in Clips |-> Had'[y]]
    BY DEF Had
  <2> QED BY <1>1, <2>1
<1> QED BY <1>2, <1>3 DEF Flow!Enter

\* The insert of a row submits its clip.
LEMMA InsertSubmits ==
  ASSUME Sound, NEW w \in Workers, InsertSubmission(w)
  PROVE  [Flow!Next]_Flow!vars
<1>0. TypeOK /\ OneRowPerClip /\ NothingBefore /\ call[w] \in Inserting
  BY CallKinds DEF Sound, InsertSubmission
<1>1. CASE UNCHANGED <<rows, states>>
  BY <1>1 DEF rows, states, Flow!vars, Standing, Had
<1>2. ASSUME ~Taken(call[w].owner, call[w].clip), NEW s \in Rows, ~Exists(s),
             clip' = [clip EXCEPT ![s] = call[w].clip], Enter(s, "PENDING_VERIFICATION")
      PROVE  Flow!Next
  <2> DEFINE x == call[w].clip
  <2>1. x \in Clips /\ x # None
    BY <1>0 DEF Inserting
  <2>2. \A r \in Rows : clip[r] # x
    BY <1>2 DEF Taken
  <2>3. clip'[s] = x /\ \A r \in Rows \ {s} : clip'[r] = clip[r]
    BY <1>0, <1>2 DEF TypeOK
  <2>4. Standing[x] = None /\ Had[x] = {}
    BY <2>1, <2>2, StandingOfNone
  <2>5. Standing'[x] = status'[s] /\ Had'[x] = held'[s]
    BY <2>1, <2>2, <2>3, StandingOfRowNext
  <2>6. status'[s] = "PENDING_VERIFICATION" /\ held'[s] = {"PENDING_VERIFICATION"}
    BY <1>0, <1>2 DEF Enter, TypeOK, NothingBefore
  <2>7. \A y \in Clips \ {x} : \A r \in Rows : clip'[r] = y <=> clip[r] = y
    BY <1>2, <2>3 DEF Exists
  <2>8. \A y \in Clips \ {x} : \A r \in Rows :
          clip[r] = y => status'[r] = status[r] /\ held'[r] = held[r]
    BY <1>0, <1>2 DEF Enter, Exists, TypeOK
  <2>9. Flow!Enter(x, "PENDING_VERIFICATION")
    BY <1>0, <2>1, <2>4, <2>5, <2>6, <2>7, <2>8, EntersClip
  <2> QED BY <2>1, <2>4, <2>9 DEF Flow!Next, Flow!Submit
<1> QED BY <1>1, <1>2 DEF InsertSubmission

\* The write of a status decides the clip.
LEMMA DecideDecides ==
  ASSUME Sound, Grounded, NEW w \in Workers, Decide(w)
  PROVE  Flow!Next
<1> PICK s \in Rows : s = call[w].row
  BY CallKinds DEF Sound, Decide, OnRow
<1> DEFINE x == clip[s]
<1> DEFINE v == call[w].to
<1>0. TypeOK /\ OneRowPerClip /\ call[w] \in Deciding
  BY CallKinds DEF Sound, Decide
<1>1. x \in Clips /\ x # None
  BY <1>0 DEF Sound, CallsHaveRows, Decide, OnRow, Exists, TypeOK
<1>2. UNCHANGED clip /\ Enter(s, v)
  BY DEF Decide, rows
<1>3. \A r \in Rows : clip[r] = x => r = s
  BY <1>0, <1>1 DEF OneRowPerClip
<1>4. Standing[x] = status[s] /\ Had[x] = held[s]
  BY <1>1, <1>3, StandingOfRow
<1>5. Standing'[x] = status'[s] /\ Had'[x] = held'[s]
  BY <1>1, <1>2, <1>3, StandingOfRowNext
<1>6. status'[s] = v /\ held'[s] = held[s] \cup {v}
  BY <1>0, <1>2 DEF Enter, TypeOK
<1>7. \A r \in Rows \ {s} : status'[r] = status[r] /\ held'[r] = held[r]
  BY <1>0, <1>2 DEF Enter, TypeOK
<1>8. Flow!Enter(x, v)
  BY <1>0, <1>1, <1>2, <1>4, <1>5, <1>6, <1>7, EntersClip
<1>9. v \in Flow!Verdicts /\ (v = "POST_APPROVAL_REVIEW" => "APPROVED" \in Had[x])
  BY <1>0, <1>4 DEF Deciding, Statuses, Grounded, Decide, Flow!Verdicts
<1>10. Standing[x] # None
  BY <1>0, <1>4 DEF TypeOK
<1> QED BY <1>1, <1>8, <1>9, <1>10 DEF Flow!Next, Flow!Decide

\* Whatever overlaps, fails and crashes: a clip is submitted once in a
\* campaign, waits for a verdict, never waits again, and is reviewed after approval only
\* if it was approved (although every decision is written by id, whatever has
\* become of the submission since it was read).
THEOREM FlowImplemented == Spec => ImplementsFlow
<1>1. Init => Grounded
  BY IdleTyped DEF Init, Grounded, Exists
<1>2. Init => Flow!Init
  <2> SUFFICES ASSUME Init PROVE Flow!Init
    OBVIOUS
  <2>1. \A x \in Clips : \A r \in Rows : clip[r] # x
    BY DEF Init
  <2>2. \A x \in Clips : Standing[x] = None /\ Had[x] = {}
    BY <2>1, StandingOfNone
  <2>3. Standing = [x \in Clips |-> Standing[x]] /\ Had = [x \in Clips |-> Had[x]]
    BY DEF Standing, Had
  <2> QED BY <2>2, <2>3 DEF Flow!Init
<1>3. Sound /\ Grounded /\ [Next]_vars => [Flow!Next]_Flow!vars
  <2> SUFFICES ASSUME Sound, Grounded, [Next]_vars PROVE [Flow!Next]_Flow!vars
    OBVIOUS
  <2>1. CASE UNCHANGED <<rows, states>>
    BY <2>1 DEF rows, states, Flow!vars, Standing, Had
  <2>2. CASE \E w \in Workers : InsertSubmission(w)
    BY <2>2, InsertSubmits
  <2>3. CASE \E w \in Workers : Decide(w)
    BY <2>3, DecideDecides
  <2>4. CASE \E w \in Workers : Begin(w)
    BY <2>1, <2>4 DEF Begin, BeginSubmit, BeginDecision, BeginKeep, BeginReverify
  <2>5. CASE \E w \in Workers : \/ \E s \in Rows : TakeJob(w, s)
                                \/ QueryFails(w) \/ Crash(w)
    BY <2>1, <2>5 DEF TakeJob, QueryFails, Crash
  <2>6. CASE \E w \in Workers : \/ Enqueue(w) \/ Load(w) \/ Measure(w)
                                \/ Transient(w) \/ Hidden(w) \/ Record(w)
    BY <2>1, <2>6 DEF Enqueue, Load, Measure, Transient, Hidden, Record
  <2>7. CASE UNCHANGED vars
    BY <2>1, <2>7 DEF vars, rows, states
  <2> QED BY <2>2, <2>3, <2>4, <2>5, <2>6, <2>7 DEF Next, Resume
<1>4. Sound /\ Grounded /\ [Next]_vars => Grounded'
  BY NextGrounded
<1> QED BY <1>1, <1>2, <1>3, <1>4, SoundCorrect, PTL DEF Spec, ImplementsFlow, Flow!Spec

(***************************************************************************)
(* The history tells                                                       *)
(***************************************************************************)

Undisturbing == met \cap {"overlap", "history", "crash", "keep"} = {}

\* Trouble is never forgotten.
LEMMA UndisturbedBefore ==
  ASSUME [Next]_vars, Undisturbing'
  PROVE  Undisturbing
<1>1. met \subseteq met'
  BY DEF Next, Begin, BeginSubmit, BeginDecision, BeginKeep, BeginReverify, TakeJob, Resume,
         InsertSubmission, Enqueue, Load, Measure, Transient, Hidden, Decide, Record, QueryFails,
         Crash, Begins, Happens, vars
<1> QED BY <1>1 DEF Undisturbing

\* A call that overlaps with nothing is the only one.
OnlyCall(w) == \A v \in Workers \ {w} : call[v] = Idle

\* The only call goes on; nothing has been decided since it read the status.
LEMMA TellingGoesOn ==
  ASSUME Sound, Telling, UNCHANGED <<status, history>>, NEW w \in Workers, OnlyCall(w),
         call[w].stage # "record", NEW c \in Calls, Become(w, c), c.stage # "record",
         c.stage \in {"measure", "decide"} => c.from = status[c.row],
         c.stage = "decide" => c.noted
  PROVE  Telling'
<1>1. /\ call'[w] = c
      /\ \A v \in Workers \ {w} : call'[v] = Idle
  BY BecomeTyped DEF Sound, OnlyCall
<1>2. OneCall'
  BY <1>1 DEF OneCall
<1>3. \A v \in Workers : call[v].stage # "record" /\ call'[v].stage # "record"
  BY <1>1, IdleTyped DEF OnlyCall
<1>4. \A v \in Workers : Following(v)'
  BY <1>1, IdleTyped DEF Following
<1>5. \A s \in Rows : Told(s) = status[s]
  BY <1>3 DEF Telling, Recording
<1>6. \A s \in Rows : Chained(s)' /\ Told(s)' = status'[s]
  BY <1>5 DEF Telling, Chained, Told
<1> QED BY <1>2, <1>4, <1>6 DEF Telling

LEMMA BeginTelling ==
  ASSUME Sound, Telling, NEW w \in Workers, Begin(w) \/ \E s \in Rows : TakeJob(w, s),
         Undisturbing'
  PROVE  Telling'
<1>0. TypeOK
  BY DEF Sound
<1>1. OnlyCall(w) /\ call[w].stage = "idle" /\ UNCHANGED <<status, history>>
  <2>1. Overlap \subseteq met'
    BY DEF Begin, BeginSubmit, BeginDecision, BeginKeep, BeginReverify, TakeJob, Begins
  <2>2. \A v \in Workers : call[v] = Idle
    BY <2>1 DEF Overlap, Undisturbing
  <2> QED BY <2>2, IdleTyped
          DEF Begin, BeginSubmit, BeginDecision, BeginKeep, BeginReverify, TakeJob, OnlyCall, states
<1>2. ASSUME NEW o \in Creators, NEW x \in Clips, BeginSubmit(w, o, x) PROVE Telling'
  <2>1. [stage |-> "insert", clip |-> x, owner |-> o] \in Calls
    BY DEF Calls
  <2> QED BY <1>1, <1>2, <2>1, TellingGoesOn DEF BeginSubmit
<1>3. ASSUME NEW s \in Rows, NEW op \in Staff, BeginDecision(w, s, op) PROVE Telling'
  <2>1. PICK to \in Decision(op, status[s]) :
          Become(w, [stage |-> "decide", row |-> s, from |-> status[s], to |-> to,
                     noted |-> TRUE])
    BY <1>3 DEF BeginDecision
  <2>2. [stage |-> "decide", row |-> s, from |-> status[s], to |-> to, noted |-> TRUE] \in Calls
    BY <1>0, DecisionKinds DEF Calls, TypeOK
  <2> QED BY <1>1, <2>1, <2>2, TellingGoesOn
<1>4. ASSUME NEW s \in Rows, BeginKeep(w, s) PROVE FALSE
  BY <1>4 DEF BeginKeep, Undisturbing
<1>5. ASSUME NEW s \in Rows, BeginReverify(w, s) PROVE Telling'
  <2>1. [stage |-> "load_forced", row |-> s] \in Calls
    BY DEF Calls
  <2> QED BY <1>1, <1>5, <2>1, TellingGoesOn DEF BeginReverify
<1>6. ASSUME NEW s \in Rows, TakeJob(w, s) PROVE Telling'
  <2>1. [stage |-> "load", row |-> s] \in Calls
    BY DEF Calls
  <2> QED BY <1>1, <1>6, <2>1, TellingGoesOn DEF TakeJob
<1> QED BY <1>2, <1>3, <1>4, <1>5, <1>6 DEF Begin

\* A status written by the only call leaves the history one entry behind,
\* the one the call is about to make.
LEMMA DecideTelling ==
  ASSUME Sound, Telling, NEW w \in Workers, OnlyCall(w), Decide(w)
  PROVE  Telling'
<1> PICK s \in Rows : s = call[w].row
  BY CallKinds DEF Sound, Decide, OnRow
<1>0. TypeOK /\ call[w] \in Deciding /\ UNCHANGED history
  BY CallKinds DEF Sound, Decide
<1>1. call[w].noted /\ call[w].from = status[s]
  BY DEF Telling, Following, Decide
<1>2. [stage |-> "record", row |-> s, from |-> call[w].from, to |-> call[w].to] \in Calls
  BY <1>0 DEF Deciding, Calls
<1>3. /\ call'[w] = [stage |-> "record", row |-> s, from |-> call[w].from, to |-> call[w].to]
      /\ \A v \in Workers \ {w} : call'[v] = Idle
  BY <1>0, <1>1, <1>2, BecomeTyped DEF Decide, OnlyCall
<1>4. status'[s] = call[w].to /\ \A r \in Rows \ {s} : status'[r] = status[r]
  BY <1>0 DEF Decide, Enter, TypeOK
<1>5. \A r \in Rows : Told(r) = status[r]
  BY IdleTyped DEF Telling, Recording, OnlyCall, Decide
<1>6. \A r \in Rows : Told(r)' = status[r]
  BY <1>0, <1>5 DEF Told
<1>7. OneCall'
  BY <1>3 DEF OneCall
<1>8. \A v \in Workers : Following(v)'
  <2>1. Following(w)'
    BY <1>1, <1>3, <1>4, <1>6 DEF Following
  <2>2. \A v \in Workers \ {w} : Following(v)'
    BY <1>3, IdleTyped DEF Following
  <2> QED BY <2>1, <2>2
<1>9. Recording(s)'
  BY <1>3 DEF Recording
<1>10. \A r \in Rows : Chained(r)' /\ (Recording(r)' \/ Told(r)' = status'[r])
  BY <1>0, <1>4, <1>6, <1>9 DEF Telling, Chained
<1> QED BY <1>7, <1>8, <1>10 DEF Telling

\* An entry that begins where the history ends keeps it a chain.
LEMMA ChainGrows ==
  ASSUME NEW s \in Rows, NEW e \in Entry, history[s] \in Seq(Entry), Chained(s), Told(s) = e.from,
         history'[s] = Append(history[s], e)
  PROVE  Chained(s)' /\ Told(s)' = e.to
<1> DEFINE h == history[s]
<1> DEFINE k == history'[s]
<1>1. /\ k \in Seq(Entry) /\ Len(k) = Len(h) + 1 /\ k[Len(k)] = e /\ k # <<>>
      /\ \A i \in 1..Len(h) : k[i] = h[i]
      /\ Len(h) \in Nat
  OBVIOUS
<1>2. Told(s)' = e.to
  BY <1>1 DEF Told
<1>3. Len(h) \in Nat \ {0} => h[Len(h)].to = e.from
  <2>1. Len(h) \in Nat \ {0} => h # <<>>
    OBVIOUS
  <2> QED BY <2>1 DEF Told
<1>4. ASSUME NEW i \in 2..Len(k) PROVE k[i].from = k[i-1].to
  <2>1. CASE i \in 2..Len(h)
    <3>1. k[i] = h[i] /\ k[i-1] = h[i-1]
      BY <1>1, <2>1
    <3> QED BY <2>1, <3>1 DEF Chained
  <2>2. CASE i = Len(k)
    <3>1. i - 1 = Len(h) /\ k[i-1] = h[Len(h)] /\ Len(h) \in Nat \ {0}
      BY <1>1, <1>4, <2>2
    <3> QED BY <1>1, <1>3, <2>2, <3>1
  <2> QED BY <1>1, <1>4, <2>1, <2>2
<1>5. Chained(s)'
  BY <1>4 DEF Chained
<1> QED BY <1>2, <1>5

LEMMA RecordTelling ==
  ASSUME Sound, Telling, NEW w \in Workers, OnlyCall(w), Record(w), Undisturbing'
  PROVE  Telling'
<1> PICK s \in Rows : s = call[w].row
  BY CallKinds DEF Sound, Record, OnRow
<1> DEFINE e == [from |-> call[w].from, to |-> call[w].to]
<1>0. TypeOK /\ e \in Entry /\ UNCHANGED status
  BY CallKinds DEF Sound, Record, Recorded, Entry, states
<1>1. e.from = Told(s) /\ e.to = status[s]
  BY DEF Telling, Following, Record
<1>2. history' = [history EXCEPT ![s] = Append(@, e)]
  BY DEF Record, Happens, Undisturbing
<1>3. \A v \in Workers : call'[v] = Idle
  BY <1>0, BecomeTyped, IdleTyped DEF Record, OnlyCall
<1>4. history[s] \in Seq(Entry) /\ history'[s] = Append(history[s], e)
  BY <1>0, <1>2 DEF TypeOK, Entry
<1>5. Chained(s)' /\ Told(s)' = status'[s]
  BY <1>0, <1>1, <1>4, ChainGrows DEF Telling
<1>6. ASSUME NEW r \in Rows \ {s} PROVE Chained(r)' /\ Told(r)' = status'[r]
  <2>1. history'[r] = history[r]
    BY <1>0, <1>2 DEF TypeOK
  <2>2. Chained(r) /\ Told(r) = status[r]
    BY IdleTyped DEF Telling, Recording, OnlyCall
  <2> QED BY <1>0, <2>1, <2>2 DEF Chained, Told
<1>7. OneCall' /\ \A v \in Workers : Following(v)'
  BY <1>3, IdleTyped DEF OneCall, Following
<1> QED BY <1>5, <1>6, <1>7 DEF Telling

LEMMA ResumeTelling ==
  ASSUME Sound, Telling, NEW w \in Workers, Resume(w), Undisturbing'
  PROVE  Telling'
<1>0. TypeOK /\ (call[w].stage \in OnRow => call[w].row \in Rows)
  BY CallKinds DEF Sound
<1>1. call[w] # Idle
  BY IdleTyped DEF Resume, InsertSubmission, Enqueue, Load, Measure, Transient, Hidden, Decide, Record
<1>2. OnlyCall(w)
  BY <1>1 DEF Telling, OneCall, OnlyCall
<1>3. CASE InsertSubmission(w)
  <2>1. CASE Become(w, Idle) /\ UNCHANGED <<rows, states>>
    BY <1>2, <1>3, <2>1, TellingGoesOn, IdleTyped DEF InsertSubmission, states
  <2>2. ASSUME NEW s \in Rows, ~Exists(s), Enter(s, "PENDING_VERIFICATION"),
               Become(w, [stage |-> "enqueue", row |-> s])
        PROVE  Telling'
    <3>1. [stage |-> "enqueue", row |-> s] \in Calls
      BY DEF Calls
    <3>2. status' = status
      BY <1>0, <2>2 DEF Sound, NothingBefore, Enter, TypeOK
    <3> QED BY <1>2, <1>3, <2>2, <3>1, <3>2, TellingGoesOn DEF InsertSubmission
  <2> QED BY <1>3, <2>1, <2>2 DEF InsertSubmission
<1>4. CASE Enqueue(w)
  <2>1. [stage |-> "load_forced", row |-> call[w].row] \in Calls
    BY <1>0, <1>4 DEF Enqueue, Calls, OnRow
  <2> QED BY <1>2, <1>4, <2>1, TellingGoesOn DEF Enqueue, states
<1>5. CASE Load(w)
  <2>1. [stage |-> "measure", row |-> call[w].row, from |-> status[call[w].row]] \in Calls
    BY <1>0, <1>5 DEF Load, Calls, OnRow, TypeOK
  <2> QED BY <1>2, <1>5, <2>1, TellingGoesOn, IdleTyped DEF Load, states
<1>6. CASE Measure(w)
  <2>1. PICK outcome \in Outcomes \ {"transient", "hidden"} :
          Become(w, [stage |-> "decide", row |-> call[w].row, from |-> call[w].from,
                     to |-> Verdict(outcome), noted |-> TRUE])
    BY <1>6 DEF Measure
  <2>2. [stage |-> "decide", row |-> call[w].row, from |-> call[w].from, to |-> Verdict(outcome),
         noted |-> TRUE] \in Calls
    BY <1>0, <1>6, CallKinds, VerdictKinds DEF Measure, Calls, Statuses, OnRow
  <2>3. call[w].from = status[call[w].row]
    BY <1>6 DEF Telling, Following, Measure
  <2> QED BY <1>2, <1>6, <2>1, <2>2, <2>3, TellingGoesOn DEF Measure, states
<1>7. CASE Transient(w) \/ Hidden(w)
  BY <1>2, <1>7, TellingGoesOn, IdleTyped DEF Transient, Hidden, states
<1>8. CASE Decide(w)
  BY <1>2, <1>8, DecideTelling
<1>9. CASE Record(w)
  BY <1>2, <1>9, RecordTelling
<1> QED BY <1>3, <1>4, <1>5, <1>6, <1>7, <1>8, <1>9 DEF Resume

LEMMA FailureTelling ==
  ASSUME Sound, Telling, NEW w \in Workers, QueryFails(w) \/ Crash(w), Undisturbing'
  PROVE  Telling'
<1>1. QueryFails(w)
  BY DEF Crash, Happens, Undisturbing
<1>2. call[w] # Idle
  BY <1>1, IdleTyped DEF QueryFails
<1>3. OnlyCall(w)
  BY <1>2 DEF Telling, OneCall, OnlyCall
<1> QED BY <1>1, <1>3, TellingGoesOn, IdleTyped DEF QueryFails, states

\* Between calls the moderation history ends with the status of the submission,
\* and each of its entries begins where the one before ended, unless calls overlap, an
\* insert of an entry fails, a process dies or staff keep a submission under
\* review: updateSubmission and createHistoryEntry are two writes, and nothing
\* but the order of a single call's awaits ties them together.
THEOREM HistoryAccounts == Spec => []HistoryTells
<1>1. Init => Undisturbed
  <2> SUFFICES ASSUME Init PROVE Telling
    BY DEF Undisturbed
  <2>1. OneCall /\ \A w \in Workers : Following(w)
    BY IdleTyped DEF Init, OneCall, Following
  <2>2. \A s \in Rows : Chained(s) /\ Told(s) = status[s]
    BY DEF Init, Chained, Told
  <2> QED BY <2>1, <2>2 DEF Telling
<1>2. Sound /\ Undisturbed /\ [Next]_vars => Undisturbed'
  <2> SUFFICES ASSUME Sound, Undisturbed, [Next]_vars, Undisturbing' PROVE Telling'
    BY DEF Undisturbed, Undisturbing
  <2>0. Telling
    BY UndisturbedBefore DEF Undisturbed, Undisturbing
  <2>1. CASE Next
    BY <2>0, <2>1, BeginTelling, ResumeTelling, FailureTelling DEF Next
  <2>2. CASE UNCHANGED vars
    BY <2>0, <2>2 DEF vars, Telling, OneCall, Following, Chained, Told, Recording
  <2> QED BY <2>1, <2>2
<1>3. Sound /\ Undisturbed => HistoryTells
  <2> SUFFICES ASSUME Sound, Telling, NEW s \in Rows PROVE Chained(s) /\ (Quiet(s) => Told(s) = status[s])
    BY DEF Undisturbed, HistoryTells
  <2>1. Recording(s) => ~Quiet(s)
    BY IdleTyped DEF Recording, Quiet
  <2> QED BY <2>1 DEF Telling
<1> QED BY <1>1, <1>2, <1>3, SoundCorrect, PTL DEF Spec

=============================================================================
