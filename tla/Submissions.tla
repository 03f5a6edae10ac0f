---------------------------- MODULE Submissions ----------------------------
(***************************************************************************)
(* The submissions of one campaign, from the creator's form to the         *)
(* decisions of staff: submission.service.js, verification.service.js,     *)
(* verification.worker.js, admin.submission.service.js and the buttons of  *)
(* staff.interactions.js.  No call holds a lock: it reads, awaits, and     *)
(* writes by id what it decided, whatever happened meanwhile.              *)
(***************************************************************************)
EXTENDS Integers, Sequences, FiniteSets

CONSTANTS
  Rows,         \* room for submissions
  Clips,        \* normalised URLs
  Creators,
  Callers,      \* calls of creators and staff that can be in flight together
  Verifiers,    \* jobs of the verification worker that can be active together
  Staff,        \* the operations of staff that are used
  Outcomes,     \* what a provider answers
  Faults,       \* what may fail: "queue", "db", "history", "crash"
  MaxFaults,    \* bound on the kinds of fault that meet
  None,         \* no row, no creator
  MaxErrors,    \* bound on the transient errors of providers
  MaxHistory    \* bound on the moderation history of a submission

Statuses    == {"PENDING_VERIFICATION", "UNDER_REVIEW", "APPROVED", "REJECTED", "FLAGGED",
                "POST_APPROVAL_REVIEW"}
AllStaff    == {"approve", "reject", "flag", "review", "keep", "reverify"}
AllOutcomes == {"low", "review", "high", "unavailable", "ineligible", "undated", "deleted",
                "unauthorized", "transient", "hidden"}
AllFaults   == {"queue", "db", "history", "crash"}

ASSUME SubmissionConstants ==
  /\ None \notin Clips \cup Creators \cup Statuses
  /\ Staff \subseteq AllStaff
  /\ Outcomes \subseteq AllOutcomes
  /\ Faults \subseteq AllFaults
  /\ {MaxErrors, MaxHistory, MaxFaults} \subseteq Nat
  /\ Callers \cap Verifiers = {} \/ Cardinality(Callers \cup Verifiers) = 1

VARIABLES
  clip, owner,    \* submissions: what was submitted by whom; None is no row
  status,         \* submissions.status
  held,           \* auxiliary: the statuses each submission has had
  verification,   \* verifications.status, "NONE" before the first run
  job, tries,     \* the job verify_<id> and the attempts it has made
  history,        \* submission_moderation_history
  errors,         \* transient errors so far
  call,           \* per worker, the call in flight
  met             \* history: the faults so far, and "overlap" of two calls,
                  \* "hidden" counts, the buttons "keep" and "reverify"

vars == <<clip, owner, status, held, verification, job, tries, history, errors, call, met>>
rows == <<clip, owner>>
states == <<status, held>>
jobs == <<job, tries>>

Workers == Callers \cup Verifiers

-----------------------------------------------------------------------------
Verifications == {"NONE", "PENDING", "IN_PROGRESS", "COMPLETED", "FAILED"}
Jobs          == {"none", "waiting", "active", "done", "failed"}
Attempts      == 3

Exists(s) == clip[s] # None

\* A call that creates, verifies or decides, by what it does next.
Idle == [stage |-> "idle"]
Calls == {Idle}
  \cup [stage : {"insert"}, clip : Clips, owner : Creators]
  \cup [stage : {"enqueue"}, row : Rows]
  \cup [stage : {"load", "load_forced"}, row : Rows]
  \cup [stage : {"measure"}, row : Rows, from : Statuses]
  \cup [stage : {"decide"}, row : Rows, from : Statuses, to : Statuses, noted : BOOLEAN]
  \cup [stage : {"record"}, row : Rows, from : Statuses, to : Statuses]

TypeOK ==
  /\ clip \in [Rows -> Clips \cup {None}]
  /\ owner \in [Rows -> Creators \cup {None}]
  /\ status \in [Rows -> Statuses]
  /\ held \in [Rows -> SUBSET Statuses]
  /\ verification \in [Rows -> Verifications]
  /\ job \in [Rows -> Jobs]
  /\ tries \in [Rows -> 0..Attempts]
  /\ history \in [Rows -> Seq([from : Statuses, to : Statuses])]
  /\ errors \in Nat
  /\ call \in [Workers -> Calls]
  /\ met \subseteq AllFaults \cup {"overlap", "hidden", "keep", "reverify"}

Init ==
  /\ clip = [s \in Rows |-> None]
  /\ owner = [s \in Rows |-> None]
  /\ status = [s \in Rows |-> "PENDING_VERIFICATION"]
  /\ held = [s \in Rows |-> {}]
  /\ verification = [s \in Rows |-> "NONE"]
  /\ job = [s \in Rows |-> "none"]
  /\ tries = [s \in Rows |-> 0]
  /\ history = [s \in Rows |-> <<>>]
  /\ errors = 0
  /\ call = [w \in Workers |-> Idle]
  /\ met = {}

Become(w, c) == call' = [call EXCEPT ![w] = c]

\* What is met when a call begins, and when fault f happens.
Overlap   == IF \E v \in Workers : call[v] # Idle THEN {"overlap"} ELSE {}
Begins    == met' = met \cup Overlap
Happens(f) ==
  /\ f \in Faults
  /\ met' = met \cup {f}
  /\ Cardinality(met' \cap AllFaults) <= MaxFaults

Enter(s, v) ==
  /\ status' = [status EXCEPT ![s] = v]
  /\ held' = [held EXCEPT ![s] = @ \cup {v}]

-----------------------------------------------------------------------------
(* Creation                                                                *)

\* The unique index: one row per campaign and normalised URL.
Taken(c, x) == \E s \in Rows : clip[s] = x

\* createSubmission: creator, campaign and membership are in order, and
\* findDuplicateSubmission finds nobody's submission of the clip.
BeginSubmit(w, c, x) ==
  /\ w \in Callers
  /\ call[w] = Idle
  /\ \A s \in Rows : clip[s] # x
  /\ Become(w, [stage |-> "insert", clip |-> x, owner |-> c])
  /\ Begins
  /\ UNCHANGED <<rows, states, verification, jobs, history, errors>>

\* The insert, or P2002.
InsertSubmission(w) ==
  LET c == call[w] IN
  /\ c.stage = "insert"
  /\ \/ /\ ~Taken(c.owner, c.clip)
        /\ \E s \in Rows :
             /\ ~Exists(s)
             /\ clip' = [clip EXCEPT ![s] = c.clip]
             /\ owner' = [owner EXCEPT ![s] = c.owner]
             /\ Enter(s, "PENDING_VERIFICATION")
             /\ Become(w, [stage |-> "enqueue", row |-> s])
     \/ /\ Taken(c.owner, c.clip)
        /\ Become(w, Idle)
        /\ UNCHANGED <<rows, states>>
  /\ UNCHANGED <<verification, jobs, history, errors, met>>

\* queueVerificationJob, whose errors are swallowed; the instant
\* verification follows.
Enqueue(w) ==
  /\ call[w].stage = "enqueue"
  /\ LET s == call[w].row IN
     /\ \/ job' = [job EXCEPT ![s] = "waiting"] /\ UNCHANGED met
        \/ Happens("queue") /\ UNCHANGED job
     /\ Become(w, [stage |-> "load_forced", row |-> s])
  /\ UNCHANGED <<rows, states, verification, tries, history, errors>>

-----------------------------------------------------------------------------
(* Verification                                                            *)

\* The worker takes a job.
TakeJob(w, s) ==
  /\ w \in Verifiers
  /\ call[w] = Idle
  /\ job[s] = "waiting"
  /\ job' = [job EXCEPT ![s] = "active"]
  /\ tries' = [tries EXCEPT ![s] = @ + 1]
  /\ Become(w, [stage |-> "load", row |-> s])
  /\ Begins
  /\ UNCHANGED <<rows, states, verification, history, errors>>

\* The job that worker w runs for row s, if it runs one, becomes j.
JobBecomes(w, s, j) ==
  job' = IF w \in Verifiers /\ job[s] = "active" THEN [job EXCEPT ![s] = j] ELSE job

BugAfterError(s) == "failed"

\* A job that throws is tried again until its attempts are used up.
AfterError(s) == IF tries[s] < Attempts THEN "waiting" ELSE "failed"

JobReturns(w, s) == JobBecomes(w, s, "done")
JobThrows(w, s)  == JobBecomes(w, s, AfterError(s))

\* runVerification loads the submission, returns at once if a run completed
\* within the last minute, and marks the verification IN_PROGRESS.
Load(w) ==
  /\ call[w].stage \in {"load", "load_forced"}
  /\ LET s == call[w].row IN
     \/ /\ call[w].stage = "load"
        /\ verification[s] = "COMPLETED"
        /\ Become(w, Idle)
        /\ JobReturns(w, s)
        /\ UNCHANGED verification
     \/ /\ verification' = [verification EXCEPT ![s] = "IN_PROGRESS"]
        /\ Become(w, [stage |-> "measure", row |-> s, from |-> status[s]])
        /\ UNCHANGED job
  /\ UNCHANGED <<rows, states, tries, history, errors, met>>

\* What a run makes of the provider's answer.
Ends(outcome) == IF outcome \in {"deleted", "unauthorized"} THEN "FAILED" ELSE "COMPLETED"
Verdict(outcome) ==
  CASE outcome = "low" -> "APPROVED"
    [] outcome = "high" -> "FLAGGED"
    [] outcome \in {"deleted", "ineligible"} -> "REJECTED"
    [] outcome \in {"review", "unavailable", "undated", "unauthorized"} -> "UNDER_REVIEW"

\* The provider answers and the verification ends.
Measure(w) ==
  /\ call[w].stage = "measure"
  /\ \E outcome \in Outcomes \ {"transient", "hidden"} :
       /\ verification' = [verification EXCEPT ![call[w].row] = Ends(outcome)]
       /\ Become(w, [stage |-> "decide", row |-> call[w].row, from |-> call[w].from,
                     to |-> Verdict(outcome), noted |-> TRUE])
  /\ UNCHANGED <<rows, states, jobs, history, errors, met>>

\* A transient error: the verification is PENDING again and the run throws.
Transient(w) ==
  /\ call[w].stage = "measure"
  /\ "transient" \in Outcomes /\ errors < MaxErrors
  /\ errors' = errors + 1
  /\ verification' = [verification EXCEPT ![call[w].row] = "PENDING"]
  /\ Become(w, Idle)
  /\ JobThrows(w, call[w].row)
  /\ UNCHANGED <<rows, states, tries, history, met>>

\* A clip whose likes or comments are hidden: createMetricSnapshot converts
\* null to a BigInt and the run throws as it is.
Hidden(w) ==
  /\ call[w].stage = "measure"
  /\ "hidden" \in Outcomes
  /\ met' = met \cup {"hidden"}
  /\ Become(w, Idle)
  /\ JobThrows(w, call[w].row)
  /\ UNCHANGED <<rows, states, verification, tries, history, errors>>

-----------------------------------------------------------------------------
(* Decisions of staff: each reads the submission first                     *)

BugDecision(op, from) ==
  CASE op = "approve" /\ from # "APPROVED" -> {"APPROVED"}
    [] op = "reject" -> {"REJECTED"}
    [] op = "flag"   -> {"FLAGGED"}
    [] op = "review" /\ from # "REJECTED" -> {"POST_APPROVAL_REVIEW"}
    [] OTHER -> {}

\* What operation op turns status from into.
Decision(op, from) ==
  CASE op = "approve" /\ from # "APPROVED" -> {"APPROVED"}
    [] op = "reject" -> {"REJECTED"}
    [] op = "flag"   -> {"FLAGGED"}
    [] op = "review" /\ from = "APPROVED" -> {"POST_APPROVAL_REVIEW"}
    [] OTHER -> {}

\* The entries the history of s has or is about to get.
Entries(s) == Len(history[s])
  + Cardinality({w \in Workers : call[w].stage \in {"measure", "decide", "record"} /\ call[w].row = s})

\* approveSubmission, rejectSubmission (which covers rejectPostApproval),
\* flagSubmission, startPostApprovalReview.
BeginDecision(w, s, op) ==
  /\ w \in Callers
  /\ call[w] = Idle
  /\ Exists(s)
  /\ op \in Staff \ {"keep", "reverify"}
  /\ Entries(s) < MaxHistory
  /\ \E to \in Decision(op, status[s]) :
       Become(w, [stage |-> "decide", row |-> s, from |-> status[s], to |-> to, noted |-> TRUE])
  /\ Begins
  /\ UNCHANGED <<rows, states, verification, jobs, history, errors>>

\* handleStaffSubmissionKeepReview writes the row and nothing else.
BeginKeep(w, s) ==
  /\ w \in Callers
  /\ call[w] = Idle
  /\ Exists(s)
  /\ "keep" \in Staff
  /\ Entries(s) < MaxHistory
  /\ Become(w, [stage |-> "decide", row |-> s, from |-> status[s], to |-> "UNDER_REVIEW",
                noted |-> FALSE])
  /\ met' = met \cup Overlap \cup {"keep"}
  /\ UNCHANGED <<rows, states, verification, jobs, history, errors>>

\* handleStaffSubmissionReverify: a forced run.
BeginReverify(w, s) ==
  /\ w \in Callers
  /\ call[w] = Idle
  /\ Exists(s)
  /\ "reverify" \in Staff
  /\ Entries(s) < MaxHistory
  /\ Become(w, [stage |-> "load_forced", row |-> s])
  /\ met' = met \cup Overlap \cup {"reverify"}
  /\ UNCHANGED <<rows, states, verification, jobs, history, errors>>

\* updateSubmission, by id.
Decide(w) ==
  /\ call[w].stage = "decide"
  /\ LET c == call[w] IN
     /\ Enter(c.row, c.to)
     /\ IF c.noted
        THEN /\ Become(w, [stage |-> "record", row |-> c.row, from |-> c.from, to |-> c.to])
             /\ UNCHANGED job
        ELSE Become(w, Idle) /\ JobReturns(w, c.row)
  /\ UNCHANGED <<rows, verification, tries, history, errors, met>>

BugRecord(w) ==
  /\ call[w].stage = "record"
  /\ history' = [history EXCEPT ![call[w].row] =
                   Append(@, [from |-> "PENDING_VERIFICATION", to |-> call[w].to])]
  /\ JobReturns(w, call[w].row)
  /\ Become(w, Idle)
  /\ UNCHANGED <<rows, states, verification, tries, errors, met>>

\* createHistoryEntry; a run swallows its errors.
Record(w) ==
  /\ call[w].stage = "record"
  /\ LET c == call[w] IN
     /\ \/ history' = [history EXCEPT ![c.row] = Append(@, [from |-> c.from, to |-> c.to])]
           /\ UNCHANGED met
        \/ Happens("history") /\ UNCHANGED history
     /\ JobReturns(w, c.row)
  /\ Become(w, Idle)
  /\ UNCHANGED <<rows, states, verification, tries, errors>>

-----------------------------------------------------------------------------
(* Failures                                                                *)

\* A query of a run or of a decision fails before the status is written.
QueryFails(w) ==
  /\ Happens("db")
  /\ call[w].stage \in {"load", "load_forced", "measure", "decide"}
  /\ Become(w, Idle)
  /\ JobThrows(w, call[w].row)
  /\ UNCHANGED <<rows, states, verification, tries, history, errors>>

\* The process of worker w dies.  The queue finds its job stalled and hands
\* it out again, or gives it up.
Crash(w) ==
  /\ Happens("crash")
  /\ call[w] # Idle
  /\ Become(w, Idle)
  /\ IF w \in Verifiers /\ call[w].stage # "insert" /\ job[call[w].row] = "active"
     THEN \/ job' = [job EXCEPT ![call[w].row] = "failed"]
          \/ tries[call[w].row] < Attempts /\ job' = [job EXCEPT ![call[w].row] = "waiting"]
     ELSE UNCHANGED job
  /\ UNCHANGED <<rows, states, verification, tries, history, errors>>

\* What a call in flight does next.
Resume(w) ==
  \/ InsertSubmission(w)
  \/ Enqueue(w)
  \/ Load(w)
  \/ Measure(w)
  \/ Transient(w)
  \/ Hidden(w)
  \/ Decide(w)
  \/ Record(w)

Begin(w) ==
  \/ \E c \in Creators, x \in Clips : BeginSubmit(w, c, x)
  \/ \E s \in Rows, op \in Staff : BeginDecision(w, s, op)
  \/ \E s \in Rows : BeginKeep(w, s) \/ BeginReverify(w, s)

Next == \E w \in Workers :
  \/ Begin(w)
  \/ \E s \in Rows : TakeJob(w, s)
  \/ Resume(w)
  \/ QueryFails(w)
  \/ Crash(w)

Spec == Init /\ [][Next]_vars

\* Queries return and providers answer; the worker runs, so a waiting job
\* is taken.  Nobody has to submit or to decide.
FairSpec ==
  /\ Spec
  /\ \A w \in Workers : WF_vars(Resume(w))
  /\ \A s \in Rows : WF_vars(\E w \in Verifiers : TakeJob(w, s))

-----------------------------------------------------------------------------
(* Properties                                                              *)

\* The status of a clip, and the statuses it has had.
Standing == [x \in Clips |-> IF \E s \in Rows : clip[s] = x
                             THEN status[CHOOSE s \in Rows : clip[s] = x] ELSE None]
Had == [x \in Clips |-> UNION {held[s] : s \in {r \in Rows : clip[r] = x}}]

\* Whatever overlaps, fails or crashes, each clip keeps to SubmissionFlow.
Flow == INSTANCE SubmissionFlow WITH verdict <- Standing, held <- Had
ImplementsFlow == Flow!Spec

\* The jobs that will not try again: one that has used up its attempts, or
\* was given up after a crash; one that was never queued; and one that took
\* itself for a duplicate, because an earlier run had ended the verification
\* and then failed or died before it wrote the status.
Abandoned(s) ==
  \/ job[s] = "failed" /\ (tries[s] = Attempts \/ "crash" \in met)
  \/ job[s] = "none" /\ met \cap {"queue", "crash"} # {}
  \/ job[s] = "done" /\ met \cap {"db", "crash"} # {}

Waiting(s) == Exists(s) /\ status[s] = "PENDING_VERIFICATION"

\* A submission that waits for ever is one whose job was abandoned.  So it is
\* decided if the instant verification or one of the three attempts of the
\* job gets through, whatever failed before; four transient errors in a row
\* leave it waiting.
EventuallyDecided == \A s \in Rows : <>[]Waiting(s) => <>[]Abandoned(s)

Quiet(s) == \A w \in Workers : call[w] # Idle /\ call[w].stage # "insert" => call[w].row # s

Told(s) == IF history[s] = <<>> THEN "PENDING_VERIFICATION" ELSE history[s][Len(history[s])].to

Chained(s) == \A i \in 2..Len(history[s]) : history[s][i].from = history[s][i-1].to

\* Until two calls overlap the history accounts for the status: its entries
\* follow one another, and between calls the last one ends with the status
\* the submission has.  Only an insert that fails, a crash and the button
\* that keeps a submission under review leave it behind.
HistoryTells ==
  met \cap {"overlap", "history", "crash", "keep"} = {} =>
    \A s \in Rows : Exists(s) => Chained(s) /\ (Quiet(s) => Told(s) = status[s])

=============================================================================
