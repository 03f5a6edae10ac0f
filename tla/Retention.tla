----------------------------- MODULE Retention -----------------------------
(***************************************************************************)
(* One clip that has to stay online: the daily check of the retention      *)
(* worker, its strikes, the adjustments that take back earnings, and the   *)
(* decisions of staff that write the same row (retention.service.js,       *)
(* retention-scheduler.js, retention.worker.js, adjustment.service.js,     *)
(* admin.submission.service.js).                                           *)
(***************************************************************************)
EXTENDS Integers, FiniteSets

CONSTANTS
  Earnings,        \* what the clip may be credited
  Workers,         \* checks and decisions that can be in flight together
  Answers,         \* what the provider says of the identifier it is given
  Ops,             \* the operations besides the checks
  Faults,          \* what may fail: "db", "crash"
  RequiredStrikes, \* config.retention.deletionStrikesRequired
  Days,            \* bound: the days the scheduler runs
  None

AllAnswers == {"live", "gone", "nodata", "auth", "transient"}
AllOps     == {"approve", "reject", "flag", "review", "reverify"}

ASSUME RetentionConstants ==
  /\ Answers \subseteq AllAnswers
  /\ Ops \subseteq AllOps
  /\ Faults \subseteq {"db", "crash"}
  /\ RequiredStrikes \in Nat \ {0}
  /\ Days \in Nat \ {0}

VARIABLES
  status,     \* submissions.status
  retention,  \* submissions.retentionStatus
  deadline,   \* submissions.retentionDeadline: "none", "ahead" or "passed"
  stored,     \* system_settings retention_strikes:<id>, None without a row
  memory,     \* _inMemoryStrikes
  credited,   \* the ELIGIBLE earnings of the clip
  adjusted,   \* financial_adjustments: how many per earning and type
  day,        \* the day of the scheduler's cycle
  job, tries, \* the job retention_<id>_<day> of each day, and its attempts
  answers,    \* auxiliary: the answers "gone" so far
  owed,       \* auxiliary: what was credited when VIOLATED was written
  call,       \* per worker, the call in flight
  met         \* history: the faults so far, "overlap" of two calls, and
              \* "flag" and "reverify"

vars == <<status, retention, deadline, stored, memory, credited, adjusted, day, job,
          tries, answers, owed, call, met>>
row     == <<status, retention, deadline>>
strikes == <<stored, memory>>
ledger  == <<credited, adjusted, owed>>
jobs    == <<day, job, tries>>

Statuses   == {"UNDER_REVIEW", "APPROVED", "REJECTED", "FLAGGED", "POST_APPROVAL_REVIEW"}
Retentions == {"PENDING_CHECK", "ACTIVE", "FULFILLED", "VIOLATED"}
Terminal   == {"FULFILLED", "VIOLATED"}
Types      == {"RETENTION_VIOLATION", "POST_APPROVAL_REJECTION"}
Jobs       == {"none", "waiting", "active", "done", "failed"}
Attempts   == 3

Idle == [stage |-> "idle"]

\* What a call does next; job is the day of its job, 0 for a decision.
Calls == {Idle}
  \cup [stage : {"ask"}, job : 1..Days, due : BOOLEAN]
  \cup [stage : {"count", "reset", "violate", "fulfil"}, job : 1..Days]
  \cup [stage : {"live"}, job : 1..Days, due : BOOLEAN]
  \cup [stage : {"strike"}, job : 1..Days, strikes : Nat \ {0}]
  \cup [stage : {"find"}, job : 0..Days, type : Types]
  \cup [stage : {"look"}, job : 0..Days, type : Types, left : SUBSET Earnings]
  \cup [stage : {"create"}, job : 0..Days, type : Types, left : SUBSET Earnings, earning : Earnings]
  \cup [stage : {"credit"}, earning : Earnings]
  \cup [stage : {"approve"}, fresh : BOOLEAN]
  \cup [stage : {"reject", "review"}]

TypeOK ==
  /\ status \in Statuses
  /\ retention \in Retentions
  /\ deadline \in {"none", "ahead", "passed"}
  /\ stored \in Nat \cup {None}
  /\ memory \in Nat
  /\ credited \subseteq Earnings
  /\ adjusted \in [Earnings -> [Types -> Nat]]
  /\ day \in 1..Days
  /\ job \in [1..Days -> Jobs]
  /\ tries \in [1..Days -> 0..Attempts]
  /\ answers \in Nat
  /\ owed \subseteq Earnings
  /\ call \in [Workers -> Calls]
  /\ met \subseteq {"overlap", "db", "crash", "flag", "reverify"}

Init ==
  /\ status = "UNDER_REVIEW"
  /\ retention = "PENDING_CHECK"
  /\ deadline = "none"
  /\ stored = None
  /\ memory = 0
  /\ credited = {}
  /\ adjusted = [e \in Earnings |-> [t \in Types |-> 0]]
  /\ day = 1
  /\ job = [d \in 1..Days |-> "none"]
  /\ tries = [d \in 1..Days |-> 0]
  /\ answers = 0
  /\ owed = {}
  /\ call = [w \in Workers |-> Idle]
  /\ met = {}

Become(w, c) == call' = [call EXCEPT ![w] = c]

\* What is met when a call begins, and when a query fails.
Begins  == met' = met \cup (IF \E v \in Workers : call[v] # Idle THEN {"overlap"} ELSE {})
DbFails == "db" \in Faults /\ met' = met \cup {"db"}

\* The call of w ends, and the job it runs, if any, with it.
JobOf(w) == IF "job" \in DOMAIN call[w] THEN call[w].job ELSE 0

EndsJob(w, s) ==
  job' = IF JobOf(w) = 0 \/ job[JobOf(w)] # "active" THEN job ELSE [job EXCEPT ![JobOf(w)] = s]

Returns(w) == Become(w, Idle) /\ EndsJob(w, "done")

\* A job that throws is tried again until its attempts are used up.
AfterError(w) == IF JobOf(w) # 0 /\ tries[JobOf(w)] < Attempts THEN "waiting" ELSE "failed"
Throws(w) == Become(w, Idle) /\ EndsJob(w, AfterError(w))

-----------------------------------------------------------------------------
(* The clip, its creator and its earnings                                  *)

DeadlinePasses ==
  /\ deadline = "ahead"
  /\ deadline' = "passed"
  /\ UNCHANGED <<status, retention, strikes, ledger, jobs, answers, call, met>>

\* Polling finds the clip APPROVED and credits it, whatever its retention.
BeginCredit(w, e) ==
  /\ call[w] = Idle
  /\ status = "APPROVED"
  /\ e \notin credited
  /\ Become(w, [stage |-> "credit", earning |-> e])
  /\ Begins
  /\ UNCHANGED <<row, strikes, ledger, jobs, answers>>

Credit(w) ==
  /\ call[w].stage = "credit"
  /\ credited' = credited \cup {call[w].earning}
  /\ Become(w, Idle)
  /\ UNCHANGED <<row, strikes, adjusted, owed, jobs, answers, met>>

-----------------------------------------------------------------------------
(* The scheduler                                                           *)

NextDay ==
  /\ day < Days
  /\ day' = day + 1
  /\ UNCHANGED <<row, strikes, ledger, job, tries, answers, call, met>>

\* dispatchRetentionPollingCycle: one job per submission and day, a second
\* one is deduplicated by its id.
Dispatch ==
  /\ retention = "ACTIVE"
  /\ job[day] = "none"
  /\ job' = [job EXCEPT ![day] = "waiting"]
  /\ UNCHANGED <<row, strikes, ledger, day, tries, answers, call, met>>

-----------------------------------------------------------------------------
(* checkSubmissionRetention                                                *)

\* The guards of a check.
Open == retention = "ACTIVE"

\* The worker takes a job and the check loads the submission; the clock is
\* read now.
TakeJob(w, d) ==
  /\ call[w] = Idle
  /\ job[d] = "waiting"
  /\ tries' = [tries EXCEPT ![d] = @ + 1]
  /\ IF Open
     THEN /\ Become(w, [stage |-> "ask", job |-> d, due |-> deadline = "passed"])
          /\ job' = [job EXCEPT ![d] = "active"]
     ELSE job' = [job EXCEPT ![d] = "done"] /\ UNCHANGED call
  /\ Begins
  /\ UNCHANGED <<row, strikes, ledger, day, answers>>

BugAnswer(w) ==
  /\ call[w].stage = "ask"
  /\ \E a \in Answers :
       /\ Become(w, IF a = "live"
                    THEN [stage |-> "live", job |-> call[w].job, due |-> call[w].due]
                    ELSE [stage |-> "count", job |-> call[w].job])
       /\ answers' = IF a = "gone" THEN answers + 1 ELSE answers
  /\ UNCHANGED <<row, strikes, ledger, jobs, met>>

\* The provider answers.  It is asked for `parsed.videoId || parsed.cleanUrl`,
\* which parseAndNormalizeUrl does not return: what it answers has nothing
\* to do with the clip.
Answer(w) ==
  /\ call[w].stage = "ask"
  /\ \/ /\ "gone" \in Answers
        /\ Become(w, [stage |-> "count", job |-> call[w].job])
        /\ answers' = answers + 1
        /\ UNCHANGED job
     \/ /\ "live" \in Answers
        /\ Become(w, [stage |-> "live", job |-> call[w].job, due |-> call[w].due])
        /\ UNCHANGED <<job, answers>>
     \/ Answers \cap {"nodata", "auth"} # {} /\ Returns(w) /\ UNCHANGED answers
     \/ "transient" \in Answers /\ Throws(w) /\ UNCHANGED answers
  /\ UNCHANGED <<row, strikes, ledger, day, tries, met>>

\* getStrikes: the row, or the memory when there is none or it cannot be read.
CountStrikes(w) ==
  /\ call[w].stage = "count"
  /\ \E n \in {stored, memory} \ {None} :
       /\ Become(w, [stage |-> "strike", job |-> call[w].job, strikes |-> n + 1])
       /\ IF stored \in {None, n} THEN UNCHANGED met ELSE DbFails
  /\ UNCHANGED <<row, strikes, ledger, jobs, answers>>

\* _setStrikes, whose row may fail to be written.  Below the threshold the
\* availability is noted and the check returns, or throws when that fails.
Strike(w) ==
  /\ call[w].stage = "strike"
  /\ LET n == call[w].strikes IN
     /\ memory' = n
     /\ IF n >= RequiredStrikes
        THEN /\ Become(w, [stage |-> "reset", job |-> call[w].job])
             /\ UNCHANGED job
             /\ \/ stored' = n /\ UNCHANGED met
                \/ UNCHANGED stored /\ DbFails
        ELSE \/ Returns(w) /\ stored' = n /\ UNCHANGED met
             \/ Returns(w) /\ UNCHANGED stored /\ DbFails
             \/ Throws(w) /\ stored' \in {n, stored} /\ DbFails
  /\ UNCHANGED <<row, ledger, day, tries, answers>>

\* _resetStrikes, whose deletion may fail silently.
Forget ==
  /\ memory' = 0
  /\ \/ stored' = None /\ UNCHANGED met
     \/ stored # None /\ UNCHANGED stored /\ DbFails

\* After the last strike, and whenever the clip is live.
ResetStrikes(w) ==
  /\ call[w].stage \in {"reset", "live"}
  /\ Forget
  /\ \/ /\ call[w].stage = "reset"
        /\ Become(w, [stage |-> "violate", job |-> call[w].job])
        /\ UNCHANGED job
     \/ /\ call[w].stage = "live" /\ call[w].due
        /\ Become(w, [stage |-> "fulfil", job |-> call[w].job])
        /\ UNCHANGED job
     \/ call[w].stage = "live" /\ ~call[w].due /\ Returns(w)
  /\ UNCHANGED <<row, ledger, day, tries, answers>>

\* The update by id, then the audit event.
Fulfil(w) ==
  /\ call[w].stage = "fulfil"
  /\ retention' = "FULFILLED"
  /\ Returns(w)
  /\ UNCHANGED <<status, deadline, strikes, ledger, day, tries, answers, met>>

\* _transitionToViolated: the update by id, then the audit event.
Violate(w) ==
  /\ call[w].stage = "violate"
  /\ retention' = "VIOLATED"
  /\ owed' = credited
  /\ Become(w, [stage |-> "find", job |-> call[w].job, type |-> "RETENTION_VIOLATION"])
  /\ UNCHANGED <<status, deadline, strikes, credited, adjusted, jobs, answers, met>>

-----------------------------------------------------------------------------
(* createRetentionViolationAdjustments, createPostApprovalRejectionAdjustments *)

\* After the last earning a check is done and a rejection writes its status.
Adjusted(w, type) ==
  IF type = "RETENTION_VIOLATION" THEN Returns(w)
  ELSE Become(w, [stage |-> "reject"]) /\ UNCHANGED job

\* The earnings of the submission.
FindEarnings(w) ==
  /\ call[w].stage = "find"
  /\ IF credited = {} THEN Adjusted(w, call[w].type)
     ELSE /\ Become(w, [stage |-> "look", job |-> call[w].job, type |-> call[w].type,
                        left |-> credited])
          /\ UNCHANGED job
  /\ UNCHANGED <<row, strikes, ledger, day, tries, answers, met>>

\* The call goes on with the earnings that are left.
GoesOn(w, left) ==
  IF left = {} THEN Adjusted(w, call[w].type)
  ELSE /\ Become(w, [stage |-> "look", job |-> call[w].job, type |-> call[w].type, left |-> left])
       /\ UNCHANGED job

BugLookEarning(w) ==
  /\ call[w].stage = "look"
  /\ \E e \in call[w].left :
       IF \E t \in Types : adjusted[e][t] > 0 THEN GoesOn(w, call[w].left \ {e})
       ELSE /\ Become(w, [stage |-> "create", job |-> call[w].job, type |-> call[w].type,
                          left |-> call[w].left \ {e}, earning |-> e])
            /\ UNCHANGED job
  /\ UNCHANGED <<row, strikes, ledger, day, tries, answers, met>>

\* getAdjustmentByEarningAndType: an earning adjusted before is skipped.
LookEarning(w) ==
  /\ call[w].stage = "look"
  /\ \E e \in call[w].left :
       IF adjusted[e][call[w].type] > 0 THEN GoesOn(w, call[w].left \ {e})
       ELSE /\ Become(w, [stage |-> "create", job |-> call[w].job, type |-> call[w].type,
                          left |-> call[w].left \ {e}, earning |-> e])
            /\ UNCHANGED job
  /\ UNCHANGED <<row, strikes, ledger, day, tries, answers, met>>

BugUnique(e, type) == TRUE

\* The unique index on earningId and type.
Unique(e, type) == adjusted[e][type] = 0

\* createAdjustment, or P2002.
CreateAdjustment(w) ==
  /\ call[w].stage = "create"
  /\ LET c == call[w] IN
     \/ /\ Unique(c.earning, c.type)
        /\ adjusted' = [adjusted EXCEPT ![c.earning][c.type] = @ + 1]
        /\ GoesOn(w, c.left)
     \/ /\ ~Unique(c.earning, c.type)
        /\ Throws(w)
        /\ UNCHANGED adjusted
  /\ UNCHANGED <<row, strikes, credited, owed, day, tries, answers, met>>

-----------------------------------------------------------------------------
(* Decisions on the submission                                             *)

\* approveSubmission: the retention begins if there is no deadline yet.
BeginApprove(w) ==
  /\ "approve" \in Ops
  /\ call[w] = Idle
  /\ status # "APPROVED"
  /\ Become(w, [stage |-> "approve", fresh |-> deadline = "none"])
  /\ Begins
  /\ UNCHANGED <<row, strikes, ledger, jobs, answers>>

Approve(w) ==
  /\ call[w].stage = "approve"
  /\ status' = "APPROVED"
  /\ IF call[w].fresh THEN retention' = "ACTIVE" /\ deadline' = "ahead"
                      ELSE UNCHANGED <<retention, deadline>>
  /\ Become(w, Idle)
  /\ UNCHANGED <<strikes, ledger, jobs, answers, met>>

BugApprovals == {"APPROVED"}

\* The statuses whose rejection is a post-approval rejection.
Approvals == {"APPROVED", "POST_APPROVAL_REVIEW"}

\* rejectSubmission: from an approval it is rejectPostApproval, which adjusts
\* first; from any other status it only writes the status.
BeginReject(w) ==
  /\ "reject" \in Ops
  /\ call[w] = Idle
  /\ Become(w, IF status \in Approvals
               THEN [stage |-> "find", job |-> 0, type |-> "POST_APPROVAL_REJECTION"]
               ELSE [stage |-> "reject"])
  /\ Begins
  /\ UNCHANGED <<row, strikes, ledger, jobs, answers>>

Reject(w) ==
  /\ call[w].stage = "reject"
  /\ status' = "REJECTED"
  /\ Become(w, Idle)
  /\ UNCHANGED <<retention, deadline, strikes, ledger, jobs, answers, met>>

\* flagOrReviewSubmission, which asks for no status: its write alone matters.
Flag ==
  /\ "flag" \in Ops
  /\ status' = "FLAGGED"
  /\ met' = met \cup {"flag"}
  /\ UNCHANGED <<retention, deadline, strikes, ledger, jobs, answers, call>>

\* startPostApprovalReview.
BeginReview(w) ==
  /\ "review" \in Ops
  /\ call[w] = Idle
  /\ status = "APPROVED"
  /\ Become(w, [stage |-> "review"])
  /\ Begins
  /\ UNCHANGED <<row, strikes, ledger, jobs, answers>>

Review(w) ==
  /\ call[w].stage = "review"
  /\ status' = "POST_APPROVAL_REVIEW"
  /\ Become(w, Idle)
  /\ UNCHANGED <<retention, deadline, strikes, ledger, jobs, answers, met>>

\* A forced run of the verification writes what it finds, by id; an approval
\* starts the retention over.
Reverify ==
  /\ "reverify" \in Ops
  /\ \E v \in Statuses \ {"POST_APPROVAL_REVIEW"} :
       /\ status' = v
       /\ IF v = "APPROVED" THEN retention' = "ACTIVE" /\ deadline' = "ahead"
                            ELSE UNCHANGED <<retention, deadline>>
  /\ met' = met \cup {"reverify"}
  /\ UNCHANGED <<strikes, ledger, jobs, answers, call>>

-----------------------------------------------------------------------------
(* Failures                                                                *)

\* A query that is not caught fails.
QueryFails(w) ==
  /\ DbFails
  /\ call[w].stage \in {"fulfil", "violate", "find", "look", "create", "approve", "reject", "review",
                         "credit"}
  /\ Throws(w)
  /\ UNCHANGED <<row, strikes, ledger, day, tries, answers>>

\* The process dies: what is in memory is gone and the queue hands the
\* stalled jobs out again, or gives them up.
Crash ==
  /\ "crash" \in Faults
  /\ call # [w \in Workers |-> Idle]
  /\ call' = [w \in Workers |-> Idle]
  /\ memory' = 0
  /\ job' \in {[d \in 1..Days |-> IF job[d] = "active" THEN s ELSE job[d]] : s \in {"waiting", "failed"}}
  /\ \A d \in 1..Days : job[d] = "active" /\ job'[d] = "waiting" => tries[d] < Attempts
  /\ met' = met \cup {"crash"}
  /\ UNCHANGED <<row, stored, ledger, day, tries, answers>>

Check(w) ==
  \/ \E d \in 1..Days : TakeJob(w, d)
  \/ Answer(w) \/ CountStrikes(w) \/ Strike(w) \/ ResetStrikes(w)
  \/ Fulfil(w) \/ Violate(w)

Adjust(w) == FindEarnings(w) \/ LookEarning(w) \/ CreateAdjustment(w)

Decision(w) ==
  \/ BeginApprove(w) \/ Approve(w)
  \/ BeginReject(w) \/ Reject(w)
  \/ BeginReview(w) \/ Review(w)

Next ==
  \/ DeadlinePasses \/ NextDay \/ Dispatch \/ Flag \/ Reverify \/ Crash
  \/ \E w \in Workers :
       \/ \E e \in Earnings : BeginCredit(w, e)
       \/ Credit(w)
       \/ Check(w)
       \/ Adjust(w)
       \/ Decision(w)
       \/ QueryFails(w)

Spec == Init /\ [][Next]_vars

-----------------------------------------------------------------------------
(* Properties                                                              *)

Quiet == \A w \in Workers : call[w] = Idle

\* Two checks that find the same earning unadjusted do not deduct it twice,
\* nor do a retry and the attempt it repeats: "Fully idempotent: subsequent
\* runs will not produce duplicate adjustments" (adjustment.service.js).
AdjustedOnce == \A e \in Earnings, t \in Types : adjusted[e][t] <= 1

\* Whatever checks overlap, whatever crashes and whichever writes of strikes
\* are lost, nobody is penalised on fewer "gone" answers than the
\* configuration requires.
ViolationTakesStrikes == retention = "VIOLATED" => answers >= RequiredStrikes

\* Once the calls are done, what the creator had been credited at the time
\* of the violation has been taken back; unless calls overlapped, or a query
\* or the process failed after VIOLATED was written.
ViolationIsDeducted ==
  /\ Quiet
  /\ retention = "VIOLATED"
  /\ met \cap {"overlap", "db", "crash"} = {}
  => \A e \in owed : adjusted[e]["RETENTION_VIOLATION"] = 1

\* Once the calls are done, a rejected clip has no earning that was not
\* taken back; unless calls overlapped, or the clip was flagged or verified
\* again after it was approved.
RejectedIsDeducted ==
  /\ Quiet
  /\ status = "REJECTED"
  /\ met \cap {"overlap", "flag", "reverify"} = {}
  => \A e \in credited : adjusted[e]["POST_APPROVAL_REJECTION"] = 1

-----------------------------------------------------------------------------
(* Claims of comments and tests                                            *)

\* What is taken back of an earning never exceeds it ("adjustment cannot
\* exceed applicable earning", retention_enforcement.test.js).
NeverMoreThanEarned ==
  \A e \in Earnings : adjusted[e]["RETENTION_VIOLATION"] + adjusted[e]["POST_APPROVAL_REJECTION"] <= 1
=============================================================================
