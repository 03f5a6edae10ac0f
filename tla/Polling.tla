------------------------------ MODULE Polling ------------------------------
(***************************************************************************)
(* One clip under scheduled polling: the jobs of consecutive cycles, what  *)
(* a job makes of the provider's answer (unchanged, a new snapshot, a      *)
(* suspect, a credit), and what staff do to the clip and its campaign    *)
(* meanwhile (metric-polling.worker.js, metric-scheduler.js,               *)
(* polling.policy.js, earnings.service.js, admin.submission.service.js).   *)
(* The counts of a clip are one number.                                    *)
(***************************************************************************)
EXTENDS Integers, FiniteSets

CONSTANTS
  Workers,      \* jobs that can be active together
  Staff,        \* calls of staff that can be in flight together
  Ops,          \* the operations of staff that are used
  Faults,       \* what may fail: "provider", "db", "credit", "crash"
  Suspicions,   \* whether the analysis of a snapshot may find it critical
  InitialViews, \* the counts the verification found when it approved the clip
  MinViews, MaxViews, \* bounds on the counts
  MaxErrors     \* bound on the failures

AllOps == {"refresh", "manual", "reject", "flag", "approve", "pause", "end"}

\* What the constants may be.
PollingConstants ==
  /\ Workers \cap Staff = {}
  /\ Ops \subseteq AllOps
  /\ Faults \subseteq {"provider", "db", "credit", "crash"}
  /\ Suspicions \subseteq BOOLEAN /\ Suspicions # {}
  /\ {MinViews, MaxViews, MaxErrors} \subseteq Nat
  /\ InitialViews \in MinViews..MaxViews

VARIABLES
  status,     \* submissions.status
  campaign,   \* campaigns.status
  views,      \* what the platform counts
  peak,       \* auxiliary: the most it has counted
  latest,     \* views of the latest metric_snapshots row
  repeated,   \* auxiliary: the latest row is equal to the one before
  credited,   \* the views the earnings of the clip cover
  suspect,    \* auxiliary: a snapshot was found critical and nobody has decided since
  cycle,      \* the interval bucket, 0 or 1
  job, tries, \* the job poll_<id>_<bucket> of the last two cycles, and its attempts
  errors,     \* failures so far
  call,       \* per worker, the call in flight
  met         \* history: the failures so far, what staff have done to the
              \* clip, and "overlap" of two calls

vars == <<status, campaign, views, peak, latest, repeated, credited, suspect, cycle,
          job, tries, errors, call, met>>
clip      == <<status, campaign, views, peak>>
snapshots == <<latest, repeated>>
jobs      == <<cycle, job, tries>>

Statuses  == {"APPROVED", "REJECTED", "FLAGGED", "POST_APPROVAL_REVIEW"}
Campaigns == {"ACTIVE", "PAUSED", "ENDED"}
Jobs      == {"none", "waiting", "active", "done", "failed"}
Attempts  == 3
Counts    == MinViews..MaxViews
Cycles    == {0, 1}

Idle == [stage |-> "idle"]

\* What a job does next with the row it read and the counts it got; staff's
\* refresh is a call without a job.
Calls == {Idle}
  \cup [stage : {"measure"}, cycle : Cycles, seen : Counts]
  \cup [stage : {"insert", "judge", "flag", "credit", "commit"}, cycle : Cycles, views : Counts]
  \cup [stage : {"refresh"}]
  \cup [stage : {"enter"}, views : Counts]

TypeOK ==
  /\ status \in Statuses
  /\ campaign \in Campaigns
  /\ views \in Counts
  /\ peak \in Counts
  /\ latest \in Counts
  /\ repeated \in BOOLEAN
  /\ credited \in {0} \cup Counts
  /\ suspect \in BOOLEAN
  /\ cycle \in Cycles
  /\ job \in [Cycles -> Jobs]
  /\ tries \in [Cycles -> 0..Attempts]
  /\ errors \in 0..MaxErrors
  /\ call \in [Workers \cup Staff -> Calls]
  /\ met \subseteq {"provider", "db", "credit", "crash", "refresh", "manual", "moderate", "overlap"}

\* The verification has taken a snapshot and approved the clip.
Init ==
  /\ status = "APPROVED"
  /\ campaign = "ACTIVE"
  /\ views = InitialViews
  /\ peak = InitialViews
  /\ latest = InitialViews
  /\ repeated = FALSE
  /\ credited = 0
  /\ suspect = FALSE
  /\ cycle = 0
  /\ job = [c \in Cycles |-> "none"]
  /\ tries = [c \in Cycles |-> 0]
  /\ errors = 0
  /\ call = [w \in Workers \cup Staff |-> Idle]
  /\ met = {}

Become(w, c) == call' = [call EXCEPT ![w] = c]
EndsJob(w, s) == job' = [job EXCEPT ![call[w].cycle] = s]

Returns(w) == Become(w, Idle) /\ EndsJob(w, "done")

\* A job that throws is tried again until its attempts are used up.
AfterError(c) == IF tries[c] < Attempts THEN "waiting" ELSE "failed"
Throws(w) == Become(w, Idle) /\ EndsJob(w, AfterError(call[w].cycle))

Fails(f) == f \in Faults /\ errors < MaxErrors /\ errors' = errors + 1 /\ met' = met \cup {f}

\* A job is taken, or staff do things to the clip.
Begins(things) ==
  met' = met \cup things
             \cup (IF \E w \in Workers \cup Staff : call[w] # Idle THEN {"overlap"} ELSE {})

-----------------------------------------------------------------------------
(* The platform and the scheduler                                          *)

\* Counts mostly grow; the platform also takes views back.
Watched ==
  /\ views' \in Counts \ {views}
  /\ peak' = IF views' > peak THEN views' ELSE peak
  /\ UNCHANGED <<status, campaign, snapshots, credited, suspect, jobs, errors, call, met>>

BugNextCycle ==
  /\ job[1 - cycle] \notin {"waiting", "active"}
  /\ cycle' = 1 - cycle
  /\ UNCHANGED <<clip, snapshots, credited, suspect, job, tries, errors, call, met>>

\* The next interval; the jobs of the cycle before the last one have ended.
NextCycle ==
  LET c == 1 - cycle IN
  /\ job[c] \notin {"waiting", "active"}
  /\ cycle' = c
  /\ job' = [job EXCEPT ![c] = "none"]
  /\ tries' = [tries EXCEPT ![c] = 0]
  /\ UNCHANGED <<clip, snapshots, credited, suspect, errors, call, met>>

\* findEligibleSubmissionsBatch, whose query and filter agree: the policy
\* compares camp.endDate, which a campaign does not have, so an ended one
\* is past its grace period at once.
Pollable == status = "APPROVED" /\ campaign \in {"ACTIVE", "PAUSED"}

\* dispatchMetricPollingCycle: one job per clip and cycle.
Dispatch ==
  /\ Pollable
  /\ job[cycle] = "none"
  /\ job' = [job EXCEPT ![cycle] = "waiting"]
  /\ UNCHANGED <<clip, snapshots, credited, suspect, cycle, tries, errors, call, met>>

-----------------------------------------------------------------------------
(* The worker                                                              *)

\* The job loads the clip with its latest snapshot; a clip that is not
\* eligible any more is skipped.
TakeJob(w, c) ==
  /\ w \in Workers
  /\ call[w] = Idle
  /\ job[c] = "waiting"
  /\ tries' = [tries EXCEPT ![c] = @ + 1]
  /\ IF Pollable
     THEN /\ job' = [job EXCEPT ![c] = "active"]
          /\ Become(w, [stage |-> "measure", cycle |-> c, seen |-> latest])
     ELSE job' = [job EXCEPT ![c] = "done"] /\ UNCHANGED call
  /\ Begins({})
  /\ UNCHANGED <<clip, snapshots, credited, suspect, cycle, errors>>

BugHasMetricsChanged(seen, v) == TRUE

HasMetricsChanged(seen, v) == v # seen

\* The provider counts: without a change nothing is kept.
Measure(w) ==
  /\ call[w].stage = "measure"
  /\ IF HasMetricsChanged(call[w].seen, views)
     THEN /\ Become(w, [stage |-> "insert", cycle |-> call[w].cycle, views |-> views])
          /\ UNCHANGED job
     ELSE Returns(w)
  /\ UNCHANGED <<clip, snapshots, credited, suspect, cycle, tries, errors, met>>

\* No data, a permanent error or a refused key end the job, a transient one
\* is thrown.
ProviderFails(w) ==
  /\ call[w].stage = "measure"
  /\ Fails("provider")
  /\ Returns(w) \/ Throws(w)
  /\ UNCHANGED <<clip, snapshots, credited, suspect, cycle, tries>>

Keep(v) == latest' = v /\ repeated' = (v = latest)

Insert(w) ==
  /\ call[w].stage = "insert"
  /\ Keep(call[w].views)
  /\ Become(w, [call[w] EXCEPT !.stage = "judge"])
  /\ UNCHANGED <<clip, credited, suspect, jobs, errors, met>>

\* analyzeMetricSignals and assessVerificationRisk on the new snapshot and
\* the fifty before.
Judge(w) ==
  /\ call[w].stage = "judge"
  /\ \E critical \in Suspicions :
       /\ suspect' = (suspect \/ critical)
       /\ Become(w, [call[w] EXCEPT !.stage = IF critical THEN "flag" ELSE "credit"])
  /\ UNCHANGED <<clip, snapshots, credited, jobs, errors, met>>

BugFlag(w) ==
  /\ call[w].stage = "flag"
  /\ Throws(w)
  /\ UNCHANGED <<clip, snapshots, credited, suspect, cycle, tries, errors, met>>

\* The status is written by id.  The history, the audit and the message to
\* staff that should follow are not reached: the client has no
\* moderationHistory, so the job throws a TypeError.
Flag(w) ==
  /\ call[w].stage = "flag"
  /\ status' = "POST_APPROVAL_REVIEW"
  /\ Throws(w)
  /\ UNCHANGED <<campaign, views, peak, snapshots, credited, suspect, cycle, tries, errors, met>>

\* creditNewEligibleViews, in a transaction: the clip has to be APPROVED.
\* Its errors are swallowed.
BeginCredit(w) ==
  /\ call[w].stage = "credit"
  /\ IF status = "APPROVED"
     THEN Become(w, [call[w] EXCEPT !.stage = "commit"]) /\ UNCHANGED job
     ELSE Returns(w)
  /\ UNCHANGED <<clip, snapshots, credited, suspect, cycle, tries, errors, met>>

\* The views covered after a snapshot of v: what is above the high-water mark
\* is credited.
Covered(v) == IF v > credited THEN v ELSE credited

BugCommitCredit(w) ==
  /\ call[w].stage = "commit"
  /\ credited' = Covered(latest)
  /\ Returns(w)
  /\ UNCHANGED <<clip, snapshots, suspect, cycle, tries, errors, met>>

CommitCredit(w) ==
  /\ call[w].stage = "commit"
  /\ credited' = Covered(call[w].views)
  /\ Returns(w)
  /\ UNCHANGED <<clip, snapshots, suspect, cycle, tries, errors, met>>

CreditFails(w) ==
  /\ call[w].stage \in {"credit", "commit"}
  /\ Fails("credit")
  /\ Returns(w)
  /\ UNCHANGED <<clip, snapshots, credited, suspect, cycle, tries>>

\* A query outside the credit fails: the job throws.
QueryFails(w) ==
  /\ call[w].stage \in {"insert", "judge", "flag"}
  /\ Fails("db")
  /\ Throws(w)
  /\ UNCHANGED <<clip, snapshots, credited, suspect, cycle, tries>>

\* The process of the worker dies; the queue hands its job out again, or
\* gives it up.
Crash(w) ==
  /\ w \in Workers
  /\ call[w] # Idle
  /\ Fails("crash")
  /\ Become(w, Idle)
  /\ EndsJob(w, "failed") \/ EndsJob(w, AfterError(call[w].cycle))
  /\ UNCHANGED <<clip, snapshots, credited, suspect, cycle, tries>>

-----------------------------------------------------------------------------
(* Staff                                                                   *)

\* Decisions read the clip and write it by id; here only their write counts.
Moderate ==
  /\ \/ "reject" \in Ops /\ status' = "REJECTED"
     \/ "flag" \in Ops /\ status' = "FLAGGED"
     \/ "approve" \in Ops /\ status # "APPROVED" /\ status' = "APPROVED"
  /\ suspect' = FALSE
  /\ met' = met \cup {"moderate"}
  /\ UNCHANGED <<campaign, views, peak, snapshots, credited, jobs, errors, call>>

\* setCampaignStatus: an ended campaign stays ended.
SetCampaign ==
  /\ campaign # "ENDED"
  /\ \/ "pause" \in Ops /\ campaign' \in {"ACTIVE", "PAUSED"} \ {campaign}
     \/ "end" \in Ops /\ campaign' = "ENDED"
  /\ UNCHANGED <<status, views, peak, snapshots, credited, suspect, jobs, errors, call, met>>

\* refreshSubmissionMetrics asks the provider and keeps a snapshot, changed
\* or not; it credits nothing.  A creator's dashboard calls it too.
BeginRefresh(w) ==
  /\ w \in Staff
  /\ "refresh" \in Ops
  /\ call[w] = Idle
  /\ Become(w, [stage |-> "refresh"])
  /\ Begins({"refresh"})
  /\ UNCHANGED <<clip, snapshots, credited, suspect, jobs, errors>>

Refresh(w) ==
  /\ call[w].stage = "refresh"
  /\ Become(w, [stage |-> "enter", views |-> views])
  /\ UNCHANGED <<clip, snapshots, credited, suspect, jobs, errors, met>>

\* recordManualMetrics keeps what staff typed.
BeginManual(w, v) ==
  /\ w \in Staff
  /\ "manual" \in Ops
  /\ call[w] = Idle
  /\ Become(w, [stage |-> "enter", views |-> v])
  /\ Begins({"manual"})
  /\ UNCHANGED <<clip, snapshots, credited, suspect, jobs, errors>>

Enter(w) ==
  /\ call[w].stage = "enter"
  /\ Keep(call[w].views)
  /\ Become(w, Idle)
  /\ UNCHANGED <<clip, credited, suspect, jobs, errors, met>>

-----------------------------------------------------------------------------
Work(w) ==
  \/ Measure(w)
  \/ Insert(w)
  \/ Judge(w)
  \/ Flag(w)
  \/ BeginCredit(w)
  \/ CommitCredit(w)

Failure(w) == ProviderFails(w) \/ CreditFails(w) \/ QueryFails(w) \/ Crash(w)

Enters(w) ==
  \/ BeginRefresh(w)
  \/ Refresh(w)
  \/ \E v \in Counts : BeginManual(w, v)
  \/ Enter(w)

Next ==
  \/ Watched \/ NextCycle \/ Dispatch \/ Moderate \/ SetCampaign
  \/ \E w \in Workers : (\E c \in Cycles : TakeJob(w, c)) \/ Work(w) \/ Failure(w)
  \/ \E w \in Staff : Enters(w)

Spec == Init /\ [][Next]_vars

\* The intervals go on, the scheduler dispatches, the worker takes its jobs,
\* and queries and providers answer.  Nothing else has to happen.
FairSpec ==
  /\ Spec
  /\ WF_vars(NextCycle)
  /\ WF_vars(Dispatch)
  /\ \A c \in Cycles : WF_vars(\E w \in Workers : TakeJob(w, c))
  /\ \A w \in Workers : WF_vars(Work(w))

-----------------------------------------------------------------------------
(* Properties                                                              *)

\* No more is credited than the platform has counted: the counts that staff
\* enter stay out of the ledger, whichever snapshot is the latest when a job
\* credits, and views that the platform took back are not credited again.
OnlyMeasuredEarns == credited <= peak

\* Two rows that follow one another differ: unchanged counts are not kept
\* ("duplicate MetricSnapshot insertion is skipped", README.md), unless jobs
\* overlap or staff enter counts of their own.
NoRepeatedSnapshot == met \cap {"overlap", "refresh", "manual"} = {} => ~repeated

\* An approved clip of a campaign that has not ended has v views.
Due(v) == views >= v /\ status = "APPROVED" /\ campaign # "ENDED"

\* Views gained since the verification and kept are credited in the end,
\* however often the provider fails, jobs overlap and the campaign is paused.
\* Views that stay uncredited for ever are in a snapshot already, so that the
\* next poll finds nothing changed: something failed after it was taken, or the
\* clip was not approved then, or staff took it.  The views of the
\* verification itself are in such a snapshot from the start and are not
\* promised.  What a credit is worth, and its caps, are in Earnings.
EventuallyCredited ==
  \A v \in Counts \ (0..InitialViews) :
    <>[](Due(v) /\ credited < v) =>
      /\ []<>(latest = views)
      /\ <>(met \cap {"db", "credit", "crash", "moderate", "refresh", "manual"} # {})

\* A clip with a critical snapshot does not stay approved unless staff
\* decide so, or the write of its status fails or is cut off.
SuspectIsReviewed ==
  suspect ~> ~suspect \/ status # "APPROVED" \/ met \cap {"db", "crash"} # {}

=============================================================================
