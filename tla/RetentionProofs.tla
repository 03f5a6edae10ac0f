-------------------------- MODULE RetentionProofs --------------------------
(***************************************************************************)
(* Proofs about Retention, for every set of earnings and workers, every    *)
(* number of strikes and of days.                                          *)
(***************************************************************************)
EXTENDS Retention, FiniteSetTheorems, TLAPS

\* A call is what its stage says it is.
LEMMA CallKinds ==
  ASSUME TypeOK, NEW w \in Workers
  PROVE  /\ call[w].stage \in {"ask", "live"} => call[w].job \in 1..Days /\ call[w].due \in BOOLEAN
         /\ call[w].stage \in {"count", "reset", "violate", "fulfil"} => call[w].job \in 1..Days
         /\ call[w].stage = "strike" => call[w].job \in 1..Days /\ call[w].strikes \in Nat \ {0}
         /\ call[w].stage \in {"find", "look", "create"} =>
              call[w].job \in 0..Days /\ call[w].type \in Types
         /\ call[w].stage \in {"look", "create"} => call[w].left \in SUBSET Earnings
         /\ call[w].stage \in {"create", "credit"} => call[w].earning \in Earnings
  BY DEF TypeOK, Calls, Idle

\* A call that goes on with a well-typed stage is well typed.
LEMMA BecomeTyped ==
  ASSUME TypeOK, NEW w \in Workers, NEW c \in Calls, Become(w, c)
  PROVE  call' \in [Workers -> Calls]
  BY DEF TypeOK, Become

\* The calls that have nothing but a stage.
LEMMA StageTyped ==
  /\ Idle \in Calls
  /\ [stage |-> "reject"] \in Calls
  /\ [stage |-> "review"] \in Calls
  BY DEF Calls, Idle

(***************************************************************************)
(* Type correctness                                                        *)
(***************************************************************************)

\* A job that waits has an attempt left.
Attempted ==
  \A d \in 1..Days :
    /\ job[d] = "none" => tries[d] = 0
    /\ job[d] = "waiting" => tries[d] < Attempts

Jobbed == job' \in [1..Days -> Jobs] /\ Attempted'

LEMMA EndsTyped ==
  ASSUME TypeOK, Attempted, NEW w \in Workers, NEW s \in {"done", AfterError(w)},
         EndsJob(w, s), UNCHANGED tries
  PROVE  Jobbed
<1>1. s \in Jobs
  BY DEF AfterError, Jobs
<1>2. s # "none"
  BY DEF AfterError
<1>3. s = "waiting" => tries[JobOf(w)] < Attempts
  BY DEF AfterError
<1> QED BY <1>1, <1>2, <1>3 DEF TypeOK, Attempted, Jobbed, EndsJob

LEMMA SameJobs ==
  ASSUME TypeOK, Attempted, UNCHANGED <<job, tries>>
  PROVE  Jobbed
  BY DEF TypeOK, Attempted, Jobbed

LEMMA ReturnsTyped ==
  ASSUME TypeOK, Attempted, NEW w \in Workers, Returns(w), UNCHANGED tries
  PROVE  call' \in [Workers -> Calls] /\ Jobbed
  BY BecomeTyped, StageTyped, EndsTyped DEF Returns

LEMMA ThrowsTyped ==
  ASSUME TypeOK, Attempted, NEW w \in Workers, Throws(w), UNCHANGED tries
  PROVE  call' \in [Workers -> Calls] /\ Jobbed
  BY BecomeTyped, StageTyped, EndsTyped DEF Throws

LEMMA CheckTyped ==
  ASSUME TypeOK, Attempted, NEW w \in Workers, Check(w)
  PROVE  TypeOK' /\ Attempted'
<1> USE DEF Jobbed
<1>0. DbFails => met' \subseteq {"overlap", "db", "crash", "flag", "reverify"}
  BY DEF DbFails, TypeOK
<1>1. ASSUME NEW d \in 1..Days, TakeJob(w, d) PROVE TypeOK' /\ Attempted'
  <2>1. [stage |-> "ask", job |-> d, due |-> deadline = "passed"] \in Calls
    BY DEF Calls
  <2>2. call' \in [Workers -> Calls]
    BY <1>1, <2>1, BecomeTyped DEF TakeJob, TypeOK
  <2>3. job' \in [1..Days -> Jobs] /\ job'[d] \in {"active", "done"}
    BY <1>1 DEF TakeJob, TypeOK, Jobs
  <2>4. tries[d] + 1 \in 0..Attempts
    BY <1>1 DEF TakeJob, TypeOK, Attempted, Attempts
  <2>5. tries' \in [1..Days -> 0..Attempts]
    BY <1>1, <2>4 DEF TakeJob, TypeOK
  <2>6. \A x \in 1..Days \ {d} : job'[x] = job[x] /\ tries'[x] = tries[x]
    BY <1>1 DEF TakeJob, TypeOK
  <2>7. Attempted'
    BY <2>3, <2>6 DEF Attempted
  <2> QED BY <1>1, <2>2, <2>3, <2>5, <2>7 DEF TakeJob, Begins, TypeOK, row, strikes, ledger
<1>2. CASE Answer(w)
  <2>0. call[w].job \in 1..Days /\ call[w].due \in BOOLEAN
    BY <1>2, CallKinds DEF Answer
  <2>1. /\ [stage |-> "count", job |-> call[w].job] \in Calls
        /\ [stage |-> "live", job |-> call[w].job, due |-> call[w].due] \in Calls
    BY <2>0 DEF Calls
  <2>2. call' \in [Workers -> Calls] /\ Jobbed
    BY <1>2, <2>1, BecomeTyped, SameJobs, ReturnsTyped, ThrowsTyped DEF Answer
  <2>3. answers' \in Nat
    BY <1>2 DEF Answer, TypeOK
  <2> QED BY <1>2, <2>2, <2>3 DEF Answer, TypeOK, row, strikes, ledger
<1>3. CASE CountStrikes(w)
  <2>1. PICK n \in {stored, memory} \ {None} :
          Become(w, [stage |-> "strike", job |-> call[w].job, strikes |-> n + 1])
    BY <1>3 DEF CountStrikes
  <2>2. [stage |-> "strike", job |-> call[w].job, strikes |-> n + 1] \in Calls
    BY <1>3, CallKinds DEF CountStrikes, TypeOK, Calls
  <2>3. call' \in [Workers -> Calls]
    BY <2>1, <2>2, BecomeTyped
  <2>4. met' \subseteq {"overlap", "db", "crash", "flag", "reverify"}
    BY <1>0, <1>3 DEF CountStrikes, TypeOK
  <2> QED BY <1>3, <2>3, <2>4, SameJobs DEF CountStrikes, TypeOK, row, strikes, ledger, jobs
<1>4. CASE Strike(w)
  <2>0. call[w].job \in 1..Days /\ call[w].strikes \in Nat
    BY <1>4, CallKinds DEF Strike
  <2>1. [stage |-> "reset", job |-> call[w].job] \in Calls
    BY <2>0 DEF Calls
  <2>2. call' \in [Workers -> Calls] /\ Jobbed
    BY <1>4, <2>1, BecomeTyped, SameJobs, ReturnsTyped, ThrowsTyped DEF Strike
  <2>3. memory' \in Nat /\ stored' \in Nat \cup {None}
    BY <1>4, <2>0 DEF Strike, TypeOK
  <2>4. met' \subseteq {"overlap", "db", "crash", "flag", "reverify"}
    BY <1>0, <1>4 DEF Strike, TypeOK
  <2> QED BY <1>4, <2>2, <2>3, <2>4 DEF Strike, TypeOK, row, ledger
<1>5. CASE ResetStrikes(w)
  <2>0. call[w].job \in 1..Days
    BY <1>5, CallKinds DEF ResetStrikes
  <2>1. /\ [stage |-> "violate", job |-> call[w].job] \in Calls
        /\ [stage |-> "fulfil", job |-> call[w].job] \in Calls
    BY <2>0 DEF Calls
  <2>2. call' \in [Workers -> Calls] /\ Jobbed
    BY <1>5, <2>1, BecomeTyped, SameJobs, ReturnsTyped DEF ResetStrikes
  <2>3. memory' \in Nat /\ stored' \in Nat \cup {None}
    BY <1>5 DEF ResetStrikes, Forget, TypeOK
  <2>4. met' \subseteq {"overlap", "db", "crash", "flag", "reverify"}
    BY <1>0, <1>5 DEF ResetStrikes, Forget, TypeOK
  <2> QED BY <1>5, <2>2, <2>3, <2>4 DEF ResetStrikes, TypeOK, row, ledger
<1>6. CASE Fulfil(w)
  <2>1. call' \in [Workers -> Calls] /\ Jobbed
    BY <1>6, ReturnsTyped DEF Fulfil
  <2> QED BY <1>6, <2>1 DEF Fulfil, TypeOK, Retentions, strikes, ledger
<1>7. CASE Violate(w)
  <2>1. [stage |-> "find", job |-> call[w].job, type |-> "RETENTION_VIOLATION"] \in Calls
    BY <1>7, CallKinds DEF Violate, Calls, Types
  <2>2. call' \in [Workers -> Calls]
    BY <1>7, <2>1, BecomeTyped DEF Violate
  <2> QED BY <1>7, <2>2, SameJobs DEF Violate, TypeOK, Retentions, strikes, jobs
<1> QED BY <1>1, <1>2, <1>3, <1>4, <1>5, <1>6, <1>7 DEF Check

LEMMA GoesOnTyped ==
  ASSUME TypeOK, Attempted, NEW w \in Workers, NEW left \in SUBSET Earnings, GoesOn(w, left),
         call[w].stage \in {"find", "look", "create"}, UNCHANGED tries
  PROVE  call' \in [Workers -> Calls] /\ Jobbed
<1>0. call[w].job \in 0..Days /\ call[w].type \in Types
  BY CallKinds
<1>1. CASE left = {}
  BY <1>1, BecomeTyped, StageTyped, SameJobs, ReturnsTyped DEF GoesOn, Adjusted
<1>2. CASE left # {}
  <2>1. [stage |-> "look", job |-> call[w].job, type |-> call[w].type, left |-> left] \in Calls
    BY <1>0 DEF Calls
  <2> QED BY <1>2, <2>1, BecomeTyped, SameJobs DEF GoesOn
<1> QED BY <1>1, <1>2

LEMMA AdjustTyped ==
  ASSUME TypeOK, Attempted, NEW w \in Workers, Adjust(w)
  PROVE  TypeOK' /\ Attempted'
<1> USE DEF Jobbed
<1>1. CASE FindEarnings(w)
  <2>1. GoesOn(w, credited)
    BY <1>1 DEF FindEarnings, GoesOn
  <2>2. call' \in [Workers -> Calls] /\ Jobbed
    BY <1>1, <2>1, GoesOnTyped DEF FindEarnings, TypeOK
  <2> QED BY <1>1, <2>2 DEF FindEarnings, TypeOK, row, strikes, ledger
<1>2. CASE LookEarning(w)
  <2>0. /\ call[w].job \in 0..Days /\ call[w].type \in Types
        /\ call[w].left \in SUBSET Earnings
    BY <1>2, CallKinds DEF LookEarning
  <2>1. PICK e \in call[w].left :
          \/ GoesOn(w, call[w].left \ {e})
          \/ /\ Become(w, [stage |-> "create", job |-> call[w].job, type |-> call[w].type,
                           left |-> call[w].left \ {e}, earning |-> e])
             /\ UNCHANGED job
    BY <1>2 DEF LookEarning
  <2>2. [stage |-> "create", job |-> call[w].job, type |-> call[w].type,
         left |-> call[w].left \ {e}, earning |-> e] \in Calls
    BY <2>0 DEF Calls
  <2>3. call' \in [Workers -> Calls] /\ Jobbed
    BY <1>2, <2>0, <2>1, <2>2, GoesOnTyped, BecomeTyped, SameJobs DEF LookEarning
  <2> QED BY <1>2, <2>3 DEF LookEarning, TypeOK, row, strikes, ledger
<1>3. CASE CreateAdjustment(w)
  <2>0. /\ call[w].left \in SUBSET Earnings
        /\ call[w].earning \in Earnings /\ call[w].type \in Types
    BY <1>3, CallKinds DEF CreateAdjustment
  <2>1. call' \in [Workers -> Calls] /\ Jobbed
    BY <1>3, <2>0, GoesOnTyped, ThrowsTyped DEF CreateAdjustment
  <2>2. adjusted' \in [Earnings -> [Types -> Nat]]
    <3>1. adjusted[call[w].earning] \in [Types -> Nat]
      BY <2>0 DEF TypeOK
    <3>2. adjusted[call[w].earning][call[w].type] + 1 \in Nat
      BY <2>0, <3>1
    <3>3. [adjusted[call[w].earning] EXCEPT ![call[w].type] = @ + 1] \in [Types -> Nat]
      BY <3>1, <3>2
    <3> QED BY <1>3, <3>3 DEF CreateAdjustment, TypeOK
  <2> QED BY <1>3, <2>1, <2>2 DEF CreateAdjustment, TypeOK, row, strikes
<1> QED BY <1>1, <1>2, <1>3 DEF Adjust

LEMMA DecisionTyped ==
  ASSUME TypeOK, Attempted, NEW w \in Workers, Decision(w)
  PROVE  TypeOK' /\ Attempted'
<1> USE DEF Jobbed
<1>0. Begins => met' \subseteq {"overlap", "db", "crash", "flag", "reverify"}
  BY DEF Begins, TypeOK
<1>1. CASE BeginApprove(w) \/ BeginReject(w) \/ BeginReview(w)
  <2>1. PICK c : Become(w, c) /\ c \in {[stage |-> "approve", fresh |-> deadline = "none"],
                                         [stage |-> "review"], [stage |-> "reject"],
                     [stage |-> "find", job |-> 0, type |-> "POST_APPROVAL_REJECTION"]}
    BY <1>1 DEF BeginApprove, BeginReject, BeginReview
  <2>2. c \in Calls
    <3>1. [stage |-> "approve", fresh |-> deadline = "none"] \in Calls
      BY DEF Calls
    <3>2. [stage |-> "find", job |-> 0, type |-> "POST_APPROVAL_REJECTION"] \in Calls
      BY RetentionConstants DEF Calls, Types
    <3> QED BY <2>1, <3>1, <3>2, StageTyped
  <2>3. call' \in [Workers -> Calls]
    BY <2>1, <2>2, BecomeTyped
  <2> QED BY <1>0, <1>1, <2>3, SameJobs
          DEF BeginApprove, BeginReject, BeginReview, TypeOK, row, strikes, ledger, jobs
<1>2. CASE Approve(w) \/ Reject(w) \/ Review(w)
  <2>1. call' \in [Workers -> Calls]
    BY <1>2, BecomeTyped, StageTyped DEF Approve, Reject, Review
  <2>2. status' \in Statuses /\ retention' \in Retentions /\ deadline' \in {"none", "ahead", "passed"}
    BY <1>2 DEF Approve, Reject, Review, TypeOK, Statuses, Retentions
  <2> QED BY <1>2, <2>1, <2>2, SameJobs
          DEF Approve, Reject, Review, TypeOK, strikes, ledger, jobs
<1> QED BY <1>1, <1>2 DEF Decision

LEMMA RestTyped ==
  ASSUME TypeOK, Attempted,
         \/ DeadlinePasses \/ NextDay \/ Dispatch \/ Flag \/ Reverify \/ Crash
         \/ UNCHANGED vars
  PROVE  TypeOK' /\ Attempted'
<1>1. CASE DeadlinePasses
  <2>1. Attempted'
    BY <1>1 DEF DeadlinePasses, Attempted, jobs
  <2> QED BY <1>1, <2>1 DEF DeadlinePasses, TypeOK, strikes, ledger, jobs
<1>2. CASE NextDay
  <2>1. Attempted' /\ day' \in 1..Days
    BY <1>2, RetentionConstants DEF NextDay, TypeOK, Attempted
  <2> QED BY <1>2, <2>1 DEF NextDay, TypeOK, row, strikes, ledger
<1>3. CASE Dispatch
  <2>1. job' \in [1..Days -> Jobs] /\ Attempted'
    BY <1>3 DEF Dispatch, TypeOK, Attempted, Attempts, Jobs
  <2> QED BY <1>3, <2>1 DEF Dispatch, TypeOK, row, strikes, ledger
<1>4. CASE Flag \/ Reverify
  BY <1>4 DEF Flag, Reverify, TypeOK, Attempted, Statuses, Retentions, strikes, ledger, jobs
<1>5. CASE Crash
  <2>1. call' \in [Workers -> Calls]
    BY <1>5, StageTyped DEF Crash
  <2>2. PICK s \in {"waiting", "failed"} :
          job' = [d \in 1..Days |-> IF job[d] = "active" THEN s ELSE job[d]]
    BY <1>5 DEF Crash
  <2>3. job' \in [1..Days -> Jobs] /\ Attempted'
    BY <1>5, <2>2 DEF Crash, TypeOK, Attempted, Jobs
  <2> QED BY <1>5, <2>1, <2>3 DEF Crash, TypeOK, row, ledger
<1>6. CASE UNCHANGED vars
  BY <1>6 DEF vars, TypeOK, Attempted
<1> QED BY <1>1, <1>2, <1>3, <1>4, <1>5, <1>6

LEMMA CreditTyped ==
  ASSUME TypeOK, Attempted, NEW w \in Workers,
         (\E e \in Earnings : BeginCredit(w, e)) \/ Credit(w) \/ QueryFails(w)
  PROVE  TypeOK' /\ Attempted'
<1>1. ASSUME NEW e \in Earnings, BeginCredit(w, e) PROVE TypeOK' /\ Attempted'
  <2>1. [stage |-> "credit", earning |-> e] \in Calls
    BY DEF Calls
  <2>2. call' \in [Workers -> Calls]
    BY <1>1, <2>1, BecomeTyped DEF BeginCredit
  <2> QED BY <1>1, <2>2 DEF BeginCredit, Begins, TypeOK, Attempted, row, strikes, ledger, jobs
<1>2. CASE Credit(w)
  <2>1. call[w].earning \in Earnings /\ call' \in [Workers -> Calls]
    BY <1>2, CallKinds, BecomeTyped, StageTyped DEF Credit
  <2> QED BY <1>2, <2>1 DEF Credit, TypeOK, Attempted, row, strikes, jobs
<1>3. CASE QueryFails(w)
  <2>1. call' \in [Workers -> Calls] /\ Jobbed
    BY <1>3, ThrowsTyped DEF QueryFails
  <2> QED BY <1>3, <2>1 DEF QueryFails, DbFails, Jobbed, TypeOK, row, strikes, ledger
<1> QED BY <1>1, <1>2, <1>3

LEMMA TypeStep == TypeOK /\ Attempted /\ [Next]_vars => TypeOK' /\ Attempted'
  BY CheckTyped, AdjustTyped, DecisionTyped, RestTyped, CreditTyped DEF Next

\* Every reachable state is well typed; in particular no job of a check is
\* tried more often than its queue allows.
THEOREM TypeCorrect == Spec => []TypeOK
<1>1. Init => TypeOK /\ Attempted
  BY RetentionConstants, StageTyped
     DEF Init, TypeOK, Attempted, Attempts, Statuses, Retentions, Jobs
<1> QED BY <1>1, TypeStep, PTL DEF Spec

(***************************************************************************)
(* Strikes                                                                 *)
(***************************************************************************)

\* The checks that have an answer "gone" they have not counted yet.
Counting == {w \in Workers : call[w].stage = "count"}

\* Every strike that is stored, in memory or about to be written stands for
\* an answer "gone" of its own, and so does every check that is counting.
StrikesBacked ==
  /\ IsFiniteSet(Counting)
  /\ stored # None => stored + Cardinality(Counting) <= answers
  /\ memory + Cardinality(Counting) <= answers
  /\ \A w \in Workers : call[w].stage = "strike" =>
       call[w].strikes + Cardinality(Counting) <= answers
  /\ \A w \in Workers : call[w].stage \in {"reset", "violate"} => answers >= RequiredStrikes
  /\ ViolationTakesStrikes

\* The call of w becomes c, those of the others stay.
LEMMA CallAfter ==
  ASSUME TypeOK, NEW w \in Workers, NEW c, Become(w, c)
  PROVE  call'[w] = c /\ \A v \in Workers \ {w} : call'[v] = call[v]
  BY DEF TypeOK, Become

LEMMA CountingKept ==
  ASSUME TypeOK, NEW w \in Workers, NEW c, Become(w, c),
         c.stage # "count", call[w].stage # "count"
  PROVE  Counting' = Counting
  BY CallAfter DEF Counting

\* A call that goes on without a strike.
LEMMA StrikesKept ==
  ASSUME TypeOK, StrikesBacked, NEW w \in Workers, NEW c, Become(w, c),
         c.stage \notin {"count", "strike", "reset", "violate"}, call[w].stage # "count",
         UNCHANGED <<stored, memory, answers>>,
         retention' \in {retention, "ACTIVE", "FULFILLED"} \/ call[w].stage = "violate"
  PROVE  StrikesBacked'
<1>1. Counting' = Counting
  BY CountingKept
<1>2. call[w].stage = "violate" => answers >= RequiredStrikes
  BY DEF StrikesBacked
<1>3. \A v \in Workers : call'[v].stage \in {"strike", "reset", "violate"} => call'[v] = call[v]
  BY CallAfter
<1> QED BY <1>1, <1>2, <1>3 DEF StrikesBacked, ViolationTakesStrikes

LEMMA CheckStrikes ==
  ASSUME TypeOK, StrikesBacked, NEW w \in Workers, Check(w)
  PROVE  StrikesBacked'
<1>0. /\ Cardinality(Counting) \in Nat /\ answers \in Nat /\ RequiredStrikes \in Nat
      /\ IsFiniteSet(Counting) /\ memory \in Nat
  BY FS_CardinalityType, RetentionConstants DEF StrikesBacked, TypeOK
<1>1. ASSUME NEW d \in 1..Days, TakeJob(w, d) PROVE StrikesBacked'
  <2>1. CASE Open
    BY <1>1, <2>1, StrikesKept DEF TakeJob, Idle, row, strikes
  <2>2. CASE ~Open
    BY <1>1, <2>2 DEF TakeJob, row, strikes, StrikesBacked, Counting, ViolationTakesStrikes
  <2> QED BY <2>1, <2>2
<1>2. CASE Answer(w)
  <2>1. CASE Become(w, [stage |-> "count", job |-> call[w].job]) /\ answers' = answers + 1
    <3>1. call'[w].stage = "count" /\ \A v \in Workers \ {w} : call'[v] = call[v]
      BY <2>1, CallAfter
    <3>2. Counting' = Counting \cup {w} /\ w \notin Counting
      BY <1>2, <3>1 DEF Answer, Counting
    <3>3. IsFiniteSet(Counting') /\ Cardinality(Counting') = Cardinality(Counting) + 1
      BY <1>0, <3>2, FS_AddElement
    <3>4. UNCHANGED <<stored, memory, retention>>
      BY <1>2 DEF Answer, row, strikes
    <3>5. stored' # None => stored' + Cardinality(Counting') <= answers'
      BY <1>0, <2>1, <3>3, <3>4 DEF StrikesBacked, TypeOK
    <3>6. ASSUME NEW v \in Workers, call'[v].stage = "strike"
          PROVE  call'[v].strikes + Cardinality(Counting') <= answers'
      <4>1. call'[v] = call[v] /\ call[v].strikes \in Nat
        BY <3>1, <3>6, CallKinds
      <4>2. call[v].strikes + Cardinality(Counting) <= answers
        BY <3>6, <4>1 DEF StrikesBacked
      <4> QED BY <1>0, <2>1, <3>3, <4>1, <4>2
    <3>7. ASSUME NEW v \in Workers, call'[v].stage \in {"reset", "violate"}
          PROVE  answers' >= RequiredStrikes
      BY <1>0, <2>1, <3>1, <3>7 DEF StrikesBacked
    <3> QED BY <1>0, <2>1, <3>3, <3>4, <3>5, <3>6, <3>7 DEF StrikesBacked, ViolationTakesStrikes
  <2>2. CASE UNCHANGED answers
             /\ \E c \in {Idle, [stage |-> "live", job |-> call[w].job, due |-> call[w].due]} :
                  Become(w, c)
    BY <1>2, <2>2, StrikesKept DEF Answer, Idle, row, strikes
  <2> QED BY <1>2, <2>1, <2>2 DEF Answer, Returns, Throws
<1>3. CASE CountStrikes(w)
  <2>1. PICK n \in {stored, memory} \ {None} :
          Become(w, [stage |-> "strike", job |-> call[w].job, strikes |-> n + 1])
    BY <1>3 DEF CountStrikes
  <2>2. n \in Nat /\ n + Cardinality(Counting) <= answers
    BY DEF StrikesBacked, TypeOK
  <2>3. /\ call'[w].stage = "strike" /\ call'[w].strikes = n + 1
        /\ \A v \in Workers \ {w} : call'[v] = call[v]
    BY <2>1, CallAfter
  <2>4. Counting' = Counting \ {w} /\ w \in Counting
    BY <1>3, <2>3 DEF CountStrikes, Counting
  <2>5. IsFiniteSet(Counting') /\ Cardinality(Counting') = Cardinality(Counting) - 1
    BY <1>0, <2>4, FS_RemoveElement
  <2>6. UNCHANGED <<stored, memory, answers, retention>>
    BY <1>3 DEF CountStrikes, row, strikes
  <2>7. ASSUME NEW v \in Workers, call'[v].stage = "strike"
        PROVE  call'[v].strikes + Cardinality(Counting') <= answers'
    <3>1. CASE v = w
      BY <1>0, <2>2, <2>3, <2>5, <2>6, <3>1
    <3>2. CASE v # w
      <4>1. call'[v] = call[v] /\ call[v].strikes \in Nat
        BY <2>3, <2>7, <3>2, CallKinds
      <4>2. call[v].strikes + Cardinality(Counting) <= answers
        BY <2>7, <4>1 DEF StrikesBacked
      <4> QED BY <1>0, <2>5, <2>6, <4>1, <4>2
    <3> QED BY <3>1, <3>2
  <2>8. stored' # None => stored' + Cardinality(Counting') <= answers'
    BY <1>0, <2>5, <2>6 DEF StrikesBacked, TypeOK
  <2>9. \A v \in Workers : call'[v].stage \in {"reset", "violate"} => answers' >= RequiredStrikes
    BY <2>3, <2>6 DEF StrikesBacked
  <2> QED BY <1>0, <2>5, <2>6, <2>7, <2>8, <2>9 DEF StrikesBacked, ViolationTakesStrikes
<1>4. CASE Strike(w)
  <2>1. call[w].strikes \in Nat /\ call[w].strikes + Cardinality(Counting) <= answers
    BY <1>4, CallKinds DEF Strike, StrikesBacked
  <2>2. PICK c \in {Idle, [stage |-> "reset", job |-> call[w].job]} :
          Become(w, c) /\ (c.stage = "reset" => call[w].strikes >= RequiredStrikes)
    BY <1>4 DEF Strike, Returns, Throws, Idle
  <2>3. Counting' = Counting
    BY <1>4, <2>2, CountingKept DEF Strike, Idle
  <2>4. /\ memory' = call[w].strikes /\ stored' \in {stored, call[w].strikes}
        /\ UNCHANGED <<answers, retention>>
    BY <1>4 DEF Strike, row
  <2>5. \A v \in Workers : call'[v].stage = "strike" => call'[v] = call[v]
    BY <2>2, CallAfter DEF Idle
  <2>6. \A v \in Workers : call'[v].stage \in {"reset", "violate"} => answers >= RequiredStrikes
    BY <1>0, <2>1, <2>2, CallAfter DEF Idle, StrikesBacked
  <2> QED BY <1>0, <2>1, <2>3, <2>4, <2>5, <2>6 DEF StrikesBacked, ViolationTakesStrikes
<1>5. CASE ResetStrikes(w)
  <2>1. PICK c \in {Idle, [stage |-> "violate", job |-> call[w].job],
                    [stage |-> "fulfil", job |-> call[w].job]} :
          Become(w, c) /\ (c.stage = "violate" => call[w].stage = "reset")
    BY <1>5 DEF ResetStrikes, Returns, Idle
  <2>2. Counting' = Counting
    BY <1>5, <2>1, CountingKept DEF ResetStrikes, Idle
  <2>3. /\ memory' = 0 /\ stored' \in {stored, None}
        /\ UNCHANGED <<answers, retention>>
    BY <1>5 DEF ResetStrikes, Forget, row
  <2>4. \A v \in Workers : call'[v].stage = "strike" => call'[v] = call[v]
    BY <2>1, CallAfter DEF Idle
  <2>5. \A v \in Workers : call'[v].stage \in {"reset", "violate"} => answers >= RequiredStrikes
    BY <2>1, CallAfter DEF Idle, StrikesBacked
  <2> QED BY <1>0, <2>2, <2>3, <2>4, <2>5 DEF StrikesBacked, ViolationTakesStrikes
<1>6. CASE Fulfil(w)
  BY <1>6, StrikesKept DEF Fulfil, Returns, Idle, strikes
<1>7. CASE Violate(w)
  BY <1>7, StrikesKept DEF Violate, strikes
<1> QED BY <1>1, <1>2, <1>3, <1>4, <1>5, <1>6, <1>7 DEF Check

\* The calls that have nothing to do with strikes.
LEMMA OtherCalls ==
  ASSUME NEW w \in Workers,
         \/ \E e \in Earnings : BeginCredit(w, e)
         \/ Credit(w) \/ Adjust(w) \/ Decision(w) \/ QueryFails(w)
  PROVE  /\ UNCHANGED <<stored, memory, answers>>
         /\ retention' \in {retention, "ACTIVE"}
         /\ call[w].stage # "count"
         /\ \E c : Become(w, c) /\ c.stage \notin {"count", "strike", "reset", "violate"}
<1>1. CASE \E e \in Earnings : BeginCredit(w, e)
  BY <1>1 DEF BeginCredit, Idle, strikes, row
<1>2. CASE Credit(w)
  BY <1>2 DEF Credit, Idle, strikes, row
<1>3. CASE Adjust(w)
  <2>1. \A type : Adjusted(w, type) =>
          \E c : Become(w, c) /\ c.stage \notin {"count", "strike", "reset", "violate"}
    BY DEF Adjusted, Returns, Idle
  <2>2. \A left : GoesOn(w, left) =>
          \E c : Become(w, c) /\ c.stage \notin {"count", "strike", "reset", "violate"}
    BY <2>1 DEF GoesOn
  <2>3. CASE FindEarnings(w)
    BY <2>1, <2>3 DEF FindEarnings, strikes, row
  <2>4. CASE LookEarning(w)
    BY <2>2, <2>4 DEF LookEarning, strikes, row
  <2>5. CASE CreateAdjustment(w)
    BY <2>2, <2>5 DEF CreateAdjustment, Throws, Idle, strikes, row
  <2> QED BY <1>3, <2>3, <2>4, <2>5 DEF Adjust
<1>4. CASE Decision(w)
  BY <1>4 DEF Decision, BeginApprove, Approve, BeginReject, Reject, BeginReview, Review, Idle,
              strikes, row
<1>5. CASE QueryFails(w)
  BY <1>5 DEF QueryFails, Throws, Idle, strikes, row
<1> QED BY <1>1, <1>2, <1>3, <1>4, <1>5

LEMMA StrikesStep ==
  ASSUME TypeOK, StrikesBacked, [Next]_vars
  PROVE  StrikesBacked'
<1>1. CASE Crash
  <2>1. Counting' = {}
    BY <1>1 DEF Crash, Counting, Idle
  <2>2. IsFiniteSet(Counting') /\ Cardinality(Counting') = 0
    BY <2>1, FS_EmptySet
  <2>3. Cardinality(Counting) \in Nat
    BY FS_CardinalityType DEF StrikesBacked
  <2> QED BY <1>1, <2>2, <2>3 DEF Crash, row, StrikesBacked, ViolationTakesStrikes, TypeOK, Idle
<1>2. CASE DeadlinePasses \/ NextDay \/ Dispatch \/ Flag \/ Reverify \/ UNCHANGED vars
  <2>1. UNCHANGED <<stored, memory, answers, call>> /\ retention' \in {retention, "ACTIVE"}
    BY <1>2 DEF DeadlinePasses, NextDay, Dispatch, Flag, Reverify, vars, strikes, row
  <2> QED BY <2>1 DEF StrikesBacked, Counting, ViolationTakesStrikes
<1>3. ASSUME NEW w \in Workers,
             \/ \E e \in Earnings : BeginCredit(w, e)
             \/ Credit(w) \/ Adjust(w) \/ Decision(w) \/ QueryFails(w)
      PROVE  StrikesBacked'
  BY <1>3, OtherCalls, StrikesKept
<1> QED BY <1>1, <1>2, <1>3, CheckStrikes DEF Next

\* Nobody is penalised on fewer "gone" answers than the configuration asks
\* for, whatever checks overlap, whatever is lost and whenever it crashes.
THEOREM StrikesTaken == Spec => []ViolationTakesStrikes
<1>1. Init => StrikesBacked
  <2> SUFFICES ASSUME Init PROVE StrikesBacked
    OBVIOUS
  <2>1. Counting = {}
    BY DEF Init, Counting, Idle
  <2>2. IsFiniteSet(Counting) /\ Cardinality(Counting) = 0
    BY <2>1, FS_EmptySet
  <2> QED BY <2>2 DEF Init, StrikesBacked, ViolationTakesStrikes, Idle
<1>2. TypeOK /\ StrikesBacked /\ [Next]_vars => StrikesBacked'
  BY StrikesStep
<1>3. StrikesBacked => ViolationTakesStrikes
  BY DEF StrikesBacked
<1> QED BY <1>1, <1>2, <1>3, TypeCorrect, PTL DEF Spec

(***************************************************************************)
(* One call at a time                                                      *)
(***************************************************************************)

\* Until two calls overlap, at most one is in flight.
OneCall ==
  "overlap" \notin met =>
    \A v, w \in Workers : call[v] # Idle /\ call[w] # Idle => v = w

Deducted(e, type) == adjusted[e][type] = 1

\* The earnings of S that are not deducted are left to the adjusting call of w,
\* which has found the next one unadjusted.
LeftTo(w, S, type) ==
  /\ call[w].stage \in {"find", "look", "create"} /\ call[w].type = type
  /\ call[w].stage = "look" => \A e \in S : e \in call[w].left \/ Deducted(e, type)
  /\ call[w].stage = "create" =>
       \A e \in S : e \in call[w].left \cup {call[w].earning} \/ Deducted(e, type)

\* A call that is alone finds no adjustment where it is about to make one.
Unadjusted ==
  "overlap" \notin met =>
    \A w \in Workers : call[w].stage = "create" => adjusted[call[w].earning][call[w].type] = 0

\* Until calls overlap or something fails, what is owed has been deducted or
\* is left to the check that wrote VIOLATED.
ViolationWorked ==
  /\ owed \subseteq credited
  /\ met \cap {"overlap", "db", "crash"} = {} /\ retention = "VIOLATED" =>
       \/ \A e \in owed : Deducted(e, "RETENTION_VIOLATION")
       \/ \E w \in Workers : LeftTo(w, owed, "RETENTION_VIOLATION")

\* What w is doing to the earnings of a rejected clip.
RejectsWell(w) ==
  /\ call[w].stage = "credit" => status = "APPROVED"
  /\ call[w].stage = "reject" => \A e \in credited : Deducted(e, "POST_APPROVAL_REJECTION")
  /\ call[w].stage \in {"find", "look", "create"} /\ call[w].type = "POST_APPROVAL_REJECTION" =>
       LeftTo(w, credited, "POST_APPROVAL_REJECTION")

RejectionOK ==
  /\ status # "FLAGGED"
  /\ status = "UNDER_REVIEW" => credited = {}
  /\ status = "REJECTED" => \A e \in credited : Deducted(e, "POST_APPROVAL_REJECTION")
  /\ \A w \in Workers : RejectsWell(w)

\* Until calls overlap and unless the clip is flagged or verified again, a
\* rejection has deducted what is credited before it writes the status, and
\* nothing is credited unless the clip is approved.
RejectionWorked == met \cap {"overlap", "flag", "reverify"} = {} => RejectionOK

\* w's call goes on or begins; what has been met stays met.
StepOf(w) ==
  /\ met \subseteq met'
  /\ call[w] # Idle \/ Begins
  /\ \E c : Become(w, c)

\* A step beside the calls.
Beside == UNCHANGED <<call, adjusted, credited, owed>> /\ met \subseteq met'

LEMMA GoesOnCall ==
  ASSUME NEW w \in Workers, NEW left, GoesOn(w, left)
  PROVE  \E c : /\ Become(w, c)
                /\ \/ /\ c.stage \in {"idle", "reject"} /\ left = {}
                      /\ c.stage = "reject" => call[w].type # "RETENTION_VIOLATION"
                   \/ c.stage = "look" /\ c.left = left /\ c.type = call[w].type
<1>1. CASE left = {}
  BY <1>1 DEF GoesOn, Adjusted, Returns, Idle
<1>2. CASE left # {}
  BY <1>2 DEF GoesOn
<1> QED BY <1>1, <1>2

LEMMA CheckCalls ==
  ASSUME NEW w \in Workers, Check(w)
  PROVE  /\ UNCHANGED <<status, credited, adjusted>>
         /\ \/ Beside
            \/ /\ StepOf(w)
               /\ call[w].stage \notin {"find", "look", "create"}
               /\ \E c : /\ Become(w, c)
                         /\ c.stage \notin {"credit", "reject", "look", "create"}
                         /\ c.stage = "find" => c.type = "RETENTION_VIOLATION"
<1> USE DEF StepOf, Idle, row, ledger
<1>1. CASE Open /\ \E d \in 1..Days : TakeJob(w, d)
  BY <1>1 DEF TakeJob, Begins
<1>2. CASE ~Open /\ \E d \in 1..Days : TakeJob(w, d)
  BY <1>2 DEF TakeJob, Begins, Beside
<1>3. CASE Answer(w)
  BY <1>3 DEF Answer, Returns, Throws
<1>4. CASE CountStrikes(w)
  BY <1>4 DEF CountStrikes, DbFails
<1>5. CASE Strike(w)
  <2>1. met \subseteq met'
    BY <1>5 DEF Strike, DbFails
  <2> QED BY <1>5, <2>1 DEF Strike, Returns, Throws
<1>6. CASE ResetStrikes(w)
  <2>1. met \subseteq met'
    BY <1>6 DEF ResetStrikes, Forget, DbFails
  <2> QED BY <1>6, <2>1 DEF ResetStrikes, Returns
<1>7. CASE Fulfil(w)
  BY <1>7 DEF Fulfil, Returns
<1>8. CASE Violate(w)
  BY <1>8 DEF Violate
<1> QED BY <1>1, <1>2, <1>3, <1>4, <1>5, <1>6, <1>7, <1>8 DEF Check

LEMMA AdjustCalls ==
  ASSUME NEW w \in Workers, Adjust(w)
  PROVE  /\ StepOf(w) /\ UNCHANGED <<status, retention, credited, owed, met>>
         /\ \E c : /\ Become(w, c)
                   /\ c.stage # "credit"
                   /\ call[w].type = "RETENTION_VIOLATION" =>
                        /\ c.stage # "reject"
                        /\ c.stage \in {"find", "look", "create"} => c.type = "RETENTION_VIOLATION"
<1> USE DEF StepOf, Idle, row, ledger
<1>1. CASE FindEarnings(w)
  <2>1. GoesOn(w, credited)
    BY <1>1 DEF FindEarnings, GoesOn
  <2> QED BY <1>1, <2>1, GoesOnCall DEF FindEarnings
<1>2. CASE LookEarning(w)
  BY <1>2, GoesOnCall DEF LookEarning
<1>3. CASE CreateAdjustment(w)
  BY <1>3, GoesOnCall DEF CreateAdjustment, Throws
<1> QED BY <1>1, <1>2, <1>3 DEF Adjust

LEMMA OtherSteps ==
  ASSUME NEW w \in Workers,
         (\E e \in Earnings : BeginCredit(w, e)) \/ Credit(w) \/ Decision(w) \/ QueryFails(w)
  PROVE  /\ StepOf(w) /\ UNCHANGED <<adjusted, owed>>
         /\ \E c : Become(w, c) /\ c.stage \notin {"look", "create"}
<1> USE DEF StepOf, Idle, row, ledger
<1>1. CASE \E e \in Earnings : BeginCredit(w, e)
  BY <1>1 DEF BeginCredit, Begins
<1>2. CASE Credit(w)
  BY <1>2 DEF Credit
<1>3. CASE BeginApprove(w) \/ BeginReject(w) \/ BeginReview(w)
  BY <1>3 DEF BeginApprove, BeginReject, BeginReview, Begins
<1>4. CASE Approve(w) \/ Reject(w) \/ Review(w)
  BY <1>4 DEF Approve, Reject, Review
<1>5. CASE QueryFails(w)
  BY <1>5 DEF QueryFails, Throws, DbFails
<1> QED BY <1>1, <1>2, <1>3, <1>4, <1>5 DEF Decision

\* Every step is the crash, one of a call, or beside the calls.
LEMMA Steps ==
  ASSUME [Next]_vars
  PROVE  Crash \/ Beside \/ \E w \in Workers : StepOf(w)
<1>1. CASE DeadlinePasses \/ NextDay \/ Dispatch \/ Flag \/ Reverify \/ UNCHANGED vars
  BY <1>1 DEF DeadlinePasses, NextDay, Dispatch, Flag, Reverify, vars, Beside, ledger
<1> QED BY <1>1, CheckCalls, AdjustCalls, OtherSteps DEF Next

\* A call that is not seen to overlap is alone.
LEMMA Alone ==
  ASSUME TypeOK, OneCall, NEW w \in Workers, StepOf(w), "overlap" \notin met'
  PROVE  "overlap" \notin met /\ \A v \in Workers \ {w} : call[v] = Idle /\ call'[v] = Idle
<1>1. "overlap" \notin met
  BY DEF StepOf
<1>2. \A v \in Workers \ {w} : call[v] = Idle
  BY <1>1 DEF StepOf, Begins, OneCall
<1>3. \A v \in Workers \ {w} : call'[v] = call[v]
  BY CallAfter DEF StepOf
<1> QED BY <1>1, <1>2, <1>3

LEMMA OneCallCorrect == Spec => []OneCall
<1>1. Init => OneCall
  BY DEF Init, OneCall
<1>2. TypeOK /\ OneCall /\ [Next]_vars => OneCall'
  <2> SUFFICES ASSUME TypeOK, OneCall, [Next]_vars PROVE OneCall'
    OBVIOUS
  <2>1. CASE Crash
    BY <2>1 DEF Crash, OneCall
  <2>2. CASE Beside
    BY <2>2 DEF Beside, OneCall
  <2>3. ASSUME NEW w \in Workers, StepOf(w) PROVE OneCall'
    BY <2>3, Alone DEF OneCall
  <2> QED BY <2>1, <2>2, <2>3, Steps
<1> QED BY <1>1, <1>2, TypeCorrect, PTL DEF Spec

(***************************************************************************)
(* Adjustments                                                             *)
(***************************************************************************)

\* What one adjustment does to the table.
LEMMA AdjustmentMade ==
  ASSUME TypeOK, NEW w \in Workers, CreateAdjustment(w)
  PROVE  \/ /\ UNCHANGED adjusted /\ Throws(w)
            /\ adjusted[call[w].earning][call[w].type] # 0
         \/ /\ GoesOn(w, call[w].left)
            /\ adjusted[call[w].earning][call[w].type] = 0
            /\ adjusted'[call[w].earning][call[w].type] = 1
            /\ \A e \in Earnings, t \in Types :
                 e # call[w].earning \/ t # call[w].type => adjusted'[e][t] = adjusted[e][t]
<1>1. call[w].earning \in Earnings /\ call[w].type \in Types
  BY CallKinds DEF CreateAdjustment
<1>2. \A e \in Earnings : adjusted[e] \in [Types -> Nat]
  BY DEF TypeOK
<1>3. CASE ~Unique(call[w].earning, call[w].type)
  BY <1>3 DEF CreateAdjustment, Unique
<1>4. CASE Unique(call[w].earning, call[w].type)
  <2>1. adjusted' = [adjusted EXCEPT ![call[w].earning] =
                       [adjusted[call[w].earning] EXCEPT ![call[w].type] =
                          adjusted[call[w].earning][call[w].type] + 1]]
    BY <1>4 DEF CreateAdjustment
  <2>2. adjusted'[call[w].earning] =
          [adjusted[call[w].earning] EXCEPT ![call[w].type] =
             adjusted[call[w].earning][call[w].type] + 1]
    BY <1>1, <2>1 DEF TypeOK
  <2>3. \A e \in Earnings \ {call[w].earning} : adjusted'[e] = adjusted[e]
    BY <1>1, <2>1 DEF TypeOK
  <2>4. /\ adjusted'[call[w].earning][call[w].type] =
             adjusted[call[w].earning][call[w].type] + 1
        /\ \A t \in Types \ {call[w].type} :
             adjusted'[call[w].earning][t] = adjusted[call[w].earning][t]
    BY <1>1, <1>2, <2>2
  <2> QED BY <1>4, <2>3, <2>4 DEF CreateAdjustment, Unique
<1> QED BY <1>3, <1>4

\* Whatever the step, what was deducted stays deducted, once.
LEMMA AdjustmentStep ==
  ASSUME TypeOK, [Next]_vars, NEW e \in Earnings, NEW t \in Types
  PROVE  adjusted'[e][t] = adjusted[e][t] \/ (adjusted[e][t] = 0 /\ adjusted'[e][t] = 1)
<1>1. ASSUME NEW w \in Workers, Adjust(w)
      PROVE  adjusted'[e][t] = adjusted[e][t] \/ (adjusted[e][t] = 0 /\ adjusted'[e][t] = 1)
  <2>1. CASE FindEarnings(w) \/ LookEarning(w)
    BY <2>1 DEF FindEarnings, LookEarning, ledger
  <2>2. CASE CreateAdjustment(w)
    BY <2>2, AdjustmentMade
  <2> QED BY <1>1, <2>1, <2>2 DEF Adjust
<1>2. CASE Crash \/ Beside
  BY <1>2 DEF Crash, Beside, ledger
<1>3. CASE DeadlinePasses \/ NextDay \/ Dispatch \/ Flag \/ Reverify \/ UNCHANGED vars
  BY <1>3 DEF DeadlinePasses, NextDay, Dispatch, Flag, Reverify, vars, ledger
<1> QED BY <1>1, <1>2, <1>3, CheckCalls, OtherSteps DEF Next

LEMMA DeductedKept ==
  ASSUME TypeOK, [Next]_vars
  PROVE  \A e \in Earnings, t \in Types : Deducted(e, t) => Deducted(e, t)'
  BY AdjustmentStep DEF Deducted

\* No earning is deducted twice for the same reason, whatever calls overlap,
\* fail or are repeated.
THEOREM OncePerReason == Spec => []AdjustedOnce
<1>1. Init => AdjustedOnce
  BY DEF Init, AdjustedOnce
<1>2. TypeOK /\ AdjustedOnce /\ [Next]_vars => AdjustedOnce'
  <2> SUFFICES ASSUME TypeOK, AdjustedOnce, [Next]_vars, NEW e \in Earnings, NEW t \in Types
               PROVE  adjusted'[e][t] <= 1
    BY DEF AdjustedOnce
  <2> QED BY AdjustmentStep DEF AdjustedOnce
<1> QED BY <1>1, <1>2, TypeCorrect, PTL DEF Spec

LEMMA UnadjustedCorrect == Spec => []Unadjusted
<1>1. Init => Unadjusted
  BY DEF Init, Unadjusted, Idle
<1>2. TypeOK /\ OneCall /\ Unadjusted /\ [Next]_vars => Unadjusted'
  <2> SUFFICES ASSUME TypeOK, OneCall, Unadjusted, [Next]_vars, "overlap" \notin met'
               PROVE  Unadjusted'
    BY DEF Unadjusted
  <2>1. CASE Crash
    BY <2>1 DEF Crash, Unadjusted, Idle
  <2>2. CASE Beside
    BY <2>2 DEF Beside, Unadjusted
  <2>3. ASSUME NEW w \in Workers, StepOf(w), call'[w].stage # "create" PROVE Unadjusted'
    BY <2>3, Alone DEF Unadjusted, Idle
  <2>4. ASSUME NEW w \in Workers, Check(w) PROVE Unadjusted'
    BY <2>2, <2>3, <2>4, CheckCalls, CallAfter
  <2>5. ASSUME NEW w \in Workers, Adjust(w) PROVE Unadjusted'
    <3>1. StepOf(w)
      BY <2>5, AdjustCalls
    <3>2. CASE FindEarnings(w)
      <4>1. GoesOn(w, credited)
        BY <3>2 DEF FindEarnings, GoesOn
      <4> QED BY <2>3, <3>1, <4>1, GoesOnCall, CallAfter
    <3>3. CASE CreateAdjustment(w)
      <4>1. call'[w].stage # "create"
        BY <3>3, AdjustmentMade, GoesOnCall, CallAfter DEF Throws, Idle
      <4> QED BY <2>3, <3>1, <4>1
    <3>4. CASE LookEarning(w)
      <4>1. call[w].left \in SUBSET Earnings /\ call[w].type \in Types
        BY <3>4, CallKinds DEF LookEarning
      <4>2. PICK e \in call[w].left :
              IF adjusted[e][call[w].type] > 0 THEN GoesOn(w, call[w].left \ {e})
              ELSE Become(w, [stage |-> "create", job |-> call[w].job, type |-> call[w].type,
                              left |-> call[w].left \ {e}, earning |-> e])
        BY <3>4 DEF LookEarning
      <4>3. CASE adjusted[e][call[w].type] > 0
        BY <2>3, <3>1, <4>2, <4>3, GoesOnCall, CallAfter
      <4>4. CASE ~(adjusted[e][call[w].type] > 0)
        <5>1. adjusted[e][call[w].type] \in Nat
          BY <4>1 DEF TypeOK
        <5>2. adjusted'[e][call[w].type] = 0
          BY <3>4, <4>4, <5>1 DEF LookEarning, ledger
        <5>3. call'[w].earning = e /\ call'[w].type = call[w].type
          BY <4>2, <4>4, CallAfter
        <5>4. \A v \in Workers \ {w} : call'[v] = Idle
          BY <3>1, Alone
        <5> QED BY <5>2, <5>3, <5>4 DEF Unadjusted, Idle
      <4> QED BY <4>3, <4>4
    <3> QED BY <2>5, <3>2, <3>3, <3>4 DEF Adjust
  <2>6. ASSUME NEW w \in Workers,
               \/ \E e \in Earnings : BeginCredit(w, e)
               \/ Credit(w) \/ Decision(w) \/ QueryFails(w)
        PROVE  Unadjusted'
    <3>1. \E c : Become(w, c) /\ c.stage \notin {"look", "create"}
      BY <2>6, OtherSteps
    <3> QED BY <2>3, <2>6, <3>1, OtherSteps, CallAfter
  <2>7. CASE DeadlinePasses \/ NextDay \/ Dispatch \/ Flag \/ Reverify \/ UNCHANGED vars
    <3>1. Beside
      BY <2>7 DEF DeadlinePasses, NextDay, Dispatch, Flag, Reverify, vars, Beside, ledger
    <3> QED BY <2>2, <3>1
  <2> QED BY <2>1, <2>4, <2>5, <2>6, <2>7 DEF Next
<1> QED BY <1>1, <1>2, TypeCorrect, OneCallCorrect, PTL DEF Spec

\* A step of the adjusting call w leaves it the earnings of S it has not
\* deducted, or has deducted them all.
LEMMA AdjustWork ==
  ASSUME TypeOK, AdjustedOnce, [Next]_vars, NEW w \in Workers, Adjust(w),
         call[w].stage = "create" => adjusted[call[w].earning][call[w].type] = 0,
         NEW S \in SUBSET credited, NEW type \in Types, LeftTo(w, S, type)
  PROVE  \/ LeftTo(w, S, type)'
         \/ \A e \in S : Deducted(e, type)'
<1>0. S \subseteq Earnings /\ call[w].type = type
  BY DEF TypeOK, LeftTo
<1>a. \A e \in S : Deducted(e, type) => Deducted(e, type)'
  BY <1>0, DeductedKept
<1>1. ASSUME NEW left, GoesOn(w, left), \A e \in S : e \in left \/ Deducted(e, type)'
      PROVE  LeftTo(w, S, type)' \/ \A e \in S : Deducted(e, type)'
  <2>1. CASE left = {}
    BY <1>1, <2>1
  <2>2. CASE left # {}
    <3>1. call'[w] = [stage |-> "look", job |-> call[w].job, type |-> call[w].type, left |-> left]
      BY <1>1, <2>2, CallAfter DEF GoesOn
    <3> QED BY <1>0, <1>1, <3>1 DEF LeftTo, Deducted
  <2> QED BY <2>1, <2>2
<1>2. CASE FindEarnings(w)
  <2>1. GoesOn(w, credited)
    BY <1>2 DEF FindEarnings, GoesOn
  <2> QED BY <1>1, <2>1
<1>3. CASE LookEarning(w)
  <2>1. call[w].left \in SUBSET Earnings
    BY <1>3, CallKinds DEF LookEarning
  <2>2. \A e \in S : e \in call[w].left \/ Deducted(e, type)
    BY <1>3 DEF LookEarning, LeftTo
  <2>3. PICK e \in call[w].left :
          IF adjusted[e][call[w].type] > 0 THEN GoesOn(w, call[w].left \ {e})
          ELSE Become(w, [stage |-> "create", job |-> call[w].job, type |-> call[w].type,
                          left |-> call[w].left \ {e}, earning |-> e])
    BY <1>3 DEF LookEarning
  <2>4. CASE adjusted[e][call[w].type] > 0
    <3>1. Deducted(e, type)
      BY <1>0, <2>1, <2>4 DEF Deducted, AdjustedOnce, TypeOK
    <3> QED BY <1>1, <1>a, <2>2, <2>3, <2>4, <3>1
  <2>5. CASE ~(adjusted[e][call[w].type] > 0)
    <3>1. call'[w] = [stage |-> "create", job |-> call[w].job, type |-> call[w].type,
                      left |-> call[w].left \ {e}, earning |-> e]
      BY <2>3, <2>5, CallAfter
    <3>2. \A x \in S : x \in (call[w].left \ {e}) \cup {e} \/ Deducted(x, type)'
      BY <1>a, <2>2
    <3> QED BY <1>0, <3>1, <3>2 DEF LeftTo, Deducted
  <2> QED BY <2>4, <2>5
<1>4. CASE CreateAdjustment(w)
  <2>1. GoesOn(w, call[w].left) /\ adjusted'[call[w].earning][type] = 1
    BY <1>0, <1>4, AdjustmentMade DEF CreateAdjustment
  <2>2. \A e \in S : e \in call[w].left \/ Deducted(e, type)'
    BY <1>4, <1>a, <2>1 DEF CreateAdjustment, LeftTo, Deducted
  <2> QED BY <1>1, <2>1, <2>2
<1> QED BY <1>2, <1>3, <1>4 DEF Adjust

LEMMA ViolationStep ==
  ASSUME TypeOK, OneCall, AdjustedOnce, Unadjusted, ViolationWorked, [Next]_vars
  PROVE  ViolationWorked'
<1>1. owed' \subseteq credited'
  <2>1. ASSUME NEW w \in Workers, Check(w) PROVE owed' \subseteq credited'
    <3>1. CASE Violate(w)
      BY <3>1 DEF Violate
    <3>2. CASE ~Violate(w)
      BY <2>1, <3>2 DEF Check, TakeJob, Answer, CountStrikes, Strike, ResetStrikes, Fulfil, ledger,
                        ViolationWorked
    <3> QED BY <3>1, <3>2
  <2>2. ASSUME NEW w \in Workers, Decision(w) \/ QueryFails(w) PROVE credited' = credited
    BY <2>2 DEF Decision, BeginApprove, Approve, BeginReject, Reject, BeginReview, Review,
                QueryFails, ledger
  <2>3. ASSUME NEW w \in Workers, Credit(w) \/ \E e \in Earnings : BeginCredit(w, e)
        PROVE  credited \subseteq credited'
    BY <2>3 DEF Credit, BeginCredit, ledger
  <2>4. CASE Crash \/ DeadlinePasses \/ NextDay \/ Dispatch \/ Flag \/ Reverify \/ UNCHANGED vars
    BY <2>4 DEF Crash, DeadlinePasses, NextDay, Dispatch, Flag, Reverify, vars, ledger,
                ViolationWorked
  <2> QED BY <2>1, <2>2, <2>3, <2>4, AdjustCalls, OtherSteps DEF Next, ViolationWorked
<1>2. SUFFICES ASSUME met' \cap {"overlap", "db", "crash"} = {}, retention' = "VIOLATED"
               PROVE  \/ \A e \in owed' : Deducted(e, "RETENTION_VIOLATION")'
                      \/ \E w \in Workers : LeftTo(w, owed, "RETENTION_VIOLATION")'
  BY <1>1 DEF ViolationWorked
<1>3. \A e \in Earnings : Deducted(e, "RETENTION_VIOLATION") => Deducted(e, "RETENTION_VIOLATION")'
  BY DeductedKept DEF Types
<1>a. owed \subseteq Earnings /\ owed \subseteq credited
  BY DEF TypeOK, ViolationWorked
<1>4. ASSUME retention = "VIOLATED", met \subseteq met', UNCHANGED owed,
             \A e \in owed : Deducted(e, "RETENTION_VIOLATION")
      PROVE  \A e \in owed' : Deducted(e, "RETENTION_VIOLATION")'
  BY <1>3, <1>4, <1>a
<1>5. ASSUME NEW w \in Workers, StepOf(w), UNCHANGED <<retention, owed>>,
             call[w].stage \notin {"find", "look", "create"}
      PROVE  \A e \in owed' : Deducted(e, "RETENTION_VIOLATION")'
  <2>1. \A v \in Workers : v # w => call[v] = Idle
    BY <1>2, <1>5, Alone
  <2>2. \A v \in Workers : ~LeftTo(v, owed, "RETENTION_VIOLATION")
    BY <1>5, <2>1 DEF LeftTo, Idle
  <2>3. met \subseteq met'
    BY <1>5 DEF StepOf
  <2>4. \A e \in owed : Deducted(e, "RETENTION_VIOLATION")
    BY <1>2, <1>5, <2>2, <2>3 DEF ViolationWorked
  <2> QED BY <1>2, <1>4, <1>5, <2>3, <2>4
<1>6. ASSUME NEW w \in Workers, Check(w)
      PROVE  \/ \A e \in owed' : Deducted(e, "RETENTION_VIOLATION")'
             \/ \E v \in Workers : LeftTo(v, owed, "RETENTION_VIOLATION")'
  <2>1. CASE Violate(w)
    <3>1. call'[w] = [stage |-> "find", job |-> call[w].job, type |-> "RETENTION_VIOLATION"]
      BY <2>1, CallAfter DEF Violate
    <3> QED BY <3>1 DEF LeftTo
  <2>2. CASE ~Violate(w)
    <3>1. UNCHANGED <<retention, owed>>
      BY <1>2, <1>6, <2>2 DEF Check, TakeJob, Answer, CountStrikes, Strike, ResetStrikes, Fulfil,
                              ledger, row
    <3>2. CASE StepOf(w) /\ call[w].stage \notin {"find", "look", "create"}
      BY <1>5, <3>1, <3>2
    <3>3. CASE Beside
      BY <1>2, <3>1, <3>3 DEF Beside, ViolationWorked, LeftTo, Deducted
    <3> QED BY <1>6, <3>2, <3>3, CheckCalls
  <2> QED BY <2>1, <2>2
<1>7. ASSUME NEW w \in Workers, Adjust(w)
      PROVE  \/ \A e \in owed' : Deducted(e, "RETENTION_VIOLATION")'
             \/ \E v \in Workers : LeftTo(v, owed, "RETENTION_VIOLATION")'
  <2>1. StepOf(w) /\ UNCHANGED <<retention, owed, met>>
    BY <1>7, AdjustCalls
  <2>2. \A v \in Workers : v # w => call[v] = Idle
    BY <1>2, <2>1, Alone
  <2>3. CASE \A e \in owed : Deducted(e, "RETENTION_VIOLATION")
    BY <1>2, <1>4, <2>1, <2>3
  <2>4. CASE \E v \in Workers : LeftTo(v, owed, "RETENTION_VIOLATION")
    <3>1. LeftTo(w, owed, "RETENTION_VIOLATION")
      BY <2>2, <2>4 DEF LeftTo, Idle
    <3>2. call[w].stage = "create" => adjusted[call[w].earning][call[w].type] = 0
      BY <1>2, <2>1 DEF Unadjusted
    <3>3. \A S \in SUBSET credited : LeftTo(w, S, "RETENTION_VIOLATION") =>
            \/ LeftTo(w, S, "RETENTION_VIOLATION")'
            \/ \A e \in S : Deducted(e, "RETENTION_VIOLATION")'
      BY <1>7, <3>2, AdjustWork DEF Types
    <3>4. \/ \A e \in owed : Deducted(e, "RETENTION_VIOLATION")'
          \/ /\ call'[w].stage \in {"find", "look", "create"}
             /\ LeftTo(w, owed, "RETENTION_VIOLATION")'
      BY <1>a, <2>1, <3>1, <3>3 DEF LeftTo, Deducted
    <3> QED BY <2>1, <3>4
  <2> QED BY <1>2, <2>1, <2>3, <2>4 DEF ViolationWorked
<1>8. ASSUME NEW w \in Workers,
             \/ \E e \in Earnings : BeginCredit(w, e)
             \/ Credit(w) \/ Decision(w) \/ QueryFails(w)
      PROVE  \A e \in owed' : Deducted(e, "RETENTION_VIOLATION")'
  <2>1. ~QueryFails(w)
    BY <1>2 DEF QueryFails, DbFails
  <2>2. call[w].stage \notin {"find", "look", "create"} /\ UNCHANGED retention
    <3>1. CASE Credit(w) \/ \E e \in Earnings : BeginCredit(w, e)
      <4>1. CASE Credit(w)
        BY <4>1 DEF Credit, row
      <4>2. ASSUME NEW e \in Earnings, BeginCredit(w, e)
            PROVE  call[w].stage = "idle" /\ UNCHANGED retention
        BY <4>2 DEF BeginCredit, row, Idle
      <4> QED BY <3>1, <4>1, <4>2
    <3>2. CASE BeginApprove(w) \/ BeginReject(w) \/ BeginReview(w)
      BY <3>2 DEF BeginApprove, BeginReject, BeginReview, row, Idle
    <3>3. CASE Approve(w) \/ Reject(w) \/ Review(w)
      BY <1>2, <3>3 DEF Approve, Reject, Review, row
    <3> QED BY <1>8, <2>1, <3>1, <3>2, <3>3 DEF Decision
  <2> QED BY <1>5, <1>8, <2>2, OtherSteps
<1>9. CASE DeadlinePasses \/ NextDay \/ Dispatch \/ Flag \/ Reverify \/ UNCHANGED vars
  <2>1. Beside /\ UNCHANGED retention
    BY <1>2, <1>9 DEF DeadlinePasses, NextDay, Dispatch, Flag, Reverify, vars, Beside, ledger, row
  <2> QED BY <1>2, <2>1 DEF Beside, ViolationWorked, LeftTo, Deducted
<1>10. ~Crash
  BY <1>2 DEF Crash
<1> QED BY <1>6, <1>7, <1>8, <1>9, <1>10 DEF Next

\* Once the calls are done, a violation has taken back what was credited
\* when it was written, unless calls overlapped or something failed.
THEOREM ViolationDeducts == Spec => []ViolationIsDeducted
<1>1. Init => ViolationWorked
  BY DEF Init, ViolationWorked
<1>2. /\ TypeOK /\ OneCall /\ AdjustedOnce /\ Unadjusted /\ ViolationWorked /\ [Next]_vars
      => ViolationWorked'
  BY ViolationStep
<1>3. ViolationWorked => ViolationIsDeducted
  BY DEF ViolationWorked, ViolationIsDeducted, Quiet, LeftTo, Idle, Deducted
<1> QED BY <1>1, <1>2, <1>3, TypeCorrect, OneCallCorrect, OncePerReason, UnadjustedCorrect, PTL
        DEF Spec

LEMMA RejectionStep ==
  ASSUME TypeOK, OneCall, AdjustedOnce, Unadjusted, RejectionWorked, [Next]_vars
  PROVE  RejectionWorked'
<1>1. SUFFICES ASSUME met' \cap {"overlap", "flag", "reverify"} = {} PROVE RejectionOK'
  BY DEF RejectionWorked
<1>2. met \subseteq met' => RejectionOK
  BY <1>1 DEF RejectionWorked
<1>3. \A e \in credited : Deducted(e, "POST_APPROVAL_REJECTION") =>
                            Deducted(e, "POST_APPROVAL_REJECTION")'
  BY DeductedKept DEF TypeOK, Types
<1>4. ASSUME NEW w \in Workers, StepOf(w), RejectsWell(w)', UNCHANGED <<status, credited>>
      PROVE  RejectionOK'
  <2>1. \A v \in Workers : v # w => call'[v] = Idle
    BY <1>1, <1>4, Alone
  <2>2. \A v \in Workers : RejectsWell(v)'
    BY <1>4, <2>1 DEF RejectsWell, Idle
  <2>3. met \subseteq met'
    BY <1>4 DEF StepOf
  <2> QED BY <1>2, <1>3, <1>4, <2>2, <2>3 DEF RejectionOK
<1>5. ASSUME NEW w \in Workers, StepOf(w), call'[w] = Idle
      PROVE  \A v \in Workers : RejectsWell(v)'
  BY <1>1, <1>5, Alone DEF RejectsWell, Idle
<1>6. ASSUME Beside, UNCHANGED status PROVE RejectionOK'
  BY <1>2, <1>6 DEF Beside, RejectionOK, RejectsWell, LeftTo, Deducted
<1>7. ASSUME NEW w \in Workers, Check(w) PROVE RejectionOK'
  <2>1. UNCHANGED <<status, credited>>
    BY <1>7, CheckCalls
  <2>2. CASE /\ StepOf(w)
             /\ \E c : /\ Become(w, c)
                       /\ c.stage \notin {"credit", "reject", "look", "create"}
                       /\ c.stage = "find" => c.type = "RETENTION_VIOLATION"
    <3>1. RejectsWell(w)'
      BY <2>2, CallAfter DEF RejectsWell
    <3> QED BY <1>4, <2>1, <2>2, <3>1
  <2> QED BY <1>6, <1>7, <2>1, <2>2, CheckCalls
<1>8. ASSUME NEW w \in Workers, Adjust(w) PROVE RejectionOK'
  <2>1. StepOf(w) /\ UNCHANGED <<status, credited, met>>
    BY <1>8, AdjustCalls
  <2>2. call[w].stage \in {"find", "look", "create"} /\ call[w].type \in Types
    BY <1>8, CallKinds DEF Adjust, FindEarnings, LookEarning, CreateAdjustment
  <2>3. CASE call[w].type = "POST_APPROVAL_REJECTION"
    <3>0. \E c : Become(w, c) /\ c.stage # "credit"
      BY <1>8, AdjustCalls
    <3>1. LeftTo(w, credited, "POST_APPROVAL_REJECTION")
      BY <1>2, <2>1, <2>2, <2>3 DEF RejectionOK, RejectsWell
    <3>2. call[w].stage = "create" => adjusted[call[w].earning][call[w].type] = 0
      BY <1>1, <2>1 DEF Unadjusted
    <3>3. \A S \in SUBSET credited : LeftTo(w, S, "POST_APPROVAL_REJECTION") =>
            \/ LeftTo(w, S, "POST_APPROVAL_REJECTION")'
            \/ \A e \in S : Deducted(e, "POST_APPROVAL_REJECTION")'
      BY <1>8, <3>2, AdjustWork DEF Types
    <3>4. \/ LeftTo(w, credited, "POST_APPROVAL_REJECTION")'
          \/ \A e \in credited : Deducted(e, "POST_APPROVAL_REJECTION")'
      BY <2>1, <3>1, <3>3 DEF LeftTo, Deducted
    <3>5. call'[w].stage # "credit"
      BY <1>8, <3>0, CallAfter
    <3>6. RejectsWell(w)'
      BY <2>1, <3>4, <3>5 DEF RejectsWell, LeftTo, Deducted
    <3> QED BY <1>4, <2>1, <3>6
  <2>4. CASE call[w].type = "RETENTION_VIOLATION"
    <3>1. \E c : /\ Become(w, c)
                 /\ c.stage \notin {"credit", "reject"}
                 /\ c.stage \in {"find", "look", "create"} => c.type = "RETENTION_VIOLATION"
      BY <1>8, <2>4, AdjustCalls
    <3>2. RejectsWell(w)'
      BY <3>1, CallAfter DEF RejectsWell
    <3> QED BY <1>4, <2>1, <3>2
  <2> QED BY <2>2, <2>3, <2>4 DEF Types
<1>9. ASSUME NEW w \in Workers, Decision(w) PROVE RejectionOK'
  <2>1. StepOf(w) /\ met \subseteq met' /\ UNCHANGED <<adjusted, credited>>
    BY <1>9, OtherSteps DEF StepOf, Decision, BeginApprove, Approve, BeginReject, Reject,
                            BeginReview, Review, ledger
  <2>2. CASE BeginApprove(w) \/ BeginReview(w)
    <3>1. call'[w].stage \in {"approve", "review"} /\ UNCHANGED status
      BY <2>2, CallAfter DEF BeginApprove, BeginReview, row
    <3> QED BY <1>4, <2>1, <3>1 DEF RejectsWell
  <2>3. CASE BeginReject(w)
    <3>1. UNCHANGED status
      BY <2>3 DEF BeginReject, row
    <3>2. CASE status \in Approvals
      <4>1. call'[w] = [stage |-> "find", job |-> 0, type |-> "POST_APPROVAL_REJECTION"]
        BY <2>3, <3>2, CallAfter DEF BeginReject
      <4> QED BY <1>4, <2>1, <3>1, <4>1 DEF RejectsWell, LeftTo
    <3>3. CASE status \notin Approvals
      <4>1. call'[w] = [stage |-> "reject"]
        BY <2>3, <3>3, CallAfter DEF BeginReject
      <4>2. \A e \in credited : Deducted(e, "POST_APPROVAL_REJECTION")
        BY <1>2, <2>1, <3>3 DEF RejectionOK, TypeOK, Statuses, Approvals
      <4>3. RejectsWell(w)'
        BY <1>3, <2>1, <4>1, <4>2 DEF RejectsWell
      <4> QED BY <1>4, <2>1, <3>1, <4>3
    <3> QED BY <3>2, <3>3
  <2>4. CASE Approve(w) \/ Reject(w) \/ Review(w)
    <3>1. call'[w] = Idle
      BY <2>4, CallAfter DEF Approve, Reject, Review
    <3>2. \A v \in Workers : RejectsWell(v)'
      BY <1>5, <2>1, <3>1
    <3>3. CASE Approve(w) \/ Review(w)
      <4>1. status' \in {"APPROVED", "POST_APPROVAL_REVIEW"}
        BY <3>3 DEF Approve, Review
      <4> QED BY <3>2, <4>1 DEF RejectionOK
    <3>4. CASE Reject(w)
      <4>1. \A e \in credited : Deducted(e, "POST_APPROVAL_REJECTION")
        BY <1>2, <2>1, <3>4 DEF Reject, RejectionOK, RejectsWell
      <4> QED BY <1>3, <2>1, <3>2, <3>4, <4>1 DEF Reject, RejectionOK
    <3> QED BY <2>4, <3>3, <3>4
  <2> QED BY <1>9, <2>2, <2>3, <2>4 DEF Decision
<1>10. ASSUME NEW w \in Workers, QueryFails(w) \/ \E e \in Earnings : BeginCredit(w, e)
       PROVE  RejectionOK'
  <2>1. StepOf(w) /\ met \subseteq met' /\ UNCHANGED <<status, credited>>
    BY <1>10, OtherSteps DEF StepOf, QueryFails, BeginCredit, row, ledger
  <2>2. QueryFails(w) => call'[w] = Idle
    BY CallAfter DEF QueryFails, Throws
  <2>3. (\E e \in Earnings : BeginCredit(w, e)) => call'[w].stage = "credit" /\ status = "APPROVED"
    BY CallAfter DEF BeginCredit
  <2>4. RejectsWell(w)'
    BY <1>10, <2>1, <2>2, <2>3 DEF RejectsWell, Idle
  <2> QED BY <1>4, <2>1, <2>4
<1>11. ASSUME NEW w \in Workers, Credit(w) PROVE RejectionOK'
  <2>1. StepOf(w) /\ met \subseteq met'
    BY <1>11, OtherSteps DEF StepOf
  <2>2. status = "APPROVED" /\ status' = status /\ call'[w] = Idle
    BY <1>2, <1>11, <2>1, CallAfter DEF Credit, row, RejectionOK, RejectsWell
  <2> QED BY <1>5, <2>1, <2>2 DEF RejectionOK
<1>12. CASE Crash
  <2>1. UNCHANGED <<status, credited, adjusted>> /\ met \subseteq met'
    BY <1>12 DEF Crash, row, ledger
  <2>2. \A w \in Workers : RejectsWell(w)'
    BY <1>12 DEF Crash, RejectsWell, Idle
  <2> QED BY <1>2, <1>3, <2>1, <2>2 DEF RejectionOK
<1>13. CASE DeadlinePasses \/ NextDay \/ Dispatch \/ Flag \/ Reverify \/ UNCHANGED vars
  <2>1. Beside /\ UNCHANGED status
    BY <1>1, <1>13 DEF DeadlinePasses, NextDay, Dispatch, Flag, Reverify, vars, Beside, ledger, row
  <2> QED BY <1>6, <2>1
<1> QED BY <1>7, <1>8, <1>9, <1>10, <1>11, <1>12, <1>13 DEF Next

\* Once the calls are done, a rejected clip has no earning that was not
\* taken back, whatever query fails and whenever the process crashes, unless
\* calls overlapped or the clip was flagged or verified again.
THEOREM RejectionDeducts == Spec => []RejectedIsDeducted
<1>1. Init => RejectionWorked
  BY DEF Init, RejectionWorked, RejectionOK, RejectsWell, Idle
<1>2. /\ TypeOK /\ OneCall /\ AdjustedOnce /\ Unadjusted /\ RejectionWorked /\ [Next]_vars
      => RejectionWorked'
  BY RejectionStep
<1>3. RejectionWorked => RejectedIsDeducted
  BY DEF RejectionWorked, RejectionOK, RejectedIsDeducted, Deducted
<1> QED BY <1>1, <1>2, <1>3, TypeCorrect, OneCallCorrect, OncePerReason, UnadjustedCorrect, PTL
        DEF Spec
=============================================================================
