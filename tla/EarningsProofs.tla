--------------------------- MODULE EarningsProofs ---------------------------
(***************************************************************************)
(* Proofs about Earnings, for every set of submissions, creators, workers, *)
(* budgets, rates and caps, and about Polling, which feeds them: for every *)
(* set of jobs and refreshes, and whatever staff type in.                  *)
(***************************************************************************)
EXTENDS Earnings, MCPolling, SequenceTheorems, TLAPS

Calls == {Idle} \cup CreditTx \cup RefreshTx \cup StatusTx \cup EditTx

\* A call is what its op says it is.
LEMMA CallKinds ==
  ASSUME RowsOK, NEW w \in Workers
  PROVE  /\ tx[w].op = "credit" => tx[w] \in CreditTx
         /\ tx[w].op = "refresh" => tx[w] \in RefreshTx
         /\ tx[w].op = "status" => tx[w] \in StatusTx
         /\ tx[w].op = "edit" => tx[w] \in EditTx
  BY DEF RowsOK, Idle, CreditTx, RefreshTx, StatusTx, EditTx

\* Replacing one worker's call by a well-typed one is well typed.
LEMMA CallTyped ==
  ASSUME RowsOK, NEW w \in Workers, NEW t \in Calls, tx' = [tx EXCEPT ![w] = t]
  PROVE  tx' \in [Workers -> Calls]
  BY DEF RowsOK, Calls

LEMMA GrossNat ==
  ASSUME NEW n \in Nat
  PROVE  Gross(n) \in Nat
<1>1. n * Rate \in Nat
  BY EarningConstants
<1>2. \A m \in Nat : (m + 500) \div 1000 \in Nat
  OBVIOUS
<1> QED BY <1>1, <1>2 DEF Gross

(***************************************************************************)
(* Type correctness                                                        *)
(***************************************************************************)

LEMMA CreditTyped ==
  ASSUME RowsOK, NEW w \in Workers, Credit(w)
  PROVE  RowsOK'
<1>1. ASSUME NEW s \in Submissions, NEW i \in 1..MaxSnapshots, BeginCredit(w, s, i)
      PROVE  RowsOK'
  <2> DEFINE t == [op |-> "credit", stage |-> "weigh", submission |-> s, snapshot |-> i,
                   views |-> snapshots[s][i] - credited[s], left |-> total - consumed,
                   amount |-> 0]
  <2>1. snapshots[s][i] \in Nat /\ credited[s] \in Nat /\ snapshots[s][i] > credited[s]
    <3>1. snapshots[s] \in Seq(Views) /\ i \in DOMAIN snapshots[s]
      BY <1>1 DEF BeginCredit, RowsOK
    <3>2. snapshots[s][i] \in Views
      BY <3>1
    <3> QED BY <1>1, <3>2, EarningConstants DEF BeginCredit, RowsOK
  <2>2. total - consumed \in Int
    BY EarningConstants DEF RowsOK
  <2>3. i \in Nat
    BY EarningConstants
  <2>4. t \in Calls
    BY <2>1, <2>2, <2>3 DEF Calls, CreditTx, CreditStages
  <2>5. tx' \in [Workers -> Calls]
    BY <1>1, <2>4, CallTyped DEF BeginCredit
  <2> QED BY <1>1, <2>5 DEF BeginCredit, RowsOK, Calls, ledger, campaign
<1>2. CASE WeighCredit(w)
  <2> DEFINE amount == Capped(Gross(tx[w].views), tx[w].left,
                              Cap - earned[CreatorOf[tx[w].submission]])
  <2>1. tx[w] \in CreditTx
    BY <1>2, CallKinds DEF WeighCredit, InCredit
  <2>2. amount \in Int
    <3>1. Gross(tx[w].views) \in Nat /\ tx[w].left \in Int
      BY <2>1, GrossNat DEF CreditTx
    <3>2. Cap - earned[CreatorOf[tx[w].submission]] \in Int
      BY <2>1, EarningConstants DEF CreditTx, RowsOK
    <3> QED BY <3>1, <3>2 DEF Capped, Least
  <2> HIDE DEF amount
  <2>3. \E t \in Calls : tx' = [tx EXCEPT ![w] = t]
    <3>1. CASE amount > 0
      <4>a. amount \in Nat
        BY <2>2, <3>1
      <4>1. [tx[w] EXCEPT !.stage = "consume", !.amount = amount] \in Calls
        BY <2>1, <4>a DEF Calls, CreditTx, CreditStages
      <4> QED BY <1>2, <3>1, <4>1 DEF WeighCredit, amount
    <3>2. CASE ~(amount > 0)
      BY <1>2, <3>2 DEF WeighCredit, amount, Calls
    <3> QED BY <3>1, <3>2
  <2>4. tx' \in [Workers -> Calls]
    BY <2>3, CallTyped
  <2> QED BY <1>2, <2>4 DEF WeighCredit, RowsOK, Calls, ledger, campaign
<1>3. CASE ConsumeBudget(w)
  <2>1. tx[w] \in CreditTx
    BY <1>3, CallKinds DEF ConsumeBudget, InCredit
  <2>2. \E g \in {"complete", "commit"} : tx' = [tx EXCEPT ![w].stage = g]
    BY <1>3 DEF ConsumeBudget
  <2>3. \E t \in Calls : tx' = [tx EXCEPT ![w] = t]
    BY <2>1, <2>2 DEF RowsOK, Calls, CreditTx, CreditStages
  <2>4. tx' \in [Workers -> Calls]
    BY <2>3, CallTyped
  <2>5. consumed' \in Nat
    BY <1>3, <2>1 DEF ConsumeBudget, RowsOK, CreditTx
  <2> QED BY <1>3, <2>4, <2>5 DEF ConsumeBudget, RowsOK, Calls, ledger
<1>4. CASE CompleteCampaign(w)
  <2>1. tx[w] \in CreditTx
    BY <1>4, CallKinds DEF CompleteCampaign, InCredit
  <2>2. \E t \in Calls : tx' = [tx EXCEPT ![w] = t]
    BY <1>4, <2>1 DEF CompleteCampaign, RowsOK, Calls, CreditTx, CreditStages
  <2>3. tx' \in [Workers -> Calls]
    BY <2>2, CallTyped
  <2> QED BY <1>4, <2>3 DEF CompleteCampaign, RowsOK, Calls, ledger, CampaignStatuses
<1>5. CASE CommitCredit(w)
  <2>1. tx[w] \in CreditTx
    BY <1>5, CallKinds DEF CommitCredit, InCredit
  <2>2. /\ tx[w].submission \in Submissions /\ tx[w].snapshot \in Nat
        /\ tx[w].views \in Nat /\ tx[w].amount \in Nat
        /\ CreatorOf[tx[w].submission] \in Creators
    BY <2>1, EarningConstants DEF CreditTx
  <2>3. tx' \in [Workers -> Calls]
    BY <1>5, CallTyped DEF CommitCredit, Calls
  <2>4. counted' \in [Submissions -> SUBSET Nat]
    BY <1>5, <2>2 DEF CommitCredit, RowsOK
  <2>5. credited' \in [Submissions -> Nat]
    BY <1>5, <2>2 DEF CommitCredit, RowsOK
  <2>6. earned' \in [Creators -> Nat] /\ paid' \in Nat
    BY <1>5, <2>2 DEF CommitCredit, RowsOK
  <2> QED BY <1>5, <2>3, <2>4, <2>5, <2>6 DEF CommitCredit, RowsOK, Calls, campaign
<1> QED BY <1>1, <1>2, <1>3, <1>4, <1>5 DEF Credit

LEMMA UpdateTyped ==
  ASSUME RowsOK, NEW w \in Workers, UpdateCampaign(w) \/ Abort(w)
  PROVE  RowsOK'
<1>1. CASE BeginRefresh(w)
  <2>1. \E live \in Nat : tx' = [tx EXCEPT ![w] = [op |-> "refresh", live |-> live]]
    <3>1. PICK live \in consumed + 1 .. MaxConsumed :
            tx' = [tx EXCEPT ![w] = [op |-> "refresh", live |-> live]]
      BY <1>1 DEF BeginRefresh
    <3>2. live \in Nat
      BY EarningConstants DEF RowsOK
    <3> QED BY <3>1, <3>2
  <2>2. tx' \in [Workers -> Calls]
    BY <2>1, CallTyped DEF Calls, RefreshTx
  <2> QED BY <1>1, <2>2 DEF BeginRefresh, RowsOK, Calls, ledger, campaign
<1>2. CASE EndRefresh(w)
  <2>1. tx[w].live \in Nat
    BY <1>2, CallKinds DEF EndRefresh, RefreshTx
  <2>2. tx' \in [Workers -> Calls]
    BY <1>2, CallTyped DEF EndRefresh, Calls
  <2> QED BY <1>2, <2>1, <2>2 DEF EndRefresh, RowsOK, Calls, ledger
<1>3. ASSUME NEW to \in Settable, BeginSetStatus(w, to) PROVE RowsOK'
  <2>1. tx' \in [Workers -> Calls]
    BY <1>3, CallTyped DEF BeginSetStatus, Calls, StatusTx
  <2> QED BY <1>3, <2>1 DEF BeginSetStatus, RowsOK, Calls, ledger, campaign
<1>4. CASE EndSetStatus(w)
  <2>1. tx[w].to \in CampaignStatuses
    BY <1>4, CallKinds DEF EndSetStatus, StatusTx, Settable, CampaignStatuses
  <2>2. tx' \in [Workers -> Calls]
    BY <1>4, CallTyped DEF EndSetStatus, Calls
  <2> QED BY <1>4, <2>1, <2>2 DEF EndSetStatus, RowsOK, Calls, ledger
<1>5. ASSUME NEW b \in Budgets, BeginEdit(w, b) PROVE RowsOK'
  <2>1. tx' \in [Workers -> Calls]
    BY <1>5, CallTyped DEF BeginEdit, Calls, EditTx
  <2> QED BY <1>5, <2>1 DEF BeginEdit, RowsOK, Calls, ledger, campaign
<1>6. CASE EndEdit(w)
  <2>1. tx[w].total \in Budgets
    BY <1>6, CallKinds DEF EndEdit, EditTx
  <2>2. tx' \in [Workers -> Calls]
    BY <1>6, CallTyped DEF EndEdit, Calls
  <2> QED BY <1>6, <2>1, <2>2 DEF EndEdit, RowsOK, Calls, ledger
<1>7. CASE Abort(w)
  <2>1. tx' \in [Workers -> Calls]
    BY <1>7, CallTyped DEF Abort, Calls
  <2> QED BY <1>7, <2>1 DEF Abort, RowsOK, Calls, ledger, campaign
<1> QED BY <1>1, <1>2, <1>3, <1>4, <1>5, <1>6, <1>7 DEF UpdateCampaign

LEMMA EnvironmentTyped ==
  ASSUME RowsOK, Environment
  PROVE  RowsOK'
<1>1. ASSUME NEW s \in Submissions, NEW v \in Views, Capture(s, v) PROVE RowsOK'
  <2>1. Append(snapshots[s], v) \in Seq(Views)
    BY DEF RowsOK
  <2> QED BY <1>1, <2>1 DEF Capture, RowsOK, ledger, campaign
<1>2. ASSUME NEW s \in Submissions, NEW d \in BOOLEAN, Review(s, d) PROVE RowsOK'
  BY <1>2 DEF Review, RowsOK, ledger, campaign
<1> QED BY <1>1, <1>2 DEF Environment

LEMMA RowsCorrect == Spec => []RowsOK
<1>1. Init => RowsOK
  BY DEF Init, RowsOK, CampaignStatuses
<1>2. RowsOK /\ [Next]_vars => RowsOK'
  <2> SUFFICES ASSUME RowsOK, [Next]_vars PROVE RowsOK'
    OBVIOUS
  <2>1. CASE UNCHANGED vars
    BY <2>1 DEF vars, ledger, campaign, RowsOK
  <2>2. CASE Next
    BY <2>2, CreditTyped, UpdateTyped, EnvironmentTyped DEF Next
  <2> QED BY <2>1, <2>2
<1> QED BY <1>1, <1>2, PTL DEF Spec

(***************************************************************************)
(* What a step can do                                                      *)
(***************************************************************************)

\* Steps that begin no credit and change neither ledger nor snapshots; at
\* most one worker moves, and a credit in flight goes on as it was.
Quiet ==
  /\ UNCHANGED <<snapshots, counted, credited>>
  /\ \A w \in Workers : tx'[w].op = "credit" =>
       /\ tx[w].op = "credit"
       /\ tx'[w].submission = tx[w].submission
       /\ tx'[w].snapshot = tx[w].snapshot
       /\ tx'[w].views = tx[w].views

LEMMA CreditGoesOn ==
  ASSUME RowsOK, NEW w \in Workers, WeighCredit(w) \/ ConsumeBudget(w) \/ CompleteCampaign(w)
  PROVE  Quiet
<1>1. tx[w] \in CreditTx
  BY CallKinds DEF WeighCredit, ConsumeBudget, CompleteCampaign, InCredit
<1>2. CASE WeighCredit(w)
  <2> DEFINE amount == Capped(Gross(tx[w].views), tx[w].left,
                              Cap - earned[CreatorOf[tx[w].submission]])
             next   == [tx[w] EXCEPT !.stage = "consume", !.amount = amount]
  <2>1. \/ tx' = [tx EXCEPT ![w] = Idle]
        \/ tx' = [tx EXCEPT ![w] = next]
    BY <1>2 DEF WeighCredit
  <2>2. /\ next.op = "credit" /\ next.submission = tx[w].submission
        /\ next.snapshot = tx[w].snapshot /\ next.views = tx[w].views
    <3> HIDE DEF amount
    <3> QED BY <1>1 DEF CreditTx
  <2> HIDE DEF next
  <2>3. \A v \in Workers \ {w} : tx'[v] = tx[v]
    BY <2>1 DEF RowsOK
  <2>4. tx'[w] = Idle \/ tx'[w] = next
    BY <2>1 DEF RowsOK
  <2> QED BY <1>1, <1>2, <2>2, <2>3, <2>4 DEF Quiet, WeighCredit, ledger, Idle, CreditTx
<1>3. CASE ConsumeBudget(w) \/ CompleteCampaign(w)
  <2>1. \E g \in CreditStages : tx' = [tx EXCEPT ![w].stage = g]
    BY <1>3 DEF ConsumeBudget, CompleteCampaign, CreditStages
  <2>2. PICK g \in CreditStages : tx' = [tx EXCEPT ![w].stage = g]
    BY <2>1
  <2>3. /\ tx'[w] = [tx[w] EXCEPT !.stage = g]
        /\ \A v \in Workers \ {w} : tx'[v] = tx[v]
    BY <2>2 DEF RowsOK
  <2>4. /\ tx'[w].op = "credit" /\ tx'[w].submission = tx[w].submission
        /\ tx'[w].snapshot = tx[w].snapshot /\ tx'[w].views = tx[w].views
    BY <1>1, <2>3 DEF CreditTx
  <2> QED BY <1>1, <1>3, <2>3, <2>4 DEF Quiet, ConsumeBudget, CompleteCampaign, ledger, CreditTx
<1> QED BY <1>2, <1>3

\* A step is quiet, begins or commits a credit, or stores a snapshot.
LEMMA StepKinds ==
  ASSUME RowsOK, [Next]_vars
  PROVE  \/ Quiet
         \/ \E w \in Workers, s \in Submissions, i \in Nat : BeginCredit(w, s, i)
         \/ \E w \in Workers : CommitCredit(w)
         \/ \E s \in Submissions, v \in Views : Capture(s, v)
<1>1. CASE UNCHANGED vars
  BY <1>1 DEF vars, ledger, Quiet
<1>2. ASSUME NEW s \in Submissions, NEW d \in BOOLEAN, Review(s, d) PROVE Quiet
  BY <1>2 DEF Review, ledger, Quiet
<1>3. ASSUME NEW w \in Workers, UpdateCampaign(w) \/ Abort(w) PROVE Quiet
  <2>1. \A v \in Workers \ {w} : tx'[v] = tx[v]
    BY <1>3 DEF UpdateCampaign, Abort, BeginRefresh, EndRefresh, BeginSetStatus, EndSetStatus,
                BeginEdit, EndEdit, RowsOK
  <2>2. tx'[w].op # "credit"
    <3>1. CASE BeginRefresh(w)
      BY <3>1 DEF BeginRefresh, RowsOK
    <3>2. CASE \E to \in Settable : BeginSetStatus(w, to)
      BY <3>2 DEF BeginSetStatus, RowsOK
    <3>3. CASE \E b \in Budgets : BeginEdit(w, b)
      BY <3>3 DEF BeginEdit, RowsOK
    <3>4. CASE EndRefresh(w) \/ EndSetStatus(w) \/ EndEdit(w) \/ Abort(w)
      BY <3>4 DEF EndRefresh, EndSetStatus, EndEdit, Abort, Idle, RowsOK
    <3> QED BY <1>3, <3>1, <3>2, <3>3, <3>4 DEF UpdateCampaign
  <2>3. UNCHANGED <<snapshots, counted, credited>>
    BY <1>3 DEF UpdateCampaign, Abort, BeginRefresh, EndRefresh, BeginSetStatus, EndSetStatus,
                BeginEdit, EndEdit, ledger
  <2> QED BY <2>1, <2>2, <2>3 DEF Quiet
<1>4. 1..MaxSnapshots \subseteq Nat
  BY EarningConstants
<1> QED BY <1>1, <1>2, <1>3, <1>4, CreditGoesOn DEF Next, Credit, Environment

(***************************************************************************)
(* No view is credited twice                                               *)
(***************************************************************************)

\* w is crediting s: it holds the lock submission_earnings_<s>.
Crediting(w, s) == tx[w].op = "credit" /\ tx[w].submission = s

OneCrediter ==
  \A v, w \in Workers, s \in Submissions : Crediting(v, s) /\ Crediting(w, s) => v = w

\* What a credit in flight adds is still what its snapshot has over the
\* views credited before.
AddsTheRest ==
  \A w \in Workers, s \in Submissions : Crediting(w, s) =>
    /\ tx[w].snapshot \in 1..Len(snapshots[s])
    /\ snapshots[s][tx[w].snapshot] = credited[s] + tx[w].views
    /\ tx[w].views > 0

CountedExist == \A s \in Submissions : counted[s] \subseteq 1..Len(snapshots[s])

MarkInv == HighWaterMark /\ OneCrediter /\ AddsTheRest /\ CountedExist

LEMMA MarkStep ==
  ASSUME RowsOK, MarkInv, [Next]_vars
  PROVE  MarkInv'
<1>a. \A s \in Submissions : /\ snapshots[s] \in Seq(Views) /\ Len(snapshots[s]) \in Nat
                             /\ credited[s] \in Nat
  BY DEF RowsOK
<1>b. \A s \in Submissions : \A i \in 1..Len(snapshots[s]) : snapshots[s][i] \in Nat
  <2>1. \A s \in Submissions : \A i \in 1..Len(snapshots[s]) : snapshots[s][i] \in Views
    BY <1>a
  <2> QED BY <2>1, EarningConstants
<1>1. CASE Quiet
  <2>1. \A w \in Workers, s \in Submissions : Crediting(w, s)' => Crediting(w, s)
    BY <1>1 DEF Quiet, Crediting
  <2>2. HighWaterMark' /\ CountedExist'
    BY <1>1 DEF MarkInv, HighWaterMark, CountedExist, Quiet
  <2>3. OneCrediter'
    BY <2>1 DEF MarkInv, OneCrediter
  <2>4. AddsTheRest'
    BY <1>1, <2>1 DEF MarkInv, AddsTheRest, Quiet, Crediting
  <2> QED BY <2>2, <2>3, <2>4 DEF MarkInv
<1>2. ASSUME NEW w \in Workers, NEW s \in Submissions, NEW i \in Nat, BeginCredit(w, s, i)
      PROVE  MarkInv'
  <2>1. /\ \A v \in Workers \ {w} : tx'[v] = tx[v]
        /\ tx'[w].op = "credit" /\ tx'[w].submission = s /\ tx'[w].snapshot = i
        /\ tx'[w].views = snapshots[s][i] - credited[s]
    BY <1>2 DEF BeginCredit, RowsOK
  <2>2. UNCHANGED <<snapshots, counted, credited>>
    BY <1>2 DEF BeginCredit, ledger
  <2>3. HighWaterMark' /\ CountedExist'
    BY <2>2 DEF MarkInv, HighWaterMark, CountedExist
  <2>4. \A v \in Workers : ~Crediting(v, s)
    BY <1>2 DEF BeginCredit, SubmissionUnlocked, Crediting
  <2>5. OneCrediter'
    BY <2>1, <2>4 DEF MarkInv, OneCrediter, Crediting
  <2>6. /\ i \in 1..Len(snapshots[s])
        /\ snapshots[s][i] = credited[s] + tx'[w].views
        /\ tx'[w].views > 0
    <3>1. i \in 1..Len(snapshots[s]) /\ snapshots[s][i] > credited[s]
      BY <1>2, <1>a DEF BeginCredit
    <3>2. snapshots[s][i] \in Nat
      BY <1>b, <3>1
    <3> QED BY <1>a, <2>1, <3>1, <3>2
  <2>7. AddsTheRest'
    BY <2>1, <2>2, <2>6 DEF MarkInv, AddsTheRest, Crediting
  <2> QED BY <2>3, <2>5, <2>7 DEF MarkInv
<1>3. ASSUME NEW w \in Workers, CommitCredit(w) PROVE MarkInv'
  <2>1. tx[w] \in CreditTx
    BY <1>3, CallKinds DEF CommitCredit, InCredit
  <2>2. PICK s \in Submissions : s = tx[w].submission
    BY <2>1 DEF CreditTx
  <2>3. PICK i \in Nat : i = tx[w].snapshot
    BY <2>1 DEF CreditTx
  <2>4. /\ counted'[s] = counted[s] \cup {i}
        /\ credited'[s] = credited[s] + tx[w].views
        /\ \A q \in Submissions \ {s} : counted'[q] = counted[q] /\ credited'[q] = credited[q]
        /\ snapshots' = snapshots
        /\ tx'[w] = Idle /\ \A v \in Workers \ {w} : tx'[v] = tx[v]
    BY <1>3, <2>2, <2>3 DEF CommitCredit, RowsOK
  <2>5. Crediting(w, s)
    BY <1>3, <2>2 DEF Crediting, CommitCredit, InCredit
  <2>6. /\ i \in 1..Len(snapshots[s])
        /\ snapshots[s][i] = credited'[s]
        /\ credited'[s] > credited[s]
    BY <1>a, <2>3, <2>4, <2>5, <2>1 DEF MarkInv, AddsTheRest, CreditTx
  <2>7. HighWaterMark'
    <3>1. \A j \in counted'[s] : snapshots'[s][j] <= credited'[s]
      <4>1. \A j \in counted[s] : snapshots[s][j] <= credited[s] /\ snapshots[s][j] \in Nat
        BY <1>b DEF MarkInv, HighWaterMark, CountedExist
      <4> QED BY <1>a, <1>b, <2>4, <2>6, <4>1
    <3>2. \E j \in counted'[s] : snapshots'[s][j] = credited'[s]
      BY <2>4, <2>6
    <3>3. \A q \in Submissions \ {s} :
            /\ \A j \in counted'[q] : snapshots'[q][j] <= credited'[q]
            /\ credited'[q] # 0 => \E j \in counted'[q] : snapshots'[q][j] = credited'[q]
      BY <2>4 DEF MarkInv, HighWaterMark
    <3> QED BY <3>1, <3>2, <3>3 DEF HighWaterMark
  <2>8. CountedExist'
    BY <2>4, <2>6 DEF MarkInv, CountedExist
  <2>9. \A v \in Workers, q \in Submissions :
          Crediting(v, q)' => Crediting(v, q) /\ tx'[v] = tx[v] /\ q # s
    BY <2>4, <2>5 DEF MarkInv, OneCrediter, Crediting, Idle
  <2>10. OneCrediter' /\ AddsTheRest'
    BY <2>4, <2>9 DEF MarkInv, OneCrediter, AddsTheRest
  <2> QED BY <2>7, <2>8, <2>10 DEF MarkInv
<1>4. ASSUME NEW s \in Submissions, NEW v \in Views, Capture(s, v) PROVE MarkInv'
  <2>1. \A q \in Submissions :
          /\ Len(snapshots'[q]) \in Nat /\ Len(snapshots'[q]) >= Len(snapshots[q])
          /\ \A i \in 1..Len(snapshots[q]) : snapshots'[q][i] = snapshots[q][i]
    <3>1. snapshots' = [snapshots EXCEPT ![s] = Append(snapshots[s], v)]
      BY <1>4 DEF Capture
    <3>2. /\ Len(Append(snapshots[s], v)) = Len(snapshots[s]) + 1
          /\ \A i \in 1..Len(snapshots[s]) : Append(snapshots[s], v)[i] = snapshots[s][i]
      BY <1>a
    <3> QED BY <1>a, <3>1, <3>2 DEF RowsOK
  <2>2. UNCHANGED <<counted, credited, tx>>
    BY <1>4 DEF Capture, ledger
  <2>3. HighWaterMark'
    BY <2>1, <2>2 DEF MarkInv, HighWaterMark, CountedExist
  <2>4. CountedExist'
    BY <1>a, <2>1, <2>2 DEF MarkInv, CountedExist
  <2>5. OneCrediter'
    BY <2>2 DEF MarkInv, OneCrediter, Crediting
  <2>6. AddsTheRest'
    <3> SUFFICES ASSUME NEW w \in Workers, NEW q \in Submissions, Crediting(w, q)'
                 PROVE  /\ tx[w].snapshot \in 1..Len(snapshots'[q])
                        /\ snapshots'[q][tx[w].snapshot] = credited[q] + tx[w].views
                        /\ tx[w].views > 0
      BY <2>2 DEF AddsTheRest
    <3>1. /\ tx[w].snapshot \in 1..Len(snapshots[q])
          /\ snapshots[q][tx[w].snapshot] = credited[q] + tx[w].views
          /\ tx[w].views > 0
      BY <2>2 DEF MarkInv, AddsTheRest, Crediting
    <3> QED BY <1>a, <2>1, <3>1
  <2> QED BY <2>3, <2>4, <2>5, <2>6 DEF MarkInv
<1> QED BY <1>1, <1>2, <1>3, <1>4, StepKinds

\* The views credited for a submission are the highest count among the
\* snapshots that produced an earning, for any number of workers.
THEOREM NoViewTwice == Spec => []HighWaterMark
<1>1. Init => MarkInv
  BY DEF Init, MarkInv, HighWaterMark, OneCrediter, AddsTheRest, CountedExist, Crediting, Idle
<1>2. RowsOK /\ MarkInv /\ [Next]_vars => MarkInv'
  BY MarkStep
<1>3. MarkInv => HighWaterMark
  BY DEF MarkInv
<1> QED BY <1>1, <1>2, <1>3, RowsCorrect, PTL DEF Spec

(***************************************************************************)
(* Until two calls overlap                                                 *)
(***************************************************************************)

\* While no two calls have overlapped, one is in flight at most.
AloneInv == alone => \A v, w \in Workers : tx[v] # Idle /\ tx[w] # Idle => v = w

\* The step of worker w leaves the others' calls as they were.
Mine(w) == \A v \in Workers \ {w} : tx'[v] = tx[v]

\* A step that begins a call notes the overlap, and any other step goes on
\* with, or ends, a call that was in flight.
LEMMA WorkerSteps ==
  ASSUME RowsOK, NEW w \in Workers, Credit(w) \/ UpdateCampaign(w) \/ Abort(w)
  PROVE  Mine(w) /\ ((tx[w] = Idle /\ NoteOverlap) \/ (tx[w] # Idle /\ alone' = alone))
<1>1. (\E s \in Submissions, i \in 1..MaxSnapshots : BeginCredit(w, s, i))
        => Mine(w) /\ tx[w] = Idle /\ NoteOverlap
  BY DEF BeginCredit, Mine, RowsOK
<1>2. BeginRefresh(w) => Mine(w) /\ tx[w] = Idle /\ NoteOverlap
  BY DEF BeginRefresh, Mine, RowsOK
<1>3. (\E to \in Settable : BeginSetStatus(w, to)) => Mine(w) /\ tx[w] = Idle /\ NoteOverlap
  BY DEF BeginSetStatus, Mine, RowsOK
<1>4. (\E b \in Budgets : BeginEdit(w, b)) => Mine(w) /\ tx[w] = Idle /\ NoteOverlap
  BY DEF BeginEdit, Mine, RowsOK
<1>5. WeighCredit(w) => Mine(w) /\ tx[w] # Idle /\ alone' = alone
  BY DEF WeighCredit, InCredit, Mine, Idle, RowsOK
<1>6. ConsumeBudget(w) \/ CompleteCampaign(w) \/ CommitCredit(w)
        => Mine(w) /\ tx[w] # Idle /\ alone' = alone
  BY DEF ConsumeBudget, CompleteCampaign, CommitCredit, InCredit, Mine, Idle, RowsOK
<1>7. EndRefresh(w) \/ EndSetStatus(w) \/ EndEdit(w) \/ Abort(w)
        => Mine(w) /\ tx[w] # Idle /\ alone' = alone
  BY DEF EndRefresh, EndSetStatus, EndEdit, Abort, Mine, Idle, RowsOK
<1> QED BY <1>1, <1>2, <1>3, <1>4, <1>5, <1>6, <1>7 DEF Credit, UpdateCampaign

AloneTyped == alone \in BOOLEAN

\* Every row of the ledger, the campaign and every call keeps its type, the
\* history variable included: in particular no earning and no balance is
\* ever negative.
THEOREM TypeCorrect == Spec => []TypeOK
<1>1. Init => AloneTyped
  BY DEF Init, AloneTyped
<1>2. RowsOK /\ AloneTyped /\ [Next]_vars => AloneTyped'
  <2> SUFFICES ASSUME RowsOK, AloneTyped, [Next]_vars
               PROVE  alone' = alone \/ NoteOverlap
    BY DEF NoteOverlap, AloneTyped
  <2>1. CASE Environment \/ UNCHANGED vars
    BY <2>1 DEF Environment, Capture, Review, vars
  <2> QED BY <2>1, WorkerSteps DEF Next
<1>3. RowsOK /\ AloneTyped => TypeOK
  BY DEF TypeOK, AloneTyped
<1> QED BY <1>1, <1>2, <1>3, RowsCorrect, PTL DEF Spec

\* A step after which calls still have not overlapped is taken by a worker
\* beside whom all others are idle, or by the rest of the system.
LEMMA AloneStep ==
  ASSUME RowsOK, AloneInv, [Next]_vars, alone'
  PROVE  /\ alone
         /\ \/ UNCHANGED <<earned, paid, total, consumed, tx>>
            \/ \E w \in Workers :
                 /\ Credit(w) \/ UpdateCampaign(w) \/ Abort(w)
                 /\ \A v \in Workers \ {w} : tx[v] = Idle /\ tx'[v] = Idle
<1>1. ASSUME NEW w \in Workers, Credit(w) \/ UpdateCampaign(w) \/ Abort(w)
      PROVE  alone /\ \A v \in Workers \ {w} : tx[v] = Idle /\ tx'[v] = Idle
  <2>1. Mine(w) /\ ((tx[w] = Idle /\ NoteOverlap) \/ (tx[w] # Idle /\ alone' = alone))
    BY <1>1, WorkerSteps
  <2> QED BY <2>1 DEF Mine, NoteOverlap, AloneInv
<1>2. CASE Environment \/ UNCHANGED vars
  BY <1>2 DEF Environment, Capture, Review, vars, ledger, campaign
<1> QED BY <1>1, <1>2 DEF Next

LEMMA AloneCorrect == Spec => []AloneInv
<1>1. Init => AloneInv
  BY DEF Init, AloneInv
<1>2. RowsOK /\ AloneInv /\ [Next]_vars => AloneInv'
  <2> SUFFICES ASSUME RowsOK, AloneInv, [Next]_vars, alone' PROVE AloneInv'
    BY DEF AloneInv
  <2>1. alone
    BY AloneStep
  <2>2. CASE UNCHANGED tx
    BY <2>1, <2>2 DEF AloneInv
  <2>3. ASSUME NEW w \in Workers, \A v \in Workers \ {w} : tx'[v] = Idle PROVE AloneInv'
    BY <2>3 DEF AloneInv, Idle
  <2> QED BY <2>2, <2>3, AloneStep
<1> QED BY <1>1, <1>2, RowsCorrect, PTL DEF Spec

(***************************************************************************)
(* Until then the ledger stays within budget and cap                       *)
(***************************************************************************)

CreditorOf(w) == CreatorOf[tx[w].submission]

\* What a call in flight relies on, stage by stage.
FreshRead(w) ==
  InCredit(w, "weigh") => tx[w].left = total - consumed

Affordable(w) ==
  InCredit(w, "consume") =>
    /\ tx[w].amount <= total - consumed
    /\ earned[CreditorOf(w)] + tx[w].amount <= Cap

Consumed(w) ==
  InCredit(w, "complete") \/ InCredit(w, "commit") =>
    /\ paid + tx[w].amount <= consumed
    /\ paid + tx[w].amount <= total
    /\ earned[CreditorOf(w)] + tx[w].amount <= Cap

Checked(w) ==
  /\ tx[w].op = "refresh" => tx[w].live >= consumed
  /\ tx[w].op = "edit" => tx[w].total >= consumed

CallInv(w) == FreshRead(w) /\ Affordable(w) /\ Consumed(w) /\ Checked(w)

Solvent ==
  /\ paid <= consumed
  /\ paid <= total
  /\ \A c \in Creators : earned[c] <= Cap
  /\ \A w \in Workers : CallInv(w)

BudgetInv == alone => Solvent

\* An amount that is credited is within each of its three caps.
LEMMA CappedBounds ==
  ASSUME NEW raw \in Int, NEW left \in Int, NEW creatorLeft \in Int
  PROVE  /\ Capped(raw, left, creatorLeft) \in Int
         /\ Capped(raw, left, creatorLeft) <= left
         /\ Capped(raw, left, creatorLeft) <= creatorLeft
  BY DEF Capped, Least

LEMMA BudgetStep ==
  ASSUME RowsOK, RowsOK', Solvent, NEW w \in Workers,
         \A v \in Workers \ {w} : tx'[v] = Idle,
         Credit(w) \/ UpdateCampaign(w) \/ Abort(w)
  PROVE  Solvent'
<1>a. /\ total \in Nat /\ consumed \in Nat /\ paid \in Nat /\ Cap \in Nat
      /\ \A c \in Creators : earned[c] \in Nat
  BY EarningConstants DEF RowsOK
<1>b. paid <= consumed /\ paid <= total /\ (\A c \in Creators : earned[c] <= Cap) /\ CallInv(w)
  BY DEF Solvent
<1>c. SUFFICES /\ paid' <= consumed' /\ paid' <= total'
               /\ \A c \in Creators : earned'[c] <= Cap
               /\ CallInv(w)'
  <2>1. \A v \in Workers \ {w} : CallInv(v)'
    BY DEF CallInv, FreshRead, Affordable, Consumed, Checked, InCredit, Idle
  <2> QED BY <2>1 DEF Solvent
<1>1. CASE tx' = [tx EXCEPT ![w] = Idle] /\ UNCHANGED <<paid, earned, total, consumed>>
  <2>1. tx'[w] = Idle
    BY <1>1 DEF RowsOK
  <2>2. CallInv(w)'
    BY <2>1 DEF CallInv, FreshRead, Affordable, Consumed, Checked, InCredit, Idle
  <2> QED BY <1>1, <1>b, <2>2
<1>2. ASSUME NEW s \in Submissions, NEW i \in Nat, BeginCredit(w, s, i)
      PROVE  /\ paid' <= consumed' /\ paid' <= total'
             /\ \A c \in Creators : earned'[c] <= Cap
             /\ CallInv(w)'
  <2>1. /\ tx'[w].op = "credit" /\ tx'[w].stage = "weigh"
        /\ tx'[w].left = total - consumed
        /\ UNCHANGED <<paid, earned, total, consumed>>
    BY <1>2 DEF BeginCredit, RowsOK, ledger, campaign
  <2>2. CallInv(w)'
    BY <2>1 DEF CallInv, FreshRead, Affordable, Consumed, Checked, InCredit
  <2> QED BY <1>b, <2>1, <2>2
<1>3. CASE WeighCredit(w) /\ tx' # [tx EXCEPT ![w] = Idle]
  <2>1. tx[w] \in CreditTx
    BY <1>3, CallKinds DEF WeighCredit, InCredit
  <2> DEFINE creatorLeft == Cap - earned[CreditorOf(w)]
             amount      == Capped(Gross(tx[w].views), tx[w].left, creatorLeft)
             next        == [tx[w] EXCEPT !.stage = "consume", !.amount = amount]
  <2>2. tx'[w] = next
    <3>1. tx' = [tx EXCEPT ![w] = next]
      BY <1>3 DEF WeighCredit, CreditorOf
    <3> QED BY <3>1 DEF RowsOK
  <2>3. earned[CreditorOf(w)] \in Nat
    BY <2>1, <1>a, EarningConstants DEF CreditTx, CreditorOf
  <2>4. amount \in Int /\ amount <= tx[w].left /\ amount <= creatorLeft
    <3>1. Gross(tx[w].views) \in Int /\ tx[w].left \in Int /\ creatorLeft \in Int
      BY <1>a, <2>1, <2>3, GrossNat DEF CreditTx
    <3> QED BY <3>1, CappedBounds
  <2>5. amount <= total - consumed /\ earned[CreditorOf(w)] + amount <= Cap
    <3>1. tx[w].left = total - consumed
      BY <1>3, <1>b DEF WeighCredit, CallInv, FreshRead
    <3> QED BY <1>a, <2>3, <2>4, <3>1
  <2>6. /\ next.op = "credit" /\ next.stage = "consume"
        /\ next.submission = tx[w].submission /\ next.amount = amount
    <3> HIDE DEF amount
    <3> QED BY <2>1 DEF CreditTx
  <2> HIDE DEF amount, next
  <2>7. UNCHANGED <<paid, earned, total, consumed>>
    BY <1>3 DEF WeighCredit, ledger, campaign
  <2>8. CreditorOf(w)' = CreditorOf(w)
    BY <2>2, <2>6 DEF CreditorOf
  <2>9. CallInv(w)'
    BY <2>2, <2>5, <2>6, <2>7, <2>8
    DEF CallInv, FreshRead, Affordable, Consumed, Checked, InCredit
  <2> QED BY <1>b, <2>7, <2>9
<1>4. CASE ConsumeBudget(w)
  <2>1. tx[w] \in CreditTx
    BY <1>4, CallKinds DEF ConsumeBudget, InCredit
  <2>2. \E g \in {"complete", "commit"} : tx' = [tx EXCEPT ![w].stage = g]
    BY <1>4 DEF ConsumeBudget
  <2>3. /\ tx'[w].op = "credit" /\ tx'[w].stage \in {"complete", "commit"}
        /\ tx'[w].submission = tx[w].submission /\ tx'[w].amount = tx[w].amount
    BY <2>1, <2>2 DEF RowsOK, CreditTx
  <2>4. consumed' = consumed + tx[w].amount /\ UNCHANGED <<paid, earned, total>>
    BY <1>4 DEF ConsumeBudget, ledger
  <2>5. /\ tx[w].amount <= total - consumed
        /\ earned[CreditorOf(w)] + tx[w].amount <= Cap
    BY <1>4, <1>b DEF ConsumeBudget, CallInv, Affordable
  <2>6. tx[w].amount \in Nat
    BY <2>1 DEF CreditTx
  <2>7. /\ paid + tx[w].amount <= consumed' /\ paid + tx[w].amount <= total
        /\ paid <= consumed'
    BY <1>a, <1>b, <2>4, <2>5, <2>6
  <2>8. CreditorOf(w)' = CreditorOf(w)
    BY <2>3 DEF CreditorOf
  <2>9. CallInv(w)'
    BY <2>3, <2>4, <2>5, <2>7, <2>8
    DEF CallInv, FreshRead, Affordable, Consumed, Checked, InCredit
  <2> QED BY <1>b, <2>4, <2>7, <2>9
<1>5. CASE CompleteCampaign(w)
  <2>1. tx[w] \in CreditTx
    BY <1>5, CallKinds DEF CompleteCampaign, InCredit
  <2>2. /\ tx'[w].op = "credit" /\ tx'[w].stage = "commit"
        /\ tx'[w].submission = tx[w].submission /\ tx'[w].amount = tx[w].amount
    BY <1>5, <2>1 DEF CompleteCampaign, RowsOK, CreditTx
  <2>3. UNCHANGED <<paid, earned, total, consumed>>
    BY <1>5 DEF CompleteCampaign, ledger
  <2>4. CreditorOf(w)' = CreditorOf(w)
    BY <2>2 DEF CreditorOf
  <2>5. /\ paid + tx[w].amount <= consumed /\ paid + tx[w].amount <= total
        /\ earned[CreditorOf(w)] + tx[w].amount <= Cap
    BY <1>5, <1>b DEF CompleteCampaign, CallInv, Consumed
  <2>6. CallInv(w)'
    BY <2>2, <2>3, <2>4, <2>5
    DEF CallInv, FreshRead, Affordable, Consumed, Checked, InCredit
  <2> QED BY <1>b, <2>3, <2>6
<1>6. CASE CommitCredit(w)
  <2>1. /\ paid + tx[w].amount <= consumed /\ paid + tx[w].amount <= total
        /\ earned[CreditorOf(w)] + tx[w].amount <= Cap
    BY <1>6, <1>b DEF CommitCredit, CallInv, Consumed
  <2>2. /\ paid' = paid + tx[w].amount /\ UNCHANGED <<total, consumed>>
        /\ earned' = [earned EXCEPT ![CreditorOf(w)] = @ + tx[w].amount]
        /\ tx'[w] = Idle
    BY <1>6 DEF CommitCredit, CreditorOf, campaign, RowsOK
  <2>3. \A c \in Creators : earned'[c] <= Cap
    BY <1>b, <2>1, <2>2 DEF RowsOK
  <2>4. CallInv(w)'
    BY <2>2 DEF CallInv, FreshRead, Affordable, Consumed, Checked, InCredit, Idle
  <2> QED BY <2>1, <2>2, <2>3, <2>4
<1>7. CASE BeginRefresh(w)
  <2>1. PICK live \in consumed + 1 .. MaxConsumed :
          tx' = [tx EXCEPT ![w] = [op |-> "refresh", live |-> live]]
    BY <1>7 DEF BeginRefresh
  <2>2. tx'[w].op = "refresh" /\ tx'[w].live = live
    BY <2>1 DEF RowsOK
  <2>3. UNCHANGED <<paid, earned, total, consumed>>
    BY <1>7 DEF BeginRefresh, ledger, campaign
  <2>4. live >= consumed
    BY <1>a, EarningConstants
  <2>5. CallInv(w)'
    BY <2>2, <2>3, <2>4 DEF CallInv, FreshRead, Affordable, Consumed, Checked, InCredit
  <2> QED BY <1>b, <2>3, <2>5
<1>8. CASE EndRefresh(w)
  <2>1. tx[w] \in RefreshTx
    BY <1>8, CallKinds DEF EndRefresh
  <2>2. /\ consumed' = tx[w].live /\ UNCHANGED <<paid, earned, total>> /\ tx'[w] = Idle
    BY <1>8 DEF EndRefresh, ledger, RowsOK
  <2>3. tx[w].live >= consumed /\ tx[w].live \in Nat
    BY <1>8, <1>b, <2>1 DEF EndRefresh, CallInv, Checked, RefreshTx
  <2>4. CallInv(w)'
    BY <2>2 DEF CallInv, FreshRead, Affordable, Consumed, Checked, InCredit, Idle
  <2> QED BY <1>a, <1>b, <2>2, <2>3, <2>4
<1>9. ASSUME NEW to \in Settable, BeginSetStatus(w, to)
      PROVE  /\ paid' <= consumed' /\ paid' <= total'
             /\ \A c \in Creators : earned'[c] <= Cap
             /\ CallInv(w)'
  <2>1. tx'[w].op = "status" /\ UNCHANGED <<paid, earned, total, consumed>>
    BY <1>9 DEF BeginSetStatus, RowsOK, ledger, campaign
  <2>2. CallInv(w)'
    BY <2>1 DEF CallInv, FreshRead, Affordable, Consumed, Checked, InCredit
  <2> QED BY <1>b, <2>1, <2>2
<1>10. ASSUME NEW b \in Budgets, BeginEdit(w, b)
       PROVE  /\ paid' <= consumed' /\ paid' <= total'
              /\ \A c \in Creators : earned'[c] <= Cap
              /\ CallInv(w)'
  <2>1. /\ tx'[w].op = "edit" /\ tx'[w].total = b /\ b >= consumed
        /\ UNCHANGED <<paid, earned, total, consumed>>
    BY <1>10 DEF BeginEdit, RowsOK, ledger, campaign
  <2>2. CallInv(w)'
    BY <2>1 DEF CallInv, FreshRead, Affordable, Consumed, Checked, InCredit
  <2> QED BY <1>b, <2>1, <2>2
<1>11. CASE EndEdit(w)
  <2>1. tx[w] \in EditTx
    BY <1>11, CallKinds DEF EndEdit
  <2>2. /\ total' = tx[w].total /\ UNCHANGED <<paid, earned, consumed>> /\ tx'[w] = Idle
    BY <1>11 DEF EndEdit, ledger, RowsOK
  <2>3. tx[w].total >= consumed /\ tx[w].total \in Nat
    BY <1>11, <1>b, <2>1, EarningConstants DEF EndEdit, CallInv, Checked, EditTx
  <2>4. CallInv(w)'
    BY <2>2 DEF CallInv, FreshRead, Affordable, Consumed, Checked, InCredit, Idle
  <2> QED BY <1>a, <1>b, <2>2, <2>3, <2>4
<1>12. WeighCredit(w) \/ EndSetStatus(w) \/ Abort(w) =>
         UNCHANGED <<paid, earned, total, consumed>>
  BY DEF WeighCredit, EndSetStatus, Abort, ledger, campaign
<1>13. EndSetStatus(w) \/ Abort(w) => tx' = [tx EXCEPT ![w] = Idle]
  BY DEF EndSetStatus, Abort
<1>14. 1..MaxSnapshots \subseteq Nat
  BY EarningConstants
<1> QED BY <1>1, <1>2, <1>3, <1>4, <1>5, <1>6, <1>7, <1>8, <1>9, <1>10, <1>11, <1>12, <1>13,
           <1>14 DEF Credit, UpdateCampaign

LEMMA BudgetCorrect == Spec => []BudgetInv
<1>1. Init => BudgetInv
  <2> SUFFICES ASSUME Init PROVE Solvent
    BY DEF BudgetInv
  <2>1. paid = 0 /\ consumed = 0 /\ total \in Nat /\ Cap \in Nat
    BY EarningConstants DEF Init
  <2>2. \A c \in Creators : earned[c] = 0
    BY DEF Init
  <2>3. \A w \in Workers : CallInv(w)
    BY DEF Init, CallInv, FreshRead, Affordable, Consumed, Checked, InCredit, Idle
  <2> QED BY <2>1, <2>2, <2>3 DEF Solvent
<1>2. RowsOK /\ RowsOK' /\ AloneInv /\ BudgetInv /\ [Next]_vars => BudgetInv'
  <2> SUFFICES ASSUME RowsOK, RowsOK', AloneInv, BudgetInv, [Next]_vars, alone'
               PROVE  Solvent'
    BY DEF BudgetInv
  <2>1. Solvent
    BY AloneStep DEF BudgetInv
  <2>2. CASE UNCHANGED <<earned, paid, total, consumed, tx>>
    BY <2>1, <2>2 DEF Solvent, CallInv, FreshRead, Affordable, Consumed, Checked, InCredit,
                      CreditorOf
  <2> QED BY <2>1, <2>2, AloneStep, BudgetStep
<1> QED BY <1>1, <1>2, RowsCorrect, AloneCorrect, PTL DEF Spec

\* As long as no two calls have overlapped the ledger stays within the
\* budget, whatever credits roll back, staff edit and the live budget writes.
THEOREM SerialWithinBudget == Spec => []PaidWithinBudget
<1>1. BudgetInv => PaidWithinBudget
  BY DEF BudgetInv, Solvent, PaidWithinBudget
<1> QED BY <1>1, BudgetCorrect, PTL

\* As long as no two calls have overlapped, what the ledger has paid is
\* consumed, whichever credits are rolled back after consuming.
THEOREM SerialLedgerCovered == Spec => []LedgerCovered
<1>1. BudgetInv => LedgerCovered
  BY DEF BudgetInv, Solvent, LedgerCovered
<1> QED BY <1>1, BudgetCorrect, PTL

\* As long as no two calls have overlapped no creator earns more than the
\* campaign's cap.
THEOREM SerialWithinCap == Spec => []EarnedWithinCap
<1>1. BudgetInv => EarnedWithinCap
  BY DEF BudgetInv, Solvent, EarnedWithinCap
<1> QED BY <1>1, BudgetCorrect, PTL

-----------------------------------------------------------------------------
(***************************************************************************)
(* The polling that credits (Polling), for every set of workers and staff  *)
(* and every bound on the counts and the failures.  What the two modules   *)
(* both name has another name here.                                        *)
(***************************************************************************)

USE DEF P!PollingConstants

Hands == Pollers \cup Staff

\* The stages of a job that has counted, and of all that a job goes through.
Counted == {"insert", "judge", "flag", "credit", "commit"}
AtWork  == Counted \cup {"measure"}

(***************************************************************************)
(* The inductive invariants                                                *)
(***************************************************************************)

\* The workers run jobs, staff enter counts.
Roles ==
  /\ \A w \in Pollers : call[w].stage \in AtWork \cup {"idle"}
  /\ \A w \in Staff : call[w].stage \in {"idle", "refresh", "enter"}

\* A job that waits has an attempt left, one that was not dispatched has had none.
AttemptsLeft ==
  \A c \in P!Cycles :
    /\ job[c] = "none" => tries[c] = 0
    /\ job[c] = "waiting" => tries[c] < P!Attempts

Sound == P!TypeOK /\ Roles /\ AttemptsLeft

\* The counts that jobs carry towards the ledger are counts of the platform.
Measured ==
  /\ views <= peak /\ covered <= peak
  /\ \A w \in Pollers : call[w].stage \in Counted => call[w].views <= peak

\* One call at a time, and it knows the latest snapshot.
Alone ==
  /\ \A v, w \in Hands : call[v] # P!Idle /\ call[w] # P!Idle => v = w
  /\ \A w \in Staff : call[w] = P!Idle
  /\ \A w \in Pollers : call[w].stage = "measure" => call[w].seen = latest
  /\ \A w \in Pollers : call[w].stage = "insert" => call[w].views # latest
  /\ ~repeated

Undisturbed == met \cap {"overlap", "refresh", "manual"} = {} => Alone

(***************************************************************************)
(* Lemmas about the calls                                                  *)
(***************************************************************************)

Measuring == [stage : {"measure"}, cycle : P!Cycles, seen : P!Counts]
Carrying  == [stage : Counted, cycle : P!Cycles, views : P!Counts]
Entering  == [stage : {"enter"}, views : P!Counts]

\* A call is what its stage says it is.
LEMMA PollKinds ==
  ASSUME P!PollingConstants,
         P!TypeOK, NEW w \in Hands
  PROVE  /\ call[w].stage = "measure" => call[w] \in Measuring
         /\ call[w].stage \in Counted => call[w] \in Carrying
         /\ call[w].stage = "enter" => call[w] \in Entering
         /\ call[w].stage = "idle" => call[w] = P!Idle
<1>1. call[w] \in P!Calls
  BY DEF P!TypeOK, Hands
<1> QED BY <1>1 DEF P!Calls, P!Idle, Measuring, Carrying, Entering, Counted

\* A hand that goes on to a well-typed call keeps the others as they were.
LEMMA HandTyped ==
  ASSUME P!PollingConstants,
         P!TypeOK, NEW w \in Hands, NEW c \in P!Calls, P!Become(w, c)
  PROVE  /\ call' \in [Hands -> P!Calls]
         /\ call'[w] = c
         /\ \A v \in Hands \ {w} : call'[v] = call[v]
  BY DEF P!TypeOK, P!Become, Hands

LEMMA IdleTyped ==
  P!Idle \in P!Calls /\ P!Idle.stage = "idle"
  BY DEF P!Calls, P!Idle

\* The views covered after a snapshot are those covered before or the snapshot's.
LEMMA CoveredBounded ==
  ASSUME P!PollingConstants,
         P!TypeOK, NEW v \in P!Counts, NEW b \in Nat, covered <= b, v <= b
  PROVE  P!Covered(v) \in {0} \cup P!Counts /\ covered <= P!Covered(v) /\ P!Covered(v) <= b
  BY DEF P!TypeOK, P!Covered, P!Counts

(***************************************************************************)
(* Type correctness                                                        *)
(***************************************************************************)

\* A job that ends, or waits for another attempt it still has, keeps to its
\* attempts.
LEMMA EndsJobSound ==
  ASSUME P!PollingConstants,
         Sound, NEW w \in Pollers, call[w].stage \in AtWork,
         NEW s, s \in {"done", "failed", P!AfterError(call[w].cycle)},
         P!EndsJob(w, s), UNCHANGED tries
  PROVE  job' \in [P!Cycles -> P!Jobs] /\ AttemptsLeft'
<1>1. call[w].cycle \in P!Cycles
  BY PollKinds DEF Sound, AtWork, Measuring, Carrying, Hands
<1>2. s \in P!Jobs /\ s # "none" /\ (s = "waiting" => tries[call[w].cycle] < P!Attempts)
  BY DEF P!AfterError, P!Jobs
<1> QED BY <1>1, <1>2 DEF Sound, P!TypeOK, AttemptsLeft, P!EndsJob

\* A worker lets go of its job.
LEMMA LetsGoSound ==
  ASSUME P!PollingConstants,
         Sound, NEW w \in Pollers, call[w].stage \in AtWork,
         NEW s, s \in {"done", "failed", P!AfterError(call[w].cycle)},
         P!EndsJob(w, s), P!Become(w, P!Idle), UNCHANGED <<tries, cycle>>,
         clipStatus' \in P!Statuses, UNCHANGED <<campaignStatus, views, peak, latest, repeated, suspect>>,
         covered' \in {0} \cup P!Counts, errors' \in 0..MaxErrors,
         met' \subseteq met \cup Faults
  PROVE  Sound'
<1>1. job' \in [P!Cycles -> P!Jobs] /\ AttemptsLeft'
  BY EndsJobSound
<1>2. /\ call' \in [Hands -> P!Calls]
      /\ call'[w] = P!Idle
      /\ \A v \in Hands \ {w} : call'[v] = call[v]
  BY HandTyped, IdleTyped DEF Sound, Hands
<1>3. Roles'
  BY <1>2, IdleTyped DEF Sound, Roles, Hands
<1>4. P!TypeOK'
  BY <1>1, <1>2 DEF Sound, P!TypeOK, Hands
<1> QED BY <1>1, <1>3, <1>4 DEF Sound

\* A hand goes on with a call of its role.
LEMMA GoesOnSound ==
  ASSUME P!PollingConstants,
         Sound, NEW w \in Hands, NEW c \in P!Calls, P!Become(w, c),
         w \in Pollers => c.stage \in AtWork \cup {"idle"},
         w \in Staff => c.stage \in {"idle", "refresh", "enter"}
  PROVE  call' \in [Hands -> P!Calls] /\ Roles'
<1>1. /\ call' \in [Hands -> P!Calls]
      /\ call'[w] = c
      /\ \A v \in Hands \ {w} : call'[v] = call[v]
  BY HandTyped DEF Sound
<1> QED BY <1>1 DEF Sound, Roles, Hands

LEMMA FailsTyped ==
  ASSUME P!PollingConstants,
         P!TypeOK, NEW f, P!Fails(f)
  PROVE  errors' \in 0..MaxErrors /\ met' \subseteq met \cup Faults
  BY DEF P!TypeOK, P!Fails

LEMMA BeginsTyped ==
  ASSUME P!PollingConstants,
         P!TypeOK, NEW things, things \subseteq {"refresh", "manual"}, P!Begins(things)
  PROVE  met' \subseteq {"provider", "db", "credit", "crash", "refresh", "manual", "moderate",
                          "overlap"}
  BY DEF P!TypeOK, P!Begins

LEMMA TakeJobSound ==
  ASSUME P!PollingConstants,
         Sound, NEW w \in Pollers, NEW c \in P!Cycles, P!TakeJob(w, c)
  PROVE  Sound'
<1>1. tries' \in [P!Cycles -> 0..P!Attempts] /\ tries' = [tries EXCEPT ![c] = @ + 1]
  BY DEF Sound, P!TypeOK, AttemptsLeft, P!TakeJob, P!Attempts
<1>2. met' \subseteq {"provider", "db", "credit", "crash", "refresh", "manual", "moderate",
                      "overlap"}
  BY BeginsTyped DEF Sound, P!TakeJob
<1>3. CASE P!Pollable
  <2>1. [stage |-> "measure", cycle |-> c, seen |-> latest] \in P!Calls
    BY DEF Sound, P!TypeOK, P!Calls
  <2>2. call' \in [Hands -> P!Calls] /\ Roles'
    BY <1>3, <2>1, GoesOnSound DEF Sound, P!TakeJob, AtWork, Hands
  <2>3. job' = [job EXCEPT ![c] = "active"]
    BY <1>3 DEF P!TakeJob
  <2>4. AttemptsLeft'
    BY <1>1, <2>3 DEF Sound, P!TypeOK, AttemptsLeft
  <2>5. job' \in [P!Cycles -> P!Jobs]
    BY <2>3 DEF Sound, P!TypeOK, P!Jobs
  <2> QED BY <1>1, <1>2, <2>2, <2>4, <2>5
          DEF Sound, P!TypeOK, P!TakeJob, Hands, P!clip, P!snapshots
<1>4. CASE ~P!Pollable
  <2>1. job' = [job EXCEPT ![c] = "done"] /\ call' = call
    BY <1>4 DEF P!TakeJob
  <2>2. AttemptsLeft'
    BY <1>1, <2>1 DEF Sound, P!TypeOK, AttemptsLeft
  <2>3. job' \in [P!Cycles -> P!Jobs]
    BY <2>1 DEF Sound, P!TypeOK, P!Jobs
  <2> QED BY <1>1, <1>2, <2>1, <2>2, <2>3
          DEF Sound, P!TypeOK, Roles, P!TakeJob, P!clip, P!snapshots
<1> QED BY <1>3, <1>4

LEMMA WorkSound ==
  ASSUME P!PollingConstants,
         Sound, NEW w \in Pollers, P!Work(w)
  PROVE  Sound'
<1> USE DEF P!clip, P!snapshots, P!jobs
<1>0. w \in Hands /\ w \notin Staff /\ P!TypeOK
  BY DEF Hands, Sound
<1>1. CASE P!Measure(w)
  <2>1. CASE P!HasMetricsChanged(call[w].seen, views)
    <3>1. [stage |-> "insert", cycle |-> call[w].cycle, views |-> views] \in P!Calls
      BY <1>0, <1>1, PollKinds DEF P!Measure, Measuring, P!TypeOK, P!Calls
    <3>2. call' \in [Hands -> P!Calls] /\ Roles'
      BY <1>0, <1>1, <2>1, <3>1, GoesOnSound DEF P!Measure, AtWork, Counted
    <3> QED BY <1>0, <1>1, <2>1, <3>2 DEF P!Measure, Sound, P!TypeOK, AttemptsLeft, Hands
  <2>2. CASE ~P!HasMetricsChanged(call[w].seen, views)
    BY <1>0, <1>1, <2>2, LetsGoSound DEF P!Measure, P!Returns, AtWork, P!TypeOK
  <2> QED BY <2>1, <2>2
<1>2. CASE P!Insert(w)
  <2>1. call[w] \in Carrying
    BY <1>0, <1>2, PollKinds DEF P!Insert, Counted
  <2>2. [call[w] EXCEPT !.stage = "judge"] \in P!Calls
    BY <2>1 DEF Carrying, P!Calls
  <2>3. [call[w] EXCEPT !.stage = "judge"].stage = "judge"
    BY <2>1 DEF Carrying
  <2>4. call' \in [Hands -> P!Calls] /\ Roles'
    BY <1>0, <1>2, <2>2, <2>3, GoesOnSound DEF P!Insert, AtWork, Counted
  <2>5. latest' \in P!Counts /\ repeated' \in BOOLEAN
    BY <1>2, <2>1 DEF P!Insert, P!Keep, Carrying
  <2> QED BY <1>2, <2>4, <2>5 DEF P!Insert, Sound, P!TypeOK, AttemptsLeft, Hands
<1>3. CASE P!Judge(w)
  <2>1. call[w] \in Carrying
    BY <1>0, <1>3, PollKinds DEF P!Judge, Counted
  <2>2. PICK critical \in Suspicions :
          /\ suspect' = (suspect \/ critical)
          /\ P!Become(w, [call[w] EXCEPT !.stage = IF critical THEN "flag" ELSE "credit"])
    BY <1>3 DEF P!Judge
  <2>3. PICK s \in {"flag", "credit"} : P!Become(w, [call[w] EXCEPT !.stage = s])
    BY <2>2
  <2>4. [call[w] EXCEPT !.stage = s] \in P!Calls /\ [call[w] EXCEPT !.stage = s].stage = s
    BY <2>1 DEF Carrying, P!Calls
  <2>5. call' \in [Hands -> P!Calls] /\ Roles'
    BY <1>0, <2>3, <2>4, GoesOnSound DEF AtWork, Counted
  <2>6. suspect' \in BOOLEAN
    BY <2>2
  <2> QED BY <1>3, <2>5, <2>6 DEF P!Judge, Sound, P!TypeOK, AttemptsLeft, Hands
<1>4. CASE P!Flag(w)
  BY <1>0, <1>4, LetsGoSound DEF P!Flag, P!Throws, AtWork, Counted, P!TypeOK, P!Statuses
<1>5. CASE P!BeginCredit(w)
  <2>1. CASE clipStatus = "APPROVED"
    <3>1. call[w] \in Carrying
      BY <1>0, <1>5, PollKinds DEF P!BeginCredit, Counted
    <3>2. /\ [call[w] EXCEPT !.stage = "commit"] \in P!Calls
          /\ [call[w] EXCEPT !.stage = "commit"].stage = "commit"
      BY <3>1 DEF Carrying, P!Calls
    <3>3. call' \in [Hands -> P!Calls] /\ Roles'
      BY <1>0, <1>5, <2>1, <3>2, GoesOnSound DEF P!BeginCredit, AtWork, Counted
    <3> QED BY <1>5, <2>1, <3>3 DEF P!BeginCredit, Sound, P!TypeOK, AttemptsLeft, Hands
  <2>2. CASE clipStatus # "APPROVED"
    BY <1>0, <1>5, <2>2, LetsGoSound DEF P!BeginCredit, P!Returns, AtWork, Counted, P!TypeOK
  <2> QED BY <2>1, <2>2
<1>6. CASE P!CommitCredit(w)
  <2>1. covered' \in {0} \cup P!Counts
    BY <1>0, <1>6, PollKinds DEF P!CommitCredit, P!Covered, Carrying, Counted, P!TypeOK
  <2> QED BY <1>0, <1>6, <2>1, LetsGoSound DEF P!CommitCredit, P!Returns, AtWork, Counted, P!TypeOK
<1> QED BY <1>1, <1>2, <1>3, <1>4, <1>5, <1>6 DEF P!Work

LEMMA FailureSound ==
  ASSUME P!PollingConstants,
         Sound, NEW w \in Pollers, P!Failure(w)
  PROVE  Sound'
<1> USE DEF P!clip, P!snapshots, P!jobs
<1>0. w \in Hands /\ P!TypeOK
  BY DEF Hands, Sound
<1>1. CASE P!ProviderFails(w)
  BY <1>0, <1>1, LetsGoSound, FailsTyped
     DEF P!ProviderFails, P!Returns, P!Throws, AtWork, P!TypeOK
<1>2. CASE P!CreditFails(w)
  BY <1>0, <1>2, LetsGoSound, FailsTyped DEF P!CreditFails, P!Returns, AtWork, Counted, P!TypeOK
<1>3. CASE P!QueryFails(w)
  BY <1>0, <1>3, LetsGoSound, FailsTyped DEF P!QueryFails, P!Throws, AtWork, Counted, P!TypeOK
<1>4. CASE P!Crash(w)
  <2>1. call[w].stage \in AtWork
    BY <1>0, <1>4, PollKinds DEF P!Crash, Sound, Roles
  <2> QED BY <1>0, <1>4, <2>1, LetsGoSound, FailsTyped DEF P!Crash, P!TypeOK
<1> QED BY <1>1, <1>2, <1>3, <1>4 DEF P!Failure

LEMMA EntersSound ==
  ASSUME P!PollingConstants,
         Sound, NEW w \in Staff, P!Enters(w)
  PROVE  Sound'
<1> USE DEF P!clip, P!snapshots, P!jobs
<1>0. w \in Hands /\ w \notin Pollers /\ P!TypeOK
  BY DEF Hands, Sound
<1>1. CASE P!BeginRefresh(w)
  <2>1. [stage |-> "refresh"] \in P!Calls
    BY DEF P!Calls
  <2>2. call' \in [Hands -> P!Calls] /\ Roles'
    BY <1>0, <1>1, <2>1, GoesOnSound DEF P!BeginRefresh
  <2> QED BY <1>0, <1>1, <2>2, BeginsTyped DEF P!BeginRefresh, Sound, P!TypeOK, AttemptsLeft, Hands
<1>2. CASE P!Refresh(w)
  <2>1. [stage |-> "enter", views |-> views] \in P!Calls
    BY <1>0 DEF P!Calls, P!TypeOK
  <2>2. call' \in [Hands -> P!Calls] /\ Roles'
    BY <1>0, <1>2, <2>1, GoesOnSound DEF P!Refresh
  <2> QED BY <1>2, <2>2 DEF P!Refresh, Sound, P!TypeOK, AttemptsLeft, Hands
<1>3. ASSUME NEW v \in P!Counts, P!BeginManual(w, v) PROVE Sound'
  <2>1. [stage |-> "enter", views |-> v] \in P!Calls
    BY DEF P!Calls
  <2>2. call' \in [Hands -> P!Calls] /\ Roles'
    BY <1>0, <1>3, <2>1, GoesOnSound DEF P!BeginManual
  <2> QED BY <1>0, <1>3, <2>2, BeginsTyped DEF P!BeginManual, Sound, P!TypeOK, AttemptsLeft, Hands
<1>4. CASE P!Enter(w)
  <2>1. call' \in [Hands -> P!Calls] /\ Roles'
    BY <1>0, <1>4, IdleTyped, GoesOnSound DEF P!Enter
  <2>2. latest' \in P!Counts /\ repeated' \in BOOLEAN
    BY <1>0, <1>4, PollKinds DEF P!Enter, P!Keep, Entering
  <2> QED BY <1>4, <2>1, <2>2 DEF P!Enter, Sound, P!TypeOK, AttemptsLeft, Hands
<1> QED BY <1>1, <1>2, <1>3, <1>4 DEF P!Enters

LEMMA SoundCorrect ==
  ASSUME P!PollingConstants
  PROVE  P!Spec => []Sound
<1>1. P!Init => Sound
  <2> SUFFICES ASSUME P!Init PROVE Sound
    OBVIOUS
  <2>1. P!TypeOK
    <3>1. call \in [Pollers \cup Staff -> P!Calls]
      BY IdleTyped DEF P!Init
    <3>2. job \in [P!Cycles -> P!Jobs] /\ tries \in [P!Cycles -> 0..P!Attempts]
      BY DEF P!Init, P!Jobs, P!Attempts
    <3>3. errors \in 0..MaxErrors /\ views \in P!Counts /\ peak \in P!Counts /\ latest \in P!Counts
      BY DEF P!Init, P!Counts
    <3> QED BY <3>1, <3>2, <3>3 DEF P!Init, P!TypeOK, P!Statuses, P!Campaigns, P!Cycles
  <2> QED BY <2>1, IdleTyped DEF P!Init, Sound, Roles, AttemptsLeft
<1>2. Sound /\ [P!Next]_P!vars => Sound'
  <2> SUFFICES ASSUME Sound, [P!Next]_P!vars PROVE Sound'
    OBVIOUS
  <2> USE DEF P!clip, P!snapshots, P!jobs
  <2>1. CASE P!Watched
    BY <2>1 DEF P!Watched, Sound, P!TypeOK, Roles, AttemptsLeft, P!Counts
  <2>2. CASE P!NextCycle
    <3>1. 1 - cycle \in P!Cycles
      BY DEF Sound, P!TypeOK, P!Cycles
    <3>2. AttemptsLeft'
      BY <2>2, <3>1 DEF P!NextCycle, Sound, P!TypeOK, AttemptsLeft
    <3>3. P!TypeOK'
      BY <2>2, <3>1 DEF P!NextCycle, Sound, P!TypeOK, P!Jobs, P!Attempts
    <3> QED BY <2>2, <3>2, <3>3 DEF P!NextCycle, Sound, Roles
  <2>3. CASE P!Dispatch
    <3>1. AttemptsLeft'
      BY <2>3 DEF P!Dispatch, Sound, P!TypeOK, AttemptsLeft, P!Attempts
    <3>2. P!TypeOK'
      BY <2>3 DEF P!Dispatch, Sound, P!TypeOK, P!Jobs
    <3> QED BY <2>3, <3>1, <3>2 DEF P!Dispatch, Sound, Roles
  <2>4. CASE P!Moderate
    BY <2>4 DEF P!Moderate, Sound, P!TypeOK, Roles, AttemptsLeft, P!Statuses
  <2>5. CASE P!SetCampaign
    BY <2>5 DEF P!SetCampaign, Sound, P!TypeOK, Roles, AttemptsLeft, P!Campaigns
  <2>6. CASE \E w \in Pollers : (\E c \in P!Cycles : P!TakeJob(w, c)) \/ P!Work(w) \/ P!Failure(w)
    BY <2>6, TakeJobSound, WorkSound, FailureSound
  <2>7. CASE \E w \in Staff : P!Enters(w)
    BY <2>7, EntersSound
  <2>8. CASE UNCHANGED P!vars
    BY <2>8 DEF P!vars, Sound, P!TypeOK, Roles, AttemptsLeft
  <2> QED BY <2>1, <2>2, <2>3, <2>4, <2>5, <2>6, <2>7, <2>8 DEF P!Next
<1> QED BY <1>1, <1>2, PTL DEF P!Spec

\* Every reachable state is well typed: a job, however often it fails or is
\* handed out again, never starts more often than its attempts.
THEOREM PollingTyped == P!Spec => []P!TypeOK
<1>1. Sound => P!TypeOK
  BY DEF Sound
<1> QED BY <1>1, SoundCorrect, PollingConstants, PTL

(***************************************************************************)
(* Only what the platform counted earns                                    *)
(***************************************************************************)

\* A worker that lets go of its job carries nothing.
LEMMA LetsGoMeasured ==
  ASSUME P!PollingConstants,
         Sound, Measured, NEW w \in Pollers, P!Become(w, P!Idle), UNCHANGED <<views, peak>>,
         covered' <= peak
  PROVE  Measured'
<1>1. /\ call'[w] = P!Idle
      /\ \A v \in Hands \ {w} : call'[v] = call[v]
  BY HandTyped, IdleTyped DEF Sound, Hands
<1> QED BY <1>1, IdleTyped DEF Measured, Hands, Counted

\* A worker that goes on carries what it carried, or what the platform has counted.
LEMMA CarriesMeasured ==
  ASSUME P!PollingConstants,
         Sound, Measured, NEW w \in Pollers, NEW c \in P!Calls, P!Become(w, c),
         UNCHANGED <<views, peak, covered>>, c.stage \in Counted => c.views <= peak
  PROVE  Measured'
<1>1. /\ call'[w] = c
      /\ \A v \in Hands \ {w} : call'[v] = call[v]
  BY HandTyped DEF Sound, Hands
<1> QED BY <1>1 DEF Measured, Hands

LEMMA WorkMeasured ==
  ASSUME P!PollingConstants,
         Sound, Measured, NEW w \in Pollers, P!Work(w)
  PROVE  Measured'
<1> USE DEF P!clip, P!snapshots, P!jobs
<1>0. w \in Hands /\ P!TypeOK /\ views <= peak /\ covered <= peak
  BY DEF Hands, Sound, Measured
<1>1. CASE P!Measure(w)
  <2>1. CASE P!HasMetricsChanged(call[w].seen, views)
    <3>1. [stage |-> "insert", cycle |-> call[w].cycle, views |-> views] \in P!Calls
      BY <1>0, <1>1, PollKinds DEF P!Measure, Measuring, P!TypeOK, P!Calls
    <3> QED BY <1>0, <1>1, <2>1, <3>1, CarriesMeasured DEF P!Measure, P!TypeOK, P!Counts
  <2>2. CASE ~P!HasMetricsChanged(call[w].seen, views)
    BY <1>0, <1>1, <2>2, LetsGoMeasured DEF P!Measure, P!Returns
  <2> QED BY <2>1, <2>2
<1>2. ASSUME call[w].stage \in Counted, NEW s \in Counted,
             P!Become(w, [call[w] EXCEPT !.stage = s]), UNCHANGED <<views, peak, covered>>
      PROVE  Measured'
  <2>1. call[w] \in Carrying /\ call[w].views <= peak
    BY <1>0, <1>2, PollKinds DEF Measured
  <2>2. [call[w] EXCEPT !.stage = s] \in P!Calls /\ [call[w] EXCEPT !.stage = s].views <= peak
    BY <2>1 DEF Carrying, P!Calls, Counted
  <2> QED BY <1>2, <2>2, CarriesMeasured
<1>3. CASE P!Insert(w)
  BY <1>3, <1>2 DEF P!Insert, Counted
<1>4. CASE P!Judge(w)
  <2>1. PICK s \in {"flag", "credit"} : P!Become(w, [call[w] EXCEPT !.stage = s])
    BY <1>4 DEF P!Judge
  <2> QED BY <1>4, <2>1, <1>2 DEF P!Judge, Counted
<1>5. CASE P!Flag(w)
  BY <1>0, <1>5, LetsGoMeasured DEF P!Flag, P!Throws
<1>6. CASE P!BeginCredit(w)
  <2>1. CASE clipStatus = "APPROVED"
    BY <1>6, <2>1, <1>2 DEF P!BeginCredit, Counted
  <2>2. CASE clipStatus # "APPROVED"
    BY <1>0, <1>6, <2>2, LetsGoMeasured DEF P!BeginCredit, P!Returns
  <2> QED BY <2>1, <2>2
<1>7. CASE P!CommitCredit(w)
  <2>1. call[w].views \in P!Counts /\ call[w].views <= peak
    BY <1>0, <1>7, PollKinds DEF P!CommitCredit, Counted, Carrying, Measured
  <2>2. covered' <= peak
    BY <1>0, <1>7, <2>1 DEF P!CommitCredit, P!Covered
  <2> QED BY <1>7, <2>2, LetsGoMeasured DEF P!CommitCredit, P!Returns
<1> QED BY <1>1, <1>3, <1>4, <1>5, <1>6, <1>7 DEF P!Work

LEMMA FailureMeasured ==
  ASSUME P!PollingConstants,
         Sound, Measured, NEW w \in Pollers, P!Failure(w)
  PROVE  Measured'
<1>1. P!Become(w, P!Idle) /\ UNCHANGED <<views, peak, covered>>
  BY DEF P!Failure, P!ProviderFails, P!CreditFails, P!QueryFails, P!Crash, P!Returns, P!Throws, P!clip
<1> QED BY <1>1, LetsGoMeasured DEF Measured

\* What staff enter is in the hands of staff, which no credit reads.
LEMMA EntersMeasured ==
  ASSUME P!PollingConstants,
         Sound, Measured, NEW w \in Staff, P!Enters(w)
  PROVE  Measured'
<1>1. UNCHANGED <<views, peak, covered>>
  BY DEF P!Enters, P!BeginRefresh, P!Refresh, P!BeginManual, P!Enter, P!clip
<1>2. \A v \in Pollers : call'[v] = call[v]
  BY DEF P!Enters, P!BeginRefresh, P!Refresh, P!BeginManual, P!Enter, P!Become, Sound, P!TypeOK
<1> QED BY <1>1, <1>2 DEF Measured

\* No view is paid that the platform did not count, whatever staff enter as the
\* latest counts of the clip, and whenever a job that has counted before goes
\* on to credit: the views of a credit come with the job (creditNewEligibleViews
\* of the worker's own snapshot), never from the latest row.
THEOREM MeasuredEarns == P!Spec => []OnlyMeasuredEarns
<1> USE PollingConstants
<1>1. P!Init => Measured
  BY IdleTyped DEF P!Init, Measured, P!Counts, Counted
<1>2. Sound /\ Measured /\ [P!Next]_P!vars => Measured'
  <2> SUFFICES ASSUME Sound, Measured, [P!Next]_P!vars PROVE Measured'
    OBVIOUS
  <2>0. \A w \in Pollers : call[w].stage \in Counted => call[w].views \in P!Counts
    BY PollKinds DEF Sound, Hands, Carrying
  <2>1. CASE P!Watched
    BY <2>0, <2>1 DEF P!Watched, Measured, Sound, P!TypeOK, P!Counts
  <2>2. CASE P!NextCycle \/ P!Dispatch \/ P!Moderate \/ P!SetCampaign \/ UNCHANGED P!vars
    BY <2>2 DEF P!NextCycle, P!Dispatch, P!Moderate, P!SetCampaign, P!vars, P!clip, Measured
  <2>3. CASE \E w \in Pollers : (\E c \in P!Cycles : P!TakeJob(w, c)) \/ P!Work(w) \/ P!Failure(w)
    <3>1. ASSUME NEW w \in Pollers, NEW c \in P!Cycles, P!TakeJob(w, c) PROVE Measured'
      <4>1. CASE P!Pollable
        <5>1. [stage |-> "measure", cycle |-> c, seen |-> latest] \in P!Calls
          BY DEF Sound, P!TypeOK, P!Calls
        <5> QED BY <3>1, <4>1, <5>1, CarriesMeasured DEF P!TakeJob, Counted, P!clip
      <4>2. CASE ~P!Pollable
        BY <3>1, <4>2 DEF P!TakeJob, Measured, P!clip
      <4> QED BY <4>1, <4>2
    <3> QED BY <2>3, <3>1, WorkMeasured, FailureMeasured
  <2>4. CASE \E w \in Staff : P!Enters(w)
    BY <2>4, EntersMeasured
  <2> QED BY <2>1, <2>2, <2>3, <2>4 DEF P!Next
<1>3. Measured => OnlyMeasuredEarns
  BY DEF Measured, OnlyMeasuredEarns, P!OnlyMeasuredEarns
<1> QED BY <1>1, <1>2, <1>3, SoundCorrect, PTL DEF P!Spec

(***************************************************************************)
(* No snapshot twice                                                       *)
(***************************************************************************)

Untroubled == met \cap {"overlap", "refresh", "manual"} = {}

\* Trouble is never forgotten, and failures are none of these.
LEMMA QuietBefore ==
  ASSUME P!PollingConstants,
         Sound, [P!Next]_P!vars, Untroubled'
  PROVE  Untroubled
<1>1. met \subseteq met'
  BY DEF P!Next, P!Watched, P!NextCycle, P!Dispatch, P!Moderate, P!SetCampaign, P!TakeJob, P!Work, P!Measure,
         P!Insert, P!Judge, P!Flag, P!BeginCredit, P!CommitCredit, P!Failure, P!ProviderFails, P!CreditFails,
         P!QueryFails, P!Crash, P!Fails, P!Enters, P!BeginRefresh, P!Refresh, P!BeginManual, P!Enter, P!Begins, P!vars
<1> QED BY <1>1 DEF Untroubled

\* A call that ends, or goes on without a snapshot, leaves the clip to whoever
\* comes next.
LEMMA AloneGoesOn ==
  ASSUME P!PollingConstants,
         Sound, Alone, NEW w \in Pollers, call[w] # P!Idle, NEW c \in P!Calls, P!Become(w, c),
         c.stage # "measure", c.stage = "insert" => c.views # latest',
         ~repeated'
  PROVE  Alone'
<1>1. /\ call'[w] = c
      /\ \A v \in Hands \ {w} : call'[v] = call[v] /\ call'[v] = P!Idle
  BY HandTyped DEF Sound, Hands, Alone
<1>2. w \in Hands /\ w \notin Staff
  BY DEF Hands
<1> QED BY <1>1, <1>2, IdleTyped DEF Alone, Hands

LEMMA WorkAlone ==
  ASSUME P!PollingConstants,
         Sound, Alone, NEW w \in Pollers, P!Work(w)
  PROVE  Alone'
<1> USE DEF P!clip, P!snapshots, P!jobs
<1>0. w \in Hands /\ P!TypeOK /\ call[w] # P!Idle
  BY IdleTyped DEF Hands, Sound, P!Work, P!Measure, P!Insert, P!Judge, P!Flag, P!BeginCredit, P!CommitCredit
<1>1. CASE P!Measure(w)
  <2>1. CASE P!HasMetricsChanged(call[w].seen, views)
    <3>1. [stage |-> "insert", cycle |-> call[w].cycle, views |-> views] \in P!Calls
      BY <1>0, <1>1, PollKinds DEF P!Measure, Measuring, P!TypeOK, P!Calls
    <3>2. views # latest
      BY <1>1, <2>1 DEF P!Measure, P!HasMetricsChanged, Alone
    <3> QED BY <1>0, <1>1, <2>1, <3>1, <3>2, AloneGoesOn DEF P!Measure, Alone
  <2>2. CASE ~P!HasMetricsChanged(call[w].seen, views)
    BY <1>0, <1>1, <2>2, AloneGoesOn, IdleTyped DEF P!Measure, P!Returns, Alone
  <2> QED BY <2>1, <2>2
<1>2. ASSUME call[w].stage \in Counted, NEW s \in Counted \ {"insert"},
             P!Become(w, [call[w] EXCEPT !.stage = s]), ~repeated'
      PROVE  Alone'
  <2>1. call[w] \in Carrying
    BY <1>0, <1>2, PollKinds
  <2>2. [call[w] EXCEPT !.stage = s] \in P!Calls /\ [call[w] EXCEPT !.stage = s].stage = s
    BY <2>1 DEF Carrying, P!Calls, Counted
  <2> QED BY <1>0, <1>2, <2>2, AloneGoesOn DEF Counted
<1>3. CASE P!Insert(w)
  <2>1. ~repeated'
    BY <1>3 DEF P!Insert, P!Keep, Alone
  <2> QED BY <1>3, <2>1, <1>2 DEF P!Insert, Counted
<1>4. CASE P!Judge(w)
  <2>1. PICK s \in {"flag", "credit"} : P!Become(w, [call[w] EXCEPT !.stage = s])
    BY <1>4 DEF P!Judge
  <2> QED BY <1>4, <2>1, <1>2 DEF P!Judge, Counted, Alone
<1>5. CASE P!Flag(w)
  BY <1>0, <1>5, AloneGoesOn, IdleTyped DEF P!Flag, P!Throws, Alone
<1>6. CASE P!BeginCredit(w)
  <2>1. CASE clipStatus = "APPROVED"
    BY <1>6, <2>1, <1>2 DEF P!BeginCredit, Counted, Alone
  <2>2. CASE clipStatus # "APPROVED"
    BY <1>0, <1>6, <2>2, AloneGoesOn, IdleTyped DEF P!BeginCredit, P!Returns, Alone
  <2> QED BY <2>1, <2>2
<1>7. CASE P!CommitCredit(w)
  BY <1>0, <1>7, AloneGoesOn, IdleTyped DEF P!CommitCredit, P!Returns, Alone
<1> QED BY <1>1, <1>3, <1>4, <1>5, <1>6, <1>7 DEF P!Work

LEMMA FailureAlone ==
  ASSUME P!PollingConstants,
         Sound, Alone, NEW w \in Pollers, P!Failure(w)
  PROVE  Alone'
<1>1. P!Become(w, P!Idle) /\ UNCHANGED repeated
  BY DEF P!Failure, P!ProviderFails, P!CreditFails, P!QueryFails, P!Crash, P!Returns, P!Throws, P!snapshots
<1>2. call[w] # P!Idle
  BY IdleTyped DEF P!Failure, P!ProviderFails, P!CreditFails, P!QueryFails, P!Crash
<1> QED BY <1>1, <1>2, AloneGoesOn, IdleTyped DEF Alone

\* A job that is taken alone reads the latest snapshot, and nobody keeps
\* another one before it is done.
LEMMA TakeJobAlone ==
  ASSUME P!PollingConstants,
         Sound, Alone, NEW w \in Pollers, NEW c \in P!Cycles, P!TakeJob(w, c), Untroubled'
  PROVE  Alone'
<1>1. \A v \in Hands : call[v] = P!Idle
  BY DEF P!TakeJob, P!Begins, Untroubled, Hands
<1>2. CASE P!Pollable
  <2>1. [stage |-> "measure", cycle |-> c, seen |-> latest] \in P!Calls
    BY DEF Sound, P!TypeOK, P!Calls
  <2>2. /\ call'[w] = [stage |-> "measure", cycle |-> c, seen |-> latest]
        /\ \A v \in Hands \ {w} : call'[v] = P!Idle
    BY <1>1, <1>2, <2>1, HandTyped DEF P!TakeJob, Sound, Hands
  <2> QED BY <2>2, IdleTyped DEF P!TakeJob, Alone, Hands, P!snapshots
<1>3. CASE ~P!Pollable
  BY <1>3 DEF P!TakeJob, Alone, P!snapshots
<1> QED BY <1>2, <1>3

\* Staff at work are trouble or overlap with somebody.
LEMMA EntersDisturb ==
  ASSUME P!PollingConstants,
         Sound, Alone, NEW w \in Staff, P!Enters(w)
  PROVE  ~Untroubled'
<1>1. call[w] = P!Idle
  BY DEF Alone
<1> QED BY <1>1, IdleTyped DEF P!Enters, P!BeginRefresh, P!Refresh, P!BeginManual, P!Enter, P!Begins, Untroubled

\* Jobs that do not overlap keep no snapshot twice, however they fail, crash
\* and are tried again, unless staff enter counts: hasMetricsChanged compares
\* with the row the job has read, and that is still the latest at the insert.
THEOREM NoneRepeated == P!Spec => []NoRepeatedSnapshot
<1> USE PollingConstants
<1>1. P!Init => Undisturbed
  BY IdleTyped DEF P!Init, Undisturbed, Alone, Hands
<1>2. Sound /\ Undisturbed /\ [P!Next]_P!vars => Undisturbed'
  <2> SUFFICES ASSUME Sound, Undisturbed, [P!Next]_P!vars, Untroubled' PROVE Alone'
    BY DEF Undisturbed, Untroubled
  <2>0. Alone
    BY QuietBefore DEF Undisturbed, Untroubled
  <2>1. CASE P!Watched \/ P!NextCycle \/ P!Dispatch \/ P!Moderate \/ P!SetCampaign \/ UNCHANGED P!vars
    BY <2>0, <2>1
       DEF P!Watched, P!NextCycle, P!Dispatch, P!Moderate, P!SetCampaign, P!vars, P!snapshots, Alone
  <2>2. CASE \E w \in Pollers : (\E c \in P!Cycles : P!TakeJob(w, c)) \/ P!Work(w) \/ P!Failure(w)
    BY <2>0, <2>2, TakeJobAlone, WorkAlone, FailureAlone
  <2>3. CASE \E w \in Staff : P!Enters(w)
    BY <2>0, <2>3, EntersDisturb
  <2> QED BY <2>1, <2>2, <2>3 DEF P!Next
<1>3. Undisturbed => NoRepeatedSnapshot
  BY DEF Undisturbed, Alone, NoRepeatedSnapshot, P!NoRepeatedSnapshot
<1> QED BY <1>1, <1>2, <1>3, SoundCorrect, PTL DEF P!Spec

=============================================================================
