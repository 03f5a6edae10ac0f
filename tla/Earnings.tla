------------------------------ MODULE Earnings ------------------------------
(***************************************************************************)
(* The earnings ledger of one campaign and the budget it draws on:         *)
(* creditNewEligibleViews (earnings.service.js), consumeBudget             *)
(* (campaign.repository.js), the live budget (campaign.service.js) and the *)
(* staff operations on status and budget (admin.campaign.service.js).      *)
(* Crediting is an interactive transaction under a lock per submission,    *)
(* but it consumes the budget on a connection of its own: that write is    *)
(* visible at once and stays when the transaction is rolled back.  The     *)
(* other operations read, check and later write, without a lock.           *)
(* Money is in cents.                                                      *)
(***************************************************************************)
EXTENDS Integers, Sequences, FiniteSets, Functions

CONSTANTS
  Submissions, Creators, CreatorOf,  \* the clips, and whose they are
  Workers,       \* calls that can be in flight together
  Ops,           \* the operations that are called
  Rate,          \* cents per 1000 views
  Cap,           \* what one creator may earn in the campaign
  Budgets,       \* the total budgets staff set
  Views,         \* the view counts that are captured
  MaxSnapshots,  \* bound on the snapshots of one submission
  MaxConsumed    \* bound on what the live budget writes

AllOps == {"credit", "refresh", "status", "edit"}

ASSUME EarningConstants ==
  /\ CreatorOf \in [Submissions -> Creators]
  /\ Ops \subseteq AllOps
  /\ {Rate, Cap, MaxSnapshots, MaxConsumed} \subseteq Nat
  /\ Budgets \subseteq Nat
  /\ Views \subseteq Nat

VARIABLES
  approved,   \* is the submission APPROVED, its verification COMPLETED?
  snapshots,  \* per submission, the views of its snapshots, oldest first
  counted,    \* per submission, the snapshots that produced an earning
  credited,   \* sum of eligibleViews over the submission's earnings
  earned,     \* sum of grossAmount over the creator's earnings
  paid,       \* sum of grossAmount over all earnings of the campaign
  total, consumed, status,  \* the campaigns row
  tx,         \* per worker, the call in flight
  alone       \* history: no two calls have overlapped so far

ledger   == <<counted, credited, earned, paid>>
campaign == <<total, consumed, status>>
vars     == <<approved, snapshots, ledger, campaign, tx, alone>>

-----------------------------------------------------------------------------
CampaignStatuses == {"ACTIVE", "PAUSED", "ENDED", "COMPLETED", "ARCHIVED"}
CreditStages     == {"weigh", "consume", "complete", "commit"}

\* Statuses staff may set: COMPLETED is left to the system.
Settable == {"ACTIVE", "PAUSED", "ENDED", "ARCHIVED"}

StatusMoves ==
  [ACTIVE    |-> {"PAUSED", "ENDED", "COMPLETED"},
   PAUSED    |-> {"ACTIVE", "ENDED"},
   COMPLETED |-> {"ARCHIVED"},
   ENDED     |-> {"ARCHIVED"},
   ARCHIVED  |-> {}]

Idle == [op |-> "idle"]

\* left is the budget that was left when the campaign was read.
CreditTx  == [op : {"credit"}, stage : CreditStages, submission : Submissions,
              snapshot : Nat, views : Nat, left : Int, amount : Nat]
RefreshTx == [op : {"refresh"}, live : Nat]
StatusTx  == [op : {"status"}, to : Settable]
EditTx    == [op : {"edit"}, total : Budgets]

RowsOK ==
  /\ approved \in [Submissions -> BOOLEAN]
  /\ snapshots \in [Submissions -> Seq(Views)]
  /\ counted \in [Submissions -> SUBSET Nat]
  /\ credited \in [Submissions -> Nat]
  /\ earned \in [Creators -> Nat]
  /\ paid \in Nat
  /\ total \in Budgets
  /\ consumed \in Nat
  /\ status \in CampaignStatuses
  /\ tx \in [Workers -> {Idle} \cup CreditTx \cup RefreshTx \cup StatusTx \cup EditTx]

TypeOK == RowsOK /\ alone \in BOOLEAN

\* The campaign has just been activated.
Init ==
  /\ approved = [s \in Submissions |-> FALSE]
  /\ snapshots = [s \in Submissions |-> <<>>]
  /\ counted = [s \in Submissions |-> {}]
  /\ credited = [s \in Submissions |-> 0]
  /\ earned = [c \in Creators |-> 0]
  /\ paid = 0
  /\ total \in Budgets
  /\ consumed = 0
  /\ status = "ACTIVE"
  /\ tx = [w \in Workers |-> Idle]
  /\ alone = TRUE

-----------------------------------------------------------------------------
\* calculateGrossAmount: to the cent, half a cent up.
Gross(views) == (views * Rate + 500) \div 1000

Least(a, b) == IF a <= b THEN a ELSE b

BugCapped(raw, left, creatorLeft) == Least(raw, left)

\* applyBudgetCaps; a result that is not positive means no credit.
Capped(raw, left, creatorLeft) == Least(raw, Least(left, creatorLeft))

BugSubmissionUnlocked(s) == TRUE

\* No transaction holds the advisory lock submission_earnings_<submission>.
SubmissionUnlocked(s) ==
  \A w \in Workers : tx[w].op = "credit" => tx[w].submission # s

\* A call begins: it is alone if none is in flight.
NoteOverlap == alone' = (alone /\ \A v \in Workers : tx[v] = Idle)

InCredit(w, stage) == tx[w].op = "credit" /\ tx[w].stage = stage

\* The latest views of a submission; none captured counts as none.
Latest(s) == IF snapshots[s] = <<>> THEN 0 ELSE snapshots[s][Len(snapshots[s])]

-----------------------------------------------------------------------------
(* creditNewEligibleViews                                                  *)

\* Submission, campaign, snapshot i and what was credited before are read
\* under the lock.  Without new views the call returns and changes nothing.
BeginCredit(w, s, i) ==
  /\ "credit" \in Ops
  /\ tx[w] = Idle
  /\ SubmissionUnlocked(s)
  /\ approved[s]
  /\ i \in DOMAIN snapshots[s] \ counted[s]
  /\ snapshots[s][i] > credited[s]
  /\ tx' = [tx EXCEPT ![w] = [op |-> "credit", stage |-> "weigh", submission |-> s,
                              snapshot |-> i, views |-> snapshots[s][i] - credited[s],
                              left |-> total - consumed, amount |-> 0]]
  /\ NoteOverlap
  /\ UNCHANGED <<approved, snapshots, ledger, campaign>>

BugWeighCredit(w) ==
  /\ InCredit(w, "weigh")
  /\ LET amount == Capped(Gross(tx[w].views), tx[w].left,
                          Cap - earned[CreatorOf[tx[w].submission]]) IN
     tx' = [tx EXCEPT ![w] = IF amount # 0
                             THEN [tx[w] EXCEPT !.stage = "consume", !.amount = amount]
                             ELSE Idle]
  /\ UNCHANGED <<approved, snapshots, ledger, campaign, alone>>

\* getCreatorCampaignTotal and the caps; the earning that is inserted next
\* cannot be seen before the commit.
WeighCredit(w) ==
  /\ InCredit(w, "weigh")
  /\ LET amount == Capped(Gross(tx[w].views), tx[w].left,
                          Cap - earned[CreatorOf[tx[w].submission]]) IN
     tx' = [tx EXCEPT ![w] = IF amount > 0
                             THEN [tx[w] EXCEPT !.stage = "consume", !.amount = amount]
                             ELSE Idle]
  /\ UNCHANGED <<approved, snapshots, ledger, campaign, alone>>

\* The first statement of consumeBudget: an atomic increment.
ConsumeBudget(w) ==
  /\ InCredit(w, "consume")
  /\ consumed' = consumed + tx[w].amount
  /\ tx' = [tx EXCEPT ![w].stage =
              IF total - consumed' <= 0 /\ status = "ACTIVE" THEN "complete" ELSE "commit"]
  /\ UNCHANGED <<approved, snapshots, ledger, total, status, alone>>

\* Its second statement: the budget was exhausted.
CompleteCampaign(w) ==
  /\ InCredit(w, "complete")
  /\ status' = "COMPLETED"
  /\ tx' = [tx EXCEPT ![w].stage = "commit"]
  /\ UNCHANGED <<approved, snapshots, ledger, total, consumed, alone>>

\* The earning becomes visible.
CommitCredit(w) ==
  LET s == tx[w].submission IN
  /\ InCredit(w, "commit")
  /\ counted' = [counted EXCEPT ![s] = @ \cup {tx[w].snapshot}]
  /\ credited' = [credited EXCEPT ![s] = @ + tx[w].views]
  /\ earned' = [earned EXCEPT ![CreatorOf[s]] = @ + tx[w].amount]
  /\ paid' = paid + tx[w].amount
  /\ tx' = [tx EXCEPT ![w] = Idle]
  /\ UNCHANGED <<approved, snapshots, campaign, alone>>

-----------------------------------------------------------------------------
(* The other writers of the campaigns row                                  *)

BugBeginRefresh(w) ==
  /\ "refresh" \in Ops
  /\ tx[w] = Idle
  /\ \E live \in 0 .. MaxConsumed :
       /\ live = Gross(SumFunctionOnSet([s \in Submissions |-> Latest(s)],
                                        {s \in Submissions : approved[s]}))
       /\ tx' = [tx EXCEPT ![w] = [op |-> "refresh", live |-> live]]
  /\ NoteOverlap
  /\ UNCHANGED <<approved, snapshots, ledger, campaign>>

\* getCampaignLiveBudget: what the latest snapshots are worth is about to
\* replace a consumedBudget that is lower.
BeginRefresh(w) ==
  /\ "refresh" \in Ops
  /\ tx[w] = Idle
  /\ \E live \in consumed + 1 .. MaxConsumed :
       /\ live = Gross(SumFunctionOnSet([s \in Submissions |-> Latest(s)],
                                        {s \in Submissions : approved[s]}))
       /\ tx' = [tx EXCEPT ![w] = [op |-> "refresh", live |-> live]]
  /\ NoteOverlap
  /\ UNCHANGED <<approved, snapshots, ledger, campaign>>

EndRefresh(w) ==
  /\ tx[w].op = "refresh"
  /\ consumed' = tx[w].live
  /\ tx' = [tx EXCEPT ![w] = Idle]
  /\ UNCHANGED <<approved, snapshots, ledger, total, status, alone>>

\* setCampaignStatus: a move to the same status is allowed.
BeginSetStatus(w, to) ==
  /\ "status" \in Ops
  /\ tx[w] = Idle
  /\ to \in StatusMoves[status] \cup {status}
  /\ tx' = [tx EXCEPT ![w] = [op |-> "status", to |-> to]]
  /\ NoteOverlap
  /\ UNCHANGED <<approved, snapshots, ledger, campaign>>

EndSetStatus(w) ==
  /\ tx[w].op = "status"
  /\ status' = tx[w].to
  /\ tx' = [tx EXCEPT ![w] = Idle]
  /\ UNCHANGED <<approved, snapshots, ledger, total, consumed, alone>>

BugBeginEdit(w, b) ==
  /\ "edit" \in Ops
  /\ tx[w] = Idle
  /\ tx' = [tx EXCEPT ![w] = [op |-> "edit", total |-> b]]
  /\ NoteOverlap
  /\ UNCHANGED <<approved, snapshots, ledger, campaign>>

\* editCampaign: the budget may not go below what is consumed.
BeginEdit(w, b) ==
  /\ "edit" \in Ops
  /\ tx[w] = Idle
  /\ b >= consumed
  /\ tx' = [tx EXCEPT ![w] = [op |-> "edit", total |-> b]]
  /\ NoteOverlap
  /\ UNCHANGED <<approved, snapshots, ledger, campaign>>

EndEdit(w) ==
  /\ tx[w].op = "edit"
  /\ total' = tx[w].total
  /\ tx' = [tx EXCEPT ![w] = Idle]
  /\ UNCHANGED <<approved, snapshots, ledger, consumed, status, alone>>

\* An error, the transaction timeout or a crash: the transaction is rolled
\* back, what consumeBudget wrote stays.
Abort(w) ==
  /\ tx[w] # Idle
  /\ tx' = [tx EXCEPT ![w] = Idle]
  /\ UNCHANGED <<approved, snapshots, ledger, campaign, alone>>

-----------------------------------------------------------------------------
(* Verification and moderation, as the ledger sees them                    *)

\* A snapshot is stored when the views changed.
Capture(s, v) ==
  /\ Len(snapshots[s]) < MaxSnapshots
  /\ snapshots[s] = <<>> \/ v # Latest(s)
  /\ snapshots' = [snapshots EXCEPT ![s] = Append(@, v)]
  /\ UNCHANGED <<approved, ledger, campaign, tx, alone>>

Review(s, decision) ==
  /\ approved' = [approved EXCEPT ![s] = decision]
  /\ UNCHANGED <<snapshots, ledger, campaign, tx, alone>>

Credit(w) ==
  \/ \E s \in Submissions, i \in 1..MaxSnapshots : BeginCredit(w, s, i)
  \/ WeighCredit(w)
  \/ ConsumeBudget(w)
  \/ CompleteCampaign(w)
  \/ CommitCredit(w)

UpdateCampaign(w) ==
  \/ BeginRefresh(w)
  \/ EndRefresh(w)
  \/ \E to \in Settable : BeginSetStatus(w, to)
  \/ EndSetStatus(w)
  \/ \E b \in Budgets : BeginEdit(w, b)
  \/ EndEdit(w)

Environment ==
  \E s \in Submissions :
    \/ \E v \in Views : Capture(s, v)
    \/ \E decision \in BOOLEAN : Review(s, decision)

Next ==
  \/ \E w \in Workers : Credit(w) \/ UpdateCampaign(w) \/ Abort(w)
  \/ Environment

Spec == Init /\ [][Next]_vars

-----------------------------------------------------------------------------
(* Properties that hold however the calls overlap                          *)

\* The views credited for a submission are the highest count among the
\* snapshots that produced an earning: no view is credited twice, however
\* many workers credit snapshots of it and in whatever order they arrive.
HighWaterMark ==
  \A s \in Submissions :
    /\ \A i \in counted[s] : snapshots[s][i] <= credited[s]
    /\ credited[s] # 0 => \E i \in counted[s] : snapshots[s][i] = credited[s]

-----------------------------------------------------------------------------
(* Properties that hold until two calls overlap                            *)

\* As long as no two calls have overlapped the ledger stays within the
\* budget, whatever staff edit, credits roll back and the live budget
\* writes.
PaidWithinBudget == alone => paid <= total

\* As long as no two calls have overlapped, what the ledger has paid is
\* consumed: the increment comes before the commit and the live budget only
\* raises it, so a credit that is rolled back leaves too little budget,
\* never too much.
LedgerCovered == alone => paid <= consumed

\* As long as no two calls have overlapped no creator earns more than the
\* campaign's cap for one creator.
EarnedWithinCap == alone => \A c \in Creators : earned[c] <= Cap

-----------------------------------------------------------------------------
(* Claims of comments and tests                                            *)

\* financial_invariants.test.js: "consumedBudget must never exceed
\* totalBudget".
ConsumedWithinBudget == consumed <= total

=============================================================================
