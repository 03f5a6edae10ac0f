------------------------------ MODULE Payouts ------------------------------
(***************************************************************************)
(* Payout requests and disbursements (payout.service.js over               *)
(* payout.repository.js).  Every service call is one interactive           *)
(* PostgreSQL transaction at READ COMMITTED: it may take an advisory lock, *)
(* reads, validates what it read, and writes rows by id when it commits.   *)
(* A worker is one such call in flight; between its steps the other        *)
(* workers, staff and the earnings ledger move.  An uncommitted write is   *)
(* invisible and a second writer of the row waits for the first to commit, *)
(* so the writes and the commit are one step.                              *)
(***************************************************************************)
EXTENDS PayoutStatus, Integers, Sequences, FiniteSets, Functions

CONSTANTS
  Users, NoUser,  \* creators; the owner of a request that has no row
  PayoutIds,      \* request ids
  Workers,        \* service calls that can be in flight together
  Amounts,        \* amounts that are requested, credited and deducted
  MinPayout,      \* the minimum payout that applies
  Suspendable,    \* users whose account gets suspended and reinstated
  MaxEarned,      \* bound on what a creator earns
  MaxDeducted,    \* bound on what is deducted from a creator
  MaxAttempts     \* bound on the disbursements of one request

ASSUME PayoutConstants ==
  /\ NoUser \notin Users
  /\ Amounts \subseteq Nat \ {0}
  /\ Suspendable \subseteq Users
  /\ {MinPayout, MaxEarned, MaxDeducted, MaxAttempts} \subseteq Nat

VARIABLES
  active,         \* is the user ACTIVE?
  earned,         \* sum of the user's ELIGIBLE earnings
  deducted,       \* sum of the user's (negative) financial adjustments
  status, owner, amount,  \* the payout_requests rows
  evidence,       \* status of the recording attached to the request
  disbursements,  \* per request, the statuses of its attempts, oldest first
  events,         \* per request, the number of PayoutEvents of each type
  tx,             \* per worker, the transaction in flight
  alone           \* history: no two transactions have overlapped so far

ledger == <<active, earned, deducted>>
rows   == <<status, owner, amount, events>>
vars   == <<ledger, rows, evidence, disbursements, tx, alone>>

-----------------------------------------------------------------------------
EvidenceStatuses == {"NONE", "PENDING_REVIEW", "ACCEPTED", "REJECTED"}
AttemptStatuses  == {"PROCESSING", "COMPLETED", "FAILED"}
CreateStages     == {"adjustments", "reserved", "completed", "insert"}

Idle == [op |-> "idle"]

\* funds is what was earned less what was deducted; reserved and completed
\* are the requests the two sums over payout_requests have counted.
CreateTx == [op : {"create"}, stage : CreateStages, user : Users,
             amount : Amounts, funds : Int,
             reserved : SUBSET PayoutIds, completed : SUBSET PayoutIds]
MoveTx   == [op : {"move"}, payout : PayoutIds, to : EventTypes, attempt : Nat]

RowsOK ==
  /\ active \in [Users -> BOOLEAN]
  /\ earned \in [Users -> Nat]
  /\ deducted \in [Users -> Nat]
  /\ status \in [PayoutIds -> Statuses]
  /\ owner \in [PayoutIds -> Users \cup {NoUser}]
  /\ amount \in [PayoutIds -> Amounts \cup {0}]
  /\ evidence \in [PayoutIds -> EvidenceStatuses]
  /\ disbursements \in [PayoutIds -> Seq(AttemptStatuses)]
  /\ events \in [PayoutIds -> [EventTypes -> Nat]]
  /\ tx \in [Workers -> {Idle} \cup CreateTx \cup MoveTx]

TypeOK == RowsOK /\ alone \in BOOLEAN

Init ==
  /\ active = [u \in Users |-> TRUE]
  /\ earned = [u \in Users |-> 0]
  /\ deducted = [u \in Users |-> 0]
  /\ status = [p \in PayoutIds |-> "NONE"]
  /\ owner = [p \in PayoutIds |-> NoUser]
  /\ amount = [p \in PayoutIds |-> 0]
  /\ evidence = [p \in PayoutIds |-> "NONE"]
  /\ disbursements = [p \in PayoutIds |-> <<>>]
  /\ events = [p \in PayoutIds |-> [t \in EventTypes |-> 0]]
  /\ tx = [w \in Workers |-> Idle]
  /\ alone = TRUE

-----------------------------------------------------------------------------
(* Locks and aggregates                                                    *)

BugUserUnlocked(u) == TRUE

\* No transaction holds the advisory lock payout_balance_<user>.
UserUnlocked(u) == \A w \in Workers : tx[w].op = "create" => tx[w].user # u

BugDisburseUnlocked(p) == TRUE

\* No transaction holds the advisory lock payout_disburse_<payout>.
DisburseUnlocked(p) ==
  \A w \in Workers :
    tx[w].op = "move" /\ tx[w].to = "PROCESSING" => tx[w].payout # p

\* The user's requests in one of the statuses, and what requests add up to.
Requests(u, statuses) == {p \in PayoutIds : owner[p] = u /\ status[p] \in statuses}
Total(requests) == SumFunctionOnSet(amount, requests)

BugBalanceReads == <<{"COMPLETED"}, Reserving>>

\* The statuses the balance query sums up, in the order of its statements.
BalanceReads == <<Reserving, {"COMPLETED"}>>

Available(funds) == IF funds < 0 THEN 0 ELSE funds

\* A transaction begins: it is alone if none is in flight.
NoteOverlap == alone' = (alone /\ \A v \in Workers : tx[v] = Idle)

InCreate(w, stage) == tx[w].op = "create" /\ tx[w].stage = stage

-----------------------------------------------------------------------------
(* createPayoutRequest: the balance is read by four statements, one after  *)
(* the other, each of which sees what is committed when it runs.           *)

BeginCreate(w, u, a) ==
  /\ tx[w] = Idle
  /\ UserUnlocked(u)
  /\ active[u]
  /\ tx' = [tx EXCEPT ![w] = [op |-> "create", stage |-> "adjustments",
                              user |-> u, amount |-> a, funds |-> earned[u],
                              reserved |-> {}, completed |-> {}]]
  /\ NoteOverlap
  /\ UNCHANGED <<ledger, rows, evidence, disbursements>>

ReadAdjustments(w) ==
  /\ InCreate(w, "adjustments")
  /\ tx' = [tx EXCEPT ![w].stage = "reserved", ![w].funds = @ - deducted[tx[w].user]]
  /\ UNCHANGED <<ledger, rows, evidence, disbursements, alone>>

ReadReserved(w) ==
  /\ InCreate(w, "reserved")
  /\ tx' = [tx EXCEPT ![w].stage = "completed",
                      ![w].reserved = Requests(tx[w].user, BalanceReads[1])]
  /\ UNCHANGED <<ledger, rows, evidence, disbursements, alone>>

\* The last statement, and the checks that the whole balance decides.
ReadCompleted(w) ==
  /\ InCreate(w, "completed")
  /\ LET completed == Requests(tx[w].user, BalanceReads[2])
         left == tx[w].funds - Total(tx[w].reserved) - Total(completed) IN
     tx' = [tx EXCEPT ![w] =
              IF tx[w].amount >= MinPayout /\ tx[w].amount <= Available(left)
              THEN [tx[w] EXCEPT !.stage = "insert", !.completed = completed]
              ELSE Idle]
  /\ UNCHANGED <<ledger, rows, evidence, disbursements, alone>>

\* Request row, evidence row and event become visible together.
CommitCreate(w, p) ==
  /\ InCreate(w, "insert")
  /\ status[p] = "NONE"
  /\ status' = [status EXCEPT ![p] = "REQUESTED"]
  /\ owner' = [owner EXCEPT ![p] = tx[w].user]
  /\ amount' = [amount EXCEPT ![p] = tx[w].amount]
  /\ events' = [events EXCEPT ![p]["REQUESTED"] = @ + 1]
  /\ evidence' = [evidence EXCEPT ![p] = "PENDING_REVIEW"]
  /\ tx' = [tx EXCEPT ![w] = Idle]
  /\ UNCHANGED <<ledger, disbursements, alone>>

-----------------------------------------------------------------------------
(* The lifecycle operations: read the request, validate the transition     *)
(* from the status read, update the row by id.                             *)

BugValidated(p, to) == status[p] \notin Terminal \cup {"NONE"}
BugCancelValidated(p, to) == CanMove(status[p], to) \/ (to = "CANCELLED" /\ status[p] = "PROCESSING")

Validated(p, to) == CanMove(status[p], to)

\* attempt is the disbursement the operation will settle, 0 if it settles none.
BeginMove(w, p, to, attempt) ==
  /\ tx[w] = Idle
  /\ Validated(p, to)
  /\ tx' = [tx EXCEPT ![w] = [op |-> "move", payout |-> p, to |-> to,
                              attempt |-> attempt]]
  /\ NoteOverlap
  /\ UNCHANGED <<ledger, rows, evidence, disbursements>>

BeginReview(w, p)   == BeginMove(w, p, "UNDER_REVIEW", 0)
BeginApprove(w, p)  == BeginMove(w, p, "APPROVED", 0)
BeginReject(w, p)   == BeginMove(w, p, "REJECTED", 0)
BeginCancel(w, p)   == BeginMove(w, p, "CANCELLED", 0)  \* called by the owner
BeginComplete(w, p) == BeginMove(w, p, "COMPLETED", Len(disbursements[p]))
BeginFail(w, p)     == BeginMove(w, p, "FAILED", Len(disbursements[p]))

\* processDisbursement: under the disbursement lock, and past the gate.
BeginProcess(w, p) ==
  /\ Len(disbursements[p]) < MaxAttempts
  /\ DisburseUnlocked(p)
  /\ evidence[p] = "ACCEPTED"
  /\ BeginMove(w, p, "PROCESSING", 0)

\* w's transaction to status to writes the row and the event.
Commit(w, to) ==
  LET p == tx[w].payout IN
  /\ tx[w].op = "move" /\ tx[w].to = to
  /\ status' = [status EXCEPT ![p] = to]
  /\ events' = [events EXCEPT ![p][to] = @ + 1]
  /\ tx' = [tx EXCEPT ![w] = Idle]
  /\ UNCHANGED <<ledger, owner, amount, evidence, alone>>

CommitReview(w)  == Commit(w, "UNDER_REVIEW") /\ UNCHANGED disbursements
CommitApprove(w) == Commit(w, "APPROVED")     /\ UNCHANGED disbursements
CommitReject(w)  == Commit(w, "REJECTED")     /\ UNCHANGED disbursements
CommitCancel(w)  == Commit(w, "CANCELLED")    /\ UNCHANGED disbursements

CommitProcess(w) ==
  /\ Commit(w, "PROCESSING")
  /\ disbursements' = [disbursements EXCEPT ![tx[w].payout] = Append(@, "PROCESSING")]

BugSettle(w, s) ==
  disbursements' = [disbursements EXCEPT ![tx[w].payout] =
                      IF 1 \in DOMAIN @ THEN [@ EXCEPT ![1] = s] ELSE @]

\* The attempt that was the newest when w read the request gets status s.
Settle(w, s) ==
  disbursements' = [disbursements EXCEPT ![tx[w].payout] =
                      IF tx[w].attempt \in DOMAIN @ THEN [@ EXCEPT ![tx[w].attempt] = s] ELSE @]

BugCommitComplete(w) == Commit(w, "COMPLETED") /\ UNCHANGED disbursements

CommitComplete(w) == Commit(w, "COMPLETED") /\ Settle(w, "COMPLETED")

BugCommitFail(w) == Commit(w, "FAILED") /\ Settle(w, "CANCELLED")

CommitFail(w) == Commit(w, "FAILED") /\ Settle(w, "FAILED")

\* An error, the transaction timeout or a crash: everything is rolled back.
Abort(w) ==
  /\ tx[w] # Idle
  /\ tx' = [tx EXCEPT ![w] = Idle]
  /\ UNCHANGED <<ledger, rows, evidence, disbursements, alone>>

-----------------------------------------------------------------------------
(* The rest of the system, as payouts see it                               *)

\* acceptEvidence / rejectEvidence check that the record exists, no more.
ReviewEvidence(p, decision) ==
  /\ evidence[p] # "NONE"
  /\ evidence' = [evidence EXCEPT ![p] = decision]
  /\ UNCHANGED <<ledger, rows, disbursements, tx, alone>>

AcceptEvidence(p) == ReviewEvidence(p, "ACCEPTED")
RejectEvidence(p) == ReviewEvidence(p, "REJECTED")

Credit(u, a) ==
  /\ earned[u] + a <= MaxEarned
  /\ earned' = [earned EXCEPT ![u] = @ + a]
  /\ UNCHANGED <<active, deducted, rows, evidence, disbursements, tx, alone>>

Deduct(u, a) ==
  /\ deducted[u] + a <= MaxDeducted
  /\ deducted' = [deducted EXCEPT ![u] = @ + a]
  /\ UNCHANGED <<active, earned, rows, evidence, disbursements, tx, alone>>

SetActive(u, b) ==
  /\ active[u] # b
  /\ active' = [active EXCEPT ![u] = b]
  /\ UNCHANGED <<earned, deducted, rows, evidence, disbursements, tx, alone>>

Create(w) ==
  \/ \E u \in Users, a \in Amounts : BeginCreate(w, u, a)
  \/ ReadAdjustments(w)
  \/ ReadReserved(w)
  \/ ReadCompleted(w)
  \/ \E p \in PayoutIds : CommitCreate(w, p)

Begin(w, p) ==
  \/ BeginReview(w, p)
  \/ BeginApprove(w, p)
  \/ BeginReject(w, p)
  \/ BeginCancel(w, p)
  \/ BeginProcess(w, p)
  \/ BeginComplete(w, p)
  \/ BeginFail(w, p)

End(w) ==
  \/ CommitReview(w)
  \/ CommitApprove(w)
  \/ CommitReject(w)
  \/ CommitCancel(w)
  \/ CommitProcess(w)
  \/ CommitComplete(w)
  \/ CommitFail(w)
  \/ Abort(w)

Environment ==
  \/ \E p \in PayoutIds : AcceptEvidence(p) \/ RejectEvidence(p)
  \/ \E u \in Users, a \in Amounts : Credit(u, a) \/ Deduct(u, a)
  \/ \E u \in Suspendable, b \in BOOLEAN : SetActive(u, b)

Next ==
  \/ \E w \in Workers : Create(w) \/ End(w) \/ \E p \in PayoutIds : Begin(w, p)
  \/ Environment

Spec == Init /\ [][Next]_vars

-----------------------------------------------------------------------------
(* Properties that hold however the transactions overlap                   *)

\* A request is COMPLETED only with a disbursement that is COMPLETED, even
\* when completions, failures and retries of it overlap: the ledger never
\* counts as paid what no attempt of the request paid.
CompletedIsBacked ==
  \A p \in PayoutIds :
    status[p] = "COMPLETED" =>
      \E i \in DOMAIN disbursements[p] : disbursements[p][i] = "COMPLETED"

\* Every disbursement uses up an approval or a failure of its own: two
\* staff members who process one approved request at the same time create
\* one disbursement, not two (the lock in processDisbursement).
OneAttemptPerGreenLight ==
  \A p \in PayoutIds :
    Len(disbursements[p]) <= events[p]["APPROVED"] + events[p]["FAILED"]

\* A request that went through its lifecycle at most once, and whose
\* reservation was never released.
Orderly(p) ==
  /\ status[p] # "NONE"
  /\ \A t \in EventTypes : events[p][t] <= (IF t \in Released THEN 0 ELSE 1)

\* A creation that is about to insert its request has counted every orderly
\* request of the creator: one that completes while the balance is read is
\* counted (perhaps twice), never missed, because the reserved sum is read
\* before the completed one and the balance lock keeps other creations out.
NothingMissed ==
  \A w \in Workers : InCreate(w, "insert") =>
    \A p \in PayoutIds :
      owner[p] = tx[w].user /\ Orderly(p) => p \in tx[w].reserved \cup tx[w].completed

\* The requests of a creator that never released their reservation do not
\* add up to more than was earned, whatever overlaps their creation.
NoOvercommit ==
  \A u \in Users :
    Total({p \in PayoutIds : owner[p] = u /\ Orderly(p)}) <= earned[u]

\* Overlapping or not, each status a request enters is one that the
\* lifecycle table allows from a status the request has held: in
\* particular nothing is disbursed that was never reviewed and approved.
History == INSTANCE PayoutHistory WITH
  held <- [p \in PayoutIds |-> {t \in EventTypes : events[p][t] > 0}]
ImplementsHistory == History!Spec

-----------------------------------------------------------------------------
(* Properties that hold until two transactions overlap                     *)

\* As long as no two transactions have overlapped, the service implements
\* the lifecycle: the status of a request moves along the table only.
Lifecycle == INSTANCE PayoutLifecycle
ImplementsLifecycle == Lifecycle!Init /\ [][alone' => Lifecycle!Next]_status

\* As long as no two transactions have overlapped, the newest disbursement
\* of a request tells the same story as its status: a request leaves
\* PROCESSING exactly when that attempt is settled.
NewestAttemptAgrees ==
  alone => \A p \in PayoutIds : disbursements[p] # <<>> =>
             status[p] = disbursements[p][Len(disbursements[p])]

-----------------------------------------------------------------------------
(* Claims of the documentation                                             *)

\* README.md: "Terminal states (COMPLETED, REJECTED, CANCELLED) cannot
\* transition to any other status."
TerminalIsFinal ==
  [][\A p \in PayoutIds : status[p] \in Terminal => status'[p] = status[p]]_vars

=============================================================================
