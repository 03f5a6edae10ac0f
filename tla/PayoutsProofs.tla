--------------------------- MODULE PayoutsProofs ---------------------------
(***************************************************************************)
(* Proofs about Payouts, for every set of users, requests and workers.     *)
(***************************************************************************)
EXTENDS Payouts, Sums, SequenceTheorems, TLAPS

\* A transaction is what its op says it is.
LEMMA TxKinds ==
  ASSUME RowsOK, NEW w \in Workers
  PROVE  /\ tx[w].op = "create" => tx[w] \in CreateTx
         /\ tx[w].op = "move" => tx[w] \in MoveTx
  BY DEF RowsOK, Idle, CreateTx, MoveTx

\* Replacing one worker's transaction by a well-typed one is well typed.
LEMMA TxTyped ==
  ASSUME RowsOK, NEW w \in Workers, NEW t \in {Idle} \cup CreateTx \cup MoveTx,
         tx' = [tx EXCEPT ![w] = t]
  PROVE  tx' \in [Workers -> {Idle} \cup CreateTx \cup MoveTx]
  BY DEF RowsOK

(***************************************************************************)
(* Type correctness                                                        *)
(***************************************************************************)

LEMMA CreateTyped ==
  ASSUME RowsOK, NEW w \in Workers, Create(w)
  PROVE  RowsOK'
<1> USE PayoutConstants
<1>1. ASSUME NEW u \in Users, NEW a \in Amounts, BeginCreate(w, u, a) PROVE RowsOK'
  <2> DEFINE t == [op |-> "create", stage |-> "adjustments", user |-> u, amount |-> a,
                   funds |-> earned[u], reserved |-> {}, completed |-> {}]
  <2>1. t \in CreateTx
    BY DEF RowsOK, CreateTx, CreateStages
  <2>2. tx' \in [Workers -> {Idle} \cup CreateTx \cup MoveTx]
    BY <1>1, <2>1, TxTyped DEF BeginCreate
  <2> QED BY <1>1, <2>2 DEF BeginCreate, RowsOK, ledger, rows
<1>2. CASE ReadAdjustments(w)
  <2> DEFINE t == [tx[w] EXCEPT !.stage = "reserved", !.funds = @ - deducted[tx[w].user]]
  <2>1. tx[w] \in CreateTx
    BY <1>2, TxKinds DEF ReadAdjustments, InCreate
  <2>a. tx[w].funds - deducted[tx[w].user] \in Int
    BY <2>1 DEF RowsOK, CreateTx
  <2>2. t \in CreateTx
    BY <2>1, <2>a DEF CreateTx, CreateStages
  <2>3. tx' = [tx EXCEPT ![w] = t]
    BY <1>2, <2>1 DEF ReadAdjustments, RowsOK, CreateTx
  <2>4. tx' \in [Workers -> {Idle} \cup CreateTx \cup MoveTx]
    BY <2>2, <2>3, TxTyped
  <2> QED BY <1>2, <2>4 DEF ReadAdjustments, RowsOK, ledger, rows
<1>3. CASE ReadReserved(w)
  <2> DEFINE t == [tx[w] EXCEPT !.stage = "completed",
                                !.reserved = Requests(tx[w].user, BalanceReads[1])]
  <2>1. tx[w] \in CreateTx
    BY <1>3, TxKinds DEF ReadReserved, InCreate
  <2>2. t \in CreateTx
    BY <2>1 DEF RowsOK, CreateTx, CreateStages, Requests
  <2>3. tx' = [tx EXCEPT ![w] = t]
    BY <1>3, <2>1 DEF ReadReserved, RowsOK, CreateTx
  <2>4. tx' \in [Workers -> {Idle} \cup CreateTx \cup MoveTx]
    BY <2>2, <2>3, TxTyped
  <2> QED BY <1>3, <2>4 DEF ReadReserved, RowsOK, ledger, rows
<1>4. CASE ReadCompleted(w)
  <2> DEFINE t == [tx[w] EXCEPT !.stage = "insert",
                                !.completed = Requests(tx[w].user, BalanceReads[2])]
  <2>1. tx[w] \in CreateTx
    BY <1>4, TxKinds DEF ReadCompleted, InCreate
  <2>2. t \in CreateTx
    BY <2>1 DEF RowsOK, CreateTx, CreateStages, Requests
  <2>3. \E r \in {t, Idle} : tx' = [tx EXCEPT ![w] = r]
    BY <1>4 DEF ReadCompleted
  <2>4. tx' \in [Workers -> {Idle} \cup CreateTx \cup MoveTx]
    BY <2>2, <2>3, TxTyped
  <2> QED BY <1>4, <2>4 DEF ReadCompleted, RowsOK, ledger, rows
<1>5. ASSUME NEW p \in PayoutIds, CommitCreate(w, p) PROVE RowsOK'
  <2>1. tx[w] \in CreateTx
    BY <1>5, TxKinds DEF CommitCreate, InCreate
  <2>2. tx' \in [Workers -> {Idle} \cup CreateTx \cup MoveTx]
    BY <1>5, TxTyped DEF CommitCreate
  <2>3. /\ status' \in [PayoutIds -> Statuses]
        /\ owner' \in [PayoutIds -> Users \cup {NoUser}]
        /\ amount' \in [PayoutIds -> Amounts \cup {0}]
        /\ evidence' \in [PayoutIds -> EvidenceStatuses]
    BY <1>5, <2>1 DEF CommitCreate, RowsOK, CreateTx, Statuses, EventTypes, EvidenceStatuses
  <2>a. "REQUESTED" \in EventTypes
    BY DEF EventTypes
  <2>4. events' \in [PayoutIds -> [EventTypes -> Nat]]
    BY <1>5, <2>a DEF CommitCreate, RowsOK
  <2> QED BY <1>5, <2>2, <2>3, <2>4 DEF CommitCreate, RowsOK, ledger
<1> QED BY <1>1, <1>2, <1>3, <1>4, <1>5 DEF Create

\* What the first half of a lifecycle operation has read.
LEMMA BeginReads ==
  ASSUME RowsOK, NEW w \in Workers, NEW p \in PayoutIds, Begin(w, p)
  PROVE  \E to \in EventTypes, n \in Nat :
           /\ BeginMove(w, p, to, n)
           /\ to \in {"COMPLETED", "FAILED"} => n = Len(disbursements[p])
           /\ to = "PROCESSING" => DisburseUnlocked(p)
<1>1. Len(disbursements[p]) \in Nat
  BY DEF RowsOK
<1>2. CASE BeginProcess(w, p)
  BY <1>2 DEF BeginProcess, EventTypes
<1>3. CASE BeginComplete(w, p) \/ BeginFail(w, p)
  BY <1>1, <1>3 DEF BeginComplete, BeginFail, EventTypes
<1>4. CASE BeginReview(w, p) \/ BeginApprove(w, p) \/ BeginReject(w, p) \/ BeginCancel(w, p)
  BY <1>4 DEF BeginReview, BeginApprove, BeginReject, BeginCancel, EventTypes
<1> QED BY <1>2, <1>3, <1>4 DEF Begin

LEMMA BeginTyped ==
  ASSUME RowsOK, NEW w \in Workers, NEW p \in PayoutIds, Begin(w, p)
  PROVE  RowsOK'
<1>1. \E to \in EventTypes, n \in Nat : BeginMove(w, p, to, n)
  BY BeginReads
<1>2. PICK to \in EventTypes, n \in Nat : BeginMove(w, p, to, n)
  BY <1>1
<1>3. [op |-> "move", payout |-> p, to |-> to, attempt |-> n] \in MoveTx
  BY DEF MoveTx
<1>4. tx' \in [Workers -> {Idle} \cup CreateTx \cup MoveTx]
  BY <1>2, <1>3, TxTyped DEF BeginMove
<1> QED BY <1>2, <1>4 DEF BeginMove, RowsOK, ledger, rows

\* What a commit of w to status to leaves behind is well typed.
LEMMA CommitTyped ==
  ASSUME RowsOK, NEW w \in Workers, NEW to \in EventTypes, Commit(w, to)
  PROVE  /\ tx[w].payout \in PayoutIds
         /\ tx[w].attempt \in Nat
         /\ status' \in [PayoutIds -> Statuses]
         /\ events' \in [PayoutIds -> [EventTypes -> Nat]]
         /\ tx' \in [Workers -> {Idle} \cup CreateTx \cup MoveTx]
         /\ UNCHANGED <<ledger, owner, amount, evidence>>
<1>1. tx[w] \in MoveTx
  BY TxKinds DEF Commit
<1>2. tx' \in [Workers -> {Idle} \cup CreateTx \cup MoveTx]
  BY TxTyped DEF Commit
<1>3. tx[w].payout \in PayoutIds /\ tx[w].attempt \in Nat
  BY <1>1 DEF MoveTx
<1>4. status' \in [PayoutIds -> Statuses]
  BY <1>3 DEF Commit, RowsOK, Statuses
<1>5. events' \in [PayoutIds -> [EventTypes -> Nat]]
  BY <1>3 DEF Commit, RowsOK
<1> QED BY <1>2, <1>3, <1>4, <1>5 DEF Commit

LEMMA SettleTyped ==
  ASSUME RowsOK, NEW w \in Workers, NEW s \in AttemptStatuses, tx[w].payout \in PayoutIds,
         Settle(w, s)
  PROVE  disbursements' \in [PayoutIds -> Seq(AttemptStatuses)]
<1> DEFINE d == disbursements[tx[w].payout]
<1>1. d \in Seq(AttemptStatuses)
  BY DEF RowsOK
<1>2. ASSUME tx[w].attempt \in DOMAIN d
      PROVE  [d EXCEPT ![tx[w].attempt] = s] \in Seq(AttemptStatuses)
  <2>1. tx[w].attempt \in 1..Len(d)
    BY <1>1, <1>2
  <2> QED BY <1>1, <2>1, ExceptSeq
<1> QED BY <1>1, <1>2 DEF Settle, RowsOK

LEMMA EndTyped ==
  ASSUME RowsOK, NEW w \in Workers, End(w)
  PROVE  RowsOK'
<1>1. ASSUME NEW to \in EventTypes, Commit(w, to), UNCHANGED disbursements
      PROVE  RowsOK'
  BY <1>1, CommitTyped DEF RowsOK, ledger
<1>2. CASE CommitProcess(w)
  <2>1. Commit(w, "PROCESSING") /\ "PROCESSING" \in EventTypes
    BY <1>2 DEF CommitProcess, EventTypes
  <2>2. tx[w].payout \in PayoutIds
    BY <2>1, CommitTyped
  <2>3. disbursements' \in [PayoutIds -> Seq(AttemptStatuses)]
    BY <1>2, <2>2 DEF CommitProcess, RowsOK, AttemptStatuses
  <2> QED BY <2>1, <2>3, CommitTyped DEF RowsOK, ledger
<1>3. ASSUME NEW s \in {"COMPLETED", "FAILED"}, Commit(w, s), Settle(w, s)
      PROVE  RowsOK'
  <2>1. s \in EventTypes /\ s \in AttemptStatuses
    BY DEF EventTypes, AttemptStatuses
  <2>2. disbursements' \in [PayoutIds -> Seq(AttemptStatuses)]
    BY <1>3, <2>1, CommitTyped, SettleTyped
  <2> QED BY <1>3, <2>1, <2>2, CommitTyped DEF RowsOK, ledger
<1>4. CASE Abort(w)
  <2>1. tx' \in [Workers -> {Idle} \cup CreateTx \cup MoveTx]
    BY <1>4, TxTyped DEF Abort
  <2> QED BY <1>4, <2>1 DEF Abort, RowsOK, ledger, rows
<1> QED BY <1>1, <1>2, <1>3, <1>4
        DEF End, CommitReview, CommitApprove, CommitReject, CommitCancel,
            CommitComplete, CommitFail, EventTypes

LEMMA EnvironmentTyped ==
  ASSUME RowsOK, Environment
  PROVE  RowsOK'
<1>1. ASSUME NEW p \in PayoutIds, AcceptEvidence(p) \/ RejectEvidence(p) PROVE RowsOK'
  BY <1>1 DEF AcceptEvidence, RejectEvidence, ReviewEvidence, EvidenceStatuses, RowsOK,
              ledger, rows
<1>2. ASSUME NEW u \in Users, NEW a \in Amounts, Credit(u, a) \/ Deduct(u, a) PROVE RowsOK'
  <2>1. a \in Nat
    BY PayoutConstants
  <2>2. CASE Credit(u, a)
    BY <2>1, <2>2 DEF Credit, RowsOK, rows
  <2>3. CASE Deduct(u, a)
    BY <2>1, <2>3 DEF Deduct, RowsOK, rows
  <2> QED BY <1>2, <2>2, <2>3
<1>3. ASSUME NEW u \in Suspendable, NEW b \in BOOLEAN, SetActive(u, b) PROVE RowsOK'
  BY <1>3, PayoutConstants DEF SetActive, RowsOK, rows
<1> QED BY <1>1, <1>2, <1>3 DEF Environment

\* Every row, event and transaction keeps its type.
LEMMA RowsCorrect == Spec => []RowsOK
<1>1. Init => RowsOK
  BY DEF Init, RowsOK, Statuses, EvidenceStatuses
<1>2. RowsOK /\ [Next]_vars => RowsOK'
  <2> SUFFICES ASSUME RowsOK, [Next]_vars PROVE RowsOK'
    OBVIOUS
  <2>1. CASE UNCHANGED vars
    BY <2>1 DEF vars, ledger, rows, RowsOK
  <2>2. CASE Next
    BY <2>2, CreateTyped, BeginTyped, EndTyped, EnvironmentTyped DEF Next
  <2> QED BY <2>1, <2>2
<1> QED BY <1>1, <1>2, PTL DEF Spec

(***************************************************************************)
(* What a step can do to the rows                                          *)
(***************************************************************************)

\* Steps that leave every request as it is: at most one worker moves.
Quiet ==
  /\ UNCHANGED <<rows, disbursements>>
  /\ \/ UNCHANGED tx
     \/ \E w \in Workers :
          /\ \A v \in Workers \ {w} : tx'[v] = tx[v]
          /\ \/ tx'[w] = Idle
             \/ \E u \in Users, a \in Amounts : BeginCreate(w, u, a)
             \/ ReadAdjustments(w) \/ ReadReserved(w) \/ ReadCompleted(w)
             \/ \E p \in PayoutIds : Begin(w, p)

\* The balance query goes on with the same user, or is rolled back.
LEMMA ReadKeeps ==
  ASSUME RowsOK, NEW w \in Workers,
         ReadAdjustments(w) \/ ReadReserved(w) \/ ReadCompleted(w)
  PROVE  /\ tx[w].op = "create"
         /\ \/ tx'[w] = Idle
            \/ tx'[w].op = "create" /\ tx'[w].user = tx[w].user
         /\ tx'[w].op # "move"
         /\ \A v \in Workers \ {w} : tx'[v] = tx[v]
<1>1. CASE ReadAdjustments(w)
  <2>1. tx[w] \in CreateTx
    BY <1>1, TxKinds DEF ReadAdjustments, InCreate
  <2> QED BY <1>1, <2>1 DEF ReadAdjustments, InCreate, RowsOK, CreateTx
<1>2. CASE ReadReserved(w)
  <2>1. tx[w] \in CreateTx
    BY <1>2, TxKinds DEF ReadReserved, InCreate
  <2> QED BY <1>2, <2>1 DEF ReadReserved, InCreate, RowsOK, CreateTx
<1>3. CASE ReadCompleted(w)
  <2>1. tx[w] \in CreateTx
    BY <1>3, TxKinds DEF ReadCompleted, InCreate
  <2>2. \/ tx'[w] = Idle
        \/ \E c : tx'[w] = [tx[w] EXCEPT !.stage = "insert", !.completed = c]
    BY <1>3 DEF ReadCompleted, RowsOK
  <2> QED BY <1>3, <2>1, <2>2 DEF ReadCompleted, InCreate, RowsOK, CreateTx, Idle
<1> QED BY <1>1, <1>2, <1>3

\* What committing status to does to the disbursements.
Disburses(w, to) ==
  CASE to = "PROCESSING" -> CommitProcess(w)
    [] to \in {"COMPLETED", "FAILED"} -> Settle(w, to)
    [] OTHER -> UNCHANGED disbursements

\* A step is quiet, inserts a request, or commits a status.
LEMMA StepKinds ==
  ASSUME RowsOK, [Next]_vars
  PROVE  \/ Quiet
         \/ \E w \in Workers, p \in PayoutIds : CommitCreate(w, p)
         \/ \E w \in Workers, to \in EventTypes : Commit(w, to) /\ Disburses(w, to)
<1>1. CASE UNCHANGED vars
  BY <1>1 DEF vars, rows, Quiet
<1>2. CASE Environment
  BY <1>2 DEF Quiet, Environment, AcceptEvidence, RejectEvidence, ReviewEvidence, Credit,
              Deduct, SetActive
<1>3. ASSUME NEW w \in Workers, Create(w) PROVE
         Quiet \/ \E p \in PayoutIds : CommitCreate(w, p)
  <2>1. ASSUME NEW u \in Users, NEW a \in Amounts, BeginCreate(w, u, a) PROVE Quiet
    BY <2>1 DEF Quiet, BeginCreate, RowsOK
  <2>2. CASE ReadAdjustments(w) \/ ReadReserved(w) \/ ReadCompleted(w)
    BY <2>2 DEF Quiet, ReadAdjustments, ReadReserved, ReadCompleted, RowsOK
  <2> QED BY <1>3, <2>1, <2>2 DEF Create
<1>4. ASSUME NEW w \in Workers, NEW p \in PayoutIds, Begin(w, p) PROVE Quiet
  BY <1>4 DEF Quiet, Begin, BeginReview, BeginApprove, BeginReject, BeginCancel,
              BeginProcess, BeginComplete, BeginFail, BeginMove, RowsOK
<1>5. ASSUME NEW w \in Workers, End(w) PROVE
         Quiet \/ \E to \in EventTypes : Commit(w, to) /\ Disburses(w, to)
  <2>1. CASE Abort(w)
    BY <2>1 DEF Quiet, Abort, Idle, RowsOK
  <2> QED BY <1>5, <2>1 DEF End, CommitReview, CommitApprove, CommitReject, CommitCancel,
              CommitProcess, CommitComplete, CommitFail, EventTypes, Disburses
<1> QED BY <1>1, <1>2, <1>3, <1>4, <1>5 DEF Next

(***************************************************************************)
(* The event log: every status a request enters was allowed from a status  *)
(* it has held.                                                            *)
(***************************************************************************)

\* The transition table, read backwards.
LEMMA Table ==
  ASSUME NEW s \in Statuses, NEW to \in EventTypes, CanMove(s, to)
  PROVE  /\ s # "NONE" /\ to # "REQUESTED"
         /\ to = "UNDER_REVIEW" => s = "REQUESTED"
         /\ to = "APPROVED" => s = "UNDER_REVIEW"
         /\ to = "PROCESSING" => s \in {"APPROVED", "FAILED"}
         /\ to \in {"COMPLETED", "FAILED"} => s = "PROCESSING"
         /\ to \notin Released => s \in Reserving \cup {"FAILED"}
  BY DEF CanMove, AllowedTransitions, Statuses, EventTypes, Released, Reserving

Held(p, s) == events[p][s] > 0

\* Some status that p has held allows a move to to.
Justified(p, to) == \E s \in EventTypes : Held(p, s) /\ CanMove(s, to)

LoggedFor(p) == IF status[p] = "NONE" THEN \A t \in EventTypes : events[p][t] = 0
                                      ELSE Held(p, status[p])
Logged == \A p \in PayoutIds : LoggedFor(p)

\* Whatever is in flight is justified by the log.
InFlightJustified ==
  \A w \in Workers : tx[w].op = "move" => Justified(tx[w].payout, tx[w].to)

\* No stage of the lifecycle is in the log without the stages before it.
Chained ==
  \A p \in PayoutIds :
    /\ Held(p, "APPROVED") => Held(p, "UNDER_REVIEW")
    /\ Held(p, "PROCESSING") => Held(p, "APPROVED")
    /\ Held(p, "COMPLETED") \/ Held(p, "FAILED") => Held(p, "PROCESSING")

LogInv == Logged /\ InFlightJustified /\ Chained

\* Commits and insertions only add to the log.
LEMMA LogGrows ==
  ASSUME RowsOK, [Next]_vars, NEW p \in PayoutIds, NEW t \in EventTypes
  PROVE  events'[p][t] >= events[p][t]
<1>1. CASE Quiet
  BY <1>1 DEF Quiet, rows, RowsOK
<1>2. ASSUME NEW w \in Workers, NEW q \in PayoutIds, CommitCreate(w, q)
      PROVE  events'[p][t] >= events[p][t]
  <2>1. "REQUESTED" \in EventTypes
    BY DEF EventTypes
  <2> QED BY <1>2, <2>1 DEF CommitCreate, RowsOK
<1>3. ASSUME NEW w \in Workers, NEW to \in EventTypes, Commit(w, to)
      PROVE  events'[p][t] >= events[p][t]
  <2>1. tx[w].payout \in PayoutIds
    BY <1>3, CommitTyped
  <2> QED BY <1>3, <2>1 DEF Commit, RowsOK
<1> QED BY <1>1, <1>2, <1>3, StepKinds

\* What a commit records.
LEMMA CommitRecords ==
  ASSUME RowsOK, NEW w \in Workers, NEW to \in EventTypes, Commit(w, to)
  PROVE  /\ tx[w].payout \in PayoutIds
         /\ status'[tx[w].payout] = to
         /\ events'[tx[w].payout][to] = events[tx[w].payout][to] + 1
         /\ \A t \in EventTypes \ {to} : events'[tx[w].payout][t] = events[tx[w].payout][t]
         /\ \A q \in PayoutIds \ {tx[w].payout} :
              status'[q] = status[q] /\ events'[q] = events[q]
         /\ \A v \in Workers \ {w} : tx'[v] = tx[v]
         /\ tx'[w] = Idle
  BY CommitTyped DEF Commit, RowsOK

\* What an insertion records.
LEMMA CreateRecords ==
  ASSUME RowsOK, NEW w \in Workers, NEW p \in PayoutIds, CommitCreate(w, p)
  PROVE  /\ status[p] = "NONE" /\ status'[p] = "REQUESTED"
         /\ owner'[p] = tx[w].user
         /\ events'[p]["REQUESTED"] = events[p]["REQUESTED"] + 1
         /\ \A t \in EventTypes \ {"REQUESTED"} : events'[p][t] = events[p][t]
         /\ \A q \in PayoutIds \ {p} :
              status'[q] = status[q] /\ events'[q] = events[q] /\ owner'[q] = owner[q]
         /\ \A v \in Workers \ {w} : tx'[v] = tx[v]
         /\ tx'[w] = Idle
         /\ UNCHANGED disbursements
  BY DEF CommitCreate, RowsOK, EventTypes

LEMMA LogStep ==
  ASSUME RowsOK, LogInv, [Next]_vars, RowsOK'
  PROVE  LogInv'
<1>1. \A p \in PayoutIds, t \in EventTypes : Held(p, t) => Held(p, t)'
  BY LogGrows DEF Held, RowsOK
<1>2. CASE Quiet
  <2>1. Logged' /\ Chained'
    BY <1>2 DEF LogInv, Logged, LoggedFor, Chained, Held, Quiet, rows
  <2>2. ASSUME NEW w \in Workers, tx'[w].op = "move"
        PROVE  Justified(tx[w].payout, tx[w].to)'
    <3>1. CASE tx'[w] = tx[w]
      BY <1>2, <2>2, <3>1 DEF LogInv, InFlightJustified, Justified, Held, Quiet, rows
    <3>2. CASE \E p \in PayoutIds : Begin(w, p)
      <4>1. PICK p \in PayoutIds : Begin(w, p)
        BY <3>2
      <4>2. PICK to \in EventTypes, n \in Nat : BeginMove(w, p, to, n)
        BY <4>1, BeginReads
      <4>3. tx'[w].payout = p /\ tx'[w].to = to /\ CanMove(status[p], to)
        BY <4>2 DEF BeginMove, Validated, RowsOK
      <4>4. status[p] \in EventTypes
        BY <4>3, Table DEF RowsOK, Statuses
      <4>5. Held(p, status[p])
        BY <4>4 DEF LogInv, Logged, LoggedFor, EventTypes
      <4> QED BY <1>1, <4>3, <4>4, <4>5 DEF Justified
    <3>3. CASE tx'[w].op # "move"
      BY <2>2, <3>3
    <3>4. (\E u \in Users, a \in Amounts : BeginCreate(w, u, a)) => tx'[w].op # "move"
      BY DEF BeginCreate, RowsOK
    <3>5. ReadAdjustments(w) \/ ReadReserved(w) \/ ReadCompleted(w) => tx'[w].op # "move"
      BY ReadKeeps
    <3> QED BY <1>2, <2>2, <3>1, <3>2, <3>3, <3>4, <3>5 DEF Quiet, Idle
  <2> QED BY <2>1, <2>2 DEF LogInv, InFlightJustified
<1>3. ASSUME NEW w \in Workers, NEW p \in PayoutIds, CommitCreate(w, p) PROVE LogInv'
  <2>1. Logged'
    <3>1. ASSUME NEW q \in PayoutIds \ {p} PROVE LoggedFor(q)'
      BY <1>3, CreateRecords DEF LogInv, Logged, LoggedFor, Held
    <3>a. "REQUESTED" \in EventTypes
      BY DEF EventTypes
    <3>b. events[p]["REQUESTED"] \in Nat
      BY <3>a DEF RowsOK
    <3>2. events'[p]["REQUESTED"] > 0
      BY <1>3, <3>b, CreateRecords
    <3>3. LoggedFor(p)'
      BY <1>3, <3>2, CreateRecords DEF LoggedFor, Held
    <3> QED BY <3>1, <3>3 DEF Logged
  <2>2. Chained'
    BY <1>3, CreateRecords DEF LogInv, Chained, Held, EventTypes
  <2>3. InFlightJustified'
    <3>1. SUFFICES ASSUME NEW v \in Workers, tx'[v].op = "move"
                   PROVE  Justified(tx[v].payout, tx[v].to)'
      BY DEF InFlightJustified
    <3>2. tx'[v] = tx[v] /\ tx[v] \in MoveTx
      BY <1>3, <3>1, CreateRecords, TxKinds DEF Idle
    <3> QED BY <1>1, <3>1, <3>2 DEF LogInv, InFlightJustified, Justified, MoveTx
  <2> QED BY <2>1, <2>2, <2>3 DEF LogInv
<1>4. ASSUME NEW w \in Workers, NEW to \in EventTypes, Commit(w, to) PROVE LogInv'
  <2>0. PICK p \in PayoutIds : p = tx[w].payout
    BY <1>4, CommitRecords
  <2>1. Justified(p, to)
    BY <1>4, <2>0 DEF LogInv, InFlightJustified, Commit
  <2>2. PICK s \in EventTypes : Held(p, s) /\ CanMove(s, to)
    BY <2>1 DEF Justified
  <2>3. s \in Statuses
    BY DEF Statuses
  <2>4. Logged'
    <3>1. ASSUME NEW q \in PayoutIds \ {p} PROVE LoggedFor(q)'
      BY <1>4, <2>0, CommitRecords DEF LogInv, Logged, LoggedFor, Held
    <3>2. status'[p] = to /\ to # "NONE"
      BY <1>4, <2>0, CommitRecords DEF EventTypes
    <3>3. events'[p][to] > 0
      BY <1>4, <2>0, CommitRecords DEF RowsOK
    <3>4. LoggedFor(p)'
      BY <3>2, <3>3 DEF LoggedFor, Held
    <3> QED BY <3>1, <3>4 DEF Logged
  <2>5. Chained'
    <3>1. \A q \in PayoutIds, t \in EventTypes :
            Held(q, t)' => Held(q, t) \/ (q = p /\ t = to)
      BY <1>4, <2>0, CommitRecords DEF Held
    <3>2. {"UNDER_REVIEW", "APPROVED", "PROCESSING", "COMPLETED", "FAILED"} \subseteq EventTypes
      BY DEF EventTypes
    <3> QED BY <1>1, <2>2, <2>3, <3>1, <3>2, Table DEF LogInv, Chained
  <2>6. InFlightJustified'
    <3>1. SUFFICES ASSUME NEW v \in Workers, tx'[v].op = "move"
                   PROVE  Justified(tx[v].payout, tx[v].to)'
      BY DEF InFlightJustified
    <3>2. tx'[v] = tx[v] /\ tx[v] \in MoveTx
      BY <1>4, <3>1, CommitRecords, TxKinds DEF Idle
    <3> QED BY <1>1, <3>1, <3>2 DEF LogInv, InFlightJustified, Justified, MoveTx
  <2> QED BY <2>4, <2>5, <2>6 DEF LogInv
<1> QED BY <1>2, <1>3, <1>4, StepKinds

LEMMA LogCorrect == Spec => []LogInv
<1>1. Init => LogInv
  BY DEF Init, LogInv, Logged, LoggedFor, InFlightJustified, Chained, Held, Idle, EventTypes
<1>2. RowsOK /\ RowsOK' /\ LogInv /\ [Next]_vars => LogInv'
  BY LogStep
<1> QED BY <1>1, <1>2, RowsCorrect, PTL DEF Spec

(***************************************************************************)
(* Disbursements                                                           *)
(***************************************************************************)

\* A commit adds an attempt or settles one; it never removes any.
LEMMA CommitDisburses ==
  ASSUME RowsOK, NEW w \in Workers, NEW to \in EventTypes, Commit(w, to),
         Disburses(w, to), NEW p \in PayoutIds
  PROVE  /\ p # tx[w].payout => disbursements'[p] = disbursements[p]
         /\ p = tx[w].payout =>
              /\ to = "PROCESSING" => Len(disbursements'[p]) = Len(disbursements[p]) + 1
              /\ to # "PROCESSING" => Len(disbursements'[p]) = Len(disbursements[p])
              /\ to = "COMPLETED" /\ tx[w].attempt \in 1..Len(disbursements[p]) =>
                   disbursements'[p][tx[w].attempt] = "COMPLETED"
<1>1. tx[w].payout \in PayoutIds /\ disbursements[p] \in Seq(AttemptStatuses)
  BY CommitTyped DEF RowsOK
<1>2. CASE to = "PROCESSING"
  <2>1. disbursements' = [disbursements EXCEPT ![tx[w].payout] = Append(@, "PROCESSING")]
    BY <1>2 DEF Disburses, CommitProcess
  <2>2. Len(Append(disbursements[p], "PROCESSING")) = Len(disbursements[p]) + 1
    BY <1>1 DEF AttemptStatuses
  <2> QED BY <1>1, <1>2, <2>1, <2>2 DEF RowsOK
<1>3. CASE to \in {"COMPLETED", "FAILED"}
  <2>1. Settle(w, to)
    BY <1>3 DEF Disburses
  <2>2. p # tx[w].payout => disbursements'[p] = disbursements[p]
    BY <1>1, <2>1 DEF Settle, RowsOK
  <2>3. ASSUME p = tx[w].payout, tx[w].attempt \in DOMAIN disbursements[p]
        PROVE  /\ Len(disbursements'[p]) = Len(disbursements[p])
               /\ disbursements'[p][tx[w].attempt] = to
    <3>1. disbursements'[p] = [disbursements[p] EXCEPT ![tx[w].attempt] = to]
      BY <1>1, <2>1, <2>3 DEF Settle, RowsOK
    <3>2. to \in AttemptStatuses /\ tx[w].attempt \in 1..Len(disbursements[p])
      BY <1>1, <1>3, <2>3 DEF AttemptStatuses
    <3> QED BY <1>1, <2>3, <3>1, <3>2, ExceptSeq
  <2>4. ASSUME p = tx[w].payout, tx[w].attempt \notin DOMAIN disbursements[p]
        PROVE  disbursements'[p] = disbursements[p]
    BY <1>1, <2>1, <2>4 DEF Settle, RowsOK
  <2> QED BY <1>1, <1>3, <2>2, <2>3, <2>4
<1>4. CASE to \notin {"PROCESSING", "COMPLETED", "FAILED"}
  BY <1>4 DEF Disburses
<1> QED BY <1>2, <1>3, <1>4

\* A request in PROCESSING has an attempt, and whoever is about to complete
\* or fail a request has read one that exists.
SettlesAnAttempt ==
  /\ \A p \in PayoutIds : status[p] = "PROCESSING" => Len(disbursements[p]) > 0
  /\ \A w \in Workers : tx[w].op = "move" /\ tx[w].to \in {"COMPLETED", "FAILED"} =>
       tx[w].attempt \in 1..Len(disbursements[tx[w].payout])

BackedInv == CompletedIsBacked /\ SettlesAnAttempt

LEMMA BackedStep ==
  ASSUME RowsOK, BackedInv, [Next]_vars, RowsOK'
  PROVE  BackedInv'
<1> SUFFICES CompletedIsBacked' /\ SettlesAnAttempt'
  BY DEF BackedInv
<1>a. \A p \in PayoutIds : disbursements[p] \in Seq(AttemptStatuses)
  BY DEF RowsOK
<1>1. CASE Quiet
  <2>1. CompletedIsBacked'
    BY <1>1 DEF BackedInv, CompletedIsBacked, Quiet, rows
  <2>2. \A p \in PayoutIds : status'[p] = "PROCESSING" => Len(disbursements'[p]) > 0
    BY <1>1 DEF BackedInv, SettlesAnAttempt, Quiet, rows
  <2>3. ASSUME NEW w \in Workers, tx'[w].op = "move", tx'[w].to \in {"COMPLETED", "FAILED"}
        PROVE  tx'[w].attempt \in 1..Len(disbursements'[tx'[w].payout])
    <3>1. CASE tx'[w] = tx[w]
      BY <1>1, <2>3, <3>1 DEF BackedInv, SettlesAnAttempt, Quiet
    <3>2. ASSUME NEW p \in PayoutIds, Begin(w, p)
          PROVE  tx'[w].attempt \in 1..Len(disbursements'[tx'[w].payout])
      <4>1. PICK to \in EventTypes, n \in Nat :
              BeginMove(w, p, to, n)
              /\ (to \in {"COMPLETED", "FAILED"} => n = Len(disbursements[p]))
        BY <3>2, BeginReads
      <4>2. tx'[w].payout = p /\ tx'[w].to = to /\ tx'[w].attempt = n
            /\ CanMove(status[p], to)
        BY <4>1 DEF BeginMove, Validated, RowsOK
      <4>3. status[p] = "PROCESSING" /\ n = Len(disbursements[p])
        BY <2>3, <4>1, <4>2, Table DEF RowsOK
      <4> QED BY <1>1, <1>a, <4>2, <4>3 DEF BackedInv, SettlesAnAttempt, Quiet
    <3>3. (\E u \in Users, a \in Amounts : BeginCreate(w, u, a)) => tx'[w].op # "move"
      BY DEF BeginCreate, RowsOK
    <3>4. ReadAdjustments(w) \/ ReadReserved(w) \/ ReadCompleted(w) => tx'[w].op # "move"
      BY ReadKeeps
    <3> QED BY <1>1, <2>3, <3>1, <3>2, <3>3, <3>4 DEF Quiet, Idle
  <2> QED BY <2>1, <2>2, <2>3 DEF SettlesAnAttempt
<1>2. ASSUME NEW w \in Workers, NEW p \in PayoutIds, CommitCreate(w, p)
      PROVE  CompletedIsBacked' /\ SettlesAnAttempt'
  <2>1. CompletedIsBacked'
    BY <1>2, CreateRecords DEF BackedInv, CompletedIsBacked
  <2>2. SettlesAnAttempt'
    BY <1>2, CreateRecords DEF BackedInv, SettlesAnAttempt, Idle
  <2> QED BY <2>1, <2>2
<1>3. ASSUME NEW w \in Workers, NEW to \in EventTypes, Commit(w, to), Disburses(w, to)
      PROVE  CompletedIsBacked' /\ SettlesAnAttempt'
  <2>0. PICK q \in PayoutIds : q = tx[w].payout
    BY <1>3, CommitRecords
  <2>1. \A p \in PayoutIds :
          /\ disbursements'[p] \in Seq(AttemptStatuses)
          /\ Len(disbursements'[p]) \in Nat /\ Len(disbursements'[p]) >= Len(disbursements[p])
          /\ DOMAIN disbursements'[p] = 1..Len(disbursements'[p])
    <3>1. \A p \in PayoutIds : disbursements'[p] \in Seq(AttemptStatuses)
      BY DEF RowsOK
    <3> QED BY <1>3, <1>a, <2>0, <3>1, CommitDisburses
  <2>2. to = "COMPLETED" => \E i \in DOMAIN disbursements'[q] : disbursements'[q][i] = "COMPLETED"
    <3> SUFFICES ASSUME to = "COMPLETED"
                 PROVE  \E i \in DOMAIN disbursements'[q] : disbursements'[q][i] = "COMPLETED"
      OBVIOUS
    <3>1. tx[w].attempt \in 1..Len(disbursements[q])
      BY <1>3, <2>0 DEF BackedInv, SettlesAnAttempt, Commit
    <3>2. disbursements'[q][tx[w].attempt] = "COMPLETED"
      BY <1>3, <2>0, <3>1, CommitDisburses
    <3>3. tx[w].attempt \in DOMAIN disbursements'[q]
      BY <1>3, <1>a, <2>0, <2>1, <3>1
    <3> QED BY <3>2, <3>3
  <2>3. CompletedIsBacked'
    BY <1>3, <2>0, <2>2, CommitRecords, CommitDisburses DEF BackedInv, CompletedIsBacked
  <2>4. \A p \in PayoutIds : status'[p] = "PROCESSING" => Len(disbursements'[p]) > 0
    BY <1>3, <1>a, <2>0, <2>1, CommitRecords, CommitDisburses DEF BackedInv, SettlesAnAttempt
  <2>5. ASSUME NEW v \in Workers, tx'[v].op = "move", tx'[v].to \in {"COMPLETED", "FAILED"}
        PROVE  tx'[v].attempt \in 1..Len(disbursements'[tx'[v].payout])
    <3>1. tx'[v] = tx[v] /\ tx[v] \in MoveTx
      BY <1>3, <2>5, CommitRecords, TxKinds DEF Idle
    <3>2. tx[v].payout \in PayoutIds /\ tx[v].attempt \in 1..Len(disbursements[tx[v].payout])
      BY <2>5, <3>1 DEF BackedInv, SettlesAnAttempt, MoveTx
    <3> QED BY <1>a, <2>1, <3>1, <3>2
  <2> QED BY <2>3, <2>4, <2>5 DEF SettlesAnAttempt
<1> QED BY <1>1, <1>2, <1>3, StepKinds

\* A request is COMPLETED only with a disbursement that is COMPLETED.
THEOREM CompletedBacked == Spec => []CompletedIsBacked
<1>1. Init => BackedInv
  BY DEF Init, BackedInv, CompletedIsBacked, SettlesAnAttempt, Idle
<1>2. RowsOK /\ RowsOK' /\ BackedInv /\ [Next]_vars => BackedInv'
  BY BackedStep
<1>3. BackedInv => CompletedIsBacked
  BY DEF BackedInv
<1> QED BY <1>1, <1>2, <1>3, RowsCorrect, PTL DEF Spec

\* w is disbursing p: it holds the advisory lock payout_disburse_<p>.
Disbursing(w, p) == tx[w].op = "move" /\ tx[w].to = "PROCESSING" /\ tx[w].payout = p

OneDisburser ==
  \A v, w \in Workers, p \in PayoutIds : Disbursing(v, p) /\ Disbursing(w, p) => v = w

\* p has an approval or a failure that no disbursement has used up.
GreenLight(p) == Len(disbursements[p]) < events[p]["APPROVED"] + events[p]["FAILED"]

\* Whoever may start a disbursement, or has started one, has a green light.
GreenInv ==
  /\ OneAttemptPerGreenLight
  /\ OneDisburser
  /\ \A p \in PayoutIds : status[p] \in {"APPROVED", "FAILED"} => GreenLight(p)
  /\ \A w \in Workers, p \in PayoutIds : Disbursing(w, p) => GreenLight(p)

\* A step that leaves the rows alone disburses only what the lock is free for.
LEMMA QuietDisbursing ==
  ASSUME RowsOK, Quiet, NEW w \in Workers, NEW p \in PayoutIds, Disbursing(w, p)'
  PROVE  \/ Disbursing(w, p)
         \/ /\ DisburseUnlocked(p)
            /\ status[p] \in {"APPROVED", "FAILED"}
            /\ \A v \in Workers \ {w} : tx'[v] = tx[v]
<1>1. CASE tx'[w] = tx[w]
  BY <1>1 DEF Disbursing
<1>2. ASSUME NEW q \in PayoutIds, Begin(w, q), \A v \in Workers \ {w} : tx'[v] = tx[v]
      PROVE  /\ DisburseUnlocked(p)
             /\ status[p] \in {"APPROVED", "FAILED"}
             /\ \A v \in Workers \ {w} : tx'[v] = tx[v]
  <2>1. PICK to \in EventTypes, n \in Nat :
          BeginMove(w, q, to, n) /\ (to = "PROCESSING" => DisburseUnlocked(q))
    BY <1>2, BeginReads
  <2>2. tx'[w].payout = q /\ tx'[w].to = to /\ CanMove(status[q], to)
    BY <2>1 DEF BeginMove, Validated, RowsOK
  <2>3. p = q /\ to = "PROCESSING"
    BY <2>2 DEF Disbursing
  <2>4. status[p] \in {"APPROVED", "FAILED"}
    BY <2>2, <2>3, Table DEF RowsOK
  <2> QED BY <1>2, <2>1, <2>3, <2>4
<1>3. (\E u \in Users, a \in Amounts : BeginCreate(w, u, a)) => tx'[w].op # "move"
  BY DEF BeginCreate, RowsOK
<1>4. ReadAdjustments(w) \/ ReadReserved(w) \/ ReadCompleted(w) => tx'[w].op # "move"
  BY ReadKeeps
<1>5. tx'[w].op = "move"
  BY DEF Disbursing
<1> QED BY <1>1, <1>2, <1>3, <1>4, <1>5 DEF Quiet, Idle

LEMMA GreenStep ==
  ASSUME RowsOK, GreenInv, [Next]_vars, RowsOK'
  PROVE  GreenInv'
<1>a. {"APPROVED", "FAILED", "REQUESTED", "PROCESSING"} \subseteq EventTypes
  BY DEF EventTypes
<1>b. \A p \in PayoutIds :
        /\ Len(disbursements[p]) \in Nat /\ Len(disbursements'[p]) \in Nat
        /\ events[p]["APPROVED"] \in Nat /\ events'[p]["APPROVED"] \in Nat
        /\ events[p]["FAILED"] \in Nat /\ events'[p]["FAILED"] \in Nat
  <2>1. \A p \in PayoutIds : /\ disbursements[p] \in Seq(AttemptStatuses)
                             /\ disbursements'[p] \in Seq(AttemptStatuses)
    BY DEF RowsOK
  <2> QED BY <1>a, <2>1 DEF RowsOK
<1>1. CASE Quiet
  <2>1. \A p \in PayoutIds : GreenLight(p) => GreenLight(p)'
    BY <1>1 DEF GreenLight, Quiet, rows
  <2>2. OneAttemptPerGreenLight'
    BY <1>1 DEF GreenInv, OneAttemptPerGreenLight, Quiet, rows
  <2>3. OneDisburser'
    <3> SUFFICES ASSUME NEW v \in Workers, NEW w \in Workers, NEW p \in PayoutIds,
                        Disbursing(v, p)', Disbursing(w, p)', v # w
                 PROVE  FALSE
      BY DEF OneDisburser
    <3>1. ~(Disbursing(v, p) /\ Disbursing(w, p))
      BY DEF GreenInv, OneDisburser
    <3>2. Disbursing(v, p) \/ (DisburseUnlocked(p) /\ tx'[w] = tx[w])
      BY <1>1, QuietDisbursing
    <3>3. Disbursing(w, p) \/ (DisburseUnlocked(p) /\ tx'[v] = tx[v])
      BY <1>1, QuietDisbursing
    <3>4. DisburseUnlocked(p) => ~Disbursing(v, p) /\ ~Disbursing(w, p)
      BY DEF DisburseUnlocked, Disbursing
    <3> QED BY <3>1, <3>2, <3>3, <3>4 DEF Disbursing
  <2>4. \A p \in PayoutIds : (status[p] \in {"APPROVED", "FAILED"})' => GreenLight(p)'
    BY <1>1, <2>1 DEF GreenInv, Quiet, rows
  <2>5. \A w \in Workers, p \in PayoutIds : Disbursing(w, p)' => GreenLight(p)'
    BY <1>1, <2>1, QuietDisbursing DEF GreenInv
  <2> QED BY <2>2, <2>3, <2>4, <2>5 DEF GreenInv
<1>2. ASSUME NEW w \in Workers, NEW q \in PayoutIds, CommitCreate(w, q) PROVE GreenInv'
  <2>1. \A p \in PayoutIds :
          /\ disbursements'[p] = disbursements[p]
          /\ events'[p]["APPROVED"] = events[p]["APPROVED"]
          /\ events'[p]["FAILED"] = events[p]["FAILED"]
    BY <1>2, <1>a, CreateRecords
  <2>2. \A v \in Workers, p \in PayoutIds : Disbursing(v, p)' => Disbursing(v, p)
    BY <1>2, CreateRecords DEF Disbursing, Idle
  <2>3. OneAttemptPerGreenLight' /\ OneDisburser'
    BY <2>1, <2>2 DEF GreenInv, OneAttemptPerGreenLight, OneDisburser
  <2>4. \A p \in PayoutIds : (status[p] \in {"APPROVED", "FAILED"})' => GreenLight(p)'
    BY <1>2, <2>1, CreateRecords DEF GreenInv, GreenLight
  <2>5. \A v \in Workers, p \in PayoutIds : Disbursing(v, p)' => GreenLight(p)'
    BY <2>1, <2>2 DEF GreenInv, GreenLight
  <2> QED BY <2>3, <2>4, <2>5 DEF GreenInv
<1>3. ASSUME NEW w \in Workers, NEW to \in EventTypes, Commit(w, to), Disburses(w, to)
      PROVE  GreenInv'
  <2>0. PICK q \in PayoutIds : q = tx[w].payout
    BY <1>3, CommitRecords
  <2>1. \A p \in PayoutIds \ {q} :
          /\ disbursements'[p] = disbursements[p] /\ status'[p] = status[p]
          /\ GreenLight(p) => GreenLight(p)'
    BY <1>3, <2>0, CommitRecords, CommitDisburses DEF GreenLight
  <2>2. \A v \in Workers, p \in PayoutIds :
          Disbursing(v, p)' => v # w /\ Disbursing(v, p)
    BY <1>3, CommitRecords DEF Disbursing, Idle
  <2>3. OneDisburser'
    BY <2>2 DEF GreenInv, OneDisburser
  <2>4. CASE to = "PROCESSING"
    <3>1. Disbursing(w, q)
      BY <1>3, <2>0, <2>4 DEF Disbursing, Commit
    <3>2. GreenLight(q) /\ \A v \in Workers : ~Disbursing(v, q)'
      BY <2>2, <3>1 DEF GreenInv, OneDisburser
    <3>3. /\ Len(disbursements'[q]) = Len(disbursements[q]) + 1
          /\ status'[q] = "PROCESSING"
          /\ events'[q]["APPROVED"] = events[q]["APPROVED"]
          /\ events'[q]["FAILED"] = events[q]["FAILED"]
      BY <1>3, <1>a, <2>0, <2>4, CommitRecords, CommitDisburses
    <3>4. OneAttemptPerGreenLight'
      <4>1. Len(disbursements'[q]) <= events'[q]["APPROVED"] + events'[q]["FAILED"]
        BY <1>b, <3>2, <3>3 DEF GreenLight
      <4>2. \A p \in PayoutIds \ {q} :
              Len(disbursements'[p]) <= events'[p]["APPROVED"] + events'[p]["FAILED"]
        BY <1>3, <2>0, <2>1, CommitRecords DEF GreenInv, OneAttemptPerGreenLight
      <4> QED BY <4>1, <4>2 DEF OneAttemptPerGreenLight
    <3>5. \A p \in PayoutIds : (status[p] \in {"APPROVED", "FAILED"})' => GreenLight(p)'
      BY <2>1, <3>3 DEF GreenInv
    <3>6. \A v \in Workers, p \in PayoutIds : Disbursing(v, p)' => GreenLight(p)'
      BY <2>1, <2>2, <3>2 DEF GreenInv
    <3> QED BY <2>3, <3>4, <3>5, <3>6 DEF GreenInv
  <2>5. CASE to # "PROCESSING"
    <3>1. Len(disbursements'[q]) = Len(disbursements[q]) /\ status'[q] = to
      BY <1>3, <2>0, <2>5, CommitRecords, CommitDisburses
    <3>2. /\ events'[q]["APPROVED"] >= events[q]["APPROVED"]
          /\ events'[q]["FAILED"] >= events[q]["FAILED"]
      BY <1>a, LogGrows
    <3>3. to \in {"APPROVED", "FAILED"} => GreenLight(q)'
      <4>1. to \in {"APPROVED", "FAILED"} => events'[q][to] = events[q][to] + 1
        BY <1>3, <2>0, CommitRecords
      <4>2. Len(disbursements[q]) <= events[q]["APPROVED"] + events[q]["FAILED"]
        BY DEF GreenInv, OneAttemptPerGreenLight
      <4>3. /\ events[q]["APPROVED"] \in Nat /\ events'[q]["APPROVED"] \in Nat
            /\ events[q]["FAILED"] \in Nat /\ events'[q]["FAILED"] \in Nat
            /\ Len(disbursements[q]) \in Nat
        BY <1>b
      <4>4. CASE to = "APPROVED"
        BY <3>1, <3>2, <4>1, <4>2, <4>3, <4>4 DEF GreenLight
      <4>5. CASE to = "FAILED"
        BY <3>1, <3>2, <4>1, <4>2, <4>3, <4>5 DEF GreenLight
      <4> QED BY <4>4, <4>5
    <3>4. GreenLight(q) => GreenLight(q)'
      BY <1>b, <3>1, <3>2 DEF GreenLight
    <3>5. OneAttemptPerGreenLight'
      <4>1. Len(disbursements'[q]) <= events'[q]["APPROVED"] + events'[q]["FAILED"]
        BY <1>b, <3>1, <3>2 DEF GreenInv, OneAttemptPerGreenLight
      <4>2. \A p \in PayoutIds \ {q} :
              Len(disbursements'[p]) <= events'[p]["APPROVED"] + events'[p]["FAILED"]
        BY <1>3, <2>0, <2>1, CommitRecords DEF GreenInv, OneAttemptPerGreenLight
      <4> QED BY <4>1, <4>2 DEF OneAttemptPerGreenLight
    <3>6. \A p \in PayoutIds : (status[p] \in {"APPROVED", "FAILED"})' => GreenLight(p)'
      BY <2>1, <3>1, <3>3 DEF GreenInv
    <3>7. \A v \in Workers, p \in PayoutIds : Disbursing(v, p)' => GreenLight(p)'
      BY <2>1, <2>2, <3>4 DEF GreenInv
    <3> QED BY <2>3, <3>5, <3>6, <3>7 DEF GreenInv
  <2> QED BY <2>4, <2>5
<1> QED BY <1>1, <1>2, <1>3, StepKinds

\* Every disbursement uses up an approval or a failure of its own, however
\* many staff members process the request at the same time.
THEOREM OneAttempt == Spec => []OneAttemptPerGreenLight
<1>1. Init => GreenInv
  BY DEF Init, GreenInv, OneAttemptPerGreenLight, OneDisburser, Disbursing, Idle, EventTypes
<1>2. RowsOK /\ RowsOK' /\ GreenInv /\ [Next]_vars => GreenInv'
  BY GreenStep
<1>3. GreenInv => OneAttemptPerGreenLight
  BY DEF GreenInv
<1> QED BY <1>1, <1>2, <1>3, RowsCorrect, PTL DEF Spec

(***************************************************************************)
(* Refinement: overlapping transactions keep to the history of a request   *)
(***************************************************************************)

\* The statuses p has held: what History sees of the event log.
HeldBy(p) == {t \in EventTypes : events[p][t] > 0}

\* Recording a status that is entered adds it to what the request has held.
LEMMA HeldGrows ==
  ASSUME RowsOK, NEW p \in PayoutIds, NEW to \in EventTypes,
         events'[p][to] = events[p][to] + 1,
         \A t \in EventTypes \ {to} : events'[p][t] = events[p][t],
         \A q \in PayoutIds \ {p} : events'[q] = events[q]
  PROVE  [q \in PayoutIds |-> HeldBy(q)]' =
           [[q \in PayoutIds |-> HeldBy(q)] EXCEPT ![p] = @ \cup {to}]
<1>1. events[p][to] \in Nat
  BY DEF RowsOK
<1>2. HeldBy(p)' = HeldBy(p) \cup {to}
  BY <1>1 DEF HeldBy
<1>3. \A q \in PayoutIds \ {p} : HeldBy(q)' = HeldBy(q)
  BY DEF HeldBy
<1> QED BY <1>2, <1>3

LEMMA HistoryStep ==
  ASSUME RowsOK, LogInv, [Next]_vars
  PROVE  History!Next \/ UNCHANGED History!vars
<1> DEFINE held == [q \in PayoutIds |-> HeldBy(q)]
<1>b. History!EventTypes = EventTypes
  BY DEF History!EventTypes, EventTypes
<1>c. \A p \in PayoutIds, to \in EventTypes :
        status' = [status EXCEPT ![p] = to] /\ held' = [held EXCEPT ![p] = @ \cup {to}]
          => History!Enter(p, to)
  BY DEF History!Enter, HeldBy
<1> HIDE DEF held
<1>1. CASE Quiet
  BY <1>1 DEF Quiet, rows, History!vars
<1>2. ASSUME NEW w \in Workers, NEW p \in PayoutIds, CommitCreate(w, p) PROVE History!Next
  <2>1. "REQUESTED" \in EventTypes
    BY DEF EventTypes
  <2>2. held' = [held EXCEPT ![p] = @ \cup {"REQUESTED"}]
    BY <1>2, <2>1, CreateRecords, HeldGrows DEF held
  <2>3. status[p] = "NONE" /\ status' = [status EXCEPT ![p] = "REQUESTED"]
    BY <1>2 DEF CommitCreate
  <2>4. History!Request(p)
    BY <1>c, <2>1, <2>2, <2>3 DEF History!Request
  <2> QED BY <2>4 DEF History!Next
<1>3. ASSUME NEW w \in Workers, NEW to \in EventTypes, Commit(w, to) PROVE History!Next
  <2>0. PICK p \in PayoutIds : p = tx[w].payout
    BY <1>3, CommitRecords
  <2>1. held' = [held EXCEPT ![p] = @ \cup {to}]
    <3>1. /\ events'[p][to] = events[p][to] + 1
          /\ \A t \in EventTypes \ {to} : events'[p][t] = events[p][t]
          /\ \A q \in PayoutIds \ {p} : events'[q] = events[q]
      BY <1>3, <2>0, CommitRecords
    <3> QED BY <3>1, HeldGrows DEF held
  <2>2. status' = [status EXCEPT ![p] = to]
    BY <1>3, <2>0 DEF Commit
  <2>3. PICK s \in EventTypes : Held(p, s) /\ CanMove(s, to)
    BY <1>3, <2>0 DEF LogInv, InFlightJustified, Justified, Commit
  <2>4. s \in HeldBy(p)
    BY <2>3 DEF Held, HeldBy
  <2>5. History!CanMove(s, to)
    BY <2>3 DEF CanMove, AllowedTransitions, History!CanMove, History!AllowedTransitions
  <2>6. History!Move(p, to)
    BY <1>c, <2>1, <2>2, <2>4, <2>5 DEF History!Move, HeldBy
  <2> QED BY <1>b, <2>6 DEF History!Next
<1> QED BY <1>1, <1>2, <1>3, StepKinds

\* However the transactions overlap, each status a request enters is one
\* that the lifecycle table allows from a status the request has held.
THEOREM KeepsToHistory == Spec => ImplementsHistory
<1>1. Init => History!Init
  BY DEF Init, History!Init, History!EventTypes, EventTypes
<1>2. RowsOK /\ LogInv /\ [Next]_vars => History!Next \/ UNCHANGED History!vars
  BY HistoryStep
<1> QED BY <1>1, <1>2, RowsCorrect, LogCorrect, PTL
        DEF Spec, ImplementsHistory, History!Spec

(***************************************************************************)
(* The balance query                                                       *)
(***************************************************************************)

\* A request that is orderly is reserved or COMPLETED.
LEMMA OrderlyStatus ==
  ASSUME RowsOK, LogInv, NEW p \in PayoutIds, Orderly(p)
  PROVE  status[p] \in Reserving \cup {"COMPLETED"}
<1>1. status[p] \in EventTypes
  BY DEF Orderly, RowsOK, Statuses
<1>2. Held(p, status[p])
  BY DEF LogInv, Logged, LoggedFor, Orderly
<1>3. events[p][status[p]] \in Nat
  BY <1>1 DEF RowsOK
<1>4. status[p] \notin Released
  BY <1>1, <1>2, <1>3 DEF Orderly, Held
<1> QED BY <1>1, <1>4 DEF EventTypes, Released, Reserving

\* A commit leaves no request orderly that was not, and takes no orderly
\* request out of COMPLETED.
LEMMA OrderlyBefore ==
  ASSUME RowsOK, LogInv, NEW w \in Workers, NEW to \in EventTypes, Commit(w, to),
         [Next]_vars, RowsOK', NEW p \in PayoutIds, Orderly(p)'
  PROVE  Orderly(p) /\ (status[p] = "COMPLETED" => status'[p] = "COMPLETED")
<1>1. CASE p # tx[w].payout
  BY <1>1, CommitRecords DEF Orderly
<1>2. CASE p = tx[w].payout
  <2>1. Justified(p, to)
    BY <1>2 DEF LogInv, InFlightJustified, Commit
  <2>2. PICK s \in EventTypes : Held(p, s) /\ CanMove(s, to)
    BY <2>1 DEF Justified
  <2>3. status[p] # "NONE"
    BY <2>2 DEF LogInv, Logged, LoggedFor, Held
  <2>4. \A t \in EventTypes : /\ events'[p][t] >= events[p][t]
                              /\ events[p][t] \in Nat /\ events'[p][t] \in Nat
    BY LogGrows DEF RowsOK
  <2>5. \A t \in EventTypes : events[p][t] <= (IF t \in Released THEN 0 ELSE 1)
    <3> SUFFICES ASSUME NEW t \in EventTypes
                 PROVE  events[p][t] <= (IF t \in Released THEN 0 ELSE 1)
      OBVIOUS
    <3>1. events'[p][t] <= (IF t \in Released THEN 0 ELSE 1)
      BY DEF Orderly
    <3> QED BY <2>4, <3>1
  <2>6. Orderly(p)
    BY <2>3, <2>5 DEF Orderly
  <2>7. events'[p][to] = events[p][to] + 1 /\ status'[p] = to
    BY <1>2, CommitRecords
  <2>8. events'[p][to] <= (IF to \in Released THEN 0 ELSE 1)
    BY DEF Orderly
  <2>9. events[p][to] = 0 /\ to \notin Released
    BY <2>4, <2>7, <2>8
  <2>10. ASSUME status[p] = "COMPLETED" PROVE FALSE
    <3>1. Held(p, "COMPLETED")
      BY <2>10 DEF LogInv, Logged, LoggedFor
    <3>2. \A t \in {"UNDER_REVIEW", "APPROVED", "PROCESSING", "COMPLETED"} : Held(p, t)
      BY <3>1 DEF LogInv, Chained
    <3>3. to # "REQUESTED"
      BY <2>2, Table DEF Statuses
    <3>4. to \in {"UNDER_REVIEW", "APPROVED", "PROCESSING", "COMPLETED"}
      BY <2>9, <3>3 DEF EventTypes, Released
    <3> QED BY <2>9, <3>2, <3>4 DEF Held
  <2> QED BY <2>6, <2>10
<1> QED BY <1>1, <1>2

\* w is creating a request of u: it holds the lock payout_balance_<u>.
Creating(w, u) == tx[w].op = "create" /\ tx[w].user = u

OneCreator ==
  \A v, w \in Workers, u \in Users : Creating(v, u) /\ Creating(w, u) => v = w

\* What the two sums of w's balance query have counted so far.
Counted(w) ==
  \A p \in PayoutIds : owner[p] = tx[w].user /\ Orderly(p) =>
    /\ InCreate(w, "completed") => p \in tx[w].reserved \/ status[p] = "COMPLETED"
    /\ InCreate(w, "insert") => p \in tx[w].reserved \cup tx[w].completed

CountInv == OneCreator /\ \A w \in Workers : Counted(w)

LEMMA OneCreatorStep ==
  ASSUME RowsOK, OneCreator, [Next]_vars
  PROVE  OneCreator'
<1>1. ASSUME NEW w \in Workers,
             \A v \in Workers \ {w} : tx'[v] = tx[v],
             \A u \in Users : Creating(w, u)' => Creating(w, u) \/ UserUnlocked(u)
      PROVE  OneCreator'
  <2>1. \A v \in Workers \ {w}, u \in Users : Creating(v, u)' => Creating(v, u) /\ ~UserUnlocked(u)
    BY <1>1 DEF Creating, UserUnlocked
  <2> QED BY <1>1, <2>1 DEF OneCreator
<1>2. CASE Quiet
  <2>1. CASE UNCHANGED tx
    BY <2>1 DEF OneCreator, Creating
  <2>2. ASSUME NEW w \in Workers, \A v \in Workers \ {w} : tx'[v] = tx[v], tx'[w] = Idle
        PROVE  OneCreator'
    BY <1>1, <2>2 DEF Creating, Idle
  <2>3. ASSUME NEW w \in Workers, NEW u \in Users, NEW a \in Amounts, BeginCreate(w, u, a),
               \A v \in Workers \ {w} : tx'[v] = tx[v]
        PROVE  OneCreator'
    BY <1>1, <2>3 DEF Creating, BeginCreate, RowsOK
  <2>4. ASSUME NEW w \in Workers, ReadAdjustments(w) \/ ReadReserved(w) \/ ReadCompleted(w)
        PROVE  OneCreator'
    <3>1. \A u \in Users : Creating(w, u)' => Creating(w, u)
      BY <2>4, ReadKeeps DEF Creating, Idle
    <3> QED BY <1>1, <2>4, <3>1, ReadKeeps
  <2>5. ASSUME NEW w \in Workers, NEW p \in PayoutIds, Begin(w, p),
               \A v \in Workers \ {w} : tx'[v] = tx[v]
        PROVE  OneCreator'
    <3>1. \E to \in EventTypes, n \in Nat : BeginMove(w, p, to, n)
      BY <2>5, BeginReads
    <3>2. tx'[w].op = "move"
      BY <3>1 DEF BeginMove, RowsOK
    <3> QED BY <1>1, <2>5, <3>2 DEF Creating
  <2> QED BY <1>2, <2>1, <2>2, <2>3, <2>4, <2>5 DEF Quiet
<1>3. ASSUME NEW w \in Workers, NEW p \in PayoutIds, CommitCreate(w, p) PROVE OneCreator'
  BY <1>1, <1>3, CreateRecords DEF Creating, Idle
<1>4. ASSUME NEW w \in Workers, NEW to \in EventTypes, Commit(w, to) PROVE OneCreator'
  BY <1>1, <1>4, CommitRecords DEF Creating, Idle
<1> QED BY <1>2, <1>3, <1>4, StepKinds

LEMMA CountStep ==
  ASSUME RowsOK, LogInv, CountInv, [Next]_vars, RowsOK'
  PROVE  CountInv'
<1> SUFFICES ASSUME NEW w \in Workers PROVE Counted(w)'
  BY OneCreatorStep DEF CountInv
<1>a. Counted(w)
  BY DEF CountInv
<1>1. CASE Quiet
  <2>1. \A p \in PayoutIds : /\ owner'[p] = owner[p] /\ status'[p] = status[p]
                             /\ Orderly(p)' = Orderly(p)
    BY <1>1 DEF Quiet, rows, Orderly
  <2>2. CASE tx'[w] = tx[w]
    BY <1>a, <2>1, <2>2 DEF Counted, InCreate
  <2>3. CASE tx'[w].op # "create" \/ tx'[w].stage \notin {"completed", "insert"}
    BY <2>3 DEF Counted, InCreate
  <2>4. CASE ReadReserved(w)
    <3>1. tx[w] \in CreateTx
      BY <2>4, TxKinds DEF ReadReserved, InCreate
    <3>2. /\ tx'[w].user = tx[w].user /\ tx'[w].stage = "completed"
          /\ tx'[w].reserved = Requests(tx[w].user, Reserving)
      BY <2>4, <3>1 DEF ReadReserved, RowsOK, CreateTx, BalanceReads
    <3> QED BY <2>1, <3>2, OrderlyStatus DEF Counted, InCreate, Requests
  <2>5. CASE ReadCompleted(w)
    <3>1. tx[w] \in CreateTx
      BY <2>5, TxKinds DEF ReadCompleted, InCreate
    <3>2. CASE tx'[w] = Idle
      BY <2>3, <3>2 DEF Idle
    <3>3. CASE tx'[w] # Idle
      <4>1. tx'[w] = [tx[w] EXCEPT !.stage = "insert",
                                   !.completed = Requests(tx[w].user, {"COMPLETED"})]
        BY <2>5, <3>3 DEF ReadCompleted, RowsOK, BalanceReads
      <4>2. /\ tx'[w].user = tx[w].user /\ tx'[w].stage = "insert"
            /\ tx'[w].reserved = tx[w].reserved
            /\ tx'[w].completed = Requests(tx[w].user, {"COMPLETED"})
        BY <3>1, <4>1 DEF CreateTx
      <4> QED BY <1>a, <2>1, <2>5, <4>2 DEF Counted, InCreate, Requests, ReadCompleted
    <3> QED BY <3>2, <3>3
  <2>6. CASE ReadAdjustments(w)
    <3>1. tx[w] \in CreateTx
      BY <2>6, TxKinds DEF ReadAdjustments, InCreate
    <3>2. tx'[w].stage = "reserved"
      BY <2>6, <3>1 DEF ReadAdjustments, RowsOK, CreateTx
    <3> QED BY <2>3, <3>2
  <2>7. (\E u \in Users, a \in Amounts : BeginCreate(w, u, a)) => tx'[w].stage = "adjustments"
    BY DEF BeginCreate, RowsOK
  <2>8. (\E p \in PayoutIds : Begin(w, p)) => tx'[w].op = "move"
    BY DEF Begin, BeginReview, BeginApprove, BeginReject, BeginCancel, BeginProcess,
           BeginComplete, BeginFail, BeginMove, RowsOK
  <2>9. tx'[w] = Idle => tx'[w].op = "idle"
    BY DEF Idle
  <2> QED BY <1>1, <2>2, <2>3, <2>4, <2>5, <2>6, <2>7, <2>8, <2>9 DEF Quiet
<1>2. ASSUME NEW v \in Workers, NEW q \in PayoutIds, CommitCreate(v, q) PROVE Counted(w)'
  <2>1. CASE v = w
    BY <1>2, <2>1, CreateRecords DEF Counted, InCreate, Idle
  <2>2. CASE v # w
    <3>1. tx'[w] = tx[w]
      BY <1>2, <2>2, CreateRecords
    <3>2. \A p \in PayoutIds \ {q} : /\ owner'[p] = owner[p] /\ status'[p] = status[p]
                                     /\ Orderly(p)' = Orderly(p)
      BY <1>2, CreateRecords DEF Orderly
    <3>3. ASSUME tx[w].op = "create" PROVE owner'[q] # tx[w].user
      <4>1. Creating(v, tx[v].user) /\ Creating(w, tx[w].user)
        BY <1>2, <3>3 DEF Creating, CommitCreate, InCreate
      <4>2. tx[w].user \in Users
        BY <3>3, TxKinds DEF CreateTx
      <4> QED BY <1>2, <2>2, <4>1, <4>2, CreateRecords DEF CountInv, OneCreator, Creating
    <3> QED BY <1>a, <3>1, <3>2, <3>3 DEF Counted, InCreate
  <2> QED BY <2>1, <2>2
<1>3. ASSUME NEW v \in Workers, NEW to \in EventTypes, Commit(v, to) PROVE Counted(w)'
  <2>1. CASE v = w
    BY <1>3, <2>1, CommitRecords DEF Counted, InCreate, Idle
  <2>2. CASE v # w
    <3>1. tx'[w] = tx[w] /\ owner' = owner
      BY <1>3, <2>2, CommitRecords DEF Commit
    <3>2. \A p \in PayoutIds : Orderly(p)' =>
            Orderly(p) /\ (status[p] = "COMPLETED" => status'[p] = "COMPLETED")
      BY <1>3, OrderlyBefore
    <3> QED BY <1>a, <3>1, <3>2 DEF Counted, InCreate
  <2> QED BY <2>1, <2>2
<1> QED BY <1>1, <1>2, <1>3, StepKinds

LEMMA CountCorrect == Spec => []CountInv
<1>1. Init => CountInv
  BY DEF Init, CountInv, OneCreator, Creating, Counted, InCreate, Idle
<1>2. RowsOK /\ RowsOK' /\ LogInv /\ CountInv /\ [Next]_vars => CountInv'
  BY CountStep
<1> QED BY <1>1, <1>2, RowsCorrect, LogCorrect, PTL DEF Spec

\* A creation that is about to insert its request has counted every orderly
\* request of the creator.
THEOREM NoneMissed == Spec => []NothingMissed
<1>1. CountInv => NothingMissed
  BY DEF CountInv, Counted, NothingMissed
<1> QED BY <1>1, CountCorrect, PTL

(***************************************************************************)
(* The balance: a creation adds a request to those it has counted only if  *)
(* what was earned is enough for all of them.                              *)
(***************************************************************************)

Existing == {p \in PayoutIds : status[p] # "NONE"}

\* The requests of u that never released their reservation.
Due(u) == {p \in PayoutIds : owner[p] = u /\ Orderly(p)}

\* What w's balance query has read is no more than was earned, counts rows that
\* exist and, once it has decided, leaves the amount that is to be requested.
Backed(w) ==
  tx[w].op = "create" =>
    /\ tx[w].funds <= earned[tx[w].user]
    /\ tx[w].reserved \cup tx[w].completed \subseteq Existing
    /\ tx[w].stage = "insert" =>
         tx[w].amount + Total(tx[w].reserved) + Total(tx[w].completed) <= tx[w].funds

FundInv == IsFiniteSet(Existing) /\ (\A w \in Workers : Backed(w)) /\ NoOvercommit

LEMMA AmountTyped ==
  ASSUME RowsOK
  PROVE  \A p \in PayoutIds : amount[p] \in Nat
<1>1. \A p \in PayoutIds : amount[p] \in Amounts \cup {0}
  BY DEF RowsOK
<1>2. Amounts \cup {0} \subseteq Nat
  BY PayoutConstants
<1> QED BY <1>1, <1>2

LEMMA TotalTyped ==
  ASSUME RowsOK, NEW S \in SUBSET Existing, IsFiniteSet(Existing)
  PROVE  IsFiniteSet(S) /\ Total(S) \in Nat /\ \A p \in S : amount[p] \in Nat
<1>1. \A p \in PayoutIds : amount[p] \in Nat
  BY AmountTyped
<1>2. IsFiniteSet(S) /\ S \subseteq PayoutIds
  BY FS_Subset DEF Existing
<1> QED BY <1>1, <1>2, SumSplit DEF Total

\* What was counted twice is enough for what is due.
LEMMA TotalOfBoth ==
  ASSUME RowsOK, IsFiniteSet(Existing), NEW S \in SUBSET Existing, NEW R \in SUBSET Existing
  PROVE  Total(S \cup R) <= Total(S) + Total(R)
<1> DEFINE Covered == {s \in SUBSET R : Total(S \cup s) <= Total(S) + Total(s)}
<1>0. IsFiniteSet(R) /\ Total(S) \in Nat
  BY TotalTyped
<1>1. ASSUME NEW s \in SUBSET R, \A x \in s : s \ {x} \in Covered PROVE s \in Covered
  <2>0. /\ s \in SUBSET Existing /\ S \cup s \in SUBSET Existing
        /\ Total(s) \in Nat /\ Total(S \cup s) \in Nat
    BY TotalTyped
  <2>1. CASE s \subseteq S
    <3>1. S \cup s = S
      BY <2>1
    <3>2. Total(S) <= Total(S) + Total(s)
      BY <1>0, <2>0
    <3> QED BY <3>1, <3>2
  <2>2. ASSUME NEW x \in s, x \notin S PROVE s \in Covered
    <3>1. /\ s \ {x} \in SUBSET Existing /\ S \cup (s \ {x}) \in SUBSET Existing
          /\ Total(s \ {x}) \in Nat /\ Total(S \cup (s \ {x})) \in Nat /\ amount[x] \in Nat
      BY <2>0, TotalTyped
    <3>2. Total(S \cup (s \ {x})) <= Total(S) + Total(s \ {x})
      BY <1>1
    <3>3. Total(s) = amount[x] + Total(s \ {x})
      BY <2>0, TotalTyped, SumSplit DEF Total
    <3>4. (S \cup s) \ {x} = S \cup (s \ {x})
      BY <2>2
    <3>5. Total(S \cup s) = amount[x] + Total(S \cup (s \ {x}))
      <4>1. Total(S \cup s) = amount[x] + Total((S \cup s) \ {x})
        BY <2>0, TotalTyped, SumSplit DEF Total
      <4> QED BY <3>4, <4>1
    <3>6. Total(S \cup s) <= Total(S) + Total(s)
      BY <1>0, <2>0, <3>1, <3>2, <3>3, <3>5
    <3> QED BY <3>6
  <2> QED BY <2>1, <2>2
<1> HIDE DEF Covered
<1>2. R \in Covered
  BY <1>0, <1>1, SubsetsInduct
<1> QED BY <1>2 DEF Covered

LEMMA EarnedGrows ==
  ASSUME RowsOK, [Next]_vars, NEW u \in Users
  PROVE  earned'[u] >= earned[u]
<1>1. CASE UNCHANGED earned
  BY <1>1 DEF RowsOK
<1>2. ASSUME NEW v \in Users, NEW a \in Amounts, Credit(v, a) PROVE earned'[u] >= earned[u]
  <2>1. a \in Nat
    BY PayoutConstants
  <2> QED BY <1>2, <2>1 DEF Credit, RowsOK
<1>3. ASSUME NEW w \in Workers, Create(w) \/ End(w) \/ \E p \in PayoutIds : Begin(w, p)
      PROVE  UNCHANGED earned
  BY <1>3 DEF Create, BeginCreate, ReadAdjustments, ReadReserved, ReadCompleted, CommitCreate,
              End, CommitReview, CommitApprove, CommitReject, CommitCancel, CommitProcess,
              CommitComplete, CommitFail, Commit, Abort, Begin, BeginReview, BeginApprove,
              BeginReject, BeginCancel, BeginProcess, BeginComplete, BeginFail, BeginMove, ledger
<1>4. Environment => UNCHANGED earned \/ \E v \in Users, a \in Amounts : Credit(v, a)
  BY DEF Environment, AcceptEvidence, RejectEvidence, ReviewEvidence, Deduct, SetActive, ledger
<1> QED BY <1>1, <1>2, <1>3, <1>4 DEF Next, vars, ledger

\* Rows are added one at a time, keep their amount, and never go away.
LEMMA RowsStay ==
  ASSUME RowsOK, [Next]_vars
  PROVE  /\ Existing \subseteq Existing'
         /\ \E p : Existing' \subseteq Existing \cup {p}
         /\ \A p \in Existing : amount'[p] = amount[p]
<1>1. CASE Quiet
  BY <1>1 DEF Quiet, rows, Existing
<1>2. ASSUME NEW w \in Workers, NEW q \in PayoutIds, CommitCreate(w, q)
      PROVE  /\ Existing \subseteq Existing'
             /\ Existing' \subseteq Existing \cup {q}
             /\ \A p \in Existing : amount'[p] = amount[p]
  BY <1>2, CreateRecords DEF Existing, CommitCreate, RowsOK
<1>3. ASSUME NEW w \in Workers, NEW to \in EventTypes, Commit(w, to)
      PROVE  /\ Existing \subseteq Existing'
             /\ Existing' \subseteq Existing \cup {tx[w].payout}
             /\ \A p \in Existing : amount'[p] = amount[p]
  <2>1. to # "NONE"
    BY DEF EventTypes
  <2> QED BY <1>3, <2>1, CommitRecords DEF Existing, Commit
<1> QED BY <1>1, <1>2, <1>3, StepKinds

LEMMA TotalStays ==
  ASSUME RowsOK, [Next]_vars, IsFiniteSet(Existing), NEW S \in SUBSET Existing
  PROVE  SumFunctionOnSet(amount', S) = Total(S)
  BY TotalTyped, RowsStay, SumAgrees DEF Total

\* What a query has read stays backed while its transaction waits.
LEMMA StaysBacked ==
  ASSUME RowsOK, FundInv, [Next]_vars, RowsOK', NEW w \in Workers, tx'[w] = tx[w]
  PROVE  Backed(w)'
<1> SUFFICES ASSUME tx[w].op = "create" PROVE Backed(w)'
  BY DEF Backed
<1>0. IsFiniteSet(Existing) /\ Backed(w)
  BY DEF FundInv
<1>1. tx[w].user \in Users /\ tx[w].funds \in Int
  BY TxKinds DEF CreateTx
<1>2. tx[w].funds <= earned'[tx[w].user]
  <2>1. /\ earned'[tx[w].user] >= earned[tx[w].user]
        /\ earned[tx[w].user] \in Nat /\ earned'[tx[w].user] \in Nat
    BY <1>1, EarnedGrows DEF RowsOK
  <2> QED BY <1>0, <1>1, <2>1 DEF Backed
<1>3. /\ tx[w].reserved \in SUBSET Existing /\ tx[w].completed \in SUBSET Existing
      /\ tx[w].reserved \cup tx[w].completed \subseteq Existing'
  BY <1>0, RowsStay DEF Backed
<1>4. /\ SumFunctionOnSet(amount', tx[w].reserved) = Total(tx[w].reserved)
      /\ SumFunctionOnSet(amount', tx[w].completed) = Total(tx[w].completed)
  BY <1>0, <1>3, TotalStays
<1> QED BY <1>0, <1>2, <1>3, <1>4 DEF Backed, Total

\* Each statement of the query leaves the transaction backed, and the last one
\* lets it go on only if the balance is enough.
LEMMA ReadsBacked ==
  ASSUME RowsOK, FundInv, NEW w \in Workers,
         ReadAdjustments(w) \/ ReadReserved(w) \/ ReadCompleted(w)
  PROVE  Backed(w)'
<1>0. tx[w] \in CreateTx /\ tx[w].op = "create" /\ Backed(w) /\ IsFiniteSet(Existing)
  BY TxKinds DEF ReadAdjustments, ReadReserved, ReadCompleted, InCreate, FundInv
<1>1. CASE ReadAdjustments(w)
  <2>1. /\ tx'[w].stage = "reserved" /\ tx'[w].user = tx[w].user
        /\ tx'[w].funds = tx[w].funds - deducted[tx[w].user]
        /\ tx'[w].reserved = tx[w].reserved /\ tx'[w].completed = tx[w].completed
    BY <1>0, <1>1 DEF ReadAdjustments, RowsOK, CreateTx
  <2>2. tx'[w].funds <= earned[tx[w].user]
    BY <1>0, <2>1 DEF Backed, RowsOK, CreateTx
  <2> QED BY <1>0, <1>1, <2>1, <2>2 DEF Backed, ReadAdjustments, ledger, rows, Existing
<1>2. CASE ReadReserved(w)
  <2>1. /\ tx'[w].stage = "completed" /\ tx'[w].user = tx[w].user /\ tx'[w].funds = tx[w].funds
        /\ tx'[w].reserved = Requests(tx[w].user, Reserving)
        /\ tx'[w].completed = tx[w].completed
    BY <1>0, <1>2 DEF ReadReserved, RowsOK, CreateTx, BalanceReads
  <2>2. Requests(tx[w].user, Reserving) \subseteq Existing
    BY DEF Requests, Reserving, Existing
  <2> QED BY <1>0, <1>2, <2>1, <2>2 DEF Backed, ReadReserved, ledger, rows, Existing
<1>3. CASE ReadCompleted(w)
  <2> DEFINE completed == Requests(tx[w].user, BalanceReads[2])
             left == tx[w].funds - Total(tx[w].reserved) - Total(completed)
  <2>1. completed \subseteq Existing
    BY DEF Requests, BalanceReads, Existing
  <2>2. CASE tx'[w] = Idle
    BY <2>2 DEF Backed, Idle
  <2>3. CASE tx'[w] # Idle
    <3>1. /\ tx[w].amount <= Available(left)
          /\ tx'[w] = [tx[w] EXCEPT !.stage = "insert", !.completed = completed]
      BY <1>3, <2>3 DEF ReadCompleted, RowsOK
    <3>2. /\ tx'[w].stage = "insert" /\ tx'[w].user = tx[w].user /\ tx'[w].funds = tx[w].funds
          /\ tx'[w].amount = tx[w].amount /\ tx'[w].reserved = tx[w].reserved
          /\ tx'[w].completed = completed
      BY <1>0, <3>1 DEF CreateTx
    <3>3. /\ Total(tx[w].reserved) \in Nat /\ Total(completed) \in Nat
          /\ tx[w].funds \in Int /\ tx[w].amount \in Nat \ {0}
      <4>1. tx[w].reserved \in SUBSET Existing
        BY <1>0 DEF Backed
      <4> QED BY <1>0, <2>1, <4>1, TotalTyped, PayoutConstants DEF CreateTx
    <3> HIDE DEF completed
    <3>4. tx[w].amount + Total(tx[w].reserved) + Total(completed) <= tx[w].funds
      BY <3>1, <3>3 DEF Available
    <3> QED BY <1>0, <1>3, <2>1, <3>2, <3>4
            DEF Backed, ReadCompleted, ledger, rows, Existing, Total
  <2> QED BY <2>2, <2>3
<1> QED BY <1>1, <1>2, <1>3

LEMMA StillBacked ==
  ASSUME RowsOK, FundInv, [Next]_vars, RowsOK', NEW w \in Workers
  PROVE  Backed(w)'
<1>1. CASE tx'[w].op # "create"
  BY <1>1 DEF Backed
<1>2. ASSUME NEW u \in Users, NEW a \in Amounts, BeginCreate(w, u, a) PROVE Backed(w)'
  <2>1. /\ tx'[w].stage = "adjustments" /\ tx'[w].user = u /\ tx'[w].funds = earned[u]
        /\ tx'[w].reserved = {} /\ tx'[w].completed = {}
    BY <1>2 DEF BeginCreate, RowsOK
  <2>2. earned'[u] = earned[u] /\ earned[u] \in Nat
    BY <1>2 DEF BeginCreate, ledger, RowsOK
  <2> QED BY <2>1, <2>2 DEF Backed
<1>3. CASE Quiet
  <2>1. ASSUME NEW p \in PayoutIds, Begin(w, p) PROVE tx'[w].op # "create"
    <3>1. \E to \in EventTypes, n \in Nat : BeginMove(w, p, to, n)
      BY <2>1, BeginReads
    <3> QED BY <3>1 DEF BeginMove, RowsOK
  <2>2. tx'[w] = Idle => tx'[w].op # "create"
    BY DEF Idle
  <2> QED BY <1>1, <1>2, <1>3, <2>1, <2>2, ReadsBacked, StaysBacked DEF Quiet
<1>4. ASSUME NEW v \in Workers, tx'[v] = Idle, \A x \in Workers \ {v} : tx'[x] = tx[x]
      PROVE  Backed(w)'
  <2>1. Idle.op # "create"
    BY DEF Idle
  <2> QED BY <1>1, <1>4, <2>1, StaysBacked
<1>5. ASSUME NEW v \in Workers, NEW p \in PayoutIds, CommitCreate(v, p) PROVE Backed(w)'
  BY <1>4, <1>5, CreateRecords
<1>6. ASSUME NEW v \in Workers, NEW to \in EventTypes, Commit(v, to) PROVE Backed(w)'
  BY <1>4, <1>6, CommitRecords
<1> QED BY <1>3, <1>5, <1>6, StepKinds

\* The requests that are due to a creator are no more than was earned when a
\* request is added to them, and only fewer otherwise.
LEMMA OvercommitStep ==
  ASSUME RowsOK, LogInv, CountInv, FundInv, [Next]_vars, RowsOK', NEW u \in Users
  PROVE  SumFunctionOnSet(amount', Due(u)') <= earned'[u]
<1>0. /\ Total(Due(u)) <= earned[u] /\ IsFiniteSet(Existing) /\ Due(u) \in SUBSET Existing
      /\ earned'[u] >= earned[u] /\ earned[u] \in Nat /\ earned'[u] \in Nat
      /\ Total(Due(u)) \in Nat
  <2>1. Due(u) \in SUBSET Existing
    BY DEF Due, Orderly, Existing
  <2> QED BY <2>1, EarnedGrows, TotalTyped DEF FundInv, NoOvercommit, Due, RowsOK
<1>1. ASSUME Due(u)' \subseteq Due(u)
      PROVE  SumFunctionOnSet(amount', Due(u)') <= earned'[u]
  <2>1. Due(u)' \in SUBSET Existing
    BY <1>0, <1>1
  <2>2. SumFunctionOnSet(amount', Due(u)') = Total(Due(u)')
    BY <1>0, <2>1, TotalStays
  <2>3. Total(Due(u)') <= Total(Due(u)) /\ Total(Due(u)') \in Nat
    BY <1>0, <1>1, <2>1, TotalTyped, SumOfFewer DEF Total
  <2> QED BY <1>0, <2>2, <2>3
<1>2. CASE Quiet
  <2>1. Due(u)' = Due(u)
    BY <1>2 DEF Quiet, rows, Due, Orderly
  <2> QED BY <1>1, <2>1
<1>3. ASSUME NEW w \in Workers, NEW to \in EventTypes, Commit(w, to) PROVE Due(u)' \subseteq Due(u)
  BY <1>3, OrderlyBefore DEF Due, Commit
<1>4. ASSUME NEW w \in Workers, NEW q \in PayoutIds, CommitCreate(w, q)
      PROVE  SumFunctionOnSet(amount', Due(u)') <= earned'[u]
  <2>1. Due(u)' \subseteq Due(u) \cup {q} /\ q \notin Existing
    BY <1>4, CreateRecords DEF Due, Orderly, Existing
  <2>2. CASE q \notin Due(u)'
    BY <1>1, <2>1, <2>2
  <2>3. CASE q \in Due(u)'
    <3>1. /\ tx[w] \in CreateTx /\ tx[w].user = u /\ tx[w].op = "create" /\ tx[w].stage = "insert"
          /\ amount'[q] = tx[w].amount /\ tx[w].amount \in Nat
      BY <1>4, <2>3, CreateRecords, TxKinds, PayoutConstants
         DEF CommitCreate, InCreate, Due, CreateTx, RowsOK
    <3> DEFINE R == tx[w].reserved  C == tx[w].completed
    <3>2. /\ tx[w].amount + Total(R) + Total(C) <= tx[w].funds
          /\ tx[w].funds <= earned[u] /\ tx[w].funds \in Int
          /\ R \in SUBSET Existing /\ C \in SUBSET Existing
      BY <3>1 DEF FundInv, Backed, CreateTx
    <3>3. Due(u) \subseteq R \cup C
      BY <1>4, <3>1 DEF CountInv, Counted, CommitCreate, Due
    <3> HIDE DEF R, C
    <3>4. Total(Due(u)) <= Total(R) + Total(C) /\ Total(R) \in Nat /\ Total(C) \in Nat
      <4>1. /\ R \cup C \in SUBSET Existing /\ Total(R \cup C) \in Nat
            /\ IsFiniteSet(R \cup C) /\ \A p \in R \cup C : amount[p] \in Nat
        BY <1>0, <3>2, TotalTyped
      <4>2. Total(Due(u)) <= Total(R \cup C)
        BY <3>3, <4>1, SumOfFewer DEF Total
      <4>3. Total(R \cup C) <= Total(R) + Total(C)
        BY <1>0, <3>2, TotalOfBoth
      <4>4. Total(R) \in Nat /\ Total(C) \in Nat
        BY <1>0, <3>2, TotalTyped
      <4> QED BY <1>0, <4>1, <4>2, <4>3, <4>4
    <3> DEFINE old == Due(u)' \ {q}
    <3>5. old \subseteq Due(u) /\ old \in SUBSET Existing /\ Due(u)' = old \cup {q} /\ q \notin old
      BY <1>0, <2>1, <2>3
    <3> HIDE DEF old
    <3>6. Total(old) <= Total(Due(u)) /\ Total(old) \in Nat /\ IsFiniteSet(old)
      BY <1>0, <3>5, TotalTyped, SumOfFewer DEF Total
    <3>7. SumFunctionOnSet(amount', old) = Total(old)
      BY <1>0, <3>5, TotalStays
    <3>8. \A p \in old \cup {q} : amount'[p] \in Nat
      <4>1. \A p \in PayoutIds : amount'[p] \in Nat
        <5>1. \A p \in PayoutIds : amount'[p] \in Amounts \cup {0}
          BY DEF RowsOK
        <5>2. Amounts \cup {0} \subseteq Nat
          BY PayoutConstants
        <5> QED BY <5>1, <5>2
      <4> QED BY <3>5, <4>1 DEF Existing
    <3>9. SumFunctionOnSet(amount', old \cup {q}) = amount'[q] + SumFunctionOnSet(amount', old)
      BY <3>5, <3>6, <3>8, SumAdd
    <3> QED BY <1>0, <3>1, <3>2, <3>4, <3>5, <3>6, <3>7, <3>9
  <2> QED BY <2>2, <2>3
<1> QED BY <1>1, <1>2, <1>3, <1>4, StepKinds

\* The requests of a creator that never released their reservation do not add up
\* to more than was earned, whatever overlaps their creation.
THEOREM NeverOvercommitted == Spec => []NoOvercommit
<1>1. Init => FundInv
  <2> SUFFICES ASSUME Init PROVE FundInv
    OBVIOUS
  <2>1. Existing = {} /\ \A u \in Users : Due(u) = {}
    BY DEF Init, Existing, Due, Orderly
  <2>2. NoOvercommit
    <3>1. \A u \in Users : Total(Due(u)) = 0 /\ earned[u] = 0
      BY <2>1, SumEmpty DEF Total, Init
    <3> QED BY <3>1 DEF NoOvercommit, Due
  <2> QED BY <2>1, <2>2, FS_EmptySet DEF Init, FundInv, Backed, Idle
<1>2. RowsOK /\ RowsOK' /\ LogInv /\ CountInv /\ FundInv /\ [Next]_vars => FundInv'
  <2> SUFFICES ASSUME RowsOK, RowsOK', LogInv, CountInv, FundInv, [Next]_vars PROVE FundInv'
    OBVIOUS
  <2>1. IsFiniteSet(Existing')
    <3>1. PICK p : Existing' \subseteq Existing \cup {p}
      BY RowsStay
    <3>2. IsFiniteSet(Existing \cup {p})
      BY FS_AddElement DEF FundInv
    <3> QED BY <3>1, <3>2, FS_Subset
  <2>2. NoOvercommit'
    <3>1. \A u \in Users : SumFunctionOnSet(amount', Due(u)') <= earned'[u]
      BY OvercommitStep
    <3> QED BY <3>1 DEF NoOvercommit, Due, Total
  <2>3. \A w \in Workers : Backed(w)'
    BY StillBacked
  <2> QED BY <2>1, <2>2, <2>3 DEF FundInv
<1>3. FundInv => NoOvercommit
  BY DEF FundInv
<1> QED BY <1>1, <1>2, <1>3, RowsCorrect, LogCorrect, CountCorrect, PTL DEF Spec

(***************************************************************************)
(* The service until two transactions overlap                              *)
(***************************************************************************)

\* While no two transactions have overlapped, one is in flight at most.
AloneInv == alone => \A v, w \in Workers : tx[v] # Idle /\ tx[w] # Idle => v = w

\* The step of worker w leaves the others' transactions as they were.
Mine(w) == \A v \in Workers \ {w} : tx'[v] = tx[v]

\* A step that begins a transaction notes the overlap, and any other step
\* goes on with, or ends, a transaction that was in flight.
LEMMA WorkerSteps ==
  ASSUME RowsOK, NEW w \in Workers, Create(w) \/ End(w) \/ \E p \in PayoutIds : Begin(w, p)
  PROVE  Mine(w) /\ ((tx[w] = Idle /\ NoteOverlap) \/ (tx[w] # Idle /\ alone' = alone))
<1>1. ASSUME NEW u \in Users, NEW a \in Amounts, BeginCreate(w, u, a)
      PROVE  Mine(w) /\ tx[w] = Idle /\ NoteOverlap
  BY <1>1 DEF BeginCreate, Mine, RowsOK
<1>2. CASE ReadAdjustments(w) \/ ReadReserved(w) \/ ReadCompleted(w)
  <2>1. tx[w].op = "create" /\ Mine(w)
    BY <1>2, ReadKeeps DEF Mine
  <2> QED BY <1>2, <2>1 DEF ReadAdjustments, ReadReserved, ReadCompleted, Idle
<1>3. ASSUME NEW p \in PayoutIds, CommitCreate(w, p)
      PROVE  Mine(w) /\ tx[w] # Idle /\ alone' = alone
  BY <1>3 DEF CommitCreate, InCreate, Mine, Idle, RowsOK
<1>4. ASSUME NEW p \in PayoutIds, Begin(w, p)
      PROVE  Mine(w) /\ tx[w] = Idle /\ NoteOverlap
  BY <1>4 DEF Begin, BeginReview, BeginApprove, BeginReject, BeginCancel, BeginProcess,
              BeginComplete, BeginFail, BeginMove, Mine, RowsOK
<1>5. ASSUME NEW to \in EventTypes, Commit(w, to)
      PROVE  Mine(w) /\ tx[w] # Idle /\ alone' = alone
  BY <1>5 DEF Commit, Mine, Idle, RowsOK
<1>6. CASE Abort(w)
  BY <1>6 DEF Abort, Mine, RowsOK
<1>7. End(w) => Abort(w) \/ \E to \in EventTypes : Commit(w, to)
  BY DEF End, CommitReview, CommitApprove, CommitReject, CommitCancel,
              CommitProcess, CommitComplete, CommitFail, EventTypes
<1> QED BY <1>1, <1>2, <1>3, <1>4, <1>5, <1>6, <1>7 DEF Create

AloneTyped == alone \in BOOLEAN

\* Every reachable state is well typed, the history variable included.
THEOREM TypeCorrect == Spec => []TypeOK
<1>1. Init => AloneTyped
  BY DEF Init, AloneTyped
<1>2. RowsOK /\ AloneTyped /\ [Next]_vars => AloneTyped'
  <2> SUFFICES ASSUME RowsOK, AloneTyped, [Next]_vars
               PROVE  alone' = alone \/ NoteOverlap
    BY DEF NoteOverlap, AloneTyped
  <2>1. CASE Environment \/ UNCHANGED vars
    BY <2>1 DEF Environment, AcceptEvidence, RejectEvidence, ReviewEvidence, Credit, Deduct,
                SetActive, vars
  <2> QED BY <2>1, WorkerSteps DEF Next
<1>3. RowsOK /\ AloneTyped => TypeOK
  BY DEF TypeOK, AloneTyped
<1> QED BY <1>1, <1>2, <1>3, RowsCorrect, PTL DEF Spec

\* A step after which transactions still have not overlapped is taken by a
\* worker beside whom all others are idle, or by the rest of the system.
LEMMA AloneStep ==
  ASSUME RowsOK, AloneInv, [Next]_vars, alone'
  PROVE  /\ alone
         /\ \/ UNCHANGED tx
            \/ \E w \in Workers : \A v \in Workers \ {w} : tx[v] = Idle /\ tx'[v] = Idle
<1>1. ASSUME NEW w \in Workers, Create(w) \/ End(w) \/ \E p \in PayoutIds : Begin(w, p)
      PROVE  alone /\ \A v \in Workers \ {w} : tx[v] = Idle /\ tx'[v] = Idle
  <2>1. Mine(w) /\ ((tx[w] = Idle /\ NoteOverlap) \/ (tx[w] # Idle /\ alone' = alone))
    BY <1>1, WorkerSteps
  <2> QED BY <2>1 DEF Mine, NoteOverlap, AloneInv
<1>2. CASE Environment \/ UNCHANGED vars
  BY <1>2 DEF Environment, AcceptEvidence, RejectEvidence, ReviewEvidence, Credit, Deduct,
              SetActive, vars
<1> QED BY <1>1, <1>2 DEF Next

LEMMA AloneCorrect == Spec => []AloneInv
<1>1. Init => AloneInv
  BY DEF Init, AloneInv
<1>2. RowsOK /\ AloneInv /\ [Next]_vars => AloneInv'
  <2> SUFFICES ASSUME RowsOK, AloneInv, [Next]_vars, alone' PROVE AloneInv'
    BY DEF AloneInv
  <2>1. alone
    BY AloneStep
  <2>2. CASE UNCHANGED tx
    BY <2>1, <2>2 DEF AloneInv
  <2>3. ASSUME NEW w \in Workers, \A v \in Workers \ {w} : tx'[v] = Idle PROVE AloneInv'
    BY <2>3 DEF AloneInv, Idle
  <2> QED BY <2>2, <2>3, AloneStep
<1> QED BY <1>1, <1>2, RowsCorrect, PTL DEF Spec

\* Until transactions overlap, the one in flight acts on what it has read.
Current(w) ==
  tx[w].op = "move" =>
    /\ CanMove(status[tx[w].payout], tx[w].to)
    /\ tx[w].to \in {"COMPLETED", "FAILED"} =>
         tx[w].attempt = Len(disbursements[tx[w].payout])

UpToDate == alone => \A w \in Workers : Current(w)

LEMMA UpToDateStep ==
  ASSUME RowsOK, AloneInv, UpToDate, [Next]_vars
  PROVE  UpToDate'
<1>0. SUFFICES ASSUME alone' PROVE \A w \in Workers : Current(w)'
  BY DEF UpToDate
<1>a. alone /\ \A w \in Workers : Current(w)
  BY <1>0, AloneStep DEF UpToDate
<1>1. CASE Quiet
  <2> SUFFICES ASSUME NEW w \in Workers, tx'[w].op = "move"
               PROVE  /\ CanMove(status[tx'[w].payout], tx'[w].to)
                      /\ tx'[w].to \in {"COMPLETED", "FAILED"} =>
                           tx'[w].attempt = Len(disbursements[tx'[w].payout])
    BY <1>1 DEF Current, Quiet, rows, CanMove
  <2>1. CASE tx'[w] = tx[w]
    BY <1>a, <2>1 DEF Current
  <2>2. ASSUME NEW p \in PayoutIds, Begin(w, p)
        PROVE  /\ CanMove(status[tx'[w].payout], tx'[w].to)
               /\ tx'[w].to \in {"COMPLETED", "FAILED"} =>
                    tx'[w].attempt = Len(disbursements[tx'[w].payout])
    <3>1. PICK to \in EventTypes, n \in Nat :
            BeginMove(w, p, to, n)
            /\ (to \in {"COMPLETED", "FAILED"} => n = Len(disbursements[p]))
      BY <2>2, BeginReads
    <3>2. tx'[w].payout = p /\ tx'[w].to = to /\ tx'[w].attempt = n /\ CanMove(status[p], to)
      BY <3>1 DEF BeginMove, Validated, RowsOK
    <3> QED BY <3>1, <3>2
  <2>3. (\E u \in Users, a \in Amounts : BeginCreate(w, u, a)) => tx'[w].op # "move"
    BY DEF BeginCreate, RowsOK
  <2>4. ReadAdjustments(w) \/ ReadReserved(w) \/ ReadCompleted(w) => tx'[w].op # "move"
    BY ReadKeeps
  <2> QED BY <1>1, <2>1, <2>2, <2>3, <2>4 DEF Quiet, Idle
<1>2. ASSUME NEW w \in Workers, tx[w] # Idle, tx'[w] = Idle
      PROVE  \A v \in Workers : Current(v)'
  <2>1. \A v \in Workers : tx'[v] = Idle
    BY <1>0, <1>2, AloneStep
  <2> QED BY <2>1 DEF Current, Idle
<1>3. ASSUME NEW w \in Workers, NEW p \in PayoutIds, CommitCreate(w, p)
      PROVE  \A v \in Workers : Current(v)'
  <2>1. tx[w] # Idle /\ tx'[w] = Idle
    BY <1>3 DEF CommitCreate, InCreate, Idle, RowsOK
  <2> QED BY <1>2, <2>1
<1>4. ASSUME NEW w \in Workers, NEW to \in EventTypes, Commit(w, to)
      PROVE  \A v \in Workers : Current(v)'
  <2>1. tx[w] # Idle /\ tx'[w] = Idle
    BY <1>4 DEF Commit, Idle, RowsOK
  <2> QED BY <1>2, <2>1
<1> QED BY <1>1, <1>3, <1>4, StepKinds

LEMMA UpToDateCorrect == Spec => []UpToDate
<1>1. Init => UpToDate
  BY DEF Init, UpToDate, Current, Idle
<1>2. RowsOK /\ AloneInv /\ UpToDate /\ [Next]_vars => UpToDate'
  BY UpToDateStep
<1> QED BY <1>1, <1>2, RowsCorrect, AloneCorrect, PTL DEF Spec

LEMMA LifecycleStep ==
  ASSUME RowsOK, AloneInv, UpToDate, [Next]_vars, alone'
  PROVE  Lifecycle!Next \/ UNCHANGED status
<1>0. alone
  BY AloneStep
<1>1. CASE Quiet
  BY <1>1 DEF Quiet, rows
<1>2. ASSUME NEW w \in Workers, NEW p \in PayoutIds, CommitCreate(w, p) PROVE Lifecycle!Next
  BY <1>2 DEF CommitCreate, Lifecycle!Request, Lifecycle!Next
<1>3. ASSUME NEW w \in Workers, NEW to \in EventTypes, Commit(w, to) PROVE Lifecycle!Next
  <2>0. PICK p \in PayoutIds : p = tx[w].payout
    BY <1>3, CommitRecords
  <2>1. CanMove(status[p], to) /\ status' = [status EXCEPT ![p] = to]
    BY <1>0, <1>3, <2>0 DEF Commit, UpToDate, Current
  <2>2. Lifecycle!Move(p, to)
    BY <2>1 DEF CanMove, AllowedTransitions, Lifecycle!CanMove,
                Lifecycle!AllowedTransitions, Lifecycle!Move
  <2>3. to \in Lifecycle!EventTypes
    BY DEF EventTypes, Lifecycle!EventTypes
  <2> QED BY <2>2, <2>3 DEF Lifecycle!Next
<1> QED BY <1>1, <1>2, <1>3, StepKinds

\* Until two transactions overlap, the status of a request moves along the
\* lifecycle table only, whatever is rolled back on the way.
THEOREM SerialLifecycle == Spec => ImplementsLifecycle
<1>1. Init => Lifecycle!Init
  BY DEF Init, Lifecycle!Init
<1>2. RowsOK /\ AloneInv /\ UpToDate /\ [Next]_vars => [alone' => Lifecycle!Next]_status
  BY LifecycleStep
<1> QED BY <1>1, <1>2, RowsCorrect, AloneCorrect, UpToDateCorrect, PTL
        DEF Spec, ImplementsLifecycle

\* What NewestAttemptAgrees says while transactions have not overlapped.
Agrees(p) ==
  disbursements[p] # <<>> => status[p] = disbursements[p][Len(disbursements[p])]

LEMMA NewestStep ==
  ASSUME RowsOK, AloneInv, UpToDate, NewestAttemptAgrees, [Next]_vars
  PROVE  NewestAttemptAgrees'
<1>0. SUFFICES ASSUME alone' PROVE \A p \in PayoutIds : Agrees(p)'
  BY DEF NewestAttemptAgrees, Agrees
<1>b. /\ \A p \in PayoutIds : Agrees(p)
      /\ \A w \in Workers : Current(w)
  BY <1>0, AloneStep DEF NewestAttemptAgrees, Agrees, UpToDate
<1>a. \A p \in PayoutIds : disbursements[p] \in Seq(AttemptStatuses)
  BY DEF RowsOK
<1>1. CASE Quiet
  BY <1>b, <1>1 DEF Quiet, rows, Agrees
<1>2. ASSUME NEW w \in Workers, NEW p \in PayoutIds, CommitCreate(w, p)
      PROVE  \A q \in PayoutIds : Agrees(q)'
  <2>1. disbursements[p] = <<>>
    <3> SUFFICES ASSUME disbursements[p] # <<>> PROVE FALSE
      OBVIOUS
    <3>1. disbursements[p][Len(disbursements[p])] \in AttemptStatuses
      BY <1>a
    <3> QED BY <1>b, <1>2, <3>1, CreateRecords DEF Agrees, AttemptStatuses
  <2> QED BY <1>b, <1>2, <2>1, CreateRecords DEF Agrees
<1>3. ASSUME NEW w \in Workers, NEW to \in EventTypes, Commit(w, to), Disburses(w, to)
      PROVE  \A q \in PayoutIds : Agrees(q)'
  <2>0. PICK p \in PayoutIds : p = tx[w].payout
    BY <1>3, CommitRecords
  <2>1. \A q \in PayoutIds \ {p} :
          status'[q] = status[q] /\ disbursements'[q] = disbursements[q]
    BY <1>3, <2>0, CommitRecords, CommitDisburses
  <2>2. status'[p] = to /\ CanMove(status[p], to)
    <3>1. tx[w].op = "move" /\ tx[w].to = to
      BY <1>3 DEF Commit
    <3> QED BY <1>b, <1>3, <2>0, <3>1, CommitRecords DEF Current
  <2>3. CASE to = "PROCESSING"
    <3>1. disbursements'[p] = Append(disbursements[p], "PROCESSING")
      BY <1>3, <2>0, <2>3 DEF Disburses, CommitProcess, RowsOK
    <3>2. disbursements'[p][Len(disbursements'[p])] = "PROCESSING"
      BY <1>a, <3>1
    <3> QED BY <1>b, <2>1, <2>2, <2>3, <3>2 DEF Agrees
  <2>4. CASE to \in {"COMPLETED", "FAILED"}
    <3>1. tx[w].attempt = Len(disbursements[p])
      BY <1>b, <1>3, <2>0, <2>4 DEF Current, Commit
    <3>2. CASE disbursements[p] = <<>>
      <4>1. disbursements'[p] = <<>>
        BY <1>3, <2>0, <2>4, <3>2 DEF Disburses, Settle, RowsOK
      <4> QED BY <1>b, <2>1, <4>1 DEF Agrees
    <3>3. CASE disbursements[p] # <<>>
      <4>1. Len(disbursements[p]) \in DOMAIN disbursements[p]
        BY <1>a, <3>3
      <4>2. disbursements'[p] = [disbursements[p] EXCEPT ![Len(disbursements[p])] = to]
        BY <1>3, <2>0, <2>4, <3>1, <4>1 DEF Disburses, Settle, RowsOK
      <4>3. /\ Len(disbursements'[p]) = Len(disbursements[p])
            /\ disbursements'[p][Len(disbursements[p])] = to
        BY <1>a, <2>4, <4>1, <4>2, ExceptSeq DEF AttemptStatuses
      <4> QED BY <1>b, <2>1, <2>2, <4>3 DEF Agrees
    <3> QED BY <3>2, <3>3
  <2>5. CASE to \notin {"PROCESSING", "COMPLETED", "FAILED"}
    <3>1. disbursements' = disbursements
      BY <1>3, <2>5 DEF Disburses
    <3>2. status[p] \notin AttemptStatuses
      BY <2>2, <2>5 DEF CanMove, AllowedTransitions, AttemptStatuses
    <3>3. disbursements[p] = <<>>
      <4> SUFFICES ASSUME disbursements[p] # <<>> PROVE FALSE
        OBVIOUS
      <4>1. disbursements[p][Len(disbursements[p])] \in AttemptStatuses
        BY <1>a
      <4> QED BY <1>b, <3>2, <4>1 DEF Agrees
    <3> QED BY <1>b, <2>1, <3>1, <3>3 DEF Agrees
  <2> QED BY <2>3, <2>4, <2>5
<1> QED BY <1>1, <1>2, <1>3, StepKinds

\* Until two transactions overlap, the newest disbursement of a request
\* tells the same story as its status.
THEOREM SerialNewestAttempt == Spec => []NewestAttemptAgrees
<1>1. Init => NewestAttemptAgrees
  BY DEF Init, NewestAttemptAgrees
<1>2. RowsOK /\ AloneInv /\ UpToDate /\ NewestAttemptAgrees /\ [Next]_vars => NewestAttemptAgrees'
  BY NewestStep
<1> QED BY <1>1, <1>2, RowsCorrect, AloneCorrect, UpToDateCorrect, PTL DEF Spec

=============================================================================
