----------------------------- MODULE StaffPanel -----------------------------
(***************************************************************************)
(* One message with the controls of the staff: the hub of a staff channel, *)
(* which everyone sees, or a private answer.  A press of a button runs a   *)
(* handler of staff.interactions.js or of the control center in            *)
(* dashboard.interactions.js, chosen by router.js: it checks the role,     *)
(* acknowledges the press, works on the database, and edits the message.   *)
(* Each of these is a step of its own, and other staff press the buttons   *)
(* of the same message meanwhile.                                          *)
(***************************************************************************)
EXTENDS Naturals, FiniteSets

CONSTANTS
  Staff,      \* people (one press each at a time)
  Places,     \* where the message may be: [channel, public]
  Submissions, Facebook, Creators, Campaigns, Payouts,  \* what there is to work on
  None,       \* nothing
  Verdicts,   \* what a new verification may come to
  MaxClicks, MaxFaults, MaxCrashes, MaxRoles, MaxOutside  \* bounds

\* The recording that comes with a payout request.
Recording(p) == <<"recording", p>>
Recordings   == {Recording(p) : p \in Payouts}
Items        == Submissions \cup Creators \cup Campaigns \cup Payouts \cup Recordings

SubmissionStatus == {"UNDER_REVIEW", "FLAGGED", "APPROVED", "REJECTED"}
CreatorStatus    == {"ACTIVE", "SUSPENDED", "BANNED"}
CampaignStatus   == {"DRAFT", "ACTIVE", "PAUSED", "COMPLETED", "ENDED", "ARCHIVED"}
PayoutStatuses   == {"REQUESTED", "UNDER_REVIEW", "APPROVED", "PROCESSING", "REJECTED"}
RecordingStatus  == {"PENDING", "ACCEPTED", "REJECTED"}

StatusesOf(x) ==
  CASE x \in Submissions -> SubmissionStatus [] x \in Creators -> CreatorStatus
    [] x \in Campaigns -> CampaignStatus     [] x \in Payouts -> PayoutStatuses
    [] x \in Recordings -> RecordingStatus

\* The hub each channel starts from.
HubOf == [c \in {"review-queue", "creators", "campaign-management", "payout-queue", "audit-log",
                 "bot-status", "bot-errors", "dashboard"} |->
            CASE c = "review-queue" -> "rqHub" [] c = "creators" -> "crHub"
              [] c = "campaign-management" -> "cmpHub" [] c = "payout-queue" -> "pqHub"
              [] c = "audit-log" -> "auditHub" [] c = "bot-status" -> "status"
              [] c = "bot-errors" -> "errors" [] c = "dashboard" -> "home"]

ASSUME StaffPanelConstants ==
  /\ Places \subseteq [channel: DOMAIN HubOf, public: BOOLEAN]
  /\ Cardinality(Creators) <= 1   \* whose clips the submissions are
  /\ Facebook \subseteq Submissions /\ Verdicts \subseteq SubmissionStatus
  /\ Submissions \cap (Creators \cup Campaigns \cup Payouts) = {}
  /\ Creators \cap (Campaigns \cup Payouts) = {} /\ Campaigns \cap Payouts = {}
  /\ Recordings \cap (Submissions \cup Creators \cup Campaigns \cup Payouts) = {}
  /\ None \notin Items
  /\ {MaxClicks, MaxFaults, MaxCrashes, MaxRoles, MaxOutside} \subseteq Nat

VARIABLES
  place,      \* the channel whose hub the message shows first, and whether the
              \* message is in that channel or a private answer
  panel,      \* the message: [screen, item, status, listed, note, row]
  status,     \* the status of every item
  role,       \* per staff member: "admin", "manager" or "none"
  form,       \* per staff member, the button whose form is open, or NoForm
  work,       \* per staff member, the press being handled
  refreshing, \* inFlightRefreshes
  elsewhere,  \* auxiliary: items whose change the panel may not show: made elsewhere
              \* since it was read, or drawn by an edit that failed
  overlapped, \* auxiliary: two presses were handled at the same time
  clicks, faults, crashes, roles, outside  \* what the bounds count

counts == <<clicks, faults, crashes, roles, outside>>
vars   == <<place, panel, status, role, form, work, refreshing, elsewhere, overlapped, counts>>

Idle   == [stage |-> "idle"]
NoForm == [do |-> "", item |-> None]

-----------------------------------------------------------------------------
(* What the handlers do: the right they ask for, how they acknowledge the  *)
(* press ("ack" leaves the message alone, "load" puts a disabled row in    *)
(* it, "form" answers with a form), the operation they run, the screen     *)
(* they draw, and whether the text above it is kept, removed or written.   *)
(* A strict handler reports that the message could not be edited.          *)

Shows(screen) == [right |-> "staff", first |-> "ack", does |-> "read", shows |-> screen,
                  note |-> "keep", strict |-> FALSE]
Loads(screen)    == [Shows(screen) EXCEPT !.first = "load", !.note = "clear"]
Does(op, screen) == [Shows(screen) EXCEPT !.does = op]
Asks(op)         == [Shows("") EXCEPT !.first = "form", !.does = op]
Money(h)         == [h EXCEPT !.right = "money"]
Strict(h)        == [h EXCEPT !.strict = TRUE]

\* Review queue
handleStaffReviewQueueHub        == Shows("rqHub")   \* see Drawn
handleStaffReviewQueueView       == Shows("rqList")
handleStaffSubmissionReverify    == Does("reverify", "submission")
handleStaffSubmissionView(from)  == Loads(IF from THEN "creatorClip" ELSE "submission")
handleStaffSubmissionApprove     == Does("approve", "submission")
handleStaffSubmissionRejectBtn   == Asks("reject")
handleStaffSubmissionFlag        == Does("flag", "submission")
handleStaffSubmissionKeepReview  == Does("keep", "submission")
handleStaffSubmissionRegistryList == Shows("registry")
handleStaffSubmissionRefreshMetrics ==
  [Loads("submission") EXCEPT !.does = "refresh", !.note = "set"]
handleStaffSubmissionManualMetricsBtn == Asks("metrics")
handleStaffSubmissionAnalytics   == Loads("analytics")
handleStaffSubmissionSearchBtn   == Asks("search")
\* Creators
handleStaffCreatorHub            == Shows("crHub")
handleStaffCreatorList           == Shows("crList")
handleStaffCreatorSearchBtn      == Asks("search")
handleStaffCreatorView           == Shows("creator")
handleStaffCreatorStatus(target) == Does(target, "creator")
handleStaffCreatorSubs           == Shows("crClips")
\* Campaigns
handleStaffCampaignHub           == Shows("cmpHub")
handleStaffCampaignList          == Shows("cmpList")
handleStaffCampaignCreateBtn     == Asks("create")
handleStaffCampaignView          == Shows("campaign")
handleStaffCampaignStatus(target) == Does(target, "campaign")
handleStaffCampaignReport        == Shows("report")
\* Payouts
handleStaffPayoutHub             == Shows("pqHub")
handleStaffPayoutQueueView       == Shows("pqList")
handleStaffPayoutHistory         == Shows("pqHistory")
handleStaffPayoutViewReq         == Shows("payout")
handleStaffEvidenceReview        == Shows("evidence")
handleStaffEvidenceAccept        == Money([Does("accept", "accepted") EXCEPT !.note = "set"])
handleStaffEvidenceRejectBtn     == Money(Asks("reject recording"))
handleStaffPayoutApprove         == Money(Does("pay approve", "payout"))
handleStaffPayoutRejectBtn       == Money(Asks("pay reject"))
handleStaffPayoutProcess         == Money([Does("process", "payout") EXCEPT !.note = "set"])
\* Audit log and system channels
handleStaffAuditHub              == Shows("auditHub")
handleStaffAuditList             == Shows("auditList")
handleStaffSystemStatus          == Shows("status")
handleStaffBotErrorsRefresh      == Shows("errors")
\* Control center
handleAdminControlCenter         == Strict(Shows("home"))
handleAdminReviewQueueNav        == Strict(Shows("navReviews"))
handleAdminPayoutQueueNav        == Strict(Shows("navPayouts"))
handleAdminCampaignsNav          == Strict(Shows("navCampaigns"))
handleAdminCreatorsNav           == Strict(Shows("navCreators"))
handleAdminReportsNav            == Strict(Shows("navReports"))
handleAdminSuspiciousNav         == Strict(Shows("navSuspicious"))
handleAdminTrackingNav           == Strict(Shows("navTracking"))
handleAdminDeletionsNav          == Strict(Shows("navDeletions"))
handleAdminMonitoringNav         == Strict(Shows("navMonitoring"))

\* The router: which handler a custom id goes to, tried family by family.
RegistryRoute(b) ==
  CASE b \in {"auditHub", "auditRefresh"} -> handleStaffAuditHub
    [] b = "auditList"    -> handleStaffAuditList
    [] b = "sysStatus"    -> handleStaffSystemStatus
    [] b = "sysErrors"    -> handleStaffBotErrorsRefresh
    [] b = "registry"     -> handleStaffSubmissionRegistryList
    [] b = "subSearch"    -> handleStaffSubmissionSearchBtn
    [] b = "subRefresh"   -> handleStaffSubmissionRefreshMetrics
    [] b = "subMetrics"   -> handleStaffSubmissionManualMetricsBtn
    [] b = "subAnalytics" -> handleStaffSubmissionAnalytics

PayoutRoute(b) ==
  CASE b \in {"pqHub", "pqRefresh"} -> handleStaffPayoutHub
    [] b = "pqView"     -> handleStaffPayoutQueueView
    [] b = "pqHistory"  -> handleStaffPayoutHistory
    [] b = "pqViewReq"  -> handleStaffPayoutViewReq
    [] b = "payApprove" -> handleStaffPayoutApprove
    [] b = "payReject"  -> handleStaffPayoutRejectBtn
    [] b = "payProcess" -> handleStaffPayoutProcess
    [] b = "evReview"   -> handleStaffEvidenceReview
    [] b = "evAccept"   -> handleStaffEvidenceAccept
    [] b = "evReject"   -> handleStaffEvidenceRejectBtn
    [] OTHER            -> RegistryRoute(b)

CampaignRoute(b) ==
  CASE b \in {"cmpHub", "cmpRefresh"} -> handleStaffCampaignHub
    [] b = "cmpList"   -> handleStaffCampaignList
    [] b = "cmpCreate" -> handleStaffCampaignCreateBtn
    [] b = "cmpView"   -> handleStaffCampaignView
    [] b = "cmpReport" -> handleStaffCampaignReport
    [] b = "cmpActive" -> handleStaffCampaignStatus("ACTIVE")
    [] b = "cmpPaused" -> handleStaffCampaignStatus("PAUSED")
    [] b = "cmpEnded"  -> handleStaffCampaignStatus("ENDED")
    [] OTHER           -> PayoutRoute(b)

CreatorRoute(b) ==
  CASE b \in {"crHub", "crRefresh"} -> handleStaffCreatorHub
    [] b = "crList"   -> handleStaffCreatorList
    [] b = "crSearch" -> handleStaffCreatorSearchBtn
    [] b = "crView"   -> handleStaffCreatorView
    [] b = "crSubs"   -> handleStaffCreatorSubs
    [] b \in CreatorStatus -> handleStaffCreatorStatus(b)
    [] OTHER          -> CampaignRoute(b)

ReviewRoute(b) ==
  CASE b \in {"rqHub", "rqRefresh"} -> handleStaffReviewQueueHub
    [] b = "rqView"      -> handleStaffReviewQueueView
    [] b = "subView"     -> handleStaffSubmissionView(FALSE)
    [] b = "subViewFrom" -> handleStaffSubmissionView(TRUE)
    [] b = "subApprove"  -> handleStaffSubmissionApprove
    [] b = "subKeep"     -> handleStaffSubmissionKeepReview
    [] b = "subReverify" -> handleStaffSubmissionReverify
    [] b = "subFlag"     -> handleStaffSubmissionFlag
    [] b = "subReject"   -> handleStaffSubmissionRejectBtn
    [] OTHER             -> CreatorRoute(b)

Route(b) ==
  CASE b \in {"home", "back", "refresh dashboard"} -> handleAdminControlCenter
    [] b = "navReviews"    -> handleAdminReviewQueueNav
    [] b = "navPayouts"    -> handleAdminPayoutQueueNav
    [] b = "navSuspicious" -> handleAdminSuspiciousNav
    [] b = "navTracking"   -> handleAdminTrackingNav
    [] b = "navDeletions"  -> handleAdminDeletionsNav
    [] b = "navMonitoring" -> handleAdminMonitoringNav
    [] b = "navCampaigns"  -> handleAdminCampaignsNav
    [] b = "navCreators"   -> handleAdminCreatorsNav
    [] b = "navReports"    -> handleAdminReportsNav
    [] OTHER               -> ReviewRoute(b)

\* The ids that have a handler; two buttons of a creator's card have none.
CustomIds ==
  {"home", "back", "refresh dashboard", "navReviews", "navPayouts", "navSuspicious", "navTracking",
   "navDeletions", "navMonitoring", "navCampaigns", "navCreators", "navReports",
   "rqHub", "rqRefresh", "rqView", "subView", "subViewFrom", "subApprove", "subKeep", "subReverify",
   "subFlag", "subReject",
   "crHub", "crRefresh", "crList", "crSearch", "crView", "crSubs",
   "cmpHub", "cmpRefresh", "cmpList", "cmpCreate", "cmpView", "cmpReport", "cmpActive", "cmpPaused",
   "cmpEnded",
   "pqHub", "pqRefresh", "pqView", "pqHistory", "pqViewReq", "payApprove", "payReject", "payProcess",
   "evReview", "evAccept", "evReject",
   "auditHub", "auditRefresh", "auditList", "sysStatus", "sysErrors",
   "registry", "subSearch", "subRefresh", "subMetrics", "subAnalytics"} \cup CreatorStatus

Routes == [b \in CustomIds |-> Route(b)]

-----------------------------------------------------------------------------
(* The buttons under each screen (staff.components.js)                     *)

Plain(names)   == {[do |-> n, item |-> None] : n \in names}
Each(name, xs) == {[do |-> name, item |-> x] : x \in xs}
Of(x, names)   == {[do |-> n, item |-> x] : n \in names}
BackToCreators == IF place.channel = "creators" THEN Plain({"crHub"}) ELSE {}

buildStaffReviewQueueHubRow == Plain({"rqView", "rqRefresh"}) \cup BackToCreators
BugReviewQueueNavRow(xs) == Each("subView", xs) \cup Plain({"rqView"})
buildStaffReviewQueueNavRow(xs) ==
  Each("subView", xs) \cup Plain({"rqView", IF place.channel = "creators" THEN "crHub" ELSE "rqHub"})
buildStaffSubmissionDetailRow(x, st, from) ==
  Of(x, {"subAnalytics", "subRefresh", "subReverify"} \cup (IF x \in Facebook THEN {"subMetrics"} ELSE {}))
  \cup Plain({"registry"})
  \cup (IF from THEN Each("crSubs", Creators) \cup Plain({"crHub"}) ELSE Plain({"rqView"}))
  \cup IF st \in {"APPROVED", "REJECTED"} THEN {}
       ELSE Of(x, {"subApprove", "subReject", IF st = "FLAGGED" THEN "subKeep" ELSE "subFlag"})
buildStaffSubmissionRegistryNavRow(xs) == Each("subView", xs) \cup Plain({"subSearch", "registry"})
buildStaffAnalyticsNavRow(x)     == Of(x, {"subView", "subAnalytics"})
buildStaffCreatorHubRow          == Plain({"crList", "crSearch", "crRefresh"})
buildStaffCreatorNavRow(xs)      == Each("crView", xs) \cup Plain({"crHub", "crSearch"})
buildStaffCreatorDetailRow(x, st) ==
  Of(x, {"crSubs", "crEarnings", "crPayouts"} \cup (CreatorStatus \ {st})) \cup Plain({"crList", "crHub"})
buildStaffCreatorSubsNavRow(x, xs) ==
  Each("subViewFrom", xs) \cup Of(x, {"crView"}) \cup Plain({"crHub"})
buildStaffCampaignHubRow         == Plain({"cmpList", "cmpCreate", "cmpRefresh"})
buildStaffCampaignNavRow(xs)     == Each("cmpView", xs) \cup Plain({"cmpHub", "cmpCreate"})
buildStaffCampaignDetailRow(x, st) ==
  Of(x, {"cmpReport"} \cup (IF st \in {"ACTIVE", "COMPLETED"} THEN {} ELSE {"cmpActive"})
        \cup (IF st = "ACTIVE" THEN {"cmpPaused"} ELSE {})
        \cup (IF st \in {"ENDED", "ARCHIVED"} THEN {} ELSE {"cmpEnded"}))
  \cup Plain({"cmpList"})
ReportRows(x, xs)                == Each("subView", xs) \cup Of(x, {"cmpView", "cmpReport"})
buildStaffPayoutHubRow           == Plain({"pqView", "pqHistory", "pqRefresh"})
buildStaffPayoutNavRow(xs, list) == Each("pqViewReq", xs) \cup Plain({"pqHub", list})
buildStaffPayoutDetailRow(x, st) ==
  Of(x, {"evReview"} \cup CASE st \in {"REQUESTED", "UNDER_REVIEW"} -> {"payApprove", "payReject"}
                            [] st = "APPROVED" -> {"payProcess"}
                            [] OTHER -> {})
  \cup Plain({"pqView"})
buildStaffEvidenceReviewRow(x, st) ==
  Of(x, {"pqViewReq"} \cup (IF st = "ACCEPTED" THEN {} ELSE {"evAccept"})
                      \cup (IF st = "REJECTED" THEN {} ELSE {"evReject"}))
buildStaffAuditHubRow            == Plain({"auditList", "auditRefresh"})
buildStaffAuditNavRow            == Plain({"auditHub", "auditList"})
buildStaffSystemStatusRow        == Plain({"sysStatus"})
buildStaffSystemErrorsRow        == Plain({"sysErrors"})
buildAdminControlCenterRows ==
  Plain({"navReviews", "navSuspicious", "navPayouts", "navTracking", "navDeletions", "navMonitoring",
         "navCreators", "navCampaigns", "navReports", "refresh dashboard"})
buildAdminNavRow                 == Plain({"back", "home"})

\* The buttons that can be pressed; the loading row is disabled.
Buttons(v) ==
  CASE v.row = "loading"         -> {}
    [] v.screen = "rqHub"        -> buildStaffReviewQueueHubRow
    [] v.screen = "rqList"       -> buildStaffReviewQueueNavRow(v.listed)
    [] v.screen = "submission"   -> buildStaffSubmissionDetailRow(v.item, v.status, FALSE)
    [] v.screen = "creatorClip"  -> buildStaffSubmissionDetailRow(v.item, v.status, TRUE)
    [] v.screen = "registry"     -> buildStaffSubmissionRegistryNavRow(v.listed)
    [] v.screen = "analytics"    -> buildStaffAnalyticsNavRow(v.item)
    [] v.screen = "crHub"        -> buildStaffCreatorHubRow
    [] v.screen = "crList"       -> buildStaffCreatorNavRow(v.listed)
    [] v.screen = "creator"      -> buildStaffCreatorDetailRow(v.item, v.status)
    [] v.screen = "crClips"      -> buildStaffCreatorSubsNavRow(v.item, v.listed)
    [] v.screen = "cmpHub"       -> buildStaffCampaignHubRow
    [] v.screen = "cmpList"      -> buildStaffCampaignNavRow(v.listed)
    [] v.screen = "campaign"     -> buildStaffCampaignDetailRow(v.item, v.status)
    [] v.screen = "report"       -> ReportRows(v.item, v.listed)
    [] v.screen = "pqHub"        -> buildStaffPayoutHubRow
    [] v.screen = "pqList"       -> buildStaffPayoutNavRow(v.listed, "pqView")
    [] v.screen = "pqHistory"    -> buildStaffPayoutNavRow(v.listed, "pqHistory")
    [] v.screen = "payout"       -> buildStaffPayoutDetailRow(v.item, v.status)
    [] v.screen = "evidence"     -> buildStaffEvidenceReviewRow(v.item, v.status)
    [] v.screen = "accepted"     -> Of(v.item, {"pqViewReq"})
    [] v.screen = "auditHub"     -> buildStaffAuditHubRow
    [] v.screen = "auditList"    -> buildStaffAuditNavRow
    [] v.screen = "status"       -> buildStaffSystemStatusRow
    [] v.screen = "errors"       -> buildStaffSystemErrorsRow
    [] v.screen = "home"         -> buildAdminControlCenterRows
    [] v.screen = "navReports"   -> buildAdminNavRow
    [] v.screen = "navPayouts"   -> buildAdminNavRow \cup Each("pqViewReq", v.listed)
    [] v.screen = "navCampaigns" -> buildAdminNavRow \cup Each("cmpView", v.listed) \cup Plain({"cmpCreate"})
    [] v.screen = "navCreators"  -> buildAdminNavRow \cup Each("crView", v.listed) \cup Plain({"crSearch"})
    [] OTHER                     -> buildAdminNavRow \cup Each("subView", v.listed)

-----------------------------------------------------------------------------
(* What a screen shows when it is read from the database                   *)

WithStatus(st, now) == {x \in Submissions : now[x] \in st}

\* The items a list may show.  Which clips are watched or were taken down is
\* not in the status and left open.
Lists(screen, now) ==
  CASE screen \in {"rqList", "navReviews"}  -> {WithStatus({"UNDER_REVIEW", "FLAGGED"}, now)}
    [] screen = "navSuspicious"             -> {WithStatus({"FLAGGED"}, now)}
    [] screen = "navTracking"               -> {WithStatus({"APPROVED"}, now)}
    [] screen = "navMonitoring"             -> SUBSET WithStatus({"APPROVED"}, now)
    [] screen = "navDeletions"              -> SUBSET Submissions
    [] screen \in {"registry", "crClips", "report"} -> {Submissions}
    [] screen \in {"crList", "navCreators"} -> {Creators}
    [] screen = "cmpList"                   -> {Campaigns}
    [] screen = "navCampaigns"              -> {{x \in Campaigns : now[x] = "ACTIVE"}}
    [] screen \in {"pqList", "navPayouts"}  -> {{x \in Payouts : now[x] = "REQUESTED"}}
    [] screen = "pqHistory"                 -> {Payouts}
    [] OTHER                                -> {{}}

ItemScreens == {"submission", "creatorClip", "analytics", "creator", "crClips", "campaign", "report",
                "payout", "evidence", "accepted"}
Cards       == {"submission", "creatorClip", "creator", "campaign", "payout", "evidence"}
Subject(screen, x) == IF screen = "evidence" THEN Recording(x) ELSE x

BugRead(screen, x, now) ==
  {[screen |-> screen, item |-> IF screen \in ItemScreens THEN x ELSE None, listed |-> xs,
    status |-> IF screen \in Cards THEN status[Subject(screen, x)] ELSE None] : xs \in Lists(screen, now)}

\* What a handler that draws screen about x reads
\* when the statuses are now.
Read(screen, x, now) ==
  {[screen |-> screen, item |-> IF screen \in ItemScreens THEN x ELSE None, listed |-> xs,
    status |-> IF screen \in Cards THEN now[Subject(screen, x)] ELSE None] : xs \in Lists(screen, now)}

\* In #creators the hub of the review queue is the hub of the creators.
Drawn(h) == IF h.shows = "rqHub" /\ place.channel = "creators" THEN "crHub" ELSE h.shows

\* Discord refuses a message with two buttons of the same id: in #creators the
\* row under the review queue has the button to the hub twice.
Refused(screen) == place.channel = "creators" /\ screen = "rqList"

-----------------------------------------------------------------------------
(* What the operations make of the status of an item: {} when they throw   *)

Target(op, x) == IF op \in {"accept", "reject recording"} THEN Recording(x) ELSE x

CampaignMoves == [DRAFT |-> {"ACTIVE", "ARCHIVED"}, ACTIVE |-> {"PAUSED", "ENDED", "COMPLETED"},
                  PAUSED |-> {"ACTIVE", "ENDED"}, COMPLETED |-> {"ARCHIVED"},
                  ENDED |-> {"ARCHIVED"}, ARCHIVED |-> {}]

Outcomes(op, x) ==
  CASE x \in Submissions /\ op = "approve"  -> IF status[x] = "APPROVED" THEN {} ELSE {"APPROVED"}
    [] x \in Submissions /\ op = "reject"   -> {"REJECTED"}
    [] x \in Submissions /\ op = "flag"     -> {"FLAGGED"}
    [] x \in Submissions /\ op = "keep"     -> {"UNDER_REVIEW"}
    [] x \in Submissions /\ op = "reverify" -> Verdicts
    [] x \in Creators /\ op \in CreatorStatus  -> {op}
    [] x \in Campaigns /\ op \in CampaignStatus ->
         {op} \cap (CampaignMoves[status[x]] \cup {status[x]})
    [] op = "pay approve"      -> IF status[x] \in {"REQUESTED", "UNDER_REVIEW"} THEN {"APPROVED"} ELSE {}
    [] op = "pay reject"       -> IF status[x] \in {"REQUESTED", "UNDER_REVIEW"} THEN {"REJECTED"} ELSE {}
    [] op = "process"          -> IF status[x] = "APPROVED" /\ status[Recording(x)] = "ACCEPTED"
                                  THEN {"PROCESSING"} ELSE {}
    [] op = "accept"           -> {"ACCEPTED"}
    [] op = "reject recording" -> {"REJECTED"}
    [] OTHER                   -> {None}   \* the status stays as it is

\* Operation op on x comes to st.
Apply(op, x, st) ==
  IF st = None \/ status[Target(op, x)] = st THEN UNCHANGED status
  ELSE status' = [status EXCEPT ![Target(op, x)] = st]

-----------------------------------------------------------------------------
Init ==
  /\ place \in Places
  /\ panel = [screen |-> HubOf[place.channel], item |-> None, status |-> None, listed |-> {},
              note |-> "", row |-> "buttons"]
  /\ status = [x \in Items |-> CASE x \in Submissions -> "UNDER_REVIEW" [] x \in Creators -> "ACTIVE"
                                 [] x \in Campaigns -> "ACTIVE" [] x \in Payouts -> "REQUESTED"
                                 [] OTHER -> "PENDING"]
  /\ role \in [Staff -> {"admin", "manager"}]
  /\ form = [s \in Staff |-> NoForm]
  /\ work = [s \in Staff |-> Idle]
  /\ refreshing = {}
  /\ elsewhere = {} /\ overlapped = FALSE
  /\ clicks = 0 /\ faults = 0 /\ crashes = 0 /\ roles = 0 /\ outside = 0

Become(s, w) == work' = [work EXCEPT ![s] = w]
Fault        == faults < MaxFaults /\ faults' = faults + 1
H(s)         == Routes[work[s].do]

\* assertAdminPermission: a manager may do everything but decide on money.
Allowed(s, h) == role[s] = "admin" \/ (role[s] = "manager" /\ h.right = "staff")

\* The router answers what cannot be done with a private message.
Turned(b, s) == Allowed(s, Routes[b.do]) => (b.do = "subRefresh" /\ b.item \in refreshing)

\* A press of one of the buttons the message has.
Press(s, b) ==
  /\ work[s] = Idle /\ form[s] = NoForm /\ role[s] # "none"
  /\ clicks < MaxClicks /\ clicks' = clicks + 1
  /\ b \in Buttons(panel)
  /\ \/ /\ b.do \notin DOMAIN Routes   \* no case of handleAdminButtonInteraction fits
        /\ UNCHANGED <<form, work, refreshing>>
     \/ /\ b.do \in DOMAIN Routes /\ Turned(b, s)
        /\ UNCHANGED <<form, work, refreshing>>
     \/ /\ b.do \in DOMAIN Routes /\ ~Turned(b, s)
        /\ IF Routes[b.do].first = "form"
           THEN form' = [form EXCEPT ![s] = b] /\ UNCHANGED <<work, refreshing>>
           ELSE /\ Become(s, [stage |-> "ack", do |-> b.do, item |-> b.item,
                              deferred |-> FALSE, loading |-> FALSE])
                /\ refreshing' = IF b.do = "subRefresh" THEN refreshing \cup {b.item} ELSE refreshing
                /\ UNCHANGED form
  /\ overlapped' = (overlapped \/ \E t \in Staff \ {s} : work[t] # Idle \/ form[t] # NoForm)
  /\ UNCHANGED <<place, panel, status, role, elsewhere, faults, crashes, roles, outside>>

\* ack, showLoadingFeedback.
Ack(s) ==
  /\ work[s].stage = "ack"
  /\ LET loads == H(s).first = "load" IN
     /\ panel' = IF loads THEN [panel EXCEPT !.row = "loading", !.note = "loading"]
                 ELSE panel
     /\ Become(s, [work[s] EXCEPT !.stage = "do", !.deferred = TRUE, !.loading = loads])
  /\ UNCHANGED <<place, status, role, form, refreshing, elsewhere, overlapped, counts>>

\* The acknowledgement fails and the handler goes on; showLoadingFeedback
\* still acknowledges without the row when that works.
AckFails(s) ==
  /\ work[s].stage = "ack" /\ Fault
  /\ \E deferred \in {FALSE, H(s).first = "load"} :
       Become(s, [work[s] EXCEPT !.stage = "do", !.deferred = deferred])
  /\ UNCHANGED <<place, panel, status, role, form, refreshing, elsewhere, overlapped, clicks, crashes, roles, outside>>

BugRelease(s) == refreshing

\* The finally clause of a refresh.
Release(s) == IF work[s].do = "subRefresh" THEN refreshing \ {work[s].item} ELSE refreshing

\* safeReply after an error: a private message, but on a private panel that
\* the press was acknowledged for, the error replaces the text of the panel.
Report(s) ==
  panel' = IF ~place.public /\ work[s].deferred THEN [panel EXCEPT !.note = "error"] ELSE panel

\* The handler does its work and reads what it will draw.
Do(s) ==
  /\ work[s].stage = "do"
  /\ LET w == work[s]  h == H(s) IN
     \E st \in Outcomes(h.does, w.item) :
       /\ Apply(h.does, w.item, st)
       /\ \E v \in Read(Drawn(h), w.item, status') :
            Become(s, [stage |-> "draw", do |-> w.do, item |-> w.item,
                       deferred |-> w.deferred, loading |-> w.loading, view |-> v])
  /\ elsewhere' = {}
  /\ UNCHANGED <<place, panel, role, form, refreshing, overlapped, counts>>

\* The service throws: the operation does not apply any more, or a query or
\* a provider fails.
Throw(s) ==
  /\ work[s].stage = "do"
  /\ \/ Outcomes(H(s).does, work[s].item) = {} /\ UNCHANGED faults
     \/ Fault
  /\ Report(s)
  /\ refreshing' = Release(s)
  /\ Become(s, Idle)
  /\ UNCHANGED <<place, status, role, form, elsewhere, overlapped, clicks, crashes, roles, outside>>

NoteAfter(h) ==
  CASE h.note = "keep"  -> panel.note
    [] h.note = "clear" -> ""
    [] h.note = "set"   -> "done"

\* The message that shows v.
Message(v, note, row) ==
  [screen |-> v.screen, item |-> v.item, status |-> v.status, listed |-> v.listed,
   note |-> note, row |-> row]

BugDraw(s) ==
  /\ work[s].stage = "draw"
  /\ panel' = Message(work[s].view, NoteAfter(H(s)), panel.row)
  /\ refreshing' = Release(s)
  /\ Become(s, Idle)
  /\ UNCHANGED <<place, status, role, form, elsewhere, overlapped, counts>>

\* safeEditReply and editReply: the message becomes what the handler read.
Draw(s) ==
  /\ work[s].stage = "draw"
  /\ LET w == work[s] IN
     /\ ~Refused(w.view.screen)
     /\ H(s).strict => w.deferred
     /\ panel' = Message(w.view, NoteAfter(H(s)), "buttons")
  /\ refreshing' = Release(s)
  /\ Become(s, Idle)
  /\ UNCHANGED <<place, status, role, form, elsewhere, overlapped, counts>>

\* The edit fails: safeEditReply says nothing, editReply throws.
DrawFails(s) ==
  /\ work[s].stage = "draw"
  /\ \/ Refused(work[s].view.screen) /\ UNCHANGED faults
     \/ H(s).strict /\ ~work[s].deferred /\ UNCHANGED faults
     \/ Fault
  /\ IF H(s).strict THEN Report(s) ELSE UNCHANGED panel
  /\ refreshing' = Release(s)
  /\ Become(s, Idle)
  /\ elsewhere' = Items
  /\ UNCHANGED <<place, status, role, form, overlapped, clicks, crashes, roles, outside>>

\* A form is sent: the right is checked again, and the answer is private.
Submit(s) ==
  /\ form[s] # NoForm
  /\ LET h == Routes[form[s].do]  x == form[s].item IN
     \/ /\ Allowed(s, h)
        /\ \E st \in Outcomes(h.does, x) : Apply(h.does, x, st)
        /\ elsewhere' = elsewhere \cup {Target(h.does, x)}
     \/ /\ ~Allowed(s, h) \/ Outcomes(h.does, x) = {}
        /\ UNCHANGED <<status, elsewhere>>
  /\ form' = [form EXCEPT ![s] = NoForm]
  /\ UNCHANGED <<place, panel, role, work, refreshing, overlapped, counts>>

CloseForm(s) ==
  /\ form[s] # NoForm
  /\ form' = [form EXCEPT ![s] = NoForm]
  /\ UNCHANGED <<place, panel, status, role, work, refreshing, elsewhere, overlapped, counts>>

-----------------------------------------------------------------------------
(* Meanwhile                                                               *)

\* A worker decides on a clip, or a campaign runs out of budget.
Elsewhere(x) ==
  /\ outside < MaxOutside /\ outside' = outside + 1
  /\ \/ x \in Submissions /\ \E st \in SubmissionStatus \ {status[x]} : status' = [status EXCEPT ![x] = st]
     \/ x \in Campaigns /\ status[x] = "ACTIVE" /\ status' = [status EXCEPT ![x] = "COMPLETED"]
  /\ elsewhere' = elsewhere \cup {x}
  /\ UNCHANGED <<place, panel, role, form, work, refreshing, overlapped, clicks, faults, crashes, roles>>

\* The roles of a member change.
NewRole(s) ==
  /\ roles < MaxRoles /\ roles' = roles + 1
  /\ \E r \in {"admin", "manager", "none"} \ {role[s]} : role' = [role EXCEPT ![s] = r]
  /\ UNCHANGED <<place, panel, status, form, work, refreshing, elsewhere, overlapped, clicks, faults, crashes, outside>>

\* The process dies: the presses it was handling and inFlightRefreshes are
\* gone, the message stays.
Crash ==
  /\ crashes < MaxCrashes /\ crashes' = crashes + 1
  /\ work' = [s \in Staff |-> Idle] /\ refreshing' = {} /\ elsewhere' = Items
  /\ UNCHANGED <<place, panel, status, role, form, overlapped, clicks, faults, roles, outside>>

Handle(s) == Ack(s) \/ Do(s) \/ Throw(s) \/ Draw(s) \/ DrawFails(s)

Next ==
  \/ \E s \in Staff : \/ \E b \in Buttons(panel) : Press(s, b)
                      \/ Handle(s) \/ AckFails(s) \/ Submit(s) \/ CloseForm(s) \/ NewRole(s)
  \/ \E x \in Submissions \cup Campaigns : Elsewhere(x)
  \/ Crash

Spec     == Init /\ [][Next]_vars
FairSpec == Spec /\ \A s \in Staff : WF_vars(Handle(s))

-----------------------------------------------------------------------------
(* Properties                                                              *)

\* The message, the statuses and the presses being handled are well formed.
TypeOK ==
  /\ \A x \in Items : status[x] \in StatusesOf(x)
  /\ role \in [Staff -> {"admin", "manager", "none"}]
  /\ panel.row \in {"buttons", "loading"} /\ panel.note \in {"", "loading", "done", "error"}
  /\ panel.item \in Items \cup {None} /\ panel.listed \subseteq Items
  /\ panel.screen \in Cards => panel.status \in StatusesOf(Subject(panel.screen, panel.item))
  /\ \A s \in Staff : work[s] # Idle => /\ work[s].stage \in {"ack", "do", "draw"}
                                        /\ work[s].do \in DOMAIN Routes
  /\ refreshing \subseteq Submissions

\* Until two presses overlap, a card shows the status its item has, unless that
\* was changed through a form or by someone else since the card was read, or an
\* edit failed: after every button, the message is drawn from what the operation
\* left (staff.interactions.js).
ShowsTruth ==
  ~overlapped /\ panel.screen \in Cards =>
    \/ Subject(panel.screen, panel.item) \in elsewhere
    \/ status[Subject(panel.screen, panel.item)] = panel.status
    \/ \E s \in Staff : work[s] # Idle /\ work[s].stage = "draw"

\* A submission is locked for refreshing only while a refresh of it is running:
\* errors, failed edits and restarts all release it.
RefreshReleased ==
  \A x \in refreshing : \E s \in Staff : work[s] # Idle /\ work[s].do = "subRefresh" /\ work[s].item = x

\* What the messages vs show, and what one press of a button that only reads makes
\* of them.
Ahead(vs) ==
  vs \cup UNION {{Message(v, "", "buttons") : v \in Read(Drawn(Routes[b.do]), b.item, status)}
                 : b \in {c \in UNION {Buttons(v) : v \in vs} :
                            /\ c.do \in DOMAIN Routes
                            /\ Routes[c.do].does = "read" /\ ~Refused(Drawn(Routes[c.do]))}}

\* From everything the message shows, at most three presses lead back to the hub
\* of its channel (staff.components.js); in the control center, in #creators and
\* in #campaign-management they do not always.
WayBack ==
  place.channel \notin {"dashboard", "creators", "campaign-management"} /\ panel.row = "buttons" =>
    \E v \in Ahead(Ahead(Ahead({panel}))) : v.screen = HubOf[place.channel]

\* The loading row goes away again, unless something fails or the process dies.
LoadingEnds == panel.row = "loading" ~> panel.row = "buttons" \/ faults > 0 \/ crashes > 0

=============================================================================
