---------------------------- MODULE ServerProofs ----------------------------
(***************************************************************************)
(* Proofs about the parts that run and serve the server, for every value   *)
(* of their constants: the messages and controls of the staff              *)
(* (StaffPanel), the process with its start and its end (Process), the hub *)
(* of a managed channel (ChannelHub) and the set-up of a server            *)
(* (Provisioner).                                                          *)
(***************************************************************************)
EXTENDS Sequences, StaffPanel, Platform, Sums, TLAPS

(***************************************************************************)
(* The items.  Their kinds are disjoint, so each has its own statuses.     *)
(***************************************************************************)

LEMMA Kinds ==
  ASSUME NEW x
  PROVE  /\ x \in Submissions => x \in Items /\ StatusesOf(x) = SubmissionStatus
         /\ x \in Creators => x \in Items /\ StatusesOf(x) = CreatorStatus
         /\ x \in Campaigns => x \in Items /\ StatusesOf(x) = CampaignStatus
         /\ x \in Payouts => /\ x \in Items /\ StatusesOf(x) = PayoutStatuses
                             /\ Recording(x) \in Items /\ StatusesOf(Recording(x)) = RecordingStatus
<1>1. x \in Submissions => StatusesOf(x) = SubmissionStatus
  BY StaffPanelConstants DEF StatusesOf, Items
<1>2. x \in Creators => StatusesOf(x) = CreatorStatus
  BY StaffPanelConstants DEF StatusesOf, Items
<1>3. x \in Campaigns => StatusesOf(x) = CampaignStatus
  BY StaffPanelConstants DEF StatusesOf, Items
<1>4. x \in Payouts => StatusesOf(x) = PayoutStatuses
  BY StaffPanelConstants DEF StatusesOf, Items
<1>5. x \in Payouts => Recording(x) \in Recordings
  BY DEF Recordings
<1>6. ASSUME NEW y \in Recordings
      PROVE  StatusesOf(y) = RecordingStatus
  BY <1>6, StaffPanelConstants DEF StatusesOf, Items
<1> QED BY <1>1, <1>2, <1>3, <1>4, <1>5, <1>6 DEF Items

(***************************************************************************)
(* The router: what a button takes, and what its handler draws and does.   *)
(***************************************************************************)

SubmissionIds == {"subView", "subViewFrom", "subApprove", "subKeep", "subReverify", "subFlag", "subReject",
                  "subRefresh", "subMetrics", "subAnalytics"}
CreatorIds    == {"crView", "crSubs"} \cup CreatorStatus
CampaignIds   == {"cmpView", "cmpReport", "cmpActive", "cmpPaused", "cmpEnded"}
PayoutIds     == {"pqViewReq", "payApprove", "payReject", "payProcess", "evReview", "evAccept", "evReject"}

SubmissionOps == {"approve", "reject", "flag", "keep", "reverify", "refresh", "metrics"}
CampaignOps   == {"ACTIVE", "PAUSED", "ENDED"}
PayoutOps     == {"pay approve", "pay reject", "process", "accept", "reject recording"}

NavScreens == {"navReviews", "navSuspicious", "navPayouts", "navTracking", "navDeletions", "navMonitoring",
               "navCreators", "navCampaigns", "navReports"}
ListScreens == {"rqHub", "rqList", "registry", "crHub", "crList", "cmpHub", "cmpList", "pqHub", "pqList",
                "pqHistory", "auditHub", "auditList", "status", "errors", "home"} \cup NavScreens

SubmissionScreens == {"submission", "creatorClip", "analytics"}
CreatorScreens    == {"creator", "crClips"}
CampaignScreens   == {"campaign", "report"}
PayoutScreens     == {"payout", "evidence", "accepted"}

\* What the router makes of b works on the items that b comes with, and is a
\* form or draws a list or a screen about these items.
Routed(b, h) ==
  /\ h.first \in {"ack", "load", "form"} /\ h.note \in {"keep", "clear", "set"}
  /\ \/ h.does \in {"read", "search", "create"}
     \/ b \in SubmissionIds /\ h.does \in SubmissionOps
     \/ b \in CreatorIds /\ h.does \in CreatorStatus
     \/ b \in CampaignIds /\ h.does \in CampaignOps
     \/ b \in PayoutIds /\ h.does \in PayoutOps
  /\ \/ h.first = "form"
     \/ h.shows \in ListScreens
     \/ b \in SubmissionIds /\ h.shows \in SubmissionScreens
     \/ b \in CreatorIds /\ h.shows \in CreatorScreens
     \/ b \in CampaignIds /\ h.shows \in CampaignScreens
     \/ b \in PayoutIds /\ h.shows \in PayoutScreens

RegistryButtons ==
  {"auditHub", "auditRefresh", "auditList", "sysStatus", "sysErrors", "registry", "subSearch", "subRefresh",
   "subMetrics", "subAnalytics"}
PayoutButtons ==
  {"pqHub", "pqRefresh", "pqView", "pqHistory", "pqViewReq", "payApprove", "payReject", "payProcess",
   "evReview", "evAccept", "evReject"}
CampaignButtons ==
  {"cmpHub", "cmpRefresh", "cmpList", "cmpCreate", "cmpView", "cmpReport", "cmpActive", "cmpPaused",
   "cmpEnded"}
CreatorButtons == {"crHub", "crRefresh", "crList", "crSearch", "crView", "crSubs"} \cup CreatorStatus
ReviewButtons ==
  {"rqHub", "rqRefresh", "rqView", "subView", "subViewFrom", "subApprove", "subKeep", "subReverify",
   "subFlag", "subReject"}
CenterButtons ==
  {"home", "back", "refresh dashboard", "navReviews", "navPayouts", "navSuspicious", "navTracking",
   "navDeletions", "navMonitoring", "navCampaigns", "navCreators", "navReports"}

LEMMA RegistryRouted ==
  ASSUME NEW b \in RegistryButtons
  PROVE  Routed(b, RegistryRoute(b))
  BY DEF RegistryButtons, Routed, RegistryRoute, Shows, Loads, Does, Asks, ListScreens,
         SubmissionScreens, SubmissionOps, SubmissionIds,
         handleStaffAuditHub, handleStaffAuditList, handleStaffSystemStatus, handleStaffBotErrorsRefresh,
         handleStaffSubmissionRegistryList, handleStaffSubmissionSearchBtn,
         handleStaffSubmissionRefreshMetrics, handleStaffSubmissionManualMetricsBtn,
         handleStaffSubmissionAnalytics

LEMMA PayoutRouted ==
  ASSUME NEW b \in PayoutButtons \cup RegistryButtons
  PROVE  Routed(b, PayoutRoute(b))
<1>1. CASE b \in PayoutButtons
  BY <1>1 DEF PayoutButtons, Routed, PayoutRoute, Shows, Does, Asks, Money, ListScreens,
         PayoutScreens, PayoutOps, PayoutIds,
         handleStaffPayoutHub, handleStaffPayoutQueueView, handleStaffPayoutHistory,
         handleStaffPayoutViewReq, handleStaffEvidenceReview, handleStaffEvidenceAccept,
         handleStaffEvidenceRejectBtn, handleStaffPayoutApprove, handleStaffPayoutRejectBtn,
         handleStaffPayoutProcess
<1>2. CASE b \notin PayoutButtons
  <2>1. PayoutRoute(b) = RegistryRoute(b)
    BY <1>2 DEF PayoutButtons, PayoutRoute
  <2> QED BY <1>2, <2>1, RegistryRouted
<1> QED BY <1>1, <1>2

LEMMA CampaignRouted ==
  ASSUME NEW b \in CampaignButtons \cup PayoutButtons \cup RegistryButtons
  PROVE  Routed(b, CampaignRoute(b))
<1>1. CASE b \in CampaignButtons
  BY <1>1 DEF CampaignButtons, Routed, CampaignRoute, Shows, Does, Asks, ListScreens,
         CampaignScreens, CampaignOps, CampaignIds,
         handleStaffCampaignHub, handleStaffCampaignList, handleStaffCampaignCreateBtn,
         handleStaffCampaignView, handleStaffCampaignStatus, handleStaffCampaignReport
<1>2. CASE b \notin CampaignButtons
  <2>1. CampaignRoute(b) = PayoutRoute(b)
    BY <1>2 DEF CampaignButtons, CampaignRoute
  <2> QED BY <1>2, <2>1, PayoutRouted
<1> QED BY <1>1, <1>2

LEMMA CreatorRouted ==
  ASSUME NEW b \in CreatorButtons \cup CampaignButtons \cup PayoutButtons \cup RegistryButtons
  PROVE  Routed(b, CreatorRoute(b))
<1>1. CASE b \in CreatorButtons
  BY <1>1 DEF CreatorButtons, Routed, CreatorRoute, Shows, Does, Asks, ListScreens,
         CreatorScreens, CreatorIds, CreatorStatus,
         handleStaffCreatorHub, handleStaffCreatorList, handleStaffCreatorSearchBtn,
         handleStaffCreatorView, handleStaffCreatorStatus, handleStaffCreatorSubs
<1>2. CASE b \notin CreatorButtons
  <2>1. CreatorRoute(b) = CampaignRoute(b)
    BY <1>2 DEF CreatorButtons, CreatorRoute
  <2> QED BY <1>2, <2>1, CampaignRouted
<1> QED BY <1>1, <1>2

LEMMA ReviewRouted ==
  ASSUME NEW b \in ReviewButtons \cup CreatorButtons \cup CampaignButtons \cup PayoutButtons
                   \cup RegistryButtons
  PROVE  Routed(b, ReviewRoute(b))
<1>1. CASE b \in ReviewButtons
  BY <1>1 DEF ReviewButtons, Routed, ReviewRoute, Shows, Loads, Does, Asks, ListScreens,
         SubmissionScreens, SubmissionOps, SubmissionIds,
         handleStaffReviewQueueHub, handleStaffReviewQueueView, handleStaffSubmissionView,
         handleStaffSubmissionApprove, handleStaffSubmissionKeepReview, handleStaffSubmissionReverify,
         handleStaffSubmissionFlag, handleStaffSubmissionRejectBtn
<1>2. CASE b \notin ReviewButtons
  <2>1. ReviewRoute(b) = CreatorRoute(b)
    BY <1>2 DEF ReviewButtons, ReviewRoute
  <2> QED BY <1>2, <2>1, CreatorRouted
<1> QED BY <1>1, <1>2

LEMMA RouterKnows ==
  ASSUME NEW b \in CustomIds
  PROVE  Routed(b, Routes[b])
<1>1. CASE b \in CenterButtons
  BY <1>1 DEF CenterButtons, Routed, Routes, Route, Shows, Strict, ListScreens, NavScreens,
         handleAdminControlCenter, handleAdminReviewQueueNav, handleAdminPayoutQueueNav,
         handleAdminCampaignsNav, handleAdminCreatorsNav, handleAdminReportsNav,
         handleAdminSuspiciousNav, handleAdminTrackingNav, handleAdminDeletionsNav,
         handleAdminMonitoringNav
<1>2. CASE b \notin CenterButtons
  <2>1. Routes[b] = ReviewRoute(b)
    BY <1>2 DEF CenterButtons, Routes, Route
  <2>2. b \in ReviewButtons \cup CreatorButtons \cup CampaignButtons \cup PayoutButtons
             \cup RegistryButtons
    BY <1>2 DEF CustomIds, CenterButtons, ReviewButtons, CreatorButtons, CampaignButtons,
               PayoutButtons, RegistryButtons
  <2> QED BY <2>1, <2>2, ReviewRouted
<1> QED BY <1>1, <1>2

(***************************************************************************)
(* The messages                                                            *)
(***************************************************************************)

\* Item x is of the kind that button b works on.
Fits(b, x) ==
  /\ b \in SubmissionIds => x \in Submissions
  /\ b \in CreatorIds => x \in Creators
  /\ b \in CampaignIds => x \in Campaigns
  /\ b \in PayoutIds => x \in Payouts

\* Screen is a list, or a screen about items of the kind of x.
Suits(screen, x) ==
  \/ screen \in ListScreens
  \/ screen \in SubmissionScreens /\ x \in Submissions
  \/ screen \in CreatorScreens /\ x \in Creators
  \/ screen \in CampaignScreens /\ x \in Campaigns
  \/ screen \in PayoutScreens /\ x \in Payouts

SubmissionLists == {"rqList", "navReviews", "navSuspicious", "navTracking", "navMonitoring",
                    "navDeletions", "registry", "crClips", "report"}

IsView(v) ==
  /\ Suits(v.screen, v.item)
  /\ v.screen \in SubmissionLists => v.listed \subseteq Submissions
  /\ v.screen \in {"crList", "navCreators"} => v.listed \subseteq Creators
  /\ v.screen \in {"cmpList", "navCampaigns"} => v.listed \subseteq Campaigns
  /\ v.screen \in {"pqList", "pqHistory", "navPayouts"} => v.listed \subseteq Payouts
  /\ v.item \in Items \cup {None} /\ v.listed \subseteq Items
  /\ v.screen \in Cards => v.status \in StatusesOf(Subject(v.screen, v.item))

LEMMA RowButtons ==
  ASSUME NEW b, NEW names, NEW name, NEW xs, NEW x
  PROVE  /\ b \in Plain(names) => b.do \in names
         /\ b \in Each(name, xs) => b.do = name /\ b.item \in xs
         /\ b \in Of(x, names) => b.do \in names /\ b.item = x
  BY DEF Plain, Each, Of

LEMMA SubmissionRow ==
  ASSUME NEW x, NEW st, NEW from \in BOOLEAN, NEW b \in buildStaffSubmissionDetailRow(x, st, from)
  PROVE  \/ b.do \in {"registry", "crHub", "rqView"}
         \/ b.do \in {"subAnalytics", "subRefresh", "subReverify", "subMetrics", "subApprove", "subReject",
                     "subKeep", "subFlag"} /\ b.item = x
         \/ from /\ b.do = "crSubs" /\ b.item \in Creators
<1> DEFINE Reads == {"subAnalytics", "subRefresh", "subReverify"} \cup (IF x \in Facebook THEN {"subMetrics"} ELSE {})
           Judges == {"subApprove", "subReject", IF st = "FLAGGED" THEN "subKeep" ELSE "subFlag"}
<1>1. \/ b \in Of(x, Reads) \/ b \in Plain({"registry"})
      \/ from /\ (b \in Each("crSubs", Creators) \/ b \in Plain({"crHub"}))
      \/ ~from /\ b \in Plain({"rqView"})
      \/ b \in Of(x, Judges)
  BY DEF buildStaffSubmissionDetailRow
<1>2. Reads \subseteq {"subAnalytics", "subRefresh", "subReverify", "subMetrics"}
  OBVIOUS
<1>3. Judges \subseteq {"subApprove", "subReject", "subKeep", "subFlag"}
  OBVIOUS
<1> HIDE DEF Reads, Judges
<1>4. b \in Of(x, Reads) => b.do \in Reads /\ b.item = x
  BY RowButtons
<1>5. b \in Of(x, Judges) => b.do \in Judges /\ b.item = x
  BY RowButtons
<1> QED BY <1>1, <1>2, <1>3, <1>4, <1>5, RowButtons

LEMMA PayoutRow ==
  ASSUME NEW x, NEW st, NEW b \in buildStaffPayoutDetailRow(x, st)
  PROVE  \/ b.do = "pqView"
         \/ b.do \in {"evReview", "payApprove", "payReject", "payProcess"} /\ b.item = x
<1> DEFINE Acts == {"evReview"} \cup CASE st \in {"REQUESTED", "UNDER_REVIEW"} -> {"payApprove", "payReject"}
                                      [] st = "APPROVED" -> {"payProcess"}
                                      [] OTHER -> {}
<1>1. b \in Of(x, Acts) \/ b \in Plain({"pqView"})
  BY DEF buildStaffPayoutDetailRow
<1>2. Acts \subseteq {"evReview", "payApprove", "payReject", "payProcess"}
  OBVIOUS
<1> HIDE DEF Acts
<1> QED BY <1>1, <1>2, RowButtons

\* Every button comes with an item of its kind.
LEMMA Offered ==
  ASSUME NEW v, IsView(v), NEW b \in Buttons(v)
  PROVE  Fits(b.do, b.item)
<1> DEFINE NoItem(n) == n \notin SubmissionIds /\ n \notin CreatorIds /\ n \notin CampaignIds /\ n \notin PayoutIds
<1>0. NoItem(b.do) => Fits(b.do, b.item)
  BY DEF Fits
<1>1. CASE v.screen \in {"rqHub", "crHub", "cmpHub", "pqHub"}
  <2>1. b.do \in {"rqView", "rqRefresh", "crHub", "crList", "crSearch", "crRefresh", "cmpList", "cmpCreate",
                     "cmpRefresh", "pqView", "pqHistory", "pqRefresh"}
    BY <1>1, RowButtons DEF Buttons, BackToCreators, buildStaffReviewQueueHubRow,
           buildStaffCreatorHubRow, buildStaffCampaignHubRow, buildStaffPayoutHubRow
  <2>2. b.do \in {"rqView", "rqRefresh", "crHub", "crList", "crSearch", "crRefresh", "cmpList", "cmpCreate",
                     "cmpRefresh", "pqView", "pqHistory", "pqRefresh"} => NoItem(b.do)
    BY DEF SubmissionIds, CreatorIds, CampaignIds, PayoutIds, CreatorStatus
  <2> QED BY <1>0, <2>1, <2>2
<1>2. CASE v.screen \in {"auditHub", "auditList", "status", "errors"}
  <2>1. b.do \in {"auditHub", "auditList", "auditRefresh", "sysStatus", "sysErrors"}
    BY <1>2, RowButtons DEF Buttons, buildStaffAuditHubRow,
           buildStaffAuditNavRow, buildStaffSystemStatusRow, buildStaffSystemErrorsRow
  <2>2. b.do \in {"auditHub", "auditList", "auditRefresh", "sysStatus", "sysErrors"} => NoItem(b.do)
    BY DEF SubmissionIds, CreatorIds, CampaignIds, PayoutIds, CreatorStatus
  <2> QED BY <1>0, <2>1, <2>2
<1>3. CASE v.screen = "home"
  <2>1. b.do \in {"navReviews", "navSuspicious", "navPayouts", "navTracking", "navDeletions", "navMonitoring",
                     "navCreators", "navCampaigns", "navReports", "refresh dashboard"}
    BY <1>3, RowButtons DEF Buttons, buildAdminControlCenterRows
  <2>2. b.do \in {"navReviews", "navSuspicious", "navPayouts", "navTracking", "navDeletions", "navMonitoring",
                     "navCreators", "navCampaigns", "navReports", "refresh dashboard"} => NoItem(b.do)
    BY DEF SubmissionIds, CreatorIds, CampaignIds, PayoutIds, CreatorStatus
  <2> QED BY <1>0, <2>1, <2>2
<1>4. CASE v.screen \in {"navReports", "navReviews", "navSuspicious", "navTracking", "navDeletions", "navMonitoring"}
  <2>1. v.screen # "navReports" => v.listed \subseteq Submissions
    BY <1>4 DEF IsView, SubmissionLists
  <2>2. \/ b.do \in {"back", "home"}
        \/ b.do = "subView" /\ b.item \in Submissions
    BY <1>4, <2>1, RowButtons DEF Buttons, buildAdminNavRow
  <2>3. b.do \in {"back", "home"} => NoItem(b.do)
    BY DEF SubmissionIds, CreatorIds, CampaignIds, PayoutIds, CreatorStatus
  <2> QED BY <1>0, <2>2, <2>3 DEF Fits, SubmissionIds, CreatorIds, CampaignIds, PayoutIds, CreatorStatus
<1>5. CASE v.screen \in {"rqList", "registry"}
  <2>1. v.listed \subseteq Submissions
    BY <1>5 DEF IsView, SubmissionLists
  <2>2. \/ b.do \in {"rqView", "crHub", "rqHub", "subSearch", "registry"}
        \/ b.do = "subView" /\ b.item \in Submissions
    BY <1>5, <2>1, RowButtons DEF Buttons, buildStaffReviewQueueNavRow,
           buildStaffSubmissionRegistryNavRow
  <2>3. b.do \in {"rqView", "crHub", "rqHub", "subSearch", "registry"} => NoItem(b.do)
    BY DEF SubmissionIds, CreatorIds, CampaignIds, PayoutIds, CreatorStatus
  <2> QED BY <1>0, <2>2, <2>3 DEF Fits, SubmissionIds, CreatorIds, CampaignIds, PayoutIds, CreatorStatus
<1>6. CASE v.screen \in SubmissionScreens
  <2>1. v.item \in Submissions
    BY <1>6 DEF IsView, Suits, SubmissionScreens, ListScreens, NavScreens, CreatorScreens,
           CampaignScreens, PayoutScreens
  <2>2. \/ b.do \in {"registry", "crHub", "rqView"}
        \/ b.do \in SubmissionIds /\ b.item \in Submissions
        \/ b.do = "crSubs" /\ b.item \in Creators
    <3>1. CASE v.screen = "analytics"
      BY <2>1, <3>1, RowButtons DEF Buttons, SubmissionIds, buildStaffAnalyticsNavRow
    <3>2. CASE v.screen \in {"submission", "creatorClip"}
      <4>1. PICK from \in BOOLEAN : b \in buildStaffSubmissionDetailRow(v.item, v.status, from)
        BY <3>2 DEF Buttons
      <4> QED BY <2>1, <4>1, SubmissionRow DEF SubmissionIds
    <3> QED BY <1>6, <3>1, <3>2 DEF SubmissionScreens
  <2>3. b.do \in {"registry", "crHub", "rqView"} => NoItem(b.do)
    BY DEF SubmissionIds, CreatorIds, CampaignIds, PayoutIds, CreatorStatus
  <2> QED BY <1>0, <2>2, <2>3 DEF Fits, SubmissionIds, CreatorIds, CampaignIds, PayoutIds, CreatorStatus
<1>7. CASE v.screen \in CreatorScreens
  <2>1. v.item \in Creators
    BY <1>7 DEF IsView, Suits, SubmissionScreens, ListScreens, NavScreens, CreatorScreens,
           CampaignScreens, PayoutScreens
  <2>2. v.screen = "crClips" => v.listed \subseteq Submissions
    BY <1>7 DEF IsView, SubmissionLists
  <2>3. \/ b.do \in {"crEarnings", "crPayouts", "crList", "crHub"}
        \/ b.do = "subViewFrom" /\ b.item \in Submissions
        \/ b.do \in CreatorIds /\ b.item \in Creators
    BY <1>7, <2>1, <2>2, RowButtons DEF Buttons, CreatorScreens, CreatorIds,
           buildStaffCreatorDetailRow, buildStaffCreatorSubsNavRow
  <2>4. b.do \in {"crEarnings", "crPayouts", "crList", "crHub"} => NoItem(b.do)
    BY DEF SubmissionIds, CreatorIds, CampaignIds, PayoutIds, CreatorStatus
  <2> QED BY <1>0, <2>3, <2>4 DEF Fits, SubmissionIds, CreatorIds, CampaignIds, PayoutIds, CreatorStatus
<1>8. CASE v.screen \in CampaignScreens
  <2>1. v.item \in Campaigns
    BY <1>8 DEF IsView, Suits, SubmissionScreens, ListScreens, NavScreens, CreatorScreens,
           CampaignScreens, PayoutScreens
  <2>2. v.screen = "report" => v.listed \subseteq Submissions
    BY <1>8 DEF IsView, SubmissionLists
  <2>3. \/ b.do \in {"cmpList"}
        \/ b.do = "subView" /\ b.item \in Submissions
        \/ b.do \in CampaignIds /\ b.item \in Campaigns
    BY <1>8, <2>1, <2>2, RowButtons DEF Buttons, CampaignScreens, CampaignIds,
           ReportRows, buildStaffCampaignDetailRow
  <2>4. b.do \in {"cmpList"} => NoItem(b.do)
    BY DEF SubmissionIds, CreatorIds, CampaignIds, PayoutIds, CreatorStatus
  <2> QED BY <1>0, <2>3, <2>4 DEF Fits, SubmissionIds, CreatorIds, CampaignIds, PayoutIds, CreatorStatus
<1>9. CASE v.screen \in PayoutScreens
  <2>1. v.item \in Payouts
    BY <1>9 DEF IsView, Suits, SubmissionScreens, ListScreens, NavScreens, CreatorScreens,
           CampaignScreens, PayoutScreens
  <2>2. \/ b.do \in {"pqView"}
        \/ b.do \in PayoutIds /\ b.item \in Payouts
    <3>1. CASE v.screen = "payout"
      <4>1. b \in buildStaffPayoutDetailRow(v.item, v.status)
        BY <3>1 DEF Buttons
      <4> QED BY <2>1, <4>1, PayoutRow DEF PayoutIds
    <3>2. CASE v.screen = "evidence"
      <4>1. PICK names \in SUBSET {"pqViewReq", "evAccept", "evReject"} : b \in Of(v.item, names)
        BY <3>2 DEF Buttons, buildStaffEvidenceReviewRow
      <4> QED BY <2>1, <4>1, RowButtons DEF PayoutIds
    <3>3. CASE v.screen = "accepted"
      BY <2>1, <3>3, RowButtons DEF Buttons, PayoutIds
    <3> QED BY <1>9, <3>1, <3>2, <3>3 DEF PayoutScreens
  <2>3. b.do \in {"pqView"} => NoItem(b.do)
    BY DEF SubmissionIds, CreatorIds, CampaignIds, PayoutIds, CreatorStatus
  <2> QED BY <1>0, <2>2, <2>3 DEF Fits, SubmissionIds, CreatorIds, CampaignIds, PayoutIds, CreatorStatus
<1>10. CASE v.screen \in {"crList", "navCreators"}
  <2>1. v.listed \subseteq Creators
    BY <1>10 DEF IsView
  <2>2. \/ b.do \in {"crHub", "crSearch", "back", "home"}
        \/ b.do = "crView" /\ b.item \in Creators
    BY <1>10, <2>1, RowButtons DEF Buttons, buildStaffCreatorNavRow, buildAdminNavRow
  <2>3. b.do \in {"crHub", "crSearch", "back", "home"} => NoItem(b.do)
    BY DEF SubmissionIds, CreatorIds, CampaignIds, PayoutIds, CreatorStatus
  <2> QED BY <1>0, <2>2, <2>3 DEF Fits, SubmissionIds, CreatorIds, CampaignIds, PayoutIds, CreatorStatus
<1>11. CASE v.screen \in {"cmpList", "navCampaigns"}
  <2>1. v.listed \subseteq Campaigns
    BY <1>11 DEF IsView
  <2>2. \/ b.do \in {"cmpHub", "cmpCreate", "back", "home"}
        \/ b.do = "cmpView" /\ b.item \in Campaigns
    BY <1>11, <2>1, RowButtons DEF Buttons, buildStaffCampaignNavRow, buildAdminNavRow
  <2>3. b.do \in {"cmpHub", "cmpCreate", "back", "home"} => NoItem(b.do)
    BY DEF SubmissionIds, CreatorIds, CampaignIds, PayoutIds, CreatorStatus
  <2> QED BY <1>0, <2>2, <2>3 DEF Fits, SubmissionIds, CreatorIds, CampaignIds, PayoutIds, CreatorStatus
<1>12. CASE v.screen \in {"pqList", "pqHistory", "navPayouts"}
  <2>1. v.listed \subseteq Payouts
    BY <1>12 DEF IsView
  <2>2. \/ b.do \in {"pqHub", "pqView", "pqHistory", "back", "home"}
        \/ b.do = "pqViewReq" /\ b.item \in Payouts
    BY <1>12, <2>1, RowButtons DEF Buttons, buildStaffPayoutNavRow, buildAdminNavRow
  <2>3. b.do \in {"pqHub", "pqView", "pqHistory", "back", "home"} => NoItem(b.do)
    BY DEF SubmissionIds, CreatorIds, CampaignIds, PayoutIds, CreatorStatus
  <2> QED BY <1>0, <2>2, <2>3 DEF Fits, SubmissionIds, CreatorIds, CampaignIds, PayoutIds, CreatorStatus
<1> QED BY <1>1, <1>2, <1>3, <1>4, <1>5, <1>6, <1>7, <1>8, <1>9, <1>10, <1>11, <1>12
        DEF IsView, Suits, ListScreens, NavScreens, SubmissionScreens, CreatorScreens, CampaignScreens,
            PayoutScreens

Typed(now) == \A x \in Items : now[x] \in StatusesOf(x)

\* What is read for a screen makes a message, and its card is true when it is read.
LEMMA ReadIsView ==
  ASSUME NEW screen, NEW x, Suits(screen, x), NEW now, Typed(now), NEW v \in Read(screen, x, now)
  PROVE  /\ v = [screen |-> screen, item |-> v.item, status |-> v.status, listed |-> v.listed]
         /\ v.listed \in Lists(screen, now)
         /\ screen \in Cards => v.item = x /\ v.status = now[Subject(screen, x)]
         /\ IsView(v)
<1>1. v = [screen |-> screen, item |-> v.item, status |-> v.status, listed |-> v.listed]
      /\ v.listed \in Lists(screen, now)
  BY DEF Read
<1>2. v.item = IF screen \in ItemScreens THEN x ELSE None
  BY DEF Read
<1>3. screen \in Cards => v.item = x /\ v.status = now[Subject(screen, x)]
  BY DEF Read, Cards, ItemScreens
<1>4. Suits(screen, v.item)
  BY <1>2 DEF Suits, ItemScreens, SubmissionScreens, CreatorScreens, CampaignScreens, PayoutScreens,
         ListScreens, NavScreens
<1>5. v.item \in Items \cup {None}
  BY <1>2, Kinds DEF Suits, ItemScreens, ListScreens, NavScreens
<1>6. /\ screen \in SubmissionLists => v.listed \subseteq Submissions
      /\ screen \in {"crList", "navCreators"} => v.listed \subseteq Creators
      /\ screen \in {"cmpList", "navCampaigns"} => v.listed \subseteq Campaigns
      /\ screen \in {"pqList", "pqHistory", "navPayouts"} => v.listed \subseteq Payouts
      /\ v.listed \subseteq Items
  BY <1>1 DEF Lists, WithStatus, SubmissionLists, Items
<1>7. screen \in Cards => Subject(screen, x) \in Items
  BY Kinds DEF Suits, Cards, Subject, SubmissionScreens, CreatorScreens, CampaignScreens, PayoutScreens,
         ListScreens, NavScreens
<1> QED BY <1>1, <1>3, <1>4, <1>5, <1>6, <1>7 DEF IsView, Typed

\* What an operation makes of the status of its item is one of its statuses.
LEMMA OutcomesTyped ==
  ASSUME NEW b \in CustomIds, NEW x, Fits(b, x), NEW st \in Outcomes(Routes[b].does, x)
  PROVE  st = None \/ (Target(Routes[b].does, x) \in Items /\ st \in StatusesOf(Target(Routes[b].does, x)))
<1> DEFINE op == Routes[b].does
<1>1. Routed(b, Routes[b])
  BY RouterKnows
<1>2. CASE op \in {"read", "search", "create"}
  BY <1>2 DEF Outcomes, CreatorStatus, CampaignStatus
<1>3. CASE b \in SubmissionIds /\ op \in SubmissionOps
  <2>1. x \in Submissions /\ Target(op, x) = x
    BY <1>3 DEF Fits, Target, SubmissionOps
  <2>2. st = None \/ st \in SubmissionStatus
    BY <1>3, <2>1, StaffPanelConstants DEF Outcomes, SubmissionOps, SubmissionStatus, CreatorStatus, CampaignStatus
  <2> QED BY <2>1, <2>2, Kinds
<1>4. CASE b \in CreatorIds /\ op \in CreatorStatus
  <2>1. /\ x \in Creators /\ x \notin Submissions /\ x \notin Campaigns
        /\ op \in {"ACTIVE", "SUSPENDED", "BANNED"} /\ Target(op, x) = x
    BY <1>4, StaffPanelConstants DEF Fits, Target, CreatorStatus
  <2>2. Outcomes(op, x) = {op}
    BY <2>1 DEF Outcomes, CreatorStatus
  <2> QED BY <1>4, <2>1, <2>2, Kinds
<1>5. CASE b \in CampaignIds /\ op \in CampaignOps
  <2>1. /\ x \in Campaigns /\ x \notin Submissions /\ x \notin Creators
        /\ op \in {"ACTIVE", "PAUSED", "ENDED"} /\ Target(op, x) = x
    BY <1>5, StaffPanelConstants DEF Fits, Target, CampaignOps
  <2>2. op \in CampaignStatus
    BY <2>1 DEF CampaignStatus
  <2>3. Outcomes(op, x) = {op} \cap (CampaignMoves[status[x]] \cup {status[x]})
    BY <2>1, <2>2 DEF Outcomes
  <2> QED BY <2>1, <2>2, <2>3, Kinds
<1>6. CASE b \in PayoutIds /\ op \in PayoutOps
  <2>1. x \in Payouts /\ x \notin Submissions \cup Creators \cup Campaigns
    BY <1>6, StaffPanelConstants DEF Fits
  <2>2. CASE op \in {"pay approve", "pay reject", "process"}
    BY <2>1, <2>2, Kinds DEF Outcomes, Target, PayoutStatuses
  <2>3. CASE op \in {"accept", "reject recording"}
    BY <2>1, <2>3, Kinds DEF Outcomes, Target, RecordingStatus
  <2> QED BY <1>6, <2>2, <2>3 DEF PayoutOps
<1> QED BY <1>1, <1>2, <1>3, <1>4, <1>5, <1>6 DEF Routed

(***************************************************************************)
(* The states                                                              *)
(***************************************************************************)

IsMessage(v) ==
  /\ v = [screen |-> v.screen, item |-> v.item, status |-> v.status, listed |-> v.listed,
          note |-> v.note, row |-> v.row]
  /\ IsView(v)
  /\ v.row \in {"buttons", "loading"} /\ v.note \in {"", "loading", "done", "error"}

IsShort(w) ==
  /\ w = [stage |-> w.stage, do |-> w.do, item |-> w.item, deferred |-> w.deferred, loading |-> w.loading]
  /\ w.stage \in {"ack", "do"}

IsLong(w) ==
  /\ w = [stage |-> w.stage, do |-> w.do, item |-> w.item, deferred |-> w.deferred, loading |-> w.loading,
          view |-> w.view]
  /\ w.stage = "draw"
  /\ IsView(w.view) /\ w.view.screen = Drawn(Routes[w.do])

\* A press of a button that draws, about an item of the button's kind.
IsPress(w) ==
  /\ IsShort(w) \/ IsLong(w)
  /\ w.do \in CustomIds /\ Fits(w.do, w.item) /\ Routes[w.do].first # "form"

StatusOK  == status = [x \in Items |-> status[x]] /\ Typed(status)
FormsOK   == /\ form = [s \in Staff |-> form[s]]
             /\ \A s \in Staff : form[s] # NoForm => form[s].do \in CustomIds /\ Fits(form[s].do, form[s].item)
PressesOK == /\ work = [s \in Staff |-> work[s]]
             /\ \A s \in Staff : work[s] # Idle => IsPress(work[s])

Sound ==
  /\ StatusOK /\ role \in [Staff -> {"admin", "manager", "none"}]
  /\ IsMessage(panel) /\ FormsOK /\ PressesOK
  /\ refreshing \subseteq Submissions

\* Type correctness is part of it.
LEMMA SoundTyped == Sound => TypeOK
<1> SUFFICES ASSUME Sound PROVE TypeOK
  OBVIOUS
<1>1. \A s \in Staff : work[s] # Idle => /\ work[s].stage \in {"ack", "do", "draw"}
                                        /\ work[s].do \in DOMAIN Routes
  BY DEF Sound, PressesOK, IsPress, IsShort, IsLong, Routes
<1> QED BY <1>1 DEF Sound, TypeOK, StatusOK, Typed, IsMessage, IsView

LEMMA BecomeSound ==
  ASSUME PressesOK, NEW s \in Staff, NEW w, w = Idle \/ IsPress(w), UNCHANGED place, Become(s, w)
  PROVE  /\ PressesOK' /\ work'[s] = w
         /\ \A t \in Staff \ {s} : work'[t] = work[t]
  BY DEF PressesOK, Become, IsPress, IsShort, IsLong, Drawn, Idle

\* What a press at work is.
LEMMA PressKinds ==
  ASSUME PressesOK, NEW s \in Staff, work[s].stage \in {"ack", "do", "draw"}
  PROVE  /\ IsPress(work[s])
         /\ work[s].stage \in {"ack", "do"} => IsShort(work[s])
         /\ work[s].stage = "draw" => IsLong(work[s])
<1>1. work[s] # Idle
  BY DEF Idle
<1> QED BY <1>1 DEF PressesOK, IsPress, IsShort, IsLong

LEMMA DrawnSuits ==
  ASSUME NEW b \in CustomIds, NEW x, Fits(b, x), Routes[b].first # "form"
  PROVE  Suits(Drawn(Routes[b]), x)
<1>1. Routed(b, Routes[b])
  BY RouterKnows
<1>2. Suits(Routes[b].shows, x)
  BY <1>1 DEF Routed, Fits, Suits
<1>3. Suits("crHub", x)
  BY DEF Suits, ListScreens
<1> QED BY <1>2, <1>3 DEF Drawn

\* An operation leaves every item with one of its statuses.
LEMMA ApplySound ==
  ASSUME StatusOK, NEW b \in CustomIds, NEW x, Fits(b, x), NEW st \in Outcomes(Routes[b].does, x),
         Apply(Routes[b].does, x, st)
  PROVE  /\ StatusOK'
         /\ \A y \in Items \ {Target(Routes[b].does, x)} : status'[y] = status[y]
<1>1. st = None \/ (Target(Routes[b].does, x) \in Items /\ st \in StatusesOf(Target(Routes[b].does, x)))
  BY OutcomesTyped
<1>2. CASE UNCHANGED status
  BY <1>2 DEF StatusOK, Typed
<1>3. CASE ~(st = None \/ status[Target(Routes[b].does, x)] = st)
  BY <1>1, <1>3 DEF StatusOK, Typed, Apply
<1> QED BY <1>2, <1>3 DEF Apply

LEMMA ReportSound ==
  ASSUME IsMessage(panel), NEW s \in Staff, Report(s)
  PROVE  /\ IsMessage(panel')
         /\ panel'.screen = panel.screen /\ panel'.item = panel.item /\ panel'.status = panel.status
         /\ panel'.listed = panel.listed /\ panel'.row = panel.row
  BY DEF IsMessage, IsView, Report

LEMMA PressSound ==
  ASSUME Sound, NEW s \in Staff, NEW b \in Buttons(panel), Press(s, b)
  PROVE  Sound'
<1>1. Fits(b.do, b.item)
  BY Offered DEF Sound, IsMessage
<1>2. CASE UNCHANGED <<form, work, refreshing>>
  BY <1>2 DEF Sound, Press, StatusOK, Typed, FormsOK, PressesOK, IsPress, IsShort, IsLong, Drawn
<1>3. CASE b.do \in DOMAIN Routes /\ Routes[b.do].first = "form"
           /\ form' = [form EXCEPT ![s] = b] /\ UNCHANGED <<work, refreshing>>
  <2>1. FormsOK'
    BY <1>1, <1>3 DEF Sound, FormsOK, Routes
  <2> QED BY <1>3, <2>1 DEF Sound, Press, StatusOK, Typed, PressesOK, IsPress, IsShort, IsLong, Drawn
<1>4. CASE /\ b.do \in DOMAIN Routes /\ Routes[b.do].first # "form"
           /\ Become(s, [stage |-> "ack", do |-> b.do, item |-> b.item, deferred |-> FALSE, loading |-> FALSE])
           /\ refreshing' = IF b.do = "subRefresh" THEN refreshing \cup {b.item} ELSE refreshing
           /\ UNCHANGED form
  <2>1. IsPress([stage |-> "ack", do |-> b.do, item |-> b.item, deferred |-> FALSE, loading |-> FALSE])
    BY <1>1, <1>4 DEF IsPress, IsShort, Routes
  <2>2. PressesOK'
    BY <1>4, <2>1, BecomeSound DEF Sound, Press
  <2>3. refreshing' \subseteq Submissions
    BY <1>1, <1>4 DEF Sound, Fits, SubmissionIds
  <2> QED BY <1>4, <2>2, <2>3 DEF Sound, Press, StatusOK, Typed, FormsOK
<1> QED BY <1>2, <1>3, <1>4 DEF Press

\* An acknowledged press keeps its button and its item.
LEMMA Acked ==
  ASSUME NEW u, IsShort(u), NEW d, NEW l
  PROVE  /\ [u EXCEPT !.stage = "do", !.deferred = d]
               = [stage |-> "do", do |-> u.do, item |-> u.item, deferred |-> d, loading |-> u.loading]
         /\ [u EXCEPT !.stage = "do", !.deferred = d, !.loading = l]
               = [stage |-> "do", do |-> u.do, item |-> u.item, deferred |-> d, loading |-> l]
<1>1. PICK st, b, x, f, g : u = [stage |-> st, do |-> b, item |-> x, deferred |-> f, loading |-> g]
  BY DEF IsShort
<1>2. u.do = b /\ u.item = x /\ u.loading = g
  BY <1>1
<1> SUFFICES ASSUME NEW v, NEW w,
                    v = [u EXCEPT !.stage = "do", !.deferred = d],
                    w = [u EXCEPT !.stage = "do", !.deferred = d, !.loading = l]
             PROVE  /\ v = [stage |-> "do", do |-> b, item |-> x, deferred |-> d, loading |-> g]
                    /\ w = [stage |-> "do", do |-> b, item |-> x, deferred |-> d, loading |-> l]
  BY <1>2, Zenon
<1> QED BY <1>1

LEMMA AckedAs ==
  ASSUME NEW s \in Staff, IsShort(work[s]), Ack(s) \/ AckFails(s)
  PROVE  \E d, l : Become(s, [stage |-> "do", do |-> work[s].do, item |-> work[s].item,
                              deferred |-> d, loading |-> l])
<1>1. CASE Ack(s)
  <2>1. PICK l : work' = [work EXCEPT ![s] = [work[s] EXCEPT !.stage = "do", !.deferred = TRUE, !.loading = l]]
    BY <1>1 DEF Ack, Become
  <2>2. [work[s] EXCEPT !.stage = "do", !.deferred = TRUE, !.loading = l]
          = [stage |-> "do", do |-> work[s].do, item |-> work[s].item, deferred |-> TRUE, loading |-> l]
    BY Acked
  <2> QED BY <2>1, <2>2 DEF Become
<1>2. CASE AckFails(s)
  <2>1. PICK d : work' = [work EXCEPT ![s] = [work[s] EXCEPT !.stage = "do", !.deferred = d]]
    BY <1>2 DEF AckFails, Become
  <2>2. [work[s] EXCEPT !.stage = "do", !.deferred = d]
          = [stage |-> "do", do |-> work[s].do, item |-> work[s].item, deferred |-> d,
             loading |-> work[s].loading]
    BY Acked
  <2> QED BY <2>1, <2>2 DEF Become
<1> QED BY <1>1, <1>2

LEMMA AckSound ==
  ASSUME Sound, NEW s \in Staff, Ack(s) \/ AckFails(s)
  PROVE  Sound'
<1>1. IsPress(work[s]) /\ IsShort(work[s])
  BY PressKinds DEF Sound, Ack, AckFails
<1>2. PICK d, l : Become(s, [stage |-> "do", do |-> work[s].do, item |-> work[s].item,
                             deferred |-> d, loading |-> l])
  BY <1>1, AckedAs
<1>3. IsPress([stage |-> "do", do |-> work[s].do, item |-> work[s].item, deferred |-> d, loading |-> l])
  BY <1>1 DEF IsPress, IsShort
<1>4. PressesOK'
  BY <1>2, <1>3, BecomeSound DEF Sound, Ack, AckFails
<1>5. IsMessage(panel')
  BY DEF Ack, AckFails, Sound, IsMessage, IsView
<1> QED BY <1>4, <1>5 DEF Sound, Ack, AckFails, StatusOK, Typed, FormsOK

\* What a handler draws, read after its operation.
LEMMA DoSound ==
  ASSUME Sound, NEW s \in Staff, Do(s)
  PROVE  /\ Sound'
         /\ work'[s].stage = "draw"
         /\ work'[s].view.screen \in Cards =>
              work'[s].view.status = status'[Subject(work'[s].view.screen, work'[s].view.item)]
         /\ work'[s].view.listed \in Lists(work'[s].view.screen, status')
<1>1. IsPress(work[s])
  BY PressKinds DEF Sound, Do
<1>2. PICK st \in Outcomes(Routes[work[s].do].does, work[s].item) :
        /\ Apply(Routes[work[s].do].does, work[s].item, st)
        /\ \E v \in Read(Drawn(Routes[work[s].do]), work[s].item, status') :
             Become(s, [stage |-> "draw", do |-> work[s].do, item |-> work[s].item,
                        deferred |-> work[s].deferred, loading |-> work[s].loading, view |-> v])
  BY DEF Do, H
<1>3. StatusOK'
  BY <1>1, <1>2, ApplySound DEF Sound, IsPress
<1>4. PICK v \in Read(Drawn(Routes[work[s].do]), work[s].item, status') :
        Become(s, [stage |-> "draw", do |-> work[s].do, item |-> work[s].item,
                   deferred |-> work[s].deferred, loading |-> work[s].loading, view |-> v])
  BY <1>2
<1>5. Suits(Drawn(Routes[work[s].do]), work[s].item)
  BY <1>1, DrawnSuits DEF IsPress
<1>6. /\ v.screen = Drawn(Routes[work[s].do]) /\ IsView(v)
      /\ v.listed \in Lists(v.screen, status')
      /\ v.screen \in Cards => v.status = status'[Subject(v.screen, v.item)]
  <2>1. Typed(status')
    BY <1>3 DEF StatusOK, Typed
  <2> QED BY <1>5, <2>1, ReadIsView
<1> DEFINE w == [stage |-> "draw", do |-> work[s].do, item |-> work[s].item,
                 deferred |-> work[s].deferred, loading |-> work[s].loading, view |-> v]
<1>7. IsPress(w)
  BY <1>1, <1>6 DEF IsPress, IsLong
<1>8. PressesOK' /\ work'[s] = w
  <2> HIDE DEF w
  <2>1. Become(s, w) /\ UNCHANGED place
    BY <1>4 DEF Do, w
  <2> QED BY <1>7, <2>1, BecomeSound DEF Sound
<1>9. Sound'
  BY <1>3, <1>8 DEF Sound, Do, FormsOK, IsMessage, IsView
<1> QED BY <1>6, <1>8, <1>9

LEMMA ReleaseSound ==
  ASSUME Sound, NEW s \in Staff
  PROVE  Release(s) \subseteq Submissions
  BY DEF Sound, Release

LEMMA EndSound ==
  ASSUME Sound, NEW s \in Staff, Throw(s) \/ Draw(s) \/ DrawFails(s)
  PROVE  Sound' /\ work'[s] = Idle /\ \A t \in Staff \ {s} : work'[t] = work[t]
<1>1. Become(s, Idle) /\ UNCHANGED place
  BY DEF Throw, Draw, DrawFails
<1>2. PressesOK' /\ work'[s] = Idle /\ \A t \in Staff \ {s} : work'[t] = work[t]
  BY <1>1, BecomeSound DEF Sound
<1>3. IsMessage(panel')
  <2>1. CASE Throw(s)
    BY <2>1, ReportSound DEF Throw, Sound
  <2>2. CASE Draw(s)
    <3>1. IsPress(work[s]) /\ IsLong(work[s])
      BY <2>2, PressKinds DEF Sound, Draw
    <3>2. NoteAfter(H(s)) \in {"", "loading", "done", "error"}
      BY <3>1, RouterKnows DEF NoteAfter, H, Routed, IsPress, Sound, IsMessage
    <3>3. panel' = Message(work[s].view, NoteAfter(H(s)), "buttons")
      BY <2>2 DEF Draw
    <3> QED BY <3>1, <3>2, <3>3 DEF Message, IsMessage, IsView, IsLong
  <2>3. CASE DrawFails(s)
    BY <2>3, ReportSound DEF DrawFails, Sound
  <2> QED BY <2>1, <2>2, <2>3
<1>4. refreshing' \subseteq Submissions
  BY ReleaseSound DEF Throw, Draw, DrawFails
<1> QED BY <1>2, <1>3, <1>4 DEF Sound, Throw, Draw, DrawFails, StatusOK, Typed, FormsOK

LEMMA SubmitSound ==
  ASSUME Sound, NEW s \in Staff, Submit(s) \/ CloseForm(s)
  PROVE  /\ Sound'
         /\ \A y \in Items : y \in elsewhere' \/ status'[y] = status[y]
<1>1. FormsOK'
  BY DEF Submit, CloseForm, Sound, FormsOK
<1>2. StatusOK' /\ \A y \in Items : y \in elsewhere' \/ status'[y] = status[y]
  <2>1. CASE UNCHANGED status
    BY <2>1 DEF Sound, StatusOK, Typed
  <2>2. CASE Submit(s) /\ \E st \in Outcomes(Routes[form[s].do].does, form[s].item) :
                            /\ Apply(Routes[form[s].do].does, form[s].item, st)
                            /\ elsewhere' = elsewhere \cup {Target(Routes[form[s].do].does, form[s].item)}
    <3>1. form[s].do \in CustomIds /\ Fits(form[s].do, form[s].item)
      BY <2>2 DEF Submit, Sound, FormsOK
    <3> QED BY <2>2, <3>1, ApplySound DEF Sound
  <2> QED BY <2>1, <2>2 DEF Submit, CloseForm
<1>3. UNCHANGED <<place, panel, role, work, refreshing>>
  BY DEF Submit, CloseForm
<1>4. PressesOK'
  BY <1>3 DEF Sound, PressesOK, IsPress, IsShort, IsLong, Drawn
<1>5. IsMessage(panel')
  BY <1>3 DEF Sound
<1> QED BY <1>1, <1>2, <1>3, <1>4, <1>5 DEF Sound

LEMMA MeanwhileSound ==
  ASSUME Sound, \/ \E x \in Submissions \cup Campaigns : Elsewhere(x)
                \/ \E s \in Staff : NewRole(s)
                \/ Crash
  PROVE  Sound'
<1>1. ASSUME NEW x \in Submissions \cup Campaigns, Elsewhere(x) PROVE Sound'
  <2>1. StatusOK'
    BY <1>1, Kinds DEF Elsewhere, Sound, StatusOK, Typed, CampaignStatus
  <2> QED BY <1>1, <2>1 DEF Elsewhere, Sound, FormsOK, PressesOK, IsPress, IsShort, IsLong, Drawn,
                            IsMessage, IsView
<1>2. ASSUME NEW s \in Staff, NewRole(s) PROVE Sound'
  BY <1>2 DEF NewRole, Sound, StatusOK, Typed, FormsOK, PressesOK, IsPress, IsShort, IsLong, Drawn,
              IsMessage, IsView
<1>3. CASE Crash
  BY <1>3 DEF Crash, Sound, StatusOK, Typed, FormsOK, PressesOK, IsMessage, IsView
<1> QED BY <1>1, <1>2, <1>3

LEMMA SoundInit == Init => Sound
<1> SUFFICES ASSUME Init PROVE Sound
  OBVIOUS
<1>1. HubOf[place.channel] \in ListScreens \ (SubmissionLists \cup Cards)
  BY StaffPanelConstants DEF Init, HubOf, ListScreens, NavScreens, SubmissionLists, Cards
<1>2. HubOf[place.channel] \notin {"crList", "navCreators", "cmpList", "navCampaigns", "pqList", "pqHistory",
                                 "navPayouts"}
  BY StaffPanelConstants DEF Init, HubOf
<1>3. IsMessage(panel)
  BY <1>1, <1>2 DEF Init, IsMessage, IsView, Suits
<1>4. StatusOK
  <2>1. ASSUME NEW x \in Items PROVE status[x] \in StatusesOf(x)
    <3>1. status[x] = CASE x \in Submissions -> "UNDER_REVIEW" [] x \in Creators -> "ACTIVE"
                        [] x \in Campaigns -> "ACTIVE" [] x \in Payouts -> "REQUESTED"
                        [] OTHER -> "PENDING"
      BY <2>1 DEF Init
    <3>2. CASE x \in Submissions \cup Creators \cup Campaigns \cup Payouts
      BY <3>1, <3>2, Kinds, StaffPanelConstants
         DEF SubmissionStatus, CreatorStatus, CampaignStatus, PayoutStatuses
    <3>3. CASE x \notin Submissions \cup Creators \cup Campaigns \cup Payouts
      BY <2>1, <3>1, <3>3, Kinds DEF Items, Recordings, RecordingStatus
    <3> QED BY <3>2, <3>3
  <2>2. status = [x \in Items |-> CASE x \in Submissions -> "UNDER_REVIEW" [] x \in Creators -> "ACTIVE"
                                     [] x \in Campaigns -> "ACTIVE" [] x \in Payouts -> "REQUESTED"
                                     [] OTHER -> "PENDING"]
    BY DEF Init
  <2>3. status = [x \in Items |-> status[x]]
    BY <2>2
  <2> QED BY <2>1, <2>3 DEF StatusOK, Typed
<1> QED BY <1>3, <1>4 DEF Init, Sound, FormsOK, PressesOK

LEMMA SoundStep == Sound /\ [Next]_vars => Sound'
<1> SUFFICES ASSUME Sound, [Next]_vars PROVE Sound'
  OBVIOUS
<1>1. CASE UNCHANGED vars
  BY <1>1 DEF vars, Sound, StatusOK, Typed, FormsOK, PressesOK, IsPress, IsShort, IsLong, Drawn,
              IsMessage, IsView
<1>2. ASSUME NEW s \in Staff,
             \/ \E b \in Buttons(panel) : Press(s, b)
             \/ Handle(s) \/ AckFails(s) \/ Submit(s) \/ CloseForm(s) \/ NewRole(s)
      PROVE  Sound'
  BY <1>2, PressSound, AckSound, DoSound, EndSound, SubmitSound, MeanwhileSound DEF Handle
<1>3. CASE \/ \E x \in Submissions \cup Campaigns : Elsewhere(x)
           \/ Crash
  BY <1>3, MeanwhileSound
<1> QED BY <1>1, <1>2, <1>3 DEF Next

\* The messages are well formed: a message about an item is about one of its
\* kind, and shows one of its statuses.
THEOREM TypeCorrect == Spec => []TypeOK
<1>1. Spec => []Sound
  BY SoundInit, SoundStep, PTL DEF Spec
<1> QED BY <1>1, SoundTyped, PTL

(***************************************************************************)
(* Refreshes                                                               *)
(***************************************************************************)

Refreshes(w, x) == w # Idle /\ w.do = "subRefresh" /\ w.item = x

\* A handler that goes on with its press still holds what it held.
LEMMA GoesOnReleased ==
  ASSUME Sound, RefreshReleased, UNCHANGED refreshing, NEW s \in Staff, NEW w,
         w # Idle, w.do = work[s].do, w.item = work[s].item, work[s] # Idle,
         Become(s, w)
  PROVE  RefreshReleased'
<1>1. work'[s] = w /\ \A t \in Staff \ {s} : work'[t] = work[t]
  BY DEF Sound, PressesOK, Become
<1>2. SUFFICES ASSUME NEW x \in refreshing' PROVE \E t \in Staff : Refreshes(work'[t], x)
  BY DEF RefreshReleased, Refreshes, Idle
<1>3. PICK t \in Staff : Refreshes(work[t], x)
  BY <1>2 DEF RefreshReleased, Refreshes
<1>4. Refreshes(work'[t], x)
  BY <1>1, <1>3 DEF Refreshes
<1> QED BY <1>4

\* A handler that ends lets go of what only it held.
LEMMA EndsReleased ==
  ASSUME Sound, RefreshReleased, NEW s \in Staff, refreshing' = Release(s),
         work'[s] = Idle, \A t \in Staff \ {s} : work'[t] = work[t]
  PROVE  RefreshReleased'
<1>1. SUFFICES ASSUME NEW x \in refreshing' PROVE \E t \in Staff : Refreshes(work'[t], x)
  BY DEF RefreshReleased, Refreshes, Idle
<1>2. x \in refreshing /\ ~(work[s].do = "subRefresh" /\ work[s].item = x)
  BY <1>1 DEF Release
<1>3. PICK t \in Staff : Refreshes(work[t], x)
  BY <1>2 DEF RefreshReleased, Refreshes
<1>4. t # s
  BY <1>2, <1>3 DEF Refreshes
<1> QED BY <1>3, <1>4

LEMMA ReleasedStep == Sound /\ RefreshReleased /\ [Next]_vars => RefreshReleased'
<1> SUFFICES ASSUME Sound, RefreshReleased, [Next]_vars PROVE RefreshReleased'
  OBVIOUS
<1>1. ASSUME UNCHANGED <<work, refreshing>> PROVE RefreshReleased'
  BY <1>1 DEF RefreshReleased, Idle
<1>2. ASSUME NEW s \in Staff, NEW b \in Buttons(panel), Press(s, b) PROVE RefreshReleased'
  <2>1. CASE UNCHANGED <<work, refreshing>>
    BY <1>1, <2>1
  <2> DEFINE w == [stage |-> "ack", do |-> b.do, item |-> b.item, deferred |-> FALSE, loading |-> FALSE]
  <2>2. CASE Become(s, w) /\ refreshing' = IF b.do = "subRefresh" THEN refreshing \cup {b.item} ELSE refreshing
    <3>1. work[s] = Idle
      BY <1>2 DEF Press
    <3>2. /\ work'[s] = w
          /\ \A t \in Staff \ {s} : work'[t] = work[t]
      BY <2>2 DEF Sound, PressesOK, Become
    <3>3. SUFFICES ASSUME NEW x \in refreshing' PROVE \E t \in Staff : Refreshes(work'[t], x)
      BY DEF RefreshReleased, Refreshes, Idle
    <3>4. CASE x \in refreshing
      <4>1. PICK t \in Staff : Refreshes(work[t], x)
        BY <3>4 DEF RefreshReleased, Refreshes
      <4>2. t # s
        BY <3>1, <4>1 DEF Refreshes
      <4> QED BY <3>2, <4>1, <4>2
    <3>5. CASE x \notin refreshing
      <4>1. Refreshes(w, x)
        BY <2>2, <3>3, <3>5 DEF Refreshes, Idle
      <4> QED BY <3>2, <4>1
    <3> QED BY <3>4, <3>5
  <2> QED BY <1>2, <2>1, <2>2 DEF Press
<1>3. ASSUME NEW s \in Staff, Ack(s) \/ AckFails(s) \/ Do(s) PROVE RefreshReleased'
  <2>1. work[s] # Idle
    BY <1>3 DEF Ack, AckFails, Do, Idle
  <2>2. UNCHANGED refreshing
    BY <1>3 DEF Ack, AckFails, Do
  <2>3. PICK w : Become(s, w) /\ w # Idle /\ w.do = work[s].do /\ w.item = work[s].item
    <3>1. CASE Ack(s) \/ AckFails(s)
      <4>1. IsShort(work[s])
        BY <3>1, PressKinds DEF Sound, Ack, AckFails
      <4>2. \E u : /\ u.stage = "do" /\ u.do = work[s].do /\ u.item = work[s].item
                   /\ Become(s, u)
        BY <3>1, <4>1, AckedAs
      <4> QED BY <4>2 DEF Idle
    <3>2. CASE Do(s)
      BY <3>2 DEF Do, Idle
    <3> QED BY <1>3, <3>1, <3>2
  <2> QED BY <2>1, <2>2, <2>3, GoesOnReleased
<1>4. ASSUME NEW s \in Staff, Throw(s) \/ Draw(s) \/ DrawFails(s) PROVE RefreshReleased'
  <2>1. refreshing' = Release(s)
    BY <1>4 DEF Throw, Draw, DrawFails
  <2> QED BY <1>4, <2>1, EndSound, EndsReleased
<1>5. ASSUME NEW s \in Staff, Submit(s) \/ CloseForm(s) \/ NewRole(s) PROVE RefreshReleased'
  BY <1>1, <1>5 DEF Submit, CloseForm, NewRole
<1>6. ASSUME NEW x \in Submissions \cup Campaigns, Elsewhere(x) PROVE RefreshReleased'
  BY <1>1, <1>6 DEF Elsewhere
<1>7. CASE Crash
  BY <1>7 DEF Crash, RefreshReleased
<1>8. CASE UNCHANGED vars
  BY <1>1, <1>8 DEF vars
<1> QED BY <1>2, <1>3, <1>4, <1>5, <1>6, <1>7, <1>8 DEF Next, Handle

\* Whatever fails, a submission is locked for refreshing only while one of the
\* presses at work refreshes it (inFlightRefreshes in staff.interactions.js).
THEOREM RefreshesReleased == Spec => []RefreshReleased
<1>1. Init => RefreshReleased
  BY DEF Init, RefreshReleased
<1> QED BY <1>1, SoundInit, SoundStep, ReleasedStep, PTL DEF Spec

(***************************************************************************)
(* What a card shows                                                       *)
(***************************************************************************)

Active(s) == work[s] # Idle \/ form[s] # NoForm

\* The card of v shows the status of its item, or need not.
Fresh(v) ==
  v.screen \in Cards =>
    Subject(v.screen, v.item) \in elsewhere \/ status[Subject(v.screen, v.item)] = v.status

\* Until presses overlap, one member of staff is at work; what is about to be
\* drawn is fresh, and so is the message unless it is about to be drawn over.
Truthful ==
  /\ overlapped \in BOOLEAN
  /\ ~overlapped => /\ \A s, t \in Staff : Active(s) /\ Active(t) => s = t
                    /\ \A s \in Staff : work[s].stage = "draw" => Fresh(work[s].view)
                    /\ (\A s \in Staff : work[s].stage # "draw") => Fresh(panel)

LEMMA TruthfulShows == Truthful => ShowsTruth
  BY DEF Truthful, ShowsTruth, Fresh, Idle

LEMMA SubjectItem ==
  ASSUME NEW v, IsView(v), v.screen \in Cards
  PROVE  Subject(v.screen, v.item) \in Items
  BY Kinds DEF IsView, Suits, Cards, Subject, SubmissionScreens, CreatorScreens, CampaignScreens,
     PayoutScreens, ListScreens, NavScreens

\* Nothing is lost from elsewhere, and what changes is added.
Noted == \A y \in Items : y \in elsewhere' \/ (y \notin elsewhere /\ status'[y] = status[y])

LEMMA FreshKept ==
  ASSUME NEW v, IsView(v), Fresh(v), Noted
  PROVE  v.screen \in Cards =>
           Subject(v.screen, v.item) \in elsewhere' \/ status'[Subject(v.screen, v.item)] = v.status
  BY SubjectItem DEF Fresh, Noted

\* A step that draws nothing, and notes what it changes.
LEMMA QuietTruthful ==
  ASSUME Sound, Truthful, Noted,
         overlapped' \in BOOLEAN, overlapped => overlapped',
         ~overlapped' => \A s, t \in Staff : Active(s)' /\ Active(t)' => s = t,
         panel'.screen = panel.screen, panel'.item = panel.item, panel'.status = panel.status,
         \A s \in Staff : work'[s].stage = "draw" => work'[s] = work[s],
         (\A s \in Staff : work'[s].stage # "draw") =>
           \/ \A s \in Staff : work[s].stage # "draw"
           \/ elsewhere' = Items
  PROVE  Truthful'
<1> SUFFICES ASSUME ~overlapped', ~overlapped PROVE Truthful'
  BY DEF Truthful
<1>1. ASSUME NEW s \in Staff, work'[s].stage = "draw" PROVE Fresh(work[s].view)'
  <2>1. IsView(work[s].view) /\ Fresh(work[s].view) /\ work'[s] = work[s]
    BY <1>1, PressKinds DEF Truthful, Sound, IsLong
  <2> QED BY <2>1, FreshKept DEF Fresh
<1>2. ASSUME \A s \in Staff : work'[s].stage # "draw" PROVE Fresh(panel)'
  <2>1. CASE \A s \in Staff : work[s].stage # "draw"
    <3>1. IsView(panel) /\ Fresh(panel)
      BY <2>1 DEF Truthful, Sound, IsMessage
    <3> QED BY <3>1, FreshKept DEF Fresh
  <2>2. CASE elsewhere' = Items
    BY <2>2, SubjectItem DEF Fresh, Sound, IsMessage
  <2> QED BY <1>2, <2>1, <2>2
<1> QED BY <1>1, <1>2 DEF Truthful

LEMMA SameMark ==
  ASSUME Truthful, UNCHANGED overlapped
  PROVE  overlapped' \in BOOLEAN /\ (overlapped <=> overlapped')
  BY DEF Truthful

LEMMA TruthfulStep == Sound /\ Truthful /\ [Next]_vars => Truthful'
<1> SUFFICES ASSUME Sound, Truthful, [Next]_vars PROVE Truthful'
  OBVIOUS
<1> DEFINE Still == Noted /\ UNCHANGED <<panel, work, form, overlapped>>
<1>0. ASSUME Still PROVE Truthful'
  BY <1>0, QuietTruthful DEF Active, Truthful
<1>1. ASSUME NEW s \in Staff, NEW b \in Buttons(panel), Press(s, b) PROVE Truthful'
  <2>1. /\ overlapped' \in BOOLEAN /\ (overlapped => overlapped')
        /\ ~overlapped' => ~overlapped /\ \A t \in Staff \ {s} : work[t] = Idle /\ form[t] = NoForm
    BY <1>1 DEF Press, Truthful
  <2>2. /\ \A t \in Staff \ {s} : work'[t] = work[t] /\ form'[t] = form[t]
        /\ work[s] = Idle /\ (work'[s] = Idle \/ work'[s].stage = "ack")
    BY <1>1 DEF Press, Become, Sound, PressesOK, FormsOK
  <2>3. Noted /\ UNCHANGED panel
    BY <1>1 DEF Press, Noted
  <2>4. ~overlapped' => \A t, u \in Staff : Active(t)' /\ Active(u)' => t = u
    BY <2>1, <2>2 DEF Active
  <2>5. \A t \in Staff : work'[t].stage = "draw" => work'[t] = work[t]
    BY <2>2 DEF Idle
  <2>6. (\A t \in Staff : work'[t].stage # "draw") => \A t \in Staff : work[t].stage # "draw"
    BY <2>2 DEF Idle
  <2>7. panel'.screen = panel.screen /\ panel'.item = panel.item /\ panel'.status = panel.status
    BY <2>3
  <2>8. overlapped' \in BOOLEAN /\ (overlapped => overlapped')
    BY <2>1
  <2>9. (\A t \in Staff : work'[t].stage # "draw") =>
          (\A t \in Staff : work[t].stage # "draw") \/ elsewhere' = Items
    BY <2>6
  <2>10. Noted
    BY <2>3
  <2> QED BY <2>4, <2>5, <2>7, <2>8, <2>9, <2>10, QuietTruthful
<1>2. ASSUME NEW s \in Staff, Ack(s) \/ AckFails(s) \/ Throw(s) \/ DrawFails(s) PROVE Truthful'
  <2>1. work[s].stage \in {"ack", "do", "draw"} /\ work[s] # Idle
    BY <1>2 DEF Ack, AckFails, Throw, DrawFails, Idle
  <2>2. /\ \A t \in Staff \ {s} : work'[t] = work[t]
        /\ work'[s].stage # "draw"
    <3>1. CASE Ack(s) \/ AckFails(s)
      <4>1. IsShort(work[s])
        BY <3>1, PressKinds DEF Sound, Ack, AckFails
      <4>2. PICK u : u.stage = "do" /\ Become(s, u)
        BY <3>1, <4>1, AckedAs
      <4> QED BY <4>2 DEF Become, Sound, PressesOK
    <3>2. CASE Throw(s) \/ DrawFails(s)
      BY <3>2, EndSound DEF Idle
    <3> QED BY <1>2, <3>1, <3>2
  <2>3. UNCHANGED <<form, overlapped>>
    BY <1>2 DEF Ack, AckFails, Throw, DrawFails
  <2>4. panel'.screen = panel.screen /\ panel'.item = panel.item /\ panel'.status = panel.status
    BY <1>2, ReportSound DEF Ack, AckFails, Throw, DrawFails, Sound, IsMessage
  <2>5. Noted /\ (work[s].stage = "draw" => elsewhere' = Items)
    BY <1>2 DEF Ack, AckFails, Throw, DrawFails, Noted
  <2>6. ~overlapped' => \A t, u \in Staff : Active(t)' /\ Active(u)' => t = u
    BY <2>1, <2>2, <2>3 DEF Active, Truthful
  <2>7. overlapped' \in BOOLEAN /\ (overlapped <=> overlapped')
    BY <2>3, SameMark
  <2> QED BY <2>2, <2>4, <2>5, <2>6, <2>7, QuietTruthful
<1>3. ASSUME NEW s \in Staff, Do(s) PROVE Truthful'
  <2>1. UNCHANGED <<overlapped, form>> /\ work[s] # Idle
    BY <1>3 DEF Do, Idle
  <2>2. \A t \in Staff \ {s} : work'[t] = work[t]
    BY <1>3 DEF Do, Become, Sound, PressesOK
  <2>3. SUFFICES ASSUME ~overlapped PROVE Truthful'
    BY <2>1 DEF Truthful
  <2>4. \A t \in Staff \ {s} : work'[t] = Idle
    BY <2>1, <2>2, <2>3 DEF Truthful, Active
  <2>5. work'[s].stage = "draw" /\ Fresh(work[s].view)'
    BY <1>3, DoSound DEF Fresh
  <2>6. \A t, u \in Staff : Active(t)' /\ Active(u)' => t = u
    BY <2>1, <2>2, <2>3 DEF Active, Truthful
  <2> QED BY <2>1, <2>4, <2>5, <2>6, SameMark DEF Truthful, Idle
<1>4. ASSUME NEW s \in Staff, Draw(s) PROVE Truthful'
  <2>1. UNCHANGED <<overlapped, form, status, elsewhere>> /\ work[s].stage = "draw" /\ work[s] # Idle
    BY <1>4 DEF Draw, Idle
  <2>2. work'[s] = Idle /\ \A t \in Staff \ {s} : work'[t] = work[t]
    BY <1>4, EndSound
  <2>3. SUFFICES ASSUME ~overlapped PROVE Truthful'
    BY <2>1 DEF Truthful
  <2>4. \A t \in Staff : work'[t] = Idle
    BY <2>1, <2>2, <2>3 DEF Truthful, Active
  <2>5. /\ panel'.screen = work[s].view.screen /\ panel'.item = work[s].view.item
        /\ panel'.status = work[s].view.status
    BY <1>4 DEF Draw, Message
  <2>6. Fresh(panel)'
    BY <2>1, <2>3, <2>5 DEF Truthful, Fresh
  <2>7. \A t, u \in Staff : Active(t)' /\ Active(u)' => t = u
    BY <2>1, <2>2, <2>3 DEF Active, Truthful
  <2> QED BY <2>1, <2>4, <2>6, <2>7, SameMark DEF Truthful, Idle
<1>5. ASSUME NEW s \in Staff, Submit(s) \/ CloseForm(s) PROVE Truthful'
  <2>1. Noted
    BY <1>5, SubmitSound DEF Noted, Submit, CloseForm
  <2>2. UNCHANGED <<panel, work, overlapped>> /\ form[s] # NoForm
        /\ \A t \in Staff \ {s} : form'[t] = form[t]
    BY <1>5 DEF Submit, CloseForm, Sound, FormsOK
  <2>3. ~overlapped' => \A t, u \in Staff : Active(t)' /\ Active(u)' => t = u
    BY <2>2 DEF Active, Truthful
  <2> QED BY <2>1, <2>2, <2>3, SameMark, QuietTruthful
<1>6. ASSUME NEW s \in Staff, NewRole(s) PROVE Truthful'
  BY <1>0, <1>6 DEF NewRole, Noted
<1>7. ASSUME NEW x \in Submissions \cup Campaigns, Elsewhere(x) PROVE Truthful'
  <2>1. Noted
    BY <1>7 DEF Elsewhere, Noted, Sound, StatusOK
  <2> QED BY <1>0, <1>7, <2>1 DEF Elsewhere
<1>8. CASE Crash
  <2>1. /\ UNCHANGED <<panel, form, overlapped>> /\ elsewhere' = Items
        /\ \A s \in Staff : work'[s] = Idle
    BY <1>8 DEF Crash
  <2>2. Noted
    BY <2>1 DEF Noted
  <2>3. ~overlapped' => \A t, u \in Staff : Active(t)' /\ Active(u)' => t = u
    BY <2>1 DEF Active, Truthful
  <2> QED BY <2>1, <2>2, <2>3, SameMark, QuietTruthful DEF Idle
<1>9. CASE UNCHANGED vars
  BY <1>0, <1>9 DEF vars, Noted
<1> QED BY <1>1, <1>2, <1>3, <1>4, <1>5, <1>6, <1>7, <1>8, <1>9 DEF Next, Handle

\* As long as no two presses overlap, a card of the staff shows the status its
\* item has, unless that was changed outside the message or an edit failed: an
\* edit is drawn from what the operation left (staff.interactions.js).
THEOREM CardsShowTruth == Spec => []ShowsTruth
<1>1. Init => Truthful
  <2> SUFFICES ASSUME Init PROVE Truthful
    OBVIOUS
  <2>1. panel.screen \notin Cards
    BY StaffPanelConstants DEF Init, HubOf, Cards
  <2> QED BY <2>1 DEF Init, Truthful, Active, Fresh, Idle
<1>2. Spec => []Truthful
  BY <1>1, SoundInit, SoundStep, TruthfulStep, PTL DEF Spec
<1> QED BY <1>2, TruthfulShows, PTL

(***************************************************************************)
(* The way back to the hub.  Each channel has its screens, and its buttons *)
(* lead from one to another; in #creators and in the control center the    *)
(* messages of all channels mix, and #campaign-management leads into the   *)
(* review queue.                                                           *)
(***************************************************************************)

Enclosed == place \in Places /\ place.channel \notin {"dashboard", "creators", "campaign-management"}

RoomsOf(c) ==
  CASE c = "review-queue" -> {"rqHub", "rqList", "submission", "registry", "analytics"}
    [] c = "payout-queue" -> {"pqHub", "pqList", "pqHistory", "payout", "evidence", "accepted"}
    [] c = "audit-log"    -> {"auditHub", "auditList"}
    [] c = "bot-status"   -> {"status"}
    [] c = "bot-errors"   -> {"errors"}

DoorsOf(c) ==
  CASE c = "review-queue" -> {"rqHub", "rqRefresh", "rqView", "subView", "subApprove", "subKeep", "subReverify",
                              "subFlag", "subReject", "registry", "subSearch", "subRefresh", "subMetrics",
                              "subAnalytics"}
    [] c = "payout-queue" -> PayoutButtons
    [] c = "audit-log"    -> {"auditHub", "auditRefresh", "auditList"}
    [] c = "bot-status"   -> {"sysStatus"}
    [] c = "bot-errors"   -> {"sysErrors"}

\* The registry is only reached from a submission, and so lists some.
InRoom(v) ==
  /\ v.screen \in RoomsOf(place.channel)
  /\ v.screen = "registry" => Submissions # {} /\ v.listed = Submissions

IsDoor(b) == b \in DoorsOf(place.channel) /\ (b = "registry" => Submissions # {})

LEMMA Channels ==
  ASSUME Enclosed
  PROVE  place.channel \in {"review-queue", "payout-queue", "audit-log", "bot-status", "bot-errors"}
  BY StaffPanelConstants DEF Enclosed, HubOf

LEMMA Doors ==
  ASSUME Enclosed, NEW v, IsView(v), InRoom(v), NEW b \in Buttons(v)
  PROVE  IsDoor(b.do)
<1>1. CASE place.channel = "review-queue"
  <2>1. v.screen \in {"rqHub", "rqList", "submission", "registry", "analytics"}
    BY <1>1 DEF InRoom, RoomsOf
  <2>2. b.do \in DoorsOf("review-queue") /\ (b.do = "registry" => v.screen \in {"registry", "submission"})
    <3>1. CASE v.screen \in {"rqHub", "rqList"}
      <4>1. b.do \in {"rqView", "rqRefresh", "rqHub", "subView"}
        BY <1>1, <3>1, RowButtons DEF Buttons, BackToCreators, buildStaffReviewQueueHubRow,
           buildStaffReviewQueueNavRow
      <4> QED BY <4>1 DEF DoorsOf
    <3>2. CASE v.screen \in {"registry", "analytics"}
      BY <3>2, RowButtons DEF Buttons, DoorsOf, buildStaffSubmissionRegistryNavRow,
         buildStaffAnalyticsNavRow
    <3>3. CASE v.screen = "submission"
      <4>1. b \in buildStaffSubmissionDetailRow(v.item, v.status, FALSE)
        BY <3>3 DEF Buttons
      <4>2. \/ b \in Plain({"rqView"}) \/ b.do # "crHub"
        BY <4>1, RowButtons DEF buildStaffSubmissionDetailRow
      <4> QED BY <3>3, <4>1, <4>2, SubmissionRow, RowButtons DEF DoorsOf
    <3> QED BY <2>1, <3>1, <3>2, <3>3
  <2>3. v.screen \in {"registry", "submission"} => Submissions # {}
    BY DEF InRoom, IsView, Suits, SubmissionScreens, ListScreens, NavScreens, CreatorScreens,
           CampaignScreens, PayoutScreens
  <2> QED BY <1>1, <2>2, <2>3 DEF IsDoor
<1>2. CASE place.channel = "payout-queue"
  <2>1. v.screen \in {"pqHub", "pqList", "pqHistory", "payout", "evidence", "accepted"}
    BY <1>2 DEF InRoom, RoomsOf
  <2>2. b.do \in PayoutButtons
    <3>1. CASE v.screen \in {"pqHub", "pqList", "pqHistory", "accepted"}
      BY <3>1, RowButtons DEF Buttons, PayoutButtons, buildStaffPayoutHubRow, buildStaffPayoutNavRow
    <3>2. CASE v.screen = "payout"
      <4>1. b \in buildStaffPayoutDetailRow(v.item, v.status)
        BY <3>2 DEF Buttons
      <4> QED BY <4>1, PayoutRow DEF PayoutButtons
    <3>3. CASE v.screen = "evidence"
      <4>1. PICK names \in SUBSET {"pqViewReq", "evAccept", "evReject"} : b \in Of(v.item, names)
        BY <3>3 DEF Buttons, buildStaffEvidenceReviewRow
      <4> QED BY <4>1, RowButtons DEF PayoutButtons
    <3> QED BY <2>1, <3>1, <3>2, <3>3
  <2> QED BY <1>2, <2>2 DEF IsDoor, DoorsOf, PayoutButtons
<1>3. CASE place.channel \in {"audit-log", "bot-status", "bot-errors"}
  BY <1>3, RowButtons DEF InRoom, RoomsOf, IsDoor, DoorsOf, Buttons, buildStaffAuditHubRow,
     buildStaffAuditNavRow, buildStaffSystemStatusRow, buildStaffSystemErrorsRow
<1> QED BY <1>1, <1>2, <1>3, Channels

\* Which family of the router a button belongs to.
LEMMA Families ==
  ASSUME NEW b
  PROVE  /\ b \in ReviewButtons => b \in CustomIds /\ Routes[b] = ReviewRoute(b)
         /\ b \in PayoutButtons => b \in CustomIds /\ Routes[b] = PayoutRoute(b)
         /\ b \in RegistryButtons => b \in CustomIds /\ Routes[b] = RegistryRoute(b)
<1>1. b \in ReviewButtons \cup PayoutButtons \cup RegistryButtons => b \in CustomIds
  BY DEF ReviewButtons, PayoutButtons, RegistryButtons, CustomIds
<1>2. b \in ReviewButtons \cup PayoutButtons \cup RegistryButtons => Routes[b] = ReviewRoute(b)
  <2>1. b \in ReviewButtons \cup PayoutButtons \cup RegistryButtons => Route(b) = ReviewRoute(b)
    BY DEF ReviewButtons, PayoutButtons, RegistryButtons, Route
  <2> QED BY <1>1, <2>1 DEF Routes
<1>3. b \in PayoutButtons \cup RegistryButtons => ReviewRoute(b) = CreatorRoute(b)
  BY DEF PayoutButtons, RegistryButtons, ReviewRoute
<1>4. b \in PayoutButtons \cup RegistryButtons => CreatorRoute(b) = CampaignRoute(b)
  BY DEF PayoutButtons, RegistryButtons, CreatorRoute, CreatorStatus
<1>5. b \in PayoutButtons \cup RegistryButtons => CampaignRoute(b) = PayoutRoute(b)
  BY DEF PayoutButtons, RegistryButtons, CampaignRoute
<1>6. b \in RegistryButtons => PayoutRoute(b) = RegistryRoute(b)
  BY DEF RegistryButtons, PayoutRoute
<1> QED BY <1>1, <1>2, <1>3, <1>4, <1>5, <1>6

\* A button of a channel draws a screen of the channel.
LEMMA Leads ==
  ASSUME Enclosed, NEW b, IsDoor(b), Routes[b].first # "form"
  PROVE  /\ Drawn(Routes[b]) \in RoomsOf(place.channel)
         /\ Drawn(Routes[b]) = "registry" => Submissions # {}
<1>1. Drawn(Routes[b]) = Routes[b].shows
  BY Channels DEF Drawn
<1>2. CASE place.channel = "review-queue"
  <2>1. CASE b \in ReviewButtons
    <3>1. Routes[b] = ReviewRoute(b)
      BY <2>1, Families
    <3>2. Routes[b].shows \in {"rqHub", "rqList", "submission", "creatorClip"}
      BY <2>1, <3>1 DEF ReviewButtons, ReviewRoute, Shows, Loads, Does, Asks, handleStaffReviewQueueHub,
         handleStaffReviewQueueView, handleStaffSubmissionView, handleStaffSubmissionApprove,
         handleStaffSubmissionKeepReview, handleStaffSubmissionReverify, handleStaffSubmissionFlag,
         handleStaffSubmissionRejectBtn
    <3>3. b # "subViewFrom"
      BY <1>2 DEF IsDoor, DoorsOf
    <3>4. Routes[b].shows # "creatorClip"
      BY <2>1, <3>1, <3>3 DEF ReviewButtons, ReviewRoute, Shows, Loads, Does, Asks,
         handleStaffReviewQueueHub, handleStaffReviewQueueView, handleStaffSubmissionView,
         handleStaffSubmissionApprove, handleStaffSubmissionKeepReview, handleStaffSubmissionReverify,
         handleStaffSubmissionFlag, handleStaffSubmissionRejectBtn
    <3> QED BY <1>1, <1>2, <3>2, <3>4 DEF RoomsOf
  <2>2. CASE b \in {"registry", "subSearch", "subRefresh", "subMetrics", "subAnalytics"}
    <3>1. Routes[b] = RegistryRoute(b)
      BY <2>2, Families DEF RegistryButtons
    <3>2. Routes[b].shows \in {"registry", "submission", "analytics"}
          /\ (Routes[b].shows = "registry" => b = "registry")
      BY <2>2, <3>1 DEF RegistryRoute, Shows, Loads, Asks, handleStaffSubmissionRegistryList,
         handleStaffSubmissionSearchBtn, handleStaffSubmissionRefreshMetrics,
         handleStaffSubmissionManualMetricsBtn, handleStaffSubmissionAnalytics
    <3> QED BY <1>1, <1>2, <3>2 DEF RoomsOf, IsDoor
  <2> QED BY <1>2, <2>1, <2>2 DEF IsDoor, DoorsOf, ReviewButtons
<1>3. CASE place.channel = "payout-queue"
  <2>1. b \in PayoutButtons
    BY <1>3 DEF IsDoor, DoorsOf
  <2>2. Routes[b] = PayoutRoute(b)
    BY <2>1, Families
  <2>3. Routes[b].shows \in {"pqHub", "pqList", "pqHistory", "payout", "evidence", "accepted"}
    BY <2>1, <2>2 DEF PayoutButtons, PayoutRoute, Shows, Does, Asks, Money, handleStaffPayoutHub,
       handleStaffPayoutQueueView, handleStaffPayoutHistory, handleStaffPayoutViewReq,
       handleStaffEvidenceReview, handleStaffEvidenceAccept, handleStaffEvidenceRejectBtn,
       handleStaffPayoutApprove, handleStaffPayoutRejectBtn, handleStaffPayoutProcess
  <2> QED BY <1>1, <1>3, <2>3 DEF RoomsOf
<1>4. CASE place.channel \in {"audit-log", "bot-status", "bot-errors"}
  <2>1. b \in RegistryButtons /\ Routes[b] = RegistryRoute(b)
    BY <1>4, Families DEF IsDoor, DoorsOf, RegistryButtons
  <2> QED BY <1>1, <1>4, <2>1 DEF IsDoor, DoorsOf, RoomsOf, RegistryRoute, Shows, handleStaffAuditHub,
       handleStaffAuditList, handleStaffSystemStatus, handleStaffBotErrorsRefresh
<1> QED BY <1>2, <1>3, <1>4, Channels

Roomy ==
  Enclosed =>
    /\ InRoom(panel)
    /\ \A s \in Staff : work[s] # Idle => IsDoor(work[s].do)
    /\ \A s \in Staff : work[s].stage = "draw" => InRoom(work[s].view)

LEMMA RoomyInit == Init => Roomy
<1> SUFFICES ASSUME Init, Enclosed PROVE Roomy
  BY DEF Roomy
<1>1. InRoom(panel)
  BY Channels DEF Init, InRoom, RoomsOf, HubOf
<1> QED BY <1>1 DEF Init, Roomy, Idle

LEMMA RoomyStep == Sound /\ Roomy /\ [Next]_vars => Roomy'
<1> SUFFICES ASSUME Sound, Roomy, [Next]_vars, Enclosed' PROVE Roomy'
  BY DEF Roomy
<1>1. UNCHANGED place /\ Enclosed
  <2>1. UNCHANGED place
    BY DEF Next, vars, Press, Handle, Ack, AckFails, Do, Throw, Draw, DrawFails, Submit, CloseForm,
           NewRole, Elsewhere, Crash
  <2> QED BY <2>1 DEF Enclosed
<1>2. \A v : InRoom(v)' <=> InRoom(v)
  BY <1>1 DEF InRoom, RoomsOf
<1>3. \A b : IsDoor(b)' <=> IsDoor(b)
  BY <1>1 DEF IsDoor, DoorsOf
<1>4. ASSUME InRoom(panel'), \A s \in Staff : work'[s] # Idle /\ work'[s] # work[s] =>
                                 /\ IsDoor(work'[s].do)
                                 /\ work'[s].stage = "draw" => InRoom(work'[s].view)
      PROVE  Roomy'
  <2>1. InRoom(panel)'
    BY <1>1, <1>4 DEF InRoom, RoomsOf
  <2>2. ASSUME NEW s \in Staff, work'[s] # Idle
        PROVE  /\ IsDoor(work[s].do)'
               /\ work'[s].stage = "draw" => InRoom(work[s].view)'
    <3>1. /\ IsDoor(work'[s].do)
          /\ work'[s].stage = "draw" => InRoom(work'[s].view)
      BY <1>1, <1>4, <2>2 DEF Roomy
    <3> QED BY <1>1, <3>1 DEF IsDoor, DoorsOf, InRoom, RoomsOf
  <2> QED BY <2>1, <2>2 DEF Roomy, Idle
<1>5. InRoom(panel)
  BY <1>1 DEF Roomy
<1>6. ASSUME panel'.screen = panel.screen, panel'.listed = panel.listed PROVE InRoom(panel')
  BY <1>5, <1>6 DEF InRoom
<1>7. ASSUME UNCHANGED <<panel, work>> PROVE Roomy'
  BY <1>4, <1>6, <1>7
<1>8. ASSUME NEW s \in Staff, NEW b \in Buttons(panel), Press(s, b) PROVE Roomy'
  <2>1. IsDoor(b.do)
    BY <1>1, <1>5, Doors DEF Sound, IsMessage
  <2>2. /\ \A t \in Staff \ {s} : work'[t] = work[t]
        /\ work'[s] = work[s] \/ (work'[s].stage = "ack" /\ work'[s].do = b.do)
    BY <1>8 DEF Press, Become, Sound, PressesOK
  <2>3. UNCHANGED panel
    BY <1>8 DEF Press
  <2> QED BY <1>4, <1>6, <2>1, <2>2, <2>3
<1>9. ASSUME NEW s \in Staff, Ack(s) \/ AckFails(s) PROVE Roomy'
  <2>1. IsShort(work[s]) /\ work[s] # Idle
    BY <1>9, PressKinds DEF Sound, Ack, AckFails, Idle
  <2>2. PICK u : u.stage = "do" /\ u.do = work[s].do /\ Become(s, u)
    BY <1>9, <2>1, AckedAs
  <2>3. /\ \A t \in Staff \ {s} : work'[t] = work[t]
        /\ work'[s].stage = "do" /\ work'[s].do = work[s].do
    BY <2>2 DEF Become, Sound, PressesOK
  <2>4. IsDoor(work[s].do)
    BY <1>1, <2>1 DEF Roomy
  <2>5. panel'.screen = panel.screen /\ panel'.listed = panel.listed
    BY <1>9 DEF Ack, AckFails, Sound, IsMessage
  <2> QED BY <1>4, <1>6, <2>3, <2>4, <2>5
<1>10. ASSUME NEW s \in Staff, Do(s) PROVE Roomy'
  <2>1. IsPress(work[s]) /\ work[s] # Idle
    BY <1>10, PressKinds DEF Sound, Do, Idle
  <2>2. IsDoor(work[s].do)
    BY <1>1, <2>1 DEF Roomy
  <2>3. /\ \A t \in Staff \ {s} : work'[t] = work[t]
        /\ work'[s].do = work[s].do
    BY <1>10 DEF Do, Become, Sound, PressesOK
  <2>4. Sound' /\ work'[s].stage = "draw" /\ work'[s].view.listed \in Lists(work'[s].view.screen, status')
    BY <1>10, DoSound
  <2>5. work'[s].view.screen = Drawn(Routes[work[s].do])
    <3>1. IsLong(work[s])'
      BY <2>4 DEF Sound, PressesOK, IsPress, IsShort, Idle
    <3> QED BY <1>1, <2>3, <3>1 DEF IsLong, Drawn
  <2>6. InRoom(work'[s].view)
    <3>1. work'[s].view.screen = "registry" => work'[s].view.listed = Submissions
      BY <2>4 DEF Lists
    <3> QED BY <1>1, <2>1, <2>2, <2>5, <3>1, Leads DEF InRoom, IsPress
  <2> QED BY <1>4, <1>6, <1>10, <2>2, <2>3, <2>6 DEF Do
<1>11. ASSUME NEW s \in Staff, Throw(s) \/ Draw(s) \/ DrawFails(s) PROVE Roomy'
  <2>1. work'[s] = Idle /\ \A t \in Staff \ {s} : work'[t] = work[t]
    BY <1>11, EndSound
  <2>2. InRoom(panel')
    <3>1. CASE Throw(s) \/ DrawFails(s)
      BY <1>6, <3>1, ReportSound DEF Throw, DrawFails, Sound
    <3>2. CASE Draw(s)
      <4>1. InRoom(work[s].view)
        BY <1>1, <3>2 DEF Draw, Roomy
      <4> QED BY <3>2, <4>1 DEF Draw, Message, InRoom
    <3> QED BY <1>11, <3>1, <3>2
  <2> QED BY <1>4, <2>1, <2>2
<1>12. ASSUME NEW s \in Staff, Submit(s) \/ CloseForm(s) \/ NewRole(s) PROVE Roomy'
  BY <1>7, <1>12 DEF Submit, CloseForm, NewRole
<1>13. ASSUME NEW x \in Submissions \cup Campaigns, Elsewhere(x) PROVE Roomy'
  BY <1>7, <1>13 DEF Elsewhere
<1>14. CASE Crash
  BY <1>4, <1>6, <1>14 DEF Crash
<1>15. CASE UNCHANGED vars
  BY <1>7, <1>15 DEF vars
<1> QED BY <1>8, <1>9, <1>10, <1>11, <1>12, <1>13, <1>14, <1>15 DEF Next, Handle

(***************************************************************************)
(* One press ahead                                                         *)
(***************************************************************************)

LEMMA AheadKeeps ==
  ASSUME NEW vs
  PROVE  vs \subseteq Ahead(vs)
  BY DEF Ahead

LEMMA ListsSome ==
  ASSUME NEW screen, NEW now
  PROVE  Lists(screen, now) # {}
  BY DEF Lists

\* A button that reads shows its screen.
LEMMA OneAhead ==
  ASSUME Enclosed, NEW vs, NEW v \in vs, NEW b \in Buttons(v), b.do \in CustomIds,
         Routes[b.do].does = "read"
  PROVE  \E u \in Ahead(vs) : u.screen = Routes[b.do].shows /\ u.row = "buttons"
<1> DEFINE screen == Routes[b.do].shows
<1>1. ~Refused(Drawn(Routes[b.do])) /\ Drawn(Routes[b.do]) = screen
  BY Channels DEF Refused, Drawn
<1>2. PICK xs : xs \in Lists(screen, status)
  BY ListsSome
<1> DEFINE w == [screen |-> screen, item |-> IF screen \in ItemScreens THEN b.item ELSE None, listed |-> xs,
                 status |-> IF screen \in Cards THEN status[Subject(screen, b.item)] ELSE None]
           u == Message(w, "", "buttons")
<1>3. w \in Read(screen, b.item, status)
  BY <1>2 DEF Read
<1>4. b \in UNION {Buttons(y) : y \in vs} /\ b.do \in DOMAIN Routes
  BY DEF Routes
<1>5. u \in {Message(y, "", "buttons") : y \in Read(Drawn(Routes[b.do]), b.item, status)}
  BY <1>1, <1>3
<1>6. u \in Ahead(vs)
  <2> HIDE DEF u, w
  <2> QED BY <1>1, <1>4, <1>5 DEF Ahead
<1>7. u.screen = screen /\ u.row = "buttons"
  BY DEF Message
<1> QED BY <1>6, <1>7

\* What is one, two and three presses from the hub.
IsHub(u)  == u.screen = HubOf[place.channel]
IsNear(u) == u.row = "buttons" /\ u.screen \in {"rqList", "pqList", "pqHistory", "auditList"}
IsOff(u)  == u.row = "buttons" /\ u.screen \in {"submission", "payout"}
IsFar(u)  ==
  /\ u.row = "buttons" /\ u.screen \in {"analytics", "registry", "evidence", "accepted"}
  /\ u.screen = "registry" => u.listed # {}

\* What the buttons on the way read.
LEMMA WayIds ==
  ASSUME NEW b \in {"rqHub", "rqView", "subView", "pqHub", "pqView", "pqViewReq", "auditHub"}
  PROVE  /\ b \in CustomIds /\ Routes[b].does = "read"
         /\ b = "rqHub" => Routes[b].shows = "rqHub"
         /\ b = "rqView" => Routes[b].shows = "rqList"
         /\ b = "subView" => Routes[b].shows = "submission"
         /\ b = "pqHub" => Routes[b].shows = "pqHub"
         /\ b = "pqView" => Routes[b].shows = "pqList"
         /\ b = "pqViewReq" => Routes[b].shows = "payout"
         /\ b = "auditHub" => Routes[b].shows = "auditHub"
<1>1. CASE b \in {"rqHub", "rqView", "subView"}
  <2>1. b \in CustomIds /\ Routes[b] = ReviewRoute(b)
    BY <1>1, Families DEF ReviewButtons
  <2> QED BY <1>1, <2>1 DEF ReviewRoute, Shows, Loads, handleStaffReviewQueueHub,
       handleStaffReviewQueueView, handleStaffSubmissionView
<1>2. CASE b \in {"pqHub", "pqView", "pqViewReq"}
  <2>1. b \in CustomIds /\ Routes[b] = PayoutRoute(b)
    BY <1>2, Families DEF PayoutButtons
  <2> QED BY <1>2, <2>1 DEF PayoutRoute, Shows, handleStaffPayoutHub, handleStaffPayoutQueueView,
       handleStaffPayoutViewReq
<1>3. CASE b = "auditHub"
  <2>1. b \in CustomIds /\ Routes[b] = RegistryRoute(b)
    BY <1>3, Families DEF RegistryButtons
  <2> QED BY <1>3, <2>1 DEF RegistryRoute, Shows, handleStaffAuditHub
<1> QED BY <1>1, <1>2, <1>3

LEMMA NearHub ==
  ASSUME Enclosed, NEW vs, NEW v \in vs, IsNear(v), v.screen \in RoomsOf(place.channel)
  PROVE  \E u \in Ahead(vs) : IsHub(u)
<1>1. CASE v.screen = "rqList"
  <2>1. place.channel = "review-queue"
    BY <1>1, Channels DEF RoomsOf
  <2>2. [do |-> "rqHub", item |-> None] \in Buttons(v)
    BY <1>1, <2>1 DEF IsNear, Buttons, buildStaffReviewQueueNavRow, Plain
  <2>3. PICK b \in Buttons(v) : b.do = "rqHub"
    BY <2>2
  <2>4. \E u \in Ahead(vs) : u.screen = "rqHub"
    BY <2>3, WayIds, OneAhead
  <2> QED BY <2>1, <2>4 DEF IsHub, HubOf
<1>2. CASE v.screen \in {"pqList", "pqHistory"}
  <2>1. place.channel = "payout-queue"
    BY <1>2, Channels DEF RoomsOf
  <2>2. [do |-> "pqHub", item |-> None] \in Buttons(v)
    BY <1>2 DEF IsNear, Buttons, buildStaffPayoutNavRow, Plain
  <2>3. PICK b \in Buttons(v) : b.do = "pqHub"
    BY <2>2
  <2>4. \E u \in Ahead(vs) : u.screen = "pqHub"
    BY <2>3, WayIds, OneAhead
  <2> QED BY <2>1, <2>4 DEF IsHub, HubOf
<1>3. CASE v.screen = "auditList"
  <2>1. place.channel = "audit-log"
    BY <1>3, Channels DEF RoomsOf
  <2>2. [do |-> "auditHub", item |-> None] \in Buttons(v)
    BY <1>3 DEF IsNear, Buttons, buildStaffAuditNavRow, Plain
  <2>3. PICK b \in Buttons(v) : b.do = "auditHub"
    BY <2>2
  <2>4. \E u \in Ahead(vs) : u.screen = "auditHub"
    BY <2>3, WayIds, OneAhead
  <2> QED BY <2>1, <2>4 DEF IsHub, HubOf
<1> QED BY <1>1, <1>2, <1>3 DEF IsNear

LEMMA OffNear ==
  ASSUME Enclosed, NEW vs, NEW v \in vs, IsOff(v), v.screen \in RoomsOf(place.channel)
  PROVE  \E u \in Ahead(vs) : IsNear(u) /\ u.screen \in RoomsOf(place.channel)
<1>1. CASE v.screen = "submission"
  <2>1. place.channel = "review-queue"
    BY <1>1, Channels DEF RoomsOf
  <2>2. [do |-> "rqView", item |-> None] \in Buttons(v)
    BY <1>1 DEF IsOff, Buttons, buildStaffSubmissionDetailRow, Plain
  <2>3. PICK b \in Buttons(v) : b.do = "rqView"
    BY <2>2
  <2>4. \E u \in Ahead(vs) : u.screen = "rqList" /\ u.row = "buttons"
    BY <2>3, WayIds, OneAhead
  <2> QED BY <2>1, <2>4 DEF IsNear, RoomsOf
<1>2. CASE v.screen = "payout"
  <2>1. place.channel = "payout-queue"
    BY <1>2, Channels DEF RoomsOf
  <2>2. [do |-> "pqView", item |-> None] \in Buttons(v)
    BY <1>2 DEF IsOff, Buttons, buildStaffPayoutDetailRow, Plain
  <2>3. PICK b \in Buttons(v) : b.do = "pqView"
    BY <2>2
  <2>4. \E u \in Ahead(vs) : u.screen = "pqList" /\ u.row = "buttons"
    BY <2>3, WayIds, OneAhead
  <2> QED BY <2>1, <2>4 DEF IsNear, RoomsOf
<1> QED BY <1>1, <1>2 DEF IsOff

LEMMA FarOff ==
  ASSUME Enclosed, NEW vs, NEW v \in vs, IsFar(v), v.screen \in RoomsOf(place.channel)
  PROVE  \E u \in Ahead(vs) : IsOff(u) /\ u.screen \in RoomsOf(place.channel)
<1>1. CASE v.screen \in {"analytics", "registry"}
  <2>1. place.channel = "review-queue"
    BY <1>1, Channels DEF RoomsOf
  <2>2. \E x : [do |-> "subView", item |-> x] \in Buttons(v)
    BY <1>1 DEF IsFar, Buttons, buildStaffAnalyticsNavRow, buildStaffSubmissionRegistryNavRow, Each, Of
  <2>3. PICK b \in Buttons(v) : b.do = "subView"
    BY <2>2
  <2>4. \E u \in Ahead(vs) : u.screen = "submission" /\ u.row = "buttons"
    BY <2>3, WayIds, OneAhead
  <2> QED BY <2>1, <2>4 DEF IsOff, RoomsOf
<1>2. CASE v.screen \in {"evidence", "accepted"}
  <2>1. place.channel = "payout-queue"
    BY <1>2, Channels DEF RoomsOf
  <2>2. [do |-> "pqViewReq", item |-> v.item] \in Buttons(v)
    BY <1>2 DEF IsFar, Buttons, buildStaffEvidenceReviewRow, Of
  <2>3. PICK b \in Buttons(v) : b.do = "pqViewReq"
    BY <2>2
  <2>4. \E u \in Ahead(vs) : u.screen = "payout" /\ u.row = "buttons"
    BY <2>3, WayIds, OneAhead
  <2> QED BY <2>1, <2>4 DEF IsOff, RoomsOf
<1> QED BY <1>1, <1>2 DEF IsFar

LEMMA RoomyWayBack ==
  ASSUME Roomy, place \in Places
  PROVE  WayBack
<1> SUFFICES ASSUME Enclosed, panel.row = "buttons"
             PROVE  \E v \in Ahead(Ahead(Ahead({panel}))) : IsHub(v)
  BY DEF WayBack, Enclosed, IsHub
<1>1. panel.screen \in RoomsOf(place.channel) /\ (panel.screen = "registry" => panel.listed # {})
  BY DEF Roomy, InRoom
<1>2. IsHub(panel) \/ IsNear(panel) \/ IsOff(panel) \/ IsFar(panel)
  BY <1>1, Channels DEF IsHub, IsNear, IsOff, IsFar, RoomsOf, HubOf
<1> DEFINE one == Ahead({panel})  two == Ahead(one)
<1>3. {panel} \subseteq one /\ one \subseteq two /\ two \subseteq Ahead(two)
  BY AheadKeeps
<1> HIDE DEF one, two
<1>4. IsHub(panel) => \E v \in Ahead(two) : IsHub(v)
  BY <1>3
<1>5. IsNear(panel) => \E v \in Ahead(two) : IsHub(v)
  BY <1>1, <1>3, NearHub
<1>6. IsOff(panel) => \E v \in Ahead(two) : IsHub(v)
  <2>1. IsOff(panel) => \E u \in Ahead(one) : IsNear(u) /\ u.screen \in RoomsOf(place.channel)
    BY <1>1, <1>3, OffNear
  <2> QED BY <2>1, NearHub DEF two
<1>7. IsFar(panel) => \E v \in Ahead(two) : IsHub(v)
  <2>1. IsFar(panel) => \E u \in one : IsOff(u) /\ u.screen \in RoomsOf(place.channel)
    BY <1>1, FarOff DEF one
  <2>2. IsFar(panel) => \E u \in two : IsNear(u) /\ u.screen \in RoomsOf(place.channel)
    BY <2>1, OffNear DEF two
  <2> QED BY <2>2, NearHub
<1> QED BY <1>2, <1>4, <1>5, <1>6, <1>7 DEF one, two

\* In the channels of the review queue, the payouts, the audit log and the system,
\* whatever a message shows, at most three presses lead back to its hub
\* (staff.components.js).
THEOREM NoDeadEnd == Spec => []WayBack
<1>1. Spec => []Sound
  BY SoundInit, SoundStep, PTL DEF Spec
<1>2. Spec => []Roomy
  BY <1>1, RoomyInit, RoomyStep, PTL DEF Spec
<1>3. Init => place \in Places
  BY DEF Init
<1>4. place \in Places /\ [Next]_vars => (place \in Places)'
  BY DEF Next, vars, Press, Handle, Ack, AckFails, Do, Throw, Draw, DrawFails, Submit, CloseForm,
         NewRole, Elsewhere, Crash
<1>5. Roomy /\ place \in Places => WayBack
  BY RoomyWayBack
<1> QED BY <1>2, <1>3, <1>4, <1>5, PTL DEF Spec

-----------------------------------------------------------------------------
(***************************************************************************)
(* The process and its bot (Process), for every number of clients, of      *)
(* failures and of rate limits, in production and in development.          *)
(***************************************************************************)

\* The only open connection is that of the client in use, and an attempt works on
\* that client.
OneClient ==
  /\ connected \subseteq {discordClient} /\ 0 \notin connected
  /\ attempt # B!NoAttempt => attempt.client = discordClient /\ discordClient # 0

\* Nothing that the bot does by itself begins an attempt.
BotStill == attempt = B!NoAttempt /\ isReconnecting = FALSE /\ started # "no"

\* How far the shutdown has come.
PastHealth  == down \notin {"no", "health"}
PastBot     == PastHealth /\ down # "bot"
PastWorkers == PastBot /\ down # "workers"
PastClosing == PastWorkers /\ down # "closing"

\* Unless a login was still ahead when the bot was stopped, it stays disconnected.
BotDown ==
  "login" \notin ahead => OneClient /\ (PastBot => BotStill /\ connected = {})

\* What each step of the shutdown has passed is torn down, and nothing that still
\* runs starts it again, unless it was ahead then.
TornDown ==
  /\ boot \in {"health", "database", "redis", "workers", "retention", "bot", "login", "done"}
  /\ exit = "0" => down = "done"
  /\ PastHealth /\ "server" \notin ahead => ~server /\ boot # "health"
  /\ workers \in {"none", "closed"} => ~job
  /\ PastWorkers /\ "workers" \notin ahead =>
       /\ boot \in {"bot", "login", "done"}
       /\ ~interval /\ ~daily /\ workers # "running"
       /\ PastClosing => workers \in {"none", "closed"}
       /\ "warmup" \notin ahead =>
            /\ ~warmup
            /\ down \in {"database", "exit", "done"} => ~queues
            /\ down \in {"exit", "done"} => ~database

Torn == BotDown /\ TornDown

USE DEF PastHealth, PastBot, PastWorkers, PastClosing

LEMMA TornInit == B!Init => Torn
  BY DEF B!Init, B!BotInit, Torn, BotDown, OneClient, TornDown

LEMMA BeginsOneClient ==
  ASSUME OneClient, NEW who, B!BeginAttempt(who)
  PROVE  OneClient'
<1>1. PICK g \in B!Clients :
        /\ B!WithClient(g)
        /\ attempt' = [stage |-> "diagnose", by |-> who, client |-> g, patient |-> FALSE]
        /\ UNCHANGED <<connected, greeted>>
  BY DEF B!BeginAttempt
<1>2. g # 0
  BY DEF B!Clients
<1>3. attempt'.client = g /\ discordClient' = g
  BY <1>1 DEF B!WithClient
<1>4. connected \subseteq {g}
  BY <1>1 DEF OneClient, B!WithClient
<1> QED BY <1>1, <1>2, <1>3, <1>4 DEF OneClient

\* The bot goes on with its one client, and does not begin again once it is still.
LEMMA BotGoesOnTorn ==
  ASSUME OneClient, B!BotGoesOn
  PROVE  OneClient' /\ (BotStill => BotStill' /\ UNCHANGED connected)
<1> DEFINE Stays == BotStill' /\ UNCHANGED connected
<1> USE DEF BotStill
<1>0. B!NoAttempt.stage = "none"
  BY DEF B!NoAttempt
<1>1. ASSUME B!Diagnosed PROVE OneClient' /\ (BotStill => Stays)
  <2>1. /\ attempt.stage = "diagnose" /\ UNCHANGED <<connected, discordClient>>
        /\ attempt' = [attempt EXCEPT !.stage = "login", !.patient = activeRateLimit = "running"]
    BY <1>1 DEF B!Diagnosed, B!clients
  <2>2. attempt'.client = attempt.client /\ attempt # B!NoAttempt
    BY <1>0, <2>1
  <2> QED BY <2>1, <2>2 DEF OneClient
<1>2. ASSUME B!LoginSucceeds PROVE OneClient' /\ (BotStill => Stays)
  <2>1. attempt.stage = "login" /\ attempt # B!NoAttempt
    BY <1>0, <1>2 DEF B!LoginSucceeds
  <2> QED BY <1>2, <2>1 DEF B!LoginSucceeds, OneClient
<1>3. ASSUME NEW reason, B!LoginFails(reason) PROVE OneClient' /\ (BotStill => Stays)
  <2>1. attempt # B!NoAttempt
    BY <1>0, <1>3 DEF B!LoginFails
  <2> QED BY <1>3, <2>1 DEF B!LoginFails, B!Failed, B!clients, OneClient
<1>4. ASSUME B!TimesOut PROVE OneClient' /\ (BotStill => Stays)
  <2>1. /\ attempt # B!NoAttempt /\ UNCHANGED <<connected, discordClient>>
        /\ attempt' = [attempt EXCEPT !.stage = "destroy"]
    BY <1>0, <1>4 DEF B!TimesOut, B!clients
  <2>2. attempt'.client = attempt.client
    BY <2>1
  <2> QED BY <2>1, <2>2 DEF OneClient
<1>5. ASSUME B!Destroyed PROVE OneClient' /\ (BotStill => Stays)
  <2>1. attempt # B!NoAttempt
    BY <1>0, <1>5 DEF B!Destroyed
  <2> QED BY <1>5, <2>1 DEF B!Destroyed, B!Failed, OneClient
<1>6. ASSUME B!TimerFires PROVE OneClient' /\ (BotStill => Stays)
  <2>1. ~BotStill
    BY <1>6 DEF B!TimerFires
  <2>2. ASSUME UNCHANGED <<attempt, connected, discordClient>> PROVE OneClient'
    BY <2>2 DEF OneClient
  <2>3. ASSUME B!BeginAttempt("loop") PROVE OneClient'
    BY <2>3, BeginsOneClient
  <2>4. B!BeginAttempt("loop") \/ UNCHANGED <<isLoginInFlight, attempt, B!clients>>
    BY <1>6, Zenon DEF B!TimerFires
  <2>5. OneClient'
    BY <2>2, <2>3, <2>4 DEF B!clients
  <2> QED BY <2>1, <2>5
<1>7. ASSUME B!RateLimited \/ B!CooldownEnds PROVE OneClient' /\ (BotStill => Stays)
  BY <1>7 DEF B!RateLimited, B!CooldownEnds, B!clients, B!flags, OneClient
<1>8. ASSUME NEW g \in B!Clients, B!ClientReady(g) PROVE OneClient' /\ (BotStill => Stays)
  <2>1. UNCHANGED <<connected, attempt, discordClient, started>> /\ isReconnecting' = FALSE
    BY <1>8 DEF B!ClientReady
  <2>2. OneClient'
    BY <2>1 DEF OneClient
  <2>3. BotStill => Stays
    BY <2>1
  <2> QED BY <2>2, <2>3
<1> HIDE DEF Stays
<1>9. OneClient' /\ (BotStill => Stays)
  BY <1>1, <1>2, <1>3, <1>4, <1>5, <1>6, <1>7, <1>8, Zenon DEF B!BotGoesOn, B!Answered
<1> QED BY <1>9 DEF Stays

\* A step of the boot opens what is ahead of it, and nothing else.
LEMMA BootTorn ==
  ASSUME Torn, exit = "none", B!Boots
  PROVE  Torn'
<1>1. CASE B!BootBot
  <2>1. "login" \notin ahead => ~PastBot /\ OneClient'
    BY <1>1, BeginsOneClient DEF B!BootBot, B!Start, Torn, BotDown, BotStill
  <2>2. BotDown'
    BY <1>1, <2>1 DEF B!BootBot, BotDown
  <2> QED BY <1>1, <2>2 DEF B!BootBot, B!resources, B!timers, Torn, TornDown
<1>2. ASSUME UNCHANGED <<B!botVars, down, ahead>> PROVE BotDown'
  BY <1>2 DEF B!botVars, Torn, BotDown, OneClient, BotStill
<1>3. CASE B!BootHealth \/ B!BootDatabase
  <2>1. BotDown'
    BY <1>2, <1>3 DEF B!BootHealth, B!BootDatabase
  <2> QED BY <1>3, <2>1 DEF B!BootHealth, B!BootDatabase, B!Exit, B!timers, Torn, TornDown
<1>4. CASE B!BootRedis \/ B!BootEnds
  <2>1. BotDown'
    BY <1>2, <1>4 DEF B!BootRedis, B!BootEnds
  <2> QED BY <1>4, <2>1 DEF B!BootRedis, B!BootEnds, B!Exit, B!resources, B!timers, Torn, TornDown
<1>5. CASE B!BootWorkers \/ B!BootRetention
  <2>1. BotDown'
    BY <1>2, <1>5 DEF B!BootWorkers, B!BootRetention
  <2> QED BY <1>5, <2>1 DEF B!BootWorkers, B!BootRetention, Torn, TornDown
<1> QED BY <1>1, <1>3, <1>4, <1>5 DEF B!Boots

\* What runs beside the shutdown: jobs, cycles and an exception.
LEMMA WorkTorn ==
  ASSUME Torn, exit = "none", B!TakeJob \/ B!FinishJob \/ B!Cycle \/ B!WarmupEnds \/ B!Exception
  PROVE  Torn'
<1>1. BotDown'
  BY DEF B!TakeJob, B!FinishJob, B!Cycle, B!WarmupEnds, B!Exception, B!botVars, Torn, BotDown, OneClient, BotStill
<1>2. CASE B!TakeJob \/ B!FinishJob
  BY <1>1, <1>2 DEF B!TakeJob, B!FinishJob, B!timers, Torn, TornDown
<1>3. CASE B!Cycle \/ B!WarmupEnds
  BY <1>1, <1>3 DEF B!Cycle, B!WarmupEnds, B!Dispatches, Torn, TornDown
<1>4. CASE B!Exception
  BY <1>1, <1>4 DEF B!Exception, B!Exit, B!resources, B!timers, Torn, TornDown
<1> QED BY <1>2, <1>3, <1>4

\* The shutdown begins, and nothing has been passed yet.
LEMMA SignalTorn ==
  ASSUME Torn, exit = "none", B!Signal
  PROVE  Torn'
  BY DEF B!Signal, B!resources, B!timers, B!botVars, Torn, BotDown, TornDown, OneClient, BotStill

\* Each step tears its part down, or notes that it is still ahead.
LEMMA DownTorn ==
  ASSUME Torn, exit = "none", B!Downs
  PROVE  Torn'
<1> USE DEF B!Passes, B!Late
<1>1. CASE B!DownBot
  <2>1. CASE attempt # B!NoAttempt \/ started = "no"
    <3>1. "login" \in ahead'
      BY <1>1, <2>1 DEF B!DownBot
    <3> QED BY <1>1, <3>1 DEF B!DownBot, B!resources, B!timers, Torn, BotDown, TornDown
  <2>2. CASE attempt = B!NoAttempt /\ started # "no"
    <3>1. B!NoAttempt.stage = "none"
      BY DEF B!NoAttempt
    <3>2. ahead' = ahead
      BY <1>1, <2>2 DEF B!DownBot
    <3>3. "login" \notin ahead => BotStill' /\ connected' = {}
      BY <1>1, <2>2, <3>1 DEF B!DownBot, B!StopBot, Torn, BotDown, OneClient, BotStill
    <3>4. BotDown'
      BY <3>2, <3>3 DEF BotDown, OneClient, BotStill
    <3> QED BY <1>1, <3>2, <3>4 DEF B!DownBot, B!resources, B!timers, Torn, TornDown
  <2> QED BY <2>1, <2>2
<1>2. ASSUME UNCHANGED B!botVars, ahead \subseteq ahead', down # "bot", down # "health", down # "no" PROVE BotDown'
  BY <1>2 DEF B!botVars, Torn, BotDown, OneClient, BotStill
<1>3. CASE B!DownHealth
  <2>1. BotDown'
    BY <1>3 DEF B!DownHealth, B!botVars, Torn, BotDown, OneClient, BotStill
  <2> QED BY <1>3, <2>1 DEF B!DownHealth, B!timers, Torn, TornDown
<1>4. CASE B!DownWorkers
  <2>1. BotDown'
    BY <1>2, <1>4 DEF B!DownWorkers
  <2> QED BY <1>4, <2>1 DEF B!DownWorkers, B!timers, Torn, TornDown
<1>5. CASE B!WorkersClosed \/ B!DownQueues
  <2>1. BotDown'
    BY <1>2, <1>5 DEF B!WorkersClosed, B!DownQueues
  <2> QED BY <1>5, <2>1 DEF B!WorkersClosed, B!DownQueues, B!timers, Torn, TornDown
<1>6. CASE B!DownDatabase \/ B!DownExit
  <2>1. BotDown'
    BY <1>2, <1>6 DEF B!DownDatabase, B!DownExit
  <2> QED BY <1>6, <2>1 DEF B!DownDatabase, B!DownExit, B!Exit, B!resources, B!timers, Torn, TornDown
<1>7. CASE B!ForcedExit
  BY <1>7 DEF B!ForcedExit, B!Exit, B!resources, B!timers, B!botVars, Torn, BotDown, TornDown, OneClient, BotStill
<1> QED BY <1>1, <1>3, <1>4, <1>5, <1>6, <1>7 DEF B!Downs

LEMMA TornStep == Torn /\ [B!ProcessNext]_B!vars => Torn'
<1> SUFFICES ASSUME Torn, [B!ProcessNext]_B!vars PROVE Torn'
  OBVIOUS
<1>1. CASE UNCHANGED B!vars
  BY <1>1 DEF B!vars, B!botVars, B!processVars, Torn, BotDown, TornDown, OneClient, BotStill
<1>2. CASE B!ProcessNext
  <2>1. CASE B!BotGoesOn /\ UNCHANGED B!processVars
    <3>1. BotDown'
      BY <2>1, BotGoesOnTorn DEF B!processVars, Torn, BotDown
    <3> QED BY <2>1, <3>1 DEF B!processVars, Torn, TornDown
  <2> QED BY <1>2, <2>1, BootTorn, WorkTorn, SignalTorn, DownTorn DEF B!ProcessNext
<1> QED BY <1>1, <1>2

LEMMA TornClean ==
  ASSUME Torn
  PROVE  CleanExit
<1> SUFFICES ASSUME exit = "0"
             PROVE  /\ server => "server" \in ahead
                    /\ job \/ interval \/ daily => "workers" \in ahead
                    /\ queues \/ database => ahead \cap {"workers", "warmup"} # {}
                    /\ connected # {} \/ attempt # B!NoAttempt => "login" \in ahead
  BY DEF CleanExit, B!CleanExit
<1>1. down = "done"
  BY DEF Torn, TornDown
<1>2. server => "server" \in ahead
  BY <1>1 DEF Torn, TornDown
<1>3. job \/ interval \/ daily => "workers" \in ahead
  BY <1>1 DEF Torn, TornDown
<1>4. queues \/ database => "workers" \in ahead \/ "warmup" \in ahead
  BY <1>1 DEF Torn, TornDown
<1>5. connected # {} \/ attempt # B!NoAttempt => "login" \in ahead
  BY <1>1 DEF Torn, BotDown, BotStill
<1> QED BY <1>2, <1>3, <1>4, <1>5

\* Whenever the signal comes, a process that exits with 0 has torn down what it had
\* opened, but for what the boot, the warm-up and a login in flight had still ahead of
\* them when the shutdown passed it (shutdown in app.js).
THEOREM ExitsClean == B!ProcessSpec => []CleanExit
  BY TornInit, TornStep, TornClean, PTL DEF B!ProcessSpec

-----------------------------------------------------------------------------
(***************************************************************************)
(* The hub of a managed channel (ChannelHub), for every number of runs at  *)
(* once and every size of a fetch.                                         *)
(***************************************************************************)

\* What the theorem assumes of the channel: it is not the staff dashboard, whose
\* set-up may make a hub of an error reply that another run is about to delete, and
\* no other part posts notices there, which a sweep may keep for the hub.
OwnChannel == HubChannel # "staff" /\ "notice" \notin Posts

\* A run that writes has taken a hub, or a message that is gone.
TakesHubs ==
  \A w \in Workers : \A m \in messages :
    hubWork[w].stage = "write" /\ m.id = hubWork[w].hub => m.kind = "hub"

\* The newest hub is on nobody's list.
Spares(h) ==
  /\ \A g \in CH!Hubs : g.id <= h.id
  /\ \A w \in Workers : hubWork[w].stage = "delete" => h.id \notin hubWork[w].todo

NewestSpared == CH!Hubs # {} => \E h \in CH!Hubs : Spares(h)

\* Every channel has a finite number of messages, none of them a notice.
Listed ==
  /\ CH!TypeOK
  /\ IsFiniteSet(messages)
  /\ \A m \in messages : m.kind # "notice"

Steady == Listed /\ TakesHubs /\ NewestSpared

\* A run of this channel fetches and takes for hubs what the sweep does.
LEMMA NotStaffSetup ==
  ASSUME OwnChannel
  PROVE  \A j : ~CH!IsStaffSetup(j)
  BY DEF OwnChannel, CH!IsStaffSetup

\* Ids are numbers, and the next one is new.
LEMMA IdsInt ==
  ASSUME Listed
  PROVE  /\ CH!Ids \subseteq Nat \ {0}
         /\ \A m \in messages : m.id \in CH!Ids /\ m.id \in Int
         /\ next \notin CH!Ids \cup {0}
<1>1. next \in Nat \ {0} /\ messages \subseteq CH!Message
  BY DEF Listed, CH!TypeOK
<1>2. CH!Ids \subseteq Nat \ {0}
  BY <1>1 DEF CH!Ids
<1>3. \A m \in messages : m.id \in CH!Ids
  BY <1>1 DEF CH!Message
<1>4. \A i \in CH!Ids : i \in Int
  BY <1>2
<1>5. next \notin CH!Ids \cup {0}
  BY <1>1 DEF CH!Ids
<1> QED BY <1>2, <1>3, <1>4, <1>5

\* The instance counts as everybody does.
LEMMA SameCount ==
  \A S : CH!Cardinality(S) = Cardinality(S)
  BY DEF CH!Cardinality, Cardinality

\* Whatever a fetch returns includes everything newer.
LEMMA NewerFetched ==
  ASSUME Listed, NEW limit \in Nat, NEW m \in CH!Latest(limit), NEW h \in messages, m.id <= h.id
  PROVE  h \in CH!Latest(limit)
<1> DEFINE Newer(x) == {n \in messages : n.id > x.id}
<1>1. \A n \in messages : n.id \in Int
  BY IdsInt
<1>2. m \in messages /\ Cardinality(Newer(m)) < limit
  BY SameCount DEF CH!Latest
<1>3. Newer(h) \in SUBSET Newer(m)
  BY <1>1, <1>2
<1>4. IsFiniteSet(Newer(m))
  <2>1. Newer(m) \in SUBSET messages
    OBVIOUS
  <2> QED BY <2>1, FS_Subset DEF Listed
<1>5. Cardinality(Newer(h)) <= Cardinality(Newer(m)) /\ IsFiniteSet(Newer(h))
  BY <1>3, <1>4, FS_Subset
<1>6. Cardinality(Newer(h)) \in Nat /\ Cardinality(Newer(m)) \in Nat
  BY <1>4, <1>5, FS_CardinalityType
<1>7. Cardinality(Newer(h)) < limit
  BY <1>2, <1>5, <1>6
<1> QED BY <1>7, SameCount DEF CH!Latest

\* The newest of some messages is the one that no other exceeds.
LEMMA NewestIs ==
  ASSUME Listed, NEW S \in SUBSET messages, NEW h \in S, \A g \in S : g.id <= h.id
  PROVE  CH!Newest(S) = h
<1>1. \A n \in messages : n.id \in Int
  BY IdsInt
<1>2. \A m \in S : (\A n \in S : n.id <= m.id) => m = h
  <2> SUFFICES ASSUME NEW m \in S, \A n \in S : n.id <= m.id PROVE m = h
    OBVIOUS
  <2>1. m.id <= h.id /\ h.id <= m.id /\ m.id \in Int /\ h.id \in Int
    BY <1>1
  <2>2. m.id = h.id
    BY <2>1
  <2> QED BY <2>2 DEF Listed, CH!TypeOK
<1>3. CH!Newest(S) \in S /\ \A n \in S : n.id <= CH!Newest(S).id
  BY DEF CH!Newest
<1> QED BY <1>2, <1>3

\* A run that goes on to what is well typed leaves the others as they were.
LEMMA RunsOn ==
  ASSUME Listed, NEW w \in Workers, NEW c, CH!Become(w, c), c \in {CH!Idle} \cup CH!Run
  PROVE  /\ hubWork' = [hubWork EXCEPT ![w] = c]
         /\ hubWork'[w] = c
         /\ \A v \in Workers \ {w} : hubWork'[v] = hubWork[v]
         /\ \A v \in Workers : hubWork'[v] \in {CH!Idle} \cup CH!Run
         /\ hubWork' \in [Workers -> {CH!Idle} \cup CH!Run]
  BY DEF Listed, CH!TypeOK, CH!Become

\* What a run goes on with, a field or two of it changed, is well typed.
LEMMA RunTyped ==
  ASSUME Listed, NEW w \in Workers, hubWork[w] # CH!Idle
  PROVE  /\ hubWork[w] \in CH!Run
         /\ \A s \in {"clean", "sweep"} :
              /\ [hubWork[w] EXCEPT !.stage = s] \in CH!Run
              /\ [hubWork[w] EXCEPT !.stage = s].stage = s
<1>1. hubWork[w] \in CH!Run
  BY DEF Listed, CH!TypeOK
<1> QED BY <1>1 DEF CH!Run

\* A message is known by its id.
LEMMA OneMessage ==
  ASSUME Listed, NEW m \in messages, NEW n \in messages, m.id = n.id
  PROVE  m = n
  BY DEF Listed, CH!TypeOK

LEMMA IdleRun == CH!Idle.stage = "idle"
  BY DEF CH!Idle

LEMMA HubInit ==
  ASSUME OwnChannel, CH!Init
  PROVE  Steady
<1>1. CH!TypeOK
  <2>1. hubWork \in [Workers -> {CH!Idle} \cup CH!Run] /\ \A w \in Workers : hubWork[w] = CH!Idle
    BY DEF CH!Init
  <2>2. next \in Nat \ {0} /\ messages = {}
    BY DEF CH!Init
  <2>3. timer \in {"none", "running", "over"}
    BY DEF CH!Init
  <2> QED BY <2>1, <2>2, <2>3, IdleRun DEF CH!TypeOK
<1>2. IsFiniteSet(messages)
  BY FS_EmptySet DEF CH!Init
<1> QED BY <1>1, <1>2 DEF CH!Init, CH!Hubs, Steady, Listed, TakesHubs, NewestSpared

\* Steps that leave the hubs alone, and the runs but for one that goes on with
\* nothing to write or to delete.
LEMMA HubsAlone ==
  ASSUME Steady, Listed',
         CH!Hubs' = CH!Hubs,
         \A m \in messages' : m.kind = "hub" \/ m \in messages \/ m.id = next,
         \A w \in Workers : \/ hubWork'[w] = hubWork[w]
                            \/ hubWork'[w].stage \notin {"write", "delete"}
  PROVE  Steady'
<1>1. NewestSpared'
  BY DEF Steady, NewestSpared, Spares
<1>2. TakesHubs'
  <2> SUFFICES ASSUME NEW w \in Workers, NEW m \in messages',
                      hubWork'[w].stage = "write", m.id = hubWork'[w].hub
               PROVE  m.kind = "hub"
    BY DEF TakesHubs
  <2>1. hubWork'[w] = hubWork[w]
    OBVIOUS
  <2>2. hubWork[w].hub \in CH!Ids \cup {0}
    BY <2>1, RunTyped, IdleRun DEF Steady, CH!Run, CH!NoOne
  <2>3. m.id # next
    BY <2>1, <2>2, IdsInt DEF Steady
  <2> QED BY <2>1, <2>3 DEF Steady, TakesHubs
<1> QED BY <1>1, <1>2 DEF Steady

\* More ids make more messages and more runs.
LEMMA MoreIds ==
  ASSUME Listed, next' \in {next, next + 1}
  PROVE  /\ next' \in Nat \ {0}
         /\ CH!Ids \subseteq CH!Ids'
         /\ CH!Message \subseteq CH!Message' /\ CH!Run \subseteq CH!Run'
         /\ next' = next + 1 => next \in CH!Ids'
<1>1. next \in Nat \ {0}
  BY DEF Listed, CH!TypeOK
<1>2. next' \in Nat \ {0}
  BY <1>1
<1>3. CH!Ids \subseteq CH!Ids'
  <2>1. CASE next' = next
    BY <2>1 DEF CH!Ids
  <2>2. CASE next' = next + 1
    BY <1>1, <2>2 DEF CH!Ids
  <2> QED BY <2>1, <2>2
<1>4. next' = next + 1 => next \in CH!Ids'
  BY <1>1 DEF CH!Ids
<1> QED BY <1>2, <1>3, <1>4 DEF CH!Message, CH!Run

\* A step of one run leaves all of them well typed.
LEMMA RunsListed ==
  ASSUME Listed, next' \in {next, next + 1}, NEW w \in Workers, NEW c, CH!Become(w, c),
         c \in {CH!Idle} \cup CH!Run, c.stage = "delete" => c.todo # {}
  PROVE  /\ hubWork' \in [Workers -> {CH!Idle} \cup CH!Run']
         /\ \A v \in Workers : hubWork'[v].stage = "delete" => hubWork'[v].todo # {}
<1>1. /\ hubWork'[w] = c
      /\ \A v \in Workers \ {w} : hubWork'[v] = hubWork[v]
      /\ hubWork' \in [Workers -> {CH!Idle} \cup CH!Run]
  BY RunsOn
<1>2. hubWork' \in [Workers -> {CH!Idle} \cup CH!Run']
  BY <1>1, MoreIds
<1> QED BY <1>1, <1>2 DEF Listed, CH!TypeOK

\* Fewer messages, and the runs and the timer well typed, are well typed.
LEMMA FewerListed ==
  ASSUME Listed, next' = next, messages' \subseteq messages, timer' \in {"none", "running", "over"},
         hubWork' \in [Workers -> {CH!Idle} \cup CH!Run'],
         \A v \in Workers : hubWork'[v].stage = "delete" => hubWork'[v].todo # {}
  PROVE  Listed'
<1>1. IsFiniteSet(messages')
  BY FS_Subset DEF Listed
<1>2. next' \in Nat \ {0} /\ messages' \subseteq CH!Message'
  BY MoreIds DEF Listed, CH!TypeOK
<1>3. \A m, n \in messages' : m.id = n.id => m = n
  BY DEF Listed, CH!TypeOK
<1>4. \A m \in messages' : (m.kind = "hub") = (m.panel # "")
  BY DEF Listed, CH!TypeOK
<1>5. \A m \in messages' : m.kind # "notice"
  BY DEF Listed
<1> QED BY <1>1, <1>2, <1>3, <1>4, <1>5 DEF Listed, CH!TypeOK

\* One message more, with the next id.
LEMMA MoreListed ==
  ASSUME Listed, next' = next + 1, NEW x, messages' = messages \cup {x}, x.id = next,
         x \in CH!Message', (x.kind = "hub") = (x.panel # ""), x.kind # "notice",
         timer' \in {"none", "running", "over"},
         hubWork' \in [Workers -> {CH!Idle} \cup CH!Run'],
         \A v \in Workers : hubWork'[v].stage = "delete" => hubWork'[v].todo # {}
  PROVE  Listed'
<1>1. IsFiniteSet(messages')
  BY FS_AddElement DEF Listed
<1>2. next' \in Nat \ {0} /\ messages' \subseteq CH!Message'
  BY MoreIds DEF Listed, CH!TypeOK
<1>3. \A m, n \in messages' : m.id = n.id => m = n
  <2>1. \A m \in messages : m.id # next
    BY IdsInt
  <2> QED BY <2>1 DEF Listed, CH!TypeOK
<1>4. \A m \in messages' : (m.kind = "hub") = (m.panel # "")
  BY DEF Listed, CH!TypeOK
<1>5. \A m \in messages' : m.kind # "notice"
  BY DEF Listed
<1> QED BY <1>1, <1>2, <1>3, <1>4, <1>5 DEF Listed, CH!TypeOK

\* A list of ids has a newest one.
LEMMA NewestId ==
  ASSUME Listed, NEW ids \in SUBSET CH!Ids, ids # {}
  PROVE  (CHOOSE i \in ids : \A j \in ids : j <= i) \in ids
<1>0. next \in Nat \ {0}
  BY DEF Listed, CH!TypeOK
<1>1. \A i \in ids : i \in Nat /\ next - i \in Nat
  BY <1>0 DEF CH!Ids
<1> DEFINE T == {next - i : i \in ids}
<1>2. T \subseteq Nat /\ T # {}
  BY <1>1
<1> HIDE DEF T
<1>3. PICK x \in T : \A y \in T : ~ (<<y, x>> \in Below)
  BY <1>2, BelowWellFounded, WFMin
<1>4. ASSUME NEW y \in T PROVE x <= y
  <2>1. x \in Nat /\ y \in Nat /\ ~ (<<y, x>> \in Below)
    BY <1>2, <1>3
  <2> QED BY <2>1 DEF Below
<1>5. PICK i \in ids : x = next - i
  BY DEF T
<1>6. \A j \in ids : next - i <= next - j
  BY <1>4, <1>5 DEF T
<1>7. \A j \in ids : j <= i
  BY <1>0, <1>1, <1>6
<1> QED BY <1>7

LEMMA OthersSteady ==
  ASSUME OwnChannel, Steady,
         \/ \E kind \in Posts : CH!Post(kind)
         \/ CH!Touch \/ CH!Elapse \/ CH!Crash
  PROVE  Steady'
<1> USE DEF CH!counts
<1>0. Listed /\ hubWork \in [Workers -> {CH!Idle} \cup CH!Run]
  BY DEF Steady, Listed, CH!TypeOK
<1>1. ASSUME NEW kind \in Posts, CH!Post(kind) PROVE Steady'
  <2> DEFINE x == [id |-> next, kind |-> kind, panel |-> ""]
  <2>1. kind \in {"text", "error"}
    BY PlatformConstants DEF OwnChannel, CH!ChannelHubConstants
  <2>2. next' = next + 1 /\ messages' = messages \cup {x} /\ hubWork' = hubWork
    BY <1>1 DEF CH!Post
  <2>3. next \in CH!Ids'
    BY <1>0, <2>2, MoreIds
  <2>4. /\ x \in CH!Message' /\ x.id = next
        /\ x.kind \in {"text", "error"} /\ x.panel = ""
    BY <2>1, <2>3 DEF CH!Message, CH!Bot
  <2> HIDE DEF x
  <2>5. timer' \in {"none", "running", "over"}
    BY <1>0, <1>1, <2>1 DEF CH!Post, Listed, CH!TypeOK
  <2>6. /\ hubWork' \in [Workers -> {CH!Idle} \cup CH!Run']
        /\ \A v \in Workers : hubWork'[v].stage = "delete" => hubWork'[v].todo # {}
    BY <1>0, <2>2, MoreIds DEF Listed, CH!TypeOK
  <2>7. Listed'
    BY <1>0, <2>2, <2>4, <2>5, <2>6, MoreListed
  <2>8. CH!Hubs' = CH!Hubs
    BY <2>2, <2>4 DEF CH!Hubs
  <2> QED BY <2>2, <2>4, <2>7, <2>8, HubsAlone
<1>2. CASE CH!Touch \/ CH!Elapse
  <2>1. messages' = messages /\ next' = next /\ hubWork' = hubWork /\ timer' \in {"none", "running", "over"}
    BY <1>2 DEF CH!Touch, CH!Elapse
  <2>2. Listed'
    BY <1>0, <2>1, FewerListed, MoreIds DEF Listed, CH!TypeOK
  <2> QED BY <2>1, <2>2, HubsAlone DEF CH!Hubs
<1>3. CASE CH!Crash
  <2>1. /\ messages' = messages /\ next' = next
        /\ hubWork' = [w \in Workers |-> CH!Idle]
    BY <1>3 DEF CH!Crash
  <2>2. timer' \in {"none", "running", "over"}
    BY <1>3 DEF CH!Crash
  <2>3. /\ hubWork' \in [Workers -> {CH!Idle} \cup CH!Run']
        /\ \A v \in Workers : hubWork'[v].stage = "idle"
    BY <2>1, IdleRun
  <2>4. Listed'
    BY <1>0, <2>1, <2>2, <2>3, FewerListed
  <2> QED BY <2>1, <2>3, <2>4, HubsAlone DEF CH!Hubs
<1> QED BY <1>1, <1>2, <1>3

\* A run that goes on, or ends, without having written or deleted anything and
\* without taking or listing anything.
LEMMA GoesOnSteady ==
  ASSUME Steady, NEW w \in Workers, NEW c, CH!Become(w, c), c \in {CH!Idle} \cup CH!Run,
         c.stage \notin {"write", "delete"}, next' = next, messages' \subseteq messages,
         CH!Hubs' = CH!Hubs, timer' \in {"none", "running", "over"}
  PROVE  Steady'
<1>1. /\ hubWork'[w] = c
      /\ \A v \in Workers \ {w} : hubWork'[v] = hubWork[v]
  BY RunsOn DEF Steady
<1>2. Listed'
  BY RunsListed, FewerListed DEF Steady
<1>3. \A v \in Workers : hubWork'[v] = hubWork[v] \/ hubWork'[v].stage \notin {"write", "delete"}
  BY <1>1
<1> QED BY <1>2, <1>3, HubsAlone

\* The newest hub of a fetch that returns one is the newest of the channel.
LEMMA NewestHub ==
  ASSUME Steady, NEW limit \in Nat, CH!Hubs \cap CH!Latest(limit) # {}
  PROVE  \E h \in CH!Hubs \cap CH!Latest(limit) :
           Spares(h) /\ CH!Newest(CH!Hubs \cap CH!Latest(limit)) = h
<1>1. PICK h \in CH!Hubs : Spares(h)
  BY DEF Steady, NewestSpared
<1>2. PICK m \in CH!Hubs : m \in CH!Latest(limit)
  OBVIOUS
<1>3. m.id <= h.id /\ h \in messages
  BY <1>1 DEF Spares, CH!Hubs
<1>4. h \in CH!Latest(limit)
  BY <1>2, <1>3, NewerFetched DEF Steady
<1>5. \A g \in CH!Hubs \cap CH!Latest(limit) : g.id <= h.id
  BY <1>1 DEF Spares
<1>6. CH!Hubs \cap CH!Latest(limit) \in SUBSET messages
  BY DEF CH!Hubs
<1>7. CH!Newest(CH!Hubs \cap CH!Latest(limit)) = h
  BY <1>4, <1>5, <1>6, NewestIs DEF Steady
<1> QED BY <1>1, <1>4, <1>7

LEMMA BeginSteady ==
  ASSUME Steady, NEW w \in Workers, NEW j \in HubJobs, CH!Begin(w, j)
  PROVE  Steady'
<1> DEFINE c == [stage |-> "fetch", job |-> j, hub |-> CH!NoOne, todo |-> {}]
<1>1. c \in CH!Run /\ c.stage = "fetch"
  BY DEF CH!Run
<1>2. CH!Become(w, c) /\ messages' = messages /\ next' = next
  BY DEF CH!Begin
<1>3. timer' \in {"none", "running", "over"}
  BY DEF CH!Begin, Steady, Listed, CH!TypeOK
<1>4. CH!Hubs' = CH!Hubs
  BY <1>2 DEF CH!Hubs
<1> HIDE DEF c
<1> QED BY <1>1, <1>2, <1>3, <1>4, GoesOnSteady

\* Nothing has been written or deleted, and the others' runs are as they were.
LEMMA WritesNext ==
  ASSUME Steady, NEW w \in Workers, NEW c \in CH!Run, CH!Become(w, c),
         next' = next, messages' = messages, timer' = timer,
         c.stage = "write" => \A m \in messages : m.id = c.hub => m.kind = "hub",
         c.stage = "delete" => c.todo # {},
         \A h \in CH!Hubs : Spares(h) /\ c.stage = "delete" => h.id \notin c.todo
  PROVE  Steady'
<1>1. /\ hubWork'[w] = c
      /\ \A v \in Workers \ {w} : hubWork'[v] = hubWork[v]
  BY RunsOn DEF Steady
<1>2. timer' \in {"none", "running", "over"}
  BY DEF Steady, Listed, CH!TypeOK
<1>3. Listed'
  BY <1>2, RunsListed, FewerListed DEF Steady
<1>4. TakesHubs'
  BY <1>1 DEF Steady, TakesHubs
<1>5. NewestSpared'
  BY <1>1 DEF Steady, NewestSpared, Spares, CH!Hubs
<1> QED BY <1>3, <1>4, <1>5 DEF Steady

LEMMA FetchSteady ==
  ASSUME OwnChannel, Steady, NEW w \in Workers, CH!Fetch(w)
  PROVE  Steady'
<1> DEFINE taken == CH!Taken(hubWork[w].job)
           id == IF taken = {} THEN CH!NoOne ELSE CH!Newest(taken).id
           c == [hubWork[w] EXCEPT !.stage = "write", !.hub = id]
<1>1. hubWork[w].stage = "fetch" /\ CH!Become(w, c)
  BY DEF CH!Fetch
<1>2. messages' = messages /\ next' = next /\ timer' = timer
  BY DEF CH!Fetch
<1>3. taken = CH!Hubs \cap CH!Latest(Window) /\ Window \in Nat
  BY PlatformConstants, NotStaffSetup
     DEF CH!Taken, CH!Fetched, CH!Hubs, CH!Latest, Steady, Listed, OwnChannel, CH!ChannelHubConstants
<1>4. taken # {} => \E h \in CH!Hubs : CH!Newest(taken) = h
  BY <1>3, NewestHub
<1>5. id \in CH!Ids \cup {0} /\ \A m \in messages : m.id = id => m.kind = "hub"
  <2>1. CASE taken = {}
    BY <2>1, IdsInt DEF Steady, CH!NoOne
  <2>2. CASE taken # {}
    <3>1. PICK h \in CH!Hubs : id = h.id
      BY <1>4, <2>2
    <3>2. h \in messages /\ h.kind = "hub" /\ h.id \in CH!Ids
      BY IdsInt DEF Steady, CH!Hubs
    <3>3. \A m \in messages : m.id = id => m = h
      BY <3>1, <3>2, OneMessage DEF Steady
    <3> QED BY <3>1, <3>2, <3>3
  <2> QED BY <2>1, <2>2
<1>6. hubWork[w] # CH!Idle
  BY <1>1, IdleRun
<1> HIDE DEF id
<1>c. c = [hubWork[w] EXCEPT !.stage = "write", !.hub = id]
  OBVIOUS
<1> HIDE DEF c
<1>r. hubWork[w] \in CH!Run
  BY <1>6, RunTyped DEF Steady
<1>7. c \in CH!Run /\ c.stage = "write" /\ c.hub = id
  BY <1>c, <1>r, <1>5 DEF CH!Run, CH!NoOne
<1> QED BY <1>1, <1>2, <1>5, <1>7, WritesNext

LEMMA SweepSteady ==
  ASSUME OwnChannel, Steady, NEW w \in Workers, CH!Sweep(w)
  PROVE  Steady'
<1> DEFINE embeds == {m \in CH!Latest(Window) : m.kind \in {"hub", "notice"}}
           kept == IF embeds = {} THEN {} ELSE {CH!Newest(embeds)}
           doomed == CH!SweptAfter(kept)
<1>1. hubWork[w].stage = "sweep"
  BY DEF CH!Sweep
<1>2. messages' = messages /\ next' = next /\ timer' = timer
  BY DEF CH!Sweep
<1>3. embeds = CH!Hubs \cap CH!Latest(Window) /\ Window \in Nat
  BY PlatformConstants DEF CH!Hubs, CH!Latest, Steady, Listed, OwnChannel, CH!ChannelHubConstants
<1>4. \A h \in CH!Hubs : Spares(h) => h.id \notin doomed
  <2> SUFFICES ASSUME NEW h \in CH!Hubs, Spares(h), NEW m \in CH!Latest(Window) \ kept, m.id = h.id
               PROVE  FALSE
    BY DEF CH!SweptAfter
  <2>1. m \in messages /\ h \in messages
    BY DEF CH!Latest, CH!Hubs
  <2>2. m = h
    BY <2>1, OneMessage DEF Steady
  <2>3. h \in embeds
    BY <1>3, <2>2
  <2>4. PICK g \in embeds : Spares(g) /\ CH!Newest(embeds) = g
    BY <1>3, <2>3, NewestHub
  <2>5. g \in messages /\ g.id <= h.id /\ h.id <= g.id /\ g.id \in Int /\ h.id \in Int
    BY <1>3, <2>1, <2>4, IdsInt DEF Spares, CH!Hubs, Steady
  <2>6. g.id = h.id
    BY <2>5
  <2>7. g = h
    BY <2>1, <2>5, <2>6, OneMessage DEF Steady
  <2> QED BY <2>2, <2>3, <2>4, <2>7
<1>5. doomed \in SUBSET CH!Ids
  BY IdsInt DEF CH!SweptAfter, CH!Latest, Steady
<1>6. hubWork[w] # CH!Idle
  BY <1>1, IdleRun
<1>7. CASE doomed = {}
  <2>1. CH!Become(w, CH!Idle)
    BY <1>7 DEF CH!Sweep
  <2>2. CH!Hubs' = CH!Hubs /\ timer' \in {"none", "running", "over"}
    BY <1>2 DEF CH!Hubs, Steady, Listed, CH!TypeOK
  <2> QED BY <1>2, <2>1, <2>2, IdleRun, GoesOnSteady
<1>8. CASE doomed # {}
  <2> DEFINE c == [hubWork[w] EXCEPT !.stage = "delete", !.todo = doomed]
  <2>1. CH!Become(w, c)
    BY <1>8 DEF CH!Sweep
  <2> HIDE DEF doomed
  <2>c. c = [hubWork[w] EXCEPT !.stage = "delete", !.todo = doomed]
    OBVIOUS
  <2> HIDE DEF c
  <2>r. hubWork[w] \in CH!Run
    BY <1>6, RunTyped DEF Steady
  <2>2. c \in CH!Run /\ c.stage = "delete" /\ c.todo = doomed
    BY <2>c, <2>r, <1>5 DEF CH!Run
  <2> QED BY <1>2, <1>4, <1>8, <2>1, <2>2, WritesNext
<1> QED BY <1>7, <1>8

\* What becomes of a run after its hub, and after the error replies.
LEMMA AfterTyped ==
  ASSUME Listed, NEW w \in Workers, hubWork[w] # CH!Idle
  PROVE  \A c \in {CH!AfterHub(w), CH!AfterClean(w)} :
           c \in {CH!Idle} \cup CH!Run /\ c.stage \notin {"write", "delete"}
<1>1. /\ [hubWork[w] EXCEPT !.stage = "clean"] \in CH!Run
      /\ [hubWork[w] EXCEPT !.stage = "clean"].stage = "clean"
  BY RunTyped
<1>2. /\ [hubWork[w] EXCEPT !.stage = "sweep", !.hub = CH!NoOne] \in CH!Run
      /\ [hubWork[w] EXCEPT !.stage = "sweep", !.hub = CH!NoOne].stage = "sweep"
  <2>1. hubWork[w] \in CH!Run
    BY RunTyped
  <2> QED BY <2>1 DEF CH!Run
<1>3. CH!AfterHub(w) = CH!Idle \/ CH!AfterHub(w) = [hubWork[w] EXCEPT !.stage = "clean"]
  BY DEF CH!AfterHub
<1>4. \/ CH!AfterClean(w) = CH!Idle
      \/ CH!AfterClean(w) = [hubWork[w] EXCEPT !.stage = "sweep", !.hub = CH!NoOne]
  BY DEF CH!AfterClean
<1> QED BY <1>1, <1>2, <1>3, <1>4, IdleRun

LEMMA CleanSteady ==
  ASSUME Steady, NEW w \in Workers, CH!Clean(w) \/ CH!Fault(w)
  PROVE  Steady'
<1>1. hubWork[w] # CH!Idle
  BY IdleRun DEF CH!Clean, CH!Fault, CH!HubFails, CH!CleanFails, CH!SweepFails
<1>2. PICK c \in {CH!AfterClean(w), CH!Idle} : CH!Become(w, c)
  BY DEF CH!Clean, CH!Fault, CH!HubFails, CH!CleanFails, CH!SweepFails
<1>3. next' = next /\ timer' = timer
  BY DEF CH!Clean, CH!Fault, CH!HubFails, CH!CleanFails, CH!SweepFails, CH!counts
<1>4. messages' \subseteq messages /\ \A m \in messages : m.kind = "hub" => m \in messages'
  BY DEF CH!Clean, CH!Fault, CH!HubFails, CH!CleanFails, CH!SweepFails
<1>5. CH!Hubs' = CH!Hubs
  BY <1>4 DEF CH!Hubs
<1>6. timer' \in {"none", "running", "over"}
  BY <1>3 DEF Steady, Listed, CH!TypeOK
<1>7. c \in {CH!Idle} \cup CH!Run /\ c.stage \notin {"write", "delete"}
  BY <1>1, <1>2, AfterTyped, IdleRun DEF Steady
<1> QED BY <1>2, <1>3, <1>4, <1>5, <1>6, <1>7, GoesOnSteady

LEMMA DeleteSteady ==
  ASSUME Steady, NEW w \in Workers, CH!Delete(w)
  PROVE  Steady' /\ (CH!Hubs # {} => CH!Hubs' # {})
<1> DEFINE id == CHOOSE i \in hubWork[w].todo : \A j \in hubWork[w].todo : j <= i
           rest == hubWork[w].todo \ {id}
           d == [hubWork[w] EXCEPT !.todo = rest]
           c == IF rest = {} THEN CH!Idle ELSE d
<1>1. hubWork[w].stage = "delete" /\ CH!Become(w, c) /\ next' = next /\ timer' = timer
  BY DEF CH!Delete
<1>2. messages' = messages \/ messages' = {m \in messages : m.id # id}
  BY DEF CH!Delete
<1>3. hubWork[w] \in CH!Run
  BY <1>1, IdleRun, RunTyped DEF Steady
<1>4. hubWork[w].todo \in SUBSET CH!Ids /\ hubWork[w].todo # {}
  BY <1>1, <1>3 DEF CH!Run, Steady, Listed, CH!TypeOK
<1>5. id \in hubWork[w].todo
  BY <1>4, NewestId DEF Steady
<1> HIDE DEF id
<1>6. rest \in SUBSET CH!Ids /\ rest \subseteq hubWork[w].todo
  BY <1>4
<1> HIDE DEF rest
<1>d. d = [hubWork[w] EXCEPT !.todo = rest]
  OBVIOUS
<1> HIDE DEF d
<1>7. d \in CH!Run /\ d.stage = "delete" /\ d.todo = rest
  BY <1>d, <1>1, <1>3, <1>6 DEF CH!Run
<1>8. c \in {CH!Idle} \cup CH!Run /\ (c.stage = "delete" => c.todo # {} /\ c.todo \subseteq hubWork[w].todo)
      /\ c.stage # "write"
  BY <1>6, <1>7, IdleRun
<1> HIDE DEF c
<1>9. /\ hubWork'[w] = c
      /\ \A v \in Workers \ {w} : hubWork'[v] = hubWork[v]
  BY <1>1, <1>8, RunsOn DEF Steady
<1>10. Listed'
  <2>1. messages' \subseteq messages /\ timer' \in {"none", "running", "over"}
    BY <1>1, <1>2 DEF Steady, Listed, CH!TypeOK
  <2> QED BY <1>1, <1>8, <2>1, RunsListed, FewerListed DEF Steady
<1>11. TakesHubs'
  BY <1>2, <1>8, <1>9 DEF Steady, TakesHubs
<1>12. ASSUME NEW h \in CH!Hubs, Spares(h) PROVE h \in CH!Hubs' /\ Spares(h)'
  <2>1. h.id # id
    BY <1>1, <1>5, <1>12 DEF Spares
  <2>2. h \in CH!Hubs'
    BY <1>2, <2>1 DEF CH!Hubs
  <2>3. CH!Hubs' \subseteq CH!Hubs
    BY <1>2 DEF CH!Hubs
  <2>4. \A v \in Workers : hubWork'[v].stage = "delete" => h.id \notin hubWork'[v].todo
    BY <1>1, <1>8, <1>9, <1>12 DEF Spares
  <2> QED BY <1>12, <2>2, <2>3, <2>4 DEF Spares
<1>13. NewestSpared' /\ (CH!Hubs # {} => CH!Hubs' # {})
  <2>1. CH!Hubs' \subseteq CH!Hubs
    BY <1>2 DEF CH!Hubs
  <2> QED BY <1>12, <2>1 DEF Steady, NewestSpared
<1> QED BY <1>10, <1>11, <1>13 DEF Steady

\* The hub that a run writes.
LEMMA HubTyped ==
  ASSUME OwnChannel, NEW w \in Workers, NEW id
  PROVE  /\ CH!Hub(w, id).id = id /\ CH!Hub(w, id).kind = "hub" /\ CH!Hub(w, id).panel # ""
         /\ id \in CH!Ids => CH!Hub(w, id) \in CH!Message
         /\ id \in CH!Ids' => CH!Hub(w, id) \in CH!Message'
<1>1. CH!Panel(hubWork[w].job) \in {"creator", "queue"}
  BY PlatformConstants DEF OwnChannel, CH!ChannelHubConstants, CH!Panel
<1> QED BY <1>1 DEF CH!Hub, CH!Message, CH!Bot

LEMMA EditSteady ==
  ASSUME OwnChannel, Steady, NEW w \in Workers, CH!Edit(w)
  PROVE  Steady' /\ (CH!Hubs # {} => CH!Hubs' # {})
<1> DEFINE id == hubWork[w].hub
           x == CH!Hub(w, id)
           others == {m \in messages : m.id # id}
           c == CH!AfterHub(w)
<1>1. hubWork[w].stage = "write" /\ messages' = others \cup {x} /\ CH!Become(w, c)
  BY DEF CH!Edit
<1>2. next' = next /\ timer' = timer
  BY DEF CH!Edit
<1>3. PICK m \in messages : m.id = id
  BY DEF CH!Edit, CH!Present
<1>4. m.kind = "hub" /\ id \in CH!Ids
  BY <1>1, <1>3, IdsInt DEF Steady, TakesHubs
<1>5. x.id = id /\ x.kind = "hub" /\ x.panel # "" /\ x \in CH!Message
  BY <1>4, HubTyped
<1> HIDE DEF id, x
<1>6. \A n \in messages : n \in others \/ n = m
  BY <1>3, OneMessage DEF Steady
<1>7. c \in {CH!Idle} \cup CH!Run /\ c.stage \notin {"write", "delete"}
  <2>1. hubWork[w] # CH!Idle
    BY <1>1, IdleRun
  <2> QED BY <2>1, AfterTyped DEF Steady
<1> HIDE DEF c
<1>8. /\ hubWork'[w] = c
      /\ \A v \in Workers \ {w} : hubWork'[v] = hubWork[v]
  BY <1>1, <1>7, RunsOn DEF Steady
<1>9. Listed'
  <2>1. /\ hubWork' \in [Workers -> {CH!Idle} \cup CH!Run']
        /\ \A v \in Workers : hubWork'[v].stage = "delete" => hubWork'[v].todo # {}
    BY <1>1, <1>2, <1>7, RunsListed DEF Steady
  <2>2. IsFiniteSet(messages')
    <3>1. others \in SUBSET messages /\ IsFiniteSet(messages)
      BY DEF Steady, Listed
    <3> QED BY <1>1, <3>1, FS_Subset, FS_AddElement
  <2>3. next' \in Nat \ {0} /\ messages' \subseteq CH!Message'
    BY <1>1, <1>2, <1>5, MoreIds DEF Steady, Listed, CH!TypeOK
  <2>4. \A n, o \in messages' : n.id = o.id => n = o
    BY <1>1, <1>5, OneMessage DEF Steady
  <2>5. \A n \in messages' : (n.kind = "hub") = (n.panel # "")
    BY <1>1, <1>5 DEF Steady, Listed, CH!TypeOK
  <2>6. \A n \in messages' : n.kind # "notice"
    BY <1>1, <1>5 DEF Steady, Listed
  <2>7. timer' \in {"none", "running", "over"}
    BY <1>2 DEF Steady, Listed, CH!TypeOK
  <2> QED BY <2>1, <2>2, <2>3, <2>4, <2>5, <2>6, <2>7 DEF Listed, CH!TypeOK
<1>10. TakesHubs'
  BY <1>1, <1>5, <1>7, <1>8 DEF Steady, TakesHubs
<1>11. ASSUME NEW h \in CH!Hubs, Spares(h)
       PROVE  \E g \in CH!Hubs' : Spares(g)'
  <2>1. PICK g \in CH!Hubs' : g.id = h.id
    BY <1>1, <1>3, <1>5, <1>6 DEF CH!Hubs
  <2>2. \A n \in CH!Hubs' : n.id <= g.id
    <3> SUFFICES ASSUME NEW n \in CH!Hubs' PROVE n.id <= h.id
      BY <2>1
    <3>1. PICK o \in CH!Hubs : o.id = n.id
      BY <1>1, <1>3, <1>4, <1>5 DEF CH!Hubs
    <3> QED BY <1>11, <3>1 DEF Spares
  <2>3. \A v \in Workers : hubWork'[v].stage = "delete" => g.id \notin hubWork'[v].todo
    BY <1>7, <1>8, <1>11, <2>1 DEF Spares
  <2> QED BY <2>2, <2>3 DEF Spares
<1>12. x \in CH!Hubs'
  BY <1>1, <1>5 DEF CH!Hubs
<1>13. NewestSpared'
  <2>1. CH!Hubs # {}
    BY <1>3, <1>4 DEF CH!Hubs
  <2>2. PICK h \in CH!Hubs : Spares(h)
    BY <2>1 DEF Steady, NewestSpared
  <2> QED BY <1>11, <2>2 DEF NewestSpared
<1> QED BY <1>9, <1>10, <1>12, <1>13 DEF Steady

LEMMA SendSteady ==
  ASSUME OwnChannel, Steady, NEW w \in Workers, CH!Send(w)
  PROVE  Steady' /\ (CH!Hubs # {} => CH!Hubs' # {})
<1> DEFINE c == CH!AfterHub(w)
<1>1. hubWork[w].stage = "write" /\ messages' = messages \cup {CH!Hub(w, next)} /\ CH!Become(w, c)
  BY DEF CH!Send
<1>2. next' = next + 1 /\ timer' = timer
  BY DEF CH!Send
<1>3. PICK x : /\ messages' = messages \cup {x}
               /\ x.id = next /\ x.kind = "hub" /\ x.panel # "" /\ x \in CH!Message'
  BY <1>1, <1>2, MoreIds, HubTyped DEF Steady
<1>4. c \in {CH!Idle} \cup CH!Run /\ c.stage \notin {"write", "delete"}
  <2>1. hubWork[w] # CH!Idle
    BY <1>1, IdleRun
  <2> QED BY <2>1, AfterTyped DEF Steady
<1> HIDE DEF c
<1>5. /\ hubWork'[w] = c
      /\ \A v \in Workers \ {w} : hubWork'[v] = hubWork[v]
  BY <1>1, <1>4, RunsOn DEF Steady
<1>6. Listed'
  <2>1. /\ hubWork' \in [Workers -> {CH!Idle} \cup CH!Run']
        /\ \A v \in Workers : hubWork'[v].stage = "delete" => hubWork'[v].todo # {}
    BY <1>1, <1>2, <1>4, RunsListed DEF Steady
  <2>2. timer' \in {"none", "running", "over"}
    BY <1>2 DEF Steady, Listed, CH!TypeOK
  <2> QED BY <1>1, <1>2, <1>3, <2>1, <2>2, MoreListed DEF Steady
<1>7. TakesHubs'
  BY <1>1, <1>3, <1>4, <1>5 DEF Steady, TakesHubs
<1>8. x \in CH!Hubs'
  BY <1>1, <1>3 DEF CH!Hubs
<1>9. Spares(x)'
  <2>1. next <= next /\ \A i \in CH!Ids : i <= next
    <3>1. next \in Nat
      BY DEF Steady, Listed, CH!TypeOK
    <3> QED BY <3>1 DEF CH!Ids
  <2>2. \A g \in CH!Hubs' : g.id <= x.id
    <3>1. \A m \in messages : m.id <= next
      BY <2>1, IdsInt DEF Steady
    <3>2. x.id <= next
      BY <1>3, <2>1
    <3> QED BY <1>3, <3>1, <3>2 DEF CH!Hubs
  <2>3. \A v \in Workers : hubWork'[v].stage = "delete" => x.id \notin hubWork'[v].todo
    <3> SUFFICES ASSUME NEW v \in Workers, hubWork'[v].stage = "delete"
                 PROVE  x.id \notin hubWork'[v].todo
      OBVIOUS
    <3>1. hubWork'[v] = hubWork[v] /\ hubWork[v] # CH!Idle
      BY <1>4, <1>5, IdleRun
    <3>2. hubWork[v].todo \subseteq CH!Ids
      BY <3>1, RunTyped DEF Steady, CH!Run
    <3> QED BY <1>3, <3>1, <3>2, IdsInt DEF Steady
  <2> QED BY <2>2, <2>3 DEF Spares
<1>10. NewestSpared'
  BY <1>8, <1>9 DEF NewestSpared
<1> QED BY <1>6, <1>7, <1>8, <1>10 DEF Steady

\* Only a deletion takes messages of the kind of hubs away, and it spares one.
LEMMA HubStep ==
  ASSUME OwnChannel, Steady, [CH!Next]_CH!vars, ~CH!StaffDelete
  PROVE  Steady' /\ (CH!Hubs # {} => CH!Hubs' # {})
<1>1. CASE UNCHANGED CH!vars
  <2>1. messages' = messages /\ next' = next /\ hubWork' = hubWork /\ timer' = timer
    BY <1>1 DEF CH!vars
  <2>2. Listed'
    BY <2>1, FewerListed, MoreIds DEF Steady, Listed, CH!TypeOK
  <2> QED BY <2>1, <2>2, HubsAlone DEF CH!Hubs
<1>2. CASE (\E kind \in Posts : CH!Post(kind)) \/ CH!Touch \/ CH!Elapse \/ CH!Crash
  <2>1. Steady'
    BY <1>2, OthersSteady
  <2>2. messages \subseteq messages'
    BY <1>2 DEF CH!Post, CH!Touch, CH!Elapse, CH!Crash
  <2> QED BY <2>1, <2>2 DEF CH!Hubs
<1>3. ASSUME NEW w \in Workers, CH!Step(w) \/ CH!Fault(w) \/ \E j \in HubJobs : CH!Begin(w, j)
      PROVE  Steady' /\ (CH!Hubs # {} => CH!Hubs' # {})
  <2>1. CASE CH!Edit(w) \/ CH!Send(w) \/ CH!Delete(w)
    BY <2>1, EditSteady, SendSteady, DeleteSteady
  <2>2. CASE CH!Fetch(w) \/ CH!Sweep(w) \/ \E j \in HubJobs : CH!Begin(w, j)
    <3>1. Steady'
      BY <2>2, FetchSteady, SweepSteady, BeginSteady
    <3>2. messages' = messages
      BY <2>2 DEF CH!Fetch, CH!Sweep, CH!Begin
    <3> QED BY <3>1, <3>2 DEF CH!Hubs
  <2>3. CASE CH!Clean(w) \/ CH!Fault(w)
    <3>1. Steady'
      BY <2>3, CleanSteady
    <3>2. \A m \in messages : m.kind = "hub" => m \in messages'
      BY <2>3 DEF CH!Clean, CH!Fault, CH!HubFails, CH!CleanFails, CH!SweepFails
    <3> QED BY <3>1, <3>2 DEF CH!Hubs
  <2> QED BY <1>3, <2>1, <2>2, <2>3 DEF CH!Step
<1> QED BY <1>1, <1>2, <1>3 DEF CH!Next

\* Only the staff delete messages by hand.
LEMMA RemovalsCounted ==
  ASSUME removals \in Nat, [CH!Next]_CH!vars
  PROVE  removals' \in Nat /\ (removals' = 0 => removals = 0 /\ ~CH!StaffDelete)
<1>1. CASE CH!StaffDelete
  BY <1>1 DEF CH!StaffDelete
<1>2. CASE UNCHANGED CH!vars \/ (CH!Next /\ ~CH!StaffDelete)
  <2>1. removals' = removals
    BY <1>2 DEF CH!vars, CH!Next, CH!Post, CH!Touch, CH!Elapse, CH!Crash, CH!Step, CH!Fault, CH!Begin, CH!Fetch,
         CH!Edit, CH!Send, CH!Clean, CH!Sweep, CH!Delete, CH!HubFails, CH!CleanFails, CH!SweepFails, CH!counts
  <2>2. removals' = 0 => ~CH!StaffDelete
    BY <2>1 DEF CH!StaffDelete
  <2> QED BY <2>1, <2>2
<1> QED BY <1>1, <1>2

\* As long as staff delete nothing, no run leaves a channel that has a hub without
\* one, however many runs overlap and fail between any two of their calls, in a
\* channel that takes no notices and is not the staff dashboard: whatever a sweep
\* lists for deletion, the newest hub is never on a list, and a hub posted later is
\* newer ("Keep the single canonical bot message", channel.inactivity.js:70).
THEOREM KeepsHub ==
  ASSUME OwnChannel
  PROVE  CH!Spec => HubKept
<1> DEFINE IInv == removals \in Nat /\ (removals = 0 => Steady)
<1>1. CH!Init => IInv
  BY HubInit DEF CH!Init
<1>2. IInv /\ [CH!Next]_CH!vars => IInv'
  BY HubStep, RemovalsCounted
<1>3. IInv /\ [CH!Next]_CH!vars => [removals' = 0 => (CH!Hubs # {} => CH!Hubs' # {})]_CH!vars
  BY HubStep, RemovalsCounted
<1> HIDE DEF IInv
<1> QED BY <1>1, <1>2, <1>3, PTL DEF CH!Spec, CH!HubKept, HubKept

-----------------------------------------------------------------------------
(***************************************************************************)
(* The provisioning of a server (Provisioner), for every number of         *)
(* invocations at once, every declared scope and whatever the server held. *)
(***************************************************************************)

\* The i-th item of the work: what it is, its name and the section it is under.
Kind(i)  == SU!Items[i].kind
Name(i)  == SU!Items[i].name
Under(i) == SU!Items[i].under

LEMMA KindsAre ==
  /\ Kind(1) = "role" /\ Kind(2) = "role" /\ Kind(3) = "role" /\ Kind(4) = "hierarchy"
  /\ Kind(5) = "category" /\ Kind(6) = "channel" /\ Kind(7) = "channel" /\ Kind(8) = "category"
  /\ Kind(9) = "channel" /\ Kind(10) = "channel" /\ Kind(11) = "channel" /\ Kind(12) = "channel"
  /\ Kind(13) = "channel" /\ Kind(14) = "channel" /\ Kind(15) = "category"
  /\ Kind(16) = "channel" /\ Kind(17) = "channel" /\ Kind(18) = "channel" /\ Kind(19) = "channel"
  /\ Kind(20) = "channel" /\ Kind(21) = "channel" /\ Kind(22) = "category"
  /\ Kind(23) = "channel" /\ Kind(24) = "channel"
BY DEF Kind, SU!Items, SU!Item, SU!Role, SU!Category

LEMMA NamesAre ==
  /\ Name(5) = "INFORMATION" /\ Name(6) = "rules" /\ Name(7) = "announcements"
  /\ Name(8) = "CREATOR" /\ Name(9) = "dashboard" /\ Name(10) = "campaigns"
  /\ Name(11) = "submissions" /\ Name(12) = "stats" /\ Name(13) = "earnings"
  /\ Name(14) = "payouts" /\ Name(15) = "STAFF" /\ Name(16) = "dashboard"
  /\ Name(17) = "review-queue" /\ Name(18) = "creators" /\ Name(19) = "campaign-management"
  /\ Name(20) = "payout-queue" /\ Name(21) = "audit-log" /\ Name(22) = "SYSTEM"
  /\ Name(23) = "bot-status" /\ Name(24) = "bot-errors"
BY DEF Name, SU!Items, SU!Item, SU!Role, SU!Category

LEMMA UndersAre ==
  /\ Under(5) = "INFORMATION" /\ Under(6) = "INFORMATION" /\ Under(7) = "INFORMATION"
  /\ Under(8) = "CREATOR" /\ Under(9) = "CREATOR" /\ Under(10) = "CREATOR"
  /\ Under(11) = "CREATOR" /\ Under(12) = "CREATOR" /\ Under(13) = "CREATOR"
  /\ Under(14) = "CREATOR" /\ Under(15) = "STAFF" /\ Under(16) = "STAFF" /\ Under(17) = "STAFF"
  /\ Under(18) = "STAFF" /\ Under(19) = "STAFF" /\ Under(20) = "STAFF" /\ Under(21) = "STAFF"
  /\ Under(22) = "SYSTEM" /\ Under(23) = "SYSTEM" /\ Under(24) = "SYSTEM"
BY DEF Under, SU!Items, SU!Item, SU!Role, SU!Category

\* There are twenty-four items.
LEMMA ItemCount == Len(SU!Items) = 24
BY DEF SU!Items

\* The names of categories and of channels.
Sections == {"INFORMATION", "CREATOR", "STAFF", "SYSTEM"}
ChannelNames == {"rules", "announcements", "dashboard", "campaigns", "submissions", "stats", "earnings",
                 "payouts", "review-queue", "creators", "campaign-management", "payout-queue", "audit-log",
                 "bot-status", "bot-errors"}

\* The index of the category that the i-th item is of or in.
CategoryOf(i) == IF i < 8 THEN 5 ELSE IF i < 15 THEN 8 ELSE IF i < 22 THEN 15 ELSE 22

\* The index of the channel of a name that only one channel has.
IndexOf(name) ==
  IF name = "rules" THEN 6 ELSE IF name = "announcements" THEN 7 ELSE IF name = "campaigns" THEN 10
  ELSE IF name = "submissions" THEN 11 ELSE IF name = "stats" THEN 12 ELSE IF name = "earnings" THEN 13
  ELSE IF name = "payouts" THEN 14 ELSE IF name = "review-queue" THEN 17 ELSE IF name = "creators" THEN 18
  ELSE IF name = "campaign-management" THEN 19 ELSE IF name = "payout-queue" THEN 20
  ELSE IF name = "audit-log" THEN 21 ELSE IF name = "bot-status" THEN 23 ELSE 24

\* What kind of item is where.
LEMMA KindsOrdered ==
  \A i \in 1..24 : /\ Kind(i) \in {"role", "hierarchy", "category", "channel"}
                   /\ Kind(i) = "role" <=> i < 4
                   /\ Kind(i) = "hierarchy" <=> i = 4
BY KindsAre

\* Categories and channels are in a section, and have names of their own.
LEMMA NamesSorted ==
  \A i \in 1..24 : /\ Kind(i) = "category" => Name(i) \in Sections /\ Under(i) = Name(i)
                   /\ Kind(i) = "channel" => Name(i) \in ChannelNames /\ Under(i) \in Sections
BY KindsAre, NamesAre, UndersAre DEF Sections, ChannelNames

\* Between the category of an item and the item there are only items of that section.
LEMMA SameSection ==
  ASSUME NEW j \in 1..24, Kind(j) = "channel"
  PROVE  /\ CategoryOf(j) \in 1..24 /\ CategoryOf(j) < j /\ Kind(CategoryOf(j)) = "category"
         /\ Name(CategoryOf(j)) = Under(j)
         /\ \A i \in 1..24 : CategoryOf(j) <= i /\ i < j =>
              Kind(i) \in {"category", "channel"} /\ Under(i) = Under(j)
<1>1. CASE j \in 6..7
  BY <1>1, KindsAre, NamesAre, UndersAre DEF CategoryOf
<1>2. CASE j \in 9..14
  BY <1>2, KindsAre, NamesAre, UndersAre DEF CategoryOf
<1>3. CASE j \in 16..21
  BY <1>3, KindsAre, NamesAre, UndersAre DEF CategoryOf
<1>4. CASE j \in 23..24
  BY <1>4, KindsAre, NamesAre, UndersAre DEF CategoryOf
<1>5. j \in 6..7 \/ j \in 9..14 \/ j \in 16..21 \/ j \in 23..24
  BY KindsAre
<1> QED BY <1>1, <1>2, <1>3, <1>4, <1>5

\* A name has one index, but for the dashboards of creators and of staff.
LEMMA IndexOfName ==
  \A i \in 1..24 : Kind(i) = "channel" =>
    IF Name(i) = "dashboard" THEN i \in {9, 16} ELSE i = IndexOf(Name(i))
BY KindsAre, NamesAre DEF IndexOf

\* Two items with the name of one channel are the same, but for the dashboards.
LEMMA OneName ==
  ASSUME NEW i \in 1..24, NEW j \in 1..24, Kind(i) = "channel", Kind(j) = "channel", Name(i) = Name(j)
  PROVE  i = j \/ (i \in {9, 16} /\ j \in {9, 16})
BY IndexOfName

\* The names of the items are among the names a channel may have.
LEMMA NamesTyped == \A i \in 1..24 : Name(i) \in SU!Names
BY ItemCount DEF Name, SU!Names

\* The items in scope.
Scope == {i \in 1..24 : SU!InScope(SU!Items[i])}

\* A channel is under a category of the section u, and that category is seen by
\* whom it is declared for.
IsCategory(p, u) == p.name = u /\ p.kind = "category" /\ p.access = SU!CategoryAccess(u)
Placed(C, c, u)  == \E p \in C : p.id = c.parent /\ IsCategory(p, u)

\* Not under the category of another section than the creators'.
Loose(C, c) == c.parent = 0 \/ \E p \in C : p.id = c.parent /\ p.name = "CREATOR"

\* The item at i is there.
Standing(C, c, i) ==
  /\ c.name = Name(i) /\ c.kind = "text" /\ Placed(C, c, Under(i))
  /\ c.access = SU!ChannelAccess(Under(i), Name(i))
Stands(R, C, i) ==
  /\ Kind(i) = "role" => \E x \in R : x.name = Name(i) /\ ~x.above
  /\ Kind(i) = "category" => \E c \in C : IsCategory(c, Name(i))
  /\ Kind(i) = "channel" => \E c \in C : Standing(C, c, i)

\* An invocation s: what it may have left to call, of what, and what it knows.
Works(s) == s.stage \in {"preflight", "find", "adopt", "set"}
Finds(s) == s.i > 4 /\ s.stage \in {"adopt", "set"}
Owns(s)  == Kind(s.i) = "channel" \/ (Kind(s.i) = "category" /\ s.stage = "set" /\ "create" \notin s.todo)
Last(i)  == IF SU!HasOverwrites(Under(i), Name(i)) THEN "access" ELSE "lock"
Shape(s) ==
  /\ s.i \in Scope
  /\ s.stage \in {"preflight", "find"} => s.todo = {}
  /\ s.i < 5 => s.stage # "adopt"
  /\ s.stage = "set" => s.i # 4 /\ (s.i < 4 => s.todo = {"create"})
  /\ Kind(s.i) = "category" =>
       /\ s.stage \in {"find", "set"}
       /\ s.stage = "set" => s.todo \in {{"access"}, {"create", "access"}}
       /\ s.stage = "set" /\ "create" \notin s.todo => s.found = s.category
  /\ Kind(s.i) = "channel" =>
       /\ s.stage # "preflight"
       /\ s.stage = "adopt" => s.todo \subseteq {"rename", "parent", "retitle"}
       /\ s.stage = "set" => s.todo \subseteq {"create", "topic", Last(s.i)} /\ Last(s.i) \in s.todo
  /\ "parent" \in s.todo => s.i # 16
  /\ "rename" \in s.todo => s.i = 9

\* What it found has the name it looks for, and the category is of the section.
FoundNamed(C, s) ==
  \A c \in C : c.id = s.found =>
    \/ c.name = Name(s.i) /\ (Kind(s.i) = "category" => c.kind = "category")
    \/ "rename" \in s.todo /\ c.name = "welcome"
InSection(C, s) == \A c \in C : c.id = s.category => c.kind = "category" /\ c.name = Under(s.i)
Names(C, s) == (Finds(s) => FoundNamed(C, s)) /\ (Owns(s) => InSection(C, s))
Fit(C, n, s) == Shape(s) /\ Names(C, s) /\ s.found < n /\ s.category < n

\* Undisturbed, what comes before its item is there, and so are its category and
\* what it found.
Begun(R, C, s) ==
  \A j \in Scope : j < s.i =>
    IF j < 4 /\ s.i <= 4 THEN \E x \in R : x.name = Name(j) /\ x.id \in s.bound ELSE Stands(R, C, j)
HasCategory(C, s) ==
  \E p \in C : p.id = s.category /\ (Kind(s.i) = "channel" => IsCategory(p, Under(s.i)))
HasFound(C, s) ==
  \E c \in C : /\ c.id = s.found
               /\ Kind(s.i) = "channel" =>
                    /\ s.stage = "set" => c.kind = "text"
                    /\ "parent" \notin s.todo /\ c.kind = "text" => Placed(C, c, Under(s.i))
                    /\ s.i = 9 => Loose(C, c)
Holds(C, s) ==
  /\ Owns(s) => HasCategory(C, s)
  /\ Finds(s) /\ s.found # 0 /\ "create" \notin s.todo => HasFound(C, s)
  /\ s.stage = "set" /\ "create" \notin s.todo => s.found # 0
Calm(R, C, s) ==
  /\ Works(s) => Begun(R, C, s) /\ Holds(C, s)
  /\ s.stage = "ready" => \A j \in Scope : Stands(R, C, j)

\* The welcome channel of older servers is in no category; ids name one channel.
Loosely(C) == \A c \in C : c.name = "welcome" => c.parent = 0
Numbered(C) == \A c, d \in C : c.id = d.id => c = d

\* The inductive invariant.  An invocation that nobody disturbed has its past items in
\* the server, and nobody at work is disturbed meanwhile: the channels that one leaves
\* are found by the others, and none undoes what another has made.
Complete ==
  /\ SU!TypeOK
  /\ Loosely(channels)
  /\ \A q \in Runs : Works(setup[q]) => Fit(channels, nextChannel, setup[q])
  /\ \A q \in Runs : q \notin disturbed =>
       /\ Calm(guildRoles, channels, setup[q])
       /\ \A p \in Runs : Works(setup[p]) => p \notin disturbed

\* What a channel leaves in a set of channels D that C turns into while nobody but
\* undisturbed invocations is at work.
Inherits(C, D, c, d) ==
  /\ d.id = c.id /\ d.kind = c.kind
  /\ d.name = c.name \/ (c.name = "welcome" /\ d.name = "dashboard")
  /\ \A u \in Sections : IsCategory(c, u) => IsCategory(d, u)
  /\ \A i \in 1..24 : Kind(i) = "channel" /\ c.name = Name(i) /\ Placed(C, c, Under(i)) =>
       /\ Placed(D, d, Under(i))
       /\ c.kind = "text" /\ c.access = SU!ChannelAccess(Under(i), Name(i))
            => d.access = SU!ChannelAccess(Under(i), Name(i))
  /\ c.name \in {"welcome", "dashboard"} /\ Loose(C, c) => Loose(D, d)
Heirs(C, D) == \A c \in C : \E d \in D : Inherits(C, D, c, d)

\* What a channel of D may have been in C, whoever was at work: n is the next id.
Bred(C, D, n) ==
  \A d \in D : \/ d.id >= n
               \/ \E c \in C : /\ c.id = d.id /\ d.kind = c.kind
                               /\ d.name = c.name \/ (c.name = "welcome" /\ d.name = "dashboard")

\* Indices are within the work, and no item is named like the welcome channel.
LEMMA ScopeItems == Scope \subseteq 1..24
BY DEF Scope

LEMMA NotWelcome ==
  \A i \in 1..24 : Kind(i) \in {"category", "channel"} => Name(i) # "welcome" /\ Under(i) # "welcome"
BY NamesSorted DEF Sections, ChannelNames

\* What an invocation has found keeps the name it was found by.
LEMMA NamesKeep ==
  ASSUME NEW C, NEW D, NEW n \in Nat, NEW m \in Nat, n <= m, NEW s,
         Works(s), s.found \in Nat, s.category \in Nat, Fit(C, n, s), Bred(C, D, n)
  PROVE  Fit(D, m, s)
<1>1. s.i \in 1..24 /\ s.found < n /\ s.category < n
  BY ScopeItems DEF Fit, Shape
<1>2. ASSUME Finds(s) PROVE FoundNamed(D, s)
  <2> SUFFICES ASSUME NEW d \in D, d.id = s.found
               PROVE  \/ d.name = Name(s.i) /\ (Kind(s.i) = "category" => d.kind = "category")
                      \/ "rename" \in s.todo /\ d.name = "welcome"
    BY DEF FoundNamed
  <2>1. PICK c \in C : /\ c.id = d.id /\ d.kind = c.kind
                       /\ d.name = c.name \/ (c.name = "welcome" /\ d.name = "dashboard")
    BY <1>1 DEF Bred
  <2>2. \/ c.name = Name(s.i) /\ (Kind(s.i) = "category" => c.kind = "category")
        \/ "rename" \in s.todo /\ c.name = "welcome"
    BY <1>2, <2>1 DEF Fit, Names, FoundNamed
  <2>3. Kind(s.i) \in {"category", "channel"}
    BY <1>1, <1>2, KindsOrdered DEF Fit, Shape, Finds
  <2>4. s.i = 9 => Name(s.i) = "dashboard" /\ Kind(s.i) = "channel"
    BY NamesAre, KindsAre
  <2>5. "rename" \in s.todo => s.i = 9
    BY DEF Fit, Shape
  <2> QED BY <1>1, <2>1, <2>2, <2>3, <2>4, <2>5, NotWelcome
<1>3. ASSUME Owns(s) PROVE InSection(D, s)
  <2> SUFFICES ASSUME NEW d \in D, d.id = s.category PROVE d.kind = "category" /\ d.name = Under(s.i)
    BY DEF InSection
  <2>1. PICK c \in C : /\ c.id = d.id /\ d.kind = c.kind
                       /\ d.name = c.name \/ (c.name = "welcome" /\ d.name = "dashboard")
    BY <1>1 DEF Bred
  <2>2. c.kind = "category" /\ c.name = Under(s.i)
    BY <1>3, <2>1 DEF Fit, Names, InSection
  <2>3. Kind(s.i) \in {"category", "channel"}
    BY <1>3 DEF Owns
  <2> QED BY <1>1, <2>1, <2>2, <2>3, NotWelcome
<1> QED BY <1>1, <1>2, <1>3 DEF Fit, Names

\* What an item stands for goes on standing in an heir of the channels.
LEMMA StandsKeep ==
  ASSUME NEW R, NEW Q, NEW C, NEW D, R \subseteq Q, Heirs(C, D), NEW i \in 1..24, Stands(R, C, i)
  PROVE  Stands(Q, D, i)
<1>1. Kind(i) = "role" => \E x \in Q : x.name = Name(i) /\ ~x.above
  BY DEF Stands
<1>2. ASSUME Kind(i) = "category" PROVE \E d \in D : IsCategory(d, Name(i))
  <2>1. PICK c \in C : IsCategory(c, Name(i))
    BY <1>2 DEF Stands
  <2>2. Name(i) \in Sections
    BY <1>2, NamesSorted
  <2> QED BY <2>1, <2>2 DEF Heirs, Inherits
<1>3. ASSUME Kind(i) = "channel" PROVE \E d \in D : Standing(D, d, i)
  <2>1. PICK c \in C : Standing(C, c, i)
    BY <1>3 DEF Stands
  <2>2. PICK d \in D : Inherits(C, D, c, d)
    BY DEF Heirs
  <2>3. d.name = Name(i) /\ d.kind = "text"
    BY <1>3, <2>1, <2>2, NotWelcome DEF Standing, Inherits
  <2>4. Placed(D, d, Under(i)) /\ d.access = SU!ChannelAccess(Under(i), Name(i))
    BY <1>3, <2>1, <2>2 DEF Standing, Inherits
  <2> QED BY <2>3, <2>4 DEF Standing
<1> QED BY <1>1, <1>2, <1>3 DEF Stands

\* So does the category of an invocation.
LEMMA CategoryKeeps ==
  ASSUME NEW C, NEW D, Heirs(C, D), NEW s, s.i \in 1..24, HasCategory(C, s)
  PROVE  HasCategory(D, s)
<1>1. PICK p \in C : p.id = s.category /\ (Kind(s.i) = "channel" => IsCategory(p, Under(s.i)))
  BY DEF HasCategory
<1>2. PICK q \in D : Inherits(C, D, p, q)
  BY DEF Heirs
<1>3. Kind(s.i) = "channel" => Under(s.i) \in Sections
  BY NamesSorted
<1> QED BY <1>1, <1>2, <1>3 DEF HasCategory, Inherits

\* A channel in a category is not the welcome channel.
LEMMA NotPlaced ==
  ASSUME NEW C, NEW c, NEW u, Placed(C, c, u), \A p \in C : p.id > 0, Loosely(C), c \in C
  PROVE  c.name # "welcome"
BY DEF Placed, Loosely

\* What an invocation has found, when d is what that has become.
LEMMA FoundHeir ==
  ASSUME NEW C, NEW D, NEW n, NEW s, Works(s), Fit(C, n, s), NEW c \in C, NEW d \in D,
         Inherits(C, D, c, d), Finds(s), c.id = s.found, Kind(s.i) = "channel",
         \A p \in C : p.id > 0, Loosely(C)
  PROVE  /\ Placed(C, c, Under(s.i)) => Placed(D, d, Under(s.i))
         /\ s.i = 9 /\ Loose(C, c) => Loose(D, d)
<1>1. s.i \in 1..24
  BY ScopeItems DEF Fit, Shape
<1>2. c.name = Name(s.i) \/ c.name = "welcome"
  BY DEF Fit, Names, FoundNamed
<1>3. Placed(C, c, Under(s.i)) => Placed(D, d, Under(s.i))
  BY <1>1, <1>2, NotPlaced DEF Inherits
<1>4. s.i = 9 => Name(s.i) = "dashboard"
  BY NamesAre
<1> QED BY <1>2, <1>3, <1>4 DEF Inherits

\* An invocation keeps what it knows, what it began with and its calm.
LEMMA HoldsKeep ==
  ASSUME NEW C, NEW D, Heirs(C, D), NEW n, NEW s, Works(s), Fit(C, n, s), Holds(C, s),
         \A p \in C : p.id > 0, Loosely(C)
  PROVE  Holds(D, s)
<1>1. s.i \in 1..24
  BY ScopeItems DEF Fit, Shape
<1>2. Owns(s) => HasCategory(D, s)
  BY <1>1, CategoryKeeps DEF Holds
<1>3. ASSUME Finds(s), s.found # 0, "create" \notin s.todo PROVE HasFound(D, s)
  <2>1. PICK c \in C : /\ c.id = s.found
                       /\ Kind(s.i) = "channel" =>
                            /\ s.stage = "set" => c.kind = "text"
                            /\ "parent" \notin s.todo /\ c.kind = "text" => Placed(C, c, Under(s.i))
                            /\ s.i = 9 => Loose(C, c)
    BY <1>3 DEF Holds, HasFound
  <2>2. PICK d \in D : Inherits(C, D, c, d)
    BY DEF Heirs
  <2>3. d.id = s.found /\ d.kind = c.kind
    BY <2>1, <2>2 DEF Inherits
  <2>4. Kind(s.i) = "channel" => /\ Placed(C, c, Under(s.i)) => Placed(D, d, Under(s.i))
                                 /\ s.i = 9 /\ Loose(C, c) => Loose(D, d)
    BY <1>3, <2>1, <2>2, FoundHeir
  <2> QED BY <2>1, <2>3, <2>4 DEF HasFound
<1> QED BY <1>2, <1>3 DEF Holds

LEMMA BegunKeeps ==
  ASSUME NEW R, NEW Q, NEW C, NEW D, R \subseteq Q, Heirs(C, D), NEW s, Begun(R, C, s)
  PROVE  Begun(Q, D, s)
<1> SUFFICES ASSUME NEW j \in Scope, j < s.i
             PROVE IF j < 4 /\ s.i <= 4 THEN \E x \in Q : x.name = Name(j) /\ x.id \in s.bound
                                        ELSE Stands(Q, D, j)
  BY DEF Begun
<1>1. IF j < 4 /\ s.i <= 4 THEN \E x \in R : x.name = Name(j) /\ x.id \in s.bound ELSE Stands(R, C, j)
  BY DEF Begun
<1> QED BY <1>1, StandsKeep, ScopeItems

LEMMA CalmKeeps ==
  ASSUME NEW R, NEW Q, NEW C, NEW D, R \subseteq Q, Heirs(C, D), NEW n, NEW s,
         Works(s) => Fit(C, n, s), Calm(R, C, s), \A p \in C : p.id > 0, Loosely(C)
  PROVE  Calm(Q, D, s)
<1>1. Works(s) => Begun(Q, D, s)
  BY BegunKeeps DEF Calm
<1>2. Works(s) => Holds(D, s)
  BY HoldsKeep DEF Calm
<1>3. s.stage = "ready" => \A j \in Scope : Stands(Q, D, j)
  BY StandsKeep, ScopeItems DEF Calm
<1> QED BY <1>1, <1>2, <1>3 DEF Calm

(***************************************************************************)
(* The next item                                                           *)
(***************************************************************************)

\* The items after i, and the first of a set of them.
LEMMA AfterIs == ASSUME NEW i PROVE SU!After(i) = {j \in Scope : i < j}
BY ItemCount DEF SU!After, Scope

LEMMA FirstIs ==
  ASSUME NEW S, S \subseteq Nat, S # {}
  PROVE  SU!First(S) \in S /\ \A j \in S : SU!First(S) <= j
<1>1. PICK x \in S : \A y \in S : ~ (<<y, x>> \in Below)
  BY BelowWellFounded, WFMin
<1>2. ASSUME NEW y \in S PROVE x <= y
  <2>1. x \in Nat /\ y \in Nat /\ <<y, x>> \notin Below
    BY <1>1
  <2> QED BY <2>1, SMT DEF Below
<1> QED BY <1>1, <1>2 DEF SU!First

LEMMA NextItem ==
  ASSUME NEW i \in 0..24, SU!After(i) # {}
  PROVE  LET n == SU!First(SU!After(i)) IN
         n \in Scope /\ n \in 1..24 /\ i < n /\ \A j \in Scope : i < j => n <= j
<1>1. SU!After(i) \subseteq Nat
  <2>1. SU!After(i) \subseteq 1..24
    BY AfterIs, ScopeItems
  <2> QED BY <2>1
<1>2. SU!First(SU!After(i)) \in SU!After(i) /\ \A j \in SU!After(i) : SU!First(SU!After(i)) <= j
  BY <1>1, FirstIs
<1> QED BY <1>2, AfterIs, ScopeItems

\* The hierarchy is checked whatever is in scope; the category of a channel in
\* scope is in scope.
LEMMA HierarchyInScope == 4 \in Scope
BY KindsAre DEF Scope, SU!InScope, Kind

LEMMA CategoryInScope ==
  ASSUME NEW j \in Scope, Kind(j) = "channel"
  PROVE  CategoryOf(j) \in Scope
<1>1. j \in 1..24
  BY ScopeItems
<1>2. /\ CategoryOf(j) \in 1..24 /\ Kind(CategoryOf(j)) = "category" /\ Name(CategoryOf(j)) = Under(j)
  BY <1>1, SameSection
<1>3. Under(j) \in Declared
  BY KindsAre DEF Scope, SU!InScope, Kind, Under
<1> QED BY <1>2, <1>3 DEF Scope, SU!InScope, Kind, Name

\* The item before a channel, among those in scope, is of its section.
LEMMA ItemBefore ==
  ASSUME NEW i \in Scope, NEW n \in Scope, i < n, \A j \in Scope : i < j => n <= j, Kind(n) = "channel"
  PROVE  Kind(i) \in {"category", "channel"} /\ Under(i) = Under(n)
<1>1. i \in 1..24 /\ n \in 1..24
  BY ScopeItems
<1>2. CategoryOf(n) \in Scope /\ CategoryOf(n) \in 1..24 /\ CategoryOf(n) < n
  BY <1>1, CategoryInScope, SameSection
<1>3. CategoryOf(n) <= i
  BY <1>1, <1>2
<1> QED BY <1>1, <1>3, SameSection

\* A finished item: what an invocation has when nothing is left to call.
Finished(R, C, s) ==
  /\ s.i < 4 => \E x \in R : x.name = Name(s.i) /\ x.id \in s.bound
  /\ s.i = 4 => \A x \in R : x.id \in s.bound => ~x.above
  /\ Kind(s.i) = "category" => \E c \in C : c.id = s.category /\ IsCategory(c, Name(s.i))
  /\ Kind(s.i) = "channel" => HasCategory(C, s) /\ \E c \in C : Standing(C, c, s.i)

\* What an invocation goes on to: the report, or the lookup of the next item in scope.
LEMMA AdvanceIs ==
  ASSUME NEW s \in SU!Invocation, s.stage = "set", s.todo = {}, s.i \in Scope
  PROVE  LET t == SU!Advance(s) IN
         \/ /\ t = [stage |-> "ready"] /\ t.stage = "ready"
            /\ \A j \in Scope : j <= s.i
         \/ /\ t \in SU!Invocation
            /\ t.stage = "find" /\ t.todo = {} /\ t.found = s.found /\ t.category = s.category
            /\ t.bound = s.bound
            /\ t.i \in Scope /\ s.i < t.i /\ \A j \in Scope : s.i < j => t.i <= j
<1>1. s.i \in 1..24
  BY ScopeItems
<1>2. CASE SU!After(s.i) = {}
  <2>1. SU!Advance(s) = [stage |-> "ready"]
    BY <1>2 DEF SU!Advance
  <2>2. \A j \in Scope : j <= s.i
    BY <1>1, <1>2, AfterIs, ScopeItems
  <2>3. SU!Advance(s).stage = "ready"
    BY <2>1
  <2> QED BY <2>1, <2>2, <2>3
<1>3. CASE SU!After(s.i) # {}
  <2> DEFINE n == SU!First(SU!After(s.i))
  <2>1. n \in Scope /\ n \in 1..24 /\ s.i < n /\ \A j \in Scope : s.i < j => n <= j
    BY <1>1, <1>3, NextItem
  <2>2. SU!Advance(s) = [s EXCEPT !.stage = "find", !.i = n]
    BY <1>3 DEF SU!Advance
  <2> HIDE DEF n
  <2>3. [s EXCEPT !.stage = "find", !.i = n] \in SU!Invocation
    BY <2>1, ItemCount DEF SU!Invocation
  <2>4. LET t == [s EXCEPT !.stage = "find", !.i = n] IN
        t.stage = "find" /\ t.i = n /\ t.todo = {} /\ t.found = s.found /\ t.category = s.category /\ t.bound = s.bound
    BY DEF SU!Invocation
  <2> QED BY <2>1, <2>2, <2>3, <2>4
<1> QED BY <1>2, <1>3

\* What holds of an invocation that goes on to the next item.
LEMMA GoesOnFit ==
  ASSUME NEW C, NEW n \in Nat, NEW s \in SU!Invocation, s.stage = "set", s.todo = {}, s.i \in Scope,
         s.found < n, s.category < n,
         Kind(s.i) \in {"category", "channel"} => InSection(C, s),
         Works(SU!Advance(s))
  PROVE  Fit(C, n, SU!Advance(s))
<1> DEFINE t == SU!Advance(s)
<1>1. /\ t.stage = "find" /\ t.todo = {} /\ t.found = s.found /\ t.category = s.category
      /\ t.i \in Scope /\ s.i < t.i /\ \A j \in Scope : s.i < j => t.i <= j
  BY AdvanceIs DEF Works
<1> HIDE DEF t
<1>2. Shape(t)
  BY <1>1 DEF Shape
<1>3. ASSUME Owns(t) PROVE InSection(C, t)
  <2>1. Kind(t.i) = "channel"
    BY <1>1, <1>3 DEF Owns
  <2>2. Kind(s.i) \in {"category", "channel"} /\ Under(s.i) = Under(t.i)
    BY <1>1, <2>1, ItemBefore
  <2> QED BY <1>1, <2>2 DEF InSection
<1>4. ~Finds(t)
  BY <1>1 DEF Finds
<1> QED BY <1>1, <1>2, <1>3, <1>4 DEF Fit, Names, t

LEMMA GoesOnCalm ==
  ASSUME NEW R, NEW C, NEW s \in SU!Invocation, s.stage = "set", s.todo = {}, s.i \in Scope,
         Begun(R, C, s), Finished(R, C, s)
  PROVE  Calm(R, C, SU!Advance(s))
<1> DEFINE t == SU!Advance(s)
<1>0. s.i \in 1..24
  BY ScopeItems
<1>1. ASSUME NEW j \in Scope, j <= s.i, 4 <= s.i PROVE Stands(R, C, j)
  <2>0. j \in 1..24
    BY ScopeItems
  <2>1. CASE j < 4 /\ s.i = 4
    <3>1. PICK x \in R : x.name = Name(j) /\ x.id \in s.bound
      BY <2>1 DEF Begun
    <3>2. ~x.above
      BY <2>1, <3>1 DEF Finished
    <3> QED BY <2>0, <2>1, <3>1, <3>2, KindsOrdered DEF Stands
  <2>2. CASE j < s.i /\ s.i # 4
    BY <1>0, <1>1, <2>2 DEF Begun
  <2>3. CASE j = s.i /\ Kind(j) = "category"
    BY <2>3 DEF Finished, Stands
  <2>4. CASE j = s.i /\ Kind(j) = "channel"
    BY <2>4 DEF Finished, Stands
  <2>5. CASE j = 4
    BY <2>5, KindsAre DEF Stands
  <2> QED BY <1>0, <1>1, <2>0, <2>1, <2>2, <2>3, <2>4, <2>5, KindsOrdered
<1>2. CASE /\ t.stage = "ready" /\ \A j \in Scope : j <= s.i
  BY <1>1, <1>2, HierarchyInScope DEF Calm, Works
<1>3. CASE /\ t \in SU!Invocation
           /\ t.stage = "find" /\ t.todo = {} /\ t.category = s.category /\ t.bound = s.bound
           /\ t.i \in Scope /\ s.i < t.i /\ \A j \in Scope : s.i < j => t.i <= j
  <2> HIDE DEF t
  <2>0. t.i \in 1..24
    BY <1>3, ScopeItems
  <2>1. ASSUME NEW j \in Scope, j < t.i
        PROVE  IF j < 4 /\ t.i <= 4 THEN \E x \in R : x.name = Name(j) /\ x.id \in t.bound ELSE Stands(R, C, j)
    <3>0. j \in 1..24 /\ j <= s.i
      BY <1>0, <1>3, <2>0, <2>1, ScopeItems
    <3>1. CASE 4 <= s.i
      BY <1>0, <1>1, <1>3, <2>0, <3>0, <3>1
    <3>2. CASE s.i < 4
      <4>1. t.i <= 4
        BY <1>0, <1>3, <3>2, HierarchyInScope
      <4>2. \E x \in R : x.name = Name(j) /\ x.id \in s.bound
        BY <1>0, <3>0, <3>2 DEF Begun, Finished
      <4> QED BY <1>0, <1>3, <3>0, <3>2, <4>1, <4>2
    <3> QED BY <1>0, <3>1, <3>2
  <2>2. Begun(R, C, t)
    BY <2>1 DEF Begun
  <2>3. ASSUME Owns(t) PROVE HasCategory(C, t)
    <3>1. Kind(t.i) = "channel"
      BY <1>3, <2>3 DEF Owns
    <3>2. Kind(s.i) \in {"category", "channel"} /\ Under(s.i) = Under(t.i)
      BY <1>3, <3>1, ItemBefore
    <3>3. Kind(s.i) = "category" => Under(s.i) = Name(s.i)
      BY <1>0, NamesSorted
    <3>4. \E p \in C : p.id = s.category /\ IsCategory(p, Under(s.i))
      BY <3>2, <3>3 DEF Finished, HasCategory
    <3> QED BY <1>3, <3>2, <3>4 DEF HasCategory
  <2>4. Holds(C, t)
    BY <1>3, <2>3 DEF Holds, Finds
  <2>5. Calm(R, C, t)
    BY <1>3, <2>2, <2>4 DEF Calm
  <2> QED BY <2>5 DEF t
<1> QED BY <1>2, <1>3, AdvanceIs

(***************************************************************************)
(* A step of one invocation                                                *)
(***************************************************************************)

\* The typing of the server, and of an invocation that is over.
ServerTyped ==
  /\ nextChannel \in Nat \ {0}
  /\ guildRoles \subseteq [id : 1..(nextChannel - 1), name : SU!Names, above : BOOLEAN]
  /\ channels \subseteq [id : 1..(nextChannel - 1), name : SU!Names, kind : SU!Kinds, parent : Nat,
                         topic : BOOLEAN, access : SU!Access]
  /\ Numbered(channels)
Ended == [stage : {"off", "refused", "ready", "failed"}]

LEMMA TypeParts ==
  SU!TypeOK <=> ServerTyped /\ setup \in [Runs -> Ended \cup SU!Invocation] /\ disturbed \subseteq Runs
BY DEF SU!TypeOK, ServerTyped, Ended, Numbered

LEMMA Working ==
  ASSUME NEW s \in Ended \cup SU!Invocation
  PROVE  Works(s) <=> s \in SU!Invocation
BY DEF Ended, SU!Invocation, Works

LEMMA IdsPositive == ServerTyped => \A c \in channels : c.id > 0 /\ c.id \in Nat /\ c.id < nextChannel
<1> SUFFICES ASSUME ServerTyped, NEW c \in channels PROVE c.id > 0 /\ c.id \in Nat /\ c.id < nextChannel
  OBVIOUS
<1>1. c.id \in 1..(nextChannel - 1) /\ nextChannel \in Nat
  BY DEF ServerTyped
<1> QED BY <1>1

\* Channels that do not change are their own heirs.
LEMMA SameHeirs == \A C : Heirs(C, C)
<1> SUFFICES ASSUME NEW C, NEW c \in C PROVE Inherits(C, C, c, c)
  BY DEF Heirs
<1> QED BY DEF Inherits

LEMMA SameBred == \A C, n : Bred(C, C, n)
BY DEF Bred

\* One invocation goes from setup[r] to t.
LEMMA OneStep ==
  ASSUME Complete, NEW r \in Runs, NEW t \in Ended \cup SU!Invocation,
         setup' = [setup EXCEPT ![r] = t], disturbed' = disturbed,
         ServerTyped', nextChannel <= nextChannel', Loosely(channels'),
         Bred(channels, channels', nextChannel),
         Works(t) => Works(setup[r]) /\ Fit(channels', nextChannel', t),
         r \notin disturbed \/ ~Works(setup[r]) =>
           guildRoles \subseteq guildRoles' /\ Heirs(channels, channels'),
         r \notin disturbed => Calm(guildRoles', channels', t)
  PROVE  Complete'
<1>0. /\ ServerTyped /\ setup \in [Runs -> Ended \cup SU!Invocation] /\ disturbed \subseteq Runs
      /\ Loosely(channels)
      /\ nextChannel \in Nat /\ nextChannel' \in Nat
  BY TypeParts DEF Complete, ServerTyped
<1>1. SU!TypeOK'
  <2>1. setup' \in [Runs -> Ended \cup SU!Invocation]
    BY <1>0
  <2> QED BY <1>0, <2>1 DEF SU!TypeOK, ServerTyped, Ended, Numbered
<1>2. \A q \in Runs : setup'[q] = IF q = r THEN t ELSE setup[q]
  BY <1>0
<1>3. ASSUME NEW q \in Runs, Works(setup'[q]) PROVE Fit(channels', nextChannel', setup'[q])
  <2>1. CASE q = r
    BY <1>2, <1>3, <2>1
  <2>2. CASE q # r
    <3>1. setup'[q] = setup[q] /\ Works(setup[q])
      BY <1>2, <1>3, <2>2
    <3>2. setup[q] \in SU!Invocation /\ Fit(channels, nextChannel, setup[q])
      BY <1>0, <3>1, Working DEF Complete
    <3>3. setup[q].found \in Nat /\ setup[q].category \in Nat
      BY <3>2 DEF SU!Invocation
    <3> QED BY <1>0, <3>1, <3>2, <3>3, NamesKeep
  <2> QED BY <2>1, <2>2
<1>4. ASSUME NEW q \in Runs, q \notin disturbed'
      PROVE  /\ Calm(guildRoles', channels', setup'[q])
             /\ \A p \in Runs : Works(setup'[p]) => p \notin disturbed'
  <2>1. Calm(guildRoles, channels, setup[q]) /\ \A p \in Runs : Works(setup[p]) => p \notin disturbed
    BY <1>4 DEF Complete
  <2>2. CASE q = r
    BY <1>2, <1>4, <2>1, <2>2
  <2>3. CASE q # r
    <3>1. guildRoles \subseteq guildRoles' /\ Heirs(channels, channels')
      BY <2>1
    <3>2. Works(setup[q]) => Fit(channels, nextChannel, setup[q])
      BY DEF Complete
    <3>3. Calm(guildRoles', channels', setup[q])
      BY <1>0, <2>1, <3>1, <3>2, CalmKeeps, IdsPositive
    <3> QED BY <1>2, <2>1, <2>3, <3>3
  <2> QED BY <2>2, <2>3
<1> QED BY <1>1, <1>3, <1>4 DEF Complete

\* As long as only setup changes.
LEMMA Looks ==
  ASSUME Complete, NEW r \in Runs, NEW t \in Ended \cup SU!Invocation,
         setup' = [setup EXCEPT ![r] = t], disturbed' = disturbed,
         UNCHANGED <<guildRoles, channels, nextChannel>>,
         Works(t) => Works(setup[r]) /\ Fit(channels, nextChannel, t),
         r \notin disturbed => Calm(guildRoles, channels, t)
  PROVE  Complete'
<1>1. ServerTyped /\ Loosely(channels) /\ nextChannel \in Nat
  BY TypeParts DEF Complete, ServerTyped
<1>2. ServerTyped' /\ nextChannel <= nextChannel' /\ Loosely(channels')
  BY <1>1 DEF ServerTyped
<1>3. Bred(channels, channels', nextChannel) /\ Heirs(channels, channels') /\ guildRoles \subseteq guildRoles'
  BY SameHeirs, SameBred
<1> QED BY <1>2, <1>3, OneStep

\* An invocation that failed or was refused claims nothing.
LEMMA EndsCalm ==
  \A s, R, C : s = [stage |-> "failed"] \/ s = [stage |-> "refused"] =>
    s \in Ended /\ ~Works(s) /\ Calm(R, C, s)
<1> SUFFICES ASSUME NEW s, NEW R, NEW C, s = [stage |-> "failed"] \/ s = [stage |-> "refused"]
             PROVE s \in Ended /\ ~Works(s) /\ Calm(R, C, s)
  OBVIOUS
<1>1. s.stage \in {"failed", "refused"} /\ s \in Ended
  BY DEF Ended
<1> QED BY <1>1 DEF Works, Calm

\* What is known of an invocation at work.
LEMMA AtWork ==
  ASSUME Complete, NEW r \in Runs, Works(setup[r])
  PROVE  /\ setup[r] \in SU!Invocation /\ setup[r].found \in Nat /\ setup[r].category \in Nat
         /\ setup[r].bound \subseteq Nat /\ setup[r].todo \subseteq SU!Ops
         /\ Fit(channels, nextChannel, setup[r]) /\ setup[r].i \in Scope /\ setup[r].i \in 1..24
         /\ nextChannel \in Nat /\ ServerTyped /\ Loosely(channels) /\ setup \in [Runs -> Ended \cup SU!Invocation]
         /\ r \notin disturbed => Begun(guildRoles, channels, setup[r]) /\ Holds(channels, setup[r])
<1>1. setup \in [Runs -> Ended \cup SU!Invocation] /\ ServerTyped /\ Loosely(channels) /\ nextChannel \in Nat
  BY TypeParts DEF Complete, ServerTyped
<1>2. setup[r] \in SU!Invocation
  BY <1>1, Working
<1>3. /\ setup[r].found \in Nat /\ setup[r].category \in Nat
      /\ setup[r].bound \subseteq Nat /\ setup[r].todo \subseteq SU!Ops
  BY <1>2 DEF SU!Invocation
<1>4. Fit(channels, nextChannel, setup[r]) /\ setup[r].i \in Scope
  BY DEF Complete, Fit, Shape
<1>5. r \notin disturbed => Begun(guildRoles, channels, setup[r]) /\ Holds(channels, setup[r])
  BY DEF Complete, Calm
<1> QED BY <1>1, <1>2, <1>3, <1>4, <1>5, ScopeItems

\* /setup is refused, begins, and finds the bot and its role.
LEMMA RefuseStep ==
  ASSUME Complete, NEW r \in Runs, SU!Refuse(r)
  PROVE  Complete'
BY Looks, EndsCalm DEF SU!Refuse, SU!Become, SU!server

LEMMA StartStep ==
  ASSUME Complete, NEW r \in Runs, SU!Start(r)
  PROVE  Complete'
<1> DEFINE n == SU!First(SU!After(0))
           t == [stage |-> "preflight", i |-> n, found |-> 0, category |-> 0, bound |-> {}, todo |-> {}]
<1>0. /\ setup' = [setup EXCEPT ![r] = t]
      /\ disturbed' = IF \E s \in disturbed : Works(setup[s]) THEN disturbed \cup {r} ELSE disturbed \ {r}
      /\ UNCHANGED <<guildRoles, channels, nextChannel>>
      /\ ~Works(setup[r])
  BY DEF SU!Start, SU!Become, SU!server, SU!Busy, Works, SU!NoId
<1>1. n \in Scope /\ n \in 1..24 /\ \A j \in Scope : 0 < j => n <= j
  <2>1. SU!After(0) # {}
    BY AfterIs, HierarchyInScope
  <2> QED BY <2>1, NextItem
<1>2. n <= 4
  BY <1>1, HierarchyInScope
<1> HIDE DEF n
<1>3. t \in SU!Invocation
  BY <1>1, ItemCount DEF SU!Invocation, SU!Ops
<1>4. t.stage = "preflight" /\ t.i = n /\ t.found = 0 /\ t.category = 0 /\ t.todo = {}
  OBVIOUS
<1> HIDE DEF t
<1>5. /\ ServerTyped /\ setup \in [Runs -> Ended \cup SU!Invocation] /\ disturbed \subseteq Runs
      /\ Loosely(channels) /\ nextChannel \in Nat \ {0}
  BY TypeParts DEF Complete, ServerTyped
<1>6. Kind(n) \notin {"category", "channel"}
  BY <1>1, <1>2, KindsOrdered
<1>7. Fit(channels, nextChannel, t)
  BY <1>1, <1>2, <1>4, <1>5, <1>6 DEF Fit, Shape, Names, Finds, Owns
<1>8. Calm(guildRoles, channels, t)
  <2>1. Begun(guildRoles, channels, t)
    <3>1. \A j \in Scope : n <= j /\ j \in 1..24
      BY <1>1, ScopeItems
    <3>2. \A j \in Scope : ~(j < t.i)
      BY <1>1, <1>4, <3>1
    <3> QED BY <3>2 DEF Begun
  <2>2. Holds(channels, t)
    BY <1>4, <1>6 DEF Holds, Finds, Owns
  <2> QED BY <1>4, <2>1, <2>2 DEF Calm
<1>9. \A q \in Runs : setup'[q] = IF q = r THEN t ELSE setup[q]
  BY <1>0, <1>5
<1>10. setup' \in [Runs -> Ended \cup SU!Invocation] /\ disturbed' \subseteq Runs
  BY <1>0, <1>3, <1>5
<1>11. SU!TypeOK'
  BY <1>0, <1>5, <1>10 DEF SU!TypeOK, ServerTyped, Ended, Numbered
<1>12. Loosely(channels') /\ \A q \in Runs : Works(setup'[q]) => Fit(channels', nextChannel', setup'[q])
  BY <1>0, <1>5, <1>7, <1>9 DEF Complete
<1>13. ASSUME NEW q \in Runs, q \notin disturbed'
       PROVE  /\ Calm(guildRoles', channels', setup'[q])
              /\ \A p \in Runs : Works(setup'[p]) => p \notin disturbed'
  <2>1. CASE \E s \in disturbed : Works(setup[s])
    <3>1. q \notin disturbed
      BY <1>0, <1>13, <2>1
    <3> QED BY <1>5, <2>1, <3>1 DEF Complete
  <2>2. CASE ~ \E s \in disturbed : Works(setup[s])
    <3>1. disturbed' = disturbed \ {r}
      BY <1>0, <2>2
    <3>2. Calm(guildRoles', channels', setup'[q])
      BY <1>0, <1>8, <1>9, <1>13, <3>1 DEF Complete
    <3>3. \A p \in Runs : Works(setup'[p]) => p \notin disturbed'
      BY <1>9, <2>2, <3>1
    <3> QED BY <3>2, <3>3
  <2> QED BY <2>1, <2>2
<1> QED BY <1>11, <1>12, <1>13 DEF Complete

LEMMA MemberMissingStep ==
  ASSUME Complete, NEW r \in Runs, SU!MemberMissing(r)
  PROVE  Complete'
BY Looks, EndsCalm DEF SU!MemberMissing, SU!Become, SU!server, SU!Failed

LEMMA BindBotRoleStep ==
  ASSUME Complete, NEW r \in Runs, SU!BindBotRole(r)
  PROVE  Complete'
<1> DEFINE s == setup[r]
           t == [s EXCEPT !.stage = "find"]
<1>0. /\ setup' = [setup EXCEPT ![r] = t] /\ s.stage = "preflight"
      /\ UNCHANGED <<guildRoles, channels, nextChannel, disturbed>>
  BY DEF SU!BindBotRole, SU!Become, SU!server
<1>1. Works(s)
  BY <1>0 DEF Works
<1>2. /\ s \in SU!Invocation /\ Fit(channels, nextChannel, s) /\ s.i \in 1..24
      /\ r \notin disturbed => Begun(guildRoles, channels, s) /\ Holds(channels, s)
  BY <1>1, AtWork
<1>3. t \in SU!Invocation
  BY <1>2 DEF SU!Invocation
<1>4. /\ t.stage = "find" /\ t.i = s.i /\ t.found = s.found /\ t.category = s.category /\ t.todo = s.todo
      /\ t.bound = s.bound
  BY <1>2 DEF SU!Invocation
<1> HIDE DEF t
<1>5. s.todo = {} /\ Kind(s.i) \notin {"category", "channel"}
  BY <1>0, <1>2 DEF Fit, Shape
<1>6. Fit(channels, nextChannel, t)
  BY <1>2, <1>4, <1>5 DEF Fit, Shape, Names, Finds, Owns
<1>7. r \notin disturbed => Calm(guildRoles, channels, t)
  BY <1>2, <1>4, <1>5 DEF Calm, Begun, Holds, Finds, Owns
<1> QED BY <1>0, <1>1, <1>3, <1>6, <1>7, Looks

\* An invocation that looks up the item it is at.
LEMMA Looking ==
  ASSUME Complete, NEW r \in Runs, NEW kind, SU!At(r, kind)
  PROVE  /\ Works(setup[r]) /\ setup[r].stage = "find" /\ setup[r].todo = {} /\ Kind(setup[r].i) = kind
         /\ setup[r] \in SU!Invocation /\ setup[r].found \in Nat /\ setup[r].category \in Nat
         /\ setup[r].found < nextChannel /\ setup[r].category < nextChannel
         /\ Fit(channels, nextChannel, setup[r]) /\ setup[r].i \in Scope /\ setup[r].i \in 1..24
         /\ nextChannel \in Nat /\ ServerTyped /\ Loosely(channels)
         /\ r \notin disturbed => Begun(guildRoles, channels, setup[r]) /\ Holds(channels, setup[r])
<1>1. Works(setup[r]) /\ setup[r].stage = "find" /\ setup[r].todo = {} /\ Kind(setup[r].i) = kind
  BY DEF SU!At, Works, Kind
<1> QED BY <1>1, AtWork DEF Fit

\* Roles are looked up, and none that was bound may be above the bot.
LEMMA FindRoleStep ==
  ASSUME Complete, NEW r \in Runs, SU!FindRole(r)
  PROVE  Complete'
<1> DEFINE s == setup[r]
<1>0. /\ SU!At(r, "role")
      /\ UNCHANGED <<guildRoles, channels, nextChannel, disturbed>>
      /\ \/ \E x \in guildRoles : /\ x.name = Name(s.i)
                                  /\ setup' = [setup EXCEPT ![r] =
                                       SU!Advance([s EXCEPT !.stage = "set", !.bound = @ \cup {x.id}])]
         \/ setup' = [setup EXCEPT ![r] = [s EXCEPT !.stage = "set", !.todo = {"create"}]]
  BY DEF SU!FindRole, SU!Become, SU!server, Name
<1>1. /\ Works(s) /\ s.stage = "find" /\ s.todo = {} /\ Kind(s.i) = "role"
      /\ s \in SU!Invocation /\ s.found < nextChannel /\ s.category < nextChannel
      /\ Fit(channels, nextChannel, s) /\ s.i \in Scope /\ s.i \in 1..24 /\ nextChannel \in Nat /\ ServerTyped
      /\ r \notin disturbed => Begun(guildRoles, channels, s) /\ Holds(channels, s)
  BY <1>0, Looking
<1>2. s.i < 4
  BY <1>1, KindsOrdered
<1>3. ASSUME NEW x \in guildRoles, x.name = Name(s.i),
             setup' = [setup EXCEPT ![r] = SU!Advance([s EXCEPT !.stage = "set", !.bound = @ \cup {x.id}])]
      PROVE  Complete'
  <2> DEFINE u == [s EXCEPT !.stage = "set", !.bound = @ \cup {x.id}]
             t == SU!Advance(u)
  <2>0. x.id \in Nat
    <3>1. x.id \in 1..(nextChannel - 1)
      BY <1>1 DEF ServerTyped
    <3> QED BY <1>1, <3>1
  <2>1. u \in SU!Invocation
    BY <1>1, <2>0 DEF SU!Invocation
  <2>2. /\ u.stage = "set" /\ u.todo = {} /\ u.i = s.i /\ u.found = s.found /\ u.category = s.category
        /\ u.bound = s.bound \cup {x.id}
    BY <1>1 DEF SU!Invocation
  <2> HIDE DEF u
  <2>3. t \in Ended \cup SU!Invocation
    BY <1>1, <2>1, <2>2, AdvanceIs DEF Ended
  <2>4. Works(t) => Fit(channels, nextChannel, t)
    BY <1>1, <2>1, <2>2, GoesOnFit
  <2>5. r \notin disturbed => Calm(guildRoles, channels, t)
    <3> SUFFICES ASSUME r \notin disturbed PROVE Calm(guildRoles, channels, t)
      OBVIOUS
    <3>1. Begun(guildRoles, channels, u)
      <4>1. Begun(guildRoles, channels, s)
        BY <1>1
      <4> QED BY <4>1, <2>2 DEF Begun
    <3>2. Finished(guildRoles, channels, u)
      BY <1>1, <1>2, <1>3, <2>2 DEF Finished
    <3> QED BY <1>1, <2>1, <2>2, <3>1, <3>2, GoesOnCalm
  <2>6. setup' = [setup EXCEPT ![r] = t]
    BY <1>3 DEF u
  <2> HIDE DEF t
  <2> QED BY <1>0, <1>1, <2>3, <2>4, <2>5, <2>6, Looks
<1>4. ASSUME setup' = [setup EXCEPT ![r] = [s EXCEPT !.stage = "set", !.todo = {"create"}]]
      PROVE  Complete'
  <2> DEFINE t == [s EXCEPT !.stage = "set", !.todo = {"create"}]
  <2>1. t \in SU!Invocation
    BY <1>1 DEF SU!Invocation, SU!Ops
  <2>2. /\ t.stage = "set" /\ t.todo = {"create"} /\ t.i = s.i /\ t.found = s.found /\ t.category = s.category
        /\ t.bound = s.bound
    BY <1>1 DEF SU!Invocation
  <2> HIDE DEF t
  <2>3. Fit(channels, nextChannel, t)
    BY <1>1, <1>2, <2>2 DEF Fit, Shape, Names, Finds, Owns
  <2>4. r \notin disturbed => Calm(guildRoles, channels, t)
    BY <1>1, <1>2, <2>2 DEF Calm, Begun, Holds, Finds, Owns
  <2>5. setup' = [setup EXCEPT ![r] = t]
    BY <1>4 DEF t
  <2> QED BY <1>0, <1>1, <2>1, <2>3, <2>4, <2>5, Looks
<1> QED BY <1>0, <1>3, <1>4

LEMMA CheckHierarchyStep ==
  ASSUME Complete, NEW r \in Runs, SU!CheckHierarchy(r)
  PROVE  Complete'
<1> DEFINE s == setup[r]
           u == [s EXCEPT !.stage = "set"]
           t == SU!Advance(u)
<1>0. /\ SU!At(r, "hierarchy")
      /\ UNCHANGED <<guildRoles, channels, nextChannel, disturbed>>
      /\ \/ setup' = [setup EXCEPT ![r] = SU!Failed]
         \/ /\ \A x \in guildRoles : x.id \in s.bound => ~x.above
            /\ setup' = [setup EXCEPT ![r] = t]
  BY DEF SU!CheckHierarchy, SU!Become, SU!server
<1>1. /\ Works(s) /\ s.stage = "find" /\ s.todo = {} /\ Kind(s.i) = "hierarchy"
      /\ s \in SU!Invocation /\ s.found < nextChannel /\ s.category < nextChannel
      /\ Fit(channels, nextChannel, s) /\ s.i \in Scope /\ s.i \in 1..24 /\ nextChannel \in Nat
      /\ r \notin disturbed => Begun(guildRoles, channels, s) /\ Holds(channels, s)
  BY <1>0, Looking
<1>2. s.i = 4
  BY <1>1, KindsOrdered
<1>3. CASE setup' = [setup EXCEPT ![r] = SU!Failed]
  BY <1>0, <1>3, Looks, EndsCalm DEF SU!Failed
<1>4. ASSUME \A x \in guildRoles : x.id \in s.bound => ~x.above, setup' = [setup EXCEPT ![r] = t]
      PROVE  Complete'
  <2>1. u \in SU!Invocation
    BY <1>1 DEF SU!Invocation
  <2>2. /\ u.stage = "set" /\ u.todo = {} /\ u.i = s.i /\ u.found = s.found /\ u.category = s.category
        /\ u.bound = s.bound
    BY <1>1 DEF SU!Invocation
  <2> HIDE DEF u
  <2>3. t \in Ended \cup SU!Invocation
    BY <1>1, <2>1, <2>2, AdvanceIs DEF Ended
  <2>4. Works(t) => Fit(channels, nextChannel, t)
    BY <1>1, <2>1, <2>2, GoesOnFit
  <2>5. r \notin disturbed => Calm(guildRoles, channels, t)
    <3> SUFFICES ASSUME r \notin disturbed PROVE Calm(guildRoles, channels, t)
      OBVIOUS
    <3>1. Begun(guildRoles, channels, u)
      <4>1. Begun(guildRoles, channels, s)
        BY <1>1
      <4> QED BY <4>1, <2>2 DEF Begun
    <3>2. Finished(guildRoles, channels, u)
      BY <1>1, <1>2, <1>4, <2>2 DEF Finished
    <3> QED BY <1>1, <2>1, <2>2, <3>1, <3>2, GoesOnCalm
  <2> HIDE DEF t
  <2> QED BY <1>0, <1>1, <1>4, <2>3, <2>4, <2>5, Looks
<1> QED BY <1>0, <1>3, <1>4

\* A category is looked up.
LEMMA FindCategoryStep ==
  ASSUME Complete, NEW r \in Runs, SU!FindCategory(r)
  PROVE  Complete'
<1> DEFINE s == setup[r]
<1>0. /\ SU!At(r, "category")
      /\ UNCHANGED <<guildRoles, channels, nextChannel, disturbed>>
      /\ \/ setup' = [setup EXCEPT ![r] = SU!Failed]
         \/ \E c \in channels :
              /\ c.name = Name(s.i) /\ c.kind = "category"
              /\ setup' = [setup EXCEPT ![r] = [s EXCEPT !.stage = "set", !.found = c.id, !.category = c.id,
                                                         !.todo = {"access"}]]
         \/ setup' = [setup EXCEPT ![r] = [s EXCEPT !.stage = "set", !.found = 0, !.todo = {"create", "access"}]]
  BY DEF SU!FindCategory, SU!Become, SU!server, Name, SU!NoId
<1>1. /\ Works(s) /\ s.stage = "find" /\ s.todo = {} /\ Kind(s.i) = "category"
      /\ s \in SU!Invocation /\ s.found < nextChannel /\ s.category < nextChannel
      /\ Fit(channels, nextChannel, s) /\ s.i \in Scope /\ s.i \in 1..24 /\ nextChannel \in Nat /\ ServerTyped
      /\ r \notin disturbed => Begun(guildRoles, channels, s) /\ Holds(channels, s)
  BY <1>0, Looking
<1>2. s.i > 4 /\ Under(s.i) = Name(s.i) /\ s.i # 9 /\ s.i # 16
  BY <1>1, KindsOrdered, NamesSorted, KindsAre
<1>3. CASE setup' = [setup EXCEPT ![r] = SU!Failed]
  BY <1>0, <1>3, Looks, EndsCalm DEF SU!Failed
<1>4. ASSUME NEW c \in channels, c.name = Name(s.i), c.kind = "category",
             setup' = [setup EXCEPT ![r] = [s EXCEPT !.stage = "set", !.found = c.id, !.category = c.id,
                                                     !.todo = {"access"}]]
      PROVE  Complete'
  <2> DEFINE t == [s EXCEPT !.stage = "set", !.found = c.id, !.category = c.id, !.todo = {"access"}]
  <2>0. c.id \in Nat /\ c.id > 0 /\ c.id < nextChannel
    BY <1>1, IdsPositive
  <2>1. t \in SU!Invocation
    BY <1>1, <2>0 DEF SU!Invocation, SU!Ops
  <2>2. /\ t.stage = "set" /\ t.todo = {"access"} /\ t.i = s.i /\ t.found = c.id /\ t.category = c.id
        /\ t.bound = s.bound
    BY <1>1 DEF SU!Invocation
  <2>3. setup' = [setup EXCEPT ![r] = t]
    BY <1>4 DEF t
  <2> HIDE DEF t
  <2>4. \A d \in channels : d.id = c.id => d = c
    BY <1>1 DEF ServerTyped, Numbered
  <2>5. Shape(t)
    BY <1>1, <1>2, <2>2 DEF Fit, Shape
  <2>6. FoundNamed(channels, t) /\ InSection(channels, t)
    BY <1>2, <1>4, <2>2, <2>4 DEF FoundNamed, InSection
  <2>7. Fit(channels, nextChannel, t)
    BY <2>0, <2>2, <2>5, <2>6 DEF Fit, Names
  <2>8. r \notin disturbed => Calm(guildRoles, channels, t)
    <3>1. HasCategory(channels, t) /\ HasFound(channels, t)
      BY <1>1, <2>2 DEF HasCategory, HasFound
    <3> QED BY <1>1, <2>0, <2>2, <3>1 DEF Calm, Begun, Holds
  <2> QED BY <1>0, <1>1, <2>1, <2>3, <2>7, <2>8, Looks
<1>5. ASSUME setup' = [setup EXCEPT ![r] = [s EXCEPT !.stage = "set", !.found = 0, !.todo = {"create", "access"}]]
      PROVE  Complete'
  <2> DEFINE t == [s EXCEPT !.stage = "set", !.found = 0, !.todo = {"create", "access"}]
  <2>1. t \in SU!Invocation
    BY <1>1 DEF SU!Invocation, SU!Ops
  <2>2. /\ t.stage = "set" /\ t.todo = {"create", "access"} /\ t.i = s.i /\ t.found = 0 /\ t.category = s.category
        /\ t.bound = s.bound
    BY <1>1 DEF SU!Invocation
  <2>3. setup' = [setup EXCEPT ![r] = t]
    BY <1>5 DEF t
  <2> HIDE DEF t
  <2>5. Shape(t)
    BY <1>1, <1>2, <2>2 DEF Fit, Shape
  <2>6. FoundNamed(channels, t) /\ ~Owns(t)
    BY <1>1, <2>2, IdsPositive DEF FoundNamed, Owns
  <2>7. Fit(channels, nextChannel, t)
    BY <1>1, <2>2, <2>5, <2>6 DEF Fit, Names, ServerTyped
  <2>8. r \notin disturbed => Calm(guildRoles, channels, t)
    BY <1>1, <2>2, <2>6 DEF Calm, Begun, Holds
  <2> QED BY <1>0, <1>1, <2>1, <2>3, <2>7, <2>8, Looks
<1> QED BY <1>0, <1>3, <1>4, <1>5

\* Which channels a lookup in the whole server may take.
LEMMA ElsewhereIs ==
  ASSUME NEW i \in 1..24, Kind(i) = "channel", NEW c \in SU!Elsewhere(SU!Items[i])
  PROVE  /\ c \in channels /\ i # 16
         /\ i = 9 => c.name = "welcome"
         /\ i # 9 => c.name = Name(i)
<1>1. i \in {9, 16} <=> Name(i) = "dashboard"
  BY IndexOfName, NamesAre
<1>2. i = 9 => Under(i) = "CREATOR"
  BY UndersAre
<1>3. i = 16 => Under(i) # "CREATOR"
  BY UndersAre
<1>4. CASE i = 9
  BY <1>1, <1>2, <1>4 DEF SU!Elsewhere, SU!Named, Name, Under
<1>5. CASE i = 16
  BY <1>1, <1>3, <1>5 DEF SU!Elsewhere, SU!Named, Name, Under
<1>6. CASE i # 9 /\ i # 16
  BY <1>1, <1>6 DEF SU!Elsewhere, SU!Named, Name, Under
<1> QED BY <1>4, <1>5, <1>6

\* A channel is looked up, in its category and then elsewhere.
LEMMA FindChannelStep ==
  ASSUME Complete, NEW r \in Runs, SU!FindChannel(r)
  PROVE  Complete'
<1> DEFINE s == setup[r]
           here == {c \in channels : c.name = Name(s.i) /\ c.parent = s.category}
           move(c) == IF c.parent = s.category THEN {} ELSE {"parent"}
           calls(c) == IF c.name # Name(s.i) THEN {"rename", "retitle"} \cup move(c)
                       ELSE IF c.kind = "text" THEN move(c) ELSE {}
<1>0. /\ SU!At(r, "channel")
      /\ UNCHANGED <<guildRoles, channels, nextChannel, disturbed>>
      /\ \/ \E c \in here : setup' = [setup EXCEPT ![r] = [s EXCEPT !.stage = "adopt", !.found = c.id]]
         \/ /\ here = {}
            /\ \E c \in SU!Elsewhere(SU!Items[s.i]) :
                 setup' = [setup EXCEPT ![r] = [s EXCEPT !.stage = "adopt", !.found = c.id, !.todo = calls(c)]]
         \/ setup' = [setup EXCEPT ![r] = [s EXCEPT !.stage = "adopt", !.found = 0]]
  <2>1. /\ SU!At(r, "channel") /\ UNCHANGED <<guildRoles, channels, nextChannel, disturbed>>
    BY DEF SU!FindChannel, SU!server
  <2>2. SU!Inside(SU!Items[s.i].name, s.category) = here
    BY DEF SU!Inside, Name
  <2>3. \A c : (CASE c.name # SU!Items[s.i].name -> {"rename", "retitle"} \cup SU!Move(r, c)
                  [] c.name = SU!Items[s.i].name /\ c.kind = "text" -> SU!Move(r, c)
                  [] c.name = SU!Items[s.i].name /\ c.kind # "text" -> {}) = calls(c)
    BY DEF SU!Move, Name
  <2> QED BY <2>1, <2>2, <2>3 DEF SU!FindChannel, SU!Become, SU!NoId
<1>1. /\ Works(s) /\ s.stage = "find" /\ s.todo = {} /\ Kind(s.i) = "channel"
      /\ s \in SU!Invocation /\ s.found < nextChannel /\ s.category < nextChannel
      /\ Fit(channels, nextChannel, s) /\ s.i \in Scope /\ s.i \in 1..24 /\ nextChannel \in Nat /\ ServerTyped
      /\ Loosely(channels)
      /\ r \notin disturbed => Begun(guildRoles, channels, s) /\ Holds(channels, s)
  BY <1>0, Looking
<1>2. s.i > 4 /\ (s.i = 9 => Under(s.i) = "CREATOR" /\ Name(s.i) = "dashboard")
  BY <1>1, KindsOrdered, NamesAre, UndersAre
<1>3. /\ InSection(channels, s)
      /\ r \notin disturbed => \E p \in channels : p.id = s.category /\ IsCategory(p, Under(s.i))
  BY <1>1 DEF Fit, Names, Owns, Holds, HasCategory
<1>4. \A c, d \in channels : c.id = d.id => c = d
  BY <1>1 DEF ServerTyped, Numbered
<1>5. \A c \in channels : c.id \in Nat /\ c.id > 0 /\ c.id < nextChannel
  BY <1>1, IdsPositive
<1> HIDE DEF here, move, calls
<1>6. ASSUME NEW id \in Nat, id < nextChannel, NEW todo \in SUBSET {"rename", "parent", "retitle"},
             "parent" \in todo => s.i # 16,
             "rename" \in todo => s.i = 9,
             \A c \in channels : c.id = id => c.name = Name(s.i) \/ ("rename" \in todo /\ c.name = "welcome"),
             r \notin disturbed /\ id # 0 =>
               \E c \in channels : /\ c.id = id
                                   /\ "parent" \notin todo /\ c.kind = "text" => Placed(channels, c, Under(s.i))
                                   /\ s.i = 9 => Loose(channels, c),
             setup' = [setup EXCEPT ![r] = [s EXCEPT !.stage = "adopt", !.found = id, !.todo = todo]]
      PROVE  Complete'
  <2> DEFINE t == [s EXCEPT !.stage = "adopt", !.found = id, !.todo = todo]
  <2>1. t \in SU!Invocation
    BY <1>1 DEF SU!Invocation, SU!Ops
  <2>2. /\ t.stage = "adopt" /\ t.todo = todo /\ t.i = s.i /\ t.found = id /\ t.category = s.category
        /\ t.bound = s.bound
    BY <1>1 DEF SU!Invocation
  <2>3. setup' = [setup EXCEPT ![r] = t]
    BY <1>6 DEF t
  <2> HIDE DEF t
  <2>4. Shape(t)
    BY <1>1, <1>2, <1>6, <2>2 DEF Shape
  <2>5. FoundNamed(channels, t) /\ InSection(channels, t)
    BY <1>1, <1>3, <1>6, <2>2 DEF FoundNamed, InSection
  <2>6. Fit(channels, nextChannel, t)
    BY <1>1, <1>6, <2>2, <2>4, <2>5 DEF Fit, Names
  <2>7. ASSUME r \notin disturbed PROVE Calm(guildRoles, channels, t)
    <3>1. HasCategory(channels, t)
      BY <1>3, <2>2, <2>7 DEF HasCategory
    <3>2. id # 0 => HasFound(channels, t)
      BY <1>6, <2>2, <2>7 DEF HasFound
    <3>3. Begun(guildRoles, channels, t)
      <4>1. Begun(guildRoles, channels, s)
        BY <1>1, <2>7
      <4> QED BY <4>1, <2>2 DEF Begun
    <3> QED BY <2>2, <3>1, <3>2, <3>3 DEF Calm, Holds
  <2> QED BY <1>0, <1>1, <2>1, <2>3, <2>6, <2>7, Looks
<1>7. ASSUME NEW c \in here, setup' = [setup EXCEPT ![r] = [s EXCEPT !.stage = "adopt", !.found = c.id]]
      PROVE  Complete'
  <2>1. c \in channels /\ c.name = Name(s.i) /\ c.parent = s.category
    BY DEF here
  <2>2. [s EXCEPT !.stage = "adopt", !.found = c.id] = [s EXCEPT !.stage = "adopt", !.found = c.id, !.todo = {}]
    BY <1>1 DEF SU!Invocation
  <2>3. ASSUME r \notin disturbed PROVE Placed(channels, c, Under(s.i)) /\ (s.i = 9 => Loose(channels, c))
    BY <1>2, <1>3, <2>1, <2>3 DEF Placed, Loose, IsCategory
  <2>4. \A d \in channels : d.id = c.id => d.name = Name(s.i)
    BY <1>4, <2>1
  <2>5. c.id \in Nat /\ c.id < nextChannel
    BY <1>5, <2>1
  <2>6. {} \in SUBSET {"rename", "parent", "retitle"} /\ "parent" \notin {} /\ "rename" \notin {}
    OBVIOUS
  <2>7. setup' = [setup EXCEPT ![r] = [s EXCEPT !.stage = "adopt", !.found = c.id, !.todo = {}]]
    BY <1>7, <2>2
  <2>8. r \notin disturbed /\ c.id # 0 =>
          \E d \in channels : /\ d.id = c.id
                              /\ "parent" \notin {} /\ d.kind = "text" => Placed(channels, d, Under(s.i))
                              /\ s.i = 9 => Loose(channels, d)
    BY <2>1, <2>3
  <2> HIDE DEF s
  <2> QED BY <1>6, <2>4, <2>5, <2>6, <2>7, <2>8
<1>8. ASSUME here = {}, NEW c \in SU!Elsewhere(SU!Items[s.i]),
             setup' = [setup EXCEPT ![r] = [s EXCEPT !.stage = "adopt", !.found = c.id, !.todo = calls(c)]]
      PROVE  Complete'
  <2>1. /\ c \in channels /\ s.i # 16
        /\ s.i = 9 => c.name = "welcome"
        /\ s.i # 9 => c.name = Name(s.i)
    BY <1>1, ElsewhereIs
  <2>2. calls(c) \in SUBSET {"rename", "parent", "retitle"}
    BY DEF calls, move
  <2>3. s.i = 9 <=> c.name # Name(s.i)
    BY <1>2, <2>1
  <2>4. "rename" \in calls(c) <=> s.i = 9
    BY <2>3 DEF calls, move
  <2>5. \A d \in channels : d.id = c.id => d.name = Name(s.i) \/ ("rename" \in calls(c) /\ d.name = "welcome")
    BY <1>4, <2>1, <2>4
  <2>6. s.i = 9 => c.parent = 0 /\ Loose(channels, c)
    BY <1>1, <2>1 DEF Loosely, Loose
  <2>7. ASSUME r \notin disturbed PROVE "parent" \in calls(c) \/ c.kind # "text"
    <3>1. s.i = 9 => c.parent # s.category
      BY <1>3, <1>5, <2>6, <2>7
    <3>2. s.i # 9 => c.parent # s.category
      BY <1>8, <2>1 DEF here
    <3> QED BY <3>1, <3>2 DEF calls, move
  <2>8. c.id \in Nat /\ c.id < nextChannel
    BY <1>5, <2>1
  <2> QED BY <1>6, <1>8, <2>1, <2>2, <2>4, <2>5, <2>6, <2>7, <2>8
<1>9. ASSUME setup' = [setup EXCEPT ![r] = [s EXCEPT !.stage = "adopt", !.found = 0]]
      PROVE  Complete'
  <2>1. [s EXCEPT !.stage = "adopt", !.found = 0] = [s EXCEPT !.stage = "adopt", !.found = 0, !.todo = {}]
    BY <1>1 DEF SU!Invocation
  <2>2. \A c \in channels : c.id # 0
    BY <1>5
  <2>3. 0 \in Nat /\ 0 < nextChannel
    BY <1>1 DEF ServerTyped
  <2>4. {} \in SUBSET {"rename", "parent", "retitle"} /\ "parent" \notin {} /\ "rename" \notin {}
    OBVIOUS
  <2>5. setup' = [setup EXCEPT ![r] = [s EXCEPT !.stage = "adopt", !.found = 0, !.todo = {}]]
    BY <1>9, <2>1
  <2> HIDE DEF s
  <2> QED BY <1>6, <2>2, <2>3, <2>4, <2>5
<1> QED BY <1>0, <1>7, <1>8, <1>9

\* The channel of an id.
LEMMA ChannelIs ==
  ASSUME Numbered(channels), NEW c \in channels
  PROVE  SU!Exists(c.id) /\ SU!Channel(c.id) = c
BY DEF Numbered, SU!Exists, SU!Channel

\* What was found is adopted, or is to be created.
LEMMA AdoptStep ==
  ASSUME Complete, NEW r \in Runs, SU!Adopt(r)
  PROVE  Complete'
<1> DEFINE s == setup[r]
           last == {Last(s.i)}
           extra(found) == IF SU!Channel(found).topic THEN {} ELSE {"topic"}
<1>0. /\ s.stage = "adopt" /\ s.todo = {}
      /\ UNCHANGED <<guildRoles, channels, nextChannel, disturbed>>
      /\ \/ setup' = [setup EXCEPT ![r] = SU!Failed]
         \/ /\ s.found = 0
            /\ setup' = [setup EXCEPT ![r] = [s EXCEPT !.stage = "set", !.todo = {"create"} \cup last]]
         \/ /\ s.found # 0 /\ SU!Exists(s.found) /\ SU!Channel(s.found).kind = "text"
            /\ setup' = [setup EXCEPT ![r] = [s EXCEPT !.stage = "set", !.todo = last \cup extra(s.found)]]
  <2>1. /\ s.stage = "adopt" /\ s.todo = {} /\ UNCHANGED <<guildRoles, channels, nextChannel, disturbed>>
    BY DEF SU!Adopt, SU!server
  <2>2. (IF SU!HasOverwrites(SU!Items[s.i].under, SU!Items[s.i].name) THEN {"access"} ELSE {"lock"}) = last
    BY DEF Last, Under, Name
  <2>3. CASE s.found = 0
    BY <2>1, <2>2, <2>3 DEF SU!Adopt, SU!Become, SU!NoId
  <2>4. CASE s.found # 0 /\ ~SU!Exists(s.found)
    BY <2>1, <2>2, <2>4 DEF SU!Adopt, SU!Become, SU!NoId
  <2>5. CASE s.found # 0 /\ SU!Exists(s.found)
    BY <2>1, <2>2, <2>5 DEF SU!Adopt, SU!Become, SU!NoId
  <2> QED BY <2>1, <2>3, <2>4, <2>5
<1>1. Works(s)
  BY <1>0 DEF Works
<1>2. /\ s \in SU!Invocation /\ s.found < nextChannel /\ s.category < nextChannel /\ s.found \in Nat
      /\ Fit(channels, nextChannel, s) /\ s.i \in Scope /\ s.i \in 1..24 /\ nextChannel \in Nat /\ ServerTyped
      /\ r \notin disturbed => Begun(guildRoles, channels, s) /\ Holds(channels, s)
  BY <1>1, AtWork DEF Fit
<1>3. Kind(s.i) = "channel" /\ s.i > 4
  BY <1>0, <1>2, KindsOrdered DEF Fit, Shape
<1>4. Last(s.i) \in {"access", "lock"}
  BY DEF Last
<1>5. /\ FoundNamed(channels, s) /\ InSection(channels, s)
      /\ r \notin disturbed => HasCategory(channels, s) /\ (s.found # 0 => HasFound(channels, s))
  BY <1>0, <1>2, <1>3 DEF Fit, Names, Finds, Owns, Holds
<1> HIDE DEF last, extra
<1>6. ASSUME NEW todo \in SUBSET {"create", "topic", Last(s.i)}, Last(s.i) \in todo,
             r \notin disturbed /\ "create" \notin todo =>
               s.found # 0 /\ \A c \in channels : c.id = s.found => c.kind = "text",
             setup' = [setup EXCEPT ![r] = [s EXCEPT !.stage = "set", !.todo = todo]]
      PROVE  Complete'
  <2> DEFINE t == [s EXCEPT !.stage = "set", !.todo = todo]
  <2>1. t \in SU!Invocation
    BY <1>2, <1>4 DEF SU!Invocation, SU!Ops
  <2>2. /\ t.stage = "set" /\ t.todo = todo /\ t.i = s.i /\ t.found = s.found /\ t.category = s.category
        /\ t.bound = s.bound
    BY <1>2 DEF SU!Invocation
  <2>3. setup' = [setup EXCEPT ![r] = t]
    BY <1>6 DEF t
  <2> HIDE DEF t
  <2>4. Shape(t)
    BY <1>2, <1>3, <1>4, <1>6, <2>2 DEF Shape
  <2>5. FoundNamed(channels, t) /\ InSection(channels, t)
    BY <1>0, <1>5, <2>2 DEF FoundNamed, InSection
  <2>6. Fit(channels, nextChannel, t)
    BY <1>2, <2>2, <2>4, <2>5 DEF Fit, Names
  <2>7. ASSUME r \notin disturbed PROVE Calm(guildRoles, channels, t)
    <3>1. HasCategory(channels, t)
      BY <1>5, <2>2, <2>7 DEF HasCategory
    <3>2. ASSUME "create" \notin todo PROVE HasFound(channels, t)
      BY <1>0, <1>5, <1>6, <2>2, <2>7, <3>2 DEF HasFound
    <3>3. Begun(guildRoles, channels, t)
      <4>1. Begun(guildRoles, channels, s)
        BY <1>2, <2>7
      <4> QED BY <4>1, <2>2 DEF Begun
    <3>4. "create" \notin todo => t.found # 0
      BY <1>6, <2>2, <2>7
    <3> QED BY <2>2, <3>1, <3>2, <3>3, <3>4 DEF Calm, Holds
  <2> QED BY <1>0, <1>1, <2>1, <2>3, <2>6, <2>7, Looks
<1>7. CASE setup' = [setup EXCEPT ![r] = SU!Failed]
  BY <1>0, <1>7, Looks, EndsCalm DEF SU!Failed
<1>8. ASSUME setup' = [setup EXCEPT ![r] = [s EXCEPT !.stage = "set", !.todo = {"create"} \cup last]]
      PROVE  Complete'
  <2>1. {"create"} \cup last \in SUBSET {"create", "topic", Last(s.i)} /\ Last(s.i) \in {"create"} \cup last
    BY DEF last
  <2> HIDE DEF s
  <2> QED BY <1>6, <1>8, <2>1
<1>9. ASSUME s.found # 0, SU!Exists(s.found), SU!Channel(s.found).kind = "text",
             setup' = [setup EXCEPT ![r] = [s EXCEPT !.stage = "set", !.todo = last \cup extra(s.found)]]
      PROVE  Complete'
  <2>1. last \cup extra(s.found) \in SUBSET {"create", "topic", Last(s.i)} /\ Last(s.i) \in last \cup extra(s.found)
    BY DEF last, extra
  <2>2. \A c \in channels : c.id = s.found => c.kind = "text"
    BY <1>2, <1>9, ChannelIs DEF ServerTyped
  <2> HIDE DEF s
  <2> QED BY <1>6, <1>9, <2>1, <2>2
<1> QED BY <1>0, <1>7, <1>8, <1>9

\* The call that is due, and what is left to call after it.
LEMMA DueIs ==
  ASSUME Complete, NEW r \in Runs, NEW op \in SU!Ops, SU!Due(r, op)
  PROVE  LET s == setup[r] IN
         /\ Works(s) /\ op \in s.todo
         /\ op = "parent" => "rename" \notin s.todo
         /\ op \in {"topic", "access", "lock"} => "create" \notin s.todo
         /\ op \in {"access", "lock"} => "topic" \notin s.todo
<1>1. Works(setup[r]) /\ op \in setup[r].todo /\ \A o \in setup[r].todo : SU!Turn[op] <= SU!Turn[o]
  BY DEF SU!Due, SU!Busy, Works
<1>2. /\ SU!Turn["rename"] = 1 /\ SU!Turn["parent"] = 2 /\ SU!Turn["retitle"] = 3 /\ SU!Turn["create"] = 4
      /\ SU!Turn["topic"] = 5 /\ SU!Turn["access"] = 6 /\ SU!Turn["lock"] = 7
  BY DEF SU!Turn
<1> QED BY <1>1, <1>2

LEMMA DoneIs ==
  ASSUME NEW r, NEW op, setup[r] \in SU!Invocation
  PROVE  LET s == setup[r]
             u == SU!Done(r, op) IN
         /\ u \in SU!Invocation /\ u.stage = s.stage /\ u.i = s.i /\ u.found = s.found
         /\ u.category = s.category /\ u.bound = s.bound /\ u.todo = s.todo \ {op}
         /\ SU!Advance(u) = IF u.stage = "set" /\ u.todo = {} THEN SU!Advance(u) ELSE u
<1> DEFINE s == setup[r]
           u == [s EXCEPT !.todo = s.todo \ {op}]
<1>1. SU!Done(r, op) = u
  BY DEF SU!Done
<1>2. u \in SU!Invocation
  BY DEF SU!Invocation
<1>3. /\ u.stage = s.stage /\ u.i = s.i /\ u.found = s.found
      /\ u.category = s.category /\ u.bound = s.bound /\ u.todo = s.todo \ {op}
  BY DEF SU!Invocation
<1> HIDE DEF u
<1>4. SU!Advance(u) = IF u.stage = "set" /\ u.todo = {} THEN SU!Advance(u) ELSE u
  BY DEF SU!Advance
<1> QED BY <1>1, <1>2, <1>3, <1>4

\* A call fails, and the lock does not.
LEMMA FailsStep ==
  ASSUME Complete, "lock" \notin Faulty, NEW r \in Runs, SU!Fails(r)
  PROVE  Complete'
<1> DEFINE s == setup[r]
<1>0. PICK op \in SU!Ops :
        /\ SU!Due(r, op)
        /\ SU!Gone(r, op) \/ op \in Faulty
        /\ setup' = [setup EXCEPT ![r] = IF op \in {"topic", "lock"} THEN SU!Advance(SU!Done(r, op)) ELSE SU!Failed]
        /\ UNCHANGED <<guildRoles, channels, nextChannel, disturbed>>
  BY DEF SU!Fails, SU!Become, SU!server
<1>1. /\ Works(s) /\ op \in s.todo
      /\ op \in {"topic", "access", "lock"} => "create" \notin s.todo
      /\ op \in {"access", "lock"} => "topic" \notin s.todo
  BY <1>0, DueIs
<1>2. /\ s \in SU!Invocation /\ s.found < nextChannel /\ s.category < nextChannel
      /\ Fit(channels, nextChannel, s) /\ s.i \in Scope /\ s.i \in 1..24 /\ nextChannel \in Nat /\ ServerTyped
      /\ r \notin disturbed => Begun(guildRoles, channels, s) /\ Holds(channels, s)
  BY <1>1, AtWork DEF Fit
<1>3. CASE op \notin {"topic", "lock"}
  BY <1>0, <1>1, <1>3, Looks, EndsCalm DEF SU!Failed
<1> DEFINE u == SU!Done(r, op)
           t == SU!Advance(u)
<1>4. ASSUME op \in {"topic", "lock"} PROVE Complete'
  <2>1. Kind(s.i) = "channel" /\ s.stage = "set" /\ s.i > 4
    BY <1>1, <1>2, <1>4, KindsOrdered DEF Fit, Shape, Works
  <2>2. /\ u \in SU!Invocation /\ u.stage = s.stage /\ u.i = s.i /\ u.found = s.found
        /\ u.category = s.category /\ u.bound = s.bound /\ u.todo = s.todo \ {op}
        /\ t = IF u.stage = "set" /\ u.todo = {} THEN SU!Advance(u) ELSE u
    BY <1>2, DoneIs
  <2>3. setup' = [setup EXCEPT ![r] = t]
    BY <1>0, <1>4
  <2> HIDE DEF t, u
  <2>4. FoundNamed(channels, s) /\ InSection(channels, s)
    BY <1>2, <2>1 DEF Fit, Names, Finds, Owns
  <2>5. Last(s.i) \in {"access", "lock"} /\ s.todo \subseteq {"create", "topic", Last(s.i)} /\ Last(s.i) \in s.todo
    BY <1>2, <2>1 DEF Fit, Shape, Last
  <2>6. CASE op = "topic"
    <3>1. u.todo = {Last(s.i)} /\ t = u
      BY <1>1, <2>2, <2>5, <2>6
    <3>2. Shape(u)
      BY <1>2, <2>1, <2>2, <2>5, <3>1 DEF Shape
    <3>3. FoundNamed(channels, u) /\ InSection(channels, u)
      BY <2>1, <2>2, <2>4, <2>5 DEF FoundNamed, InSection
    <3>4. Fit(channels, nextChannel, u)
      BY <1>2, <2>2, <3>2, <3>3 DEF Fit, Names
    <3>5. ASSUME r \notin disturbed PROVE Calm(guildRoles, channels, u)
      <4>1. HasCategory(channels, u) /\ HasFound(channels, u) /\ u.found # 0
        BY <1>1, <1>2, <2>1, <2>2, <2>5, <2>6, <3>5 DEF Holds, Owns, Finds, HasCategory, HasFound
      <4>2. Begun(guildRoles, channels, u)
        <5>1. Begun(guildRoles, channels, s)
          BY <1>2, <3>5
        <5> QED BY <5>1, <2>2 DEF Begun
      <4> QED BY <2>1, <2>2, <4>1, <4>2 DEF Calm, Holds
    <3> QED BY <1>0, <1>1, <2>2, <2>3, <3>1, <3>4, <3>5, Looks
  <2>7. CASE op = "lock"
    <3>1. u.todo = {} /\ u.stage = "set"
      BY <1>1, <2>1, <2>2, <2>5, <2>7
    <3>2. t \in Ended \cup SU!Invocation
      BY <1>2, <2>2, <3>1, AdvanceIs DEF Ended
    <3>3. InSection(channels, u)
      BY <2>2, <2>4 DEF InSection
    <3>4. Works(t) => Fit(channels, nextChannel, t)
      BY <1>2, <2>2, <3>1, <3>3, GoesOnFit
    <3>5. ASSUME r \notin disturbed PROVE FALSE
      <4>1. HasFound(channels, s)
        BY <1>1, <1>2, <2>1, <2>7, <3>5 DEF Holds, Finds
      <4>2. SU!Exists(s.found)
        BY <4>1 DEF HasFound, SU!Exists
      <4>3. ~SU!Gone(r, op)
        BY <2>7, <4>2 DEF SU!Gone
      <4> QED BY <1>0, <2>7, <4>3
    <3> QED BY <1>0, <1>1, <2>3, <3>2, <3>4, <3>5, Looks
  <2> QED BY <1>4, <2>6, <2>7
<1> QED BY <1>3, <1>4

\* Every declared access is an access.
LEMMA AccessTyped ==
  /\ SU!Open \in SU!Access
  /\ \A u \in Sections : SU!CategoryAccess(u) \in SU!Access
  /\ \A u \in Sections : \A name : SU!ChannelAccess(u, name) \in SU!Access
<1>1. SU!Open \in SU!Access
  BY DEF SU!Open, SU!Access, SU!Level
<1>2. ASSUME NEW u \in Sections PROVE SU!CategoryAccess(u) \in SU!Access
  <2>1. CASE u = "INFORMATION"
    BY <2>1 DEF SU!CategoryAccess, SU!Access, SU!Level
  <2>2. CASE u = "CREATOR"
    BY <2>2 DEF SU!CategoryAccess, SU!Access, SU!Level
  <2>3. CASE u \in {"STAFF", "SYSTEM"}
    BY <2>3 DEF SU!CategoryAccess, SU!Access, SU!Level
  <2> QED BY <2>1, <2>2, <2>3 DEF Sections
<1>3. ASSUME NEW u \in Sections, NEW name PROVE SU!ChannelAccess(u, name) \in SU!Access
  <2> DEFINE a == SU!CategoryAccess(u)
  <2>1. a \in SU!Access
    BY <1>2
  <2> HIDE DEF a
  <2>2. /\ [a EXCEPT !.everyone = "read"] \in SU!Access /\ [a EXCEPT !.manager = "read"] \in SU!Access
        /\ [a EXCEPT !.manager = "none"] \in SU!Access /\ [a EXCEPT !.manager = "write"] \in SU!Access
    BY <2>1 DEF SU!Access, SU!Level
  <2>3. SU!ChannelAccess(u, name) \in {a, [a EXCEPT !.everyone = "read"], [a EXCEPT !.manager = "read"],
                                      [a EXCEPT !.manager = "none"], [a EXCEPT !.manager = "write"]}
    BY DEF a, SU!ChannelAccess
  <2> QED BY <2>1, <2>2, <2>3
<1> QED BY <1>1, <1>2, <1>3

\* The server gets one more role or channel.
LEMMA MoreServer ==
  ASSUME ServerTyped, Loosely(channels), nextChannel' = nextChannel + 1,
         \/ /\ channels' = channels
            /\ \E x \in [id : {nextChannel}, name : SU!Names, above : BOOLEAN] : guildRoles' = guildRoles \cup {x}
         \/ /\ guildRoles' = guildRoles
            /\ \E c \in [id : {nextChannel}, name : SU!Names \ {"welcome"}, kind : SU!Kinds, parent : Nat,
                         topic : BOOLEAN, access : SU!Access] : channels' = channels \cup {c}
  PROVE  /\ ServerTyped' /\ nextChannel <= nextChannel' /\ Loosely(channels')
         /\ Bred(channels, channels', nextChannel)
         /\ guildRoles \subseteq guildRoles' /\ Heirs(channels, channels')
<1>1. nextChannel \in Nat \ {0} /\ nextChannel' \in Nat \ {0} /\ nextChannel <= nextChannel'
  BY DEF ServerTyped
<1>2. 1..(nextChannel - 1) \subseteq 1..(nextChannel' - 1) /\ nextChannel \in 1..(nextChannel' - 1)
  BY <1>1
<1>3. guildRoles \subseteq [id : 1..(nextChannel' - 1), name : SU!Names, above : BOOLEAN]
  BY <1>2 DEF ServerTyped
<1>4. channels \subseteq [id : 1..(nextChannel' - 1), name : SU!Names, kind : SU!Kinds, parent : Nat,
                          topic : BOOLEAN, access : SU!Access]
  BY <1>2 DEF ServerTyped
<1>5. CASE /\ channels' = channels
           /\ \E x \in [id : {nextChannel}, name : SU!Names, above : BOOLEAN] : guildRoles' = guildRoles \cup {x}
  <2>1. ServerTyped'
    BY <1>1, <1>2, <1>3, <1>4, <1>5 DEF ServerTyped
  <2> QED BY <1>1, <1>5, <2>1, SameHeirs, SameBred
<1>6. ASSUME guildRoles' = guildRoles,
             NEW d \in [id : {nextChannel}, name : SU!Names \ {"welcome"}, kind : SU!Kinds, parent : Nat,
                        topic : BOOLEAN, access : SU!Access],
             channels' = channels \cup {d}
      PROVE  ServerTyped' /\ Loosely(channels') /\ Bred(channels, channels', nextChannel) /\ Heirs(channels, channels')
  <2>1. d.id = nextChannel /\ d.name # "welcome"
    OBVIOUS
  <2>2. Numbered(channels')
    <3>1. \A c \in channels : c.id # d.id
      BY <1>1, <2>1, IdsPositive
    <3> QED BY <1>6, <3>1 DEF ServerTyped, Numbered
  <2>3. channels' \subseteq [id : 1..(nextChannel' - 1), name : SU!Names, kind : SU!Kinds, parent : Nat,
                             topic : BOOLEAN, access : SU!Access]
    <3>1. d \in [id : 1..(nextChannel' - 1), name : SU!Names, kind : SU!Kinds, parent : Nat,
                 topic : BOOLEAN, access : SU!Access]
      BY <1>2
    <3> QED BY <1>4, <1>6, <3>1
  <2>4. ServerTyped'
    BY <1>1, <1>3, <1>6, <2>2, <2>3 DEF ServerTyped
  <2>5. Loosely(channels')
    BY <1>6, <2>1 DEF Loosely
  <2>6. Bred(channels, channels', nextChannel)
    BY <1>1, <1>6, <2>1 DEF Bred
  <2>7. ASSUME NEW c \in channels PROVE Inherits(channels, channels', c, c)
    BY <1>6 DEF Inherits, Placed, Loose
  <2>8. Heirs(channels, channels')
    BY <1>6, <2>7 DEF Heirs
  <2> QED BY <2>4, <2>5, <2>6, <2>8
<1> QED BY <1>1, <1>5, <1>6

\* A role, a category or a channel is created.
LEMMA CreateStep ==
  ASSUME Complete, NEW r \in Runs, SU!Create(r)
  PROVE  Complete'
<1> DEFINE s    == setup[r]
           item == SU!Items[s.i]
           u    == SU!Done(r, "create")
<1>0. /\ SU!Due(r, "create") /\ nextChannel' = nextChannel + 1 /\ disturbed' = disturbed
      /\ IF Kind(s.i) = "role"
         THEN /\ guildRoles' = guildRoles \cup {[id |-> nextChannel, name |-> Name(s.i), above |-> FALSE]}
              /\ setup' = [setup EXCEPT ![r] = SU!Advance([u EXCEPT !.bound = @ \cup {nextChannel}])]
              /\ channels' = channels
         ELSE /\ channels' = channels \cup {SU!Created(r, item)}
              /\ setup' = [setup EXCEPT ![r] = [u EXCEPT !.found = nextChannel,
                             !.category = IF Kind(s.i) = "category" THEN nextChannel ELSE @]]
              /\ guildRoles' = guildRoles
  BY DEF SU!Create, SU!Become, Name, Kind
<1>1. Works(s) /\ "create" \in s.todo
  BY <1>0, DueIs DEF SU!Ops
<1>2. /\ s \in SU!Invocation /\ s.found < nextChannel /\ s.category < nextChannel /\ s.category \in Nat
      /\ Fit(channels, nextChannel, s) /\ s.i \in Scope /\ s.i \in 1..24 /\ nextChannel \in Nat \ {0} /\ ServerTyped
      /\ s.found \in Nat /\ Loosely(channels)
      /\ r \notin disturbed => Begun(guildRoles, channels, s) /\ Holds(channels, s)
  BY <1>1, AtWork DEF Fit, ServerTyped
<1>3. s.stage = "set" /\ s.i # 4
  BY <1>1, <1>2, KindsOrdered DEF Fit, Shape, Works
<1>4. /\ u \in SU!Invocation /\ u.stage = "set" /\ u.i = s.i /\ u.found = s.found
      /\ u.category = s.category /\ u.bound = s.bound /\ u.todo = s.todo \ {"create"}
  BY <1>2, <1>3, DoneIs
<1>5. \A c \in channels : c.id \in Nat /\ c.id < nextChannel
  BY <1>2, IdsPositive
<1> HIDE DEF u
<1>6. CASE Kind(s.i) = "role"
  <2> DEFINE v == [u EXCEPT !.bound = @ \cup {nextChannel}]
             t == SU!Advance(v)
             x == [id |-> nextChannel, name |-> Name(s.i), above |-> FALSE]
  <2>1. s.i < 4 /\ s.todo = {"create"} /\ Name(s.i) \in SU!Names
    BY <1>2, <1>3, <1>6, KindsOrdered, NamesTyped DEF Fit, Shape
  <2>2. v \in SU!Invocation
    BY <1>2, <1>4 DEF SU!Invocation
  <2>3. /\ v.stage = "set" /\ v.todo = {} /\ v.i = s.i /\ v.found = s.found
        /\ v.category = s.category /\ v.bound = s.bound \cup {nextChannel}
    BY <1>4, <2>1 DEF SU!Invocation
  <2>4. /\ setup' = [setup EXCEPT ![r] = t] /\ guildRoles' = guildRoles \cup {x} /\ channels' = channels
    BY <1>0, <1>6
  <2>5. x \in [id : {nextChannel}, name : SU!Names, above : BOOLEAN]
    BY <2>1
  <2>6. /\ ServerTyped' /\ nextChannel <= nextChannel' /\ Loosely(channels')
        /\ Bred(channels, channels', nextChannel)
        /\ guildRoles \subseteq guildRoles' /\ Heirs(channels, channels')
    BY <1>0, <1>2, <2>4, <2>5, MoreServer
  <2> HIDE DEF v
  <2>7. t \in Ended \cup SU!Invocation
    BY <1>2, <2>2, <2>3, AdvanceIs DEF Ended
  <2>8. Works(t) => Fit(channels', nextChannel', t)
    <3>1. Kind(v.i) \notin {"category", "channel"}
      BY <1>6, <2>3
    <3>2. nextChannel' \in Nat /\ v.found < nextChannel' /\ v.category < nextChannel'
      BY <1>0, <1>2, <2>3
    <3> QED BY <1>2, <2>2, <2>3, <3>1, <3>2, GoesOnFit
  <2>9. ASSUME r \notin disturbed PROVE Calm(guildRoles', channels', t)
    <3>1. Begun(guildRoles', channels', v)
      <4>1. Begun(guildRoles', channels', s)
        BY <1>2, <2>6, <2>9, BegunKeeps
      <4> QED BY <4>1, <2>3 DEF Begun
    <3>2. Finished(guildRoles', channels', v)
      <4>1. x \in guildRoles' /\ x.name = Name(v.i) /\ x.id \in v.bound
        BY <2>3, <2>4
      <4>2. v.i < 4 /\ Kind(v.i) = "role"
        BY <1>6, <2>1, <2>3
      <4> HIDE DEF x
      <4> QED BY <4>1, <4>2 DEF Finished
    <3> QED BY <1>2, <2>2, <2>3, <3>1, <3>2, GoesOnCalm
  <2> HIDE DEF t
  <2> QED BY <1>0, <1>1, <2>4, <2>6, <2>7, <2>8, <2>9, OneStep
<1>7. ASSUME Kind(s.i) \in {"category", "channel"} PROVE Complete'
  <2> DEFINE new == SU!Created(r, item)
             t   == [u EXCEPT !.found = nextChannel,
                              !.category = IF Kind(s.i) = "category" THEN nextChannel ELSE @]
  <2>0. setup' = [setup EXCEPT ![r] = t] /\ channels' = channels \cup {new} /\ guildRoles' = guildRoles
    BY <1>0, <1>7
  <2>1. t \in SU!Invocation
    BY <1>2, <1>4 DEF SU!Invocation
  <2>2. /\ t.stage = "set" /\ t.todo = s.todo \ {"create"} /\ t.i = s.i /\ t.found = nextChannel
        /\ t.category = (IF Kind(s.i) = "category" THEN nextChannel ELSE s.category) /\ t.bound = s.bound
    BY <1>4 DEF SU!Invocation
  <2>3. /\ new.id = nextChannel /\ new.name = Name(s.i)
        /\ new.kind = (IF Kind(s.i) = "category" THEN "category" ELSE "text")
        /\ Kind(s.i) = "channel" => new.parent = s.category
    BY <1>7 DEF SU!Created, Kind, Name
  <2>4. new \in [id : {nextChannel}, name : SU!Names \ {"welcome"}, kind : SU!Kinds, parent : Nat,
                 topic : BOOLEAN, access : SU!Access]
    <3>1. Name(s.i) \in SU!Names \ {"welcome"}
      BY <1>2, <1>7, NamesTyped, NotWelcome
    <3> DEFINE access == CASE item.kind = "category" -> SU!CategoryAccess(item.name)
                [] item.kind = "channel" /\ SU!HasOverwrites(item.under, item.name) ->
                     SU!ChannelAccess(item.under, item.name)
                [] item.kind = "channel" /\ ~SU!HasOverwrites(item.under, item.name) ->
                     IF SU!Exists(s.category) THEN SU!Channel(s.category).access ELSE SU!Open
    <3>2. access \in SU!Access
      <4>1. item.kind = "category" => item.name \in Sections
        BY <1>2, NamesSorted DEF Kind, Name, Under
      <4>2. item.kind = "channel" => item.under \in Sections
        BY <1>2, NamesSorted DEF Kind, Name, Under
      <4>3. SU!Exists(s.category) => SU!Channel(s.category) \in channels
        BY DEF SU!Exists, SU!Channel
      <4>4. SU!Exists(s.category) => SU!Channel(s.category).access \in SU!Access
        BY <1>2, <4>3 DEF ServerTyped
      <4>5. item.kind \in {"category", "channel"}
        BY <1>7 DEF Kind
      <4> QED BY <4>1, <4>2, <4>4, <4>5, AccessTyped
    <3> HIDE DEF access
    <3>3. new = [id |-> nextChannel, name |-> Name(s.i), topic |-> item.kind = "channel",
                 kind |-> IF item.kind = "category" THEN "category" ELSE "text",
                 parent |-> IF item.kind = "category" THEN 0 ELSE s.category, access |-> access]
      BY DEF SU!Created, Name, access, SU!NoId
    <3> HIDE DEF new
    <3> QED BY <1>2, <3>1, <3>2, <3>3 DEF SU!Kinds
  <2> HIDE DEF t, new
  <2>5. /\ ServerTyped' /\ nextChannel <= nextChannel' /\ Loosely(channels')
        /\ Bred(channels, channels', nextChannel)
        /\ guildRoles \subseteq guildRoles' /\ Heirs(channels, channels')
    BY <1>0, <1>2, <2>0, <2>4, MoreServer
  <2>6. \A c \in channels' : c.id = nextChannel => c = new
    BY <1>2, <1>5, <2>0
  <2>7. nextChannel < nextChannel' /\ s.category < nextChannel'
    BY <1>0, <1>2
  <2>8. new \in channels' /\ nextChannel # 0
    BY <1>2, <2>0
  <2>9. CASE Kind(s.i) = "category"
    <3>1. t.todo = {"access"} /\ s.i > 4 /\ Under(s.i) = Name(s.i) /\ s.i # 9 /\ s.i # 16
      BY <1>1, <1>2, <1>3, <2>2, <2>9, KindsOrdered, KindsAre, NamesSorted DEF Fit, Shape
    <3>2. Shape(t)
      BY <1>2, <2>2, <2>9, <3>1 DEF Shape
    <3>3. FoundNamed(channels', t) /\ InSection(channels', t)
      BY <2>2, <2>3, <2>6, <2>9, <3>1 DEF FoundNamed, InSection
    <3>4. Fit(channels', nextChannel', t)
      BY <2>2, <2>7, <2>9, <3>2, <3>3 DEF Fit, Names
    <3>5. ASSUME r \notin disturbed PROVE Calm(guildRoles', channels', t)
      <4>1. Begun(guildRoles', channels', s)
        BY <1>2, <2>5, <3>5, BegunKeeps
      <4>2. Begun(guildRoles', channels', t)
        BY <4>1, <2>2 DEF Begun
      <4>3. HasCategory(channels', t) /\ HasFound(channels', t)
        BY <2>2, <2>3, <2>8, <2>9 DEF HasCategory, HasFound
      <4> QED BY <2>2, <2>8, <4>2, <4>3 DEF Calm, Holds
    <3> QED BY <1>0, <1>1, <2>0, <2>1, <2>5, <3>4, <3>5, OneStep
  <2>10. CASE Kind(s.i) = "channel"
    <3>1. /\ t.todo \subseteq {"topic", Last(s.i)} /\ Last(s.i) \in t.todo /\ Last(s.i) \in {"access", "lock"}
          /\ s.i > 4 /\ (s.i = 9 => Under(s.i) = "CREATOR")
      BY <1>1, <1>2, <1>3, <2>2, <2>10, KindsOrdered, UndersAre DEF Fit, Shape, Last
    <3>2. Shape(t)
      BY <1>2, <2>2, <2>10, <3>1 DEF Shape
    <3>3. InSection(channels, s)
      BY <1>2, <2>10 DEF Fit, Names, Owns
    <3>4. FoundNamed(channels', t) /\ InSection(channels', t)
      <4>1. InSection(channels', t)
        <5>1. \A c \in channels' : c.id = s.category => c \in channels
          BY <1>2, <2>0, <2>3
        <5> QED BY <2>2, <2>10, <3>3, <5>1 DEF InSection
      <4> QED BY <2>2, <2>3, <2>6, <2>10, <4>1 DEF FoundNamed
    <3>5. Fit(channels', nextChannel', t)
      BY <2>2, <2>7, <2>10, <3>2, <3>4 DEF Fit, Names
    <3>6. ASSUME r \notin disturbed PROVE Calm(guildRoles', channels', t)
      <4>1. Begun(guildRoles', channels', s)
        BY <1>2, <2>5, <3>6, BegunKeeps
      <4>2. Begun(guildRoles', channels', t)
        BY <4>1, <2>2 DEF Begun
      <4>3. PICK p \in channels : p.id = s.category /\ IsCategory(p, Under(s.i))
        BY <1>2, <2>10, <3>6 DEF Holds, Owns, HasCategory
      <4>4. HasCategory(channels', t)
        BY <2>0, <2>2, <2>10, <4>3 DEF HasCategory
      <4>5. Placed(channels', new, Under(s.i)) /\ (s.i = 9 => Loose(channels', new))
        BY <2>0, <2>3, <2>10, <3>1, <4>3 DEF Placed, Loose, IsCategory
      <4>6. HasFound(channels', t)
        BY <2>2, <2>3, <2>8, <2>10, <4>5 DEF HasFound
      <4> QED BY <2>2, <2>8, <4>2, <4>4, <4>6 DEF Calm, Holds
    <3> QED BY <1>0, <1>1, <2>0, <2>1, <2>5, <3>5, <3>6, OneStep
  <2> QED BY <1>7, <2>9, <2>10
<1> QED BY <1>2, <1>3, <1>6, <1>7, KindsOrdered

\* A channel without overwrites is declared for whom its category is.
LEMMA LockedAccess ==
  ASSUME NEW u \in Sections, NEW name, ~SU!HasOverwrites(u, name)
  PROVE  SU!ChannelAccess(u, name) = SU!CategoryAccess(u)
<1>1. u # "STAFF" /\ ~(u = "CREATOR" /\ name = "dashboard")
  BY DEF SU!HasOverwrites
<1> QED BY <1>1 DEF SU!ChannelAccess

\* The channel c becomes d by the call op of the invocation s.
Changes(s, op, c, d) ==
  /\ op \in SU!Ops \ {"create"} /\ op \in s.todo /\ "create" \notin s.todo
  /\ op = "parent" => "rename" \notin s.todo
  /\ op \in {"access", "lock"} => "topic" \notin s.todo
  /\ c \in channels /\ c.id = s.found
  /\ d.id = c.id /\ d.kind = c.kind
  /\ d.name = IF op = "rename" THEN Name(s.i) ELSE c.name
  /\ d.parent = IF op = "parent" THEN s.category ELSE c.parent
  /\ op \notin {"access", "lock"} => d.access = c.access
  /\ op = "access" => d.access = IF Kind(s.i) = "category" THEN SU!CategoryAccess(Name(s.i))
                                                           ELSE SU!ChannelAccess(Under(s.i), Name(s.i))
  /\ op = "lock" => \A p \in channels : p.id = c.parent => d.access = p.access

\* Every change of the model is one of these.
LEMMA ChangeIs ==
  ASSUME Complete, NEW r \in Runs, SU!Change(r)
  PROVE  /\ UNCHANGED <<guildRoles, nextChannel, disturbed>> /\ Works(setup[r])
         /\ \E op \in SU!Ops, c \in channels :
            \E d \in [id : 1..(nextChannel - 1), name : SU!Names, kind : SU!Kinds, parent : Nat,
                      topic : BOOLEAN, access : SU!Access] :
              /\ Changes(setup[r], op, c, d)
              /\ channels' = (channels \ {c}) \cup {d}
              /\ setup' = [setup EXCEPT ![r] = SU!Advance(SU!Done(r, op))]
<1> DEFINE s == setup[r]
           c == SU!Channel(s.found)
<1>0. PICK op \in SU!Ops \ {"create"} :
        /\ SU!Due(r, op) /\ SU!Exists(s.found)
        /\ channels' = (channels \ {c}) \cup {SU!Applied(r, op, SU!Items[s.i], c)}
        /\ setup' = [setup EXCEPT ![r] = SU!Advance(SU!Done(r, op))]
        /\ UNCHANGED <<guildRoles, nextChannel, disturbed>>
  BY DEF SU!Change, SU!Become
<1> DEFINE d == SU!Applied(r, op, SU!Items[s.i], c)
<1>1. /\ Works(s) /\ op \in s.todo
      /\ op = "parent" => "rename" \notin s.todo
      /\ op \in {"topic", "access", "lock"} => "create" \notin s.todo
      /\ op \in {"access", "lock"} => "topic" \notin s.todo
  BY <1>0, DueIs
<1>2. /\ s \in SU!Invocation /\ Fit(channels, nextChannel, s) /\ s.i \in 1..24 /\ ServerTyped /\ s.category \in Nat
  BY <1>1, AtWork
<1>3. c \in channels /\ c.id = s.found
  BY <1>0 DEF SU!Exists, SU!Channel
<1>4. "create" \notin s.todo /\ Kind(s.i) \in {"category", "channel"}
  <2>1. s.i > 4 /\ Kind(s.i) \in {"category", "channel"} /\ s.stage \in {"adopt", "set"}
    BY <1>0, <1>1, <1>2, KindsOrdered DEF Fit, Shape, Works
  <2>2. CASE s.stage = "adopt"
    BY <1>2, <2>1, <2>2 DEF Fit, Shape
  <2>3. CASE s.stage = "set"
    <3>1. s.todo \subseteq {"create", "topic", "access", "lock"}
      BY <1>2, <2>1, <2>3 DEF Fit, Shape, Last
    <3> QED BY <1>0, <1>1, <2>1, <3>1
  <2> QED BY <2>1, <2>2, <2>3
<1>5. c \in [id : 1..(nextChannel - 1), name : SU!Names, kind : SU!Kinds, parent : Nat,
             topic : BOOLEAN, access : SU!Access]
  BY <1>2, <1>3 DEF ServerTyped
<1> DEFINE access == IF Kind(s.i) = "category" THEN SU!CategoryAccess(Name(s.i))
                                               ELSE SU!ChannelAccess(Under(s.i), Name(s.i))
           lock   == IF SU!Exists(c.parent) THEN SU!Channel(c.parent).access ELSE c.access
<1>6. access \in SU!Access
  BY <1>2, <1>4, NamesSorted, AccessTyped
<1>7. /\ lock \in SU!Access
      /\ \A p \in channels : p.id = c.parent => lock = p.access
  <2>1. SU!Exists(c.parent) => SU!Channel(c.parent) \in channels
    BY DEF SU!Exists, SU!Channel
  <2>2. SU!Exists(c.parent) => SU!Channel(c.parent).access \in SU!Access
    BY <1>2, <2>1 DEF ServerTyped
  <2>3. \A p \in channels : p.id = c.parent => SU!Exists(c.parent) /\ SU!Channel(c.parent) = p
    BY <1>2, ChannelIs DEF ServerTyped
  <2> QED BY <1>5, <2>2, <2>3
<1>8. /\ op = "rename" => d = [c EXCEPT !.name = Name(s.i)]
      /\ op = "parent" => d = [c EXCEPT !.parent = s.category]
      /\ op \in {"retitle", "topic"} => d = [c EXCEPT !.topic = TRUE]
      /\ op = "access" => d = [c EXCEPT !.access = access]
      /\ op = "lock" => d = [c EXCEPT !.access = lock]
  <2>1. CASE op = "rename"
    BY <2>1 DEF SU!Applied, Name
  <2>2. CASE op = "parent"
    BY <2>2 DEF SU!Applied
  <2>3. CASE op \in {"retitle", "topic"}
    BY <2>3 DEF SU!Applied
  <2>4. CASE op = "access"
    BY <2>4 DEF SU!Applied, Kind, Name, Under
  <2>5. CASE op = "lock"
    BY <2>5 DEF SU!Applied
  <2> QED BY <2>1, <2>2, <2>3, <2>4, <2>5
<1>9. op \in {"rename", "parent", "retitle", "topic", "access", "lock"}
  BY <1>0 DEF SU!Ops
<1>10. Name(s.i) \in SU!Names
  BY <1>2, NamesTyped
<1> HIDE DEF d, c, access, lock
<1>11. d \in [id : 1..(nextChannel - 1), name : SU!Names, kind : SU!Kinds, parent : Nat,
              topic : BOOLEAN, access : SU!Access]
  BY <1>2, <1>5, <1>6, <1>7, <1>8, <1>9, <1>10
<1>12. Changes(s, op, c, d)
  <2>1. /\ d.id = c.id /\ d.kind = c.kind
        /\ d.name = IF op = "rename" THEN Name(s.i) ELSE c.name
        /\ d.parent = IF op = "parent" THEN s.category ELSE c.parent
        /\ d.access = IF op = "access" THEN access ELSE IF op = "lock" THEN lock ELSE c.access
    BY <1>5, <1>8, <1>9
  <2> QED BY <1>0, <1>1, <1>3, <1>4, <1>7, <2>1 DEF Changes, access
<1> QED BY <1>0, <1>1, <1>3, <1>11, <1>12 DEF d

\* What is known of the invocation that makes the call.
LEMMA ChangeFits ==
  ASSUME NEW s, Works(s), Fit(channels, nextChannel, s), NEW op, NEW c, NEW d, Changes(s, op, c, d)
  PROVE  /\ s.i \in 1..24 /\ s.i > 4 /\ Finds(s) /\ Owns(s) /\ Kind(s.i) \in {"category", "channel"}
         /\ c.name = Name(s.i) \/ ("rename" \in s.todo /\ c.name = "welcome")
         /\ Kind(s.i) = "category" =>
              s.stage = "set" /\ s.todo = {"access"} /\ c.kind = "category" /\ s.found = s.category
         /\ s.stage = "adopt" => Kind(s.i) = "channel" /\ op \in {"rename", "parent", "retitle"}
         /\ s.stage = "set" => op \in {"topic", "access", "lock"} /\ "rename" \notin s.todo /\ "parent" \notin s.todo
         /\ s.stage \in {"adopt", "set"}
         /\ s.stage = "set" /\ Kind(s.i) = "channel" =>
              /\ op = "topic" => s.todo = {"topic", Last(s.i)}
              /\ op # "topic" => s.todo = {op} /\ op = Last(s.i)
         /\ op = "parent" => s.i # 16
         /\ op = "rename" => s.i = 9
<1>1. s.i \in 1..24 /\ Shape(s) /\ Names(channels, s) /\ op \in s.todo
  BY ScopeItems DEF Fit, Shape, Changes
<1>2. s.i > 4 /\ s.stage \in {"adopt", "set"}
  BY <1>1, KindsOrdered DEF Shape, Works, Changes
<1>3. Kind(s.i) \in {"category", "channel"} /\ Finds(s)
  BY <1>1, <1>2, KindsOrdered DEF Finds
<1>4. Kind(s.i) = "category" => s.stage = "set" /\ s.todo = {"access"} /\ s.found = s.category
  BY <1>1, <1>2 DEF Shape, Changes
<1>5. Owns(s)
  BY <1>3, <1>4 DEF Owns
<1>6. FoundNamed(channels, s)
  BY <1>1, <1>3 DEF Names
<1>7. /\ c.name = Name(s.i) \/ ("rename" \in s.todo /\ c.name = "welcome")
      /\ Kind(s.i) = "category" => c.kind = "category"
  BY <1>4, <1>6 DEF FoundNamed, Changes
<1>8. ASSUME s.stage = "adopt" PROVE Kind(s.i) = "channel" /\ op \in {"rename", "parent", "retitle"}
  BY <1>1, <1>3, <1>4, <1>8 DEF Shape
<1>9. ASSUME s.stage = "set", Kind(s.i) = "channel"
      PROVE  /\ op \in {"topic", "access", "lock"} /\ "rename" \notin s.todo /\ "parent" \notin s.todo
             /\ op = "topic" => s.todo = {"topic", Last(s.i)}
             /\ op # "topic" => s.todo = {op} /\ op = Last(s.i)
  <2>1. s.todo \subseteq {"topic", Last(s.i)} /\ Last(s.i) \in s.todo /\ Last(s.i) \in {"access", "lock"}
    BY <1>1, <1>9 DEF Shape, Last, Changes
  <2> QED BY <1>1, <2>1 DEF Changes
<1>10. /\ op = "parent" => s.i # 16
       /\ op = "rename" => s.i = 9
  BY <1>1 DEF Shape
<1> QED BY <1>1, <1>2, <1>3, <1>4, <1>5, <1>7, <1>8, <1>9, <1>10

\* Whoever makes it, the call leaves the server well formed.
LEMMA ChangeKeeps ==
  ASSUME ServerTyped, Loosely(channels), NEW s, Works(s), Fit(channels, nextChannel, s),
         NEW op, NEW c,
         NEW d \in [id : 1..(nextChannel - 1), name : SU!Names, kind : SU!Kinds, parent : Nat,
                    topic : BOOLEAN, access : SU!Access],
         Changes(s, op, c, d), channels' = (channels \ {c}) \cup {d}, UNCHANGED <<guildRoles, nextChannel>>
  PROVE  ServerTyped' /\ Loosely(channels') /\ Bred(channels, channels', nextChannel)
<1>0. /\ c \in channels /\ d.id = c.id /\ d.kind = c.kind
      /\ d.name = IF op = "rename" THEN Name(s.i) ELSE c.name
      /\ d.parent = IF op = "parent" THEN s.category ELSE c.parent
  BY DEF Changes
<1>1. /\ s.i \in 1..24 /\ Kind(s.i) \in {"category", "channel"}
      /\ c.name = Name(s.i) \/ ("rename" \in s.todo /\ c.name = "welcome")
      /\ op = "rename" => s.i = 9
  BY ChangeFits
<1>2. op = "parent" => "rename" \notin s.todo
  BY DEF Changes
<1>3. Name(s.i) # "welcome" /\ (s.i = 9 => Name(s.i) = "dashboard")
  BY <1>1, NotWelcome, NamesAre
<1>4. ServerTyped'
  <2>1. Numbered(channels')
    BY <1>0 DEF ServerTyped, Numbered
  <2>2. channels' \subseteq [id : 1..(nextChannel - 1), name : SU!Names, kind : SU!Kinds, parent : Nat,
                             topic : BOOLEAN, access : SU!Access]
    BY DEF ServerTyped
  <2> QED BY <2>1, <2>2 DEF ServerTyped
<1>5. Loosely(channels')
  BY <1>0, <1>1, <1>2, <1>3 DEF Loosely
<1>6. Bred(channels, channels', nextChannel)
  BY <1>0, <1>1, <1>3 DEF Bred
<1> QED BY <1>4, <1>5, <1>6

\* Two categories cannot be at the same place.
LEMMA OneSection ==
  ASSUME Numbered(channels), NEW c, NEW u, NEW v, Placed(channels, c, u), Placed(channels, c, v)
  PROVE  u = v
BY DEF Numbered, Placed, IsCategory

\* The item that a channel in its place has been found for.
LEMMA FoundItem ==
  ASSUME ServerTyped, NEW s, Works(s), Fit(channels, nextChannel, s), Holds(channels, s),
         NEW op, NEW c, NEW d, Changes(s, op, c, d),
         NEW i \in 1..24, Kind(i) = "channel", c.name = Name(i), Placed(channels, c, Under(i)),
         op \in {"access", "lock"} => c.kind = "text"
  PROVE  /\ Kind(s.i) = "channel"
         /\ op \in {"parent", "access", "lock"} => i = s.i
<1>0. Numbered(channels) /\ \A p \in channels : p.id > 0
  BY IdsPositive DEF ServerTyped
<1>1. /\ s.i \in 1..24 /\ Kind(s.i) \in {"category", "channel"} /\ Finds(s)
      /\ c.name = Name(s.i) \/ c.name = "welcome"
      /\ op = "parent" => s.i # 16
      /\ s.stage = "set" => "parent" \notin s.todo
      /\ op \in {"access", "lock"} => s.stage = "set"
  BY ChangeFits
<1>2. c \in channels /\ c.id = s.found /\ "create" \notin s.todo
  BY DEF Changes
<1>3. Name(i) = Name(s.i)
  BY <1>1, NotWelcome
<1>4. Kind(s.i) = "channel"
  BY <1>1, <1>3, NamesSorted DEF Sections, ChannelNames
<1>5. i = s.i \/ (i \in {9, 16} /\ s.i \in {9, 16})
  BY <1>1, <1>3, <1>4, OneName
<1>6. PICK e \in channels : /\ e.id = s.found
                            /\ s.stage = "set" => e.kind = "text"
                            /\ "parent" \notin s.todo /\ e.kind = "text" => Placed(channels, e, Under(s.i))
                            /\ s.i = 9 => Loose(channels, e)
  BY <1>0, <1>1, <1>2, <1>4 DEF Holds, HasFound
<1>7. e = c
  BY <1>0, <1>2, <1>6 DEF Numbered
<1>8. Under(9) = "CREATOR" /\ Under(16) = "STAFF"
  BY UndersAre
<1>9. ASSUME op \in {"access", "lock"} PROVE i = s.i
  <2>1. Placed(channels, c, Under(s.i))
    BY <1>1, <1>6, <1>7, <1>9
  <2>2. Under(i) = Under(s.i)
    BY <1>0, <2>1, OneSection
  <2> QED BY <1>5, <1>8, <2>2
<1>10. ASSUME op = "parent" PROVE i = s.i
  <2>1. SUFFICES ASSUME i = 16, s.i = 9 PROVE FALSE
    BY <1>1, <1>5, <1>10
  <2>2. Loose(channels, c)
    BY <1>6, <1>7, <2>1
  <2>3. PICK p \in channels : p.id = c.parent /\ p.name = "STAFF"
    BY <1>8, <2>1 DEF Placed, IsCategory
  <2> QED BY <1>0, <2>2, <2>3 DEF Loose, Numbered
<1> QED BY <1>4, <1>9, <1>10

\* A call of an undisturbed invocation takes nothing away.
LEMMA ChangeHeirs ==
  ASSUME ServerTyped, NEW s, Works(s), Fit(channels, nextChannel, s), Holds(channels, s),
         NEW op, NEW c, NEW d, Changes(s, op, c, d), channels' = (channels \ {c}) \cup {d}
  PROVE  Heirs(channels, channels')
<1> DEFINE heir(e) == IF e = c THEN d ELSE e
<1>0. /\ c \in channels /\ d.id = c.id /\ d.kind = c.kind /\ c.id = s.found
      /\ d.name = IF op = "rename" THEN Name(s.i) ELSE c.name
      /\ d.parent = IF op = "parent" THEN s.category ELSE c.parent
      /\ op \notin {"access", "lock"} => d.access = c.access
      /\ op = "access" => d.access = IF Kind(s.i) = "category" THEN SU!CategoryAccess(Name(s.i))
                                                               ELSE SU!ChannelAccess(Under(s.i), Name(s.i))
      /\ op = "lock" => \A p \in channels : p.id = c.parent => d.access = p.access
      /\ op = "parent" => "rename" \notin s.todo
  BY DEF Changes
<1>1. /\ s.i \in 1..24 /\ Kind(s.i) \in {"category", "channel"} /\ Owns(s)
      /\ c.name = Name(s.i) \/ ("rename" \in s.todo /\ c.name = "welcome")
      /\ Kind(s.i) = "category" => s.stage = "set" /\ s.todo = {"access"}
      /\ op = "rename" => s.i = 9
      /\ op = "parent" => s.i # 16 /\ s.stage = "adopt"
      /\ s.stage = "adopt" => Kind(s.i) = "channel"
      /\ s.stage = "set" /\ Kind(s.i) = "channel" /\ op # "topic" => op = Last(s.i)
      /\ op \in {"access", "lock"} => s.stage = "set"
  BY ChangeFits
<1>2. op \in s.todo
  BY DEF Changes
<1>3. \A e \in channels : heir(e) \in channels' /\ heir(e).id = e.id /\ heir(e).kind = e.kind
  BY <1>0
<1>4. \A e \in channels : heir(e).name = e.name \/ (e.name = "welcome" /\ heir(e).name = "dashboard")
  BY <1>0, <1>1, NamesAre
<1>5. PICK p \in channels : p.id = s.category /\ (Kind(s.i) = "channel" => IsCategory(p, Under(s.i)))
  BY <1>1 DEF Holds, HasCategory
<1>6. ASSUME NEW e \in channels, NEW u \in Sections, IsCategory(e, u) PROVE IsCategory(heir(e), u)
  <2>1. SUFFICES ASSUME e = c PROVE IsCategory(d, u)
    BY <1>6
  <2>2. c.name = u /\ c.kind = "category" /\ c.access = SU!CategoryAccess(u)
    BY <1>6, <2>1 DEF IsCategory
  <2>3. c.name = Name(s.i) /\ Kind(s.i) = "category"
    BY <1>1, <2>2, NamesSorted DEF Sections, ChannelNames
  <2>4. op = "access"
    BY <1>1, <1>2, <2>3
  <2> QED BY <1>0, <2>2, <2>3, <2>4 DEF IsCategory
<1>7. ASSUME NEW e \in channels, NEW i \in 1..24, Kind(i) = "channel", e.name = Name(i),
             Placed(channels, e, Under(i))
      PROVE  Placed(channels', heir(e), Under(i))
  <2>1. Under(i) \in Sections
    BY <1>7, NamesSorted
  <2>2. CASE e = c /\ op = "parent"
    <3>1. i = s.i /\ Kind(s.i) = "channel"
      BY <1>7, <2>2, FoundItem
    <3>2. heir(p) \in channels' /\ heir(p).id = d.parent /\ IsCategory(heir(p), Under(i))
      BY <1>0, <1>3, <1>5, <1>6, <2>1, <2>2, <3>1
    <3> QED BY <2>2, <3>2 DEF Placed
  <2>3. CASE ~(e = c /\ op = "parent")
    <3>1. heir(e).parent = e.parent
      BY <1>0, <2>3
    <3>2. PICK q \in channels : q.id = e.parent /\ IsCategory(q, Under(i))
      BY <1>7 DEF Placed
    <3>3. heir(q) \in channels' /\ heir(q).id = e.parent /\ IsCategory(heir(q), Under(i))
      BY <1>3, <1>6, <2>1, <3>2
    <3> HIDE DEF heir
    <3> QED BY <3>1, <3>3 DEF Placed
  <2> QED BY <2>2, <2>3
<1>8. ASSUME NEW e \in channels, NEW i \in 1..24, Kind(i) = "channel", e.name = Name(i),
             Placed(channels, e, Under(i)), e.kind = "text", e.access = SU!ChannelAccess(Under(i), Name(i))
      PROVE  heir(e).access = SU!ChannelAccess(Under(i), Name(i))
  <2>1. CASE e = c /\ op \in {"access", "lock"}
    <3>1. i = s.i /\ Kind(s.i) = "channel"
      BY <1>8, <2>1, FoundItem
    <3>2. CASE op = "access"
      BY <1>0, <2>1, <3>1, <3>2
    <3>3. CASE op = "lock"
      <4>1. ~SU!HasOverwrites(Under(i), Name(i))
        BY <1>1, <3>1, <3>3 DEF Last
      <4>2. SU!ChannelAccess(Under(i), Name(i)) = SU!CategoryAccess(Under(i))
        BY <1>8, <4>1, LockedAccess, NamesSorted
      <4>3. PICK q \in channels : q.id = c.parent /\ IsCategory(q, Under(i))
        BY <1>8, <2>1 DEF Placed
      <4> QED BY <1>0, <2>1, <3>3, <4>2, <4>3 DEF IsCategory
    <3> QED BY <2>1, <3>2, <3>3
  <2>2. CASE ~(e = c /\ op \in {"access", "lock"})
    BY <1>0, <1>8, <2>2
  <2> QED BY <2>1, <2>2
<1>9. ASSUME NEW e \in channels, e.name \in {"welcome", "dashboard"}, Loose(channels, e)
      PROVE  Loose(channels', heir(e))
  <2>1. \A q \in channels : q.name = "CREATOR" => heir(q) \in channels' /\ heir(q).id = q.id /\ heir(q).name = "CREATOR"
    BY <1>3, <1>4
  <2>2. CASE e = c /\ op = "parent"
    <3>1. s.i = 9
      <4>1. Kind(s.i) = "channel" /\ c.name = Name(s.i)
        BY <1>0, <1>1, <2>2
      <4>2. Name(s.i) = "dashboard"
        BY <1>1, <1>9, <2>2, <4>1, NotWelcome
      <4> QED BY <1>1, <2>2, <4>1, <4>2, IndexOfName
    <3>2. p.name = "CREATOR"
      BY <1>5, <3>1, KindsAre, UndersAre DEF IsCategory
    <3> QED BY <1>0, <1>5, <2>1, <2>2, <3>2 DEF Loose
  <2>3. CASE ~(e = c /\ op = "parent")
    <3>1. heir(e).parent = e.parent
      BY <1>0, <2>3
    <3> HIDE DEF heir
    <3> QED BY <1>9, <2>1, <3>1 DEF Loose
  <2> QED BY <2>2, <2>3
<1> HIDE DEF heir
<1>10. ASSUME NEW e \in channels PROVE Inherits(channels, channels', e, heir(e))
  BY <1>3, <1>4, <1>6, <1>7, <1>8, <1>9 DEF Inherits
<1> QED BY <1>3, <1>10 DEF Heirs

\* What was found is renamed, moved, given its topic or its permissions.
LEMMA ChangeStep ==
  ASSUME Complete, NEW r \in Runs, SU!Change(r)
  PROVE  Complete'
<1> DEFINE s == setup[r]
<1>0. UNCHANGED <<guildRoles, nextChannel, disturbed>> /\ Works(s)
  BY ChangeIs
<1>1. PICK op \in SU!Ops, c \in channels :
      \E d \in [id : 1..(nextChannel - 1), name : SU!Names, kind : SU!Kinds, parent : Nat,
                topic : BOOLEAN, access : SU!Access] :
        /\ Changes(s, op, c, d)
        /\ channels' = (channels \ {c}) \cup {d}
        /\ setup' = [setup EXCEPT ![r] = SU!Advance(SU!Done(r, op))]
  BY ChangeIs
<1>2. PICK d \in [id : 1..(nextChannel - 1), name : SU!Names, kind : SU!Kinds, parent : Nat,
                  topic : BOOLEAN, access : SU!Access] :
        /\ Changes(s, op, c, d)
        /\ channels' = (channels \ {c}) \cup {d}
        /\ setup' = [setup EXCEPT ![r] = SU!Advance(SU!Done(r, op))]
  BY <1>1
<1> DEFINE u == SU!Done(r, op)
           t == SU!Advance(u)
<1>3. /\ s \in SU!Invocation /\ s.found < nextChannel /\ s.category < nextChannel
      /\ s.found \in Nat /\ s.category \in Nat
      /\ Fit(channels, nextChannel, s) /\ s.i \in Scope /\ s.i \in 1..24 /\ nextChannel \in Nat /\ ServerTyped
      /\ Loosely(channels)
      /\ r \notin disturbed => Begun(guildRoles, channels, s) /\ Holds(channels, s)
  BY <1>0, AtWork DEF Fit
<1>4. /\ u \in SU!Invocation /\ u.stage = s.stage /\ u.i = s.i /\ u.found = s.found
      /\ u.category = s.category /\ u.bound = s.bound /\ u.todo = s.todo \ {op}
      /\ t = IF u.stage = "set" /\ u.todo = {} THEN SU!Advance(u) ELSE u
  BY <1>3, DoneIs
<1>5. setup' = [setup EXCEPT ![r] = t]
  BY <1>2
<1> HIDE DEF t, u
<1>6. ServerTyped' /\ Loosely(channels') /\ Bred(channels, channels', nextChannel)
  BY <1>0, <1>2, <1>3, ChangeKeeps
<1>7. r \notin disturbed => Heirs(channels, channels')
  BY <1>0, <1>2, <1>3, ChangeHeirs
<1>8. Fit(channels', nextChannel, s)
  BY <1>0, <1>3, <1>6, NamesKeep
<1>9. /\ s.i > 4 /\ Finds(s) /\ Owns(s) /\ Kind(s.i) \in {"category", "channel"}
      /\ c.name = Name(s.i) \/ ("rename" \in s.todo /\ c.name = "welcome")
      /\ Kind(s.i) = "category" =>
           s.stage = "set" /\ s.todo = {"access"} /\ c.kind = "category" /\ s.found = s.category
      /\ s.stage = "adopt" => Kind(s.i) = "channel" /\ op \in {"rename", "parent", "retitle"}
      /\ s.stage = "set" => op \in {"topic", "access", "lock"} /\ "rename" \notin s.todo /\ "parent" \notin s.todo
      /\ s.stage \in {"adopt", "set"}
      /\ s.stage = "set" /\ Kind(s.i) = "channel" =>
           /\ op = "topic" => s.todo = {"topic", Last(s.i)}
           /\ op # "topic" => s.todo = {op} /\ op = Last(s.i)
  BY <1>0, <1>2, <1>3, ChangeFits
<1>10. /\ op \in s.todo /\ "create" \notin s.todo
       /\ c.id = s.found /\ d.id = c.id /\ d.kind = c.kind
       /\ d.name = IF op = "rename" THEN Name(s.i) ELSE c.name
       /\ d.parent = IF op = "parent" THEN s.category ELSE c.parent
       /\ op = "access" => d.access = IF Kind(s.i) = "category" THEN SU!CategoryAccess(Name(s.i))
                                                                ELSE SU!ChannelAccess(Under(s.i), Name(s.i))
       /\ op = "lock" => \A p \in channels : p.id = c.parent => d.access = p.access
  BY <1>2 DEF Changes
<1>11. d \in channels' /\ \A e \in channels' : e.id = s.found => e = d
  BY <1>2, <1>6, <1>10 DEF ServerTyped, Numbered
<1>12. c.id > 0 /\ s.found # 0 /\ Numbered(channels)
  BY <1>1, <1>3, <1>10, IdsPositive DEF ServerTyped
<1>13. InSection(channels', u)
  BY <1>4, <1>8, <1>9 DEF Fit, Names, InSection
<1>14. ASSUME r \notin disturbed PROVE Begun(guildRoles, channels', u) /\ Holds(channels', s)
  <2>1. Heirs(channels, channels')
    BY <1>7, <1>14
  <2>2. Begun(guildRoles, channels', s)
    BY <1>3, <1>14, <2>1, BegunKeeps
  <2>3. Holds(channels', s)
    BY <1>0, <1>3, <1>14, <2>1, HoldsKeep, IdsPositive
  <2> QED BY <1>4, <2>2, <2>3 DEF Begun
<1>15. ASSUME r \notin disturbed
       PROVE  /\ HasCategory(channels', u)
              /\ Kind(s.i) = "channel" =>
                   /\ s.stage = "set" => d.kind = "text"
                   /\ "parent" \notin s.todo /\ d.kind = "text" => Placed(channels', d, Under(s.i))
                   /\ s.i = 9 => Loose(channels', d)
  <2>1. HasCategory(channels', s) /\ HasFound(channels', s)
    BY <1>9, <1>10, <1>12, <1>14, <1>15 DEF Holds
  <2> QED BY <1>4, <1>11, <2>1 DEF HasCategory, HasFound
<1>16. CASE u.stage = "set" /\ u.todo = {}
  <2>1. op \in {"access", "lock"} /\ (Kind(s.i) = "channel" => op = Last(s.i))
    <3>1. Last(s.i) # "topic"
      BY DEF Last
    <3>2. CASE Kind(s.i) = "category"
      BY <1>9, <1>10, <3>2
    <3>3. CASE Kind(s.i) = "channel"
      BY <1>4, <1>9, <1>16, <3>1, <3>3
    <3> QED BY <1>9, <3>2, <3>3
  <2>2. t = SU!Advance(u)
    BY DEF t
  <2>3. t \in Ended \cup SU!Invocation
    BY <1>3, <1>4, <1>16, <2>2, AdvanceIs DEF Ended
  <2>4. Works(t) => Fit(channels', nextChannel, t)
    BY <1>3, <1>4, <1>13, <1>16, <2>2, GoesOnFit
  <2>5. ASSUME r \notin disturbed PROVE Calm(guildRoles, channels', t)
    <3>1. ASSUME Kind(s.i) = "category" PROVE d.id = u.category /\ IsCategory(d, Name(s.i))
      BY <1>4, <1>9, <1>10, <2>1, <3>1 DEF IsCategory, Last
    <3>2. ASSUME Kind(s.i) = "channel" PROVE Standing(channels', d, s.i)
      <4>1. d.kind = "text" /\ d.name = Name(s.i) /\ Placed(channels', d, Under(s.i))
        BY <1>4, <1>9, <1>10, <1>15, <1>16, <2>1, <2>5, <3>2
      <4>2. d.access = SU!ChannelAccess(Under(s.i), Name(s.i))
        <5>1. CASE op = "access"
          BY <1>10, <3>2, <5>1
        <5>2. CASE op = "lock"
          <6>1. ~SU!HasOverwrites(Under(s.i), Name(s.i))
            BY <2>1, <3>2, <5>2 DEF Last
          <6>2. SU!ChannelAccess(Under(s.i), Name(s.i)) = SU!CategoryAccess(Under(s.i))
            BY <1>3, <3>2, <6>1, LockedAccess, NamesSorted
          <6>3. HasFound(channels, s)
            BY <1>3, <1>9, <1>10, <1>12, <2>5 DEF Holds
          <6>4. Placed(channels, c, Under(s.i))
            BY <1>1, <1>4, <1>9, <1>10, <1>12, <1>16, <3>2, <6>3 DEF HasFound, Numbered
          <6> QED BY <1>10, <5>2, <6>2, <6>4 DEF Placed, IsCategory
        <5> QED BY <2>1, <5>1, <5>2
      <4> QED BY <4>1, <4>2 DEF Standing
    <3>3. Finished(guildRoles, channels', u)
      <4>1. u.i = s.i /\ s.i > 4 /\ d \in channels'
        BY <1>4, <1>9, <1>11
      <4>2. ~(u.i < 4) /\ u.i # 4
        BY <1>3, <4>1
      <4>3. Kind(u.i) = "category" => \E e \in channels' : e.id = u.category /\ IsCategory(e, Name(u.i))
        BY <3>1, <4>1
      <4>4. Kind(u.i) = "channel" => HasCategory(channels', u) /\ \E e \in channels' : Standing(channels', e, u.i)
        BY <1>15, <2>5, <3>2, <4>1
      <4> QED BY <4>2, <4>3, <4>4 DEF Finished
    <3> QED BY <1>3, <1>4, <1>14, <1>16, <2>2, <2>5, <3>3, GoesOnCalm
  <2>6. /\ Works(t) => Works(setup[r]) /\ Fit(channels', nextChannel', t)
        /\ r \notin disturbed => Calm(guildRoles', channels', t)
        /\ r \notin disturbed \/ ~Works(setup[r]) =>
             guildRoles \subseteq guildRoles' /\ Heirs(channels, channels')
        /\ nextChannel <= nextChannel' /\ disturbed' = disturbed
    BY <1>0, <1>3, <1>7, <2>4, <2>5
  <2> QED BY <1>5, <1>6, <2>3, <2>6, OneStep
<1>17. CASE ~(u.stage = "set" /\ u.todo = {})
  <2>1. t = u /\ Kind(s.i) = "channel" /\ op # "create"
    BY <1>4, <1>9, <1>10, <1>17
  <2>2. Last(s.i) \in {"access", "lock"}
    BY DEF Last
  <2>3. Shape(u)
    <3>1. CASE s.stage = "adopt"
      BY <1>3, <1>4, <2>1, <3>1 DEF Fit, Shape
    <3>2. CASE s.stage = "set"
      <4>1. u.todo = {Last(s.i)}
        BY <1>4, <1>9, <1>17, <2>1, <2>2, <3>2
      <4> QED BY <1>3, <1>4, <1>9, <2>1, <2>2, <3>2, <4>1 DEF Fit, Shape
    <3> QED BY <1>9, <3>1, <3>2
  <2>4. FoundNamed(channels', u)
    BY <1>4, <1>9, <1>10, <1>11, <2>1 DEF FoundNamed
  <2>5. Fit(channels', nextChannel, u)
    BY <1>3, <1>4, <1>13, <2>3, <2>4 DEF Fit, Names
  <2>6. ASSUME r \notin disturbed PROVE Calm(guildRoles, channels', u)
    <3>1. "parent" \notin u.todo /\ d.kind = "text" => Placed(channels', d, Under(s.i))
      <4>1. CASE op = "parent"
        BY <1>4, <1>10, <1>15, <2>1, <2>6, <4>1 DEF HasCategory, Placed
      <4>2. CASE op # "parent"
        BY <1>4, <1>15, <2>1, <2>6, <4>2
      <4> QED BY <4>1, <4>2
    <3>2. HasFound(channels', u)
      BY <1>4, <1>10, <1>11, <1>15, <2>1, <2>6, <3>1 DEF HasFound
    <3> QED BY <1>4, <1>9, <1>12, <1>14, <1>15, <2>6, <3>2 DEF Calm, Holds
  <2> QED BY <1>0, <1>3, <1>4, <1>5, <1>6, <1>7, <2>1, <2>5, <2>6, OneStep
<1> QED BY <1>16, <1>17

\* Changes that nobody at work made: all that is needed is that what is found
\* keeps its names.
LEMMA PeopleChange ==
  ASSUME Complete, UNCHANGED <<nextChannel, setup>>, disturbed' = Runs,
         ServerTyped', Loosely(channels'), Bred(channels, channels', nextChannel)
  PROVE  Complete'
<1>1. setup \in [Runs -> Ended \cup SU!Invocation] /\ nextChannel \in Nat
  BY TypeParts DEF Complete, ServerTyped
<1>2. SU!TypeOK'
  BY <1>1 DEF SU!TypeOK, ServerTyped, Ended, Numbered
<1>3. ASSUME NEW q \in Runs, Works(setup[q]) PROVE Fit(channels', nextChannel, setup[q])
  <2>1. setup[q].found \in Nat /\ setup[q].category \in Nat /\ Fit(channels, nextChannel, setup[q])
    BY <1>3, AtWork
  <2> QED BY <1>1, <1>3, <2>1, NamesKeep
<1> QED BY <1>2, <1>3 DEF Complete

\* Channels that keep id, name and kind, and are moved nowhere but out.
LEMMA Reshaped ==
  ASSUME ServerTyped, Loosely(channels), UNCHANGED <<guildRoles, nextChannel>>, Numbered(channels'),
         \A d \in channels' : \E c \in channels :
           \/ d = c
           \/ d = [c EXCEPT !.parent = 0]
           \/ d = [c EXCEPT !.access = SU!Open]
  PROVE  ServerTyped' /\ Loosely(channels') /\ Bred(channels, channels', nextChannel)
<1> DEFINE T == [id : 1..(nextChannel - 1), name : SU!Names, kind : SU!Kinds, parent : Nat,
                 topic : BOOLEAN, access : SU!Access]
<1>1. ASSUME NEW d \in channels'
      PROVE  d \in T /\ \E c \in channels : /\ d.id = c.id /\ d.kind = c.kind /\ d.name = c.name
                                            /\ d.parent = c.parent \/ d.parent = 0
  <2>1. PICK c \in channels : d = c \/ d = [c EXCEPT !.parent = 0] \/ d = [c EXCEPT !.access = SU!Open]
    OBVIOUS
  <2>2. c \in T
    BY DEF ServerTyped
  <2>3. SU!Open \in SU!Access /\ 0 \in Nat
    BY AccessTyped
  <2>4. d \in T /\ d.id = c.id /\ d.kind = c.kind /\ d.name = c.name /\ (d.parent = c.parent \/ d.parent = 0)
    BY <2>1, <2>2, <2>3
  <2> QED BY <2>4
<1>2. ServerTyped'
  BY <1>1 DEF ServerTyped
<1>3. Loosely(channels')
  BY <1>1 DEF Loosely
<1>4. Bred(channels, channels', nextChannel)
  BY <1>1 DEF Bred
<1> QED BY <1>2, <1>3, <1>4

\* People change the server, and every invocation counts as disturbed.
LEMMA EditStep ==
  ASSUME Complete, SU!Edit
  PROVE  Complete'
<1>0. /\ ServerTyped /\ Numbered(channels) /\ Loosely(channels)
      /\ UNCHANGED <<nextChannel, setup>> /\ disturbed' = Runs
  BY TypeParts DEF Complete, ServerTyped, SU!Edit
<1>1. CASE /\ guildRoles' = guildRoles
           /\ \E c \in channels :
                channels' = {IF d.parent = c.id THEN [d EXCEPT !.parent = SU!NoId] ELSE d : d \in channels \ {c}}
  <2>1. \A d \in channels' : \E c \in channels : d = c \/ d = [c EXCEPT !.parent = 0]
    BY <1>1 DEF SU!NoId
  <2>2. Numbered(channels')
    <3>1. PICK x \in channels :
            channels' = {IF d.parent = x.id THEN [d EXCEPT !.parent = 0] ELSE d : d \in channels \ {x}}
      BY <1>1 DEF SU!NoId
    <3> DEFINE out(d) == IF d.parent = x.id THEN [d EXCEPT !.parent = 0] ELSE d
    <3>2. \A d \in channels : out(d).id = d.id
      BY <1>0 DEF ServerTyped
    <3> HIDE DEF out
    <3>3. \A d, e \in channels : out(d).id = out(e).id => out(d) = out(e)
      BY <1>0, <3>2 DEF Numbered
    <3>4. channels' = {out(d) : d \in channels \ {x}}
      BY <3>1 DEF out
    <3> QED BY <3>3, <3>4 DEF Numbered
  <2> QED BY <1>0, <1>1, <2>1, <2>2, Reshaped, PeopleChange
<1>2. CASE /\ guildRoles' = guildRoles
           /\ \E c \in channels : \/ channels' = (channels \ {c}) \cup {[c EXCEPT !.parent = SU!NoId]}
                                  \/ channels' = (channels \ {c}) \cup {[c EXCEPT !.access = SU!Open]}
  <2>1. PICK c \in channels : \E d \in {[c EXCEPT !.parent = 0], [c EXCEPT !.access = SU!Open]} :
          channels' = (channels \ {c}) \cup {d}
    BY <1>2 DEF SU!NoId
  <2> PICK d \in {[c EXCEPT !.parent = 0], [c EXCEPT !.access = SU!Open]} :
        channels' = (channels \ {c}) \cup {d}
    BY <2>1
  <2>2. d.id = c.id
    BY <1>0 DEF ServerTyped
  <2>3. Numbered(channels')
    BY <1>0, <2>2 DEF Numbered
  <2>4. \A e \in channels' : \E x \in channels :
           e = x \/ e = [x EXCEPT !.parent = 0] \/ e = [x EXCEPT !.access = SU!Open]
    OBVIOUS
  <2> QED BY <1>0, <1>2, <2>3, <2>4, Reshaped, PeopleChange
<1>3. CASE /\ channels' = channels
           /\ \E x \in guildRoles : guildRoles' = (guildRoles \ {x}) \cup {[x EXCEPT !.above = TRUE]}
  <2>1. guildRoles' \subseteq [id : 1..(nextChannel - 1), name : SU!Names, above : BOOLEAN]
    BY <1>0, <1>3 DEF ServerTyped
  <2>2. ServerTyped'
    BY <1>0, <1>3, <2>1 DEF ServerTyped
  <2> QED BY <1>0, <1>3, <2>2, SameBred, PeopleChange
<1> QED BY <1>1, <1>2, <1>3 DEF SU!Edit

\* The process dies: nobody is at work.
LEMMA CrashStep ==
  ASSUME Complete, SU!Crash
  PROVE  Complete'
<1>0. /\ setup' = [q \in Runs |-> IF Works(setup[q]) THEN SU!Off ELSE setup[q]]
      /\ UNCHANGED <<guildRoles, channels, nextChannel, disturbed>>
  BY DEF SU!Crash, SU!server, SU!Busy, Works
<1>1. SU!TypeOK /\ setup \in [Runs -> Ended \cup SU!Invocation] /\ Loosely(channels)
  BY TypeParts DEF Complete
<1>2. SU!Off \in Ended /\ ~Works(SU!Off) /\ \A R, C : Calm(R, C, SU!Off)
  <2>1. SU!Off.stage = "off" /\ SU!Off \in Ended
    BY DEF SU!Off, Ended
  <2> QED BY <2>1 DEF Works, Calm
<1>3. setup' \in [Runs -> Ended \cup SU!Invocation]
  BY <1>0, <1>1, <1>2
<1>4. \A q \in Runs : ~Works(setup'[q]) /\ (setup'[q] = SU!Off \/ setup'[q] = setup[q])
  BY <1>0, <1>2
<1>5. SU!TypeOK'
  BY <1>0, <1>1, <1>3 DEF SU!TypeOK, Ended
<1>6. \A q \in Runs : q \notin disturbed => Calm(guildRoles, channels, setup'[q])
  BY <1>2, <1>4 DEF Complete
<1> QED BY <1>0, <1>1, <1>4, <1>5, <1>6 DEF Complete

\* The operators that the two modules take from FiniteSets are the same.
LEMMA LegacyCount == SU!Cardinality(Legacy) = Cardinality(Legacy)
BY DEF SU!Cardinality, Cardinality

LEMMA LegacyFinite == SU!IsFiniteSet(Legacy) <=> IsFiniteSet(Legacy)
BY DEF SU!IsFiniteSet, IsFiniteSet

\* Initially, and in every step.
LEMMA SetUpInit ==
  ASSUME SU!ProvisionerConstants, SU!Init
  PROVE  Complete
<1> DEFINE N == Cardinality(Legacy)
<1>1. N \in Nat
  BY FS_CardinalityType, LegacyFinite DEF SU!ProvisionerConstants
<1> HIDE DEF N
<1>2. PICK order \in [Legacy -> 1..N] :
        /\ \A x, y \in Legacy : order[x] = order[y] => x = y
        /\ channels = {[id |-> order[l], name |-> l.name, kind |-> l.kind, parent |-> 0,
                        topic |-> FALSE, access |-> SU!Open] : l \in Legacy}
  BY LegacyCount DEF SU!Init, N, SU!NoId
<1>3. /\ guildRoles = {} /\ nextChannel = N + 1 /\ disturbed = {}
      /\ setup = [q \in Runs |-> SU!Off]
  BY LegacyCount DEF SU!Init, N
<1>4. nextChannel \in Nat \ {0} /\ nextChannel - 1 = N
  BY <1>1, <1>3
<1> DEFINE made(l) == [id |-> order[l], name |-> l.name, kind |-> l.kind, parent |-> 0,
                       topic |-> FALSE, access |-> SU!Open]
<1>5. ASSUME NEW l \in Legacy
      PROVE  /\ made(l).id = order[l] /\ made(l).parent = 0
             /\ made(l) \in [id : 1..N, name : SU!Names, kind : SU!Kinds, parent : Nat,
                             topic : BOOLEAN, access : SU!Access]
  <2>1. l.name \in SU!Names /\ l.kind \in SU!Kinds
    BY DEF SU!Names, SU!ProvisionerConstants
  <2>2. SU!Open \in SU!Access /\ order[l] \in 1..N
    BY <1>2, AccessTyped
  <2> QED BY <2>1, <2>2
<1>6. channels = {made(l) : l \in Legacy}
  BY <1>2
<1> HIDE DEF made
<1>7. Numbered(channels)
  <2>1. \A x, y \in Legacy : made(x).id = made(y).id => made(x) = made(y)
    BY <1>2, <1>5
  <2> QED BY <1>6, <2>1 DEF Numbered
<1>8. ServerTyped
  BY <1>3, <1>4, <1>5, <1>6, <1>7 DEF ServerTyped
<1>9. Loosely(channels)
  BY <1>5, <1>6 DEF Loosely
<1>10. SU!Off \in Ended /\ ~Works(SU!Off) /\ Calm(guildRoles, channels, SU!Off)
  <2>1. SU!Off.stage = "off" /\ SU!Off \in Ended
    BY DEF SU!Off, Ended
  <2> QED BY <2>1 DEF Works, Calm
<1>11. SU!TypeOK
  BY <1>3, <1>8, <1>10, TypeParts
<1> QED BY <1>3, <1>9, <1>10, <1>11 DEF Complete

LEMMA SetUpStep ==
  ASSUME "lock" \notin Faulty, Complete, [SU!Next]_SU!vars
  PROVE  Complete'
<1>1. CASE SU!Next
  <2>1. ASSUME NEW r \in Runs, SU!Refuse(r) PROVE Complete'
    BY <2>1, RefuseStep
  <2>2. ASSUME NEW r \in Runs, SU!Start(r) PROVE Complete'
    BY <2>2, StartStep
  <2>3. ASSUME NEW r \in Runs, SU!MemberMissing(r) PROVE Complete'
    BY <2>3, MemberMissingStep
  <2>4. ASSUME NEW r \in Runs, SU!BindBotRole(r) PROVE Complete'
    BY <2>4, BindBotRoleStep
  <2>5. ASSUME NEW r \in Runs, SU!FindRole(r) PROVE Complete'
    BY <2>5, FindRoleStep
  <2>6. ASSUME NEW r \in Runs, SU!CheckHierarchy(r) PROVE Complete'
    BY <2>6, CheckHierarchyStep
  <2>7. ASSUME NEW r \in Runs, SU!FindCategory(r) PROVE Complete'
    BY <2>7, FindCategoryStep
  <2>8. ASSUME NEW r \in Runs, SU!FindChannel(r) PROVE Complete'
    BY <2>8, FindChannelStep
  <2>9. ASSUME NEW r \in Runs, SU!Adopt(r) PROVE Complete'
    BY <2>9, AdoptStep
  <2>10. ASSUME NEW r \in Runs, SU!Create(r) PROVE Complete'
    BY <2>10, CreateStep
  <2>11. ASSUME NEW r \in Runs, SU!Change(r) PROVE Complete'
    BY <2>11, ChangeStep
  <2>12. ASSUME NEW r \in Runs, SU!Fails(r) PROVE Complete'
    BY <2>12, FailsStep
  <2>13. CASE SU!Crash
    BY <2>13, CrashStep
  <2>14. CASE SU!Edit
    BY <2>14, EditStep
  <2> QED BY <1>1, <2>1, <2>2, <2>3, <2>4, <2>5, <2>6, <2>7, <2>8, <2>9, <2>10, <2>11, <2>12, <2>13, <2>14
          DEF SU!Next
<1>2. CASE UNCHANGED SU!vars
  <2>1. UNCHANGED <<guildRoles, channels, nextChannel, setup, disturbed>>
    BY <1>2 DEF SU!vars
  <2>2. SU!TypeOK'
    BY <2>1 DEF Complete, SU!TypeOK
  <2> QED BY <2>1, <2>2 DEF Complete
<1> QED BY <1>1, <1>2

\* The invariant says what the report promises.
LEMMA CompleteIsReady == Complete => SU!ReadyIsComplete
<1> SUFFICES ASSUME Complete, NEW r \in Runs, setup[r].stage = "ready", r \notin disturbed,
                    NEW item \in SU!ItemSet
             PROVE  CASE item.kind = "role"      -> \E x \in guildRoles : x.name = item.name /\ ~x.above
                      [] item.kind = "hierarchy" -> TRUE
                      [] item.kind = "category"  ->
                           \E c \in channels : SU!IsAt(c, item) /\ c.access = SU!CategoryAccess(item.name)
                      [] item.kind = "channel"   ->
                           \E c \in channels : SU!IsAt(c, item) /\ c.access = SU!ChannelAccess(item.under, item.name)
  BY DEF SU!ReadyIsComplete
<1>1. PICK i \in Scope : i \in 1..24 /\ item = SU!Items[i]
  BY ItemCount DEF SU!ItemSet, Scope
<1>2. item.kind = Kind(i) /\ item.name = Name(i) /\ item.under = Under(i)
  BY <1>1 DEF Kind, Name, Under
<1>3. Stands(guildRoles, channels, i)
  BY <1>1 DEF Complete, Calm
<1>4. Kind(i) \in {"role", "hierarchy", "category", "channel"}
  BY <1>1, KindsOrdered
<1>5. CASE Kind(i) = "role"
  BY <1>2, <1>3, <1>5 DEF Stands
<1>6. CASE Kind(i) = "hierarchy"
  BY <1>2, <1>6
<1>7. CASE Kind(i) = "category"
  BY <1>2, <1>3, <1>7 DEF Stands, IsCategory, SU!IsAt
<1>8. CASE Kind(i) = "channel"
  <2>1. PICK c \in channels : Standing(channels, c, i)
    BY <1>3, <1>8 DEF Stands
  <2>2. PICK p \in channels : p.id = c.parent /\ IsCategory(p, Under(i))
    BY <2>1 DEF Standing, Placed
  <2>3. SU!IsAt(c, item)
    BY <1>2, <1>8, <2>1, <2>2 DEF SU!IsAt, Standing, IsCategory
  <2> QED BY <1>2, <1>8, <2>1, <2>3 DEF Standing
<1> QED BY <1>4, <1>5, <1>6, <1>7, <1>8

\* An invocation that reports "Ready", while nobody changed the server since it began,
\* leaves every role, category and channel in scope, in its place and seen by exactly
\* those it is declared for, however many invocations overlap, fail or die, unless
\* Discord refuses to lock a channel to its category: server.provisioner.js swallows
\* that failure and the summary of setup.js says "Ready" all the same.
THEOREM ReadyComplete ==
  ASSUME "lock" \notin Faulty
  PROVE  SU!Spec => []ReadyIsComplete
<1>1. SU!Init => Complete
  BY SetUpInit, PlatformConstants
<1>2. Complete /\ [SU!Next]_SU!vars => Complete'
  BY SetUpStep
<1>3. Complete => ReadyIsComplete
  BY CompleteIsReady DEF ReadyIsComplete
<1> QED BY <1>1, <1>2, <1>3, PTL DEF SU!Spec

=============================================================================
