------------------------- MODULE CreatorPanelProofs -------------------------
(***************************************************************************)
(* Proofs about CreatorPanel, for every set of creators, campaigns,        *)
(* messages and presses, every balance and every scene.                    *)
(***************************************************************************)
EXTENDS CreatorPanel, Sums, SequenceTheorems, TLAPS

(***************************************************************************)
(* The router.  Only the form with an amount makes a draft; only the       *)
(* picker of a campaign is closed by its answer, which is a form; and no   *)
(* handler draws a picker.                                                 *)
(***************************************************************************)

Routed(b, h) ==
  /\ h.does = "draft" => b = "amount_form"
  /\ h.does = "picked_clip" => b = "pick"
  /\ b = "pick" => h.first = "form"
  /\ h.shows \notin {"picker", "closed"}

DashboardIds ==
  {"home", "refresh", "dash_open", "campaigns", "pub_campaigns", "myClips", "pub_clips", "earned",
   "pub_earnings", "hub", "pub_payouts", "profileView", "pub_profile", "detail", "join", "profile",
   "profileSetup", "backCampaigns", "backHub"}
PayoutIds ==
  {"payout", "request", "pub_request", "amount_form", "upload", "review", "submitDraft", "drop", "back",
   "profileEdit", "profile_form", "cancel", "confirm", "keep"}
EarningsIds ==
  {"earnings", "earningsCampaigns", "campaignEarnings", "earnings_refresh", "campaignEarnings_refresh"}
StatisticsIds ==
  {"stats", "pub_stats", "statsCampaigns", "statsPlatforms", "statsChannels", "statsClips", "statsClip",
   "stats_refresh", "statsPlatforms_refresh", "statsChannels_refresh", "statsClip_refresh"}
CampaignIds == {"allCampaigns", "card", "pub_submit", "pick", "clip_form"}
CommandIds  == {"cmd_campaigns", "cmd_dashboard", "cmd_earnings", "cmd_payout", "cmd_statistics",
                "cmd_submissions", "cmd_submit"}

\* A family's route of b is as Routed says, and knows b if b is one of ids.
Known(b, ids, h) == Routed(b, h) /\ (b \in ids => h.shows # "unrecognized")

LEMMA DashboardKnown ==
  ASSUME NEW b, b # "pick"
  PROVE  Known(b, DashboardIds, DashboardRoute(b))
  BY DEF Known, Routed, DashboardIds, DashboardRoute, Unrecognized, Shows, Either, Tries, Does, Asks, Says, Anyone,
         handleCreatorDashboard, handleDashboardCampaigns, handleDashboardCampaignDetail,
         handleDashboardCampaignJoin, handleDashboardMyClips, handleDashboardEarnings,
         handleDashboardPayout, handleDashboardProfile, handlePayoutProfileView, handleDashboardBack,
         handlePayoutProfileSetup

LEMMA PayoutKnown ==
  ASSUME NEW b, b # "pick"
  PROVE  Known(b, PayoutIds \cup DashboardIds, PayoutRoute(b))
<1>1. CASE b \in PayoutIds
  BY <1>1 DEF Known, Routed, PayoutIds, PayoutRoute, Shows, Tries, Does, Asks, Says, Clears,
         handlePayoutRefresh, handlePayoutRequestButton, handlePayoutModalSubmit,
         handlePayoutEvidenceUploadButton, handlePayoutEvidenceReviewButton,
         handlePayoutEvidenceSubmitButton, handlePayoutEvidenceCancelButton,
         handlePayoutEvidenceBackButton, handlePayoutProfileButton, handlePayoutProfileModalSubmit,
         handlePayoutCancelButton, handlePayoutCancelConfirm, handlePayoutCancelKeep
<1>2. CASE b \notin PayoutIds
  <2>1. PayoutRoute(b) = DashboardRoute(b)
    BY <1>2 DEF PayoutIds, PayoutRoute
  <2> QED BY <1>2, <2>1, DashboardKnown DEF Known
<1> QED BY <1>1, <1>2

LEMMA EarningsKnown ==
  ASSUME NEW b, b # "pick"
  PROVE  Known(b, EarningsIds \cup PayoutIds \cup DashboardIds, EarningsRoute(b))
<1>1. CASE b \in EarningsIds
  BY <1>1 DEF Known, Routed, EarningsIds, EarningsRoute, Shows, Tries, handleEarningsOverview,
         handleEarningsCampaignsList, handleEarningsCampaignSelect, handleEarningsRefresh
<1>2. CASE b \notin EarningsIds
  <2>1. EarningsRoute(b) = PayoutRoute(b)
    BY <1>2 DEF EarningsIds, EarningsRoute
  <2> QED BY <1>2, <2>1, PayoutKnown DEF Known
<1> QED BY <1>1, <1>2

LEMMA StatisticsKnown ==
  ASSUME NEW b, b # "pick"
  PROVE  Known(b, StatisticsIds \cup EarningsIds \cup PayoutIds \cup DashboardIds, StatisticsRoute(b))
<1>1. CASE b \in StatisticsIds
  BY <1>1 DEF Known, Routed, StatisticsIds, StatisticsRoute, Shows, Either, Tries, handleStatsOverview,
         handleStatsCampaignsList, handleStatsPlatforms, handleStatsChannels, handleStatsClipsList,
         handleStatsClipSelect, handleStatsRefresh
<1>2. CASE b \notin StatisticsIds
  <2>1. StatisticsRoute(b) = EarningsRoute(b)
    BY <1>2 DEF StatisticsIds, StatisticsRoute
  <2> QED BY <1>2, <2>1, EarningsKnown DEF Known
<1> QED BY <1>1, <1>2

LEMMA CampaignKnown ==
  ASSUME NEW b
  PROVE  Known(b, CampaignIds \cup StatisticsIds \cup EarningsIds \cup PayoutIds \cup DashboardIds,
               CampaignRoute(b))
<1>1. CASE b \in CampaignIds
  BY <1>1 DEF Known, Routed, CampaignIds, CampaignRoute, Shows, Asks, Anyone, handleCampaignList,
         handleCampaignSelect, handlePublicSubmitClip, handleCampaignSelectForSubmit,
         handleModalSubmitClip
<1>2. CASE b \notin CampaignIds
  <2>1. CampaignRoute(b) = StatisticsRoute(b) /\ b # "pick"
    BY <1>2 DEF CampaignIds, CampaignRoute
  <2> QED BY <1>2, <2>1, StatisticsKnown DEF Known
<1> QED BY <1>1, <1>2

\* Every custom id is routed, and so recognized.
LEMMA RouterKnows ==
  ASSUME NEW b \in CustomIds
  PROVE  Routed(b, Routes[b]) /\ Routes[b] # Unrecognized
<1>1. CASE b \in CommandIds
  BY <1>1 DEF Routed, Routes, Route, CommandIds, Shows, Asks, Unrecognized, executeCampaigns,
         executeDashboard, executeEarnings, executePayout, executeStatistics, executeSubmissions,
         executeSubmit
<1>2. CASE b \notin CommandIds
  <2>1. Routes[b] = CampaignRoute(b)
    BY <1>2 DEF CommandIds, Routes, Route
  <2>2. b \in CampaignIds \cup StatisticsIds \cup EarningsIds \cup PayoutIds \cup DashboardIds
    BY <1>2 DEF CommandIds, CustomIds, Commands, CampaignIds, StatisticsIds, EarningsIds, PayoutIds,
                DashboardIds
  <2>3. Routed(b, Routes[b]) /\ Routes[b].shows # "unrecognized"
    BY <2>1, <2>2, CampaignKnown DEF Known
  <2>4. Unrecognized.shows = "unrecognized"
    BY DEF Unrecognized, Shows
  <2> QED BY <2>3, <2>4
<1> QED BY <1>1, <1>2

(***************************************************************************)
(* The states                                                              *)
(***************************************************************************)

Stages     == {"do", "read", "create", "draw", "report"}
CardStates == {"joined", "joinable", "closed"}
Drafts     == [id : Nat \ {0}, amount : Amounts, wallet : Nat, evidence : BOOLEAN]
Decisions  == {"REQUESTED", "UNDER_REVIEW", "APPROVED", "PROCESSING", "COMPLETED", "FAILED", "REJECTED", "CANCELLED"}
Requests   == [by : Creators, amount : Amounts, draft : Nat \ {0}, wallet : Nat, status : Decisions,
               retried : BOOLEAN]

IsShaped(v) ==
  v = [screen |-> v.screen, by |-> v.by, public |-> v.public, item |-> v.item, state |-> v.state,
       amount |-> v.amount, listed |-> v.listed, nav |-> v.nav, note |-> v.note]

IsView(v) ==
  /\ IsShaped(v) /\ v.screen # "closed" /\ v.by \in Creators /\ v.public \in BOOLEAN
  /\ v.screen = "card" => v.state \in CardStates

\* What a handler draws: never a picker.
IsDrawing(v) == IsView(v) /\ v.screen # "picker"

IsWork(w) ==
  w = [stage |-> w.stage, by |-> w.by, on |-> w.on, do |-> w.do, item |-> w.item,
       amount |-> w.amount, acked |-> w.acked, view |-> w.view, taken |-> w.taken]

IsPress(w) ==
  /\ IsWork(w)
  /\ w.stage \in Stages /\ w.by \in Creators /\ w.on \in Messages /\ w.do \in CustomIds
  /\ w.do = "amount_form" => w.amount \in Amounts
  /\ w.stage = "create" => w.taken \in Drafts
  /\ w.stage = "draw" => IsDrawing(w.view)

IsForm(f) ==
  f = NoForm \/ (f = [kind |-> f.kind, item |-> f.item] /\ f.kind \in {"amount", "profile", "clip"})

CreatorsOK ==
  /\ member \in [Creators -> SUBSET Campaigns] /\ profile \in [Creators -> Nat]
  /\ open \subseteq Campaigns /\ active \subseteq Creators /\ waiting \subseteq Creators
DraftsOK   == draft \in [Creators -> Drafts \cup {NoDraft}] /\ drafts \in Nat
RequestsOK == requests \in Seq(Requests)
FormsOK ==
  /\ form = [u \in Creators |-> form[u]]
  /\ \A u \in Creators : IsForm(form[u])
MessagesOK ==
  /\ msgs = [m \in Messages |-> msgs[m]]
  /\ \A m \in Messages : msgs[m] # Closed => IsView(msgs[m])
PressesOK ==
  /\ work = [p \in Presses |-> work[p]]
  /\ \A p \in Presses : work[p] # Idle => IsPress(work[p])

\* A message that a press works on is there, and is not a picker: pickers only
\* lead to forms.
WorkedOn == \A p \in Presses : work[p] # Idle => IsDrawing(msgs[work[p].on])

Sound ==
  /\ scene \in Scenes
  /\ CreatorsOK /\ DraftsOK /\ RequestsOK /\ FormsOK /\ MessagesOK /\ PressesOK /\ WorkedOn

\* What a button does is known to the router, and no button sends a form.
Pressed(v, b) ==
  /\ b.do \in CustomIds /\ b.do # "amount_form"
  /\ b.do = "pick" <=> v.screen = "picker"

LEMMA Offered ==
  ASSUME NEW v, v.screen = "card" => v.state \in CardStates, NEW b \in Buttons(v)
  PROVE  Pressed(v, b)
<1>1. CASE v.screen \in {"home", "campaigns", "allCampaigns", "myClips", "earned", "profile", "profileView"}
  <2>1. b.do \in {"campaigns", "myClips", "stats", "earned", "hub", "profile", "refresh", "card", "home", "backHub"}
    BY <1>1 DEF Buttons, Plain, Each, buildCreatorDashboardActionRows, buildCampaignSelectMenu,
           buildDashboardPaginationRow, buildNavigationBackRow
  <2> QED BY <1>1, <2>1 DEF Pressed, CustomIds, Commands
<1>2. CASE v.screen = "card"
  <2>1. b.do \in {"detail", "allCampaigns", "pub_submit", "join", "backCampaigns", "home"}
    BY <1>2 DEF Buttons, Plain, Each, buildCampaignActionRow, buildNavigationBackRow, CardStates
  <2> QED BY <1>2, <2>1 DEF Pressed, CustomIds, Commands
<1>3. CASE v.screen \in {"stats", "statsCampaigns", "statsPlatforms", "statsChannels", "statsClips", "statsClip"}
  <2>1. b.do \in {"stats", "statsCampaigns", "statsPlatforms", "statsChannels", "statsClips", "statsClip",
                  "stats_refresh", "statsPlatforms_refresh", "statsChannels_refresh", "statsClip_refresh"}
    BY <1>3 DEF Buttons, Plain, Each, buildUserOverviewActionRow, buildCampaignPaginationRow,
           buildPlatformBackRow, buildChannelBackRow, buildClipPickerRow, buildClipPaginationRow,
           buildClipDetailActionRow
  <2> QED BY <1>3, <2>1 DEF Pressed, CustomIds, Commands
<1>4. CASE v.screen \in {"earnings", "earningsCampaigns", "campaignEarnings"}
  <2>1. b.do \in {"earningsCampaigns", "earnings_refresh", "campaignEarnings", "earnings", "campaignEarnings_refresh"}
    BY <1>4 DEF Buttons, Plain, Each, buildUserEarningsActionRow, buildEarningsCampaignSelectRow,
           buildEarningsCampaignBackRow, buildCampaignEarningsActionRow
  <2> QED BY <1>4, <2>1 DEF Pressed, CustomIds, Commands
<1>5. CASE v.screen \in {"hub", "payout", "submitted", "dropped", "missing", "saved", "confirm"}
  <2>1. b.do \in {"request", "profileView", "profileEdit", "profileSetup", "cancel", "home", "hub", "payout",
                  "confirm", "keep"}
    BY <1>5 DEF Buttons, Plain, Each, buildPayoutHubActionRows, buildPayoutActionRow,
           buildPayoutProfileSavedActionRow, buildPayoutCancelConfirmActionRow
  <2> QED BY <1>5, <2>1 DEF Pressed, CustomIds, Commands
<1>6. CASE v.screen \in {"instructions", "waiting", "received", "review"}
  <2>1. b.do \in {"upload", "drop", "review", "submitDraft", "back"}
    BY <1>6 DEF Buttons, Plain, Each, buildPayoutEvidenceActionRow, buildPayoutEvidenceReceivedActionRow,
           buildPayoutReviewActionRow
  <2> QED BY <1>6, <2>1 DEF Pressed, CustomIds, Commands
<1>7. CASE v.screen = "picker"
  <2>1. b.do = "pick"
    BY <1>7 DEF Buttons, Each, buildCampaignPickerForSubmit
  <2> QED BY <1>7, <2>1 DEF Pressed, CustomIds, Commands
<1> QED BY <1>1, <1>2, <1>3, <1>4, <1>5, <1>6, <1>7 DEF Buttons

(***************************************************************************)
(* The parts of a step                                                     *)
(***************************************************************************)

\* What views are made of.
LEMMA ViewIsView ==
  ASSUME NEW screen, screen \notin {"closed", "card"}, NEW u \in Creators
  PROVE  IsView(View(screen, u)) /\ View(screen, u).screen = screen
  BY DEF View, IsView, IsShaped

\* A view that is edited is a view.
Same(v, w) == IsView(w) /\ w.screen = v.screen

LEMMA Edited ==
  ASSUME NEW v, IsView(v), NEW x
  PROVE  /\ Same(v, [v EXCEPT !.listed = x])
         /\ Same(v, [v EXCEPT !.item = x])
         /\ Same(v, [v EXCEPT !.amount = x])
         /\ Same(v, [v EXCEPT !.note = x])
         /\ Same(v, [v EXCEPT !.nav = x])
         /\ x \in BOOLEAN => Same(v, [v EXCEPT !.public = x])
         /\ v.screen # "card" \/ x \in CardStates => Same(v, [v EXCEPT !.state = x])
<1>1. Same(v, [v EXCEPT !.listed = x])
  BY DEF Same, IsView, IsShaped
<1>2. Same(v, [v EXCEPT !.item = x])
  BY DEF Same, IsView, IsShaped
<1>3. Same(v, [v EXCEPT !.amount = x])
  BY DEF Same, IsView, IsShaped
<1>4. Same(v, [v EXCEPT !.note = x])
  BY DEF Same, IsView, IsShaped
<1>5. Same(v, [v EXCEPT !.nav = x])
  BY DEF Same, IsView, IsShaped
<1>6. x \in BOOLEAN => Same(v, [v EXCEPT !.public = x])
  BY DEF Same, IsView, IsShaped
<1>7. v.screen # "card" \/ x \in CardStates => Same(v, [v EXCEPT !.state = x])
  BY DEF Same, IsView, IsShaped
<1> QED BY <1>1, <1>2, <1>3, <1>4, <1>5, <1>6, <1>7

LEMMA EditedTwice ==
  ASSUME NEW v, IsView(v), NEW x, NEW y
  PROVE  /\ Same(v, [v EXCEPT !.amount = x, !.item = y])
         /\ v.screen # "card" => Same(v, [v EXCEPT !.state = x, !.listed = y])
         /\ x \in BOOLEAN => Same(v, [v EXCEPT !.public = x, !.note = y])
         /\ x \in BOOLEAN => Same(v, [v EXCEPT !.listed = y, !.public = x])
<1>1. \A w : Same(v, w) => \A z : Same(w, z) => Same(v, z)
  BY DEF Same
<1>2. Same(v, [v EXCEPT !.amount = x, !.item = y])
  <2> DEFINE w == [v EXCEPT !.amount = x]
  <2>1. Same(v, w) /\ [v EXCEPT !.amount = x, !.item = y] = [w EXCEPT !.item = y]
    BY Edited
  <2> HIDE DEF w
  <2>3. Same(w, [w EXCEPT !.item = y])
    BY <2>1, Edited DEF Same
  <2> QED BY <1>1, <2>1, <2>3
<1>3. v.screen # "card" => Same(v, [v EXCEPT !.state = x, !.listed = y])
  <2> DEFINE w == [v EXCEPT !.state = x]
  <2>1. v.screen # "card" => Same(v, w)
    BY Edited
  <2>2. [v EXCEPT !.state = x, !.listed = y] = [w EXCEPT !.listed = y]
    OBVIOUS
  <2> HIDE DEF w
  <2>3. v.screen # "card" => Same(w, [w EXCEPT !.listed = y])
    BY <2>1, Edited DEF Same
  <2> QED BY <1>1, <2>1, <2>2, <2>3
<1>4. x \in BOOLEAN => Same(v, [v EXCEPT !.public = x, !.note = y])
  <2> DEFINE w == [v EXCEPT !.public = x]
  <2>1. x \in BOOLEAN => Same(v, w)
    BY Edited
  <2>2. [v EXCEPT !.public = x, !.note = y] = [w EXCEPT !.note = y]
    OBVIOUS
  <2> HIDE DEF w
  <2>3. x \in BOOLEAN => Same(w, [w EXCEPT !.note = y])
    BY <2>1, Edited DEF Same
  <2> QED BY <1>1, <2>1, <2>2, <2>3
<1>5. x \in BOOLEAN => Same(v, [v EXCEPT !.listed = y, !.public = x])
  <2> DEFINE w == [v EXCEPT !.listed = y]
  <2>1. Same(v, w)
    BY Edited
  <2>2. [v EXCEPT !.listed = y, !.public = x] = [w EXCEPT !.public = x]
    OBVIOUS
  <2> HIDE DEF w
  <2>3. x \in BOOLEAN => Same(w, [w EXCEPT !.public = x])
    BY <2>1, Edited DEF Same
  <2> QED BY <1>1, <2>1, <2>2, <2>3
<1> QED BY <1>2, <1>3, <1>4, <1>5

\* A card, with the state that the creator sees it in.
LEMMA CardIsView ==
  ASSUME NEW u \in Creators, NEW x, NEW s \in CardStates
  PROVE  /\ IsDrawing([View("card", u) EXCEPT !.item = x, !.state = s])
         /\ IsDrawing([View("card", u) EXCEPT !.item = x, !.state = s, !.nav = TRUE])
<1> DEFINE v == View("card", u)
           w == [v EXCEPT !.state = s]
<1>1. IsView(w) /\ w.screen = "card"
  <2>1. ASSUME NEW z, IsShaped(z)
        PROVE  /\ IsShaped([z EXCEPT !.state = s]) /\ [z EXCEPT !.state = s].state = s
               /\ [z EXCEPT !.state = s].screen = z.screen /\ [z EXCEPT !.state = s].by = z.by
               /\ [z EXCEPT !.state = s].public = z.public
    BY <2>1 DEF IsShaped
  <2>2. IsShaped(v) /\ v.screen = "card" /\ v.by = u /\ v.public = FALSE
    BY DEF View, IsShaped
  <2> HIDE DEF v
  <2>3. IsShaped(w) /\ w.screen = "card" /\ w.by = u /\ w.public = FALSE /\ w.state = s
    BY <2>1, <2>2
  <2> QED BY <2>3 DEF IsView
<1>2. /\ [v EXCEPT !.item = x, !.state = s] = [w EXCEPT !.item = x]
      /\ [v EXCEPT !.item = x, !.state = s, !.nav = TRUE] = [[w EXCEPT !.item = x] EXCEPT !.nav = TRUE]
  OBVIOUS
<1> HIDE DEF v, w
<1>3. Same(w, [w EXCEPT !.item = x])
  BY <1>1, Edited
<1>4. Same(w, [[w EXCEPT !.item = x] EXCEPT !.nav = TRUE])
  BY <1>3, Edited DEF Same
<1> QED BY <1>1, <1>2, <1>3, <1>4 DEF Same, IsDrawing, v

\* What a handler reads can be drawn.
LEMMA ReadIsDrawing ==
  ASSUME NEW screen, screen \notin {"closed", "picker"}, NEW u \in Creators, NEW x
  PROVE  IsDrawing(Read(screen, x, u))
<1>1. CardState(x, u) \in CardStates
  BY DEF CardState, CardStates
<1>2. CASE screen \in {"card", "detail"}
  <2>1. CASE screen = "card"
    BY <1>1, <2>1, CardIsView DEF Read
  <2>2. CASE screen = "detail"
    BY <1>1, <2>2, CardIsView DEF Read
  <2> QED BY <1>2, <2>1, <2>2
<1>3. CASE screen \notin {"card", "detail"}
  <2> DEFINE v == View(screen, u)
  <2>1. IsView(v) /\ v.screen = screen
    BY <1>3, ViewIsView
  <2>2. IsDrawing(Missing(u))
    <3>1. IsView(View("missing", u)) /\ View("missing", u).screen = "missing"
      BY ViewIsView
    <3> QED BY <3>1, Edited DEF Missing, IsDrawing, Same
  <2>3. \A w : Same(v, w) => IsDrawing(w)
    BY <2>1 DEF IsDrawing, Same
  <2>4. Same(v, v)
    BY <2>1 DEF Same
  <2> HIDE DEF v
  <2>7. CASE screen \in {"campaigns", "allCampaigns", "statsClips", "earningsCampaigns"}
    BY <2>1, <2>3, <2>7, Edited DEF Read, v
  <2>8. CASE screen \in {"statsClip", "campaignEarnings", "kept"}
    BY <2>1, <2>3, <2>8, Edited DEF Read, v
  <2>9. CASE screen = "hub"
    BY <2>1, <2>3, <2>9, EditedTwice DEF Read, v
  <2>10. CASE screen = "payout"
    BY <2>1, <2>3, <2>10, EditedTwice DEF Read, v
  <2>11. CASE screen \in {"instructions", "waiting", "review"}
    BY <2>1, <2>2, <2>3, <2>4, <2>11, Edited DEF Read, v
  <2>12. CASE screen \notin {"campaigns", "allCampaigns", "picker", "card", "detail", "statsClips",
                             "statsClip", "campaignEarnings", "kept", "earningsCampaigns", "hub",
                             "payout", "instructions", "waiting", "review"}
    BY <2>3, <2>4, <2>12 DEF Read, v
  <2> QED BY <1>3, <2>7, <2>8, <2>9, <2>10, <2>11, <2>12
<1> QED BY <1>2, <1>3

LEMMA ShowTyped ==
  ASSUME MessagesOK, NEW m, NEW v, v = Closed \/ IsView(v), Show(m, v)
  PROVE  MessagesOK'
<1>1. msgs' = [n \in Messages |-> IF n = m THEN v ELSE msgs[n]]
  BY DEF Show, MessagesOK
<1>2. ASSUME NEW n \in Messages, msgs'[n] # Closed PROVE IsView(msgs'[n])
  BY <1>1, <1>2 DEF MessagesOK
<1>3. msgs' = [n \in Messages |-> msgs'[n]]
  BY <1>1
<1> QED BY <1>2, <1>3 DEF MessagesOK, IsView, Closed

\* What becomes of the other messages.
LEMMA ShowKeeps ==
  ASSUME MessagesOK, NEW m, NEW v, Show(m, v)
  PROVE  \A n \in Messages : msgs'[n] = IF n = m THEN v ELSE msgs[n]
  BY DEF Show, MessagesOK

LEMMA BecomeTyped ==
  ASSUME PressesOK, NEW p, NEW w, w = Idle \/ IsPress(w), Become(p, w)
  PROVE  /\ PressesOK'
         /\ \A q \in Presses : work'[q] = IF q = p THEN w ELSE work[q]
<1>1. work' = [q \in Presses |-> IF q = p THEN w ELSE work[q]]
  BY DEF Become, PressesOK
<1>2. ASSUME NEW q \in Presses, work'[q] # Idle PROVE IsPress(work'[q])
  BY <1>1, <1>2 DEF PressesOK
<1>3. work' = [q \in Presses |-> work'[q]]
  BY <1>1
<1> QED BY <1>1, <1>2, <1>3 DEF PressesOK, IsPress, Idle

LEMMA OpenTyped ==
  ASSUME FormsOK, NEW u, NEW f, IsForm(f), OpenForm(u, f)
  PROVE  FormsOK'
<1>1. form' = [v \in Creators |-> IF v = u THEN f ELSE form[v]]
  BY DEF OpenForm, FormsOK
<1>2. ASSUME NEW v \in Creators PROVE IsForm(form'[v])
  BY <1>1 DEF FormsOK
<1>3. form' = [v \in Creators |-> form'[v]]
  BY <1>1
<1> QED BY <1>2, <1>3 DEF FormsOK

\* A message that is worked on stays one that a handler may draw over.
LEMMA WorkedStays ==
  ASSUME WorkedOn, PressesOK,
         \A p \in Presses : \/ work'[p] = Idle
                            \/ work[p] # Idle /\ work'[p].on = work[p].on
                            \/ IsDrawing(msgs'[work'[p].on]),
         \A m \in Messages : IsDrawing(msgs[m]) => msgs'[m] = msgs[m] \/ IsDrawing(msgs'[m])
  PROVE  WorkedOn'
<1> SUFFICES ASSUME NEW p \in Presses, work'[p] # Idle PROVE IsDrawing(msgs'[work'[p].on])
  BY DEF WorkedOn, IsDrawing, IsView
<1>1. CASE work[p] # Idle /\ work'[p].on = work[p].on
  <2>1. work[p].on \in Messages /\ IsDrawing(msgs[work[p].on])
    BY <1>1 DEF WorkedOn, PressesOK, IsPress
  <2> QED BY <1>1, <2>1
<1> QED BY <1>1

LEMMA ScreensKept ==
  /\ FormsOK /\ UNCHANGED form => FormsOK'
  /\ MessagesOK /\ UNCHANGED msgs => MessagesOK'
  /\ PressesOK /\ UNCHANGED work => PressesOK'
<1>1. FormsOK /\ UNCHANGED form => FormsOK'
  BY DEF FormsOK, IsForm, NoForm
<1>2. MessagesOK /\ UNCHANGED msgs => MessagesOK'
  BY DEF MessagesOK, IsView, Closed
<1>3. PressesOK /\ UNCHANGED work => PressesOK'
  BY DEF PressesOK, IsPress, Idle
<1> QED BY <1>1, <1>2, <1>3

\* A press that begins, and what the handler makes of it.
LEMMA BeginIsPress ==
  ASSUME NEW u \in Creators, NEW m \in Messages, NEW b, b.do \in CustomIds, NEW a, NEW k,
         b.do = "amount_form" => a \in Amounts
  PROVE  IsPress(Begin(u, m, b, a, k)) /\ Begin(u, m, b, a, k).on = m
<1> DEFINE w == Begin(u, m, b, a, k)
<1>1. /\ IsWork(w) /\ w.stage = "do" /\ w.by = u /\ w.on = m /\ w.do = b.do /\ w.amount = a
  BY DEF Begin, IsWork
<1> HIDE DEF w
<1>2. IsPress(w) /\ w.on = m
  BY <1>1 DEF IsPress, Stages
<1> QED BY <1>2 DEF w

Onward(w, x) == IsPress(x) /\ x.on = w.on

LEMMA PressEdited ==
  ASSUME NEW w, IsPress(w)
  PROVE  /\ Onward(w, [w EXCEPT !.stage = "read"]) /\ Onward(w, [w EXCEPT !.stage = "report"])
         /\ \A v : IsDrawing(v) => Onward(w, [w EXCEPT !.stage = "draw", !.view = v])
         /\ \A d \in Drafts : Onward(w, [w EXCEPT !.stage = "create", !.taken = d])
<1>1. ASSUME NEW s
      PROVE  /\ IsWork([w EXCEPT !.stage = s])
             /\ [w EXCEPT !.stage = s].stage = s /\ [w EXCEPT !.stage = s].by = w.by
             /\ [w EXCEPT !.stage = s].on = w.on /\ [w EXCEPT !.stage = s].do = w.do
             /\ [w EXCEPT !.stage = s].amount = w.amount
  BY DEF IsPress, IsWork
<1>2. ASSUME NEW x, IsWork(x), NEW v
      PROVE  /\ IsWork([x EXCEPT !.view = v])
             /\ [x EXCEPT !.view = v].stage = x.stage /\ [x EXCEPT !.view = v].by = x.by
             /\ [x EXCEPT !.view = v].on = x.on /\ [x EXCEPT !.view = v].do = x.do
             /\ [x EXCEPT !.view = v].amount = x.amount
             /\ [x EXCEPT !.view = v].view = v
  BY <1>2 DEF IsWork
<1>3. ASSUME NEW x, IsWork(x), NEW d
      PROVE  /\ IsWork([x EXCEPT !.taken = d])
             /\ [x EXCEPT !.taken = d].stage = x.stage /\ [x EXCEPT !.taken = d].by = x.by
             /\ [x EXCEPT !.taken = d].on = x.on /\ [x EXCEPT !.taken = d].do = x.do
             /\ [x EXCEPT !.taken = d].amount = x.amount
             /\ [x EXCEPT !.taken = d].taken = d
  BY <1>3 DEF IsWork
<1>4. Onward(w, [w EXCEPT !.stage = "read"]) /\ Onward(w, [w EXCEPT !.stage = "report"])
  BY <1>1 DEF Onward, IsPress, Stages
<1>5. ASSUME NEW v, IsDrawing(v) PROVE Onward(w, [w EXCEPT !.stage = "draw", !.view = v])
  <2> DEFINE x == [w EXCEPT !.stage = "draw"]
             y == [x EXCEPT !.view = v]
  <2>1. /\ IsWork(x) /\ x.stage = "draw" /\ x.by = w.by /\ x.on = w.on /\ x.do = w.do
        /\ x.amount = w.amount
    BY <1>1
  <2>2. [w EXCEPT !.stage = "draw", !.view = v] = y
    OBVIOUS
  <2> HIDE DEF x
  <2>3. /\ IsWork(y) /\ y.stage = "draw" /\ y.by = w.by /\ y.on = w.on /\ y.do = w.do
        /\ y.amount = w.amount /\ y.view = v
    BY <1>2, <2>1
  <2> HIDE DEF y
  <2>4. Onward(w, y)
    BY <1>5, <2>3 DEF Onward, IsPress, Stages
  <2> QED BY <2>2, <2>4
<1>6. ASSUME NEW d \in Drafts PROVE Onward(w, [w EXCEPT !.stage = "create", !.taken = d])
  <2> DEFINE x == [w EXCEPT !.stage = "create"]
             y == [x EXCEPT !.taken = d]
  <2>1. /\ IsWork(x) /\ x.stage = "create" /\ x.by = w.by /\ x.on = w.on /\ x.do = w.do
        /\ x.amount = w.amount
    BY <1>1
  <2>2. [w EXCEPT !.stage = "create", !.taken = d] = y
    OBVIOUS
  <2> HIDE DEF x
  <2>3. /\ IsWork(y) /\ y.stage = "create" /\ y.by = w.by /\ y.on = w.on /\ y.do = w.do
        /\ y.amount = w.amount /\ y.taken = d
    BY <1>3, <2>1
  <2> HIDE DEF y
  <2>4. Onward(w, y)
    BY <2>3 DEF Onward, IsPress, Stages
  <2> QED BY <2>2, <2>4
<1> QED BY <1>4, <1>5, <1>6

(***************************************************************************)
(* The messages, the forms and the presses stay well formed                *)
(***************************************************************************)

ScreensOK == FormsOK /\ MessagesOK /\ PressesOK /\ WorkedOn

\* A press that goes on, or ends.
LEMMA GoesOn ==
  ASSUME ScreensOK, NEW p \in Presses, work[p] # Idle, NEW x, x = Idle \/ Onward(work[p], x),
         Become(p, x), UNCHANGED form, MessagesOK',
         \A m \in Messages : IsDrawing(msgs[m]) => msgs'[m] = msgs[m] \/ IsDrawing(msgs'[m])
  PROVE  ScreensOK'
<1>1. PressesOK' /\ \A q \in Presses : work'[q] = IF q = p THEN x ELSE work[q]
  BY BecomeTyped DEF ScreensOK, Onward
<1>2. FormsOK'
  BY ScreensKept DEF ScreensOK
<1>3. ASSUME NEW q \in Presses
      PROVE  work'[q] = Idle \/ (work[q] # Idle /\ work'[q].on = work[q].on)
  BY <1>1 DEF Onward
<1>4. WorkedOn'
  BY <1>3, WorkedStays DEF ScreensOK
<1> QED BY <1>1, <1>2, <1>4 DEF ScreensOK

\* A press that begins.
LEMMA StartsTyped ==
  ASSUME ScreensOK, NEW p \in Presses, NEW x, IsPress(x), Become(p, x),
         FormsOK', MessagesOK', IsDrawing(msgs'[x.on]),
         \A m \in Messages : IsDrawing(msgs[m]) => msgs'[m] = msgs[m] \/ IsDrawing(msgs'[m])
  PROVE  ScreensOK'
<1>1. PressesOK' /\ \A q \in Presses : work'[q] = IF q = p THEN x ELSE work[q]
  BY BecomeTyped DEF ScreensOK
<1>2. ASSUME NEW q \in Presses
      PROVE  \/ work'[q] = Idle
             \/ work[q] # Idle /\ work'[q].on = work[q].on
             \/ IsDrawing(msgs'[work'[q].on])
  BY <1>1
<1>3. WorkedOn'
  BY <1>2, WorkedStays DEF ScreensOK
<1> QED BY <1>1, <1>3 DEF ScreensOK

\* No press begins or goes on.
LEMMA OthersTyped ==
  ASSUME ScreensOK, UNCHANGED work, FormsOK', MessagesOK',
         \A m \in Messages : IsDrawing(msgs[m]) =>
           \/ msgs'[m] = msgs[m] \/ IsDrawing(msgs'[m])
           \/ \A p \in Presses : work[p] # Idle => work[p].on # m
  PROVE  ScreensOK'
<1>1. PressesOK'
  BY ScreensKept DEF ScreensOK
<1>2. ASSUME NEW p \in Presses, work[p] # Idle PROVE IsDrawing(msgs'[work[p].on])
  <2>1. work[p].on \in Messages /\ IsDrawing(msgs[work[p].on])
    BY <1>2 DEF ScreensOK, WorkedOn, PressesOK, IsPress
  <2> QED BY <1>2, <2>1
<1>3. WorkedOn'
  BY <1>2 DEF WorkedOn, IsDrawing, IsView, Idle
<1> QED BY <1>1, <1>3 DEF ScreensOK

\* A message that is left alone, or one that shows an error.
LEMMA LeftIsView ==
  ASSUME NEW v
  PROVE  /\ v = Closed => Left(v) = Closed
         /\ IsView(v) => IsView(Left(v)) /\ Left(v).screen = v.screen
<1>1. v = Closed => Left(v) = Closed
  BY DEF Left, Closed
<1>2. IsView(v) => Left(v) = v \/ Same(v, Left(v))
  <2>1. ASSUME IsView(v), v.screen = "thinking" PROVE Same(v, [v EXCEPT !.state = "lost"])
    BY <2>1, Edited
  <2> QED BY <2>1 DEF Left
<1> QED BY <1>1, <1>2 DEF Same

LEMMA ErrorIsDrawing ==
  ASSUME ScreensOK, NEW p \in Presses, work[p] # Idle
  PROVE  IsDrawing(ErrorShown(p)) /\ IsDrawing(Left(msgs[work[p].on]))
<1> DEFINE m == work[p].on
           error == [View("error", work[p].by) EXCEPT !.public = msgs[m].public]
           noted == [msgs[m] EXCEPT !.note = "error"]
<1>1. IsDrawing(msgs[m]) /\ work[p].by \in Creators
  BY DEF ScreensOK, WorkedOn, PressesOK, IsPress
<1>2. IsView(msgs[m]) /\ msgs[m].public \in BOOLEAN /\ msgs[m].screen # "picker"
  BY <1>1 DEF IsDrawing, IsView
<1>3. IsDrawing(error)
  <2>1. IsView(View("error", work[p].by)) /\ View("error", work[p].by).screen = "error"
    BY <1>1, ViewIsView
  <2>2. Same(View("error", work[p].by), error)
    BY <1>2, <2>1, Edited
  <2> QED BY <2>1, <2>2 DEF Same, IsDrawing
<1>4. IsDrawing(noted)
  <2>1. Same(msgs[m], noted)
    BY <1>2, Edited
  <2> QED BY <1>2, <2>1 DEF Same, IsDrawing
<1>5. ErrorShown(p) \in {error, noted, msgs[m]}
  BY DEF ErrorShown
<1>6. IsDrawing(Left(msgs[m]))
  BY <1>1, <1>2, LeftIsView DEF IsDrawing
<1> HIDE DEF error, noted
<1> QED BY <1>1, <1>3, <1>4, <1>5, <1>6

\* The process dies: nothing is worked on.
LEMMA CrashTyped ==
  ASSUME ScreensOK, Crash
  PROVE  ScreensOK'
<1>1. FormsOK'
  BY ScreensKept DEF Crash, ScreensOK
<1>2. MessagesOK'
  <2>1. \A m \in Messages : msgs'[m] \in {Left(msgs[m]), msgs[m]}
    BY DEF Crash
  <2>2. ASSUME NEW m \in Messages, msgs'[m] # Closed PROVE IsView(msgs'[m])
    <3>1. msgs[m] # Closed
      BY <2>1, <2>2, LeftIsView
    <3> QED BY <2>1, <3>1, LeftIsView DEF ScreensOK, MessagesOK
  <2>3. msgs' = [m \in Messages |-> msgs'[m]]
    BY DEF Crash
  <2> QED BY <2>2, <2>3 DEF MessagesOK, IsView, Closed
<1>3. work' = [p \in Presses |-> Idle]
  BY DEF Crash
<1>4. PressesOK' /\ WorkedOn'
  BY <1>3 DEF PressesOK, WorkedOn, Idle
<1> QED BY <1>1, <1>2, <1>4 DEF ScreensOK

\* The answers with a form or with a message of its own.
LEMMA AnswerTyped ==
  ASSUME ScreensOK, NEW u \in Creators, NEW m, NEW b, b.do \in CustomIds, Answer(u, m, b),
         b.do = "pick" => m \in Messages /\ msgs[m].screen = "picker"
  PROVE  /\ FormsOK' /\ MessagesOK'
         /\ \A n \in Messages : IsDrawing(msgs[n]) => msgs'[n] = msgs[n] \/ IsDrawing(msgs'[n])
<1> DEFINE kind == Routes[b.do].does  cs == member[u] \cap open
<1>1. CASE kind \in {"amount", "profile"} /\ UNCHANGED msgs
           /\ OpenForm(u, [kind |-> IF profile[u] = 0 THEN "profile" ELSE kind, item |-> None])
  <2>1. IsForm([kind |-> IF profile[u] = 0 THEN "profile" ELSE kind, item |-> None])
    BY <1>1 DEF IsForm
  <2> QED BY <1>1, <2>1, OpenTyped, ScreensKept DEF ScreensOK
<1>2. CASE kind = "picked_clip" /\ OpenForm(u, [kind |-> "clip", item |-> b.item]) /\ Show(m, Closed)
  <2>1. IsForm([kind |-> "clip", item |-> b.item])
    BY DEF IsForm
  <2>2. m \in Messages /\ ~IsDrawing(msgs[m])
    BY <1>2, RouterKnows DEF Routed, IsDrawing
  <2>3. FormsOK'
    BY <1>2, <2>1, OpenTyped DEF ScreensOK
  <2>4. MessagesOK' /\ \A n \in Messages : msgs'[n] = IF n = m THEN Closed ELSE msgs[n]
    BY <1>2, ShowTyped, ShowKeeps DEF ScreensOK
  <2> QED BY <2>2, <2>3, <2>4
<1>3. CASE UNCHANGED msgs /\ \E c \in cs : OpenForm(u, [kind |-> "clip", item |-> c])
  <2>1. PICK c \in cs : OpenForm(u, [kind |-> "clip", item |-> c])
    BY <1>3
  <2>2. IsForm([kind |-> "clip", item |-> c])
    BY DEF IsForm
  <2> QED BY <1>3, <2>1, <2>2, OpenTyped, ScreensKept DEF ScreensOK
<1>4. ASSUME NEW new \in Free, NEW v, IsView(v), Show(new, v), UNCHANGED form
      PROVE  /\ FormsOK' /\ MessagesOK'
             /\ \A n \in Messages : IsDrawing(msgs[n]) => msgs'[n] = msgs[n] \/ IsDrawing(msgs'[n])
  <2>1. new \in Messages /\ ~IsDrawing(msgs[new])
    BY DEF Free, Closed, IsDrawing, IsView
  <2>2. FormsOK'
    BY <1>4, ScreensKept DEF ScreensOK
  <2>3. MessagesOK' /\ \A n \in Messages : msgs'[n] = IF n = new THEN v ELSE msgs[n]
    BY <1>4, ShowTyped, ShowKeeps DEF ScreensOK
  <2> QED BY <2>1, <2>2, <2>3
<1>5. CASE UNCHANGED form /\ \E new \in Free : Show(new, [View("picker", u) EXCEPT !.listed = cs, !.public = TRUE])
  <2>1. IsView(View("picker", u))
    BY ViewIsView
  <2>2. IsView([View("picker", u) EXCEPT !.listed = cs, !.public = TRUE])
    BY <2>1, EditedTwice DEF Same
  <2> QED BY <1>4, <1>5, <2>2
<1>6. CASE UNCHANGED form /\ \E new \in Free : Show(new, [View("confirm", u) EXCEPT !.item = b.item])
  <2>1. IsView(View("confirm", u))
    BY ViewIsView
  <2>2. IsView([View("confirm", u) EXCEPT !.item = b.item])
    BY <2>1, Edited DEF Same
  <2> QED BY <1>4, <1>6, <2>2
<1>7. CASE UNCHANGED <<msgs, form>>
  BY <1>7, ScreensKept DEF ScreensOK
<1> QED BY <1>1, <1>2, <1>3, <1>5, <1>6, <1>7 DEF Answer

LEMMA FreshTyped ==
  ASSUME ScreensOK, NEW m \in Free, NEW v, IsDrawing(v), Show(m, v)
  PROVE  /\ MessagesOK' /\ IsDrawing(msgs'[m])
         /\ \A n \in Messages : IsDrawing(msgs[n]) => msgs'[n] = msgs[n] \/ IsDrawing(msgs'[n])
<1>1. m \in Messages
  BY DEF Free
<1>2. MessagesOK' /\ \A n \in Messages : msgs'[n] = IF n = m THEN v ELSE msgs[n]
  BY ShowTyped, ShowKeeps DEF ScreensOK, IsDrawing
<1> QED BY <1>1, <1>2

LEMMA ThinkingTyped ==
  ASSUME NEW u \in Creators, NEW x \in BOOLEAN
  PROVE  IsDrawing([View("thinking", u) EXCEPT !.public = x])
<1>1. IsView(View("thinking", u)) /\ View("thinking", u).screen = "thinking"
  BY ViewIsView
<1>2. Same(View("thinking", u), [View("thinking", u) EXCEPT !.public = x])
  BY <1>1, Edited
<1> QED BY <1>1, <1>2 DEF Same, IsDrawing

LEMMA PressStep ==
  ASSUME ScreensOK, NEW p \in Presses, NEW u \in Creators, NEW m \in Messages, NEW b \in Buttons(msgs[m]),
         Press(p, u, m, b)
  PROVE  ScreensOK'
<1>1. IsView(msgs[m])
  BY DEF Press, ScreensOK, MessagesOK
<1>2. Pressed(msgs[m], b)
  BY <1>1, Offered DEF IsView
<1>3. b.do \in CustomIds /\ b.do # "amount_form" /\ (b.do = "pick" <=> msgs[m].screen = "picker")
  BY <1>2 DEF Pressed
<1>4. CASE UNCHANGED <<msgs, form, work>>
  BY <1>4, OthersTyped, ScreensKept DEF ScreensOK
<1>5. CASE Answer(u, m, b) /\ UNCHANGED work
  BY <1>3, <1>5, AnswerTyped, OthersTyped
<1>6. ASSUME NEW k, Routes[b.do].first # "form", UNCHANGED <<msgs, form>>,
             Become(p, Begin(u, m, b, msgs[m].amount, k))
      PROVE  ScreensOK'
  <2>1. b.do # "pick"
    BY <1>3, <1>6, RouterKnows DEF Routed
  <2>2. IsDrawing(msgs[m])
    BY <1>1, <1>3, <2>1 DEF IsDrawing
  <2>3. /\ IsPress(Begin(u, m, b, msgs[m].amount, k))
        /\ Begin(u, m, b, msgs[m].amount, k).on = m
    BY <1>3, BeginIsPress
  <2>4. FormsOK' /\ MessagesOK'
    BY <1>6, ScreensKept DEF ScreensOK
  <2>5. msgs' = msgs
    BY <1>6
  <2> QED BY <1>6, <2>2, <2>3, <2>4, <2>5, StartsTyped
<1>7. ASSUME NEW new \in Free, NEW k, Routes[b.do].first # "form", UNCHANGED form,
             Show(new, View("thinking", u)), Become(p, Begin(u, new, b, msgs[m].amount, k))
      PROVE  ScreensOK'
  <2>1. new \in Messages
    BY DEF Free
  <2>2. IsPress(Begin(u, new, b, msgs[m].amount, k)) /\ Begin(u, new, b, msgs[m].amount, k).on = new
    BY <1>3, <2>1, BeginIsPress
  <2>3. FormsOK'
    BY <1>7, ScreensKept DEF ScreensOK
  <2>4. IsDrawing(View("thinking", u))
    BY ViewIsView DEF IsDrawing
  <2>5. /\ MessagesOK' /\ IsDrawing(msgs'[new])
        /\ \A n \in Messages : IsDrawing(msgs[n]) => msgs'[n] = msgs[n] \/ IsDrawing(msgs'[n])
    BY <1>7, <2>4, FreshTyped
  <2> QED BY <1>7, <2>2, <2>3, <2>5, StartsTyped
<1> QED BY <1>4, <1>5, <1>6, <1>7 DEF Press

LEMMA CommandStep ==
  ASSUME ScreensOK, NEW p \in Presses, NEW u \in Creators, NEW c \in Commands, Command(p, u, c)
  PROVE  ScreensOK'
<1> DEFINE b == [do |-> c, item |-> None]
<1>1. b.do \in CustomIds /\ b.do # "amount_form" /\ b.do # "pick"
  BY DEF CustomIds, Commands
<1>2. CASE Answer(u, None, b) /\ UNCHANGED work
  BY <1>1, <1>2, AnswerTyped, OthersTyped
<1>3. ASSUME NEW m \in Free, Show(m, [View("thinking", u) EXCEPT !.public = (c = "cmd_campaigns")]),
             Become(p, Begin(u, m, b, None, TRUE)), UNCHANGED form
      PROVE  ScreensOK'
  <2> DEFINE k == TRUE
  <2> HIDE DEF b, k
  <2>1. m \in Messages
    BY DEF Free
  <2>2. IsPress(Begin(u, m, b, None, k)) /\ Begin(u, m, b, None, k).on = m
    BY <1>1, <2>1, BeginIsPress
  <2>3. FormsOK'
    BY <1>3, ScreensKept DEF ScreensOK
  <2>4. IsDrawing([View("thinking", u) EXCEPT !.public = (c = "cmd_campaigns")])
    BY ThinkingTyped
  <2>5. /\ MessagesOK' /\ IsDrawing(msgs'[m])
        /\ \A n \in Messages : IsDrawing(msgs[n]) => msgs'[n] = msgs[n] \/ IsDrawing(msgs'[n])
    BY <1>3, <2>4, FreshTyped
  <2>6. Become(p, Begin(u, m, b, None, k))
    BY <1>3 DEF k
  <2> QED BY <2>2, <2>3, <2>5, <2>6, StartsTyped
<1> QED BY <1>2, <1>3 DEF Command

LEMMA SubmitFormStep ==
  ASSUME ScreensOK, NEW p \in Presses, NEW u \in Creators, SubmitForm(p, u)
  PROVE  ScreensOK'
<1> DEFINE kind == form[u].kind
           b    == [do |-> Sent[kind], item |-> form[u].item]
           k    == TRUE
<1>1. kind \in {"amount", "profile", "clip"}
  BY DEF SubmitForm, ScreensOK, FormsOK, IsForm
<1>2. PICK a \in IF kind = "amount" THEN Amounts ELSE {None}, m \in Free :
        /\ Show(m, [View("thinking", u) EXCEPT !.public = (kind = "clip")])
        /\ Become(p, Begin(u, m, b, a, k))
  BY DEF SubmitForm
<1>3. b.do \in CustomIds /\ (b.do = "amount_form" => a \in Amounts)
  BY <1>1, <1>2 DEF Sent, CustomIds
<1> HIDE DEF b, k
<1>4. m \in Messages
  BY <1>2 DEF Free
<1>5. IsPress(Begin(u, m, b, a, k)) /\ Begin(u, m, b, a, k).on = m
  BY <1>3, <1>4, BeginIsPress
<1>6. FormsOK'
  <2>1. IsForm(NoForm) /\ OpenForm(u, NoForm)
    BY DEF IsForm, SubmitForm
  <2> QED BY <2>1, OpenTyped DEF ScreensOK
<1>7. IsDrawing([View("thinking", u) EXCEPT !.public = (kind = "clip")])
  BY ThinkingTyped
<1>8. /\ MessagesOK' /\ IsDrawing(msgs'[m])
      /\ \A n \in Messages : IsDrawing(msgs[n]) => msgs'[n] = msgs[n] \/ IsDrawing(msgs'[n])
  BY <1>2, <1>7, FreshTyped
<1> QED BY <1>2, <1>5, <1>6, <1>8, StartsTyped

LEMMA DrawTyped ==
  ASSUME ScreensOK, NEW p \in Presses, work[p] # Idle, work[p].stage = "draw", DrawView(p)
  PROVE  /\ MessagesOK'
         /\ \A n \in Messages : IsDrawing(msgs[n]) => msgs'[n] = msgs[n] \/ IsDrawing(msgs'[n])
<1> DEFINE w == work[p]
           note == IF w.view.note # "" THEN w.view.note ELSE IF H(p).note = "keep" THEN msgs[w.on].note ELSE H(p).note
           drawn == [w.view EXCEPT !.public = msgs[w.on].public, !.note = note]
<1>1. w.on \in Messages /\ IsDrawing(msgs[w.on]) /\ IsDrawing(w.view)
  BY DEF ScreensOK, WorkedOn, PressesOK, IsPress
<1>2. msgs[w.on].public \in BOOLEAN /\ IsView(w.view)
  BY <1>1 DEF IsDrawing, IsView
<1>3. Same(w.view, drawn)
  BY <1>2, EditedTwice
<1>4. IsDrawing(drawn)
  BY <1>1, <1>3 DEF Same, IsDrawing
<1>5. Show(w.on, drawn)
  BY DEF DrawView
<1> HIDE DEF drawn
<1> QED BY <1>1, <1>4, <1>5, ShowTyped, ShowKeeps DEF ScreensOK, IsDrawing

LEMMA HandleStep ==
  ASSUME ScreensOK, DraftsOK, NEW p \in Presses, Handle(p)
  PROVE  ScreensOK'
<1>1. work[p] # Idle
  BY DEF Handle, Do, ReadScreen, Consume, Create, Throw, Draw, DrawFails, Report, ReportFails, Idle
<1>2. IsPress(work[p]) /\ work[p].by \in Creators /\ work[p].do \in CustomIds
  BY <1>1 DEF ScreensOK, PressesOK, IsPress
<1>3. /\ Onward(work[p], [work[p] EXCEPT !.stage = "read"])
      /\ Onward(work[p], [work[p] EXCEPT !.stage = "report"])
      /\ \A v : IsDrawing(v) => Onward(work[p], [work[p] EXCEPT !.stage = "draw", !.view = v])
      /\ \A d \in Drafts : Onward(work[p], [work[p] EXCEPT !.stage = "create", !.taken = d])
  BY <1>2, PressEdited
<1>4. UNCHANGED msgs /\ ScreensOK => MessagesOK'
  BY ScreensKept DEF ScreensOK
<1>5. ASSUME NEW v, IsDrawing(v), Then(p, v), UNCHANGED <<msgs, form>> PROVE ScreensOK'
  <2>1. Onward(work[p], [work[p] EXCEPT !.stage = "draw", !.view = v])
    BY <1>3, <1>5
  <2>2. Become(p, [work[p] EXCEPT !.stage = "draw", !.view = v])
    BY <1>5 DEF Then
  <2> QED BY <1>1, <1>4, <1>5, <2>1, <2>2, GoesOn
<1>6. CASE Do(p)
  <2>1. Become(p, [work[p] EXCEPT !.stage = "read"]) /\ UNCHANGED <<msgs, form>>
    BY <1>6 DEF Do
  <2> QED BY <1>1, <1>3, <1>4, <2>1, GoesOn
<1>7. CASE ReadScreen(p)
  <2>1. IsDrawing(Read(H(p).shows, work[p].item, work[p].by))
    BY <1>2, ReadIsDrawing, RouterKnows DEF H, Routed
  <2> QED BY <1>5, <1>7, <2>1 DEF ReadScreen
<1>8. CASE Consume(p)
  <2> DEFINE u == work[p].by  d == draft[u]
  <2>1. CASE Then(p, Missing(u))
    <3>1. IsView(View("missing", u)) /\ View("missing", u).screen = "missing"
      BY <1>2, ViewIsView
    <3>2. IsDrawing(Missing(u))
      BY <3>1, Edited DEF Missing, IsDrawing, Same
    <3> QED BY <1>5, <1>8, <2>1, <3>2 DEF Consume
  <2>2. CASE d # NoDraft /\ Become(p, [work[p] EXCEPT !.stage = "create", !.taken = d])
    <3>1. d \in Drafts
      BY <1>2, <2>2 DEF DraftsOK
    <3>2. Onward(work[p], [work[p] EXCEPT !.stage = "create", !.taken = d])
      BY <1>3, <3>1
    <3>3. UNCHANGED <<msgs, form>>
      BY <1>8 DEF Consume
    <3> QED BY <1>1, <1>4, <2>2, <3>2, <3>3, GoesOn
  <2> QED BY <1>8, <2>1, <2>2 DEF Consume
<1>9. CASE Create(p)
  <2> DEFINE v == View("submitted", work[p].by)
             w == [v EXCEPT !.amount = work[p].taken.amount, !.item = Len(requests) + 1]
  <2>1. IsView(v) /\ v.screen = "submitted"
    BY <1>2, ViewIsView
  <2>2. Same(v, w)
    BY <2>1, EditedTwice
  <2>3. IsDrawing(w)
    BY <2>1, <2>2 DEF Same, IsDrawing
  <2>4. Then(p, w) /\ UNCHANGED <<msgs, form>>
    BY <1>9 DEF Create
  <2> HIDE DEF w
  <2> QED BY <1>5, <2>3, <2>4
<1>10. ASSUME Become(p, [work[p] EXCEPT !.stage = "report"]), UNCHANGED <<msgs, form>> PROVE ScreensOK'
  BY <1>1, <1>3, <1>4, <1>10, GoesOn
<1>11. CASE Throw(p)
  <2>1. CASE Then(p, View("not_cancelled", work[p].by)) /\ UNCHANGED msgs
    <3>1. IsDrawing(View("not_cancelled", work[p].by))
      BY <1>2, ViewIsView DEF IsDrawing
    <3> QED BY <1>5, <1>11, <2>1, <3>1 DEF Throw
  <2> QED BY <1>10, <1>11, <2>1 DEF Throw
<1>12. CASE Draw(p)
  <2>1. CASE UNCHANGED msgs
    BY <1>1, <1>4, <1>12, <2>1, GoesOn DEF Draw
  <2>2. CASE DrawView(p)
    BY <1>1, <1>12, <2>2, DrawTyped, GoesOn DEF Draw
  <2> QED BY <1>12, <2>1, <2>2 DEF Draw
<1>13. CASE DrawFails(p)
  BY <1>10, <1>13 DEF DrawFails
<1>14. ASSUME NEW v, IsDrawing(v), Show(work[p].on, v), Become(p, Idle), UNCHANGED form PROVE ScreensOK'
  <2>1. MessagesOK' /\ \A n \in Messages : msgs'[n] = IF n = work[p].on THEN v ELSE msgs[n]
    BY <1>14, ShowTyped, ShowKeeps DEF ScreensOK, IsDrawing
  <2> QED BY <1>1, <1>14, <2>1, GoesOn
<1>15. CASE Report(p)
  <2>1. Show(work[p].on, ErrorShown(p)) /\ Become(p, Idle) /\ UNCHANGED form
    BY <1>15 DEF Report
  <2> QED BY <1>1, <1>14, <2>1, ErrorIsDrawing
<1>16. CASE ReportFails(p)
  <2>1. Show(work[p].on, Left(msgs[work[p].on])) /\ Become(p, Idle) /\ UNCHANGED form
    BY <1>16 DEF ReportFails
  <2> QED BY <1>1, <1>14, <2>1, ErrorIsDrawing
<1> QED BY <1>6, <1>7, <1>8, <1>9, <1>11, <1>12, <1>13, <1>15, <1>16 DEF Handle

(***************************************************************************)
(* The creators' rows, the drafts and the requests stay well formed        *)
(***************************************************************************)

\* The work on a request changes its status, and may mark it as retried.
StatusSet(i, st, again) ==
  requests' = [requests EXCEPT ![i] = [requests[i] EXCEPT !.status = st, !.retried = again]]

LEMMA StatusChanges ==
  ASSUME RequestsOK, NEW i \in DOMAIN requests, NEW st \in Decisions, NEW again \in BOOLEAN,
         StatusSet(i, st, again)
  PROVE  /\ RequestsOK' /\ DOMAIN requests' = DOMAIN requests
         /\ \A j \in DOMAIN requests :
              /\ requests'[j].by = requests[j].by /\ requests'[j].amount = requests[j].amount
              /\ requests'[j].draft = requests[j].draft
              /\ requests'[j].status = IF j = i THEN st ELSE requests[j].status
              /\ requests'[j].retried = IF j = i THEN again ELSE requests[j].retried
<1> DEFINE r == [requests[i] EXCEPT !.status = st, !.retried = again]
<1>1. \A j \in DOMAIN requests : requests[j] \in Requests
  BY DEF RequestsOK
<1>2. r \in Requests /\ r.by = requests[i].by /\ r.amount = requests[i].amount
      /\ r.draft = requests[i].draft /\ r.status = st /\ r.retried = again
  BY <1>1 DEF Requests
<1>3. requests' = [requests EXCEPT ![i] = r]
  BY DEF StatusSet
<1> HIDE DEF r
<1>4. requests' \in Seq(Requests) /\ DOMAIN requests' = DOMAIN requests
  BY <1>2, <1>3 DEF RequestsOK
<1>5. \A j \in DOMAIN requests : requests'[j] = IF j = i THEN r ELSE requests[j]
  BY <1>3 DEF RequestsOK
<1> QED BY <1>2, <1>4, <1>5 DEF RequestsOK, Requests, Decisions

\* Staff or the creator work on a request that is neither rejected nor cancelled nor
\* completed; one whose disbursement failed is marked, and no mark is removed.
Worked(i, st, again) ==
  /\ StatusSet(i, st, again)
  /\ Reserving(i) \/ again
  /\ requests[i].retried => again

\* What a step does to the requests: one is worked on, or a press makes one.
LEMMA RequestSteps ==
  ASSUME RequestsOK, [Next]_vars
  PROVE  \/ UNCHANGED requests
         \/ \E i \in DOMAIN requests, st \in Decisions, again \in BOOLEAN : Worked(i, st, again)
         \/ \E p \in Presses : Create(p)
<1>0. \A i \in DOMAIN requests : requests[i] \in Requests
  BY DEF RequestsOK
<1>1. ASSUME NEW p \in Presses, CancelRequest(p)
      PROVE  \/ UNCHANGED requests
             \/ \E i \in DOMAIN requests, st \in Decisions, again \in BOOLEAN : Worked(i, st, again)
  <2>1. CASE work[p].item \in DOMAIN requests
    <3> DEFINE i == work[p].item  again == requests[i].retried
    <3>1. i \in DOMAIN requests /\ again \in BOOLEAN /\ "CANCELLED" \in Decisions
      BY <1>0, <2>1 DEF Requests, Decisions
    <3>2. [requests[i] EXCEPT !.status = "CANCELLED", !.retried = again] = [requests[i] EXCEPT !.status = "CANCELLED"]
      BY <1>0, <2>1 DEF Requests
    <3>3. requests' = [requests EXCEPT ![i] = [requests[i] EXCEPT !.status = "CANCELLED"]] /\ Reserving(i)
      BY <1>1 DEF CancelRequest, Reserving
    <3>4. Worked(i, "CANCELLED", again)
      BY <3>2, <3>3 DEF Worked, StatusSet
    <3> HIDE DEF i, again
    <3> QED BY <3>1, <3>4
  <2>2. CASE work[p].item \notin DOMAIN requests
    BY <1>1, <2>2 DEF CancelRequest, RequestsOK
  <2> QED BY <2>1, <2>2
<1>2. ASSUME NEW i \in DOMAIN requests, Decided(i)
      PROVE  \E st \in Decisions, again \in BOOLEAN : Worked(i, st, again)
  <2> DEFINE again == requests[i].retried \/ requests[i].status = "FAILED"
  <2>1. PICK st \in StaffMoves[requests[i].status] :
          requests' = [requests EXCEPT ![i].status = st, ![i].retried = @ \/ requests[i].status = "FAILED"]
    BY <1>2 DEF Decided
  <2>2. requests[i].status \in Decisions /\ requests[i].retried \in BOOLEAN
    BY <1>0 DEF Requests
  <2>3. st \in Decisions /\ (Reserving(i) \/ requests[i].status = "FAILED")
    BY <2>1, <2>2 DEF StaffMoves, Decisions, Reserving, Cancellable
  <2>4. again \in BOOLEAN
    BY <2>2
  <2>5. requests' = [requests EXCEPT ![i] = [requests[i] EXCEPT !.status = st, !.retried = again]]
    BY <2>1, <1>0 DEF Requests, RequestsOK
  <2>6. Worked(i, st, again)
    BY <2>3, <2>5 DEF Worked, StatusSet
  <2> HIDE DEF again
  <2> QED BY <2>3, <2>4, <2>6
<1>3. ASSUME NEW p \in Presses, Handle(p), ~Create(p), ~CancelRequest(p) PROVE UNCHANGED requests
  BY <1>3 DEF Handle, Do, Operation, Join, SendClip, MakeDraft, WaitForUpload, DropDraft, SaveProfile,
              ReadScreen, Consume, Throw, Draw, DrawFails, Report, ReportFails, data
<1>4. CASE UNCHANGED vars
  BY <1>4 DEF vars, data
<1>5. ASSUME NEW p \in Presses, NEW u, NEW m, NEW b, NEW c,
             Press(p, u, m, b) \/ Command(p, u, c) \/ SubmitForm(p, u)
      PROVE  UNCHANGED requests
  BY <1>5 DEF Press, Command, SubmitForm, data
<1>6. ASSUME NEW u, NEW m, NEW c,
             CloseForm(u) \/ Upload(u) \/ Suspended(u) \/ DraftExpires(u) \/ MemberRemoved(u, c)
             \/ Dismiss(m) \/ CampaignChanges(c)
      PROVE  UNCHANGED requests
  BY <1>6 DEF CloseForm, Upload, Suspended, DraftExpires, MemberRemoved, Dismiss, CampaignChanges, data
<1>7. Crash => UNCHANGED requests
  BY DEF Crash
<1> QED BY <1>1, <1>2, <1>3, <1>4, <1>5, <1>6, <1>7 DEF Next

\* What a press that makes a request adds.
RequestMade(p) == [by |-> work[p].by, amount |-> work[p].taken.amount, draft |-> work[p].taken.id,
                  wallet |-> work[p].taken.wallet, status |-> "REQUESTED", retried |-> FALSE]

LEMMA CreateAdds ==
  ASSUME RequestsOK, PressesOK, NEW p \in Presses, Create(p)
  PROVE  /\ RequestsOK' /\ requests' = Append(requests, RequestMade(p))
         /\ work[p].by \in Creators /\ work[p].taken \in Drafts
         /\ DOMAIN requests' = DOMAIN requests \cup {Len(requests) + 1}
         /\ \A i \in DOMAIN requests : requests'[i] = requests[i]
         /\ requests'[Len(requests) + 1] = RequestMade(p)
<1>1. work[p].by \in Creators /\ work[p].taken \in Drafts
  BY DEF Create, PressesOK, IsPress, Idle
<1>2. RequestMade(p) \in Requests
  BY <1>1 DEF RequestMade, Requests, Drafts, Decisions
<1>3. requests' = Append(requests, RequestMade(p))
  BY DEF Create, RequestMade
<1> QED BY <1>1, <1>2, <1>3 DEF RequestsOK

LEMMA RequestsTyped ==
  ASSUME RequestsOK, PressesOK, [Next]_vars
  PROVE  RequestsOK'
<1>1. CASE UNCHANGED requests
  BY <1>1 DEF RequestsOK, Requests, Decisions
<1>2. CASE \E i \in DOMAIN requests, st \in Decisions, again \in BOOLEAN : Worked(i, st, again)
  BY <1>2, StatusChanges DEF Worked
<1>3. CASE \E p \in Presses : Create(p)
  BY <1>3, CreateAdds
<1> QED BY <1>1, <1>2, <1>3, RequestSteps

\* What a step does to the drafts: one is made, with the next number; one is
\* dropped, or taken by a press; one is given its recording; or all are lost.
Drawn(u) == /\ drafts' = drafts + 1
            /\ \E d \in Drafts : d.id = drafts + 1 /\ draft' = [draft EXCEPT ![u] = d]
Dropped(u)  == draft' = [draft EXCEPT ![u] = NoDraft] /\ UNCHANGED drafts
Recorded(u) == /\ draft[u] # NoDraft /\ draft' = [draft EXCEPT ![u].evidence = TRUE]
               /\ UNCHANGED drafts
Forgotten   == draft' = [u \in Creators |-> NoDraft] /\ UNCHANGED drafts

LEMMA OperationTyped ==
  ASSUME Sound, NEW p \in Presses, Do(p)
  PROVE  /\ UNCHANGED <<draft, drafts>> \/ \E u \in Creators : Drawn(u) \/ Dropped(u)
         /\ CreatorsOK'
<1>1. IsPress(work[p]) /\ work[p].by \in Creators /\ work[p].do \in CustomIds
  BY DEF Do, Idle, Sound, PressesOK, IsPress
<1>2. work[p].stage = "do"
  BY DEF Do
<1> DEFINE u == work[p].by
<1>3. CASE UNCHANGED <<data, drafts>>
  BY <1>3 DEF data, Sound, CreatorsOK
<1>4. CASE Join(p)
  BY <1>1, <1>4 DEF Join, Joining, Sound, CreatorsOK
<1>5. CASE SendClip(p)
  BY <1>5 DEF SendClip, Sound, CreatorsOK
<1>6. CASE H(p).does = "draft" /\ MakeDraft(p)
  <2>1. work[p].amount \in Amounts
    BY <1>1, <1>6, RouterKnows DEF H, Routed, IsPress
  <2>2. drafts \in Nat /\ profile[u] \in Nat
    BY <1>1 DEF Sound, DraftsOK, CreatorsOK
  <2>3. [id |-> drafts + 1, amount |-> work[p].amount, wallet |-> profile[u], evidence |-> FALSE] \in Drafts
    BY <2>1, <2>2 DEF Drafts
  <2>4. Drawn(u)
    BY <1>6, <2>3 DEF MakeDraft, Drawn
  <2>5. CreatorsOK'
    BY <1>1, <1>6 DEF MakeDraft, Sound, CreatorsOK
  <2> QED BY <1>1, <2>4, <2>5
<1>7. CASE WaitForUpload(p)
  BY <1>1, <1>7 DEF WaitForUpload, Sound, CreatorsOK
<1>8. CASE DropDraft(p)
  BY <1>1, <1>8 DEF DropDraft, Dropped, Sound, CreatorsOK
<1>9. CASE SaveProfile(p)
  BY <1>1, <1>9 DEF SaveProfile, Sound, CreatorsOK
<1>10. CASE CancelRequest(p)
  BY <1>10 DEF CancelRequest, Sound, CreatorsOK
<1> QED BY <1>3, <1>4, <1>5, <1>6, <1>7, <1>8, <1>9, <1>10 DEF Do, Operation

LEMMA DraftSteps ==
  ASSUME Sound, [Next]_vars
  PROVE  /\ \/ UNCHANGED <<draft, drafts>> \/ Forgotten
            \/ \E u \in Creators : Drawn(u) \/ Dropped(u) \/ Recorded(u)
         /\ CreatorsOK'
<1> DEFINE Goal == /\ \/ UNCHANGED <<draft, drafts>> \/ Forgotten
                      \/ \E u \in Creators : Drawn(u) \/ Dropped(u) \/ Recorded(u)
                   /\ CreatorsOK'
<1>0. scene.creators \subseteq Creators
  BY CreatorPanelConstants DEF Sound
<1>1. CASE UNCHANGED <<data, drafts>>
  BY <1>1 DEF data, Sound, CreatorsOK
<1>2. ASSUME NEW p \in Presses, Handle(p) PROVE Goal
  <2>1. CASE Do(p)
    BY <2>1, OperationTyped
  <2>2. CASE ReadScreen(p) \/ Throw(p) \/ Draw(p) \/ DrawFails(p) \/ Report(p) \/ ReportFails(p)
    BY <1>1, <2>2 DEF ReadScreen, Throw, Draw, DrawFails, Report, ReportFails, counts
  <2>3. CASE Consume(p)
    <3>1. work[p].by \in Creators
      BY <2>3 DEF Consume, Idle, Sound, PressesOK, IsPress
    <3> QED BY <2>3, <3>1 DEF Consume, Consumed, Dropped, counts, Sound, CreatorsOK
  <2>4. CASE Create(p)
    BY <2>4 DEF Create, counts, Sound, CreatorsOK
  <2> QED BY <1>2, <2>1, <2>2, <2>3, <2>4 DEF Handle
<1>3. ASSUME NEW p \in Presses, NEW u \in Creators, NEW m, NEW b, NEW c,
             Press(p, u, m, b) \/ Command(p, u, c) \/ SubmitForm(p, u)
      PROVE  Goal
  BY <1>1, <1>3 DEF Press, Command, SubmitForm, counts
<1>4. ASSUME NEW u \in Creators, CloseForm(u) \/ Upload(u) \/ Suspended(u) \/ DraftExpires(u)
      PROVE  Goal
  <2>1. CASE CloseForm(u)
    BY <1>1, <2>1 DEF CloseForm, counts
  <2>2. CASE Upload(u)
    BY <2>2 DEF Upload, Recorded, counts, Sound, CreatorsOK
  <2>3. CASE Suspended(u)
    BY <2>3 DEF Suspended, Sound, CreatorsOK
  <2>4. CASE DraftExpires(u)
    BY <2>4 DEF DraftExpires, Dropped, Sound, CreatorsOK
  <2> QED BY <1>4, <2>1, <2>2, <2>3, <2>4
<1>9. ASSUME NEW u \in Creators, NEW c \in Campaigns, MemberRemoved(u, c) PROVE Goal
  BY <1>9 DEF MemberRemoved, Sound, CreatorsOK
<1>5. ASSUME NEW m \in Messages, Dismiss(m) PROVE Goal
  BY <1>1, <1>5 DEF Dismiss, counts
<1>6. ASSUME NEW c \in Campaigns, CampaignChanges(c) PROVE Goal
  BY <1>6 DEF CampaignChanges, Sound, CreatorsOK
<1>7. ASSUME NEW i, Decided(i) PROVE Goal
  BY <1>7 DEF Decided, Sound, CreatorsOK
<1>8. CASE UNCHANGED vars
  BY <1>1, <1>8 DEF vars, counts
<1>10. CASE Crash
  BY <1>10 DEF Crash, Forgotten, Sound, CreatorsOK
<1> QED BY <1>0, <1>2, <1>3, <1>4, <1>5, <1>6, <1>7, <1>8, <1>9, <1>10 DEF Next

LEMMA DraftsTyped ==
  ASSUME Sound, [Next]_vars
  PROVE  DraftsOK'
<1>1. DraftsOK
  BY DEF Sound
<1>2. CASE UNCHANGED <<draft, drafts>>
  BY <1>1, <1>2 DEF DraftsOK, Drafts, NoDraft
<1>3. ASSUME NEW u \in Creators, Drawn(u) PROVE DraftsOK'
  BY <1>1, <1>3 DEF DraftsOK, Drawn
<1>4. ASSUME NEW u \in Creators, Dropped(u) PROVE DraftsOK'
  BY <1>1, <1>4 DEF DraftsOK, Dropped
<1>5. ASSUME NEW u \in Creators, Recorded(u) PROVE DraftsOK'
  <2>1. draft[u] \in Drafts
    BY <1>1, <1>5 DEF DraftsOK, Recorded
  <2>2. [draft[u] EXCEPT !.evidence = TRUE] \in Drafts
    BY <2>1 DEF Drafts
  <2> QED BY <1>1, <1>5, <2>2 DEF DraftsOK, Recorded
<1>6. CASE Forgotten
  BY <1>1, <1>6 DEF DraftsOK, Forgotten
<1> QED BY <1>2, <1>3, <1>4, <1>5, <1>6, DraftSteps

(***************************************************************************)
(* Type correctness                                                        *)
(***************************************************************************)

LEMMA ScreenSteps ==
  ASSUME Sound, [Next]_vars
  PROVE  ScreensOK' /\ UNCHANGED scene
<1>0. ScreensOK /\ DraftsOK
  BY DEF Sound, ScreensOK
<1>1. scene.creators \subseteq Creators /\ scene.commands \subseteq Commands
  BY CreatorPanelConstants DEF Sound
<1>2. ASSUME UNCHANGED <<msgs, form, work>> PROVE ScreensOK'
  BY <1>0, <1>2, OthersTyped, ScreensKept DEF ScreensOK
<1>3. ASSUME NEW p \in Presses, Handle(p) PROVE ScreensOK' /\ UNCHANGED scene
  <2>1. UNCHANGED scene
    BY <1>3 DEF Handle, Do, ReadScreen, Consume, Create, Throw, Draw, DrawFails, Report, ReportFails
  <2> QED BY <1>0, <1>3, <2>1, HandleStep
<1>4. ASSUME NEW p \in Presses, NEW u \in Creators, NEW m \in Messages, NEW b \in Buttons(msgs[m]),
             Press(p, u, m, b)
      PROVE  ScreensOK' /\ UNCHANGED scene
  BY <1>0, <1>4, PressStep DEF Press
<1>5. ASSUME NEW p \in Presses, NEW u \in Creators, NEW c \in Commands, Command(p, u, c)
      PROVE  ScreensOK' /\ UNCHANGED scene
  BY <1>0, <1>5, CommandStep DEF Command
<1>6. ASSUME NEW p \in Presses, NEW u \in Creators, SubmitForm(p, u)
      PROVE  ScreensOK' /\ UNCHANGED scene
  BY <1>0, <1>6, SubmitFormStep DEF SubmitForm
<1>7. ASSUME NEW u \in Creators, CloseForm(u) PROVE ScreensOK' /\ UNCHANGED scene
  <2>1. FormsOK'
    <3>1. IsForm(NoForm) /\ OpenForm(u, NoForm)
      BY <1>7 DEF IsForm, CloseForm
    <3> QED BY <1>0, <3>1, OpenTyped DEF ScreensOK
  <2>2. MessagesOK' /\ UNCHANGED <<msgs, work, scene>>
    BY <1>0, <1>7, ScreensKept DEF CloseForm, ScreensOK
  <2> QED BY <1>0, <2>1, <2>2, OthersTyped
<1>8. ASSUME NEW u \in Creators, Upload(u) PROVE ScreensOK' /\ UNCHANGED scene
  <2> DEFINE v == [View("received", u) EXCEPT !.public = TRUE]
  <2>1. IsDrawing(v)
    <3>1. IsView(View("received", u)) /\ View("received", u).screen = "received"
      BY ViewIsView
    <3>2. Same(View("received", u), v)
      BY <3>1, Edited
    <3> QED BY <3>1, <3>2 DEF Same, IsDrawing
  <2>2. UNCHANGED <<form, work, scene>> /\ \E m \in Free : Show(m, v)
    BY <1>8 DEF Upload
  <2> HIDE DEF v
  <2>3. PICK m \in Free : Show(m, v)
    BY <2>2
  <2>4. FormsOK'
    BY <1>0, <2>2, ScreensKept DEF ScreensOK
  <2>5. MessagesOK' /\ \A n \in Messages : IsDrawing(msgs[n]) => msgs'[n] = msgs[n] \/ IsDrawing(msgs'[n])
    BY <1>0, <2>1, <2>3, FreshTyped
  <2> QED BY <1>0, <2>2, <2>4, <2>5, OthersTyped
<1>9. ASSUME NEW m \in Messages, Dismiss(m) PROVE ScreensOK' /\ UNCHANGED scene
  <2>1. Show(m, Closed) /\ UNCHANGED <<form, work, scene>>
    BY <1>9 DEF Dismiss
  <2>2. FormsOK'
    BY <1>0, <2>1, ScreensKept DEF ScreensOK
  <2>3. MessagesOK' /\ \A n \in Messages : msgs'[n] = IF n = m THEN Closed ELSE msgs[n]
    BY <1>0, <2>1, ShowTyped, ShowKeeps DEF ScreensOK
  <2>4. \A p \in Presses : work[p] # Idle => work[p].on # m
    BY <1>9 DEF Dismiss
  <2> QED BY <1>0, <2>1, <2>2, <2>3, <2>4, OthersTyped
<1>10. ASSUME NEW u, NEW c, NEW i,
              Suspended(u) \/ DraftExpires(u) \/ MemberRemoved(u, c) \/ CampaignChanges(c) \/ Decided(i)
       PROVE  UNCHANGED <<msgs, form, work, scene>>
  BY <1>10 DEF Suspended, DraftExpires, MemberRemoved, CampaignChanges, Decided
<1>11. CASE UNCHANGED vars
  BY <1>2, <1>11 DEF vars
<1>12. CASE \E p \in Presses, u \in scene.creators :
              \/ \E m \in Messages : msgs[m] # Closed /\ \E b \in Buttons(msgs[m]) : Press(p, u, m, b)
              \/ \E c \in scene.commands : Command(p, u, c)
              \/ SubmitForm(p, u)
  <2>1. PICK p \in Presses, u \in Creators :
          \/ \E m \in Messages : \E b \in Buttons(msgs[m]) : Press(p, u, m, b)
          \/ \E c \in Commands : Command(p, u, c)
          \/ SubmitForm(p, u)
    BY <1>1, <1>12
  <2> QED BY <1>4, <1>5, <1>6, <2>1
<1>13. CASE \E u \in scene.creators : \/ CloseForm(u) \/ Upload(u) \/ Suspended(u) \/ DraftExpires(u)
                                      \/ \E c \in Campaigns : MemberRemoved(u, c)
  BY <1>1, <1>2, <1>7, <1>8, <1>10, <1>13
<1>14. CASE \/ \E c \in Campaigns : CampaignChanges(c)
            \/ \E i \in DOMAIN requests : Decided(i)
  BY <1>2, <1>10, <1>14
<1>15. CASE Crash
  BY <1>0, <1>15, CrashTyped DEF Crash
<1> QED BY <1>3, <1>9, <1>11, <1>12, <1>13, <1>14, <1>15 DEF Next

LEMMA InitSound == Init => Sound
<1> SUFFICES ASSUME Init PROVE Sound
  OBVIOUS
<1>1. scene \in Scenes
  BY DEF Init
<1>2. CreatorsOK
  BY DEF Init, CreatorsOK
<1>3. DraftsOK /\ RequestsOK
  BY DEF Init, DraftsOK, RequestsOK
<1>4. FormsOK /\ MessagesOK
  BY DEF Init, FormsOK, IsForm, MessagesOK
<1>5. PressesOK /\ WorkedOn
  BY DEF Init, PressesOK, WorkedOn
<1> QED BY <1>1, <1>2, <1>3, <1>4, <1>5 DEF Sound

LEMMA SoundStep == Sound /\ [Next]_vars => Sound'
<1> SUFFICES ASSUME Sound, [Next]_vars PROVE Sound'
  OBVIOUS
<1>1. scene' \in Scenes /\ ScreensOK'
  BY ScreenSteps DEF Sound
<1>2. CreatorsOK' /\ DraftsOK'
  BY DraftSteps, DraftsTyped
<1>3. RequestsOK'
  BY RequestsTyped DEF Sound
<1> QED BY <1>1, <1>2, <1>3 DEF Sound, ScreensOK

LEMMA SoundAlways == Spec => []Sound
BY InitSound, SoundStep, PTL DEF Spec

LEMMA SoundTyped == Sound => TypeOK
<1> SUFFICES ASSUME Sound PROVE TypeOK
  OBVIOUS
<1>1. ASSUME NEW m \in Messages, msgs[m] # Closed
      PROVE  /\ msgs[m].by \in Creators /\ msgs[m].public \in BOOLEAN
             /\ \A b \in Buttons(msgs[m]) : b.do \in CustomIds /\ Routes[b.do] # Unrecognized
  <2>1. IsView(msgs[m])
    BY <1>1 DEF Sound, MessagesOK
  <2>2. \A b \in Buttons(msgs[m]) : b.do \in CustomIds
    BY <2>1, Offered DEF IsView, Pressed
  <2> QED BY <2>1, <2>2, RouterKnows DEF IsView
<1>2. ASSUME NEW u \in Creators
      PROVE  /\ member[u] \subseteq Campaigns /\ profile[u] \in Nat
             /\ draft[u] = NoDraft \/ draft[u].amount \in Amounts
             /\ form[u].kind \in {"", "amount", "profile", "clip"}
  <2>1. member[u] \subseteq Campaigns /\ profile[u] \in Nat
    BY DEF Sound, CreatorsOK
  <2>2. draft[u] = NoDraft \/ draft[u].amount \in Amounts
    BY DEF Sound, DraftsOK, Drafts
  <2>3. form[u].kind \in {"", "amount", "profile", "clip"}
    <3>1. IsForm(form[u])
      BY DEF Sound, FormsOK
    <3>2. NoForm.kind = ""
      BY DEF NoForm
    <3> QED BY <3>1, <3>2 DEF IsForm
  <2> QED BY <2>1, <2>2, <2>3
<1>3. open \subseteq Campaigns /\ active \subseteq Creators /\ waiting \subseteq Creators
  BY DEF Sound, CreatorsOK
<1>4. \A p \in Presses : work[p] = Idle \/ work[p].stage \in {"do", "read", "create", "draw", "report"}
  BY DEF Sound, PressesOK, IsPress, Stages
<1> QED BY <1>1, <1>2, <1>3, <1>4 DEF TypeOK

\* Type correctness, and that every button under every message is one the router
\* knows (router.js: no press of a creator is answered as unrecognized).
THEOREM TypeCorrect == Spec => []TypeOK
BY SoundAlways, SoundTyped, PTL

(***************************************************************************)
(* One request of a draft.  The property alone is not inductive: it must   *)
(* be known that no draft that is still held has a number that a request   *)
(* has, and that the next number is new.                                   *)
(***************************************************************************)

\* The drafts are numbered; a number is in at most one place: the creator's
\* draft, a press that took it, or a request.
TakenId(p) == IF work[p] # Idle /\ work[p].stage = "create" THEN work[p].taken.id ELSE 0

Numbered ==
  /\ \A u \in Creators : draft[u].id <= drafts
  /\ \A p \in Presses : TakenId(p) <= drafts
  /\ \A i \in DOMAIN requests : requests[i].draft <= drafts

Apart ==
  /\ \A u, v \in Creators : draft[u].id # 0 /\ draft[u].id = draft[v].id => u = v
  /\ \A p, q \in Presses : TakenId(p) # 0 /\ TakenId(p) = TakenId(q) => p = q
  /\ \A u \in Creators, p \in Presses : draft[u].id # 0 => draft[u].id # TakenId(p)
  /\ \A u \in Creators, i \in DOMAIN requests : draft[u].id # requests[i].draft
  /\ \A p \in Presses, i \in DOMAIN requests : TakenId(p) # requests[i].draft
  /\ OneRequestPerDraft

NumberedApart == Numbered /\ Apart

DraftIdsStay   == \A u \in Creators : draft'[u].id \in {draft[u].id, 0}
TakenIdsStay   == \A p \in Presses : TakenId(p)' \in {TakenId(p), 0}
RequestIdsStay == /\ DOMAIN requests' = DOMAIN requests
                  /\ \A i \in DOMAIN requests : requests'[i].draft = requests[i].draft

LEMMA IdsTyped ==
  ASSUME Sound
  PROVE  /\ drafts \in Nat
         /\ \A u \in Creators : draft[u].id \in Nat
         /\ \A p \in Presses : TakenId(p) \in Nat
         /\ \A i \in DOMAIN requests : requests[i].draft \in Nat \ {0}
<1>1. drafts \in Nat
  BY DEF Sound, DraftsOK
<1>2. ASSUME NEW u \in Creators PROVE draft[u].id \in Nat
  <2>1. draft[u] \in Drafts \/ draft[u] = NoDraft
    BY DEF Sound, DraftsOK
  <2> QED BY <2>1 DEF Drafts, NoDraft
<1>3. ASSUME NEW p \in Presses PROVE TakenId(p) \in Nat
  <2>1. work[p] # Idle /\ work[p].stage = "create" => work[p].taken \in Drafts
    BY DEF Sound, PressesOK, IsPress
  <2> QED BY <2>1 DEF TakenId, Drafts
<1>4. ASSUME NEW i \in DOMAIN requests PROVE requests[i].draft \in Nat \ {0}
  <2>1. requests[i] \in Requests
    BY DEF Sound, RequestsOK
  <2> QED BY <2>1 DEF Requests
<1> QED BY <1>1, <1>2, <1>3, <1>4

\* A press only comes to hold a draft by taking the creator's.
Takes(p) ==
  LET u == work[p].by IN
  /\ u \in Creators /\ TakenId(p) = 0 /\ TakenId(p)' = draft[u].id /\ draft'[u].id = 0
  /\ UNCHANGED <<drafts, requests>>
  /\ \A v \in Creators \ {u} : draft'[v] = draft[v]
  /\ \A q \in Presses \ {p} : TakenId(q)' = TakenId(q)

LEMMA ConsumeTakes ==
  ASSUME Sound, NEW p \in Presses, Consume(p)
  PROVE  TakenIdsStay \/ Takes(p)
<1> DEFINE u == work[p].by  d == draft[u]
<1>1. IsPress(work[p]) /\ u \in Creators /\ work[p].stage = "do"
  BY DEF Consume, Idle, Sound, PressesOK, IsPress
<1>2. draft' = [draft EXCEPT ![u] = NoDraft] /\ UNCHANGED <<drafts, requests>>
  BY DEF Consume, Consumed, counts
<1>3. draft'[u].id = 0 /\ \A v \in Creators \ {u} : draft'[v] = draft[v]
  BY <1>1, <1>2 DEF Sound, DraftsOK, NoDraft
<1>4. TakenId(p) = 0
  BY <1>1 DEF TakenId
<1>5. CASE Then(p, Missing(u))
  <2>1. work' = [work EXCEPT ![p] = [work[p] EXCEPT !.stage = "draw", !.view = Missing(u)]]
    BY <1>5 DEF Then, Become
  <2>2. [work[p] EXCEPT !.stage = "draw", !.view = Missing(u)].stage = "draw"
    BY <1>1 DEF IsPress, IsWork
  <2>3. \A q \in Presses : work'[q] = IF q = p THEN [work[p] EXCEPT !.stage = "draw", !.view = Missing(u)] ELSE work[q]
    BY <2>1 DEF Sound, PressesOK
  <2> QED BY <2>2, <2>3 DEF TakenIdsStay, TakenId
<1>6. CASE Become(p, [work[p] EXCEPT !.stage = "create", !.taken = d])
  <2> DEFINE x == [work[p] EXCEPT !.stage = "create", !.taken = d]
  <2>1. x.stage = "create" /\ x.taken = d
    BY <1>1 DEF IsPress, IsWork
  <2>2. \A q \in Presses : work'[q] = IF q = p THEN x ELSE work[q]
    BY <1>6 DEF Become, Sound, PressesOK
  <2> HIDE DEF x
  <2>3. x # Idle
    BY <2>1 DEF Idle
  <2>4. TakenId(p)' = d.id /\ \A q \in Presses \ {p} : TakenId(q)' = TakenId(q)
    BY <2>1, <2>2, <2>3 DEF TakenId, Idle
  <2> QED BY <1>1, <1>2, <1>3, <1>4, <2>4 DEF Takes
<1> QED BY <1>5, <1>6 DEF Consume

LEMMA TakenSteps ==
  ASSUME Sound, [Next]_vars
  PROVE  TakenIdsStay \/ \E p \in Presses : Takes(p)
<1>1. ASSUME NEW p \in Presses, NEW x, Become(p, x), x = Idle \/ x.stage # "create"
      PROVE  TakenIdsStay
  <2>1. \A q \in Presses : work'[q] = IF q = p THEN x ELSE work[q]
    BY <1>1 DEF Become, Sound, PressesOK
  <2> QED BY <1>1, <2>1 DEF TakenIdsStay, TakenId, Idle
<1>2. ASSUME UNCHANGED work PROVE TakenIdsStay
  BY <1>2 DEF TakenIdsStay, TakenId, Idle
<1>3. ASSUME NEW p \in Presses, IsPress(work[p]), NEW v, Then(p, v) PROVE TakenIdsStay
  <2>1. [work[p] EXCEPT !.stage = "draw", !.view = v].stage = "draw"
    BY <1>3 DEF IsPress, IsWork
  <2> QED BY <1>1, <1>3, <2>1 DEF Then
<1>4. ASSUME NEW p \in Presses, Handle(p) PROVE TakenIdsStay \/ Takes(p)
  <2>1. IsPress(work[p])
    <3>1. work[p] # Idle
      BY <1>4 DEF Handle, Do, ReadScreen, Consume, Create, Throw, Draw, DrawFails, Report, ReportFails, Idle
    <3> QED BY <3>1 DEF Sound, PressesOK
  <2>2. CASE Do(p)
    <3>1. [work[p] EXCEPT !.stage = "read"].stage = "read"
      BY <2>1 DEF IsPress, IsWork
    <3> QED BY <1>1, <2>2, <3>1 DEF Do
  <2>3. CASE ReadScreen(p)
    BY <1>3, <2>1, <2>3 DEF ReadScreen
  <2>4. CASE Consume(p)
    BY <2>4, ConsumeTakes
  <2>5. CASE Create(p)
    BY <1>3, <2>1, <2>5 DEF Create
  <2>8. ASSUME Become(p, [work[p] EXCEPT !.stage = "report"]) PROVE TakenIdsStay
    <3>1. [work[p] EXCEPT !.stage = "report"].stage = "report"
      BY <2>1 DEF IsPress, IsWork
    <3> QED BY <1>1, <2>8, <3>1
  <2>6. CASE Throw(p)
    <3>1. CASE Then(p, View("not_cancelled", work[p].by))
      BY <1>3, <2>1, <3>1
    <3> QED BY <2>6, <2>8, <3>1 DEF Throw
  <2>7. CASE Draw(p) \/ DrawFails(p) \/ Report(p) \/ ReportFails(p)
    BY <1>1, <2>7, <2>8 DEF Draw, DrawFails, Report, ReportFails
  <2> QED BY <1>4, <2>2, <2>3, <2>4, <2>5, <2>6, <2>7 DEF Handle
<1>5. ASSUME NEW u, NEW m, NEW b, NEW a, NEW k \in BOOLEAN PROVE Begin(u, m, b, a, k).stage # "create"
  BY DEF Begin
<1>6. ASSUME NEW p \in Presses, NEW u, NEW m, NEW b, Press(p, u, m, b) PROVE TakenIdsStay
  <2>1. UNCHANGED work \/ \E n : \E k \in BOOLEAN : Become(p, Begin(u, n, b, msgs[m].amount, k))
    BY <1>6 DEF Press
  <2>2. ASSUME NEW n, NEW k \in BOOLEAN, Become(p, Begin(u, n, b, msgs[m].amount, k)) PROVE TakenIdsStay
    <3>1. Begin(u, n, b, msgs[m].amount, k).stage # "create"
      BY <1>5
    <3> QED BY <1>1, <2>2, <3>1
  <2> QED BY <1>2, <2>1, <2>2
<1>7. ASSUME NEW p \in Presses, NEW u, NEW c, Command(p, u, c) PROVE TakenIdsStay
  <2> DEFINE b == [do |-> c, item |-> None]
  <2>1. UNCHANGED work \/ \E m \in Free, k \in BOOLEAN : Become(p, Begin(u, m, b, None, k))
    BY <1>7 DEF Command
  <2> HIDE DEF b
  <2>2. ASSUME NEW m \in Free, NEW k \in BOOLEAN, Become(p, Begin(u, m, b, None, k)) PROVE TakenIdsStay
    <3>1. Begin(u, m, b, None, k).stage # "create"
      BY <1>5
    <3> QED BY <1>1, <2>2, <3>1
  <2> QED BY <1>2, <2>1, <2>2
<1>8. ASSUME NEW p \in Presses, NEW u, SubmitForm(p, u) PROVE TakenIdsStay
  <2> DEFINE b == [do |-> Sent[form[u].kind], item |-> form[u].item]
  <2>1. \E a, m : \E k \in BOOLEAN : Become(p, Begin(u, m, b, a, k))
    BY <1>8 DEF SubmitForm
  <2> HIDE DEF b
  <2>2. ASSUME NEW a, NEW m, NEW k \in BOOLEAN, Become(p, Begin(u, m, b, a, k)) PROVE TakenIdsStay
    <3>1. Begin(u, m, b, a, k).stage # "create"
      BY <1>5
    <3> QED BY <1>1, <2>2, <3>1
  <2> QED BY <2>1, <2>2
<1>9. ASSUME NEW u, NEW m, NEW c, NEW i,
             CloseForm(u) \/ Upload(u) \/ Suspended(u) \/ DraftExpires(u) \/ MemberRemoved(u, c)
             \/ Dismiss(m) \/ CampaignChanges(c) \/ Decided(i)
      PROVE  UNCHANGED work
  BY <1>9 DEF CloseForm, Upload, Suspended, DraftExpires, MemberRemoved, Dismiss, CampaignChanges, Decided
<1>10. CASE UNCHANGED vars
  BY <1>2, <1>10 DEF vars
<1>11. CASE Crash
  BY <1>11, IdsTyped DEF Crash, TakenIdsStay, TakenId
<1> QED BY <1>2, <1>4, <1>6, <1>7, <1>8, <1>9, <1>10, <1>11 DEF Next

\* What a step does to the numbers: they stay, or one is drawn, or taken by a
\* press, or written into a request.
LEMMA IdSteps ==
  ASSUME Sound, [Next]_vars
  PROVE  \/ DraftIdsStay /\ TakenIdsStay /\ RequestIdsStay /\ UNCHANGED drafts
         \/ \E u \in Creators : Drawn(u) /\ TakenIdsStay /\ RequestIdsStay
         \/ \E p \in Presses : Takes(p)
         \/ \E p \in Presses : Create(p)
<1>1. (\E p \in Presses : Create(p)) \/ RequestIdsStay
  <2>1. CASE UNCHANGED requests
    BY <2>1 DEF RequestIdsStay
  <2>2. CASE \E i \in DOMAIN requests, st \in Decisions, again \in BOOLEAN : Worked(i, st, again)
    BY <2>2, StatusChanges DEF RequestIdsStay, Sound, Worked
  <2> QED BY <2>1, <2>2, RequestSteps DEF Sound
<1>2. (\E u \in Creators : Drawn(u)) \/ (DraftIdsStay /\ UNCHANGED drafts)
  <2>1. CASE UNCHANGED <<draft, drafts>>
    BY <2>1 DEF DraftIdsStay
  <2>2. ASSUME NEW u \in Creators, Dropped(u) PROVE DraftIdsStay /\ UNCHANGED drafts
    BY <2>2 DEF Dropped, DraftIdsStay, Sound, DraftsOK, NoDraft
  <2>3. ASSUME NEW u \in Creators, Recorded(u) PROVE DraftIdsStay /\ UNCHANGED drafts
    <3>1. draft[u] \in Drafts
      BY <2>3 DEF Recorded, Sound, DraftsOK
    <3>2. [draft[u] EXCEPT !.evidence = TRUE].id = draft[u].id
      BY <3>1 DEF Drafts
    <3>3. \A v \in Creators : draft'[v] = IF v = u THEN [draft[u] EXCEPT !.evidence = TRUE] ELSE draft[v]
      BY <2>3 DEF Recorded, Sound, DraftsOK
    <3> QED BY <2>3, <3>2, <3>3 DEF Recorded, DraftIdsStay
  <2>4. CASE Forgotten
    BY <2>4 DEF Forgotten, DraftIdsStay, NoDraft
  <2> QED BY <2>1, <2>2, <2>3, <2>4, DraftSteps
<1> QED BY <1>1, <1>2, TakenSteps

LEMMA ApartKept ==
  ASSUME Sound, NumberedApart, DraftIdsStay, TakenIdsStay, RequestIdsStay, UNCHANGED drafts
  PROVE  NumberedApart'
<1>1. Numbered'
  <2>1. \A u \in Creators : draft'[u].id <= drafts'
    BY IdsTyped DEF NumberedApart, Numbered, DraftIdsStay
  <2>2. \A p \in Presses : TakenId(p)' <= drafts'
    BY IdsTyped DEF NumberedApart, Numbered, TakenIdsStay
  <2>3. \A i \in DOMAIN requests' : requests'[i].draft <= drafts'
    BY DEF NumberedApart, Numbered, RequestIdsStay
  <2> QED BY <2>1, <2>2, <2>3 DEF Numbered
<1>2. Apart'
  <2>1. \A u, v \in Creators : draft'[u].id # 0 /\ draft'[u].id = draft'[v].id => u = v
    BY DEF NumberedApart, Apart, DraftIdsStay
  <2>2. \A p, q \in Presses : TakenId(p)' # 0 /\ TakenId(p)' = TakenId(q)' => p = q
    BY DEF NumberedApart, Apart, TakenIdsStay
  <2>3. \A u \in Creators, p \in Presses : draft'[u].id # 0 => draft'[u].id # TakenId(p)'
    BY DEF NumberedApart, Apart, DraftIdsStay, TakenIdsStay
  <2>4. \A u \in Creators, i \in DOMAIN requests' : draft'[u].id # requests'[i].draft
    BY IdsTyped DEF NumberedApart, Apart, DraftIdsStay, RequestIdsStay
  <2>5. \A p \in Presses, i \in DOMAIN requests' : TakenId(p)' # requests'[i].draft
    BY IdsTyped DEF NumberedApart, Apart, TakenIdsStay, RequestIdsStay
  <2>6. OneRequestPerDraft'
    BY DEF NumberedApart, Apart, OneRequestPerDraft, RequestIdsStay
  <2> QED BY <2>1, <2>2, <2>3, <2>4, <2>5, <2>6 DEF Apart
<1> QED BY <1>1, <1>2 DEF NumberedApart

\* A draft gets a number that is in no place.
LEMMA ApartDrawn ==
  ASSUME Sound, NumberedApart, NEW u \in Creators, Drawn(u), TakenIdsStay, RequestIdsStay
  PROVE  NumberedApart'
<1>1. /\ drafts' = drafts + 1 /\ drafts \in Nat /\ draft'[u].id = drafts + 1
      /\ \A v \in Creators \ {u} : draft'[v] = draft[v]
  BY IdsTyped DEF Drawn, Sound, DraftsOK
<1>2. /\ \A v \in Creators : draft[v].id \in Nat /\ draft[v].id <= drafts
      /\ \A p \in Presses : TakenId(p)' \in Nat /\ TakenId(p)' <= drafts
      /\ \A i \in DOMAIN requests' : requests'[i].draft \in Nat \ {0} /\ requests'[i].draft <= drafts
  BY IdsTyped DEF NumberedApart, Numbered, TakenIdsStay, RequestIdsStay
<1>3. Numbered'
  BY <1>1, <1>2 DEF Numbered
<1>4. Apart'
  <2>1. \A v, w \in Creators : draft'[v].id # 0 /\ draft'[v].id = draft'[w].id => v = w
    BY <1>1, <1>2 DEF NumberedApart, Apart
  <2>2. \A p, q \in Presses : TakenId(p)' # 0 /\ TakenId(p)' = TakenId(q)' => p = q
    BY DEF NumberedApart, Apart, TakenIdsStay
  <2>3. ASSUME NEW v \in Creators, NEW p \in Presses, draft'[v].id # 0
        PROVE  draft'[v].id # TakenId(p)'
    <3>1. CASE v = u
      BY <1>1, <1>2, <3>1
    <3>2. CASE v # u
      BY <1>1, <2>3, <3>2 DEF NumberedApart, Apart, TakenIdsStay
    <3> QED BY <3>1, <3>2
  <2>4. ASSUME NEW v \in Creators, NEW i \in DOMAIN requests' PROVE draft'[v].id # requests'[i].draft
    <3>1. CASE v = u
      BY <1>1, <1>2, <3>1
    <3>2. CASE v # u
      BY <1>1, <3>2 DEF NumberedApart, Apart, RequestIdsStay
    <3> QED BY <3>1, <3>2
  <2>5. \A p \in Presses, i \in DOMAIN requests' : TakenId(p)' # requests'[i].draft
    BY IdsTyped DEF NumberedApart, Apart, TakenIdsStay, RequestIdsStay
  <2>6. OneRequestPerDraft'
    BY DEF NumberedApart, Apart, OneRequestPerDraft, RequestIdsStay
  <2> QED BY <2>1, <2>2, <2>3, <2>4, <2>5, <2>6 DEF Apart
<1> QED BY <1>3, <1>4 DEF NumberedApart

\* A number moves from the creator to the press.
LEMMA ApartTaken ==
  ASSUME Sound, NumberedApart, NEW p \in Presses, Takes(p)
  PROVE  NumberedApart'
<1> DEFINE u == work[p].by
<1>1. /\ u \in Creators /\ TakenId(p)' = draft[u].id /\ draft'[u].id = 0
      /\ drafts' = drafts /\ requests' = requests
      /\ \A v \in Creators \ {u} : draft'[v] = draft[v]
      /\ \A q \in Presses \ {p} : TakenId(q)' = TakenId(q)
  BY DEF Takes
<1> HIDE DEF u
<1>2. Numbered'
  <2>1. \A v \in Creators : draft'[v].id <= drafts'
    BY <1>1, IdsTyped DEF NumberedApart, Numbered
  <2>2. \A q \in Presses : TakenId(q)' <= drafts'
    BY <1>1 DEF NumberedApart, Numbered
  <2>3. \A i \in DOMAIN requests' : requests'[i].draft <= drafts'
    BY <1>1 DEF NumberedApart, Numbered
  <2> QED BY <2>1, <2>2, <2>3 DEF Numbered
<1>3. Apart'
  <2>1. \A v, w \in Creators : draft'[v].id # 0 /\ draft'[v].id = draft'[w].id => v = w
    BY <1>1 DEF NumberedApart, Apart
  <2>2. \A q, r \in Presses : TakenId(q)' # 0 /\ TakenId(q)' = TakenId(r)' => q = r
    BY <1>1 DEF NumberedApart, Apart
  <2>3. \A v \in Creators, q \in Presses : draft'[v].id # 0 => draft'[v].id # TakenId(q)'
    BY <1>1 DEF NumberedApart, Apart
  <2>4. \A v \in Creators, i \in DOMAIN requests' : draft'[v].id # requests'[i].draft
    BY <1>1, IdsTyped DEF NumberedApart, Apart
  <2>5. \A q \in Presses, i \in DOMAIN requests' : TakenId(q)' # requests'[i].draft
    BY <1>1 DEF NumberedApart, Apart
  <2>6. OneRequestPerDraft'
    BY <1>1 DEF NumberedApart, Apart, OneRequestPerDraft
  <2> QED BY <2>1, <2>2, <2>3, <2>4, <2>5, <2>6 DEF Apart
<1> QED BY <1>2, <1>3 DEF NumberedApart

\* A number moves from the press to the request.
LEMMA ApartCreated ==
  ASSUME Sound, NumberedApart, NEW p \in Presses, Create(p)
  PROVE  NumberedApart'
<1> DEFINE n == Len(requests) + 1
<1>1. /\ DOMAIN requests' = DOMAIN requests \cup {n}
      /\ \A i \in DOMAIN requests : requests'[i] = requests[i]
      /\ requests'[n] = RequestMade(p) /\ work[p].taken \in Drafts
  BY CreateAdds DEF Sound
<1>2. TakenId(p) = work[p].taken.id /\ TakenId(p) \in Nat \ {0}
  BY <1>1 DEF Create, TakenId, Idle, Drafts
<1>3. requests'[n].draft = TakenId(p)
  BY <1>1, <1>2 DEF RequestMade
<1>4. UNCHANGED <<draft, drafts>>
  BY DEF Create, counts
<1>5. TakenId(p)' = 0 /\ \A q \in Presses \ {p} : TakenId(q)' = TakenId(q)
  <2> DEFINE v == [View("submitted", work[p].by) EXCEPT !.amount = work[p].taken.amount, !.item = n]
             x == [work[p] EXCEPT !.stage = "draw", !.view = v]
  <2>1. work' = [work EXCEPT ![p] = x]
    BY DEF Create, Then, Become
  <2> HIDE DEF v
  <2>2. x.stage = "draw"
    BY DEF Create, Idle, Sound, PressesOK, IsPress, IsWork
  <2> HIDE DEF x
  <2>3. \A q \in Presses : work'[q] = IF q = p THEN x ELSE work[q]
    BY <2>1 DEF Sound, PressesOK
  <2> QED BY <2>2, <2>3 DEF TakenId, Idle
<1> HIDE DEF n
<1>6. Numbered'
  <2>1. \A v \in Creators : draft'[v].id <= drafts'
    BY <1>4 DEF NumberedApart, Numbered
  <2>2. \A q \in Presses : TakenId(q)' <= drafts'
    BY <1>4, <1>5, IdsTyped DEF NumberedApart, Numbered
  <2>3. \A i \in DOMAIN requests' : requests'[i].draft <= drafts'
    BY <1>1, <1>3, <1>4 DEF NumberedApart, Numbered
  <2> QED BY <2>1, <2>2, <2>3 DEF Numbered
<1>7. Apart'
  <2>1. \A v, w \in Creators : draft'[v].id # 0 /\ draft'[v].id = draft'[w].id => v = w
    BY <1>4 DEF NumberedApart, Apart
  <2>2. \A q, r \in Presses : TakenId(q)' # 0 /\ TakenId(q)' = TakenId(r)' => q = r
    BY <1>5 DEF NumberedApart, Apart
  <2>3. \A v \in Creators, q \in Presses : draft'[v].id # 0 => draft'[v].id # TakenId(q)'
    BY <1>4, <1>5 DEF NumberedApart, Apart
  <2>4. \A v \in Creators, i \in DOMAIN requests' : draft'[v].id # requests'[i].draft
    BY <1>1, <1>2, <1>3, <1>4 DEF NumberedApart, Apart
  <2>5. \A q \in Presses, i \in DOMAIN requests' : TakenId(q)' # requests'[i].draft
    BY <1>1, <1>2, <1>3, <1>5, IdsTyped DEF NumberedApart, Apart
  <2>6. OneRequestPerDraft'
    BY <1>1, <1>3 DEF NumberedApart, Apart, OneRequestPerDraft
  <2> QED BY <2>1, <2>2, <2>3, <2>4, <2>5, <2>6 DEF Apart
<1> QED BY <1>6, <1>7 DEF NumberedApart

LEMMA ApartAlways == Spec => []NumberedApart
<1>1. Init => NumberedApart
  BY DEF Init, NumberedApart, Numbered, Apart, OneRequestPerDraft, TakenId, NoDraft
<1>2. Sound /\ NumberedApart /\ [Next]_vars => NumberedApart'
  BY IdSteps, ApartKept, ApartDrawn, ApartTaken, ApartCreated
<1> QED BY <1>1, <1>2, SoundAlways, PTL DEF Spec

\* However often Submit Payout is pressed, in however many messages, one request
\* is made of a draft (payout.interactions.js: the draft is taken before the
\* request is made of it).
THEOREM OncePerDraft == Spec => []OneRequestPerDraft
<1>1. NumberedApart => OneRequestPerDraft
  BY DEF NumberedApart, Apart
<1> QED BY <1>1, ApartAlways, PTL

(***************************************************************************)
(* The balance.  The property is inductive by itself: a request is only    *)
(* made of what is available, and the work on requests only releases, but  *)
(* for the retry of a failed one, which is then marked and not counted.    *)
(***************************************************************************)

LEMMA RequestedTyped ==
  ASSUME RequestsOK, NEW u
  PROVE  /\ IsFiniteSet(Reserved(u)) /\ Reserved(u) \subseteq DOMAIN requests /\ Kept(u) \subseteq Reserved(u)
         /\ \A i \in DOMAIN requests : Requested[i] \in Nat
         /\ SumFunctionOnSet(Requested, Reserved(u)) \in Nat
         /\ SumFunctionOnSet(Requested, Kept(u)) \in Nat
         /\ SumFunctionOnSet(Requested, Kept(u)) <= SumFunctionOnSet(Requested, Reserved(u))
<1>1. DOMAIN requests = 1..Len(requests) /\ Len(requests) \in Nat
  BY DEF RequestsOK
<1>2. Reserved(u) \subseteq DOMAIN requests /\ Kept(u) \subseteq Reserved(u)
  BY DEF Reserved, Of, Kept
<1>3. IsFiniteSet(Reserved(u))
  <2>1. IsFiniteSet(1..Len(requests))
    BY <1>1, FS_Interval
  <2> QED BY <1>1, <1>2, <2>1, FS_Subset
<1>4. ASSUME NEW i \in DOMAIN requests PROVE Requested[i] \in Nat
  <2>1. requests[i] \in Requests
    BY DEF RequestsOK
  <2> QED BY <2>1, CreatorPanelConstants DEF Requested, Requests
<1>5. SumFunctionOnSet(Requested, Reserved(u)) \in Nat
  BY <1>2, <1>3, <1>4, SumSplit
<1>6. SumFunctionOnSet(Requested, Kept(u)) \in Nat
  <2>1. IsFiniteSet(Kept(u)) /\ \A i \in Kept(u) : Requested[i] \in Nat
    BY <1>2, <1>3, <1>4, FS_Subset
  <2> QED BY <2>1, SumSplit
<1>7. SumFunctionOnSet(Requested, Kept(u)) <= SumFunctionOnSet(Requested, Reserved(u))
  BY <1>2, <1>3, <1>4, SumOfFewer
<1> QED BY <1>2, <1>3, <1>4, <1>5, <1>6, <1>7

\* What is available is what is left of the balance, or nothing.
LEMMA AvailableIs ==
  ASSUME RequestsOK, NEW u
  PROVE  Available(u) \in {0, Balance - SumFunctionOnSet(Requested, Reserved(u))}
<1> DEFINE left == Balance - SumFunctionOnSet(Requested, Reserved(u))
<1>1. left \in Int
  BY RequestedTyped, CreatorPanelConstants
<1>2. Available(u) = Max({0, left})
  BY DEF Available
<1> HIDE DEF left
<1>3. \E x \in {0, left} : \A y \in {0, left} : x >= y
  BY <1>1
<1>4. Max({0, left}) \in {0, left}
  BY <1>3 DEF Max
<1> QED BY <1>2, <1>4 DEF left

\* What a creator has asked for and not got back.
KeptSum(u) == SumFunctionOnSet(Requested, Kept(u))

\* The work on a request keeps no more.
LEMMA StatusReleases ==
  ASSUME RequestsOK, NEW i \in DOMAIN requests, NEW st \in Decisions, NEW again \in BOOLEAN,
         Worked(i, st, again), NEW u \in Creators
  PROVE  KeptSum(u)' \in Nat /\ KeptSum(u)' <= KeptSum(u)
<1> DEFINE f == Requested'  R == Kept(u)'
<1>1. StatusSet(i, st, again)
  BY DEF Worked
<1>2. R \subseteq Kept(u)
  <2>1. \A j \in DOMAIN requests : requests[j].retried \in BOOLEAN
    <3>1. \A j \in DOMAIN requests : requests[j] \in Requests
      BY DEF RequestsOK
    <3> QED BY <3>1 DEF Requests
  <2> QED BY <1>1, <2>1, StatusChanges DEF Worked, Kept, Reserved, Of, Reserving, Cancellable
<1>3. \A j \in DOMAIN requests : f[j] = Requested[j]
  BY <1>1, StatusChanges DEF Requested
<1>4. /\ IsFiniteSet(Reserved(u)) /\ Reserved(u) \subseteq DOMAIN requests /\ Kept(u) \subseteq Reserved(u)
      /\ \A j \in DOMAIN requests : Requested[j] \in Nat
  BY RequestedTyped
<1> HIDE DEF f, R
<1>5. IsFiniteSet(Kept(u)) /\ IsFiniteSet(R) /\ \A j \in R : f[j] = Requested[j]
  BY <1>2, <1>3, <1>4, FS_Subset
<1>6. SumFunctionOnSet(f, R) = SumFunctionOnSet(Requested, R)
  BY <1>5, SumAgrees
<1>7. SumFunctionOnSet(Requested, R) <= SumFunctionOnSet(Requested, Kept(u))
  BY <1>2, <1>4, <1>5, SumOfFewer
<1>8. SumFunctionOnSet(Requested, R) \in Nat
  <2>1. \A j \in R : Requested[j] \in Nat
    BY <1>2, <1>4
  <2> QED BY <1>5, <2>1, SumSplit
<1> QED BY <1>6, <1>7, <1>8 DEF KeptSum, f, R

\* A request reserves what it asks for, of what its creator has available.
LEMMA CreateReserves ==
  ASSUME RequestsOK, PressesOK, NEW p \in Presses, Create(p), NEW u \in Creators, KeptSum(u) <= Balance
  PROVE  KeptSum(u)' <= Balance
<1> DEFINE n == Len(requests) + 1  f == Requested'  R == Kept(u)'  amount == work[p].taken.amount
<1>1. /\ DOMAIN requests' = DOMAIN requests \cup {n}
      /\ \A i \in DOMAIN requests : requests'[i] = requests[i]
      /\ requests'[n] = RequestMade(p) /\ work[p].taken \in Drafts
  BY CreateAdds
<1>2. n \notin DOMAIN requests
  BY DEF RequestsOK
<1>3. amount \in Nat
  BY <1>1, CreatorPanelConstants DEF Drafts
<1>4. amount <= Available(work[p].by)
  BY DEF Create, Creatable
<1>5. /\ IsFiniteSet(Reserved(u)) /\ Reserved(u) \subseteq DOMAIN requests /\ Kept(u) \subseteq Reserved(u)
      /\ \A i \in DOMAIN requests : Requested[i] \in Nat
      /\ SumFunctionOnSet(Requested, Reserved(u)) \in Nat
      /\ SumFunctionOnSet(Requested, Kept(u)) \in Nat
      /\ SumFunctionOnSet(Requested, Kept(u)) <= SumFunctionOnSet(Requested, Reserved(u))
  BY RequestedTyped
<1>6. f[n] = amount /\ \A i \in DOMAIN requests : f[i] = Requested[i]
  BY <1>1 DEF Requested, RequestMade
<1>7. R = IF work[p].by = u THEN Kept(u) \cup {n} ELSE Kept(u)
  BY <1>1, <1>2 DEF Kept, Reserved, Of, Reserving, Cancellable, RequestMade
<1>8. KeptSum(u)' = SumFunctionOnSet(f, R) /\ KeptSum(u) = SumFunctionOnSet(Requested, Kept(u))
      /\ Balance \in Nat
  BY CreatorPanelConstants DEF KeptSum
<1>9. Available(u) \in {0, Balance - SumFunctionOnSet(Requested, Reserved(u))}
  BY AvailableIs
<1> HIDE DEF n, f, R, amount
<1>10. SumFunctionOnSet(f, Kept(u)) = SumFunctionOnSet(Requested, Kept(u)) /\ IsFiniteSet(Kept(u))
  <2>1. IsFiniteSet(Kept(u)) /\ \A i \in Kept(u) : f[i] = Requested[i]
    BY <1>5, <1>6, FS_Subset
  <2> QED BY <2>1, SumAgrees
<1>11. CASE work[p].by = u
  <2>1. n \notin Kept(u) /\ \A i \in Kept(u) \cup {n} : f[i] \in Nat
    BY <1>2, <1>3, <1>5, <1>6
  <2>2. SumFunctionOnSet(f, Kept(u) \cup {n}) = f[n] + SumFunctionOnSet(f, Kept(u))
    BY <1>10, <2>1, SumAdd
  <2>3. KeptSum(u)' = amount + KeptSum(u) /\ KeptSum(u) \in Nat
    BY <1>5, <1>6, <1>7, <1>8, <1>10, <1>11, <2>2
  <2>4. amount = 0 \/ amount <= Balance - KeptSum(u)
    BY <1>3, <1>4, <1>5, <1>8, <1>9, <1>11
  <2> QED BY <1>3, <1>8, <2>3, <2>4
<1>12. CASE work[p].by # u
  BY <1>7, <1>8, <1>10, <1>12
<1> QED BY <1>11, <1>12

\* What a creator has asked for and not got back never exceeds the balance, though
\* each draft was checked before the others became requests: createPayoutRequest
\* (payout.service.js) takes the creator's lock and reads the balance again before it
\* inserts.  It is so whatever staff do with the requests, failed disbursements
\* included; only a failed request that they try again is not counted from then on.
THEOREM NeverBeyondBalance == Spec => []WithinBalance
<1>0. WithinBalance <=> \A u \in Creators : KeptSum(u) <= Balance
  BY DEF WithinBalance, KeptSum
<1>1. Init => WithinBalance
  <2> SUFFICES ASSUME Init, NEW u \in Creators PROVE KeptSum(u) <= Balance
    BY <1>0
  <2>1. Kept(u) = {}
    BY DEF Init, Kept, Reserved, Of
  <2>2. SumFunctionOnSet(Requested, Kept(u)) = 0
    BY <2>1, SumEmpty
  <2> QED BY <2>2, CreatorPanelConstants DEF KeptSum
<1>2. Sound /\ WithinBalance /\ [Next]_vars => WithinBalance'
  <2> SUFFICES ASSUME Sound, WithinBalance, [Next]_vars, NEW u \in Creators
               PROVE  KeptSum(u)' <= Balance
    BY DEF WithinBalance, KeptSum
  <2>1. KeptSum(u) <= Balance /\ KeptSum(u) \in Nat /\ RequestsOK /\ PressesOK
    BY <1>0, RequestedTyped DEF Sound, KeptSum
  <2>2. CASE UNCHANGED requests
    BY <2>1, <2>2 DEF KeptSum, Requested, Kept, Reserved, Of, Reserving, Cancellable
  <2>3. ASSUME NEW i \in DOMAIN requests, NEW st \in Decisions, NEW again \in BOOLEAN, Worked(i, st, again)
        PROVE  KeptSum(u)' <= Balance
    <3>1. KeptSum(u)' \in Nat /\ KeptSum(u)' <= KeptSum(u)
      BY <2>1, <2>3, StatusReleases
    <3> QED BY <2>1, <3>1, CreatorPanelConstants
  <2>4. ASSUME NEW p \in Presses, Create(p) PROVE KeptSum(u)' <= Balance
    BY <2>1, <2>4, CreateReserves
  <2> QED BY <2>1, <2>2, <2>3, <2>4, RequestSteps
<1> QED BY <1>1, <1>2, SoundAlways, PTL DEF Spec

=============================================================================
