---------------------------- MODULE CreatorPanel ----------------------------
(***************************************************************************)
(* The messages with the controls of the creators: the private dashboard,  *)
(* the answers to their slash commands, the steps of a payout request and  *)
(* the public cards and pickers.  A press of a button runs a handler of    *)
(* dashboard, campaign, submission, statistics, earnings or                *)
(* payout.interactions.js, chosen by router.js: it acknowledges the press, *)
(* works on the database, and edits the message.  A creator can have       *)
(* several of these messages, and press again while a press is handled.    *)
(***************************************************************************)
EXTENDS Integers, Sequences, FiniteSetsExt, Functions

CONSTANTS
  Creators, Campaigns, Clips, Messages,
  Presses,    \* presses that can be handled at a time
  Amounts,    \* what creators ask for
  Minimum, Balance,  \* the minimum payout, and what each creator has earned
  Scenes,     \* what may be going on: [creators, commands, meanwhile, clicks, faults, outside]:
              \* who is there, with which slash commands and public buttons, what else may
              \* happen, and bounds
  Newcomers,  \* creators without a payout profile
  None,       \* nothing
  MaxRequests, MaxProfiles  \* bounds

\* What creators start with: their slash commands, and the buttons of public channels.
Commands ==
  {"cmd_campaigns", "cmd_dashboard", "cmd_earnings", "cmd_payout", "cmd_statistics", "cmd_submissions", "cmd_submit",
   "pub_campaigns", "pub_clips", "pub_earnings", "pub_payouts", "pub_profile", "pub_stats",
   "pub_request", "pub_submit"}

ASSUME CreatorPanelConstants ==
  /\ Amounts \subseteq Nat /\ {Minimum, Balance} \subseteq Nat /\ Newcomers \subseteq Creators
  /\ \A sc \in Scenes :
       /\ sc.creators \subseteq Creators /\ sc.commands \subseteq Commands
       /\ {sc.clicks, sc.faults, sc.outside} \subseteq Nat
       /\ sc.meanwhile \subseteq {"close", "reopen", "remove", "suspend", "decide", "expire"}
  /\ {MaxRequests, MaxProfiles} \subseteq Nat

VARIABLES
  scene,     \* one of Scenes
  msgs,      \* the messages: a view each, or Closed
  member,    \* per creator, the campaigns with an ACTIVE membership
  open,      \* the campaigns that are ACTIVE and have budget
  active,    \* the creators whose account is ACTIVE
  profile,   \* per creator, the version of the payout profile, 0 when there is none
  draft,     \* payoutDraftManager: per creator, NoDraft or [id, amount, wallet, evidence]
  waiting,   \* creators whose upload session waits for a recording
  requests,  \* the payout requests, in the order they were created; retried: whether a
             \* disbursement that failed was tried again
  clips,     \* the clips that were sent: [by, to]
  form,      \* per creator, the form that is open, or NoForm
  work,      \* the presses being handled
  drafts, clicks, faults, outside  \* what the bounds count

counts == <<drafts, clicks, faults, outside>>
data   == <<member, open, active, profile, draft, waiting, requests, clips>>
vars   == <<scene, msgs, data, form, work, counts>>

Idle    == [stage |-> "idle"]
NoDraft == [id |-> 0]
NoForm  == [kind |-> "", item |-> None]
Closed  == [screen |-> "closed"]

\* What a message shows: the screen, the creator its custom ids carry, the item
\* it is about and the state it shows it in, an amount, a list, and the text above.
\* A placeholder is "lost" once nothing works on its answer any more.
View(screen, u) ==
  [screen |-> screen, by |-> u, public |-> FALSE, item |-> None, state |-> "", amount |-> None,
   listed |-> {}, nav |-> FALSE, note |-> ""]

-----------------------------------------------------------------------------
(* What the handlers do: how they acknowledge the press ("ack" must work,  *)
(* "either" answers with a new message when it does not, "try" need not,   *)
(* "form" answers with a form), whether the press must be by the creator   *)
(* the message belongs to, the operation they run, the screen they draw,   *)
(* and what becomes of the text above it.                                  *)

Shows(screen)    == [first |-> "ack", own |-> TRUE, does |-> "read", shows |-> screen, note |-> "keep"]
Either(screen)   == [Shows(screen) EXCEPT !.first = "either"]  \* acknowledgeCreatorInteraction
Tries(screen)    == [Shows(screen) EXCEPT !.first = "try"]
Does(op, screen) == [Tries(screen) EXCEPT !.does = op]
Asks(kind)       == [Shows("") EXCEPT !.first = "form", !.does = kind]
Clears(h)        == [h EXCEPT !.note = ""]
Says(h, note)    == [h EXCEPT !.note = note]
Anyone(h)        == [h EXCEPT !.own = FALSE]

\* Dashboard.  A refresh also has a clip measured, as staff do (Polling), and writes the
\* budget that has been used, after which a campaign may be closed (CampaignChanges).
handleCreatorDashboard       == Either("home")
handleDashboardCampaigns     == Either("campaigns")
handleDashboardCampaignDetail == Anyone(Tries("detail"))
handleDashboardCampaignJoin  == Anyone(Says([Either("detail") EXCEPT !.does = "join"], "joined"))
handleDashboardMyClips       == Either("myClips")
handleDashboardEarnings      == Either("earned")
handleDashboardPayout        == Either("hub")
handleDashboardProfile       == Either("profile")
handlePayoutProfileView      == Either("profileView")
handleDashboardBack(screen)  == Either(screen)
handlePayoutProfileSetup     == Asks("profile")
\* Campaigns and clips
handleCampaignSelect         == Anyone(Shows("card"))
handleCampaignList           == Anyone(Shows("allCampaigns"))
handlePublicSubmitClip       == Anyone(Asks("clip"))
handleCampaignSelectForSubmit == Anyone(Asks("picked_clip"))
handleModalSubmitClip        == Anyone([Shows("clipSent") EXCEPT !.does = "send_clip"])
\* Statistics
handleStatsOverview          == Either("stats")
handleStatsCampaignsList     == Tries("statsCampaigns")
handleStatsPlatforms         == Tries("statsPlatforms")
handleStatsChannels          == Tries("statsChannels")
handleStatsClipsList         == Tries("statsClips")
handleStatsClipSelect        == Tries("statsClip")
handleStatsRefresh(screen)   == Tries(screen)
\* Earnings
handleEarningsOverview       == Tries("earnings")
handleEarningsCampaignsList  == Tries("earningsCampaigns")
handleEarningsCampaignSelect == Tries("campaignEarnings")
handleEarningsRefresh(screen) == Tries(screen)
\* Payouts
handlePayoutRequestButton        == Asks("amount")
handlePayoutModalSubmit          == [Shows("instructions") EXCEPT !.does = "draft"]
handlePayoutEvidenceUploadButton == Does("wait", "waiting")
handlePayoutEvidenceReviewButton == Clears(Tries("review"))
handlePayoutEvidenceSubmitButton == Clears(Does("submit", "submitted"))
handlePayoutEvidenceCancelButton == Says(Does("drop", "dropped"), "dropped")
handlePayoutEvidenceBackButton   == Clears(Tries("instructions"))
handlePayoutProfileButton        == Asks("profile")
handlePayoutProfileModalSubmit   == Says([Shows("saved") EXCEPT !.does = "save"], "saved")
handlePayoutRefresh              == Tries("payout")
handlePayoutCancelButton         == Asks("confirm")
handlePayoutCancelConfirm        == Does("cancel", "released")
handlePayoutCancelKeep           == Tries("kept")
\* Slash commands
executeCampaigns   == Shows("allCampaigns")
executeDashboard   == Shows("home")
executeEarnings    == Shows("earnings")
executePayout      == Shows("payout")
executeStatistics  == Shows("stats")
executeSubmissions == Shows("submissions")
executeSubmit      == Asks("clip")

\* The router: which handler a command or a custom id goes to, tried family by
\* family; what none of them knows is answered as unrecognized.
Unrecognized == Shows("unrecognized")

DashboardRoute(b) ==
  CASE b \in {"home", "refresh", "dash_open"} -> handleCreatorDashboard
    [] b \in {"campaigns", "pub_campaigns"}   -> handleDashboardCampaigns
    [] b \in {"myClips", "pub_clips"}         -> handleDashboardMyClips
    [] b \in {"earned", "pub_earnings"}       -> handleDashboardEarnings
    [] b \in {"hub", "pub_payouts"}           -> handleDashboardPayout
    [] b \in {"profileView", "pub_profile"}   -> handlePayoutProfileView
    [] b = "detail"        -> handleDashboardCampaignDetail
    [] b = "join"          -> handleDashboardCampaignJoin
    [] b = "profile"       -> handleDashboardProfile
    [] b = "profileSetup"  -> handlePayoutProfileSetup
    [] b = "backCampaigns" -> handleDashboardBack("campaigns")
    [] b = "backHub"       -> handleDashboardBack("hub")
    [] OTHER -> Unrecognized

PayoutRoute(b) ==
  CASE b = "payout"       -> handlePayoutRefresh
    [] b \in {"request", "pub_request"} -> handlePayoutRequestButton
    [] b = "amount_form"  -> handlePayoutModalSubmit
    [] b = "upload"       -> handlePayoutEvidenceUploadButton
    [] b = "review"       -> handlePayoutEvidenceReviewButton
    [] b = "submitDraft"  -> handlePayoutEvidenceSubmitButton
    [] b = "drop"         -> handlePayoutEvidenceCancelButton
    [] b = "back"         -> handlePayoutEvidenceBackButton
    [] b = "profileEdit"  -> handlePayoutProfileButton
    [] b = "profile_form" -> handlePayoutProfileModalSubmit
    [] b = "cancel"       -> handlePayoutCancelButton
    [] b = "confirm"      -> handlePayoutCancelConfirm
    [] b = "keep"         -> handlePayoutCancelKeep
    [] OTHER -> DashboardRoute(b)

EarningsRoute(b) ==
  CASE b = "earnings"          -> handleEarningsOverview
    [] b = "earningsCampaigns" -> handleEarningsCampaignsList
    [] b = "campaignEarnings"  -> handleEarningsCampaignSelect
    [] b = "earnings_refresh"  -> handleEarningsRefresh("earnings")
    [] b = "campaignEarnings_refresh" -> handleEarningsRefresh("campaignEarnings")
    [] OTHER -> PayoutRoute(b)

StatisticsRoute(b) ==
  CASE b \in {"stats", "pub_stats"} -> handleStatsOverview
    [] b = "statsCampaigns" -> handleStatsCampaignsList
    [] b = "statsPlatforms" -> handleStatsPlatforms
    [] b = "statsChannels"  -> handleStatsChannels
    [] b = "statsClips"     -> handleStatsClipsList
    [] b = "statsClip"      -> handleStatsClipSelect
    [] b = "stats_refresh"  -> handleStatsRefresh("stats")
    [] b = "statsPlatforms_refresh" -> handleStatsRefresh("statsPlatforms")
    [] b = "statsChannels_refresh"  -> handleStatsRefresh("statsChannels")
    [] b = "statsClip_refresh"      -> handleStatsRefresh("statsClip")
    [] OTHER -> EarningsRoute(b)

CampaignRoute(b) ==
  CASE b = "allCampaigns" -> handleCampaignList
    [] b = "card"         -> handleCampaignSelect
    [] b = "pub_submit"   -> handlePublicSubmitClip
    [] b = "pick"         -> handleCampaignSelectForSubmit
    [] b = "clip_form"    -> handleModalSubmitClip
    [] OTHER -> StatisticsRoute(b)

Route(b) ==
  CASE b = "cmd_campaigns"   -> executeCampaigns
    [] b = "cmd_dashboard"   -> executeDashboard
    [] b = "cmd_earnings"    -> executeEarnings
    [] b = "cmd_payout"      -> executePayout
    [] b = "cmd_statistics"  -> executeStatistics
    [] b = "cmd_submissions" -> executeSubmissions
    [] b = "cmd_submit"      -> executeSubmit
    [] OTHER -> CampaignRoute(b)

\* The custom ids of buttons, menus and forms (commands by their name).
CustomIds ==
  Commands \cup
  {"home", "refresh", "dash_open", "campaigns", "myClips", "earned", "hub", "profileView", "detail",
   "join", "profile", "profileSetup", "backCampaigns", "backHub",
   "allCampaigns", "card", "pick", "clip_form",
   "stats", "statsCampaigns", "statsPlatforms", "statsChannels", "statsClips", "statsClip",
   "stats_refresh", "statsPlatforms_refresh", "statsChannels_refresh", "statsClip_refresh",
   "earnings", "earningsCampaigns", "campaignEarnings", "earnings_refresh", "campaignEarnings_refresh",
   "payout", "request", "amount_form", "upload", "review", "submitDraft", "drop", "back",
   "profileEdit", "profile_form", "cancel", "confirm", "keep"}

Routes == [b \in CustomIds |-> Route(b)]

\* What the form that is sent carries as its custom id.
Sent == [amount |-> "amount_form", profile |-> "profile_form", clip |-> "clip_form"]

-----------------------------------------------------------------------------
(* The buttons and menus under each screen (bot/components)                *)

Plain(names)   == {[do |-> n, item |-> None] : n \in names}
Each(name, xs) == {[do |-> name, item |-> x] : x \in xs}

buildCreatorDashboardActionRows ==
  Plain({"campaigns", "myClips", "stats", "earned", "hub", "profile", "refresh"})
buildNavigationBackRow(back)      == Plain(back \cup {"home"})
buildDashboardPaginationRow       == Plain({"home"})
buildPayoutHubActionRows(hasProfile, cancellable) ==
  Plain(IF hasProfile THEN {"request", "profileView", "profileEdit"} ELSE {"profileSetup"})
  \cup Each("cancel", cancellable) \cup Plain({"home", "hub"})
buildCampaignSelectMenu(cs)       == Each("card", cs)
buildCampaignActionRow(c, state)  ==
  Each("detail", {c}) \cup Plain({"allCampaigns"})
  \cup CASE state = "joined" -> Plain({"pub_submit"}) [] state = "joinable" -> Each("join", {c})
         [] state = "closed" -> {}
buildCampaignPickerForSubmit(cs)  == Each("pick", cs)
buildUserOverviewActionRow        ==
  Plain({"statsCampaigns", "statsPlatforms", "statsChannels", "statsClips", "stats_refresh"})
buildCampaignPaginationRow        == Plain({"stats"})
buildPlatformBackRow              == Plain({"stats", "statsPlatforms_refresh"})
buildChannelBackRow               == Plain({"stats", "statsChannels_refresh"})
buildClipPickerRow(xs)            == Each("statsClip", xs)
buildClipPaginationRow            == Plain({"stats"})
buildClipDetailActionRow(x)       == Plain({"statsClips", "stats"}) \cup Each("statsClip_refresh", {x})
buildUserEarningsActionRow        == Plain({"earningsCampaigns", "earnings_refresh"})
buildEarningsCampaignSelectRow(cs) == Each("campaignEarnings", cs)
buildEarningsCampaignBackRow      == Plain({"earnings"})
buildCampaignEarningsActionRow(c) == Plain({"earnings"}) \cup Each("campaignEarnings_refresh", {c})
buildPayoutActionRow(eligible, cancellable) ==
  Plain({"profileEdit", "payout"} \cup (IF eligible THEN {"request"} ELSE {}))
  \cup Each("cancel", cancellable)
buildPayoutCancelConfirmActionRow(i) == Each("confirm", {i}) \cup Each("keep", {i})
buildPayoutProfileSavedActionRow  == Plain({"request", "hub", "home", "profileEdit"})
buildPayoutEvidenceActionRow      == Plain({"upload", "drop"})
buildPayoutEvidenceReceivedActionRow == Plain({"review", "upload", "drop"})
buildPayoutReviewActionRow        == Plain({"submitDraft", "back", "drop"})

Buttons(v) ==
  CASE v.screen = "home"         -> buildCreatorDashboardActionRows
    [] v.screen = "campaigns"    -> buildCampaignSelectMenu(v.listed) \cup buildDashboardPaginationRow
    [] v.screen = "allCampaigns" -> buildCampaignSelectMenu(v.listed)
    [] v.screen = "card"         -> buildCampaignActionRow(v.item, v.state)
         \cup IF v.nav THEN buildNavigationBackRow({"backCampaigns"}) ELSE {}
    [] v.screen = "myClips"      -> buildDashboardPaginationRow
    [] v.screen \in {"earned", "profile"} -> buildNavigationBackRow({})
    [] v.screen = "profileView"  -> buildNavigationBackRow({"backHub"})
    [] v.screen = "hub"          -> buildPayoutHubActionRows(v.state = "profile", v.listed)
    [] v.screen = "stats"        -> buildUserOverviewActionRow
    [] v.screen = "statsCampaigns" -> buildCampaignPaginationRow
    [] v.screen = "statsPlatforms" -> buildPlatformBackRow
    [] v.screen = "statsChannels"  -> buildChannelBackRow
    [] v.screen = "statsClips"   -> buildClipPickerRow(v.listed) \cup buildClipPaginationRow
    [] v.screen = "statsClip"    -> buildClipDetailActionRow(v.item)
    [] v.screen = "earnings"     -> buildUserEarningsActionRow
    [] v.screen = "earningsCampaigns" ->
         buildEarningsCampaignSelectRow(v.listed) \cup buildEarningsCampaignBackRow
    [] v.screen = "campaignEarnings" -> buildCampaignEarningsActionRow(v.item)
    [] v.screen = "payout"       -> buildPayoutActionRow(v.state = "eligible", v.listed)
    [] v.screen = "picker"       -> buildCampaignPickerForSubmit(v.listed)
    [] v.screen = "instructions" -> buildPayoutEvidenceActionRow
    [] v.screen = "waiting"      -> Plain({"drop"})
    [] v.screen = "received"     -> buildPayoutEvidenceReceivedActionRow
    [] v.screen = "review"       -> buildPayoutReviewActionRow
    [] v.screen \in {"submitted", "dropped"} -> Plain({"hub", "home"})
    [] v.screen = "missing"      -> Plain({"request"})
    [] v.screen = "saved"        -> buildPayoutProfileSavedActionRow
    [] v.screen = "confirm"      -> buildPayoutCancelConfirmActionRow(v.item)
    [] OTHER                     -> {}

-----------------------------------------------------------------------------
(* What the handlers read, and what they do                                *)

Cancellable(i) == requests[i].status \in {"REQUESTED", "UNDER_REVIEW", "APPROVED"}
Reserving(i)   == Cancellable(i) \/ requests[i].status = "PROCESSING"   \* RESERVING_PAYOUT_STATUSES
Of(u)          == {i \in DOMAIN requests : requests[i].by = u}
Newest(is)     == IF is = {} THEN {} ELSE {Max(is)}

\* getAvailablePayoutBalance: what is reserved or paid is not available any more; it is
\* never negative.
Requested    == [i \in DOMAIN requests |-> requests[i].amount]
Reserved(u)  == {i \in Of(u) : Reserving(i) \/ requests[i].status = "COMPLETED"}
Available(u) == Max({0, Balance - SumFunctionOnSet(Requested, Reserved(u))})

CardState(c, u) == IF c \in member[u] THEN "joined" ELSE IF c \in open THEN "joinable" ELSE "closed"

\* No draft, or a draft without a recording.
Missing(u) == [View("missing", u) EXCEPT !.note = "missing"]

\* What a handler that draws a screen about x for creator u shows.
Read(screen, x, u) ==
  LET v == View(screen, u) IN
  CASE screen \in {"campaigns", "allCampaigns", "picker"} -> [v EXCEPT !.listed = open]
    [] screen = "card"   -> [v EXCEPT !.item = x, !.state = CardState(x, u)]
    [] screen = "detail" -> [View("card", u) EXCEPT !.item = x, !.state = CardState(x, u), !.nav = TRUE]
    [] screen = "statsClips" -> [v EXCEPT !.listed = Clips]
    [] screen \in {"statsClip", "campaignEarnings", "kept"} -> [v EXCEPT !.item = x]
    [] screen = "earningsCampaigns" -> [v EXCEPT !.listed = member[u]]
    [] screen = "hub" ->
         [v EXCEPT !.state = IF profile[u] > 0 THEN "profile" ELSE "",
                   !.listed = {i \in Newest({j \in Of(u) : Reserving(j)}) : Cancellable(i)}]
    [] screen = "payout" ->
         [v EXCEPT !.state = IF Available(u) >= Minimum THEN "eligible" ELSE "",
                   !.listed = Newest({i \in Of(u) : Cancellable(i)})]
    [] screen \in {"instructions", "waiting"} ->
         IF draft[u] = NoDraft THEN Missing(u)
         ELSE IF screen = "waiting" THEN v ELSE [v EXCEPT !.amount = draft[u].amount]
    [] screen = "review" ->
         IF draft[u] # NoDraft /\ draft[u].evidence THEN [v EXCEPT !.amount = draft[u].amount] ELSE Missing(u)
    [] OTHER -> v

-----------------------------------------------------------------------------
Init ==
  /\ scene \in Scenes
  /\ msgs = [m \in Messages |-> Closed]
  /\ member = [u \in Creators |-> {}]
  /\ open = Campaigns
  /\ active = Creators
  /\ profile = [u \in Creators |-> IF u \in Newcomers THEN 0 ELSE 1]
  /\ draft = [u \in Creators |-> NoDraft]
  /\ waiting = {}
  /\ requests = <<>> /\ clips = {}
  /\ form = [u \in Creators |-> NoForm]
  /\ work = [p \in Presses |-> Idle]
  /\ drafts = 0 /\ clicks = 0 /\ faults = 0 /\ outside = 0

Become(p, w)   == work' = [work EXCEPT ![p] = w]
Show(m, v)     == msgs' = [msgs EXCEPT ![m] = v]
OpenForm(u, f) == form' = [form EXCEPT ![u] = f]
Click == clicks < scene.clicks /\ clicks' = clicks + 1
Fault == faults < scene.faults /\ faults' = faults + 1
\* A message that is new, and a press that nothing is being done for.
Free  == {m \in Messages : msgs[m] = Closed}
NewMessage(m) == m = CHOOSE n \in Free : TRUE
Ready(p)      == work[p] = Idle /\ p = CHOOSE q \in Presses : work[q] = Idle
H(p)  == Routes[work[p].do]

Begin(u, m, b, amount, acked) ==
  [stage |-> "do", by |-> u, on |-> m, do |-> b.do, item |-> b.item, amount |-> amount, acked |-> acked,
   view |-> Closed, taken |-> NoDraft]

\* The press is answered with a form or with a message of its own.
Answer(u, m, b) ==
  LET kind == Routes[b.do].does  cs == member[u] \cap open IN
  \/ /\ kind \in {"amount", "profile"}
     /\ OpenForm(u, [kind |-> IF profile[u] = 0 THEN "profile" ELSE kind, item |-> None])
     /\ UNCHANGED msgs
  \/ /\ kind = "picked_clip"
     /\ OpenForm(u, [kind |-> "clip", item |-> b.item])
     /\ Show(m, Closed)
  \/ /\ kind = "clip" /\ u \in active /\ Cardinality(cs) = 1
     /\ \E c \in cs : OpenForm(u, [kind |-> "clip", item |-> c])
     /\ UNCHANGED msgs
  \/ /\ kind = "clip" /\ u \in active /\ Cardinality(cs) > 1
     /\ \E new \in Free : NewMessage(new) /\ Show(new, [View("picker", u) EXCEPT !.listed = cs, !.public = TRUE])
     /\ UNCHANGED form
  \/ /\ kind = "confirm" /\ Cancellable(b.item)
     /\ \E new \in Free : NewMessage(new) /\ Show(new, [View("confirm", u) EXCEPT !.item = b.item])
     /\ UNCHANGED form
  \/ /\ \/ kind = "clip" /\ (u \notin active \/ cs = {})
        \/ kind = "confirm" /\ ~Cancellable(b.item)
     /\ UNCHANGED <<msgs, form>>

\* Creator u presses a button of a message, which is not the creator's own or is.
Press(p, u, m, b) ==
  /\ Ready(p) /\ form[u] = NoForm /\ msgs[m] # Closed
  /\ msgs[m].public \/ msgs[m].by = u
  /\ b \in Buttons(msgs[m])
  /\ Click
  /\ LET h == Routes[b.do] IN
     \/ h.own /\ msgs[m].by # u /\ UNCHANGED <<msgs, form, work, faults>>
     \/ /\ h.own => msgs[m].by = u
        /\ h.first = "form" /\ Answer(u, m, b) /\ UNCHANGED <<work, faults>>
     \/ /\ h.own => msgs[m].by = u
        /\ h.first # "form"
        /\ \/ Become(p, Begin(u, m, b, msgs[m].amount, TRUE)) /\ UNCHANGED faults
           \/ h.first = "try" /\ Fault /\ Become(p, Begin(u, m, b, msgs[m].amount, FALSE))
        /\ UNCHANGED <<msgs, form>>
     \/ /\ h.own => msgs[m].by = u
        /\ h.first = "either" /\ Fault
        /\ \E new \in Free : /\ NewMessage(new) /\ Show(new, View("thinking", u))
                            /\ Become(p, Begin(u, new, b, msgs[m].amount, TRUE))
        /\ UNCHANGED form
  /\ UNCHANGED <<scene, data, drafts, outside>>

\* A slash command, or a button of a public channel: a message of its own, that
\* everyone sees after /campaigns, or a form.
Command(p, u, c) ==
  /\ Ready(p) /\ form[u] = NoForm /\ Click
  /\ LET b == [do |-> c, item |-> None] IN
     \/ Routes[c].first = "form" /\ Answer(u, None, b) /\ UNCHANGED work
     \/ /\ Routes[c].first # "form"
        /\ \E m \in Free :
             /\ NewMessage(m)
             /\ Show(m, [View("thinking", u) EXCEPT !.public = (c = "cmd_campaigns")])
             /\ Become(p, Begin(u, m, b, None, TRUE))
        /\ UNCHANGED form
  /\ UNCHANGED <<scene, data, drafts, faults, outside>>

\* A form is sent: the answer is a message of its own, that everyone sees when a
\* clip was sent.
SubmitForm(p, u) ==
  /\ Ready(p) /\ form[u] # NoForm
  /\ form[u].kind = "profile" => profile[u] < MaxProfiles
  /\ \E amount \in IF form[u].kind = "amount" THEN Amounts ELSE {None} :
     \E m \in Free :
       /\ NewMessage(m)
       /\ Show(m, [View("thinking", u) EXCEPT !.public = (form[u].kind = "clip")])
       /\ Become(p, Begin(u, m, [do |-> Sent[form[u].kind], item |-> form[u].item], amount, TRUE))
  /\ OpenForm(u, NoForm)
  /\ UNCHANGED <<scene, data, counts>>

CloseForm(u) ==
  /\ form[u] # NoForm
  /\ OpenForm(u, NoForm)
  /\ UNCHANGED <<scene, msgs, data, work, counts>>

\* editReply: the message becomes what the handler read, under the text that is
\* kept, removed or written.
DrawView(p) ==
  LET w == work[p]  old == msgs[w.on]  note == H(p).note IN
  Show(w.on, [w.view EXCEPT
    !.public = old.public,
    !.note  = IF w.view.note # "" THEN w.view.note ELSE IF note = "keep" THEN old.note ELSE note])

\* What the handler draws after its work is done.
Then(p, v) == Become(p, [work[p] EXCEPT !.stage = "draw", !.view = v])

\* Who joins: the creator who pressed, whoever the card was drawn for.
Joining(p) == work[p].by

Join(p) ==
  LET u == Joining(p)  c == work[p].item IN
  /\ u \in active /\ c \in open
  /\ member' = [member EXCEPT ![u] = @ \cup {c}]
  /\ UNCHANGED <<open, active, profile, draft, waiting, requests, clips, drafts>>

\* createSubmission: the campaign is open to the creator who sends the clip.
MaySend(u, c) == u \in active /\ c \in open /\ c \in member[u]

SendClip(p) ==
  /\ MaySend(work[p].by, work[p].item)
  /\ clips' = clips \cup {[by |-> work[p].by, to |-> work[p].item]}
  /\ UNCHANGED <<member, open, active, profile, draft, waiting, requests, drafts>>

\* createDraft and createSession.
MakeDraft(p) ==
  LET u == work[p].by IN
  /\ work[p].amount >= Minimum /\ work[p].amount <= Available(u) /\ profile[u] > 0
  /\ drafts' = drafts + 1
  /\ draft' = [draft EXCEPT ![u] = [id |-> drafts', amount |-> work[p].amount,
                                    wallet |-> profile[u], evidence |-> FALSE]]
  /\ waiting' = waiting \cup {u}
  /\ UNCHANGED <<member, open, active, profile, requests, clips>>

WaitForUpload(p) ==
  LET u == work[p].by IN
  /\ waiting' = IF draft[u] = NoDraft THEN waiting ELSE waiting \cup {u}
  /\ UNCHANGED <<member, open, active, profile, draft, requests, clips, drafts>>

\* clearDraft and clearSession.
DropDraft(p) ==
  LET u == work[p].by IN
  /\ draft' = [draft EXCEPT ![u] = NoDraft] /\ waiting' = waiting \ {u}
  /\ UNCHANGED <<member, open, active, profile, requests, clips, drafts>>

SaveProfile(p) ==
  /\ profile' = [profile EXCEPT ![work[p].by] = @ + 1]
  /\ UNCHANGED <<member, open, active, draft, waiting, requests, clips, drafts>>

CancelRequest(p) ==
  /\ Cancellable(work[p].item)
  /\ requests' = [requests EXCEPT ![work[p].item].status = "CANCELLED"]
  /\ UNCHANGED <<member, open, active, profile, draft, waiting, clips, drafts>>

Operation(p) ==
  LET op == H(p).does IN
  \/ op = "read" /\ UNCHANGED <<data, drafts>>
  \/ op = "join" /\ Join(p)
  \/ op = "send_clip" /\ SendClip(p)
  \/ op = "draft" /\ MakeDraft(p)
  \/ op = "wait" /\ WaitForUpload(p)
  \/ op = "drop" /\ DropDraft(p)
  \/ op = "save" /\ SaveProfile(p)
  \/ op = "cancel" /\ CancelRequest(p)

\* Whether the operation does not apply.
Refused(p) ==
  LET w == work[p]  u == w.by  op == H(p).does IN
  \/ op = "join"      /\ ~(u \in active /\ w.item \in open)
  \/ op = "send_clip" /\ ~MaySend(u, w.item)
  \/ op = "draft"     /\ ~(w.amount >= Minimum /\ w.amount <= Available(u) /\ profile[u] > 0)
  \/ op = "cancel"    /\ ~Cancellable(w.item)

\* The handler does its work.
Do(p) ==
  /\ work[p].stage = "do" /\ H(p).does # "submit"
  /\ Operation(p)
  /\ UNCHANGED <<scene, msgs, form, clicks, faults, outside>>
  /\ Become(p, [work[p] EXCEPT !.stage = "read"])

\* It reads what it will draw.
ReadScreen(p) ==
  /\ work[p].stage = "read"
  /\ Then(p, Read(H(p).shows, work[p].item, work[p].by))
  /\ UNCHANGED <<scene, msgs, data, form, counts>>

BugConsumed(u) == draft
Consumed(u) == [draft EXCEPT ![u] = NoDraft]

\* Submit Payout takes the draft first, so that a second press finds none...
Consume(p) ==
  /\ work[p].stage = "do" /\ H(p).does = "submit"
  /\ LET u == work[p].by  d == draft[u] IN
     /\ draft' = Consumed(u)
     /\ IF d # NoDraft /\ d.evidence
        THEN Become(p, [work[p] EXCEPT !.stage = "create", !.taken = d])
        ELSE Then(p, Missing(u))
  /\ UNCHANGED <<scene, msgs, member, open, active, profile, waiting, requests, clips, form, counts>>

BugCreatable(u, d) == u \in active
\* createPayoutRequest: the balance is read again.
Creatable(u, d) == u \in active /\ d.amount <= Available(u)

\* ...and then makes the request of it.
Create(p) ==
  /\ work[p].stage = "create" /\ Len(requests) < MaxRequests
  /\ LET u == work[p].by  d == work[p].taken IN
     /\ Creatable(u, d)
     /\ requests' = Append(requests, [by |-> u, amount |-> d.amount, draft |-> d.id,
                                      wallet |-> d.wallet, status |-> "REQUESTED", retried |-> FALSE])
     /\ waiting' = waiting \ {u}
     /\ Then(p, [View("submitted", u) EXCEPT !.amount = d.amount, !.item = Len(requests) + 1])
  /\ UNCHANGED <<scene, msgs, member, open, active, profile, draft, clips, form, counts>>

\* The operation does not apply any more, or a query fails.  Only the cancelling
\* of a request catches that.
Throw(p) ==
  /\ work[p].stage \in {"do", "read", "create"}
  /\ \/ work[p].stage = "do" /\ Refused(p) /\ UNCHANGED faults
     \/ work[p].stage = "create" /\ ~Creatable(work[p].by, work[p].taken) /\ UNCHANGED faults
     \/ Fault
  /\ IF H(p).does = "cancel" /\ work[p].stage = "do"
     THEN Then(p, View("not_cancelled", work[p].by))
     ELSE Become(p, [work[p] EXCEPT !.stage = "report"])
  /\ UNCHANGED <<scene, msgs, data, form, drafts, clicks, outside>>

BugErrorShown(p) == msgs[work[p].on]
\* In a private message that the press was acknowledged for, the error replaces the
\* text; else it is a message of its own.
ErrorShown(p) ==
  LET old == msgs[work[p].on] IN
  IF old.screen = "thinking" THEN [View("error", work[p].by) EXCEPT !.public = old.public]
  ELSE IF old.public \/ ~work[p].acked THEN old
  ELSE [old EXCEPT !.note = "error"]

\* safeReply after an error.
Report(p) ==
  /\ work[p].stage = "report"
  /\ Show(work[p].on, ErrorShown(p))
  /\ Become(p, Idle)
  /\ UNCHANGED <<scene, data, form, counts>>

\* What becomes of a message when nothing goes on for it: only a placeholder is marked.
Left(v) == IF v.screen = "thinking" THEN [v EXCEPT !.state = "lost"] ELSE v

\* safeReply fails as well; that is only logged.
ReportFails(p) ==
  /\ work[p].stage = "report" /\ Fault
  /\ Show(work[p].on, Left(msgs[work[p].on]))
  /\ Become(p, Idle)
  /\ UNCHANGED <<scene, data, form, drafts, clicks, outside>>

\* Nothing is drawn over a list of no campaigns: the creator is told so apart.
Skips(p) == work[p].view.screen = "earningsCampaigns" /\ work[p].view.listed = {}

Draw(p) ==
  /\ work[p].stage = "draw" /\ work[p].acked
  /\ IF Skips(p) THEN UNCHANGED msgs ELSE DrawView(p)
  /\ Become(p, Idle)
  /\ UNCHANGED <<scene, data, form, counts>>

DrawFails(p) ==
  /\ work[p].stage = "draw"
  /\ (~work[p].acked /\ UNCHANGED faults) \/ Fault
  /\ Become(p, [work[p] EXCEPT !.stage = "report"])
  /\ UNCHANGED <<scene, msgs, data, form, drafts, clicks, outside>>

-----------------------------------------------------------------------------
(* Meanwhile                                                               *)

\* The creator sends the recording: it goes with the draft, and a message for
\* the whole channel says so (messageCreate.handler.js).
Upload(u) ==
  /\ u \in waiting /\ draft[u] # NoDraft
  /\ draft' = [draft EXCEPT ![u].evidence = TRUE]
  /\ waiting' = waiting \ {u}
  /\ \E m \in Free : NewMessage(m) /\ Show(m, [View("received", u) EXCEPT !.public = TRUE])
  /\ UNCHANGED <<scene, member, open, active, profile, requests, clips, form, work, counts>>

\* A private message is dismissed, or a public one deletes itself.
Dismiss(m) ==
  /\ msgs[m] # Closed /\ msgs[m].screen # "thinking"
  /\ (~msgs[m].public \/ msgs[m].screen \in {"picker", "clipSent"})
  /\ \A p \in Presses : work[p] # Idle => work[p].on # m
  /\ Show(m, Closed)
  /\ UNCHANGED <<scene, data, form, work, counts>>

Outside(what) == what \in scene.meanwhile /\ outside < scene.outside /\ outside' = outside + 1

\* A campaign is paused, ended or out of budget, or active again.
CampaignChanges(c) ==
  /\ \/ Outside("close")  /\ c \in open    /\ open' = open \ {c}
     \/ Outside("reopen") /\ c \notin open /\ open' = open \cup {c}
  /\ UNCHANGED <<scene, msgs, member, active, profile, draft, waiting, requests, clips, form, work,
                 drafts, clicks, faults>>

\* Staff remove a member, or suspend a creator.
MemberRemoved(u, c) ==
  /\ Outside("remove") /\ c \in member[u] /\ member' = [member EXCEPT ![u] = @ \ {c}]
  /\ UNCHANGED <<scene, msgs, open, active, profile, draft, waiting, requests, clips, form, work,
                 drafts, clicks, faults>>

Suspended(u) ==
  /\ Outside("suspend") /\ u \in active /\ active' = active \ {u}
  /\ UNCHANGED <<scene, msgs, member, open, profile, draft, waiting, requests, clips, form, work,
                 drafts, clicks, faults>>

\* ALLOWED_PAYOUT_TRANSITIONS, without the creator's.
StaffMoves ==
  [REQUESTED |-> {"UNDER_REVIEW", "REJECTED"}, UNDER_REVIEW |-> {"APPROVED", "REJECTED"},
   APPROVED |-> {"PROCESSING"}, PROCESSING |-> {"COMPLETED", "FAILED"}, FAILED |-> {"PROCESSING"},
   COMPLETED |-> {}, REJECTED |-> {}, CANCELLED |-> {}]

\* Staff work on a request; trying a failed disbursement again looks at no balance.
Decided(i) ==
  /\ Outside("decide")
  /\ \E st \in StaffMoves[requests[i].status] :
       requests' = [requests EXCEPT ![i].status = st, ![i].retried = @ \/ requests[i].status = "FAILED"]
  /\ UNCHANGED <<scene, msgs, member, open, active, profile, draft, waiting, clips, form, work,
                 drafts, clicks, faults>>

\* The draft's time is over.
DraftExpires(u) ==
  /\ Outside("expire") /\ draft[u] # NoDraft /\ draft' = [draft EXCEPT ![u] = NoDraft]
  /\ UNCHANGED <<scene, msgs, member, open, active, profile, waiting, requests, clips, form, work,
                 drafts, clicks, faults>>

\* The process dies: what it was doing is lost and so are the drafts; the upload
\* sessions and the open forms are not (payout-upload-session.manager.js).
Crash ==
  /\ Fault
  /\ msgs' = [m \in Messages |-> IF \E p \in Presses : work[p] # Idle /\ work[p].on = m
                                 THEN Left(msgs[m]) ELSE msgs[m]]
  /\ work' = [p \in Presses |-> Idle]
  /\ draft' = [u \in Creators |-> NoDraft]
  /\ UNCHANGED <<scene, member, open, active, profile, waiting, requests, clips, form,
                 drafts, clicks, outside>>

Handle(p) == Do(p) \/ ReadScreen(p) \/ Consume(p) \/ Create(p) \/ Throw(p) \/ Draw(p) \/ DrawFails(p)
             \/ Report(p) \/ ReportFails(p)

Next ==
  \/ \E p \in Presses, u \in scene.creators :
       \/ \E m \in Messages : msgs[m] # Closed /\ \E b \in Buttons(msgs[m]) : Press(p, u, m, b)
       \/ \E c \in scene.commands : Command(p, u, c)
       \/ SubmitForm(p, u)
  \/ \E p \in Presses : Handle(p)
  \/ \E u \in scene.creators : \/ CloseForm(u) \/ Upload(u) \/ Suspended(u) \/ DraftExpires(u)
                         \/ \E c \in Campaigns : MemberRemoved(u, c)
  \/ \E m \in Messages : Dismiss(m)
  \/ \E c \in Campaigns : CampaignChanges(c)
  \/ \E i \in DOMAIN requests : Decided(i)
  \/ Crash

Spec     == Init /\ [][Next]_vars
FairSpec == Spec /\ \A p \in Presses : WF_vars(Handle(p))

-----------------------------------------------------------------------------
(* Properties                                                              *)

\* The messages, forms, presses and rows are well formed, and the router knows
\* every button.
TypeOK ==
  /\ \A m \in Messages : msgs[m] = Closed \/ (msgs[m].by \in Creators /\ msgs[m].public \in BOOLEAN
                                              /\ \A b \in Buttons(msgs[m]) : b.do \in CustomIds /\ Routes[b.do] # Unrecognized)
  /\ \A u \in Creators : /\ member[u] \subseteq Campaigns /\ profile[u] \in Nat
                         /\ draft[u] = NoDraft \/ draft[u].amount \in Amounts
                         /\ form[u].kind \in {"", "amount", "profile", "clip"}
  /\ open \subseteq Campaigns /\ active \subseteq Creators /\ waiting \subseteq Creators
  /\ \A p \in Presses : work[p] = Idle \/ work[p].stage \in {"do", "read", "create", "draw", "report"}

\* Submit Payout pressed twice, in one message or in two, makes one request of a
\* draft (payout.interactions.js: the draft is consumed atomically).
OneRequestPerDraft ==
  \A i, j \in DOMAIN requests : requests[i].draft = requests[j].draft => i = j

\* What a creator has asked for and not got back never exceeds what was earned, though
\* each draft was checked before the others became requests (createPayoutRequest
\* checks again).  Only a request whose failed disbursement is tried again is not
\* counted: the failure gave its amount back, which may have been asked for anew
\* (payout.state-machine.js:24).
Kept(u) == {i \in Reserved(u) : ~requests[i].retried}
WithinBalance == \A u \in Creators : SumFunctionOnSet(Requested, Kept(u)) <= Balance

\* Every command, button and form that answers with a message of its own ends in
\* an answer, if only of an error, unless the process dies first or the sending of
\* the error fails in its turn (router.js:208).
ThinkingEnds ==
  \A m \in Messages :
    (msgs[m].screen = "thinking") ~> (msgs[m].screen # "thinking" \/ msgs[m].state = "lost")

=============================================================================
