----------------------------- MODULE ChannelHub -----------------------------
(***************************************************************************)
(* The messages of one managed channel: the hub that /setup, a reset by    *)
(* staff and five minutes without activity edit or post                    *)
(* (server.provisioner.js, channel.inactivity.js), between the messages of *)
(* people and the notices other parts of the bot post there                *)
(* (staff.notifications.js).  Every fetch, edit, post and deletion is a    *)
(* call of its own, and what was fetched may have changed by the next one. *)
(***************************************************************************)
EXTENDS Integers, FiniteSets

CONSTANTS
  Workers,    \* runs that may be under way at the same time
  Jobs,       \* what they do: "setup", "reset", "timer"
  Channel,    \* "creator": the creators' dashboard; "staff": the staff's; "queue": another staff channel
  Window,     \* the messages a fetch returns (50)
  SetupWindow,\* the same for the staff dashboard under /setup (10)
  Posts,      \* what is posted: "text", "notice", "error"
  Removals,   \* whether staff delete messages
  MaxPosts, MaxRuns, MaxMishaps   \* bounds; a mishap is a failure, a crash or a removal

NoOne == 0

\* What the constants may be.
ChannelHubConstants ==
  /\ Jobs \subseteq {"setup", "reset", "timer"} /\ Posts \subseteq {"text", "notice", "error"}
  /\ Channel \in {"creator", "staff", "queue"}
  /\ {Window, SetupWindow} \subseteq Nat \ {0}
  /\ Removals \in BOOLEAN
  /\ {MaxPosts, MaxRuns, MaxMishaps} \subseteq Nat

VARIABLES
  messages,  \* the channel: records [id, kind, panel], the newest has the greatest id
  next,      \* the next message id
  timer,     \* the inactivity timer: "none", "running", or "over" when its five minutes are
  work,      \* per worker, the run in progress
  posts, removals, runs, crashes, faults  \* what the bounds count

vars   == <<messages, next, timer, work, posts, removals, runs, crashes, faults>>
counts == <<posts, removals, runs, crashes, faults>>

Idle == [stage |-> "idle"]
Bot  == {"hub", "notice", "error"}   \* what the bot wrote; people write "text"
Hubs == {m \in messages : m.kind = "hub"}
Present(id) == \E m \in messages : m.id = id

\* What a fetch of so many messages returns, and the newest of some messages.
Latest(limit) == {m \in messages : Cardinality({n \in messages : n.id > m.id}) < limit}
Newest(S) == CHOOSE m \in S : \A n \in S : n.id <= m.id

Ids == 1..(next - 1)

Message == [id : Ids, kind : Bot \cup {"text"}, panel : {"", "creator", "staff", "queue"}]

Run == [stage : {"fetch", "write", "clean", "sweep", "delete"}, job : Jobs,
        hub : Ids \cup {NoOne}, todo : SUBSET Ids]

TypeOK ==
  /\ next \in Nat \ {0}
  /\ messages \subseteq Message
  /\ \A m, n \in messages : m.id = n.id => m = n
  /\ \A m \in messages : (m.kind = "hub") = (m.panel # "")
  /\ timer \in {"none", "running", "over"}
  /\ work \in [Workers -> {Idle} \cup Run]
  /\ \A w \in Workers : work[w].stage = "delete" => work[w].todo # {}

Init ==
  /\ messages = {} /\ next = 1
  /\ timer = "none"
  /\ work = [w \in Workers |-> Idle]
  /\ posts = 0 /\ removals = 0 /\ runs = 0 /\ crashes = 0 /\ faults = 0

Mishaps == faults + crashes + removals

Become(w, s) == work' = [work EXCEPT ![w] = s]

(***************************************************************************)
(* What others do in the channel.  A message or an interaction of a person *)
(* clears the timer and sets it anew, even one that is over but has not    *)
(* fired; the bot's own messages do not.                                   *)
(***************************************************************************)
Post(kind) ==
  /\ posts < MaxPosts /\ posts' = posts + 1
  /\ kind \in Posts
  /\ messages' = messages \cup {[id |-> next, kind |-> kind, panel |-> ""]}
  /\ next' = next + 1
  /\ timer' = IF kind = "text" THEN "running" ELSE timer
  /\ UNCHANGED <<work, removals, runs, crashes, faults>>

Touch ==
  /\ "timer" \in Jobs /\ timer' = "running"
  /\ UNCHANGED <<messages, next, work, counts>>

\* Five minutes without a person have passed; they may never do.
Elapse ==
  /\ timer = "running" /\ timer' = "over"
  /\ UNCHANGED <<messages, next, work, counts>>

StaffDelete ==
  /\ Removals /\ Mishaps < MaxMishaps /\ removals' = removals + 1
  /\ \E m \in messages : messages' = messages \ {m}
  /\ UNCHANGED <<next, timer, work, posts, runs, crashes, faults>>

(***************************************************************************)
(* A run: /setup, /admin reset-channel, or the timer.                      *)
(***************************************************************************)
Begin(w, job) ==
  /\ work[w] = Idle /\ job \in Jobs
  /\ IF job = "timer" THEN timer = "over" /\ timer' = "none" /\ UNCHANGED runs
     ELSE runs < MaxRuns /\ runs' = runs + 1 /\ UNCHANGED timer
  /\ Become(w, [stage |-> "fetch", job |-> job, hub |-> NoOne, todo |-> {}])
  /\ UNCHANGED <<messages, next, posts, removals, crashes, faults>>

\* The panel a run writes: by its name, a reset takes the staff's dashboard for the creators'.
Panel(job) == IF Channel = "staff" /\ job # "setup" THEN "creator" ELSE Channel

\* The message a run takes for the hub: the newest of the bot's with an embed,
\* an error reply has none; /setup takes any of the bot's on the staff dashboard.
IsStaffSetup(job) == Channel = "staff" /\ job = "setup"
Fetched(job) == IF IsStaffSetup(job) THEN SetupWindow ELSE Window
Taken(job) ==
  {m \in Latest(Fetched(job)) : m.kind \in (IF IsStaffSetup(job) THEN Bot ELSE {"hub", "notice"})}

Fetch(w) ==
  LET taken == Taken(work[w].job) IN
  /\ work[w].stage = "fetch"
  /\ Become(w, [work[w] EXCEPT !.stage = "write",
                               !.hub = IF taken = {} THEN NoOne ELSE Newest(taken).id])
  /\ UNCHANGED <<messages, next, timer, counts>>

\* After the hub, error replies are removed in development; the staff dashboard
\* under /setup leaves them, and the timer goes on to sweep.
AfterHub(w)   == IF IsStaffSetup(work[w].job) THEN Idle ELSE [work[w] EXCEPT !.stage = "clean"]
BugAfterClean(w) == Idle
AfterClean(w) ==
  IF work[w].job = "timer" THEN [work[w] EXCEPT !.stage = "sweep", !.hub = NoOne] ELSE Idle

Hub(w, id) == [id |-> id, kind |-> "hub", panel |-> Panel(work[w].job)]

Edit(w) ==
  /\ work[w].stage = "write" /\ Present(work[w].hub)
  /\ messages' = {m \in messages : m.id # work[w].hub} \cup {Hub(w, work[w].hub)}
  /\ Become(w, AfterHub(w))
  /\ UNCHANGED <<next, timer, counts>>

Send(w) ==
  /\ work[w].stage = "write" /\ work[w].hub = NoOne
  /\ messages' = messages \cup {Hub(w, next)}
  /\ next' = next + 1
  /\ Become(w, AfterHub(w))
  /\ UNCHANGED <<timer, counts>>

\* A fetch or a write that fails, or whose message is gone, ends the
\* reconciliation without an error; the timer sweeps all the same.
HubFails(w) ==
  /\ work[w].stage \in {"fetch", "write"}
  /\ \/ work[w].stage = "write" /\ work[w].hub # NoOne /\ ~Present(work[w].hub) /\ UNCHANGED faults
     \/ Mishaps < MaxMishaps /\ faults' = faults + 1
  /\ Become(w, AfterClean(w))
  /\ UNCHANGED <<messages, next, timer, posts, removals, runs, crashes>>

Clean(w) ==
  /\ work[w].stage = "clean"
  /\ messages' = messages \ {m \in Latest(Window) : m.kind = "error" /\ m.id # work[w].hub}
  /\ Become(w, AfterClean(w))
  /\ UNCHANGED <<next, timer, counts>>

CleanFails(w) ==
  /\ work[w].stage = "clean" /\ Mishaps < MaxMishaps /\ faults' = faults + 1
  /\ Become(w, AfterClean(w))
  /\ UNCHANGED <<messages, next, timer, posts, removals, runs, crashes>>

(***************************************************************************)
(* The sweep of the timer: the newest message of the bot with an embed is  *)
(* kept for the hub, the others of that fetch are deleted one by one.      *)
(***************************************************************************)
SweptAfter(kept) == {m.id : m \in Latest(Window) \ kept}

\* Nothing is kept.
BugSweepAll(w) ==
  /\ work[w].stage = "sweep"
  /\ IF messages = {} THEN Become(w, Idle)
     ELSE Become(w, [work[w] EXCEPT !.stage = "delete", !.todo = SweptAfter({})])
  /\ UNCHANGED <<messages, next, timer, counts>>

Sweep(w) ==
  LET embeds == {m \in Latest(Window) : m.kind \in {"hub", "notice"}}
      doomed == SweptAfter(IF embeds = {} THEN {} ELSE {Newest(embeds)})
  IN
  /\ work[w].stage = "sweep"
  /\ IF doomed = {} THEN Become(w, Idle)
     ELSE Become(w, [work[w] EXCEPT !.stage = "delete", !.todo = doomed])
  /\ UNCHANGED <<messages, next, timer, counts>>

SweepFails(w) ==
  /\ work[w].stage = "sweep" /\ Mishaps < MaxMishaps /\ faults' = faults + 1
  /\ Become(w, Idle)
  /\ UNCHANGED <<messages, next, timer, posts, removals, runs, crashes>>

\* The next of them, the newest, is deleted; a deletion that fails is ignored.
Delete(w) ==
  LET id   == CHOOSE i \in work[w].todo : \A j \in work[w].todo : j <= i
      rest == work[w].todo \ {id}
  IN
  /\ work[w].stage = "delete"
  /\ \/ messages' = {m \in messages : m.id # id} /\ UNCHANGED faults
     \/ /\ Mishaps < MaxMishaps /\ faults' = faults + 1
        /\ UNCHANGED messages
  /\ Become(w, IF rest = {} THEN Idle ELSE [work[w] EXCEPT !.todo = rest])
  /\ UNCHANGED <<next, timer, posts, removals, runs, crashes>>

\* A restart forgets the timer as well as the runs.
Crash ==
  /\ Mishaps < MaxMishaps /\ crashes' = crashes + 1
  /\ timer' = "none"
  /\ work' = [w \in Workers |-> Idle]
  /\ UNCHANGED <<messages, next, posts, removals, runs, faults>>

Step(w) == Fetch(w) \/ Edit(w) \/ Send(w) \/ Clean(w) \/ Sweep(w) \/ Delete(w)
Fault(w) == HubFails(w) \/ CleanFails(w) \/ SweepFails(w)

Next ==
  \/ \E kind \in Posts : Post(kind)
  \/ Touch \/ Elapse \/ StaffDelete \/ Crash
  \/ \E w \in Workers : Step(w) \/ Fault(w) \/ \E job \in Jobs : Begin(w, job)

Spec == Init /\ [][Next]_vars

\* The event loop goes on with every run and fires a timer that is over.  Nothing
\* says that people ever leave the channel alone for five minutes.
FairSpec == /\ Spec
            /\ \A w \in Workers : WF_vars(Step(w) \/ Fault(w))
            /\ WF_vars(\E w \in Workers : Begin(w, "timer"))

(***************************************************************************)
(* Properties.                                                             *)
(***************************************************************************)
\* As long as staff delete nothing, no run of the bot, overlapping others or not,
\* leaves a channel without a hub that has one ("Keep the single canonical bot
\* message", channel.inactivity.js:70).  That is so of the channels that take no
\* notices, which a sweep may keep for the hub, but not of the staff dashboard,
\* whose set-up may make the hub of an error reply another run deletes.
HubKept == [][removals' = 0 => (Hubs # {} => Hubs' # {})]_vars

\* Once nobody has been active for five minutes, the channel comes back to one hub
\* and no message of people ("leave it 100% fresh", channel.inactivity.js:63),
\* unless a person comes back first, another run works in the channel meanwhile, it
\* holds more messages than one fetch returns, or something fails, staff delete a
\* message or the process dies after that moment: what went wrong before it does
\* not count.
Fresh == Cardinality(Hubs) = 1 /\ \A m \in messages : m.kind # "text"

BackToHub ==
  \A k \in 0..MaxMishaps :
    timer = "over" /\ Mishaps = k ~>
      \/ Fresh
      \/ timer = "running"
      \/ Cardinality({w \in Workers : work[w] # Idle}) > 1
      \/ Cardinality(messages) > Window
      \/ Mishaps > k
============================================================================
