------------------------------ MODULE Platform ------------------------------
(***************************************************************************)
(* The parts that run and serve the server, side by side: the process with *)
(* its bot (Process), the messages of a managed channel (ChannelHub) and   *)
(* the provisioning of a server (Provisioner).  None of them reads the     *)
(* state of another; what two of them name alike has two names here.       *)
(***************************************************************************)

CONSTANTS
  MaxClients, MaxLimits, MaxFailures, Production, Accidents,           \* Process
  Workers, HubJobs, HubChannel, Window, SetupWindow, Posts, Removals,           \* ChannelHub
  MaxPosts, MaxRuns, MaxMishaps,
  Runs, Declared, Legacy, Edits, Faulty,                                        \* Provisioner
  MaxStarts, MaxEdits, MaxSetupCrashes, MaxSetupFaults

VARIABLES
  botLifecycleState, activeRateLimit, isReconnecting, isLoginInFlight, reconnectTimer, discordClient,
  created, connected, greeted, attempt, started, stopped, limits, failures,
  boot, down, exit, server, workers, job, queues, database, interval, daily, warmup, ahead,
  messages, next, timer, hubWork, posts, removals, runs, hubCrashes, hubFaults,
  guildRoles, channels, nextChannel, setup, disturbed, starts, edits, setupCrashes, setupFaults

B == INSTANCE Process

CH == INSTANCE ChannelHub WITH
  Jobs <- HubJobs, Channel <- HubChannel,
  work <- hubWork, crashes <- hubCrashes, faults <- hubFaults

SU == INSTANCE Provisioner WITH
  roles <- guildRoles, next <- nextChannel, run <- setup, crashes <- setupCrashes, faults <- setupFaults,
  MaxCrashes <- MaxSetupCrashes, MaxFaults <- MaxSetupFaults

ASSUME PlatformConstants == B!ProcessConstants /\ CH!ChannelHubConstants /\ SU!ProvisionerConstants

-----------------------------------------------------------------------------
(* Properties                                                              *)

\* Whenever the signal comes, a process that exits with 0 has torn down what it had
\* opened, except for what the boot had not come to, a login in flight and the warm-up
\* when the shutdown passed them (app.js).
CleanExit == B!CleanExit

\* A bot that was started is connected in the end, unless the reason is fatal, it is
\* stopped or the process ends (client.js).
BotGetsThrough == B!BotGetsThrough

\* As long as staff delete nothing, no run, overlapping others or not, leaves a channel
\* that takes no notices, and is not the staff dashboard, without the hub it has ("Keep
\* the single canonical bot message", channel.inactivity.js:70).
HubKept == CH!HubKept

\* After five minutes without a person a channel comes back to one hub and no message
\* of people, unless a person comes back first, another run works there meanwhile, it
\* holds more than one fetch returns, or something fails after that moment
\* (channel.inactivity.js).
BackToHub == CH!BackToHub

\* A set-up that reports "Ready" on a server nobody else changed meanwhile leaves
\* the whole declared structure (the summary of commands/setup.js).
ReadyIsComplete == SU!ReadyIsComplete

=============================================================================
