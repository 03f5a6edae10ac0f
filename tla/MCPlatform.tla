----------------------------- MODULE MCPlatform -----------------------------
(***************************************************************************)
(* The parts of Platform and the dispatch cycles (Scheduler) for TLC.      *)
(* None of them reads the state of another, so every behaviour is of one   *)
(* part, and the state of the others stays where it begins.                *)
(***************************************************************************)
EXTENDS Platform, Integers, Sequences, FiniteSets

CONSTANTS a, w1, w2, r1

\* What the server of the run held before.
MCLegacy == {[name |-> "welcome", kind |-> "text"], [name |-> "bot-errors", kind |-> "text"]}

VARIABLES
  part,                                                                     \* which
  eligible, bucket, waiting, done, isDispatching, cycle, changes, errors    \* Scheduler

processVars   == <<botLifecycleState, activeRateLimit, isReconnecting, isLoginInFlight, reconnectTimer, discordClient,
                   created, connected, greeted, attempt, started, stopped, limits, failures,
                   boot, down, exit, server, workers, job, queues, database, interval, daily, warmup, ahead>>
schedulerVars == <<eligible, bucket, waiting, done, isDispatching, cycle, changes, errors>>
hubVars       == <<messages, next, timer, hubWork, posts, removals, runs, hubCrashes, hubFaults>>
setupVars     == <<guildRoles, channels, nextChannel, setup, disturbed, starts, edits, setupCrashes, setupFaults>>
allVars       == <<part, processVars, schedulerVars, hubVars, setupVars>>

S == INSTANCE Scheduler WITH
  Instances <- {a}, Clips <- {1, 2}, BatchSize <- 1, Kept <- 4,
  Changes <- {"join", "leave"}, Faults <- {"query", "add"}, MaxChanges <- 2, MaxErrors <- 1

ASSUME SchedulerConstants == S!SchedulerConstants

MCInit ==
  /\ part \in {"process", "scheduler", "provisioner", "hub"}
  /\ B!Init /\ CH!Init
  /\ IF part = "scheduler" THEN S!Init
     ELSE /\ eligible = {} /\ bucket = 0 /\ waiting = {} /\ done = <<>> /\ cycle = <<>>
          /\ isDispatching = <<>> /\ changes = 0 /\ errors = 0
  /\ IF part = "provisioner" THEN SU!Init
     ELSE /\ guildRoles = {} /\ channels = {} /\ nextChannel = 1 /\ disturbed = {}
          /\ setup = [r \in Runs |-> SU!Off]
          /\ starts = 0 /\ edits = 0 /\ setupCrashes = 0 /\ setupFaults = 0

\* A step of one part; messages and mishaps have a bound together as well.
MaxHubEvents == 2

InProcess(A)     == part = "process" /\ A /\ UNCHANGED <<part, schedulerVars, setupVars, hubVars>>
InScheduler(A)   == part = "scheduler" /\ A /\ UNCHANGED <<part, processVars, setupVars, hubVars>>
InProvisioner(A) == part = "provisioner" /\ A /\ UNCHANGED <<part, processVars, schedulerVars, hubVars>>
InHub(A)         == /\ part = "hub" /\ A /\ posts' + CH!Mishaps' <= MaxHubEvents
                    /\ UNCHANGED <<part, processVars, schedulerVars, setupVars>>

MCNext ==
  \/ InProcess(B!ProcessNext)
  \/ InScheduler(S!Next)
  \/ InProvisioner(SU!Next)
  \/ InHub(CH!Next)

\* The fairness of ProcessFairSpec and of the others' FairSpec.
InBotPart(A) == InProcess(B!InBot(A))

MCFairness ==
  /\ WF_allVars(InBotPart(B!Diagnosed)) /\ WF_allVars(InBotPart(B!Answered)) /\ WF_allVars(InBotPart(B!Destroyed))
  /\ WF_allVars(InBotPart(B!TimerFires)) /\ WF_allVars(InBotPart(B!CooldownEnds))
  /\ \A g \in B!Clients : WF_allVars(InBotPart(B!ClientReady(g)))
  /\ WF_allVars(InScheduler(S!NextBucket))
  /\ WF_allVars(InScheduler(S!Begin(a))) /\ WF_allVars(InScheduler(S!Dispatches(a)))
  /\ WF_allVars(InScheduler(\E j \in S!Jobs : S!Work(j)))
  /\ \A w \in Workers : WF_allVars(InHub(CH!Step(w) \/ CH!Fault(w)))
  /\ WF_allVars(InHub(\E w \in Workers : CH!Begin(w, "timer")))

MCSpec == MCInit /\ [][MCNext]_allVars /\ MCFairness

\* A clip that stays approved is queued for polling again and again: no failure
\* stops the cycles and no page order leaves it out for ever (metric-scheduler.js).
EveryClipPolled == part = "scheduler" => S!EveryClipPolled

=============================================================================
