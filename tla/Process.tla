------------------------------ MODULE Process ------------------------------
(***************************************************************************)
(* The process around the bot: bootstrap and shutdown run as two tasks of  *)
(* one event loop beside the workers, the timers of the schedulers and the *)
(* bot's own login attempts (app.js, workers/index.js, queues/index.js,    *)
(* database/client.js, server/health.js; the bot is module Bot).           *)
(***************************************************************************)
EXTENDS Bot

CONSTANTS
  Production,  \* config.isProduction
  Accidents    \* "bind", "database", "redis", "exception"

\* What the constants may be.
ProcessConstants ==
  /\ BotConstants
  /\ Production \in BOOLEAN
  /\ Accidents \subseteq {"bind", "database", "redis", "exception"}

VARIABLES
  boot,     \* the next step of bootstrap
  down,     \* the next step of shutdown, "no" before a signal
  exit,     \* the exit code, "none" while the process lives
  server,   \* the health server listens
  workers,  \* "none", "running", "closing", "closed"
  job,      \* a worker holds a job
  queues,   \* a queue and its Redis connection are open
  database, \* the Prisma client is connected
  interval, \* the interval of the metric scheduler is set
  daily,    \* the interval of the retention scheduler is set
  warmup,   \* the first metric cycle is still to come
  ahead     \* history: what was still to be opened when the shutdown passed it

processVars == <<boot, down, exit, server, workers, job, queues, database, interval, daily, warmup, ahead>>
vars        == <<botVars, processVars>>
timers      == <<interval, daily, warmup>>
resources   == <<server, workers, job, queues, database, timers>>

BootSteps == <<"health", "database", "redis", "workers", "retention", "bot", "login", "done">>
DownSteps == <<"health", "bot", "workers", "closing", "queues", "database", "exit", "done">>

TypeOK ==
  /\ BotTypeOK
  /\ \E n \in 1..8 : boot = BootSteps[n]
  /\ down = "no" \/ \E n \in 1..8 : down = DownSteps[n]
  /\ exit \in {"none", "0", "1"}
  /\ server \in BOOLEAN /\ job \in BOOLEAN /\ queues \in BOOLEAN /\ database \in BOOLEAN
  /\ interval \in BOOLEAN /\ daily \in BOOLEAN /\ warmup \in BOOLEAN
  /\ workers \in {"none", "running", "closing", "closed"}
  /\ workers = "closed" => ~job
  /\ ahead \subseteq {"server", "login", "workers", "warmup"}

Init ==
  /\ BotInit
  /\ boot = "health" /\ down = "no" /\ exit = "none"
  /\ server = FALSE /\ workers = "none" /\ job = FALSE
  /\ queues = FALSE /\ database = FALSE
  /\ interval = FALSE /\ daily = FALSE /\ warmup = FALSE
  /\ ahead = {}

Exit(code) == exit' = code

-----------------------------------------------------------------------------
(* bootstrap                                                               *)

BootHealth ==
  /\ boot = "health"
  /\ \/ boot' = "database" /\ server' = TRUE /\ UNCHANGED exit
     \/ "bind" \in Accidents /\ Exit("1") /\ UNCHANGED <<boot, server>>
  /\ UNCHANGED <<botVars, ahead, down, workers, job, queues, database, timers>>

\* Three attempts; in production a database that does not answer is fatal.
BootDatabase ==
  /\ boot = "database"
  /\ \/ boot' = "redis" /\ database' = TRUE /\ UNCHANGED exit
     \/ /\ "database" \in Accidents
        /\ IF Production THEN Exit("1") /\ UNCHANGED boot ELSE boot' = "redis" /\ UNCHANGED exit
        /\ UNCHANGED database
  /\ UNCHANGED <<botVars, ahead, down, server, workers, job, queues, timers>>

\* Without Redis the workers and schedulers are left out.
BootRedis ==
  /\ boot = "redis"
  /\ \/ boot' = "workers"
     \/ "redis" \in Accidents /\ boot' = "bot"
  /\ UNCHANGED <<botVars, ahead, down, exit, resources>>

\* startWorkers: the workers run, the metric scheduler sets its interval and
\* its warm-up, and the first retention dispatch is awaited.
BootWorkers ==
  /\ boot = "workers"
  /\ boot' = "retention"
  /\ workers' = "running"
  /\ interval' = TRUE /\ warmup' = TRUE
  /\ UNCHANGED <<botVars, ahead, down, exit, server, job, queues, database, daily>>

BootRetention ==
  /\ boot = "retention"
  /\ boot' = "bot"
  /\ queues' = TRUE /\ database' = TRUE /\ daily' = TRUE
  /\ UNCHANGED <<botVars, ahead, down, exit, server, workers, job, interval, warmup>>

BootBot ==
  /\ boot = "bot"
  /\ boot' = "login"
  /\ Start
  /\ UNCHANGED <<ahead, down, exit, resources>>

\* Only a fatal answer ends the process, and only in production.
BootEnds ==
  /\ boot = "login"
  /\ started \in {"returned", "threw"}
  /\ boot' = "done"
  /\ IF started = "threw" /\ Production THEN Exit("1") ELSE UNCHANGED exit
  /\ UNCHANGED <<botVars, ahead, down, resources>>

-----------------------------------------------------------------------------
(* Work                                                                    *)

TakeJob ==
  /\ workers = "running" /\ ~job
  /\ job' = TRUE /\ database' = TRUE
  /\ UNCHANGED <<botVars, ahead, boot, down, exit, server, workers, queues, timers>>

FinishJob ==
  /\ job
  /\ job' = FALSE
  /\ UNCHANGED <<botVars, ahead, boot, down, exit, server, workers, queues, database, timers>>

\* A cycle opens the queue and the database again when they were closed.
Dispatches == queues' = TRUE /\ database' = TRUE

Cycle ==
  /\ interval \/ daily
  /\ Dispatches
  /\ UNCHANGED <<botVars, ahead, boot, down, exit, server, workers, job, interval, daily, warmup>>

\* The timeout of the first cycle, which nothing clears.
WarmupEnds ==
  /\ warmup
  /\ warmup' = FALSE
  /\ Dispatches
  /\ UNCHANGED <<botVars, ahead, boot, down, exit, server, workers, job, interval, daily>>

Exception ==
  /\ "exception" \in Accidents
  /\ Exit("1")
  /\ UNCHANGED <<botVars, ahead, boot, down, resources>>

-----------------------------------------------------------------------------
(* shutdown                                                                *)

\* At any moment; a second signal finds the guard set.
Signal ==
  /\ down = "no"
  /\ down' = "health"
  /\ UNCHANGED <<botVars, ahead, boot, exit, resources>>

\* What the shutdown passes while it is still to be opened.
Passes(things) == ahead' = ahead \cup things
Late(thing, pending) == IF pending THEN {thing} ELSE {}

DownHealth ==
  /\ down = "health"
  /\ down' = "bot"
  /\ server' = FALSE
  /\ Passes(Late("server", boot = "health"))
  /\ UNCHANGED <<botVars, boot, exit, workers, job, queues, database, timers>>

DownBot ==
  /\ down = "bot"
  /\ down' = "workers"
  /\ StopBot
  /\ Passes(Late("login", started = "no" \/ attempt # NoAttempt))
  /\ UNCHANGED <<boot, exit, resources>>

\* stopWorkers clears both intervals and closes the workers there are.
DownWorkers ==
  /\ down = "workers"
  /\ interval' = FALSE /\ daily' = FALSE
  /\ IF workers = "none"
     THEN down' = "queues" /\ UNCHANGED workers
     ELSE down' = "closing" /\ workers' = "closing"
  /\ Passes(Late("workers", boot \in {"health", "database", "redis", "workers", "retention"})
            \cup Late("warmup", warmup))
  /\ UNCHANGED <<botVars, boot, exit, server, job, queues, database, warmup>>

\* Closing a worker waits for the job it holds.
WorkersClosed ==
  /\ down = "closing"
  /\ ~job
  /\ down' = "queues"
  /\ workers' = "closed"
  /\ UNCHANGED <<botVars, ahead, boot, exit, server, job, queues, database, timers>>

BugDownQueues ==
  /\ down = "queues"
  /\ down' = "database"
  /\ UNCHANGED queues
  /\ UNCHANGED <<botVars, ahead, boot, exit, server, workers, job, database, timers>>

DownQueues ==
  /\ down = "queues"
  /\ down' = "database"
  /\ queues' = FALSE
  /\ UNCHANGED <<botVars, ahead, boot, exit, server, workers, job, database, timers>>

DownDatabase ==
  /\ down = "database"
  /\ down' = "exit"
  /\ database' = FALSE
  /\ UNCHANGED <<botVars, ahead, boot, exit, server, workers, job, queues, timers>>

DownExit ==
  /\ down = "exit"
  /\ down' = "done"
  /\ Exit("0")
  /\ UNCHANGED <<botVars, ahead, boot, resources>>

\* Ten seconds after the signal the process ends whatever it waits for.
ForcedExit ==
  /\ down \notin {"no", "done"}
  /\ Exit("1")
  /\ UNCHANGED <<botVars, ahead, boot, down, resources>>

-----------------------------------------------------------------------------
Boots == BootHealth \/ BootDatabase \/ BootRedis \/ BootWorkers \/ BootRetention \/ BootBot \/ BootEnds

Downs ==
  DownHealth \/ DownBot \/ DownWorkers \/ WorkersClosed \/ DownQueues \/ DownDatabase \/ DownExit \/ ForcedExit

ProcessNext ==
  /\ exit = "none"
  /\ \/ Boots
     \/ BotGoesOn /\ UNCHANGED processVars
     \/ TakeJob \/ FinishJob \/ Cycle \/ WarmupEnds \/ Exception
     \/ Signal \/ Downs

ProcessSpec == Init /\ [][ProcessNext]_vars

\* The bot goes on while the process lives, and the teardown's timeout happens;
\* a job may never end.
InBot(A) == exit = "none" /\ A /\ UNCHANGED processVars

ProcessFairness ==
  /\ WF_vars(InBot(Diagnosed)) /\ WF_vars(InBot(Answered)) /\ WF_vars(InBot(Destroyed))
  /\ WF_vars(InBot(TimerFires)) /\ WF_vars(InBot(CooldownEnds))
  /\ \A g \in Clients : WF_vars(InBot(ClientReady(g)))
  /\ WF_vars(exit = "none" /\ ForcedExit)

ProcessFairSpec == ProcessSpec /\ ProcessFairness

-----------------------------------------------------------------------------
(* Properties                                                              *)

\* Whenever the signal comes, a process that exits with 0 has torn down what
\* it had opened ("cleanly drain background queues, disconnect Redis, close
\* Prisma pools, and destroy Discord websocket connections", README.md), except
\* for what was still under way when the shutdown passed it: a health server,
\* workers or bot that the boot had not come to, a login in flight, which no
\* stop cancels, and the warm-up's cycle, which opens queues and database again.
CleanExit ==
  exit = "0" =>
    /\ server => "server" \in ahead
    /\ job \/ interval \/ daily => "workers" \in ahead
    /\ queues \/ database => ahead \cap {"workers", "warmup"} # {}
    /\ connected # {} \/ attempt # NoAttempt => "login" \in ahead

\* A bot that was started gets its connection in the end, however many logins
\* fail, unless the reason is fatal, it is stopped or the process ends
\* (client.js:438 "Launch an asynchronous background reconnect loop with
\* exponential backoff").
BotGetsThrough ==
  started # "no" ~> connected # {} \/ botLifecycleState = "failed" \/ stopped \/ exit # "none"

=============================================================================
