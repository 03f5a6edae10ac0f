-------------------------------- MODULE Bot --------------------------------
(***************************************************************************)
(* The bot's connection to Discord (bot/client.js): the login attempts of  *)
(* the start and of the reconnect loop, their timeouts, the cooldowns that *)
(* Discord asks for, and stopping while any of it is under way.            *)
(* A cooldown is running or past; backoff and patience are the orders they *)
(* force between it and a timer.                                           *)
(***************************************************************************)
EXTENDS Naturals

CONSTANTS
  MaxClients,  \* bound on the Client objects
  MaxLimits,   \* bound on the answers 429
  MaxFailures \* bound on the failed logins

\* What the constants may be.
BotConstants ==
  MaxClients \in Nat \ {0} /\ MaxLimits \in Nat /\ MaxFailures \in Nat

VARIABLES
  botLifecycleState,
  activeRateLimit,   \* "none", or whether its resetAt lies ahead
  isReconnecting,
  isLoginInFlight,
  reconnectTimer,    \* what the armed timer waits for
  discordClient,     \* the client in use, 0 for null
  created,           \* clients created so far
  connected,         \* the clients with an open gateway connection
  greeted,           \* the clients whose ClientReady has been handled
  attempt,           \* executeLoginAttempt
  started,           \* startDiscordBot: "no", "pending", "returned" or "threw"
  stopped,           \* stopDiscordBot has run
  limits, failures   \* counters

botVars == <<botLifecycleState, activeRateLimit, isReconnecting, isLoginInFlight, reconnectTimer,
             discordClient, created, connected, greeted, attempt, started, stopped, limits, failures>>
clients == <<discordClient, created, connected, greeted>>
flags   == <<isReconnecting, isLoginInFlight, reconnectTimer>>

States  == {"idle", "ready", "rate_limited", "reconnecting", "failed"}
Clients == 1..MaxClients
NoAttempt == [stage |-> "none"]

BotTypeOK ==
  /\ botLifecycleState \in States
  /\ activeRateLimit \in {"none", "running", "past"}
  /\ isReconnecting \in BOOLEAN /\ isLoginInFlight \in BOOLEAN
  /\ reconnectTimer \in {"none", "backoff", "cooldown"}
  /\ discordClient \in 0..created /\ created \in 0..MaxClients
  /\ connected \subseteq 1..created /\ greeted \subseteq 1..created
  /\ attempt \in {NoAttempt} \cup
       [stage : {"diagnose", "login", "orphan", "destroy"}, by : {"start", "loop"},
        client : Clients, patient : BOOLEAN]
  /\ (attempt # NoAttempt /\ ~stopped) => isLoginInFlight
  /\ started \in {"no", "pending", "returned", "threw"}
  /\ stopped \in BOOLEAN
  /\ limits \in 0..MaxLimits /\ failures \in 0..MaxFailures

BotInit ==
  /\ botLifecycleState = "idle"
  /\ activeRateLimit = "none"
  /\ isReconnecting = FALSE /\ isLoginInFlight = FALSE /\ reconnectTimer = "none"
  /\ discordClient = 0 /\ created = 0 /\ connected = {} /\ greeted = {}
  /\ attempt = NoAttempt
  /\ started = "no" /\ stopped = FALSE
  /\ limits = 0 /\ failures = 0

-----------------------------------------------------------------------------
(* Attempts                                                                *)

\* getDiscordClient.
WithClient(g) ==
  IF discordClient = 0
  THEN created < MaxClients /\ created' = created + 1 /\ discordClient' = created' /\ g = created'
  ELSE g = discordClient /\ UNCHANGED <<created, discordClient>>

BeginAttempt(who) ==
  \E g \in Clients :
    /\ WithClient(g)
    /\ isLoginInFlight' = TRUE
    /\ attempt' = [stage |-> "diagnose", by |-> who, client |-> g, patient |-> FALSE]
    /\ UNCHANGED <<connected, greeted>>

Start ==
  /\ started = "no"
  /\ BeginAttempt("start")
  /\ started' = "pending"
  /\ UNCHANGED <<botLifecycleState, activeRateLimit, isReconnecting, reconnectTimer, stopped, limits,
                 failures>>

\* The diagnostics are over; a cooldown known by now extends the timeout.
Diagnosed ==
  /\ attempt.stage = "diagnose"
  /\ attempt' = [attempt EXCEPT !.stage = "login", !.patient = activeRateLimit = "running"]
  /\ UNCHANGED <<botLifecycleState, activeRateLimit, flags, clients, started, stopped, limits, failures>>

LoginSucceeds ==
  /\ attempt.stage = "login"
  /\ connected' = connected \cup {attempt.client}
  /\ botLifecycleState' = "ready"
  /\ activeRateLimit' = "none"
  /\ isLoginInFlight' = FALSE
  /\ attempt' = NoAttempt
  /\ IF attempt.by = "start"
     THEN started' = "returned" /\ UNCHANGED <<isReconnecting, reconnectTimer>>
     ELSE isReconnecting' = FALSE /\ reconnectTimer' = "none" /\ UNCHANGED started
  /\ UNCHANGED <<discordClient, created, greeted, stopped, limits, failures>>

\* The longer of the backoff and what is left of the cooldown.
WaitFor == IF activeRateLimit = "running" THEN "cooldown" ELSE "backoff"

ScheduleNext ==
  /\ isReconnecting' = TRUE
  /\ reconnectTimer' = WaitFor
  /\ botLifecycleState' = IF activeRateLimit = "running" THEN "rate_limited" ELSE "reconnecting"

BugFailed(reason) ==
  /\ attempt' = NoAttempt
  /\ UNCHANGED isLoginInFlight
  /\ started' = IF attempt.by = "loop" THEN started ELSE "returned"
  /\ ScheduleNext

\* What the start and the loop do with an attempt that threw: a fatal reason
\* is final; otherwise the start launches the loop, and the loop goes on
\* unless it was stopped.
Failed(reason) ==
  /\ attempt' = NoAttempt
  /\ isLoginInFlight' = FALSE
  /\ started' = IF attempt.by = "loop" THEN started
                ELSE IF reason = "fatal" THEN "threw" ELSE "returned"
  /\ IF reason = "fatal"
     THEN /\ botLifecycleState' = "failed"
          /\ isReconnecting' = (isReconnecting /\ attempt.by = "start")
          /\ UNCHANGED reconnectTimer
     ELSE IF attempt.by = "start" \/ isReconnecting
     THEN ScheduleNext
     ELSE /\ botLifecycleState' = IF reason = "limited" THEN "rate_limited" ELSE "reconnecting"
          /\ UNCHANGED <<isReconnecting, reconnectTimer>>

\* classifyDiscordError: whatever is not fatal counts as a rate limit while
\* a cooldown runs.
LoginFails(reason) ==
  /\ attempt.stage \in {"login", "orphan"}
  /\ failures < MaxFailures
  /\ failures' = failures + 1
  /\ reason = "transient" => activeRateLimit # "running"
  /\ Failed(reason)
  /\ UNCHANGED <<activeRateLimit, clients, stopped, limits>>

\* The timeout wins the race: the client is destroyed, and then the attempt
\* throws.
TimesOut ==
  /\ attempt.stage \in {"login", "orphan"}
  /\ failures < MaxFailures
  /\ failures' = failures + 1
  /\ attempt.patient => activeRateLimit # "running"
  /\ attempt' = [attempt EXCEPT !.stage = "destroy"]
  /\ UNCHANGED <<botLifecycleState, activeRateLimit, flags, clients, started, stopped, limits>>

Destroyed ==
  /\ attempt.stage = "destroy"
  /\ connected' = connected \ {attempt.client}
  /\ Failed(IF activeRateLimit = "running" THEN "limited" ELSE "transient")
  /\ UNCHANGED <<activeRateLimit, discordClient, created, greeted, stopped, limits, failures>>

\* The callback of the timer; an attempt still in flight puts it off.
TimerFires ==
  /\ reconnectTimer # "none"
  /\ reconnectTimer = "cooldown" => activeRateLimit # "running"
  /\ isReconnecting /\ botLifecycleState # "ready"
  /\ IF isLoginInFlight
     THEN ScheduleNext /\ UNCHANGED <<isLoginInFlight, attempt, clients>>
     ELSE /\ BeginAttempt("loop")
          /\ botLifecycleState' = "reconnecting"
          /\ reconnectTimer' = "none"
          /\ UNCHANGED isReconnecting
  /\ UNCHANGED <<activeRateLimit, started, stopped, limits, failures>>

-----------------------------------------------------------------------------
(* Events of the client                                                    *)

\* A request of the client is answered 429: one of an attempt, or any other
\* one while the bot is connected.
RateLimited ==
  /\ limits < MaxLimits
  /\ limits' = limits + 1
  /\ attempt.stage \in {"diagnose", "login"} \/ discordClient \in connected
  /\ botLifecycleState' = "rate_limited"
  /\ activeRateLimit' = "running"
  /\ UNCHANGED <<flags, clients, attempt, started, stopped, failures>>

CooldownEnds ==
  /\ activeRateLimit = "running"
  /\ activeRateLimit' = "past"
  /\ UNCHANGED <<botLifecycleState, flags, clients, attempt, started, stopped, limits, failures>>

\* client.once(ClientReady).
ClientReady(g) ==
  /\ g \in connected \ greeted
  /\ greeted' = greeted \cup {g}
  /\ botLifecycleState' = "ready"
  /\ activeRateLimit' = "none"
  /\ isReconnecting' = FALSE /\ reconnectTimer' = "none"
  /\ UNCHANGED <<isLoginInFlight, discordClient, created, connected, attempt, started, stopped, limits,
                 failures>>

\* stopDiscordBot; an attempt in flight goes on with the client it holds.
StopBot ==
  /\ isReconnecting' = FALSE /\ reconnectTimer' = "none" /\ isLoginInFlight' = FALSE
  /\ botLifecycleState' = "idle"
  /\ activeRateLimit' = "none"
  /\ discordClient' = 0
  /\ connected' = connected \ {discordClient}
  /\ attempt' = IF attempt.stage = "login" THEN [attempt EXCEPT !.stage = "orphan"] ELSE attempt
  /\ stopped' = TRUE
  /\ UNCHANGED <<created, greeted, started, limits, failures>>

-----------------------------------------------------------------------------
Answered ==
  \/ LoginSucceeds
  \/ \E reason \in {"fatal", "limited", "transient"} : LoginFails(reason)
  \/ TimesOut

BotGoesOn ==
  \/ Diagnosed \/ Answered \/ Destroyed \/ TimerFires \/ RateLimited \/ CooldownEnds
  \/ \E g \in Clients : ClientReady(g)

-----------------------------------------------------------------------------
(* Properties                                                              *)

=============================================================================
