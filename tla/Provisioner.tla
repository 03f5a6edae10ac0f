---------------------------- MODULE Provisioner ----------------------------
(***************************************************************************)
(* The provisioning of a development server by /setup                      *)
(* (server.provisioner.js, server.structure.js, server.permissions.js,     *)
(* setup.js): the roles, categories, channels and permissions it declares, *)
(* looked up by name and created one API call at a time, while people      *)
(* change the server, calls fail and the process dies.                     *)
(* Names are compared without their case in the code; here they are equal  *)
(* or not.  The messages of the channels are in ChannelHub.                *)
(***************************************************************************)
EXTENDS Integers, Sequences, FiniteSets

CONSTANTS
  Runs,      \* invocations of /setup that may be under way at the same time
  Declared,  \* the names of server.structure.js that are in scope
  Legacy,    \* what the server holds before: records [name, kind]
  Edits,     \* what people do: "delete", "move", "open", "promote"
  Faulty,    \* the operations Discord may refuse
  MaxStarts, MaxEdits, MaxCrashes, MaxFaults   \* bounds

Ops   == {"create", "rename", "parent", "retitle", "topic", "access", "lock"}
Kinds == {"category", "text", "voice"}
NoId  == 0

\* What the constants may be.
ProvisionerConstants ==
  /\ IsFiniteSet(Legacy) /\ \A l \in Legacy : l.kind \in Kinds
  /\ Edits \subseteq {"delete", "move", "open", "promote"} /\ Faulty \subseteq Ops
  /\ {MaxStarts, MaxEdits, MaxCrashes, MaxFaults} \subseteq Nat

VARIABLES
  roles,     \* the roles of the server: records [id, name, above], above the bot's or not
  channels,  \* its channels: records [id, name, kind, parent, topic, access]
  next,      \* the next id Discord gives
  run,       \* the state of every invocation
  disturbed, \* auxiliary: the invocations during or after which people changed the server, or
             \* that began beside one that had seen it before
  starts, edits, crashes, faults  \* what the bounds count

vars   == <<roles, channels, next, run, disturbed, starts, edits, crashes, faults>>
server == <<roles, channels, next>>

(***************************************************************************)
(* What is declared.                                                       *)
(***************************************************************************)
Item(kind, name, under) == [kind |-> kind, name |-> name, under |-> under]
Role(name)              == Item("role", name, "server")
Category(name)          == Item("category", name, name)

\* The work of an invocation, in order.
Items ==
  <<Role("Peak Admin"), Role("Campaign Manager"), Role("Creator"), Item("hierarchy", "roles", "server"),
    Category("INFORMATION"),
    Item("channel", "rules", "INFORMATION"), Item("channel", "announcements", "INFORMATION"),
    Category("CREATOR"),
    Item("channel", "dashboard", "CREATOR"), Item("channel", "campaigns", "CREATOR"),
    Item("channel", "submissions", "CREATOR"), Item("channel", "stats", "CREATOR"),
    Item("channel", "earnings", "CREATOR"), Item("channel", "payouts", "CREATOR"),
    Category("STAFF"),
    Item("channel", "dashboard", "STAFF"), Item("channel", "review-queue", "STAFF"),
    Item("channel", "creators", "STAFF"), Item("channel", "campaign-management", "STAFF"),
    Item("channel", "payout-queue", "STAFF"), Item("channel", "audit-log", "STAFF"),
    Category("SYSTEM"),
    Item("channel", "bot-status", "SYSTEM"), Item("channel", "bot-errors", "SYSTEM")>>

InScope(item) ==
  \/ item.kind = "hierarchy"
  \/ item.name \in Declared /\ (item.kind = "channel" => item.under \in Declared)

\* The indices of the items that come after i, and the first of them.
After(i) == {j \in 1..Len(Items) : i < j /\ InScope(Items[j])}
First(S) == CHOOSE i \in S : \A j \in S : i <= j

\* Who may do what in a category: nothing, read, or write.  Staff names no
\* overwrite for managers, who are left with what everyone has.
CategoryAccess(category) ==
  CASE category = "INFORMATION" ->
         [everyone |-> "read", creator |-> "read", manager |-> "write", admin |-> "write"]
    [] category = "CREATOR" ->
         [everyone |-> "none", creator |-> "write", manager |-> "write", admin |-> "write"]
    [] category \in {"STAFF", "SYSTEM"} ->
         [everyone |-> "none", creator |-> "none", manager |-> "none", admin |-> "write"]

\* The channels that deviate from their category; the others are locked to it.
HasOverwrites(category, name) == category = "STAFF" \/ (category = "CREATOR" /\ name = "dashboard")

ChannelAccess(category, name) ==
  CASE category = "CREATOR" /\ name = "dashboard" -> [CategoryAccess(category) EXCEPT !.everyone = "read"]
    [] category = "STAFF" /\ name = "audit-log"    -> [CategoryAccess(category) EXCEPT !.manager = "read"]
    [] category = "STAFF" /\ name = "payout-queue" -> [CategoryAccess(category) EXCEPT !.manager = "none"]
    [] category = "STAFF" /\ name \notin {"audit-log", "payout-queue"} ->
         [CategoryAccess(category) EXCEPT !.manager = "write"]
    [] OTHER -> CategoryAccess(category)

Open == [everyone |-> "write", creator |-> "write", manager |-> "write", admin |-> "write"]

(***************************************************************************)
(* State.                                                                  *)
(***************************************************************************)
Off    == [stage |-> "off"]
Failed == [stage |-> "failed"]   \* reported with what Discord refused, and nothing is undone
Busy(r) == run[r].stage \in {"preflight", "find", "adopt", "set"}

Exists(id)   == \E c \in channels : c.id = id
Channel(id)  == CHOOSE c \in channels : c.id = id
Names        == {Items[i].name : i \in 1..Len(Items)} \cup {l.name : l \in Legacy}
Level        == {"none", "read", "write"}
Access       == [everyone : Level, creator : Level, manager : Level, admin : Level]
Invocation   == [stage : {"preflight", "find", "adopt", "set"}, i : 1..Len(Items), found : Nat, category : Nat,
                 bound : SUBSET Nat, todo : SUBSET Ops]

TypeOK ==
  /\ next \in Nat \ {0}
  /\ roles \subseteq [id : 1..(next - 1), name : Names, above : BOOLEAN]
  /\ channels \subseteq [id : 1..(next - 1), name : Names, kind : Kinds, parent : Nat, topic : BOOLEAN,
                         access : Access]
  /\ \A c, d \in channels : c.id = d.id => c = d
  /\ run \in [Runs -> [stage : {"off", "refused", "ready", "failed"}] \cup Invocation]
  /\ disturbed \subseteq Runs

Init ==
  /\ roles = {}
  /\ \E order \in {f \in [Legacy -> 1..Cardinality(Legacy)] : \A x, y \in Legacy : f[x] = f[y] => x = y} :
       channels = {[id |-> order[l], name |-> l.name, kind |-> l.kind, parent |-> NoId,
                    topic |-> FALSE, access |-> Open] : l \in Legacy}
  /\ next = Cardinality(Legacy) + 1
  /\ run = [r \in Runs |-> Off]
  /\ disturbed = {}
  /\ starts = 0 /\ edits = 0 /\ crashes = 0 /\ faults = 0

Become(r, s) == run' = [run EXCEPT ![r] = s]

\* An item is finished when nothing is left to call for it: the next one is looked up.
Advance(s) ==
  IF s.stage # "set" \/ s.todo # {} THEN s
  ELSE IF After(s.i) = {} THEN [stage |-> "ready"]
  ELSE [s EXCEPT !.stage = "find", !.i = First(After(s.i))]

(***************************************************************************)
(* /setup: refused in production, in another server and to anyone but an   *)
(* administrator; then the caches are filled, and the bot's member and its *)
(* managed role must be found.                                             *)
(***************************************************************************)
Refuse(r) ==
  /\ ~Busy(r) /\ starts < MaxStarts /\ starts' = starts + 1
  /\ Become(r, [stage |-> "refused"])
  /\ UNCHANGED <<server, disturbed, edits, crashes, faults>>

Start(r) ==
  /\ ~Busy(r) /\ starts < MaxStarts /\ starts' = starts + 1
  /\ disturbed' = IF \E s \in disturbed : Busy(s) THEN disturbed \cup {r} ELSE disturbed \ {r}
  /\ Become(r, [stage |-> "preflight", i |-> First(After(0)), found |-> NoId, category |-> NoId,
                bound |-> {}, todo |-> {}])
  /\ UNCHANGED <<server, edits, crashes, faults>>

MemberMissing(r) ==
  /\ run[r].stage = "preflight"
  /\ Become(r, Failed)
  /\ UNCHANGED <<server, disturbed, starts, edits, crashes, faults>>

BindBotRole(r) ==
  /\ run[r].stage = "preflight"
  /\ Become(r, [run[r] EXCEPT !.stage = "find"])
  /\ UNCHANGED <<server, disturbed, starts, edits, crashes, faults>>

(***************************************************************************)
(* One item is looked up in the cache, and what has to be called follows.  *)
(***************************************************************************)
At(r, kind) == run[r].stage = "find" /\ run[r].todo = {} /\ Items[run[r].i].kind = kind

FindRole(r) ==
  LET name    == Items[run[r].i].name
      matches == {x \in roles : x.name = name}
  IN
  /\ At(r, "role")
  /\ \/ \E x \in matches :
          Become(r, Advance([run[r] EXCEPT !.stage = "set", !.bound = @ \cup {x.id}]))
     \/ /\ matches = {}
        /\ Become(r, [run[r] EXCEPT !.stage = "set", !.todo = {"create"}])
  /\ UNCHANGED <<server, disturbed, starts, edits, crashes, faults>>

CheckHierarchy(r) ==
  /\ At(r, "hierarchy")
  /\ Become(r, IF \E x \in roles : x.id \in run[r].bound /\ x.above
               THEN Failed
               ELSE Advance([run[r] EXCEPT !.stage = "set"]))
  /\ UNCHANGED <<server, disturbed, starts, edits, crashes, faults>>

FindCategory(r) ==
  LET matches == {c \in channels : c.name = Items[run[r].i].name} IN
  /\ At(r, "category")
  /\ \/ \E c \in matches :
          Become(r, IF c.kind # "category" THEN Failed
                    ELSE [run[r] EXCEPT !.stage = "set", !.found = c.id, !.category = c.id,
                                        !.todo = {"access"}])
     \/ /\ matches = {}
        /\ Become(r, [run[r] EXCEPT !.stage = "set", !.found = NoId, !.todo = {"create", "access"}])
  /\ UNCHANGED <<server, disturbed, starts, edits, crashes, faults>>

\* The channel of that name in the category; for the creators' dashboard the
\* welcome channel of older servers; else, but for the two dashboards, one of
\* that name anywhere.
Named(name)          == {c \in channels : c.name = name}
Inside(name, parent) == {c \in channels : c.name = name /\ c.parent = parent}
Elsewhere(item) ==
  CASE item.under = "CREATOR" /\ item.name = "dashboard" -> Named("welcome")
    [] item.under # "CREATOR" /\ item.name = "dashboard" -> {}
    [] item.name # "dashboard" -> Named(item.name)

Move(r, c) == IF c.parent = run[r].category THEN {} ELSE {"parent"}

FindChannel(r) ==
  LET item == Items[run[r].i]
      here == Inside(item.name, run[r].category)
  IN
  /\ At(r, "channel")
  /\ \/ \E c \in here : Become(r, [run[r] EXCEPT !.stage = "adopt", !.found = c.id])
     \/ /\ here = {}
        /\ \E c \in Elsewhere(item) :
             Become(r, [run[r] EXCEPT !.stage = "adopt", !.found = c.id,
               !.todo = CASE c.name # item.name -> {"rename", "retitle"} \cup Move(r, c)
                          [] c.name = item.name /\ c.kind = "text" -> Move(r, c)
                          [] c.name = item.name /\ c.kind # "text" -> {}])
     \/ /\ here = {} /\ Elsewhere(item) = {}
        /\ Become(r, [run[r] EXCEPT !.stage = "adopt", !.found = NoId])
  /\ UNCHANGED <<server, disturbed, starts, edits, crashes, faults>>

\* What was found must be a text channel; then it gets its topic, unless it has it, and
\* its own permissions or its category's.  A topic is the declared one or not; that a
\* channel has the calls to set these is taken for granted, as text channels have them.
Adopt(r) ==
  LET item  == Items[run[r].i]
      found == run[r].found
      last  == IF HasOverwrites(item.under, item.name) THEN {"access"} ELSE {"lock"}
  IN
  /\ run[r].stage = "adopt" /\ run[r].todo = {}
  /\ Become(r,
       CASE found = NoId -> [run[r] EXCEPT !.stage = "set", !.todo = {"create"} \cup last]
         [] found # NoId /\ ~Exists(found) -> Failed
         [] found # NoId /\ Exists(found) ->
              IF Channel(found).kind # "text" THEN Failed
              ELSE [run[r] EXCEPT !.stage = "set",
                                  !.todo = last \cup IF Channel(found).topic THEN {} ELSE {"topic"}])
  /\ UNCHANGED <<server, disturbed, starts, edits, crashes, faults>>

(***************************************************************************)
(* The calls.                                                              *)
(***************************************************************************)
\* Of what is left to call for an item, the call that is due.
Turn == [rename |-> 1, parent |-> 2, retitle |-> 3, create |-> 4, topic |-> 5, access |-> 6, lock |-> 7]
Due(r, op) == Busy(r) /\ op \in run[r].todo /\ \A o \in run[r].todo : Turn[op] <= Turn[o]
Done(r, op) == [run[r] EXCEPT !.todo = @ \ {op}]

\* A channel without permissions of its own begins with its category's.
Created(r, item) ==
  [id |-> next, name |-> item.name, topic |-> item.kind = "channel",
   kind |-> IF item.kind = "category" THEN "category" ELSE "text",
   parent |-> IF item.kind = "category" THEN NoId ELSE run[r].category,
   access |-> CASE item.kind = "category" -> CategoryAccess(item.name)
                [] item.kind = "channel" /\ HasOverwrites(item.under, item.name) ->
                     ChannelAccess(item.under, item.name)
                [] item.kind = "channel" /\ ~HasOverwrites(item.under, item.name) ->
                     IF Exists(run[r].category) THEN Channel(run[r].category).access ELSE Open]

BugApplied(r, op, item, c) ==
  IF op = "lock" THEN c
  ELSE IF op = "parent" THEN [c EXCEPT !.parent = run[r].category]
  ELSE IF op = "access" THEN [c EXCEPT !.access = IF item.kind = "category" THEN CategoryAccess(item.name)
                                                  ELSE ChannelAccess(item.under, item.name)]
  ELSE IF op = "rename" THEN [c EXCEPT !.name = item.name] ELSE [c EXCEPT !.topic = TRUE]

\* The channel c after the operation.
Applied(r, op, item, c) ==
  CASE op = "rename" -> [c EXCEPT !.name = item.name]
    [] op = "parent" -> [c EXCEPT !.parent = run[r].category]
    [] op \in {"retitle", "topic"} -> [c EXCEPT !.topic = TRUE]
    [] op = "access" -> [c EXCEPT !.access = IF item.kind = "category" THEN CategoryAccess(item.name)
                                             ELSE ChannelAccess(item.under, item.name)]
    [] op = "lock" -> [c EXCEPT !.access = IF Exists(c.parent) THEN Channel(c.parent).access ELSE @]

Create(r) ==
  LET item == Items[run[r].i]
      s    == Done(r, "create")
  IN
  /\ Due(r, "create")
  /\ item.kind = "channel" => Exists(run[r].category)
  /\ next' = next + 1
  /\ IF item.kind = "role"
     THEN /\ roles' = roles \cup {[id |-> next, name |-> item.name, above |-> FALSE]}
          /\ Become(r, Advance([s EXCEPT !.bound = @ \cup {next}]))
          /\ UNCHANGED channels
     ELSE /\ channels' = channels \cup {Created(r, item)}
          /\ Become(r, [s EXCEPT !.found = next,
                                 !.category = IF item.kind = "category" THEN next ELSE @])
          /\ UNCHANGED roles
  /\ UNCHANGED <<disturbed, starts, edits, crashes, faults>>

Change(r) == \E op \in Ops \ {"create"} :
  LET c == Channel(run[r].found) IN
  /\ Due(r, op)
  /\ Exists(run[r].found) /\ (op = "parent" => Exists(run[r].category))
  /\ channels' = (channels \ {c}) \cup {Applied(r, op, Items[run[r].i], c)}
  /\ Become(r, Advance(Done(r, op)))
  /\ UNCHANGED <<roles, next, disturbed, starts, edits, crashes, faults>>

\* What an operation works on is no longer there.
Gone(r, op) ==
  \/ op # "create" /\ ~Exists(run[r].found)
  \/ op \in {"create", "parent"} /\ Items[run[r].i].kind = "channel" /\ ~Exists(run[r].category)

\* Discord refuses a call.  A topic and a lock that fail are swallowed, any
\* other call ends the invocation.
Fails(r) == \E op \in Ops :
  /\ Due(r, op)
  /\ \/ Gone(r, op) /\ UNCHANGED faults
     \/ op \in Faulty /\ faults < MaxFaults /\ faults' = faults + 1
  /\ Become(r, IF op \in {"topic", "lock"} THEN Advance(Done(r, op)) ELSE Failed)
  /\ UNCHANGED <<server, disturbed, starts, edits, crashes>>

Crash ==
  /\ crashes < MaxCrashes /\ crashes' = crashes + 1
  /\ \E r \in Runs : Busy(r)
  /\ run' = [r \in Runs |-> IF Busy(r) THEN Off ELSE run[r]]
  /\ UNCHANGED <<server, disturbed, starts, edits, faults>>

(***************************************************************************)
(* People: a channel or category is deleted, moved out or opened, a role   *)
(* is dragged above the bot's.                                             *)
(***************************************************************************)
Edit ==
  /\ edits < MaxEdits /\ edits' = edits + 1
  /\ disturbed' = Runs
  /\ \/ /\ "delete" \in Edits
        /\ \E c \in channels :
             channels' = {IF d.parent = c.id THEN [d EXCEPT !.parent = NoId] ELSE d : d \in channels \ {c}}
        /\ UNCHANGED roles
     \/ /\ "move" \in Edits
        /\ \E c \in {d \in channels : d.parent # NoId} :
             channels' = (channels \ {c}) \cup {[c EXCEPT !.parent = NoId]}
        /\ UNCHANGED roles
     \/ /\ "open" \in Edits
        /\ \E c \in channels : channels' = (channels \ {c}) \cup {[c EXCEPT !.access = Open]}
        /\ UNCHANGED roles
     \/ /\ "promote" \in Edits
        /\ \E x \in roles : roles' = (roles \ {x}) \cup {[x EXCEPT !.above = TRUE]}
        /\ UNCHANGED channels
  /\ UNCHANGED <<next, run, starts, crashes, faults>>

Next ==
  \/ \E r \in Runs :
       \/ Refuse(r) \/ Start(r) \/ MemberMissing(r) \/ BindBotRole(r) \/ FindRole(r)
       \/ CheckHierarchy(r) \/ FindCategory(r) \/ FindChannel(r) \/ Adopt(r)
       \/ Create(r) \/ Change(r) \/ Fails(r)
  \/ Crash \/ Edit

Spec == Init /\ [][Next]_vars

(***************************************************************************)
(* Properties.                                                             *)
(***************************************************************************)
IsAt(c, item) ==
  /\ c.name = item.name
  /\ IF item.kind = "category" THEN c.kind = "category"
     ELSE /\ c.kind = "text"
          /\ \E p \in channels : p.id = c.parent /\ p.name = item.under /\ p.kind = "category"
ItemSet == {item \in {Items[i] : i \in 1..Len(Items)} : InScope(item)}

\* An invocation that reports "Ready" leaves the whole declared structure, every
\* channel under its category and seen by exactly those it is declared for, as
\* long as nobody changed the server meanwhile (the summary of setup.js).
ReadyIsComplete ==
  \A r \in Runs : run[r].stage = "ready" /\ r \notin disturbed =>
    \A item \in ItemSet :
      CASE item.kind = "role"      -> \E x \in roles : x.name = item.name /\ ~x.above
        [] item.kind = "hierarchy" -> TRUE
        [] item.kind = "category"  -> \E c \in channels : IsAt(c, item) /\ c.access = CategoryAccess(item.name)
        [] item.kind = "channel"   ->
             \E c \in channels : IsAt(c, item) /\ c.access = ChannelAccess(item.under, item.name)

============================================================================
