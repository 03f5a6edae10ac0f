--------------------------- MODULE UploadSession ---------------------------
(***************************************************************************)
(* The guided payout request of one creator: the draft                     *)
(* (payout-draft.manager.js), the upload session                           *)
(* (payout-upload-session.manager.js), the handler of the message that     *)
(* carries the recording (messageCreate.handler.js) and the buttons        *)
(* (payout.interactions.js).  Draft and session live in the memory of the  *)
(* bot; the session is also written to system_settings, from where it is   *)
(* loaded when the memory has none.  A handler runs without interruption   *)
(* up to its next await; there the other handlers run, or the bot restarts. *)
(***************************************************************************)
EXTENDS Integers, Sequences, FiniteSets

CONSTANTS
  Recordings,   \* messages with a recording the creator sends
  Workers,      \* handlers that can be in flight together
  Ops,          \* the buttons that are pressed, and "restart"
  None,         \* no draft, no session, no recording
  MaxDrafts,    \* bound on the drafts that are started
  MaxSessions   \* bound on the upload sessions that are started

AllOps == {"upload", "cancel", "submit", "restart"}

ASSUME UploadConstants ==
  /\ Ops \subseteq AllOps
  /\ None \notin Recordings
  /\ MaxDrafts \in Nat /\ MaxSessions \in Nat

VARIABLES
  drafts,    \* the number of drafts started
  sessions,  \* the number of sessions started
  draft,     \* the creator's draft in memory
  session,   \* the creator's session in memory
  row,       \* the creator's session in system_settings
  late,      \* the sessions whose two minutes are over
  sentFor,   \* per recording, the draft it was sent for, 0 if there was none
  requests,  \* the payout requests created, in order
  call,      \* per worker, the handler in flight
  reloaded   \* history: the sessions that were taken from system_settings

seen == DOMAIN sentFor
vars == <<drafts, sessions, draft, session, row, late, sentFor, requests, call, reloaded>>

-----------------------------------------------------------------------------
Drafts   == [id : Nat \ {0}, recording : Recordings \cup {None}]
Recorded == [id : Nat \ {0}, recording : Recordings]
Sessions == [id : Nat \ {0},
             status : {"WAITING_FOR_UPLOAD", "PROCESSING", "EVIDENCE_READY"}]

\* What a handler awaits: a query or a write of the row, the upload, the
\* transaction that creates the request, or a message to the creator.
Idle     == [stage |-> "idle"]
Writing  == [stage : {"upsert", "update"}, write : Sessions]
Erasing  == [stage : {"clear", "delete"}]
Looking  == [stage : {"find"}, recording : Recordings, found : Sessions \cup {None}]
Holding  == [stage : {"persist"}, recording : Recordings, session : Nat, write : Sessions]
Uploading == [stage : {"download"}, recording : Recordings, session : Nat]
Finding  == [stage : {"refind"}, recording : Recordings, found : Sessions \cup {None}]
Attaching == [stage : {"attach"}, recording : Recordings, write : Sessions]
Creating == [stage : {"create"}, draft : Recorded]

TypeOK ==
  /\ drafts \in Nat
  /\ sessions \in Nat
  /\ draft \in Drafts \cup {None}
  /\ session \in Sessions \cup {None}
  /\ row \in Sessions \cup {None}
  /\ late \subseteq Nat
  /\ seen \subseteq Recordings /\ \A r \in seen : sentFor[r] \in Nat
  /\ requests \in Seq(Recorded)
  /\ reloaded \subseteq Nat
  /\ call \in [Workers -> {Idle} \cup Writing \cup Erasing \cup Looking \cup Holding
                          \cup Uploading \cup Finding \cup Attaching \cup Creating]

Init ==
  /\ drafts = 0
  /\ sessions = 0
  /\ draft = None
  /\ session = None
  /\ row = None
  /\ late = {}
  /\ sentFor = [r \in {} |-> 0]
  /\ requests = <<>>
  /\ call = [w \in Workers |-> Idle]
  /\ reloaded = {}

Become(w, c) == call' = [call EXCEPT ![w] = c]

\* An update writes the row if there is one.  Errors of the database are
\* swallowed wherever the session is read or written.
Update(s) == row' \in {row, IF row = None THEN None ELSE s}
Find(w, stage, r) ==
  \E found \in {row, None} : Become(w, [stage |-> stage, recording |-> r, found |-> found])

-----------------------------------------------------------------------------
(* The buttons                                                             *)

\* createSession: the memory at once, the row after an await.
CreateSession(w) ==
  /\ sessions < MaxSessions
  /\ sessions' = sessions + 1
  /\ session' = [id |-> sessions', status |-> "WAITING_FOR_UPLOAD"]
  /\ Become(w, [stage |-> "upsert", write |-> session'])

\* createDraft: the new draft replaces the one there is.
NewDraft == [id |-> drafts + 1, recording |-> None]

\* handlePayoutModalSubmit, past the checks of amount, balance and profile.
SubmitModal(w) ==
  /\ call[w] = Idle
  /\ drafts < MaxDrafts
  /\ drafts' = drafts + 1
  /\ draft' = NewDraft
  /\ CreateSession(w)
  /\ UNCHANGED <<row, late, sentFor, requests, reloaded>>

\* handlePayoutEvidenceUploadButton: a fresh session for the same draft.
PressUpload(w) ==
  /\ "upload" \in Ops
  /\ call[w] = Idle
  /\ draft # None
  /\ CreateSession(w)
  /\ UNCHANGED <<drafts, draft, row, late, sentFor, requests, reloaded>>

\* handlePayoutEvidenceCancelButton.
PressCancel(w) ==
  /\ "cancel" \in Ops
  /\ call[w] = Idle
  /\ draft' = None
  /\ session' = None
  /\ Become(w, [stage |-> "delete"])
  /\ UNCHANGED <<drafts, sessions, row, late, sentFor, requests, reloaded>>

\* handlePayoutEvidenceSubmitButton: the draft is consumed first, with or
\* without a recording.
PressSubmit(w) ==
  /\ "submit" \in Ops
  /\ call[w] = Idle
  /\ draft # None
  /\ draft' = None
  /\ Become(w, IF draft.recording = None THEN Idle ELSE [stage |-> "create", draft |-> draft])
  /\ UNCHANGED <<drafts, sessions, session, row, late, sentFor, requests, reloaded>>

\* createPayoutRequest commits; the session is cleared when it returns.
CreateRequest(w) ==
  /\ call[w].stage = "create"
  /\ requests' = Append(requests, call[w].draft)
  /\ Become(w, [stage |-> "clear"])
  /\ UNCHANGED <<drafts, sessions, draft, session, row, late, sentFor, reloaded>>

\* createPayoutRequest throws: the draft is gone, the session stays.
RefuseRequest(w) ==
  /\ call[w].stage = "create"
  /\ Become(w, Idle)
  /\ UNCHANGED <<drafts, sessions, draft, session, row, late, sentFor, requests, reloaded>>

\* clearSession, after a creation or after the notice of an expiry: it
\* clears whatever session the creator has by then.
ClearSession(w) ==
  /\ call[w].stage = "clear"
  /\ session' = None
  /\ Become(w, [stage |-> "delete"])
  /\ UNCHANGED <<drafts, sessions, draft, row, late, sentFor, requests, reloaded>>

DeleteRow(w) ==
  /\ call[w].stage = "delete"
  /\ row' \in {row, None}
  /\ Become(w, Idle)
  /\ UNCHANGED <<drafts, sessions, draft, session, late, sentFor, requests, reloaded>>

WriteRow(w) ==
  /\ \/ call[w].stage = "upsert" /\ row' \in {row, call[w].write}
     \/ call[w].stage = "update" /\ Update(call[w].write)
  /\ Become(w, Idle)
  /\ UNCHANGED <<drafts, sessions, draft, session, late, sentFor, requests, reloaded>>

-----------------------------------------------------------------------------
(* The message with the recording                                          *)

\* The event of a message is handled once (processedMessageTimestamps).
Fresh(r) == r \notin seen

BugReady(s) == s.status # "EVIDENCE_READY"

Ready(s) == s.status = "WAITING_FOR_UPLOAD"

\* What the handler does with session s, which is in memory now.  A message
\* of another channel, or without exactly one video, ends it.
Handle(w, r, s) ==
  \/ /\ Become(w, Idle)
     /\ session' = s
  \/ /\ s.id \in late
     /\ Become(w, [stage |-> "clear"])
     /\ session' = s
  \/ /\ s.id \notin late
     /\ Ready(s)
     /\ session' = [s EXCEPT !.status = "PROCESSING"]
     /\ Become(w, [stage |-> "persist", recording |-> r, session |-> s.id,
                   write |-> session'])

\* getSession finds the session in memory, or asks the database for it.
ReceiveMessage(w, r) ==
  /\ call[w] = Idle
  /\ Fresh(r)
  /\ sentFor' = [x \in seen \cup {r} |-> IF x \in seen THEN sentFor[x]
                                         ELSE IF draft = None THEN 0 ELSE draft.id]
  /\ IF session # None
     THEN Handle(w, r, session)
     ELSE Find(w, "find", r) /\ UNCHANGED session
  /\ UNCHANGED <<drafts, sessions, draft, row, late, requests, reloaded>>

\* Session s has been taken from system_settings.
Reload(s) == reloaded' = reloaded \cup {s.id}

\* The session that was found replaces the one in memory by now, if any.
FoundSession(w) ==
  /\ call[w].stage = "find"
  /\ IF call[w].found # None
     THEN Handle(w, call[w].recording, call[w].found) /\ Reload(call[w].found)
     ELSE Become(w, Idle) /\ UNCHANGED <<session, reloaded>>
  /\ UNCHANGED <<drafts, sessions, draft, row, late, sentFor, requests>>

\* transitionToProcessing updates the row; the download begins.
PersistProcessing(w) ==
  /\ call[w].stage = "persist"
  /\ Update(call[w].write)
  /\ Become(w, [stage |-> "download", recording |-> call[w].recording,
                session |-> call[w].session])
  /\ UNCHANGED <<drafts, sessions, draft, session, late, sentFor, requests, reloaded>>

BugUploadFails(w) ==
  /\ call[w].stage = "download"
  /\ Become(w, Idle)
  /\ UNCHANGED <<drafts, sessions, draft, session, row, late, sentFor, requests, reloaded>>

\* Download, validation or storage fails: resetToWaiting.
UploadFails(w) ==
  /\ call[w].stage = "download"
  /\ IF session # None /\ session.status = "PROCESSING"
     THEN /\ session' = [session EXCEPT !.status = "WAITING_FOR_UPLOAD"]
          /\ Become(w, [stage |-> "update", write |-> session'])
     ELSE Become(w, Idle) /\ UNCHANGED session
  /\ UNCHANGED <<drafts, sessions, draft, row, late, sentFor, requests, reloaded>>

\* attachEvidence of the session manager takes session s, whatever it is.
MarkReady(w, r, s) ==
  /\ session' = [s EXCEPT !.status = "EVIDENCE_READY"]
  /\ Become(w, [stage |-> "attach", recording |-> r, write |-> session'])

BugAttachToDraft(r) ==
  draft' = [id |-> IF draft = None THEN drafts ELSE draft.id, recording |-> r]

\* attachEvidence of the draft manager.
AttachToDraft(r) == draft' = IF draft = None THEN None ELSE [draft EXCEPT !.recording = r]

\* The recording is stored; the creator's session is looked up again.
UploadSucceeds(w) ==
  /\ call[w].stage = "download"
  /\ IF session # None
     THEN MarkReady(w, call[w].recording, session)
     ELSE Find(w, "refind", call[w].recording) /\ UNCHANGED session
  /\ UNCHANGED <<drafts, sessions, draft, row, late, sentFor, requests, reloaded>>

FoundAgain(w) ==
  /\ call[w].stage = "refind"
  /\ IF call[w].found # None
     THEN /\ MarkReady(w, call[w].recording, call[w].found)
          /\ Reload(call[w].found)
          /\ UNCHANGED draft
     ELSE /\ Become(w, Idle)
          /\ AttachToDraft(call[w].recording)
          /\ UNCHANGED <<session, reloaded>>
  /\ UNCHANGED <<drafts, sessions, row, late, sentFor, requests>>

\* The row is updated, then the draft of the creator gets the recording.
AttachEvidence(w) ==
  /\ call[w].stage = "attach"
  /\ Update(call[w].write)
  /\ AttachToDraft(call[w].recording)
  /\ Become(w, Idle)
  /\ UNCHANGED <<drafts, sessions, session, late, sentFor, requests, reloaded>>

-----------------------------------------------------------------------------
(* Time and restarts                                                       *)

\* getDraft finds a draft older than 30 minutes no more.
ExpireDraft ==
  /\ draft # None
  /\ draft' = None
  /\ UNCHANGED <<drafts, sessions, session, row, late, sentFor, requests, call, reloaded>>

\* The two minutes of session i are over; it is marked EXPIRED when it is
\* looked at, which nothing but that look can tell.
ExpireSession(i) ==
  /\ i \notin late
  /\ late' = late \cup {i}
  /\ UNCHANGED <<drafts, sessions, draft, session, row, sentFor, requests, call, reloaded>>

\* The memory is lost, the handlers in flight are gone.
Restart ==
  /\ "restart" \in Ops
  /\ draft' = None
  /\ session' = None
  /\ call' = [w \in Workers |-> Idle]
  /\ UNCHANGED <<drafts, sessions, row, late, sentFor, requests, reloaded>>

Press(w) == SubmitModal(w) \/ PressUpload(w) \/ PressCancel(w) \/ PressSubmit(w)

\* What a handler does after an await.
Resume(w) ==
  \/ CreateRequest(w)
  \/ RefuseRequest(w)
  \/ ClearSession(w)
  \/ DeleteRow(w)
  \/ WriteRow(w)
  \/ FoundSession(w)
  \/ PersistProcessing(w)
  \/ UploadFails(w)
  \/ UploadSucceeds(w)
  \/ FoundAgain(w)
  \/ AttachEvidence(w)

Time == ExpireDraft \/ \E i \in 1..sessions : ExpireSession(i)

Next ==
  \/ \E w \in Workers : Press(w) \/ Resume(w) \/ \E r \in Recordings : ReceiveMessage(w, r)
  \/ Time
  \/ Restart

Spec == Init /\ [][Next]_vars

\* What a handler awaits comes: queries, transactions and downloads end,
\* with a result or with an error.  Nobody has to press a button.
FairSpec == Spec /\ \A w \in Workers : WF_vars(Resume(w))

-----------------------------------------------------------------------------
(* Properties                                                              *)

\* The drafts that were taken and are being submitted.
Submitting == {call[w].draft : w \in {v \in Workers : call[v].stage = "create"}}

\* Whatever happens to sessions, a request comes from a draft that was open,
\* got a recording and was taken, once.
Flow == INSTANCE PayoutDraft WITH pending <- Submitting
ImplementsFlow == Flow!Spec

\* The handlers that process an upload of session i.
Uploaders(i) == {w \in Workers : call[w].stage \in {"persist", "download"} /\ call[w].session = i}

\* As long as the creator's one session has not left the memory of the bot,
\* a recording that arrives while another is downloaded is refused, whatever
\* downloads fail, drafts expire and retries follow.
OneUploadPerSession == sessions = 1 /\ reloaded = {} => Cardinality(Uploaders(1)) <= 1

\* The creator's session says that an upload is being processed.
Processing ==
  /\ session # None
  /\ session.status = "PROCESSING"
  /\ session.id \notin late \cup reloaded

\* An upload that failed leaves the creator a session that takes the next
\* one: within its two minutes a session that has not left the memory does
\* not stay PROCESSING after the handler that set it has ended, whatever
\* other uploads of the creator ended meanwhile.
ProcessingEnds == Processing ~> ~Processing

=============================================================================
