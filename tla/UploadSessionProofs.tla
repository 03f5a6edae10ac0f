------------------------ MODULE UploadSessionProofs ------------------------
(***************************************************************************)
(* Proofs about UploadSession, for every set of recordings and handlers    *)
(* and every number of drafts and sessions.                                *)
(***************************************************************************)
EXTENDS UploadSession, FiniteSetTheorems, TLAPS

\* What a worker's handler can be waiting for.
Calls == {Idle} \cup Writing \cup Erasing \cup Looking \cup Holding
                \cup Uploading \cup Finding \cup Attaching \cup Creating

\* A handler is what its stage says it is.
LEMMA CallKinds ==
  ASSUME TypeOK, NEW w \in Workers
  PROVE  /\ call[w].stage \in {"upsert", "update"} => call[w] \in Writing
         /\ call[w].stage = "find" => call[w] \in Looking
         /\ call[w].stage = "persist" => call[w] \in Holding
         /\ call[w].stage = "download" => call[w] \in Uploading
         /\ call[w].stage = "refind" => call[w] \in Finding
         /\ call[w].stage = "attach" => call[w] \in Attaching
         /\ call[w].stage = "create" => call[w] \in Creating
  BY DEF TypeOK, Idle, Writing, Erasing, Looking, Holding, Uploading, Finding, Attaching,
         Creating

\* A handler that goes on to a well-typed await is well typed.
LEMMA BecomeTyped ==
  ASSUME TypeOK, NEW w \in Workers, NEW c \in Calls, Become(w, c)
  PROVE  /\ call' \in [Workers -> Calls]
         /\ call'[w] = c
         /\ \A v \in Workers \ {w} : call'[v] = call[v]
  BY DEF TypeOK, Become, Calls

(***************************************************************************)
(* Type correctness                                                        *)
(***************************************************************************)

LEMMA CreateSessionTyped ==
  ASSUME TypeOK, NEW w \in Workers, CreateSession(w)
  PROVE  /\ sessions' = sessions + 1
         /\ session' \in Sessions /\ session'.id = sessions'
         /\ call' = [call EXCEPT ![w] = [stage |-> "upsert", write |-> session']]
         /\ call' \in [Workers -> Calls]
<1>1. session' \in Sessions
  BY DEF TypeOK, CreateSession, Sessions
<1>2. [stage |-> "upsert", write |-> session'] \in Calls
  BY <1>1 DEF Calls, Writing
<1>3. call' \in [Workers -> Calls]
  BY <1>2, BecomeTyped DEF CreateSession
<1> QED BY <1>1, <1>3 DEF CreateSession, Become

LEMMA PressTyped ==
  ASSUME TypeOK, NEW w \in Workers, Press(w)
  PROVE  TypeOK'
<1>1. CASE SubmitModal(w)
  <2>1. draft' \in Drafts
    BY <1>1 DEF SubmitModal, NewDraft, TypeOK, Drafts
  <2> QED BY <1>1, <2>1, CreateSessionTyped DEF SubmitModal, TypeOK, Calls, seen
<1>2. CASE PressUpload(w)
  BY <1>2, CreateSessionTyped DEF PressUpload, TypeOK, Calls, seen
<1>3. CASE PressCancel(w)
  <2>1. [stage |-> "delete"] \in Calls
    BY DEF Calls, Erasing
  <2> QED BY <1>3, <2>1, BecomeTyped DEF PressCancel, TypeOK, Calls, seen
<1>4. CASE PressSubmit(w)
  <2>1. draft.recording # None => [stage |-> "create", draft |-> draft] \in Calls
    BY <1>4 DEF PressSubmit, TypeOK, Drafts, Recorded, Calls, Creating
  <2>2. Idle \in Calls
    BY DEF Calls
  <2>3. call' \in [Workers -> Calls]
    BY <1>4, <2>1, <2>2, BecomeTyped DEF PressSubmit
  <2> QED BY <1>4, <2>3 DEF PressSubmit, TypeOK, Calls, seen
<1> QED BY <1>1, <1>2, <1>3, <1>4 DEF Press

\* What the handler of a recording makes of the session it has found.
LEMMA HandleTyped ==
  ASSUME TypeOK, NEW w \in Workers, NEW r \in Recordings, NEW s \in Sessions, Handle(w, r, s)
  PROVE  session' \in Sessions /\ call' \in [Workers -> Calls]
<1>1. CASE Become(w, Idle) /\ session' = s
  BY <1>1, BecomeTyped DEF Calls
<1>2. CASE Become(w, [stage |-> "clear"]) /\ session' = s
  <2>1. [stage |-> "clear"] \in Calls
    BY DEF Calls, Erasing
  <2> QED BY <1>2, <2>1, BecomeTyped
<1>3. CASE /\ session' = [s EXCEPT !.status = "PROCESSING"]
           /\ Become(w, [stage |-> "persist", recording |-> r, session |-> s.id,
                         write |-> session'])
  <2>1. session' \in Sessions /\ s.id \in Nat
    BY <1>3 DEF Sessions
  <2>2. [stage |-> "persist", recording |-> r, session |-> s.id, write |-> session'] \in Calls
    BY <2>1 DEF Calls, Holding
  <2> QED BY <1>3, <2>1, <2>2, BecomeTyped
<1> QED BY <1>1, <1>2, <1>3 DEF Handle

LEMMA FindTyped ==
  ASSUME TypeOK, NEW w \in Workers, NEW r \in Recordings, NEW stage \in {"find", "refind"},
         Find(w, stage, r)
  PROVE  call' \in [Workers -> Calls]
<1>1. PICK found \in {row, None} :
        Become(w, [stage |-> stage, recording |-> r, found |-> found])
  BY DEF Find
<1>2. found \in Sessions \cup {None}
  BY DEF TypeOK
<1>3. [stage |-> stage, recording |-> r, found |-> found] \in Calls
  BY <1>2 DEF Calls, Looking, Finding
<1> QED BY <1>1, <1>3, BecomeTyped

LEMMA ReceiveTyped ==
  ASSUME TypeOK, NEW w \in Workers, NEW r \in Recordings, ReceiveMessage(w, r)
  PROVE  TypeOK'
<1>1. session' \in Sessions \cup {None} /\ call' \in [Workers -> Calls]
  <2>1. CASE session # None
    BY <2>1, HandleTyped DEF ReceiveMessage, TypeOK
  <2>2. CASE session = None
    BY <2>2, FindTyped DEF ReceiveMessage
  <2> QED BY <2>1, <2>2
<1>2. draft # None => draft.id \in Nat
  BY DEF TypeOK, Drafts
<1>3. seen' \subseteq Recordings /\ \A x \in seen' : sentFor'[x] \in Nat
  BY <1>2 DEF ReceiveMessage, seen, TypeOK
<1> QED BY <1>1, <1>3 DEF ReceiveMessage, TypeOK, Calls

LEMMA ResumeTyped ==
  ASSUME TypeOK, NEW w \in Workers, Resume(w)
  PROVE  TypeOK'
<1>0. Idle \in Calls /\ [stage |-> "clear"] \in Calls /\ [stage |-> "delete"] \in Calls
  BY DEF Calls, Erasing
<1>1. CASE CreateRequest(w)
  <2>1. call' \in [Workers -> Calls]
    BY <1>0, <1>1, BecomeTyped DEF CreateRequest
  <2>2. requests' \in Seq(Recorded)
    BY <1>1, CallKinds DEF CreateRequest, Creating, TypeOK
  <2> QED BY <1>1, <2>1, <2>2 DEF CreateRequest, TypeOK, Calls, seen
<1>2. CASE RefuseRequest(w) \/ ClearSession(w) \/ DeleteRow(w)
  <2>1. call' \in [Workers -> Calls]
    BY <1>0, <1>2, BecomeTyped DEF RefuseRequest, ClearSession, DeleteRow
  <2> QED BY <1>2, <2>1 DEF RefuseRequest, ClearSession, DeleteRow, TypeOK, Calls, seen
<1>3. CASE WriteRow(w)
  <2>1. call' \in [Workers -> Calls]
    BY <1>0, <1>3, BecomeTyped DEF WriteRow
  <2>2. row' \in Sessions \cup {None}
    BY <1>3, CallKinds DEF WriteRow, Update, Writing, TypeOK
  <2> QED BY <1>3, <2>1, <2>2 DEF WriteRow, TypeOK, Calls, seen
<1>4. CASE FoundSession(w)
  <2>1. call[w] \in Looking
    BY <1>4, CallKinds DEF FoundSession
  <2>2. CASE call[w].found # None
    <3>1. call[w].found \in Sessions /\ call[w].recording \in Recordings
      BY <2>1, <2>2 DEF Looking
    <3>2. session' \in Sessions /\ call' \in [Workers -> Calls]
      BY <1>4, <2>2, <3>1, HandleTyped DEF FoundSession
    <3>3. reloaded' \subseteq Nat
      BY <1>4, <2>2, <3>1 DEF FoundSession, Reload, TypeOK, Sessions
    <3> QED BY <1>4, <3>2, <3>3 DEF FoundSession, TypeOK, Calls, seen
  <2>3. CASE call[w].found = None
    <3>1. call' \in [Workers -> Calls]
      BY <1>0, <1>4, <2>3, BecomeTyped DEF FoundSession
    <3> QED BY <1>4, <2>3, <3>1 DEF FoundSession, TypeOK, Calls, seen
  <2> QED BY <2>2, <2>3
<1>5. CASE PersistProcessing(w)
  <2>1. call[w] \in Holding
    BY <1>5, CallKinds DEF PersistProcessing
  <2>2. [stage |-> "download", recording |-> call[w].recording, session |-> call[w].session]
          \in Calls
    BY <2>1 DEF Holding, Uploading, Calls
  <2>3. call' \in [Workers -> Calls]
    BY <1>5, <2>2, BecomeTyped DEF PersistProcessing
  <2>4. row' \in Sessions \cup {None}
    BY <1>5, <2>1 DEF PersistProcessing, Update, Holding, TypeOK
  <2> QED BY <1>5, <2>3, <2>4 DEF PersistProcessing, TypeOK, Calls, seen
<1>6. CASE UploadFails(w)
  <2>1. CASE session # None /\ session.status = "PROCESSING"
    <3>1. session' \in Sessions
      BY <1>6, <2>1 DEF UploadFails, TypeOK, Sessions
    <3>2. [stage |-> "update", write |-> session'] \in Calls
      BY <3>1 DEF Writing, Calls
    <3>3. call' \in [Workers -> Calls]
      BY <1>6, <2>1, <3>2, BecomeTyped DEF UploadFails
    <3> QED BY <1>6, <3>1, <3>3 DEF UploadFails, TypeOK, Calls, seen
  <2>2. CASE ~(session # None /\ session.status = "PROCESSING")
    <3>1. call' \in [Workers -> Calls]
      BY <1>0, <1>6, <2>2, BecomeTyped DEF UploadFails
    <3> QED BY <1>6, <2>2, <3>1 DEF UploadFails, TypeOK, Calls, seen
  <2> QED BY <2>1, <2>2
<1>7. ASSUME NEW r \in Recordings, NEW s \in Sessions, MarkReady(w, r, s)
      PROVE  session' \in Sessions /\ call' \in [Workers -> Calls]
  <2>1. session' \in Sessions
    BY <1>7 DEF MarkReady, Sessions
  <2>2. [stage |-> "attach", recording |-> r, write |-> session'] \in Calls
    BY <2>1 DEF Attaching, Calls
  <2> QED BY <1>7, <2>1, <2>2, BecomeTyped DEF MarkReady
<1>8. CASE UploadSucceeds(w)
  <2>1. call[w].recording \in Recordings
    BY <1>8, CallKinds DEF UploadSucceeds, Uploading
  <2>2. session' \in Sessions \cup {None} /\ call' \in [Workers -> Calls]
    BY <1>7, <1>8, <2>1, FindTyped DEF UploadSucceeds, TypeOK
  <2> QED BY <1>8, <2>2 DEF UploadSucceeds, TypeOK, Calls, seen
<1>9. ASSUME NEW r \in Recordings, AttachToDraft(r) PROVE draft' \in Drafts \cup {None}
  BY <1>9 DEF AttachToDraft, TypeOK, Drafts
<1>10. CASE FoundAgain(w)
  <2>1. call[w] \in Finding
    BY <1>10, CallKinds DEF FoundAgain
  <2>2. CASE call[w].found # None
    <3>1. call[w].found \in Sessions /\ call[w].recording \in Recordings
      BY <2>1, <2>2 DEF Finding
    <3>2. session' \in Sessions /\ call' \in [Workers -> Calls]
      BY <1>7, <1>10, <2>2, <3>1 DEF FoundAgain
    <3>3. reloaded' \subseteq Nat
      BY <1>10, <2>2, <3>1 DEF FoundAgain, Reload, TypeOK, Sessions
    <3> QED BY <1>10, <2>2, <3>2, <3>3 DEF FoundAgain, TypeOK, Calls, seen
  <2>3. CASE call[w].found = None
    <3>1. draft' \in Drafts \cup {None}
      BY <1>9, <1>10, <2>1, <2>3 DEF FoundAgain, Finding
    <3>2. call' \in [Workers -> Calls]
      BY <1>0, <1>10, <2>3, BecomeTyped DEF FoundAgain
    <3> QED BY <1>10, <2>3, <3>1, <3>2 DEF FoundAgain, TypeOK, Calls, seen
  <2> QED BY <2>2, <2>3
<1>11. CASE AttachEvidence(w)
  <2>1. call[w] \in Attaching
    BY <1>11, CallKinds DEF AttachEvidence
  <2>2. draft' \in Drafts \cup {None}
    BY <1>9, <1>11, <2>1 DEF AttachEvidence, Attaching
  <2>3. row' \in Sessions \cup {None}
    BY <1>11, <2>1 DEF AttachEvidence, Update, Attaching, TypeOK
  <2>4. call' \in [Workers -> Calls]
    BY <1>0, <1>11, BecomeTyped DEF AttachEvidence
  <2> QED BY <1>11, <2>2, <2>3, <2>4 DEF AttachEvidence, TypeOK, Calls, seen
<1> QED BY <1>1, <1>2, <1>3, <1>4, <1>5, <1>6, <1>8, <1>10, <1>11 DEF Resume

\* Every reachable state of the guided request is well typed.
THEOREM TypeCorrect == Spec => []TypeOK
<1>1. Init => TypeOK
  BY DEF Init, TypeOK, seen
<1>2. TypeOK /\ [Next]_vars => TypeOK'
  <2> SUFFICES ASSUME TypeOK, [Next]_vars PROVE TypeOK'
    OBVIOUS
  <2>1. ASSUME NEW i \in 1..sessions, ExpireSession(i) PROVE TypeOK'
    BY <2>1 DEF ExpireSession, TypeOK, seen
  <2>2. CASE ExpireDraft \/ Restart
    BY <2>2 DEF ExpireDraft, Restart, TypeOK, seen
  <2>3. CASE UNCHANGED vars
    BY <2>3 DEF vars, TypeOK, seen
  <2> QED BY <2>1, <2>2, <2>3, PressTyped, ResumeTyped, ReceiveTyped DEF Next, Time
<1> QED BY <1>1, <1>2, PTL DEF Spec

(***************************************************************************)
(* One upload per session                                                  *)
(***************************************************************************)

\* The sessions a handler holds in its hands are among the n that were
\* started.
Numbered(c, n) ==
  /\ c.stage \in {"upsert", "update", "persist", "attach"} => c.write.id <= n
  /\ c.stage \in {"find", "refind"} /\ c.found # None => c.found.id <= n
  /\ c.stage \in {"persist", "download"} => c.session \in 1..n

SessionsNumbered ==
  /\ session # None => session.id <= sessions
  /\ row # None => row.id <= sessions
  /\ \A w \in Workers : Numbered(call[w], sessions)

\* A handler that goes on with sessions that were started.
LEMMA NumberedAfter ==
  ASSUME TypeOK, SessionsNumbered, NEW w \in Workers, NEW c, Become(w, c),
         sessions' = sessions, Numbered(c, sessions),
         session' # None => session'.id <= sessions,
         row' # None => row'.id <= sessions
  PROVE  SessionsNumbered'
<1>1. ASSUME NEW v \in Workers PROVE Numbered(call'[v], sessions)
  BY DEF TypeOK, SessionsNumbered, Become
<1> QED BY <1>1 DEF SessionsNumbered, Numbered

LEMMA PressNumbered ==
  ASSUME TypeOK, SessionsNumbered, NEW w \in Workers, Press(w)
  PROVE  SessionsNumbered'
<1>1. CASE SubmitModal(w) \/ PressUpload(w)
  <2>1. /\ sessions' = sessions + 1
        /\ session' \in Sessions /\ session'.id = sessions'
        /\ call' = [call EXCEPT ![w] = [stage |-> "upsert", write |-> session']]
        /\ row' = row
    BY <1>1, CreateSessionTyped DEF SubmitModal, PressUpload
  <2>2. ASSUME NEW v \in Workers PROVE Numbered(call'[v], sessions')
    <3>1. CASE v = w
      BY <2>1, <3>1 DEF Numbered, TypeOK
    <3>2. CASE v # w
      <4>1. call'[v] = call[v] /\ Numbered(call[v], sessions)
        BY <2>1, <3>2 DEF SessionsNumbered, TypeOK
      <4>2. CASE call[v] \in Writing \cup Holding \cup Attaching
        <5>1. call[v].write.id \in Nat
          BY <4>2 DEF Writing, Holding, Attaching, Sessions
        <5> QED BY <2>1, <4>1, <4>2, <5>1 DEF Numbered, TypeOK, Writing, Holding, Attaching
      <4>3. CASE call[v] \in Looking \cup Finding
        <5>1. call[v].found # None => call[v].found.id \in Nat
          BY <4>3 DEF Looking, Finding, Sessions
        <5> QED BY <2>1, <4>1, <4>3, <5>1 DEF Numbered, TypeOK, Looking, Finding
      <4>4. CASE call[v] \in {Idle} \cup Erasing \cup Uploading \cup Creating
        BY <2>1, <4>1, <4>4 DEF Numbered, TypeOK, Idle, Erasing, Uploading, Creating
      <4> QED BY <4>2, <4>3, <4>4 DEF TypeOK
    <3> QED BY <3>1, <3>2
  <2>3. row' # None => row'.id <= sessions'
    BY <2>1 DEF SessionsNumbered, TypeOK, Sessions
  <2> QED BY <2>1, <2>2, <2>3 DEF SessionsNumbered, Sessions, TypeOK
<1>2. CASE PressCancel(w)
  BY <1>2, NumberedAfter DEF PressCancel, Numbered, SessionsNumbered
<1>3. CASE PressSubmit(w)
  <2>1. PICK c \in {Idle, [stage |-> "create", draft |-> draft]} : Become(w, c)
    BY <1>3 DEF PressSubmit
  <2>2. Numbered(c, sessions)
    BY <2>1 DEF Numbered, Idle
  <2> QED BY <1>3, <2>1, <2>2, NumberedAfter DEF PressSubmit, SessionsNumbered
<1> QED BY <1>1, <1>2, <1>3 DEF Press

LEMMA HandleNumbered ==
  ASSUME TypeOK, SessionsNumbered, NEW w \in Workers, NEW r \in Recordings, NEW s \in Sessions,
         s.id <= sessions, Handle(w, r, s), UNCHANGED <<sessions, row>>
  PROVE  SessionsNumbered'
<1>0. Numbered(Idle, sessions) /\ Numbered([stage |-> "clear"], sessions)
  BY DEF Numbered, Idle
<1>1. CASE session' = s /\ (Become(w, Idle) \/ Become(w, [stage |-> "clear"]))
  BY <1>0, <1>1, NumberedAfter DEF SessionsNumbered
<1>2. CASE /\ session' = [s EXCEPT !.status = "PROCESSING"]
           /\ Become(w, [stage |-> "persist", recording |-> r, session |-> s.id,
                         write |-> session'])
  <2>1. session'.id = s.id /\ s.id \in 1..sessions
    BY <1>2 DEF Sessions, TypeOK
  <2>2. Numbered([stage |-> "persist", recording |-> r, session |-> s.id,
                  write |-> session'], sessions)
    BY <2>1 DEF Numbered, TypeOK
  <2> QED BY <1>2, <2>1, <2>2, NumberedAfter DEF SessionsNumbered, TypeOK
<1> QED BY <1>1, <1>2 DEF Handle

LEMMA FindNumbered ==
  ASSUME TypeOK, SessionsNumbered, NEW w \in Workers, NEW r, NEW stage \in {"find", "refind"},
         Find(w, stage, r), UNCHANGED <<sessions, session, row>>
  PROVE  SessionsNumbered'
<1>1. PICK found \in {row, None} :
        Become(w, [stage |-> stage, recording |-> r, found |-> found])
  BY DEF Find
<1>2. Numbered([stage |-> stage, recording |-> r, found |-> found], sessions)
  BY DEF Numbered, SessionsNumbered
<1> QED BY <1>1, <1>2, NumberedAfter DEF SessionsNumbered

LEMMA MarkReadyNumbered ==
  ASSUME TypeOK, SessionsNumbered, NEW w \in Workers, NEW r, NEW s \in Sessions,
         s.id <= sessions, MarkReady(w, r, s), UNCHANGED <<sessions, row>>
  PROVE  SessionsNumbered'
<1>1. session'.id = s.id
  BY DEF MarkReady, Sessions
<1>2. Numbered([stage |-> "attach", recording |-> r, write |-> session'], sessions)
  BY <1>1 DEF Numbered
<1> QED BY <1>1, <1>2, NumberedAfter DEF MarkReady, SessionsNumbered

LEMMA ResumeNumbered ==
  ASSUME TypeOK, SessionsNumbered, NEW w \in Workers, Resume(w)
  PROVE  SessionsNumbered'
<1>0. /\ Numbered(Idle, sessions)
      /\ Numbered([stage |-> "clear"], sessions)
      /\ Numbered([stage |-> "delete"], sessions)
      /\ Numbered(call[w], sessions)
  BY DEF Numbered, Idle, SessionsNumbered
<1>1. CASE CreateRequest(w) \/ RefuseRequest(w)
  BY <1>0, <1>1, NumberedAfter DEF CreateRequest, RefuseRequest, SessionsNumbered
<1>2. CASE ClearSession(w) \/ DeleteRow(w)
  BY <1>0, <1>2, NumberedAfter DEF ClearSession, DeleteRow, SessionsNumbered
<1>3. CASE WriteRow(w)
  BY <1>0, <1>3, NumberedAfter DEF WriteRow, Update, SessionsNumbered, Numbered
<1>4. CASE FoundSession(w)
  <2>1. call[w].recording \in Recordings /\ call[w].found \in Sessions \cup {None}
    BY <1>4, CallKinds DEF FoundSession, Looking
  <2>2. CASE call[w].found # None
    BY <1>0, <1>4, <2>1, <2>2, HandleNumbered DEF FoundSession, Numbered
  <2>3. CASE call[w].found = None
    BY <1>0, <1>4, <2>3, NumberedAfter DEF FoundSession, SessionsNumbered
  <2> QED BY <2>2, <2>3
<1>5. CASE PersistProcessing(w)
  <2>1. call[w].session \in 1..sessions /\ call[w].write.id <= sessions
    BY <1>0, <1>5 DEF PersistProcessing, Numbered
  <2>2. Numbered([stage |-> "download", recording |-> call[w].recording,
                  session |-> call[w].session], sessions)
    BY <2>1 DEF Numbered
  <2> QED BY <1>5, <2>1, <2>2, NumberedAfter DEF PersistProcessing, Update, SessionsNumbered
<1>6. CASE UploadFails(w)
  <2>1. CASE session # None /\ session.status = "PROCESSING"
    <3>1. session'.id = session.id /\ session.id <= sessions
      BY <1>6, <2>1 DEF UploadFails, TypeOK, Sessions, SessionsNumbered
    <3>2. Numbered([stage |-> "update", write |-> session'], sessions)
      BY <2>1, <3>1 DEF Numbered, SessionsNumbered
    <3> QED BY <1>6, <2>1, <3>1, <3>2, NumberedAfter DEF UploadFails, SessionsNumbered
  <2>2. CASE ~(session # None /\ session.status = "PROCESSING")
    BY <1>0, <1>6, <2>2, NumberedAfter DEF UploadFails, SessionsNumbered
  <2> QED BY <2>1, <2>2
<1>7. CASE UploadSucceeds(w)
  <2>1. CASE session # None
    BY <1>7, <2>1, MarkReadyNumbered DEF UploadSucceeds, SessionsNumbered, TypeOK
  <2>2. CASE session = None
    BY <1>7, <2>2, FindNumbered DEF UploadSucceeds
  <2> QED BY <2>1, <2>2
<1>8. CASE FoundAgain(w)
  <2>1. call[w].found \in Sessions \cup {None}
    BY <1>8, CallKinds DEF FoundAgain, Finding
  <2>2. CASE call[w].found # None
    BY <1>0, <1>8, <2>1, <2>2, MarkReadyNumbered DEF FoundAgain, Numbered
  <2>3. CASE call[w].found = None
    BY <1>0, <1>8, <2>3, NumberedAfter DEF FoundAgain, SessionsNumbered
  <2> QED BY <2>2, <2>3
<1>9. CASE AttachEvidence(w)
  BY <1>0, <1>9, NumberedAfter DEF AttachEvidence, Update, SessionsNumbered, Numbered
<1> QED BY <1>1, <1>2, <1>3, <1>4, <1>5, <1>6, <1>7, <1>8, <1>9 DEF Resume

LEMMA ReceiveNumbered ==
  ASSUME TypeOK, SessionsNumbered, NEW w \in Workers, NEW r \in Recordings, ReceiveMessage(w, r)
  PROVE  SessionsNumbered'
<1>1. CASE session # None
  BY <1>1, HandleNumbered DEF ReceiveMessage, SessionsNumbered, TypeOK
<1>2. CASE session = None
  BY <1>2, FindNumbered DEF ReceiveMessage
<1> QED BY <1>1, <1>2

\* Every session that is in memory, in its row or in the hands of a handler
\* was started.
LEMMA NumberedCorrect == Spec => []SessionsNumbered
<1>1. Init => SessionsNumbered
  BY DEF Init, SessionsNumbered, Numbered, Idle
<1>2. TypeOK /\ SessionsNumbered /\ [Next]_vars => SessionsNumbered'
  <2> SUFFICES ASSUME TypeOK, SessionsNumbered, [Next]_vars PROVE SessionsNumbered'
    OBVIOUS
  <2>1. CASE Time \/ UNCHANGED vars
    BY <2>1 DEF Time, ExpireSession, ExpireDraft, vars, SessionsNumbered, Numbered
  <2>2. CASE Restart
    BY <2>2 DEF Restart, SessionsNumbered, Numbered, Idle
  <2> QED BY <2>1, <2>2, PressNumbered, ResumeNumbered, ReceiveNumbered DEF Next
<1> QED BY <1>1, <1>2, TypeCorrect, PTL DEF Spec

Uploads(w) == call[w].stage \in {"persist", "download"}

\* While there is only the session in memory, an upload that is processed
\* is the only one, and the session in memory does not take another.
OneUpload ==
  sessions = 1 /\ reloaded = {} =>
    /\ \A v, w \in Workers : Uploads(v) /\ Uploads(w) => v = w
    /\ \A w \in Workers : Uploads(w) /\ session # None => ~Ready(session)

\* A step that starts no session either starts no upload and does not make
\* the session in memory take one, ends an upload, or starts one because
\* the session in memory took it.
StartsNone ==
  /\ \A v \in Workers : Uploads(v)' => Uploads(v)
  /\ session' \in {session, None} \/ ~Ready(session')

Ends(w) == Uploads(w) /\ \A v \in Workers : Uploads(v)' => Uploads(v) /\ v # w

Starts(w) ==
  /\ session # None /\ Ready(session) /\ ~Ready(session')
  /\ \A v \in Workers : Uploads(v)' => Uploads(v) \/ v = w

\* What w's handler does next makes an uploader of nobody else.
LEMMA UploadsAfter ==
  ASSUME TypeOK, NEW w \in Workers, NEW c, Become(w, c)
  PROVE  /\ \A v \in Workers \ {w} : Uploads(v)' => Uploads(v)
         /\ Uploads(w)' => c.stage \in {"persist", "download"}
  BY DEF TypeOK, Become, Uploads

LEMMA NotUploading ==
  ASSUME TypeOK, NEW w \in Workers, NEW c, Become(w, c),
         c.stage \notin {"persist", "download"}
  PROVE  /\ \A v \in Workers : Uploads(v)' => Uploads(v)
         /\ \A v \in Workers : Uploads(v)' => v # w
  BY UploadsAfter DEF Uploads

LEMMA PressUploads ==
  ASSUME TypeOK, NEW w \in Workers, Press(w), sessions' = sessions
  PROVE  StartsNone
<1>0. sessions + 1 # sessions
  BY DEF TypeOK
<1>1. ~CreateSession(w)
  BY <1>0 DEF CreateSession
<1>2. CASE PressCancel(w)
  BY <1>2, NotUploading DEF PressCancel, StartsNone
<1>3. CASE PressSubmit(w)
  <2>1. PICK c \in {Idle, [stage |-> "create", draft |-> draft]} : Become(w, c)
    BY <1>3 DEF PressSubmit
  <2>2. c.stage \notin {"persist", "download"}
    BY <2>1 DEF Idle
  <2> QED BY <1>3, <2>1, <2>2, NotUploading DEF PressSubmit, StartsNone
<1> QED BY <1>1, <1>2, <1>3 DEF Press, SubmitModal, PressUpload

LEMMA FindUploads ==
  ASSUME TypeOK, NEW w \in Workers, NEW r, NEW stage \in {"find", "refind"}, Find(w, stage, r)
  PROVE  \A v \in Workers : Uploads(v)' => Uploads(v) /\ v # w
<1>1. PICK found \in {row, None} :
        Become(w, [stage |-> stage, recording |-> r, found |-> found])
  BY DEF Find
<1> QED BY <1>1, NotUploading

LEMMA ReceiveUploads ==
  ASSUME TypeOK, NEW w \in Workers, NEW r \in Recordings, ReceiveMessage(w, r)
  PROVE  StartsNone \/ Starts(w)
<1>1. CASE session = None
  BY <1>1, FindUploads DEF ReceiveMessage, StartsNone
<1>2. CASE session # None
  <2>1. Handle(w, r, session)
    BY <1>2 DEF ReceiveMessage
  <2>2. CASE session' = session /\ (Become(w, Idle) \/ Become(w, [stage |-> "clear"]))
    BY <2>2, NotUploading DEF StartsNone, Idle
  <2>3. CASE /\ Ready(session)
             /\ session' = [session EXCEPT !.status = "PROCESSING"]
             /\ Become(w, [stage |-> "persist", recording |-> r, session |-> session.id,
                           write |-> session'])
    <3>1. ~Ready(session')
      BY <1>2, <2>3 DEF Ready, TypeOK, Sessions
    <3> QED BY <1>2, <2>3, <3>1, UploadsAfter DEF Starts
  <2> QED BY <2>1, <2>2, <2>3 DEF Handle
<1> QED BY <1>1, <1>2

LEMMA ResumeUploads ==
  ASSUME TypeOK, NEW w \in Workers, Resume(w), reloaded' = {}
  PROVE  StartsNone \/ Ends(w)
<1>1. CASE CreateRequest(w) \/ RefuseRequest(w)
  BY <1>1, NotUploading DEF CreateRequest, RefuseRequest, StartsNone, Idle
<1>2. CASE ClearSession(w) \/ DeleteRow(w)
  BY <1>2, NotUploading DEF ClearSession, DeleteRow, StartsNone, Idle
<1>3. CASE WriteRow(w) \/ AttachEvidence(w)
  BY <1>3, NotUploading DEF WriteRow, AttachEvidence, StartsNone, Idle
<1>4. CASE FoundSession(w)
  BY <1>4, NotUploading DEF FoundSession, Reload, StartsNone, Idle
<1>5. CASE PersistProcessing(w)
  BY <1>5, UploadsAfter DEF PersistProcessing, StartsNone, Uploads
<1>6. CASE UploadFails(w)
  <2>1. \E c \in {Idle, [stage |-> "update", write |-> session']} : Become(w, c)
    BY <1>6 DEF UploadFails
  <2> QED BY <1>6, <2>1, NotUploading DEF UploadFails, Ends, Uploads, Idle
<1>7. CASE UploadSucceeds(w)
  <2>1. CASE session # None
    BY <1>7, <2>1, NotUploading DEF UploadSucceeds, MarkReady, Ends, Uploads
  <2>2. CASE session = None
    BY <1>7, <2>2, FindUploads DEF UploadSucceeds, Ends, Uploads
  <2> QED BY <2>1, <2>2
<1>8. CASE FoundAgain(w)
  BY <1>8, NotUploading DEF FoundAgain, Reload, StartsNone, Idle
<1> QED BY <1>1, <1>2, <1>3, <1>4, <1>5, <1>6, <1>7, <1>8 DEF Resume

\* The first session starts when nothing is uploaded.
LEMMA FirstSession ==
  ASSUME TypeOK, SessionsNumbered, NEW w \in Workers, CreateSession(w), sessions' = 1
  PROVE  \A v \in Workers : ~Uploads(v)'
<1>1. sessions = 0
  BY DEF CreateSession, TypeOK
<1>2. \A v \in Workers : ~Uploads(v)
  BY <1>1 DEF SessionsNumbered, Numbered, Uploads
<1> QED BY <1>2, NotUploading DEF CreateSession

LEMMA SessionSteps ==
  ASSUME [Next]_vars
  PROVE  /\ reloaded \subseteq reloaded'
         /\ UNCHANGED sessions \/ \E w \in Workers : CreateSession(w)
  BY DEF Next, Press, Resume, Time, vars, SubmitModal, PressUpload, PressCancel, PressSubmit,
         CreateRequest, RefuseRequest, ClearSession, DeleteRow, WriteRow, FoundSession,
         PersistProcessing, UploadFails, UploadSucceeds, FoundAgain, AttachEvidence,
         ReceiveMessage, ExpireDraft, ExpireSession, Restart, Reload

LEMMA OneUploadStep ==
  ASSUME TypeOK, SessionsNumbered, OneUpload, [Next]_vars
  PROVE  OneUpload'
<1>0. SUFFICES ASSUME sessions' = 1, reloaded' = {}
               PROVE  /\ \A v, w \in Workers : Uploads(v)' /\ Uploads(w)' => v = w
                      /\ \A w \in Workers : Uploads(w)' /\ session' # None => ~Ready(session')
  BY DEF OneUpload, Ready
<1>1. CASE \E w \in Workers : CreateSession(w)
  BY <1>0, <1>1, FirstSession
<1>2. CASE UNCHANGED sessions
  <2>1. /\ \A v, w \in Workers : Uploads(v) /\ Uploads(w) => v = w
        /\ \A w \in Workers : Uploads(w) /\ session # None => ~Ready(session)
    BY <1>0, <1>2, SessionSteps DEF OneUpload
  <2>2. CASE StartsNone
    BY <2>1, <2>2 DEF StartsNone
  <2>3. ASSUME NEW w \in Workers, Starts(w) \/ Ends(w) PROVE \A v \in Workers : Uploads(v)' => v = w
    BY <2>1, <2>3 DEF Starts, Ends
  <2>4. ASSUME NEW w \in Workers, Starts(w) \/ Ends(w)
        PROVE  \A v \in Workers : Uploads(v)' => ~Ready(session')
    BY <2>1, <2>4 DEF Starts, Ends
  <2>5. CASE Time \/ UNCHANGED vars
    BY <2>2, <2>5 DEF Time, ExpireDraft, ExpireSession, vars, StartsNone, Uploads
  <2>6. CASE Restart
    BY <2>6 DEF Restart, Uploads, Idle
  <2> QED BY <1>0, <1>2, <2>2, <2>3, <2>4, <2>5, <2>6, PressUploads, ReceiveUploads, ResumeUploads
          DEF Next
<1> QED BY <1>1, <1>2, SessionSteps

LEMMA OneUploadCorrect == Spec => []OneUpload
<1>1. Init => OneUpload
  BY DEF Init, OneUpload, Uploads, Idle
<1>2. TypeOK /\ SessionsNumbered /\ OneUpload /\ [Next]_vars => OneUpload'
  BY OneUploadStep
<1> QED BY <1>1, <1>2, TypeCorrect, NumberedCorrect, PTL DEF Spec

\* As long as the creator's one session stays in memory, at most one
\* recording is processed for it, however many messages arrive.
THEOREM OneAtATime == Spec => []OneUploadPerSession
<1>1. OneUpload => OneUploadPerSession
  <2> SUFFICES ASSUME \A v, w \in Workers : Uploads(v) /\ Uploads(w) => v = w
               PROVE  Cardinality(Uploaders(1)) <= 1
    BY DEF OneUpload, OneUploadPerSession
  <2>1. CASE Uploaders(1) = {}
    BY <2>1, FS_EmptySet
  <2>2. ASSUME NEW w \in Uploaders(1) PROVE Cardinality(Uploaders(1)) <= 1
    <3>1. Uploaders(1) = {w}
      BY <2>2 DEF Uploaders, Uploads
    <3>2. Cardinality({w}) = 1
      BY FS_Singleton
    <3> QED BY <3>1, <3>2
  <2> QED BY <2>1, <2>2
<1> QED BY <1>1, OneUploadCorrect, PTL

(***************************************************************************)
(* Drafts                                                                  *)
(***************************************************************************)

Creates(w) == call[w].stage = "create"

\* The draft in memory and the drafts that are being submitted are all
\* different.
DraftsDistinct ==
  /\ draft # None => draft.id <= drafts
  /\ \A w \in Workers : Creates(w) =>
       /\ call[w].draft.id <= drafts
       /\ draft # None => call[w].draft.id # draft.id
  /\ \A v, w \in Workers :
       Creates(v) /\ Creates(w) /\ call[v].draft.id = call[w].draft.id => v = w

\* What w's handler does next does not change what the others submit.
LEMMA CreatesAfter ==
  ASSUME TypeOK, NEW w \in Workers, NEW c, Become(w, c)
  PROVE  /\ call'[w] = c
         /\ \A v \in Workers \ {w} : call'[v] = call[v]
  BY DEF TypeOK, Become

LEMMA DraftsKept ==
  ASSUME TypeOK, DraftsDistinct, NEW w \in Workers, NEW c, Become(w, c),
         c.stage # "create", drafts' = drafts,
         draft' # None => draft # None /\ draft'.id = draft.id
  PROVE  DraftsDistinct'
  BY CreatesAfter DEF DraftsDistinct, Creates

\* A handler that is not submitting and does not begin to.
LEMMA SubmittingKept ==
  ASSUME TypeOK, NEW w \in Workers, NEW c, Become(w, c),
         c.stage # "create", call[w].stage # "create"
  PROVE  Submitting' = Submitting
  BY CreatesAfter DEF Submitting

LEMMA SubmittingEnds ==
  ASSUME TypeOK, NEW w \in Workers, NEW c, Become(w, c), c.stage # "create"
  PROVE  Submitting' \subseteq Submitting
  BY CreatesAfter DEF Submitting

LEMMA PressFlow ==
  ASSUME TypeOK, DraftsDistinct, NEW w \in Workers, Press(w)
  PROVE  DraftsDistinct' /\ [Flow!Next]_Flow!vars
<1>0. call[w].stage # "create"
  BY DEF Press, SubmitModal, PressUpload, PressCancel, PressSubmit, Idle
<1>1. CASE SubmitModal(w)
  <2>1. \E c : Become(w, c) /\ c.stage # "create"
    BY <1>1 DEF SubmitModal, CreateSession
  <2>2. Submitting' = Submitting
    BY <1>0, <2>1, SubmittingKept
  <2>3. Flow!Start
    BY <1>1, <2>2 DEF SubmitModal, NewDraft, Flow!Start
  <2>4. draft'.id = drafts + 1 /\ drafts' = drafts + 1
    BY <1>1 DEF SubmitModal, NewDraft
  <2>5. ASSUME NEW v \in Workers, Creates(v)' PROVE Creates(v) /\ call'[v] = call[v]
    BY <2>1, <2>5, CreatesAfter DEF Creates
  <2>6. ASSUME NEW v \in Workers, Creates(v) PROVE call[v].draft.id \in Nat
    BY <2>6, CallKinds DEF Creates, Creating, Recorded
  <2>7. DraftsDistinct'
    BY <2>4, <2>5, <2>6 DEF DraftsDistinct, TypeOK
  <2> QED BY <2>3, <2>7 DEF Flow!Next
<1>2. CASE PressUpload(w)
  <2>1. \E c : Become(w, c) /\ c.stage # "create"
    BY <1>2 DEF PressUpload, CreateSession
  <2> QED BY <1>0, <1>2, <2>1, DraftsKept, SubmittingKept DEF PressUpload, Flow!vars
<1>3. CASE PressCancel(w)
  <2>1. Submitting' = Submitting /\ DraftsDistinct'
    BY <1>0, <1>3, DraftsKept, SubmittingKept DEF PressCancel
  <2> QED BY <1>3, <2>1 DEF PressCancel, Flow!Lose, Flow!Next
<1>4. CASE PressSubmit(w) /\ draft.recording = None
  <2>1. Submitting' = Submitting /\ DraftsDistinct'
    BY <1>0, <1>4, DraftsKept, SubmittingKept DEF PressSubmit, Idle
  <2> QED BY <1>4, <2>1 DEF PressSubmit, Flow!Lose, Flow!Next
<1>5. CASE PressSubmit(w) /\ draft.recording # None
  <2>1. /\ call'[w] = [stage |-> "create", draft |-> draft]
        /\ \A v \in Workers \ {w} : call'[v] = call[v]
    BY <1>5, CreatesAfter DEF PressSubmit
  <2>2. Submitting' = Submitting \cup {draft}
    BY <1>0, <2>1 DEF Submitting
  <2>3. Flow!Take
    BY <1>5, <2>2 DEF PressSubmit, Flow!Take
  <2>4. DraftsDistinct'
    BY <1>5, <2>1 DEF PressSubmit, DraftsDistinct, Creates
  <2> QED BY <2>3, <2>4 DEF Flow!Next
<1> QED BY <1>1, <1>2, <1>3, <1>4, <1>5 DEF Press

\* What attaching a recording, or finding no draft for it, means to the flow.
LEMMA AttachFlow ==
  ASSUME TypeOK, NEW r \in Recordings, AttachToDraft(r),
         UNCHANGED <<drafts, requests>>, Submitting' = Submitting
  PROVE  /\ draft' # None => draft # None /\ draft'.id = draft.id
         /\ [Flow!Next]_Flow!vars
<1>1. CASE draft = None
  BY <1>1 DEF AttachToDraft, Flow!vars
<1>2. CASE draft # None
  <2>1. Flow!Record(r)
    BY <1>2 DEF AttachToDraft, Flow!Record
  <2>2. draft'.id = draft.id
    BY <1>2 DEF AttachToDraft, TypeOK, Drafts
  <2> QED BY <1>2, <2>1, <2>2 DEF Flow!Next
<1> QED BY <1>1, <1>2

LEMMA ResumeFlow ==
  ASSUME TypeOK, DraftsDistinct, NEW w \in Workers, Resume(w)
  PROVE  DraftsDistinct' /\ [Flow!Next]_Flow!vars
<1>1. CASE CreateRequest(w)
  <2>1. call'[w].stage = "clear" /\ \A v \in Workers \ {w} : call'[v] = call[v]
    BY <1>1, CreatesAfter DEF CreateRequest
  <2>2. \A v \in Workers \ {w} : Creates(v) => call[v].draft # call[w].draft
    BY <1>1 DEF CreateRequest, DraftsDistinct, Creates
  <2>3. Submitting' = Submitting \ {call[w].draft} /\ call[w].draft \in Submitting
    BY <1>1, <2>1, <2>2 DEF CreateRequest, Submitting, Creates
  <2>4. Flow!Create(call[w].draft)
    BY <1>1, <2>3 DEF CreateRequest, Flow!Create
  <2>5. DraftsDistinct'
    BY <1>1, DraftsKept DEF CreateRequest
  <2> QED BY <2>3, <2>4, <2>5 DEF Flow!Next
<1>2. CASE RefuseRequest(w)
  <2>1. Submitting' \subseteq Submitting /\ DraftsDistinct'
    BY <1>2, DraftsKept, SubmittingEnds DEF RefuseRequest, Idle
  <2> QED BY <1>2, <2>1 DEF RefuseRequest, Flow!Lose, Flow!Next
<1>3. CASE ClearSession(w) \/ DeleteRow(w) \/ WriteRow(w)
  BY <1>3, DraftsKept, SubmittingKept
     DEF ClearSession, DeleteRow, WriteRow, Idle, Flow!vars
<1>4. CASE FoundSession(w)
  <2>1. \E c : Become(w, c) /\ c.stage # "create"
    BY <1>4 DEF FoundSession, Handle, Idle
  <2> QED BY <1>4, <2>1, DraftsKept, SubmittingKept DEF FoundSession, Flow!vars
<1>5. CASE PersistProcessing(w)
  BY <1>5, DraftsKept, SubmittingKept DEF PersistProcessing, Flow!vars
<1>6. CASE UploadFails(w)
  <2>1. \E c : Become(w, c) /\ c.stage # "create"
    BY <1>6 DEF UploadFails, Idle
  <2> QED BY <1>6, <2>1, DraftsKept, SubmittingKept DEF UploadFails, Flow!vars
<1>7. CASE UploadSucceeds(w)
  <2>1. \E c : Become(w, c) /\ c.stage # "create"
    BY <1>7 DEF UploadSucceeds, MarkReady, Find
  <2> QED BY <1>7, <2>1, DraftsKept, SubmittingKept DEF UploadSucceeds, Flow!vars
<1>8. CASE FoundAgain(w)
  <2>1. \E c : Become(w, c) /\ c.stage # "create"
    BY <1>8 DEF FoundAgain, MarkReady, Idle
  <2>2. Submitting' = Submitting
    BY <1>8, <2>1, SubmittingKept DEF FoundAgain
  <2>3. call[w].recording \in Recordings
    BY <1>8, CallKinds DEF FoundAgain, Finding
  <2>4. /\ draft' # None => draft # None /\ draft'.id = draft.id
        /\ [Flow!Next]_Flow!vars
    BY <1>8, <2>2, <2>3, AttachFlow DEF FoundAgain, Flow!vars
  <2> QED BY <1>8, <2>1, <2>4, DraftsKept DEF FoundAgain
<1>9. CASE AttachEvidence(w)
  <2>1. Submitting' = Submitting
    BY <1>9, SubmittingKept DEF AttachEvidence, Idle
  <2>2. call[w].recording \in Recordings
    BY <1>9, CallKinds DEF AttachEvidence, Attaching
  <2>3. /\ draft' # None => draft # None /\ draft'.id = draft.id
        /\ [Flow!Next]_Flow!vars
    BY <1>9, <2>1, <2>2, AttachFlow DEF AttachEvidence
  <2> QED BY <1>9, <2>3, DraftsKept DEF AttachEvidence, Idle
<1> QED BY <1>1, <1>2, <1>3, <1>4, <1>5, <1>6, <1>7, <1>8, <1>9 DEF Resume

LEMMA ReceiveFlow ==
  ASSUME TypeOK, DraftsDistinct, NEW w \in Workers, NEW r \in Recordings, ReceiveMessage(w, r)
  PROVE  DraftsDistinct' /\ [Flow!Next]_Flow!vars
<1>1. \E c : Become(w, c) /\ c.stage # "create"
  BY DEF ReceiveMessage, Handle, Find, Idle
<1>2. call[w].stage # "create"
  BY DEF ReceiveMessage, Idle
<1> QED BY <1>1, <1>2, DraftsKept, SubmittingKept DEF ReceiveMessage, Flow!vars

LEMMA FlowStep ==
  ASSUME TypeOK, DraftsDistinct, [Next]_vars
  PROVE  DraftsDistinct' /\ [Flow!Next]_Flow!vars
<1>1. CASE (\E i \in 1..sessions : ExpireSession(i)) \/ UNCHANGED vars
  BY <1>1 DEF ExpireSession, vars, DraftsDistinct, Creates, Submitting, Flow!vars
<1>2. CASE ExpireDraft
  <2>1. Submitting' = Submitting /\ DraftsDistinct'
    BY <1>2 DEF ExpireDraft, DraftsDistinct, Creates, Submitting
  <2> QED BY <1>2, <2>1 DEF ExpireDraft, Flow!Lose, Flow!Next
<1>3. CASE Restart
  <2>1. Submitting' = {} /\ DraftsDistinct'
    BY <1>3 DEF Restart, DraftsDistinct, Creates, Submitting, Idle
  <2> QED BY <1>3, <2>1 DEF Restart, Flow!Lose, Flow!Next
<1> QED BY <1>1, <1>2, <1>3, PressFlow, ResumeFlow, ReceiveFlow DEF Next, Time

\* The guided flow implements its promise: every request comes from a draft
\* that was open, got a recording and was taken, and no draft becomes two
\* requests, whatever handlers overlap and whenever the bot restarts.
THEOREM FlowImplemented == Spec => ImplementsFlow
<1>1. Init => DraftsDistinct /\ Flow!Init
  BY DEF Init, DraftsDistinct, Creates, Submitting, Idle, Flow!Init
<1>2. TypeOK /\ DraftsDistinct /\ [Next]_vars => DraftsDistinct' /\ [Flow!Next]_Flow!vars
  BY FlowStep
<1> QED BY <1>1, <1>2, TypeCorrect, PTL DEF Spec, ImplementsFlow, Flow!Spec
=============================================================================
