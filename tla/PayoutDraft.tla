---------------------------- MODULE PayoutDraft ----------------------------
(***************************************************************************)
(* What the guided flow promises: a draft is started without a recording,  *)
(* gets one, is taken once and becomes at most one request.  At any point  *)
(* a draft or the attempt to submit it may be lost.                        *)
(***************************************************************************)
EXTENDS Naturals, Sequences

CONSTANTS Recordings, None
VARIABLES
  drafts,    \* the number of drafts started
  draft,     \* the draft that is open
  pending,   \* drafts that were taken and are being submitted
  requests   \* drafts that became requests, in order
vars == <<drafts, draft, pending, requests>>

Init == drafts = 0 /\ draft = None /\ pending = {} /\ requests = <<>>

Start ==
  /\ drafts' = drafts + 1
  /\ draft' = [id |-> drafts', recording |-> None]
  /\ UNCHANGED <<pending, requests>>

Record(r) ==
  /\ draft # None
  /\ draft' = [draft EXCEPT !.recording = r]
  /\ UNCHANGED <<drafts, pending, requests>>

Take ==
  /\ draft # None
  /\ draft.recording # None
  /\ pending' = pending \cup {draft}
  /\ draft' = None
  /\ UNCHANGED <<drafts, requests>>

Create(d) ==
  /\ requests' = Append(requests, d)
  /\ pending' = pending \ {d}
  /\ UNCHANGED <<drafts, draft>>

Lose ==
  /\ draft' \in {draft, None}
  /\ pending' \subseteq pending
  /\ UNCHANGED <<drafts, requests>>

Next ==
  \/ Start
  \/ \E r \in Recordings : Record(r)
  \/ Take
  \/ \E d \in pending : Create(d)
  \/ Lose

Spec == Init /\ [][Next]_vars
=============================================================================
