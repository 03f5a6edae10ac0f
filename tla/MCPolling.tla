----------------------------- MODULE MCPolling -----------------------------
(***************************************************************************)
(* Polling beside the ledger: what Polling and Earnings both name has      *)
(* another name here, so that EarningsProofs is about both.  TLC checks    *)
(* the polling alone.                                                      *)
(***************************************************************************)
EXTENDS FiniteSets, Integers

CONSTANTS Pollers, Staff, StaffOps, Faults, Suspicions, InitialViews, MinViews, MaxViews, MaxErrors

VARIABLES
  clipStatus, campaignStatus, views, peak, latest, repeated, covered, suspect, cycle,
  job, tries, errors, call, met

P == INSTANCE Polling WITH
  Workers <- Pollers, Ops <- StaffOps,
  status <- clipStatus, campaign <- campaignStatus, credited <- covered

ASSUME PollingConstants == P!PollingConstants

\* The jobs of a clip with their fairness.
PollingSpec == P!FairSpec

\* No two kinds of trouble meet, but for an overlap and another one.
FewTroubles == Cardinality(met \ {"overlap"}) <= 1

-----------------------------------------------------------------------------
(* Properties                                                              *)

\* No more is credited than the platform counted: counts typed by staff stay out of
\* the ledger (metric-polling.worker.js).
OnlyMeasuredEarns == P!OnlyMeasuredEarns

\* Two rows that follow one another differ, until jobs overlap or staff enter counts
\* (metric-polling.worker.js).
NoRepeatedSnapshot == P!NoRepeatedSnapshot

\* Views gained since the verification are credited in the end, unless they are in a
\* snapshot that no credit followed (metric-polling.worker.js).
EventuallyCredited == P!EventuallyCredited

\* A clip whose growth is critical comes to review in the end, unless what keeps it
\* from that happens (metric-polling.worker.js).
SuspectIsReviewed == P!SuspectIsReviewed

=============================================================================
