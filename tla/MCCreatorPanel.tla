--------------------------- MODULE MCCreatorPanel ---------------------------
(* CreatorPanel for TLC: one creator asks for payouts in several messages, *)
(* two meet at the public cards of the campaigns, one is suspended while   *)
(* sending a clip and something fails as well, and one uses everything.    *)
EXTENDS CreatorPanel

CONSTANTS u1, u2, c1, c2, v1, p1, p2

MCScenes ==
  {[creators |-> {u1}, commands |-> {"pub_request"}, meanwhile |-> {"decide"},
    clicks |-> 6, faults |-> 0, outside |-> 5],
   [creators |-> {u1, u2}, commands |-> {"cmd_campaigns", "pub_submit"},
    meanwhile |-> {"close", "remove", "suspend"}, clicks |-> 4, faults |-> 0, outside |-> 1],
   [creators |-> {u1}, commands |-> {"cmd_campaigns", "pub_submit"}, meanwhile |-> {"suspend"},
    clicks |-> 4, faults |-> 1, outside |-> 1],
   [creators |-> {u2}, commands |-> Commands,
    meanwhile |-> {"close", "reopen", "remove", "suspend", "decide", "expire"},
    clicks |-> 2, faults |-> 1, outside |-> 1]}

=============================================================================
