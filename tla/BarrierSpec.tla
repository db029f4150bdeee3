---------------------------- MODULE BarrierSpec ----------------------------
(***************************************************************************)
(* What a reusable barrier promises: each of the Parties arrives once per  *)
(* round, and the round is released, all parties together, only when      *)
(* every party has arrived.  A released party may arrive for the next     *)
(* round at once.                                                          *)
(***************************************************************************)
CONSTANT Parties

VARIABLE inside   \* the parties that have arrived in the current round

Init == inside = {}

Arrive(t) ==
  /\ t \notin inside
  /\ inside' = inside \cup {t}

Release ==
  /\ inside = Parties
  /\ inside' = {}

Next == (\E t \in Parties : Arrive(t)) \/ Release

\* the round is released once complete, and no party stays away forever
Spec == Init /\ [][Next]_inside /\ WF_inside(Release)
          /\ \A t \in Parties : WF_inside(Arrive(t))
=============================================================================
