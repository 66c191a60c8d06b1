----------------------------- MODULE MCSajSession -----------------------------
(***************************************************************************)
(* SajSession on a small instance, and what README.md says of the optional *)
(* charger query.                                                          *)
(***************************************************************************)
EXTENDS SajSession

\* README.md:217, "If the optional charger query fails, the three EV entities
\* become unavailable while core fields remain available": a core answer is lost
\* only through a bad core answer or a cancelled poll.
CoreSurvivesCharger == coreLost => blame \cap {"core answer", "cancelled"} # {}
=============================================================================
