--------------------------- MODULE MCSyntheticGuard ---------------------------
(* Two overlapping passes with a trouble; a pass with one beside a bot; a pass and one or
   two requests; two requests beside a bot. *)
EXTENDS SyntheticGuard

MCMarks == 1..4
MCCrew(ts, cs, armed, troubles, requests, trades) ==
    [jobs |-> ts \cup cs, armed |-> armed, trouble |-> troubles,
     request |-> requests, bot |-> trades]

MCCrews ==
    LET t == CHOOSE x \in Ticks : TRUE c == CHOOSE x \in Callers : TRUE
    IN  {MCCrew(Ticks, {}, TRUE, 1, 0, 0),
         MCCrew({t}, {}, TRUE, 1, 0, 1), MCCrew({t}, {c}, TRUE, 1, 2, 0),
         MCCrew({t}, Callers, TRUE, 0, 2, 0), MCCrew({}, Callers, FALSE, 1, 3, 1)}
=============================================================================
