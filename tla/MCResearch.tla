----------------------------- MODULE MCResearch -----------------------------
(* Instances of Research for TLC.                                          *)
EXTENDS Research

CONSTANTS s1, s2, t1, c1, c2

Stocks1 == {s1}
Stocks2 == {s1, s2}
NoTheme == {}
Themes == {t1}
Clients1 == {c1}
Clients2 == {c1, c2}
ScreenOnly == {"screen"}
Weekly == {"screen", "research"}
=============================================================================
