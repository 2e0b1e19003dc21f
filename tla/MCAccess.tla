------------------------------- MODULE MCAccess -------------------------------
EXTENDS Access

CONSTANTS r1, i1, i2, p, q

OneReader == {r1}
OneIssuer == {i1}
TwoIssuers == {i1, i2}
TwoPurposes == {p, q}
AllScopes == {{"explain", "export"}, {"explain"}}
OneScope == {{"explain", "export"}}

Mix(kinds, start, c, a, f, n, e, o) ==
  [kinds |-> kinds, store |-> start, changes |-> c, collects |-> a, forgets |-> f, reads |-> n,
   faults |-> e, ages |-> o]

\* grants that change under a read; memory that changes under a read; an export to its end;
\* failing commits and the retention pass
Mixes ==
  {Mix({"list"}, "empty", 3, 1, 0, 1, 0, 0),
   Mix({"explain"}, "plain", 2, 0, 0, 1, 0, 0), Mix({"list", "explain", "export"}, "any", 0, 1, 1, 1, 0, 0),
   Mix({"export"}, "plain", 1, 0, 0, 4, 0, 0), Mix({"export"}, "any", 0, 0, 0, 4, 0, 0),
   Mix({"list", "explain"}, "plain", 0, 0, 0, 2, 1, 2)}
DivergentMixes ==
  {Mix({"export"}, "any", 0, 0, 0, 4, 0, 0), Mix({"explain", "export"}, "any", 0, 0, 1, 2, 0, 0)}
HistoryMix == {Mix({"history"}, "any", 0, 0, 0, 1, 0, 0)}
=============================================================================
