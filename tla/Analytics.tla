------------------------------ MODULE Analytics ------------------------------
(***************************************************************************)
(* The dashboard's read models (AnalyticsService) as functions of the job  *)
(* rows of one organisation: row is a function from its jobs to records    *)
(* with the fields status, amount (NoAmount when it is null), documents    *)
(* (how many it has) and analysis, which is NoAnalysis or a record with    *)
(* recommendation ("apply", "maybe" or "avoid"), value (the estimated      *)
(* budget), score (the win probability in percent) and stack (the skills). *)
(* Rates are in percent.                                                   *)
(***************************************************************************)
EXTENDS Integers, FiniteSets, FiniteSetsExt

CONSTANTS NoAmount, NoAnalysis, NoRate

\* Math.round of a non-negative quotient.
Rounded(x, y) == (2 * x + y) \div (2 * y)

\* null until at least one deal is decided.
WinRate(won, decided) == IF decided > 0 THEN Rounded(100 * won, decided) ELSE NoRate

\* A null amount adds nothing.
Amount(row, j) == IF row[j].amount = NoAmount THEN 0 ELSE row[j].amount
Revenue(row, J) == MapThenSumSet(LAMBDA j : Amount(row, j), J)

With(row, s) == {j \in DOMAIN row : row[j].status = s}
Count(row, s) == Cardinality(With(row, s))

Assessed(row) == {j \in DOMAIN row : row[j].analysis # NoAnalysis}
Applied(row) == {j \in DOMAIN row : row[j].documents > 0}
AvoidHeeded(row) ==
  {j \in Assessed(row) : row[j].analysis.recommendation = "avoid" /\ row[j].documents = 0}

\* Worth pursuing, and still a draft: valued at budget times win probability.
Missed(row) ==
  {j \in With(row, "draft") \cap Assessed(row) :
     row[j].analysis.recommendation \in {"apply", "maybe"}}
OpportunityLost(row) ==
  MapThenSumSet(LAMBDA j : Rounded(row[j].analysis.value * row[j].analysis.score, 100), Missed(row))

Sent(row) == Count(row, "sent") + Count(row, "viewed") + Count(row, "negotiation")
             + Count(row, "won") + Count(row, "lost")

Summary(row) ==
  LET won == Count(row, "won")
      lost == Count(row, "lost")
      sent == Sent(row)
      revenue == Revenue(row, With(row, "won"))
  IN  [total |-> Cardinality(DOMAIN row), won |-> won, lost |-> lost, sent |-> sent,
       assessed |-> Cardinality(Assessed(row)), applied |-> Cardinality(Applied(row)),
       avoidHeeded |-> Cardinality(AvoidHeeded(row)),
       winRate |-> WinRate(won, won + lost),
       revenueWonUsd |-> revenue,
       revenuePerProposalUsd |-> IF sent > 0 THEN Rounded(revenue, sent) ELSE NoRate,
       revenueOpportunityLostUsd |-> OpportunityLost(row)]

-----------------------------------------------------------------------------
\* The jobs whose analysis names the skill; a job counts once however often it does.
Using(row, skill) == {j \in Assessed(row) : skill \in row[j].analysis.stack}

Skill(row, skill) ==
  LET jobs == Using(row, skill)
      wins == jobs \cap With(row, "won")
      losses == jobs \cap With(row, "lost")
      paid == {j \in wins : row[j].amount # NoAmount}
      decided == Cardinality(jobs \cap (With(row, "won") \cup With(row, "lost")))
  IN  [count |-> Cardinality(jobs), decided |-> decided,
       wins |-> Cardinality(wins), losses |-> Cardinality(losses),
       winRate |-> WinRate(Cardinality(wins), decided),
       avgWonUsd |-> IF paid # {} THEN Rounded(Revenue(row, paid), Cardinality(paid)) ELSE NoRate,
       revenueWonUsd |-> Revenue(row, paid)]

\* By count, then by win rate, an undecided skill last.
RanksBefore(a, b) ==
  LET rate(s) == IF s.winRate = NoRate THEN -1 ELSE s.winRate
  IN  a.count > b.count \/ (a.count = b.count /\ rate(a) > rate(b))
==============================================================================
