------------------------------- MODULE MCJobs --------------------------------
(* Small instances of Jobs for TLC, and of the figures computed from job rows. *)
EXTENDS Jobs, Analytics, TLC

\* The flag alone, on and off; the text alone, and with the flag; a new key.
SomePatches ==
  {[flag |-> "on",   text |-> FALSE, conf |-> 0, key |-> Nobody],
   [flag |-> "off",  text |-> FALSE, conf |-> 0, key |-> Nobody],
   [flag |-> "keep", text |-> TRUE,  conf |-> 2, key |-> Nobody]}
  \cup {[flag |-> "on", text |-> TRUE, conf |-> 0, key |-> k] : k \in Keys}

Symmetry == Permutations(Requests)

-----------------------------------------------------------------------------
\* Two jobs in any state that the figures tell apart.
SomeAnalyses ==
  {NoAnalysis} \cup
  {[recommendation |-> w, value |-> v, score |-> 50, stack |-> {"ts"}] :
     w \in {"apply", "avoid"}, v \in {0, 3}}
SomeJobRows ==
  [1..2 -> [status : {"draft", "sent", "won", "lost"}, amount : {NoAmount, 0, 5},
            documents : 0..1, analysis : SomeAnalyses]]

\* bySkill's loop over the rows, one accumulator for the skill, as a reference.
OnePass(row) ==
  LET pass[i \in 0..2] ==
        IF i = 0 THEN [count |-> 0, decided |-> 0, wins |-> 0, losses |-> 0, sum |-> 0]
        ELSE LET acc == pass[i - 1]
                 is(s) == IF row[i].status = s THEN 1 ELSE 0
                 paid == row[i].status = "won" /\ row[i].amount # NoAmount
             IN  IF row[i].analysis = NoAnalysis THEN acc
                 ELSE [count |-> acc.count + 1, decided |-> acc.decided + is("won") + is("lost"),
                       wins |-> acc.wins + is("won"), losses |-> acc.losses + is("lost"),
                       sum |-> acc.sum + IF paid THEN row[i].amount ELSE 0]
  IN  pass[2]

\* The sets that Analytics counts are what the loop accumulates, and no figure is
\* larger than the one it is a part of.
ASSUME FiguresAgree ==
  \A row \in SomeJobRows :
    LET s == Summary(row)
        k == Skill(row, "ts")
        p == OnePass(row)
    IN  /\ <<k.count, k.decided, k.wins, k.losses, k.revenueWonUsd>>
              = <<p.count, p.decided, p.wins, p.losses, p.sum>>
        /\ k.wins <= s.won /\ k.losses <= s.lost /\ k.revenueWonUsd <= s.revenueWonUsd
        /\ s.won + s.lost <= s.sent /\ s.sent <= s.total
==============================================================================
