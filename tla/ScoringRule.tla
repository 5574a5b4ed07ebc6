---------------------------- MODULE ScoringRule ----------------------------
(***************************************************************************)
(* packages/shared/src/scoring.ts: the one implementation of the scoring   *)
(* rule, used by the server to score and by the dashboard to mark cleared  *)
(* bars.  Weights, cut-offs and scores are whole percentages; metrics and  *)
(* bars are whole units of the metric's column (revenue in cents).         *)
(***************************************************************************)
EXTENDS Naturals

Metrics == {"footfall", "revenue", "sizeSqft"}
Tiers == {"LARGE", "MEDIUM", "SMALL"}

(* ScoringConfigSchema, and the CHECK constraints of scoring_configs.       *)
ValidConfig(c) ==
  /\ c.bars \in [Metrics -> Nat]
  /\ c.weights \in [Metrics -> 0..100]
  /\ c.large \in 0..100 /\ c.medium \in 0..100
  /\ c.weights["footfall"] + c.weights["revenue"] + c.weights["sizeSqft"] = 100
  /\ c.medium < c.large

ClearedBars(m, c) == {k \in Metrics : m[k] >= c.bars[k]}

(* What the bars in a set earn together.                                    *)
Earned(k, cleared, c) == IF k \in cleared THEN c.weights[k] ELSE 0

Total(cleared, c) ==
  Earned("footfall", cleared, c) + Earned("revenue", cleared, c) + Earned("sizeSqft", cleared, c)

ScoreStore(m, c) == Total(ClearedBars(m, c), c)

(* Mutated form of TierFor: the cut-offs are tried from the lowest up.      *)
TierFromBelow(score, c) ==
  IF score < c.medium THEN "SMALL"
  ELSE IF score > c.medium THEN "MEDIUM" ELSE "LARGE"

TierFor(score, c) ==
  IF score >= c.large THEN "LARGE"
  ELSE IF score >= c.medium THEN "MEDIUM" ELSE "SMALL"

TierRank(tier) == CASE tier = "LARGE" -> 2 [] tier = "MEDIUM" -> 1 [] tier = "SMALL" -> 0

(* m is at least as good as n in every metric.                              *)
AtLeastAsGood(m, n) == \A k \in Metrics : m[k] >= n[k]
=============================================================================
