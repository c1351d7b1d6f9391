----------------------------- MODULE RiskScoring -----------------------------
(***************************************************************************)
(* features/risk-assessment/risk-scoring.ts: from the answers of the       *)
(* questionnaire (mock/questionnaire.ts: four questions of 1 to 5 points   *)
(* for each dimension) to a risk profile.  Levels and profiles are their   *)
(* positions, lowest first.                                                *)
(***************************************************************************)
EXTENDS Integers

Dimensions == {"riskTolerance", "investmentHorizon", "capitalStability",
               "investmentExperience", "returnObjective"}
Scores == 4..20
Low == 1  MediumLow == 2  Medium == 3  MediumHigh == 4  High == 5
Conservative == 1  Stable == 2  Balanced == 3  Growth == 4  Aggressive == 5

\* dimensionLevelFromScore
Level(score) == IF score <= 7 THEN Low ELSE IF score <= 10 THEN MediumLow
                ELSE IF score <= 13 THEN Medium ELSE IF score <= 16 THEN MediumHigh ELSE High

\* The sum of all answers.
Total(a) == a["riskTolerance"] + a["investmentHorizon"] + a["capitalStability"]
            + a["investmentExperience"] + a["returnObjective"]

\* baseProfileFromScore
Base(total) == IF total <= 35 THEN Conservative ELSE IF total <= 50 THEN Stable
               ELSE IF total <= 65 THEN Balanced ELSE IF total <= 80 THEN Growth ELSE Aggressive

\* lowerProfile, higherProfile
Lower(profile) == IF profile = Conservative THEN Conservative ELSE profile - 1
Higher(profile) == IF profile = Aggressive THEN Aggressive ELSE profile + 1

Capped(a) == Level(a["riskTolerance"]) = Low \/ Level(a["capitalStability"]) = Low
Unstable(a) == Level(a["capitalStability"]) <= MediumLow
NearTop(total) == \/ Base(total) = Stable /\ total >= 48
                  \/ Base(total) = Balanced /\ total >= 63
                  \/ Base(total) = Growth /\ total >= 78
Signal(a, d) == IF Level(a[d]) >= MediumHigh THEN 1 ELSE 0
Signals(a) == Signal(a, "investmentHorizon") + Signal(a, "investmentExperience")
              + Signal(a, "returnObjective")

\* Mutant of Final: the profile is raised before it is lowered.
FinalRaisedFirst(a) ==
  LET base == Base(Total(a)) IN
    IF NearTop(Total(a)) /\ Signals(a) >= 2 THEN Higher(base)
    ELSE IF Capped(a) /\ base >= Growth THEN Balanced
    ELSE base

\* finalProfileFromAssessment of the levels and total of a
Final(a) ==
  LET base == Base(Total(a)) IN
    IF Capped(a) /\ base >= Growth THEN Balanced
    ELSE IF Level(a["riskTolerance"]) <= MediumLow /\ Unstable(a) /\ base >= Growth THEN Lower(base)
    ELSE IF NearTop(Total(a)) /\ Signals(a) >= 2 /\ ~Capped(a) /\ ~Unstable(a) THEN Higher(base)
    ELSE base

-----------------------------------------------------------------------------
(***************************************************************************)
(* Properties.  TLC tries the scores at both sides of each threshold.      *)
(***************************************************************************)

Sides == {4, 7, 8, 10, 11, 13, 14, 16, 17, 20}

\* A bolder answer never makes the profile more cautious, whatever the caps, the
\* lowering and the bonus near the top of a band do.
BolderNeverBackfires(a, b) ==
  (\A d \in Dimensions : a[d] <= b[d]) => Final(a) <= Final(b)

\* Whoever cannot bear losses, or needs the money, never gets more than balanced,
\* and nobody is put more than one profile above what the answers add up to.
NeverBeyondMeans(a) == /\ Capped(a) => Final(a) <= Balanced
                       /\ Final(a) <= Base(Total(a)) + 1

\* An assessment is within the means of whoever answers and rewards no caution with
\* risk; TLC compares answers that differ in one dimension by one or by three points.
AssessmentIsSound ==
  \A a \in [Dimensions -> Sides] :
    /\ NeverBeyondMeans(a)
    /\ \A d \in Dimensions : \A n \in {1, 3} :
         a[d] + n <= 20 => BolderNeverBackfires(a, [a EXCEPT ![d] = @ + n])
=============================================================================
