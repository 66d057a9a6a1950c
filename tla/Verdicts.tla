------------------------------ MODULE Verdicts ------------------------------
(***************************************************************************)
(* The evaluation gate's verdicts as functions of its counts               *)
(* (evals/regression.py): one scenario's from its two arms of trials, and  *)
(* the gate's from one outcome per scenario.  Jobs models how the counts   *)
(* come about; here they are any numbers, for any number of trials and     *)
(* scenarios, and the theorems say what evidence a verdict always rests on.*)
(***************************************************************************)
EXTENDS Integers, TLAPS

Outcomes == {"gated_pass", "gated_fail", "ungated", "error"}

\* The trials of an arm: passed, failed on the task, or said nothing about
\* the rule (UNINFORMATIVE_FAILURES).
Arm(trials) ==
    {a \in [pass : Nat, fail : Nat, blank : Nat] :
        a.pass + a.fail + a.blank = trials}

\* eval_trials, gate_without_min_failures and gate_with_min_passes as Config
\* accepts them.
Configs ==
    {c \in [trials : Nat, minFailures : Nat, minPasses : Nat] :
        c.minFailures \in 1..c.trials /\ c.minPasses \in 1..c.trials}

WithArmVerdict(arm, minPasses) ==
    LET failed == arm.fail + arm.blank
    IN  IF arm.pass >= minPasses THEN "gated_pass"
        ELSE IF failed # 0 /\ arm.blank * 2 >= failed THEN "error"
        ELSE "gated_fail"

\* gate: an arm without the rule that tested nothing is an error, one that
\* did not reproduce the mistake is ungated, and arms served by different
\* models are not compared.
ScenarioVerdict(without, with, oneModel, c) ==
    IF without.blank >= c.trials THEN "error"
    ELSE IF without.fail < c.minFailures THEN "ungated"
    ELSE IF ~oneModel THEN "error"
    ELSE WithArmVerdict(with, c.minPasses)

\* One outcome per configured scenario.
Tally == [Outcomes -> Nat]
Scenarios(t) == t["gated_pass"] + t["gated_fail"] + t["ungated"] + t["error"]
Count(t, outcome) == [t EXCEPT ![outcome] = @ + 1]

PassVotes(t) ==
    LET majority == Scenarios(t) \div 2 + 1
    IN  IF majority >= 2 THEN majority ELSE 2

MajorityVerdict(t) ==
    IF t["gated_fail"] >= 2 THEN "gated_fail"
    ELSE IF t["gated_pass"] >= PassVotes(t) /\ t["gated_fail"] = 0 THEN "gated_pass"
    ELSE IF t["gated_pass"] = 0 /\ t["gated_fail"] = 0 /\ t["ungated"] # 0 THEN "ungated"
    ELSE "inconclusive"

-----------------------------------------------------------------------------
\* A scenario passes a rule only if the mistake was reproduced without it and
\* avoided with it, and no record shows different models behind the arms.
THEOREM PassHasEvidence ==
  ASSUME NEW c \in Configs, NEW without \in Arm(c.trials), NEW with \in Arm(c.trials),
         NEW oneModel \in BOOLEAN,
         ScenarioVerdict(without, with, oneModel, c) = "gated_pass"
  PROVE  oneModel /\ without.fail > 0 /\ with.pass > 0
  BY DEF Configs, Arm, ScenarioVerdict, WithArmVerdict

\* A scenario condemns a rule only if more of its trials failed on the task
\* than said nothing: an operator who was asked or a broken runner does not.
\* It rests on the configuration, which requires a reachable bar.
THEOREM FailHasEvidence ==
  ASSUME NEW c \in Configs, NEW without \in Arm(c.trials), NEW with \in Arm(c.trials),
         NEW oneModel \in BOOLEAN,
         ScenarioVerdict(without, with, oneModel, c) = "gated_fail"
  PROVE  without.fail > 0 /\ with.fail > with.blank
  BY DEF Configs, Arm, ScenarioVerdict, WithArmVerdict

\* Whatever the number of scenarios, a pass is a majority of all of them,
\* errors included, of at least two, with no failure.
THEOREM PassIsMajority ==
  ASSUME NEW t \in Tally, MajorityVerdict(t) = "gated_pass"
  PROVE  /\ 2 * t["gated_pass"] > Scenarios(t)
         /\ t["gated_pass"] >= 2 /\ t["gated_fail"] = 0
<1>1. /\ t["gated_pass"] \in Nat /\ t["gated_fail"] \in Nat
      /\ t["ungated"] \in Nat /\ t["error"] \in Nat
  BY DEF Tally, Outcomes
<1>2. t["gated_pass"] >= PassVotes(t) /\ t["gated_fail"] = 0
  BY DEF MajorityVerdict
<1>3. Scenarios(t) \in Nat
  BY <1>1 DEF Scenarios
<1>4. PassVotes(t) >= Scenarios(t) \div 2 + 1 /\ PassVotes(t) >= 2
  BY <1>3 DEF PassVotes
<1>5. 2 * (Scenarios(t) \div 2 + 1) > Scenarios(t)
  BY <1>3
<1> QED
  BY <1>1, <1>2, <1>3, <1>4, <1>5 DEF PassVotes

\* More evidence of a failure condemns and never absolves: a condemned rule
\* stays condemned, and only a further pass can turn a tally into a pass, so
\* scenarios added to save a rule can save it by passing alone.
THEOREM OnlyPassesHelp ==
  ASSUME NEW t \in Tally, NEW outcome \in Outcomes
  PROVE  /\ MajorityVerdict(t) = "gated_fail" =>
                MajorityVerdict(Count(t, outcome)) = "gated_fail"
         /\ MajorityVerdict(t) # "gated_pass" /\ outcome # "gated_pass" =>
                MajorityVerdict(Count(t, outcome)) # "gated_pass"
<1>1. /\ t["gated_pass"] \in Nat /\ t["gated_fail"] \in Nat
      /\ t["ungated"] \in Nat /\ t["error"] \in Nat
  BY DEF Tally, Outcomes
<1>2. \A o \in Outcomes :
          Count(t, outcome)[o] = IF o = outcome THEN t[o] + 1 ELSE t[o]
  BY DEF Tally, Count
<1>3. Scenarios(Count(t, outcome)) = Scenarios(t) + 1 /\ Scenarios(t) \in Nat
  BY <1>1, <1>2 DEF Scenarios, Outcomes
<1>4. PassVotes(Count(t, outcome)) >= PassVotes(t)
  BY <1>3 DEF PassVotes
<1>5. PassVotes(t) \in Nat /\ PassVotes(Count(t, outcome)) \in Nat
  BY <1>3 DEF PassVotes
<1>6. /\ t["gated_fail"] <= Count(t, outcome)["gated_fail"]
      /\ Count(t, outcome)["gated_fail"] \in Nat
  BY <1>1, <1>2 DEF Outcomes
<1>7. outcome # "gated_pass" =>
          Count(t, outcome)["gated_pass"] = t["gated_pass"]
  BY <1>2 DEF Outcomes
<1>8. MajorityVerdict(t) = "gated_fail" =>
          MajorityVerdict(Count(t, outcome)) = "gated_fail"
  BY <1>1, <1>6 DEF MajorityVerdict
<1>9. MajorityVerdict(t) # "gated_pass" /\ outcome # "gated_pass" =>
          MajorityVerdict(Count(t, outcome)) # "gated_pass"
  BY <1>1, <1>4, <1>5, <1>6, <1>7 DEF MajorityVerdict
<1> QED
  BY <1>8, <1>9

\* A gate of one scenario decides nothing, whatever that scenario returns,
\* although the configuration accepts eval_scenarios = 1 (config.py:323).
THEOREM OneScenarioDecidesNothing ==
  ASSUME NEW t \in Tally, Scenarios(t) = 1
  PROVE  MajorityVerdict(t) \notin {"gated_pass", "gated_fail"}
<1>1. /\ t["gated_pass"] \in Nat /\ t["gated_fail"] \in Nat
      /\ t["ungated"] \in Nat /\ t["error"] \in Nat
  BY DEF Tally, Outcomes
<1>2. t["gated_pass"] <= 1 /\ t["gated_fail"] <= 1
  BY <1>1 DEF Scenarios
<1>3. PassVotes(t) >= 2 /\ PassVotes(t) \in Nat
  BY DEF PassVotes
<1> QED
  BY <1>1, <1>2, <1>3 DEF MajorityVerdict
=============================================================================
