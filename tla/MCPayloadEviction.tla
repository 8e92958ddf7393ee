-------------------------- MODULE MCPayloadEviction --------------------------
(* TLC instance of QualityReview, and with it of PayloadEviction.           *)
EXTENDS QualityReview, TLC

CONSTANTS e1, e2, rd1, rd2, own, k2, a, b, mask, low, mid, high

\* The rules of docs/qa_default.yml for a bias: fail above 6, warn above 4.5.
Rules == {[where |-> {low, mid}, severity |-> "fail_if_false"],
          [where |-> {low}, severity |-> "warn_if_false"]}

File(version, default, section, policy, checks, fallback) ==
  [version |-> version, default |-> default, section |-> section, policy |-> policy,
   checks |-> checks, fallback |-> fallback]

\* The default file; then soft by a boolean, with a default for the metric.
MCPolicies == <<File("2", "soft", TRUE, "hard", Rules, NoFact),
                File("3", "true", TRUE, "absent", Rules, mid)>>

\* A file that cannot be read counts as version 1 without kinds.
ASSUME /\ Judge(File("1", "absent", FALSE, "absent", {}, NoFact), high) = "pass"
       /\ PolicyFor(File("2", "false", TRUE, "true", Rules, NoFact)) = "off"

\* At most three callers.
FewCallers ==
  Cardinality({e \in Evictor : pc[e] # "idle" \/ listed[e] # "no"})
    + Cardinality({r \in Reader : readerPc[r] # "idle"}) <= 3

Symmetry == Permutations({e1, e2}) \union Permutations({rd1, rd2})
=============================================================================
