-------------------------- MODULE MCSecurityAudit --------------------------
(***************************************************************************)
(* One skill with a harmless and a hostile content, two findings and two   *)
(* versions of the scanner, of which the newer one finds more in both and  *)
(* is run with a laxer threshold; the hostile content fails by either bar. *)
(***************************************************************************)
EXTENDS SecurityAudit, TLC

CONSTANTS benign, hostile, phrase, payload, v1, v2, strict, lax

MCKeys == Contents \X Findings \X Rulesets
MCRulesetOf == [k \in MCKeys |-> k[3]]

MCReport ==
  [rc \in Rulesets \X Contents |->
     CASE rc = <<v1, benign>> -> {}
       [] rc \in {<<v1, hostile>>, <<v2, benign>>} -> {payload}
       [] rc = <<v2, hostile>> -> {phrase, payload}]

Bar(r, t) == [ruleset |-> r, threshold |-> t]
MCBars == {Bar(v1, strict), Bar(v2, lax)}
MCFailing == {<<Bar(v1, strict), hostile>>, <<Bar(v2, lax), hostile>>}

Symmetry == Permutations(Procs) \cup Permutations(Audits)
=============================================================================
