--------------------------- MODULE MCRequestGates ---------------------------
(***************************************************************************)
(* A free tool, the metered one and a licensed one, and quotas of one call *)
(* and two calls.                                                          *)
(***************************************************************************)
EXTENDS RequestGates, TLC

CONSTANTS search, skill_suggest, share_skill,
          version_tracking, team_workspaces

MCFeatureTier == version_tracking :> "individual" @@ team_workspaces :> "team"

\* A key issued with every flag of its tier, but for the team tier's own.
MCKeyFeatures ==
  [t \in Tiers |-> IF t = "community" THEN {} ELSE {version_tracking}]

MCGate == search :> "none" @@ skill_suggest :> "quota"
          @@ share_skill :> team_workspaces

MCQuota ==
  [t \in Tiers |-> CASE t = "enterprise" -> Unlimited [] t = "team" -> 2 [] OTHER -> 1]

MCUnlimited == -1

Symmetry == Permutations(Calls)
=============================================================================
