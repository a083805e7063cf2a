---------------------------- MODULE MCTeamTools ----------------------------
(***************************************************************************)
(* A small team.  Which families of tools are in use is chosen first, with *)
(* a start that fits them: the registry with a version under review, the   *)
(* workspaces, SSO, the reports, and the RBAC tools on a grant table that  *)
(* may hold rows from before the gate of the meta-permissions.             *)
(***************************************************************************)
EXTENDS TeamTools

CONSTANTS ann, ben, s1, s2, v1, v2, w1, w2

mcUser == {ann, ben}
mcBatches == {<<"registry:approve", "registry:deprecate">>, <<"registry:approve", "other:other">>}

Unset == [c \in GrantableRole \X TeamPermission |-> "unset"]
UnderReview == [r \in Release |-> IF r = <<s1, v1>> THEN [NoRow EXCEPT !.state = "pending", !.by = ben]
                                                   ELSE NoRow]
Start ==
  \/ /\ tools = {"registry"} /\ grant = Unset
     /\ row \in {UnderReview, [r \in Release |-> NoRow]}
     /\ role[ann] = "owner" /\ role[ben] \in {"admin", "member", "none"}
  \/ /\ tools \in {{"workspace"}, {"sso"}} /\ grant = Unset
     /\ role[ann] = "owner" /\ role[ben] \in {"admin", "member"}
     /\ row = [r \in Release |-> NoRow]
  \/ /\ tools = {"reports"} /\ grant = Unset
     /\ role[ann] = "owner" /\ role[ben] \in {"member", "none"}
     /\ row = [r \in Release |-> NoRow]
  \/ /\ tools = {"rbac"}
     /\ \E g \in [GrantableRole -> {"unset", "allow"}] :
          grant = [c \in GrantableRole \X TeamPermission |->
                     IF c[2] = "team:manage_rbac" THEN g[c[1]] ELSE "unset"]
     /\ role[ann] \in {"owner", "admin"} /\ role[ben] = "member"
     /\ row = [r \in Release |-> NoRow]

MCInit ==
  /\ role \in [User -> Roles]
  /\ Start
  /\ space = [w \in Space |-> [state |-> IF w = w1 THEN "live" ELSE "unborn", skills |-> {},
                               policy |-> [NoPolicy EXCEPT !.deny = {s2}]]]
  /\ sso = [provider |-> FALSE, domain |-> "none", stale |-> FALSE]
  /\ shown = {}
  /\ call = [u \in User |-> NoCall]
  \* The batches of the RBAC tools are long, and reports do not disturb each other.
  /\ calls = (CASE tools = {"rbac"} -> 1 [] tools = {"reports"} -> MaxCalls - 1 [] OTHER -> 0)
  /\ moves = 0

MCSpec == MCInit /\ [][TeamNext]_toolVars
=============================================================================
