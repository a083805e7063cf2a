----------------------------- MODULE RbacTools -----------------------------
(***************************************************************************)
(* The tools of a team's administration: roles and grants, single sign-on. *)
(*                                                                         *)
(* rbac_manage, rbac_assign_role and rbac_create_policy.  Each permission  *)
(* of a policy is a database call of its own: roles and grants can change  *)
(* between two of them.  The gates are those of the database functions, in *)
(* the order the stub service mirrors.                                     *)
(***************************************************************************)
EXTENDS HostedTeam

WriteOps == {"set_permission", "reset_permission", "create_policy", "delete_policy"}
RoleOps == {"assign", "revoke"}
RbacReadOps == {"list_roles", "list_members"}

\* A write names a role in ws, an effect in wanted and the permissions in perms.
Policy(r, e, ps) == [NoCall EXCEPT !.ws = r, !.wanted = e, !.perms = ps]

\* resources times actions, in order; a name that is no permission stands for
\* any expansion that is not one of the four.
BeginRbacCall(u, Batches) ==
  \/ \E r \in GrantableRole, p \in TeamPermission, e \in {"allow", "deny"} :
       Begin(u, "set_permission", Policy(r, e, <<p>>))
  \/ \E r \in GrantableRole, p \in TeamPermission : Begin(u, "reset_permission", Policy(r, None, <<p>>))
  \/ \E r \in GrantableRole, ps \in Batches, e \in {"allow", "deny"} :
       Begin(u, "create_policy", Policy(r, e, ps))
  \/ \E r \in GrantableRole, ps \in Batches : Begin(u, "delete_policy", Policy(r, None, ps))
  \/ \E v \in User, r \in GrantableRole : Begin(u, "assign", [NoCall EXCEPT !.ws = v, !.wanted = r])
  \/ \E v \in User, r \in GrantableRole : Begin(u, "revoke", [NoCall EXCEPT !.ws = v, !.wanted = r])
  \/ \E op \in RbacReadOps : Begin(u, op, NoCall)

Permissions(ps) == {ps[i] : i \in DOMAIN ps}

\* resolveTeamId, then the checks of the input that refuse a whole batch
\* before any of it is written.
ResolveRbacTeam(u) ==
  /\ At(u, "resolve", WriteOps \cup RoleOps \cup RbacReadOps)
  /\ \/ NoTeam(u)
     \/ /\ ~(Permissions(call[u].perms) \subseteq TeamPermission)
        /\ AnswersWith(u, "unsupported")
     \/ call[u].op = "revoke" /\ call[u].wanted = "member" /\ AnswersWith(u, "not_revocable")
     \/ /\ Permissions(call[u].perms) \subseteq TeamPermission
        /\ ~(call[u].op = "revoke" /\ call[u].wanted = "member")
        /\ Proceeds(u, Next_(u, "rpc"))
        /\ UNCHANGED <<role, hosted>>

\* mutant: clearing a deny is not looked at
WouldWidenByAllow(r, p, e) == e = "allow"

\* wouldWiden: the call ends in an allow state for this role and permission.
WouldWiden(r, p, e) == e = "allow" \/ (e = "reset" /\ DefaultEffect(r, p) = "allow")

\* requirePermission and requireGrantWriteAuthority
WriteRefusal(u, r, p, e) ==
  \/ ~HasPermission(u, "team:manage_rbac")
  \/ p \in MetaPermission /\ role[u] # "owner"
  \/ p \in MetaPermission /\ e = "allow"
  \/ WouldWiden(r, p, e) /\ role[u] \notin {"owner", "admin"}

Effect(u) == IF call[u].op \in {"set_permission", "create_policy"} THEN call[u].wanted ELSE "reset"
Written(e) == IF e = "reset" THEN "unset" ELSE e

\* One permission of the batch: the outcome is collected and the loop goes on;
\* a single write has a batch of one.
Collect(u, ok) ==
  LET c == call[u]
      p == Head(c.perms)
      rest == [c EXCEPT !.perms = Tail(@),
                        !.done = IF ok THEN @ \cup {p} ELSE @,
                        !.failed = IF ok THEN @ ELSE @ \cup {p}] IN
  IF Len(c.perms) > 1 THEN rest
  ELSE [rest EXCEPT !.pc = "done",
                    !.out = IF rest.failed = {} THEN "applied"
                            ELSE IF rest.done = {} THEN "refused" ELSE "partial"]

WritePermission(u) ==
  LET r == call[u].ws
      p == Head(call[u].perms)
      e == Effect(u) IN
  /\ At(u, "rpc", WriteOps)
  /\ \/ Proceeds(u, Collect(u, FALSE)) /\ UNCHANGED grant       \* no client, an error
     \/ /\ WriteRefusal(u, r, p, e)
        /\ Proceeds(u, Collect(u, FALSE)) /\ UNCHANGED grant
     \/ /\ ~WriteRefusal(u, r, p, e)
        /\ grant' = [grant EXCEPT ![<<r, p>>] = Written(e)]
        /\ \/ Proceeds(u, Collect(u, TRUE))
           \/ Proceeds(u, Collect(u, FALSE))                      \* the reply is lost
  /\ UNCHANGED <<role, row, space, sso, shown>>

(***************************************************************************)
(* assign and revoke change one member's role.                             *)
(***************************************************************************)
NewRole(u) == IF call[u].op = "assign" THEN call[u].wanted ELSE "member"

RoleRefusal(u, v, r) ==
  \/ role[v] = "none"
  \/ ~HasPermission(u, "team:manage_rbac")
  \/ role[v] = "owner"
  \/ role[v] = "admin" /\ role[u] # "owner"
  \/ r = "admin" /\ role[u] \notin {"owner", "admin"}

SetMemberRole(u) ==
  LET v == call[u].ws
      answered(out) == [call EXCEPT ![u] = Out(u, out)] IN
  /\ At(u, "rpc", RoleOps)
  /\ \/ /\ \/ RoleRefusal(u, v, NewRole(u)) /\ call' = answered("refused")
           \/ call' = answered("failed")
        /\ UNCHANGED role
     \/ /\ ~RoleRefusal(u, v, NewRole(u))
        /\ \E out \in {"assigned", "failed"} : SetRole(v, NewRole(u), answered(out))
  /\ UNCHANGED <<hosted, calls, moves>>

\* list_roles and get_role need team:manage_rbac, the roster only membership.
ReadRbac(u) ==
  /\ At(u, "rpc", RbacReadOps)
  /\ \/ AnswersWith(u, "failed")
     \/ /\ call[u].op = "list_roles"
        /\ AnswersWith(u, IF HasPermission(u, "team:manage_rbac") THEN "listed" ELSE "refused")
     \/ /\ call[u].op = "list_members"
        /\ AnswersWith(u, IF IsMember(u) THEN "listed" ELSE "refused")

RbacStep(u, Batches) ==
  \/ BeginRbacCall(u, Batches) \/ ResolveRbacTeam(u)
  \/ WritePermission(u) \/ SetMemberRole(u) \/ ReadRbac(u)
-----------------------------------------------------------------------------
(***************************************************************************)
(* configure_sso and sso_settings: one request to the team-sso-manage      *)
(* function for each call.  The function is external; what a status code   *)
(* becomes is in sso-tools.live.ts.                                        *)
(***************************************************************************)

SsoOps == {"sso_set", "sso_test", "sso_remove", "sso_get", "claim_domain", "verify_domain"}

\* There is no team to resolve: the function finds it from the account.
BeginSsoCall(u) == \E op \in SsoOps : Begin(u, op, NoCall)
SendSsoRequest(u) ==
  /\ At(u, "resolve", SsoOps)
  /\ \/ NoClient(u, "resolve")
     \/ Proceeds(u, Next_(u, "request")) /\ UNCHANGED <<role, hosted>>

\* What the function answers: the status with the error it names.
SsoResponse(u) ==
  IF ~HasPermission(u, "team:manage_sso") THEN "403"
  ELSE CASE call[u].op = "sso_set" -> IF sso.domain = "verified" THEN "200" ELSE "409_not_verified"
         [] call[u].op \in {"sso_test", "sso_remove"} -> IF sso.provider THEN "200" ELSE "404"
         [] call[u].op = "verify_domain" ->
              IF sso.domain = "none" THEN "404_not_claimed" ELSE "200"
         [] OTHER -> "200"

\* throwMappedError: each failure has an answer of its own.
Mapped(response) ==
  CASE response = "401" -> "sign_in_again"
    [] response = "403" -> "permission_denied"
    [] response = "400" -> "invalid"
    [] response = "409_not_verified" -> "domain_not_verified"
    [] response = "409_other_team" -> "domain_taken"
    [] response = "409_check_failed" -> "verification_failed"
    [] response = "404_not_claimed" -> "domain_not_claimed"
    [] OTHER -> "unavailable"

\* Answers that do not depend on the state of the team.
Disturbed(op) ==
  {"401", "400", "500"} \cup (IF op = "claim_domain" THEN {"409_other_team"} ELSE {})
                        \cup (IF op = "verify_domain" THEN {"409_check_failed"} ELSE {})

\* fetchSsoManage with the handling each method gives the response; a body that
\* cannot be read is an outage, except for remove, where 200 is enough.
Success(op) ==
  CASE op = "sso_remove" -> {"removed"}
    [] OTHER -> {"ok", "unavailable"}

SsoEffect(op) ==
  CASE op = "sso_set" -> [sso EXCEPT !.provider = TRUE]
    [] op = "sso_remove" -> [sso EXCEPT !.provider = FALSE]
    [] op = "claim_domain" -> IF sso.domain = "none" THEN [sso EXCEPT !.domain = "claimed"] ELSE sso
    [] op = "verify_domain" -> [sso EXCEPT !.domain = "verified"]
    [] OTHER -> sso

SsoRequest(u) ==
  LET op == call[u].op
      response == SsoResponse(u) IN
  /\ At(u, "request", SsoOps)
  /\ \/ /\ \E r \in Disturbed(op) \cup {"lost"} : Proceeds(u, Out(u, Mapped(r)))
        /\ UNCHANGED sso
     \/ /\ response = "404"          \* test, remove: nothing is configured
        /\ Proceeds(u, Out(u, "not_configured")) /\ UNCHANGED sso
     \/ /\ response \notin {"200", "404"}
        /\ Proceeds(u, Out(u, Mapped(response))) /\ UNCHANGED sso
     \/ /\ response = "200"
        /\ sso' = SsoEffect(op)
        /\ \E out \in Success(op) \cup {"unavailable"} :
             Proceeds(u, [Out(u, out) EXCEPT !.wrote = TRUE])
  /\ UNCHANGED <<role, row, space, grant, shown>>

SsoStep(u) == BeginSsoCall(u) \/ SendSsoRequest(u) \/ SsoRequest(u)
=============================================================================
