--------------------------- MODULE SharedContent ----------------------------
(***************************************************************************)
(* What a team shares: private_registry_publish, private_registry_manage,  *)
(* team_workspace and share_skill.  Every answer is made of what separate  *)
(* statements saw: the write, then a probe or a read-back that explains    *)
(* its result.                                                             *)
(***************************************************************************)
EXTENDS HostedTeam

RegistryOps == {"publish", "list", "get", "install", "deprecate", "undeprecate",
                "namespace", "submissions", "approve", "reject"}

For(s, v) == [NoCall EXCEPT !.skill = s, !.version = v]
Rel(u) == <<call[u].skill, call[u].version>>

Decision(op) == IF op = "approve" THEN "approved" ELSE "rejected"

\* recordRegistryAudit with isMemberVisible: of the rows the tools write, only
\* successful reads and a refused deprecation may be read by the whole team.
MutationOps == {"publish", "deprecate", "undeprecate", "approve", "reject"}
\* mutant: every refusal is tagged for the team
IsMemberVisibleLax(op, result) == result \in {"success", "denied"}

IsMemberVisible(op, result) ==
  IF op \in MutationOps
    THEN op \in {"deprecate", "undeprecate"} /\ result = "denied"
    ELSE result = "success"
Audit(u, result) ==
  shown' = IF IsMemberVisible(call[u].op, result) /\ call[u].skill # None
             THEN shown \cup {call[u].skill} ELSE shown

\* A statement failed: the call is answered, and the failure is recorded.
Fails(u, pc, out) ==
  /\ call[u].pc = pc
  /\ Proceeds(u, Out(u, out))
  /\ Audit(u, "error")
  /\ UNCHANGED <<role, row, space, grant, sso>>

BeginRegistryCall(u) ==
  \/ \E s \in Skill, v \in Version, op \in {"publish", "get", "install", "approve", "reject"} :
       Begin(u, op, For(s, v))
  \/ \E s \in Skill, op \in {"deprecate", "undeprecate"} : Begin(u, op, For(s, None))
  \/ \E op \in {"namespace", "submissions"} : Begin(u, op, NoCall)
  \/ \E w \in {"current", "with_deprecated"} : Begin(u, "list", [NoCall EXCEPT !.wanted = w])

FirstStep(op) ==
  CASE op \in {"publish", "namespace"} -> "namespace"
    [] op = "list" -> "list"
    [] op \in {"get", "install"} -> "read"
    [] op \in {"deprecate", "undeprecate"} -> "update"
    [] op = "submissions" -> "submissions"
    [] OTHER -> "review"

\* resolveRegistryTeamId, in front of every operation.
ResolveRegistryTeam(u) ==
  /\ At(u, "resolve", RegistryOps)
  /\ \/ NoTeam(u)
     \/ Proceeds(u, Next_(u, FirstStep(call[u].op))) /\ UNCHANGED <<role, hosted>>

(***************************************************************************)
(* publish: the namespace of the team is a courtesy check (getNamespace    *)
(* never fails the call), the insert, and the read-back of the new row.    *)
(***************************************************************************)
CheckNamespace(u) ==
  /\ At(u, "namespace", {"publish"})
  /\ \/ Proceeds(u, Next_(u, "insert"))     \* it fits, or the lookup had no answer
     \/ IsMember(u) /\ call[u].skill \notin OwnSkill /\ Proceeds(u, Out(u, "namespace"))
  /\ UNCHANGED <<role, hosted>>

Inserted(u) == [row EXCEPT ![Rel(u)] = [state |-> "pending", deprecated |-> FALSE, by |-> u]]

InsertRow(u) ==
  /\ At(u, "insert", {"publish"})
  /\ IsMember(u) /\ call[u].skill \in OwnSkill /\ row[Rel(u)].state = "none"
  /\ row' = Inserted(u)
  /\ \/ Proceeds(u, [Next_(u, "readback") EXCEPT !.wrote = TRUE])
     \/ Proceeds(u, [Out(u, "failed") EXCEPT !.wrote = TRUE])    \* the reply is lost
  /\ UNCHANGED <<role, space, grant, sso, shown>>

\* mutant: a conflict with an immutable version counts as published
InsertConflictIgnored(u) ==
  /\ At(u, "insert", {"publish"})
  /\ \/ NoClient(u, "insert")
     \/ Fails(u, "insert", "failed")
     \/ /\ IsMember(u) /\ row[Rel(u)].state # "none"
        /\ AnswersWith(u, "unconfirmed")
     \/ /\ ~IsMember(u)                          \* row-level security
        /\ Proceeds(u, Next_(u, "denied")) /\ Audit(u, "error")
        /\ UNCHANGED <<role, row, space, grant, sso>>

InsertRefused(u) ==
  /\ At(u, "insert", {"publish"})
  /\ \/ NoClient(u, "insert")
     \/ Fails(u, "insert", "failed")
     \/ /\ IsMember(u) /\ row[Rel(u)].state # "none"
        /\ Fails(u, "insert", "version_immutable")
     \/ /\ ~IsMember(u)                          \* row-level security
        /\ Proceeds(u, Next_(u, "denied")) /\ Audit(u, "error")
        /\ UNCHANGED <<role, row, space, grant, sso>>

\* readBackSubmission looks among the pending submissions.
ReadBack(u) ==
  /\ At(u, "readback", {"publish"})
  /\ \/ AnswersWith(u, "unconfirmed")
     \/ /\ IsMember(u) /\ row[Rel(u)].state = "pending"
        /\ AnswersWith(u, "submitted")

\* confirmedNonMemberMessage replaces the refusal only for a sure non-member.
ExplainDenial(u) ==
  /\ At(u, "denied", {"publish"})
  /\ \/ AnswersWith(u, "denied")                 \* a member by now, or not known
     \/ ~IsMember(u) /\ AnswersWith(u, "not_member")

(***************************************************************************)
(* list and namespace: nothing found is ambiguous, and the membership      *)
(* probe decides what to say.                                              *)
(***************************************************************************)
Current(r) == row[r].state = "approved" /\ ~row[r].deprecated
Wanted(u) == {r \in Release : Current(r) \/ (/\ row[r].state = "approved"
                                            /\ call[u].wanted = "with_deprecated")}
Listed(u) == {r \in Wanted(u) : Visible(u, r)}

ListRows(u) ==
  /\ At(u, "list", {"list"})
  /\ \/ NoClient(u, "list")
     \/ Fails(u, "list", "failed")
     \/ Listed(u) # {} /\ AnswersWith(u, "found")
     \/ /\ Listed(u) = {}
        /\ Proceeds(u, Next_(u, "probe"))
        /\ UNCHANGED <<role, hosted>>

ReadNamespace(u) ==
  /\ At(u, "namespace", {"namespace"})
  /\ \/ IsMember(u) /\ AnswersWith(u, "namespace")
     \/ /\ Proceeds(u, Next_(u, "probe"))          \* no row, or any failure
        /\ UNCHANGED <<role, hosted>>

\* probeTeamMembership: member, not_member, or the probe itself failed.
Verdicts(u) == {IF IsMember(u) THEN "member" ELSE "not_member", "probe_failed"}

\* mutant: a probe that could not be made is taken for a member
OverrideOnlyNonMember(verdict, empty) == IF verdict = "not_member" THEN "not_member" ELSE empty

\* membershipOverrideError: only a confirmed member keeps the empty answer.
OverrideError(verdict, empty) ==
  CASE verdict = "not_member" -> "not_member"
    [] verdict = "probe_failed" -> "unverified"
    [] OTHER -> empty

ProbeMembership(u) ==
  /\ At(u, "probe", {"list", "namespace"})
  /\ \E verdict \in Verdicts(u) :
       AnswersWith(u, OverrideError(verdict, IF call[u].op = "list" THEN "found_none"
                                                                   ELSE "no_namespace"))

(***************************************************************************)
(* deprecate and undeprecate: the update changes the approved versions if  *)
(* the caller holds registry:deprecate, and an update of no row is         *)
(* explained by a second statement.                                        *)
(***************************************************************************)
Versions(s) == {r \in Release : r[1] = s}
Reached(u) == {r \in Versions(call[u].skill) :
                 Visible(u, r) /\ HasPermission(u, "registry:deprecate")}

UpdateDeprecated(u) ==
  /\ At(u, "update", {"deprecate", "undeprecate"})
  /\ Reached(u) # {}
  /\ row' = [r \in Release |-> IF r \in Reached(u)
                                 THEN [row[r] EXCEPT !.deprecated = call[u].op = "deprecate"]
                                 ELSE row[r]]
  /\ \E out \in {"changed", "failed"} : Proceeds(u, [Out(u, out) EXCEPT !.wrote = TRUE])
  /\ UNCHANGED <<role, space, grant, sso, shown>>

UpdateNothing(u) ==
  /\ At(u, "update", {"deprecate", "undeprecate"})
  /\ \/ NoClient(u, "update")
     \/ Fails(u, "update", "failed")
     \/ /\ Reached(u) = {}
        /\ Proceeds(u, [Next_(u, "explain")
                          EXCEPT !.could = HasPermission(u, "registry:deprecate")])
        /\ UNCHANGED <<role, hosted>>

ExplainUpdate(u) ==
  /\ At(u, "explain", {"deprecate", "undeprecate"})
  /\ \/ Fails(u, "explain", "cannot_tell")
     \/ /\ \E r \in Versions(call[u].skill) : Visible(u, r)
        /\ Proceeds(u, Out(u, "not_admin")) /\ Audit(u, "denied")
        /\ UNCHANGED <<role, row, space, grant, sso>>
     \/ /\ \A r \in Versions(call[u].skill) : ~Visible(u, r)
        /\ AnswersWith(u, "not_found")

(***************************************************************************)
(* submissions, approve and reject: the database function decides, in this *)
(* order: permission, the row, its state, its submitter.                   *)
(***************************************************************************)
ListSubmissions(u) ==
  /\ At(u, "submissions", {"submissions"})
  /\ \/ NoClient(u, "submissions")
     \/ Fails(u, "submissions", "failed")
     \/ IsMember(u) /\ AnswersWith(u, "listed")

ReviewRefusal(u) ==
  IF ~HasPermission(u, "registry:approve") THEN "not_reviewer"
  ELSE IF row[Rel(u)].state = "none" THEN "not_found"
  ELSE IF row[Rel(u)].state # "pending" THEN "terminal"
  ELSE IF row[Rel(u)].by = u THEN "own_submission"
  ELSE "none"

Review(u) ==
  /\ At(u, "review", {"approve", "reject"})
  /\ ReviewRefusal(u) = "none"
  /\ row' = [row EXCEPT ![Rel(u)].state = Decision(call[u].op)]
  /\ \E out \in {"reviewed", "no_row", "failed"} : Proceeds(u, [Out(u, out) EXCEPT !.wrote = TRUE])
  /\ UNCHANGED <<role, space, grant, sso, shown>>

ReviewRefused(u) ==
  /\ At(u, "review", {"approve", "reject"})
  /\ \/ NoClient(u, "review")
     \/ \E out \in {"failed", ReviewRefusal(u)} \ {"none"} :
          /\ Proceeds(u, Out(u, out)) /\ Audit(u, "denied")
          /\ UNCHANGED <<role, row, space, grant, sso>>

(***************************************************************************)
(* get and install of a version: the answer is the same for a row that     *)
(* does not exist and one that is not shown.  What the release function    *)
(* hands over is installed on this machine, which can fail.                *)
(***************************************************************************)
ReadRow(u) ==
  /\ At(u, "read", {"get", "install"})
  /\ \/ NoClient(u, "read")
     \/ Fails(u, "read", "failed")
     \/ call[u].op = "install" /\ Fails(u, "read", "not_entitled")
     \/ Rel(u) \notin Listed(u) /\ AnswersWith(u, "not_found")
     \/ /\ Rel(u) \in Listed(u)
        /\ IF call[u].op = "get" THEN Proceeds(u, Out(u, "found"))
                                 ELSE Proceeds(u, Next_(u, "install"))
        /\ Audit(u, "success")
        /\ UNCHANGED <<role, row, space, grant, sso>>

InstallContent(u) ==
  /\ At(u, "install", {"install"})
  /\ \E out \in {"installed", "failed"} : AnswersWith(u, out)

RegistryStep(u) ==
  \/ BeginRegistryCall(u) \/ ResolveRegistryTeam(u)
  \/ CheckNamespace(u) \/ InsertRow(u) \/ InsertRefused(u) \/ ReadBack(u) \/ ExplainDenial(u)
  \/ ListRows(u) \/ ReadNamespace(u) \/ ProbeMembership(u)
  \/ UpdateDeprecated(u) \/ UpdateNothing(u) \/ ExplainUpdate(u)
  \/ ListSubmissions(u) \/ Review(u) \/ ReviewRefused(u)
  \/ ReadRow(u) \/ InstallContent(u)

-----------------------------------------------------------------------------
(***************************************************************************)
(* team_workspace and share_skill.  A delete that removed no row is        *)
(* explained by a second statement, and a skill is shared in three: the    *)
(* settings with the sharing policy, the check that the workspace belongs  *)
(* to the team, the insert.                                                *)
(***************************************************************************)
SpaceOps == {"ws_create", "ws_list", "ws_get", "ws_delete"}
ShareOps == {"share_add", "share_remove", "share_list"}
In(w, s) == [NoCall EXCEPT !.ws = w, !.skill = s]

Exists(w) == space[w].state = "live"
\* Row-level security shows a workspace to the members of its team.
Seen(u, w) == IsMember(u) /\ Exists(w)

\* An identifier is random: only one that was handed out can be named.
Known == {w \in Space : space[w].state # "unborn"}

BeginWorkspaceCall(u) ==
  \/ \E op \in {"ws_create", "ws_list"} : Begin(u, op, NoCall)
  \/ \E w \in Known, op \in {"ws_get", "ws_delete", "share_list"} : Begin(u, op, In(w, None))
  \/ \E w \in Known, s \in Skill, op \in {"share_add", "share_remove"} : Begin(u, op, In(w, s))

FirstSpaceStep(op) ==
  CASE op = "ws_create" -> "create"
    [] op \in {"ws_list", "ws_get"} -> "read"
    [] op = "ws_delete" -> "delete"
    [] op = "share_add" -> "settings"
    [] OTHER -> "assert"

\* service.resolveTeamId, in front of every operation.
ResolveSpaceTeam(u) ==
  /\ At(u, "resolve", SpaceOps \cup ShareOps)
  /\ \/ NoTeam(u)
     \/ Proceeds(u, Next_(u, FirstSpaceStep(call[u].op))) /\ UNCHANGED <<role, hosted>>

Fail(u, pc, out) == call[u].pc = pc /\ AnswersWith(u, out)

(***************************************************************************)
(* create, list, get: one statement each.                                  *)
(***************************************************************************)
CreateWorkspace(u) ==
  /\ At(u, "create", {"ws_create"})
  /\ \/ NoClient(u, "create")
     \/ Fail(u, "create", "failed")
     \/ ~MayManageSpaces(u) /\ AnswersWith(u, "needs_manage")    \* WITH CHECK raises
     \/ /\ MayManageSpaces(u)
        /\ \E w \in {v \in Space : space[v].state = "unborn"} :
             space' = [space EXCEPT ![w].state = "live"]
        /\ \E out \in {"created", "failed"} : Proceeds(u, [Out(u, out) EXCEPT !.wrote = TRUE])
        /\ UNCHANGED <<role, row, grant, sso, shown>>

ReadWorkspaces(u) ==
  /\ At(u, "read", {"ws_list", "ws_get"})
  /\ \/ NoClient(u, "read")
     \/ Fail(u, "read", "failed")
     \/ call[u].op = "ws_list" /\ AnswersWith(u, "listed")
     \/ /\ call[u].op = "ws_get"
        /\ AnswersWith(u, IF Seen(u, call[u].ws) THEN "found" ELSE "not_found")

(***************************************************************************)
(* delete                                                                  *)
(***************************************************************************)
DeleteWorkspace(u) ==
  LET w == call[u].ws
      reached == Exists(w) /\ MayManageSpaces(u) IN
  /\ At(u, "delete", {"ws_delete"})
  /\ \/ (NoClient(u, "delete") \/ Fail(u, "delete", "failed"))
     \/ /\ reached
        /\ space' = [space EXCEPT ![w] = [@ EXCEPT !.state = "gone", !.skills = {}]]
        /\ \E out \in {"deleted", "failed"} : Proceeds(u, [Out(u, out) EXCEPT !.wrote = TRUE])
        /\ UNCHANGED <<role, row, grant, sso, shown>>
     \/ /\ ~reached
        /\ Proceeds(u, [Next_(u, "explain") EXCEPT !.could = MayManageSpaces(u)])
        /\ UNCHANGED <<role, hosted>>

\* mutant: the answer does not look whether the workspace is still there
ExplainDeleteUnseen(u) == At(u, "explain", {"ws_delete"}) /\ AnswersWith(u, "needs_manage")

ExplainDelete(u) ==
  /\ At(u, "explain", {"ws_delete"})
  /\ \/ Fail(u, "explain", "cannot_tell")
     \/ AnswersWith(u, IF Seen(u, call[u].ws) THEN "needs_manage" ELSE "not_found")

(***************************************************************************)
(* share_skill                                                             *)
(***************************************************************************)
\* checkSharingPolicy: the deny list first, then a non-empty allow list.
PolicyAllows(policy, s) ==
  s \notin policy.deny /\ (policy.allow = {} \/ s \in policy.allow)
NoPolicy == [deny |-> {}, allow |-> {}]

\* mutant: a failed query is read as "no such workspace"
FetchWorkspaceLenient(u) == {"none", IF Seen(u, call[u].ws) THEN "row" ELSE "none"}

\* fetchTeamScopedWorkspace: a failed query is an error, never "no row".
FetchWorkspace(u) ==
  {"failed", IF Seen(u, call[u].ws) THEN "row" ELSE "none"}

ReadSettings(u) ==
  /\ At(u, "settings", {"share_add"})
  /\ \/ NoClient(u, "settings")
     \/ \E fetched \in FetchWorkspace(u) :
          LET policy == IF fetched = "row" THEN space[call[u].ws].policy ELSE NoPolicy IN
          CASE fetched = "failed" -> AnswersWith(u, "failed")
            [] ~PolicyAllows(policy, call[u].skill) -> AnswersWith(u, "against_policy")
            [] OTHER ->
               /\ Proceeds(u, [Next_(u, "assert")
                                 EXCEPT !.could = PolicyAllows(space[call[u].ws].policy, call[u].skill)])
               /\ UNCHANGED <<role, hosted>>

\* assertWorkspaceInTeam
AssertWorkspace(u) ==
  /\ At(u, "assert", ShareOps)
  /\ \/ NoClient(u, "assert")
     \/ \E fetched \in FetchWorkspace(u) :
          IF fetched # "row" THEN AnswersWith(u, fetched)
          ELSE /\ Proceeds(u, Next_(u, CASE call[u].op = "share_add" -> "add"
                                         [] call[u].op = "share_remove" -> "remove"
                                         [] OTHER -> "skills"))
               /\ UNCHANGED <<role, hosted>>

AddSkill(u) ==
  /\ At(u, "add", {"share_add"})
  /\ \/ Fail(u, "add", "failed")       \* an error, a duplicate, or no longer a member
     \/ /\ Seen(u, call[u].ws) /\ call[u].skill \notin space[call[u].ws].skills
        /\ space' = [space EXCEPT ![call[u].ws].skills = @ \cup {call[u].skill}]
        /\ \E out \in {"shared", "failed"} : Proceeds(u, [Out(u, out) EXCEPT !.wrote = TRUE])
        /\ UNCHANGED <<role, row, grant, sso, shown>>

RemoveSkill(u) ==
  LET w == call[u].ws
      reached == Seen(u, w) /\ call[u].skill \in space[w].skills IN
  /\ At(u, "remove", {"share_remove"})
  /\ \/ Fail(u, "remove", "failed")
     \/ /\ reached
        /\ space' = [space EXCEPT ![w].skills = @ \ {call[u].skill}]
        /\ \E out \in {"removed", "failed"} : Proceeds(u, [Out(u, out) EXCEPT !.wrote = TRUE])
        /\ UNCHANGED <<role, row, grant, sso, shown>>
     \/ ~reached /\ Proceeds(u, Next_(u, "explain")) /\ UNCHANGED <<role, hosted>>

ExplainRemove(u) ==
  /\ At(u, "explain", {"share_remove"})
  /\ \/ Fail(u, "explain", "cannot_tell")
     \/ AnswersWith(u, IF Seen(u, call[u].ws) /\ call[u].skill \in space[call[u].ws].skills
                         THEN "still_shared" ELSE "not_found")

ListSkills(u) ==
  /\ At(u, "skills", {"share_list"})
  /\ AnswersWith(u, "listed") \/ Fail(u, "skills", "failed")

WorkspaceStep(u) ==
  \/ BeginWorkspaceCall(u) \/ ResolveSpaceTeam(u)
  \/ CreateWorkspace(u) \/ ReadWorkspaces(u) \/ DeleteWorkspace(u) \/ ExplainDelete(u)
  \/ ReadSettings(u) \/ AssertWorkspace(u) \/ AddSkill(u) \/ RemoveSkill(u) \/ ExplainRemove(u)
  \/ ListSkills(u)

\* The owner edits the sharing policy of a workspace elsewhere.
PolicyChanges ==
  /\ moves < MaxMoves
  /\ \E w \in Space, s \in Skill :
       /\ Exists(w)
       /\ \/ space' = [space EXCEPT ![w].policy.deny = {s}]
          \/ space' = [space EXCEPT ![w].policy.allow = {s}]
          \/ space' = [space EXCEPT ![w].policy = NoPolicy]
  /\ moves' = moves + 1
  /\ UNCHANGED <<role, row, grant, sso, shown, call, calls>>
=============================================================================
