----------------------------- MODULE TeamTools -----------------------------
(***************************************************************************)
(* The hosted tools of one team together: every account may have one call  *)
(* of any tool under way, and others change roles, sessions and policies.  *)
(*                                                                         *)
(* First the four analytics tools of a team: team_analytics_dashboard,     *)
(* team_usage_report, analytics_dashboard and usage_report.  Each asks the *)
(* hosted database twice, for the usage and for how many seats report it,  *)
(* and the caller may join or leave between the two.  The database answers *)
(* a member with one row and anybody else with none.                       *)
(***************************************************************************)
EXTENDS SharedContent, RbacTools

ReportOps == {"team_analytics_dashboard", "team_usage_report", "analytics_dashboard", "usage_report"}

Counts == {"reporting", "total", "opted_out", "undecided"}
NoRead == [rows |-> 0, current |-> 0, previous |-> 0, level |-> "none", counts |-> {}, sections |-> {},
           shown |-> {}, session |-> "none"]

\* What may be said at each level; a row may lack counts its level promises.
Disclosed == [full |-> Counts, aggregate |-> {"reporting", "total"}, qualitative |-> {}]
CoverageRow == {[level |-> "full", counts |-> Counts], [level |-> "full", counts |-> {"reporting", "total"}],
                [level |-> "full", counts |-> {"total", "opted_out", "undecided"}],
                [level |-> "aggregate", counts |-> {"reporting", "total"}],
                [level |-> "aggregate", counts |-> {}], [level |-> "qualitative", counts |-> Counts]}

\* Counters of this process; the reason of the last rejection stays.
EmitStats == {[rejected |-> 0, failed |-> 0, reason |-> "none"], [rejected |-> 0, failed |-> 1, reason |-> "none"],
              [rejected |-> 1, failed |-> 0, reason |-> "ambiguous_team"],
              [rejected |-> 1, failed |-> 1, reason |-> "consent_denied"],
              [rejected |-> 1, failed |-> 0, reason |-> "rate_limited"]}

BeginReport(u) == \E op \in ReportOps : Begin(u, op, [NoCall EXCEPT !.read = NoRead])

\* A session says who asks, a license or API key which team; both are needed.
resolveCloudAnalytics(u) ==
  /\ At(u, "resolve", ReportOps)
  /\ \/ AnswersWith(u, "not_signed_in")
     \/ AnswersWith(u, "no_team")
     \/ Proceeds(u, Next_(u, "usage")) /\ UNCHANGED <<role, hosted>>

\* No row is usage of nothing.
getToolUsage(u) ==
  /\ At(u, "usage", ReportOps)
  /\ \/ AnswersWith(u, "no_client")
     \/ AnswersWith(u, "rpc_failed")
     \/ /\ IF IsMember(u)
           THEN \E current, previous \in 0 .. 1 :
                  Proceeds(u, [Next_(u, "coverage") EXCEPT !.read.rows = 1, !.read.current = current,
                                                           !.read.previous = previous])
           ELSE Proceeds(u, Next_(u, "coverage"))
        /\ UNCHANGED <<role, hosted>>

\* Faulty: a count is told if the level promises it.
noteByLevel(c) == Disclosed[c.level]

\* A count that is missing lowers the level of what is told.
buildCoverageNote(c) ==
  IF c.level = "full" /\ Counts \subseteq c.counts THEN Disclosed.full
  ELSE IF c.level # "qualitative" /\ Disclosed.aggregate \subseteq c.counts THEN Disclosed.aggregate
  ELSE {}

emitHealthMessage(stats) ==
  CASE stats.rejected = 0 /\ stats.failed = 0 -> "none"
    [] stats.reason \in {"ambiguous_team", "consent_required", "consent_denied"} -> stats.reason
    [] OTHER -> "undelivered"

\* What the tools tell besides the totals; the rows of accounts only in detail, never
\* in CSV.
dashboardSections == {"top_tools", "comparison", "trend"}
teamReportSections(format) == {"top_tools", "comparison"} \cup IF format = "detailed" THEN {"by_actor"} ELSE {}
usageReportSections(format) ==
  CASE format = "csv" -> {"top_tools", "comparison"}
    [] format = "detailed" -> {"top_tools", "comparison", "trend", "by_actor"}
    [] OTHER -> {"top_tools", "comparison", "trend"}
Sections(op, format) ==
  CASE op = "team_usage_report" -> teamReportSections(format)
    [] op = "usage_report" -> usageReportSections(format)
    [] OTHER -> dashboardSections

\* Failing to learn the coverage fails no report: it is told to be unavailable.
getReportingCoverage(u) ==
  /\ At(u, "coverage", ReportOps)
  /\ \E stats \in EmitStats, format \in {"summary", "detailed", "csv"} :
       LET report == [Out(u, "report") EXCEPT !.read.sections = Sections(call[u].op, format),
                                              !.read.session = emitHealthMessage(stats)] IN
       \/ Proceeds(u, report)
       \/ /\ IsMember(u)
          /\ \E c \in CoverageRow :
               Proceeds(u, [report EXCEPT !.read.level = c.level, !.read.counts = c.counts,
                                          !.read.shown = buildCoverageNote(c)])
  /\ UNCHANGED <<role, hosted>>

ReportStep(u) == BeginReport(u) \/ resolveCloudAnalytics(u) \/ getToolUsage(u) \/ getReportingCoverage(u)

\* A report tells somebody who was outside the team all along no figure of it, and it tells
\* no count that the database withheld by leaving it out or by the level it gave.
ReportsDiscloseNoMore == \A u \in User :
  Answered(u) /\ call[u].op \in ReportOps /\ call[u].out = "report" =>
    LET read == call[u].read IN
    /\ call[u].seat = "out" => read.current = 0 /\ read.previous = 0 /\ read.shown = {}
    /\ read.shown \subseteq read.counts
    /\ read.shown \subseteq IF read.level = "none" THEN {} ELSE Disclosed[read.level]

\* Not so in the code: an account outside the team is told a usage of zero, from live data.
LiveZerosMeanMember == \A u \in User :
  Answered(u) /\ call[u].op \in ReportOps /\ call[u].out = "report" => call[u].seat # "out"

-----------------------------------------------------------------------------
(* The tools together. *)

CONSTANTS
  Batches    \* the expansions of resources and actions that are tried

\* An expansion of nothing is refused before there is a call.
ASSUME BatchAssumption == \A ps \in Batches : ps \in Seq(STRING) /\ ps # <<>>

VARIABLES
  tools      \* the families of tools in use

toolVars == <<teamVars, tools>>

NoRow == [state |-> "none", deprecated |-> FALSE, by |-> None]

\* The accounts start with any role, and a grant table
\* from before the gate of the meta-permissions may hold any row.
TeamInit ==
  /\ role \in [User -> Roles]
  /\ grant \in [GrantableRole \X TeamPermission -> {"unset", "allow", "deny"}]
  /\ row = [r \in Release |-> NoRow]
  /\ space = [w \in Space |-> [state |-> "unborn", skills |-> {}, policy |-> NoPolicy]]
  /\ sso = [provider |-> FALSE, domain |-> "none", stale |-> FALSE]
  /\ shown = {}
  /\ call = [u \in User |-> NoCall]
  /\ calls = 0 /\ moves = 0

TeamNext ==
  /\ \/ \E u \in User :
          \/ "registry" \in tools /\ RegistryStep(u)
          \/ "workspace" \in tools /\ WorkspaceStep(u)
          \/ "rbac" \in tools /\ RbacStep(u, Batches)
          \/ "sso" \in tools /\ SsoStep(u)
          \/ "reports" \in tools /\ ReportStep(u)
          \/ MemberJoinsOrLeaves(u)
     \/ "workspace" \in tools /\ (SessionsGoStale \/ PolicyChanges)
  /\ UNCHANGED tools

TeamSpec == TeamInit /\ tools \in SUBSET {"registry", "workspace", "rbac", "sso", "reports"}
            /\ [][TeamNext]_toolVars

-----------------------------------------------------------------------------
\* Type correctness.
TeamTypeOK ==
  /\ role \in [User -> Roles]
  /\ row \in [Release -> [state : {"none", "pending", "approved", "rejected"},
                          deprecated : BOOLEAN, by : User \cup {None}]]
  /\ space \in [Space -> [state : {"unborn", "live", "gone"}, skills : SUBSET Skill,
                          policy : [deny : SUBSET Skill, allow : SUBSET Skill]]]
  /\ grant \in [GrantableRole \X TeamPermission -> {"unset", "allow", "deny"}]
  /\ sso \in [provider : BOOLEAN, domain : {"none", "claimed", "verified"}, stale : BOOLEAN]
  /\ shown \subseteq Skill
  /\ \A u \in User : call[u].wrote \in BOOLEAN /\ call[u].could \in BOOLEAN

AnswerTo(u, op) == Answered(u) /\ call[u].op = op

\* publish: an answer that says the version was submitted or published follows
\* this call's own insert, and an answer that says it was refused follows none.
PublishAnswerIsTrue == \A u \in User : AnswerTo(u, "publish") =>
  /\ call[u].out \in {"submitted", "unconfirmed"} => call[u].wrote /\ row[Rel(u)].by = u
  /\ call[u].out \in {"version_immutable", "denied", "not_member", "namespace"} => ~call[u].wrote

\* list: "Found 0 skill(s)" is never told to somebody who was outside the team
\* for the whole call, whatever failed.
EmptyListMeansMember == \A u \in User :
  AnswerTo(u, "list") /\ call[u].out = "found_none" => call[u].seat # "out"

\* An audit row every member can read names no skill all of whose versions are
\* still under review or rejected.
PendingStaysHidden == \A s \in shown : \E r \in Versions(s) : row[r].state = "approved"

\* deprecate and undeprecate: who is told "only team admins can" did not hold
\* the permission when the update ran.
DeniedWasNotAdmin == \A u \in User :
  Answered(u) /\ call[u].op \in {"deprecate", "undeprecate"} /\ call[u].out = "not_admin"
    => ~call[u].could

\* team_workspace delete: who is told that workspace:manage is required did not
\* hold it when the delete ran, and "not found" follows a delete of nothing.
WorkspaceDenialIsTrue == \A u \in User : AnswerTo(u, "ws_delete") =>
  /\ call[u].out = "needs_manage" => ~call[u].could
  /\ call[u].out \in {"needs_manage", "not_found", "cannot_tell"} => ~call[u].wrote

\* share_skill add: a skill shared by somebody who was in the team all along
\* was allowed by the sharing policy as it was when the call read it.
ShareRespectsPolicy == \A u \in User :
  AnswerTo(u, "share_add") /\ call[u].wrote /\ call[u].seat = "in" => call[u].could

\* What a tool answers, or leaves behind, agrees with what happened to the tables
\* while it ran: the four statements above of publish, list, delete and share, and that
\* of the reports.
AnswersAreTrue ==
  PublishAnswerIsTrue /\ EmptyListMeansMember /\ WorkspaceDenialIsTrue /\ ShareRespectsPolicy
  /\ ReportsDiscloseNoMore

\* Whatever calls are made in whatever order, no meta-permission is ever handed
\* to a role, and a role gains another permission only by a call of an owner or
\* an admin.
Gains(r, p) == Effective(r, p) = "deny" /\ Effective(r, p)' = "allow"
OnlyAuthorityWidens ==
  [][\A r \in GrantableRole, p \in TeamPermission : Gains(r, p) =>
       /\ p \notin MetaPermission
       /\ \E u \in User : call'[u] # call[u] /\ role[u] \in {"owner", "admin"}]_toolVars
=============================================================================
