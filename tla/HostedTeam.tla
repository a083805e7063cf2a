----------------------------- MODULE HostedTeam -----------------------------
(***************************************************************************)
(* The hosted database of one team, as the private registry, workspace,    *)
(* RBAC and SSO tools use it, and the tool calls that are under way.  The  *)
(* database is not in this repository: its rows and its row-level rules    *)
(* are modelled from what the tools send, read and document, and from the  *)
(* stub services, which mirror the gates of the database functions.        *)
(*                                                                         *)
(* A call is one step per await that reaches the database, so anything can *)
(* happen between its write and the probe that explains what the write     *)
(* did.                                                                    *)
(***************************************************************************)
EXTENDS Naturals, Sequences, FiniteSets

CONSTANTS
  User,        \* the accounts that call the tools
  Skill,       \* skill identifiers
  OwnSkill,    \* those that start with the team's namespace
  Version,     \* versions of a skill
  Space,       \* workspace identifiers; an identifier is never used twice
  None,
  MaxCalls,    \* bound: tool calls in a behaviour
  MaxMoves     \* bound: changes made by others (roles, settings)

ASSUME TeamAssumption ==
  /\ OwnSkill \subseteq Skill /\ None \notin Skill \cup {"in", "out"}
  /\ MaxCalls \in Nat /\ MaxMoves \in Nat

VARIABLES
  role,    \* team_members: "none" is an account that is not in the team
  row,     \* private_registry_skills, one row for each released version
  space,   \* team_workspaces with their settings and workspace_skills
  grant,   \* team_permission_grants
  sso,     \* the identity provider and the domain of the team
  shown,   \* skills named by audit rows every member of the team can read
  call,    \* per account, the call it waits for or the answer it got
  calls,   \* calls begun
  moves    \* changes made by others

hosted == <<row, space, grant, sso, shown>>
teamVars == <<role, hosted, call, calls, moves>>

Release == Skill \X Version
Roles == {"none", "member", "admin", "owner"}
GrantableRole == {"admin", "member"}
TeamPermission == {"registry:approve", "registry:deprecate", "team:manage_rbac",
                   "team:manage_sso"}
MetaPermission == {"team:manage_rbac", "team:manage_sso"}

\* DEFAULT_ROLE_PERMISSIONS: what a role may do where no grant says otherwise.
DefaultEffect(r, p) ==
  IF r = "admin" /\ p \notin MetaPermission THEN "allow" ELSE "deny"

\* resolveEffectivePermission: an explicit grant wins over the default.
Effective(r, p) == IF grant[<<r, p>>] # "unset" THEN grant[<<r, p>>] ELSE DefaultEffect(r, p)

\* hasPermission: the owner holds everything, whatever the grants say.
HasPermission(u, p) ==
  \/ role[u] = "owner"
  \/ role[u] \in GrantableRole /\ Effective(role[u], p) = "allow"

IsMember(u) == role[u] # "none"

\* The member-read rule of the registry shows approved rows only.
Visible(u, r) == IsMember(u) /\ row[r].state = "approved"

\* workspace:manage is not one of the grantable permissions: owners and admins
\* hold it, an admin whose SSO session went stale does not.
MayManageSpaces(u) == role[u] = "owner" \/ (role[u] = "admin" /\ ~sso.stale)

Idle == {"idle", "done"}
Answered(u) == call[u].pc = "done"

\* The fields after out are history: whether the call's write took effect,
\* whether the caller was allowed the write when it ran, what the call read
\* first, and whether the caller was in the team, or out of it, all along.
NoCall == [pc |-> "idle", op |-> None, skill |-> None, version |-> None, ws |-> None,
           perms |-> <<>>, wanted |-> None, out |-> None, done |-> {}, failed |-> {},
           wrote |-> FALSE, could |-> FALSE, read |-> None, seat |-> None]

Seat(r) == IF r = "none" THEN "out" ELSE "in"

\* A tool call begins with the resolution of the team from the credential.
Begin(u, op, c) ==
  /\ call[u].pc \in Idle
  /\ calls < MaxCalls
  /\ calls' = calls + 1
  /\ call' = [call EXCEPT ![u] = [c EXCEPT !.pc = "resolve", !.op = op, !.seat = Seat(role[u])]]
  /\ UNCHANGED <<role, hosted, moves>>

At(u, pc, ops) == call[u].pc = pc /\ call[u].op \in ops

\* The call of u goes on as c, or is answered; nobody else's call changes.
Proceeds(u, c) == call' = [call EXCEPT ![u] = c] /\ UNCHANGED <<calls, moves>>
Next_(u, pc) == [call[u] EXCEPT !.pc = pc]
Out(u, out) == [call[u] EXCEPT !.pc = "done", !.out = out]
AnswersWith(u, out) == Proceeds(u, Out(u, out)) /\ UNCHANGED <<role, hosted>>

\* The credential names no team, or the database cannot be asked.
NoTeam(u) == call[u].pc = "resolve" /\ AnswersWith(u, "no_team")

\* Nobody is signed in, the token cannot be refreshed, or the client fails.
NoClient(u, pc) == call[u].pc = pc /\ AnswersWith(u, "no_client")

\* The role of v becomes r, and the calls become others: a call of an account
\* that joins or leaves meanwhile was neither in nor out all along.
SetRole(v, r, others) ==
  /\ role' = [role EXCEPT ![v] = r]
  /\ call' = [others EXCEPT ![v].seat = IF @ \in {None, Seat(r)} THEN @ ELSE "both"]

\* Changes made elsewhere: somebody joins or leaves the team, the session of
\* the SSO users goes stale or fresh.
MemberJoinsOrLeaves(v) ==
  /\ moves < MaxMoves
  /\ role[v] # "owner"
  /\ \E r \in {"none", "member"} : r # role[v] /\ SetRole(v, r, call)
  /\ moves' = moves + 1
  /\ UNCHANGED <<hosted, calls>>

SessionsGoStale ==
  /\ moves < MaxMoves
  /\ sso' = [sso EXCEPT !.stale = ~@]
  /\ moves' = moves + 1
  /\ UNCHANGED <<role, row, space, grant, shown, call, calls>>
=============================================================================
