------------------------------ MODULE Workspaces ------------------------------
(***************************************************************************)
(* A workspace, who administers it and how many projects it may have       *)
(* (apps/web/src/lib/api.server.ts over db/repo.ts).                       *)
(*                                                                         *)
(* A request is a handler some person's browser called: it checks that he  *)
(* is an admin, reads what its own check needs, and writes.  Each of those *)
(* is one statement, with no transaction around them, so requests          *)
(* interleave between any two.  Names, slugs, logos, sources and boards    *)
(* are left out; a unique index that refuses a write is one of the ways a  *)
(* request fails.                                                          *)
(***************************************************************************)
EXTENDS Naturals, FiniteSets

CONSTANTS
    User,
    Request,        \* the requests in progress at once
    Project,        \* the projects ever created
    Ceiling         \* entitlementsFor(plan).projects of the free plan

\* What the bounds below need, which the theorems about them name.
Sized ==
    /\ IsFiniteSet(Request) /\ Request # {}
    /\ IsFiniteSet(Project) /\ Ceiling \in Nat

VARIABLES
    workspace,      \* "none", "there", "deleted"
    members,        \* workspace_members: the role of each user, or "none"
    limited,        \* the plan has a ceiling
    projects,       \* the projects of the workspace
    request,
    unlimited,      \* history: the plan had none at some time
    stale           \* history: requests whose check something has overtaken

workspacesVars == <<workspace, members, limited, projects, request, unlimited, stale>>

Role == {"read", "admin"}
Ops == {"invite", "role", "kick", "addProject", "removeProject", "removeWorkspace"}

\* at is the statement that comes next.
RequestRecord ==
    [at : {"idle", "access", "check", "write"}, op : Ops \cup {"none"},
     by : User \cup {"none"}, whom : User \cup {"none"}, role : Role,
     project : Project \cup {"none"}]

Idle ==
    [at |-> "idle", op |-> "none", by |-> "none", whom |-> "none", role |-> "read",
     project |-> "none"]

Admins == {u \in User : members[u] = "admin"}

-------------------------------------------------------------------------------
WorkspacesInit ==
    /\ workspace = "none" /\ members = [u \in User |-> "none"]
    /\ limited = TRUE /\ projects = {}
    /\ request = [r \in Request |-> Idle]
    /\ unlimited = FALSE /\ stale = {}

\* addWorkspace: whoever creates it can change it.
CreateWorkspace(u) ==
    /\ workspace = "none"
    /\ workspace' = "there"
    /\ members' = [members EXCEPT ![u] = "admin"]
    /\ UNCHANGED <<limited, projects, request, unlimited, stale>>

\* The billing side changes the plan (setBilling): up, and down again.
ChangePlan ==
    /\ workspace = "there"
    /\ limited' = ~limited
    /\ unlimited' = TRUE
    /\ UNCHANGED <<workspace, members, projects, request, stale>>

-------------------------------------------------------------------------------
(* A request.                                                              *)

Done(r) == request' = [request EXCEPT ![r] = Idle] /\ stale' = stale \ {r}

Arrive(r) ==
    /\ request[r].at = "idle"
    /\ \E op \in Ops, u \in User, role \in Role :
       \E v \in IF op \in {"invite", "role", "kick"} THEN User ELSE {"none"},
          p \in IF op \in {"addProject", "removeProject"} THEN Project ELSE {"none"} :
          /\ op \notin {"invite", "role"} => role = "read"
          /\ request' = [request EXCEPT ![r] =
                [at |-> "access", op |-> op, by |-> u, whom |-> v, role |-> role,
                 project |-> p]]
    /\ UNCHANGED <<workspace, members, limited, projects, unlimited, stale>>

\* requireAdmin: the row it reads carries the plan.  Roles that only grow and
\* ceilings that are none need no check of their own.
NeedsCheck(q) ==
    \/ q.op = "kick"
    \/ q.op = "role" /\ q.role # "admin"
    \/ q.op = "addProject" /\ limited

Access(r) ==
    LET q == request[r] IN
    /\ q.at = "access"
    /\ IF workspace = "there" /\ members[q.by] = "admin"
       THEN /\ request' = [request EXCEPT ![r].at = IF NeedsCheck(q) THEN "check" ELSE "write"]
            /\ UNCHANGED stale
       ELSE Done(r)
    /\ UNCHANGED <<workspace, members, limited, projects, unlimited>>

\* isLastAdmin, and the count against the ceiling.
IsLastAdmin(u) == Admins = {u}

AtCeiling == Cardinality(projects) >= Ceiling

Refused(q) ==
    \/ q.op \in {"role", "kick"} /\ IsLastAdmin(q.whom)
    \/ q.op = "addProject" /\ AtCeiling

Check(r) ==
    /\ request[r].at = "check"
    /\ IF Refused(request[r]) THEN Done(r)
       ELSE /\ request' = [request EXCEPT ![r].at = "write"]
            /\ stale' = stale \ {r}
    /\ UNCHANGED <<workspace, members, limited, projects, unlimited>>

\* A write to members: every other request past its check is overtaken.
Overtakes(r) ==
    /\ request' = [request EXCEPT ![r] = Idle]
    /\ stale' = (stale \cup {q \in Request : request[q].at = "write"}) \ {r}

Writes(r, op) == request[r].at = "write" /\ request[r].op = op

\* The insert of addMemberByLogin, which sets the role of a member there is.
Invite(r) ==
    /\ Writes(r, "invite") /\ workspace = "there"
    /\ members' = [members EXCEPT ![request[r].whom] = request[r].role]
    /\ Overtakes(r)
    /\ UNCHANGED <<workspace, limited, projects, unlimited>>

\* An update moves the row there is, or nothing.
SetRole(r) ==
    /\ Writes(r, "role")
    /\ members' = [members EXCEPT ![request[r].whom] =
                      IF @ = "none" THEN @ ELSE request[r].role]
    /\ Overtakes(r)
    /\ UNCHANGED <<workspace, limited, projects, unlimited>>

Kick(r) ==
    /\ Writes(r, "kick")
    /\ members' = [members EXCEPT ![request[r].whom] = "none"]
    /\ Overtakes(r)
    /\ UNCHANGED <<workspace, limited, projects, unlimited>>

AddProject(r) ==
    /\ Writes(r, "addProject") /\ workspace = "there"
    /\ request[r].project \notin projects
    /\ projects' = projects \cup {request[r].project}
    /\ Done(r)
    /\ UNCHANGED <<workspace, members, limited, unlimited>>

RemoveProject(r) ==
    /\ Writes(r, "removeProject")
    /\ projects' = projects \ {request[r].project}
    /\ Done(r)
    /\ UNCHANGED <<workspace, members, limited, unlimited>>

\* Members and projects go with the row.
RemoveWorkspace(r) ==
    /\ Writes(r, "removeWorkspace")
    /\ workspace' = "deleted"
    /\ members' = [u \in User |-> "none"]
    /\ projects' = {}
    /\ Overtakes(r)
    /\ UNCHANGED <<limited, unlimited>>

\* A statement is refused (the workspace it points at is gone, an index, the
\* connection), or the server stops.
Fails(r) ==
    /\ request[r].at # "idle"
    /\ Done(r)
    /\ UNCHANGED <<workspace, members, limited, projects, unlimited>>

-------------------------------------------------------------------------------
WorkspacesNext ==
    \/ \E u \in User : CreateWorkspace(u)
    \/ ChangePlan
    \/ \E r \in Request :
          \/ Arrive(r) \/ Access(r) \/ Check(r)
          \/ Invite(r) \/ SetRole(r) \/ Kick(r)
          \/ AddProject(r) \/ RemoveProject(r) \/ RemoveWorkspace(r)
          \/ Fails(r)

WorkspacesSpec == WorkspacesInit /\ [][WorkspacesNext]_workspacesVars

-------------------------------------------------------------------------------
WorkspacesTypeOK ==
    /\ workspace \in {"none", "there", "deleted"} /\ members \in [User -> Role \cup {"none"}]
    /\ limited \in BOOLEAN /\ projects \subseteq Project
    /\ request \in [Request -> RequestRecord]
    /\ unlimited \in BOOLEAN /\ stale \subseteq Request

\* A workspace that has an admin keeps one: whatever the requests in progress
\* are, the last admin is taken by an invitation that names him a reader, or
\* by a demotion or removal whose isLastAdmin another write has overtaken, and
\* by nothing else.
TakesLastAdmin(r) ==
    /\ request[r].at = "write" /\ request'[r].at = "idle"
    /\ request[r].op \in (IF r \in stale THEN {"invite", "role", "kick"} ELSE {"invite"})

LosesAdmin == workspace' = "there" /\ Admins # {} /\ Admins' = {}

AdminRemains == [][LosesAdmin => \E r \in Request : TakesLastAdmin(r)]_workspacesVars

\* What addProject's comment promises (api.server.ts:1876): two tabs do not both
\* pass the check on a stale number, so a workspace that always had a ceiling
\* never has more projects than it.
WithinCeiling == unlimited \/ Cardinality(projects) <= Ceiling

\* What the code keeps instead.  The count and the insert are two statements, so
\* requests in progress together may each pass on the same count: the excess is
\* their number, less the one that was entitled, and never grows beyond it.
CeilingHolds ==
    unlimited \/ Cardinality(projects) <= Ceiling + Cardinality(Request) - 1

Guarded == WorkspacesTypeOK /\ CeilingHolds

===============================================================================
