------------------------------- MODULE WebProofs -------------------------------
(***************************************************************************)
(* Proofs about the dashboard: its administration, for any number of       *)
(* workspaces, people, projects, replicas, inserts, months and events, and *)
(* its boards, for any of them and any edits.                              *)
(*                                                                         *)
(* Workspaces: a workspace keeps an admin but for the two ways it names,   *)
(* and concurrent requests overshoot the ceiling by no more than their     *)
(* number.                                                                 *)
(* Partitions: every row is where its month says and none is lost again;   *)
(* the locks ATTACH takes are enough, whoever else creates, drains,        *)
(* inserts or expires.                                                     *)
(* Billing: its types, that no workspace ever pays for another, that the   *)
(* customer on a row is the one that is billed, and that events in order   *)
(* leave a row as Stripe has it.                                           *)
(* Boards: the geometry of a gesture and of the place of a new card, the   *)
(* counters that guard the screen, and that an edit is neither undone nor  *)
(* refused.                                                                *)
(***************************************************************************)
EXTENDS Workspaces, Partitions, Billing, LiveBoard, FiniteSetTheorems, SequenceTheorems,
        WellFoundedInduction, TLAPS

-------------------------------------------------------------------------------
(* Workspaces.                                                             *)

\* Requests that have passed addProject's count and not written.
Passed == {r \in Request : Writes(r, "addProject")}

\* The projects there are and those on their way exceed the ceiling by at most
\* the requests that can be in progress, less one: whoever fills the last place
\* was entitled to it.
WithinReach ==
    ~unlimited =>
        /\ limited
        /\ Cardinality(projects) + Cardinality(Passed) <= Ceiling + Cardinality(Request) - 1

\* A demotion or a removal past its check, with no write in between, still
\* leaves an admin.
TakesAnAdmin(q) == q.op = "kick" \/ (q.op = "role" /\ q.role # "admin")

Spares ==
    \A r \in Request \ stale :
        request[r].at = "write" /\ TakesAnAdmin(request[r]) => Admins # {request[r].whom}

\* Nobody is past the access check of a workspace that is not there yet.
NotBefore == workspace = "none" => \A r \in Request : request[r].at \notin {"check", "write"}

\* What addProject adds is a project.
Named(q) == q.op = "addProject" => q.project \in Project

AllNamed == \A r \in Request : Named(request[r])

WorkspacesIInv == WorkspacesTypeOK /\ AllNamed /\ WithinReach /\ Spares /\ NotBefore

-------------------------------------------------------------------------------
LEMMA Finite ==
    ASSUME Sized, NEW P, P \subseteq Project, NEW R, R \subseteq Request
    PROVE  /\ IsFiniteSet(P) /\ Cardinality(P) \in Nat
           /\ IsFiniteSet(R) /\ Cardinality(R) \in Nat
           /\ Cardinality(R) <= Cardinality(Request) /\ Cardinality(Request) \in Nat
BY FS_Subset, FS_CardinalityType DEF Sized

LEMMA AtLeastOne == ASSUME Sized PROVE Cardinality(Request) >= 1
BY FS_EmptySet, FS_CardinalityType DEF Sized

LEMMA StartsWithin == ASSUME Sized PROVE WorkspacesInit => WorkspacesIInv
<1> SUFFICES ASSUME WorkspacesInit PROVE WorkspacesIInv
  OBVIOUS
<1>1. WorkspacesTypeOK
  BY DEF WorkspacesInit, WorkspacesTypeOK, RequestRecord, Idle, Role, Ops
<1>2. Passed = {}
  BY DEF WorkspacesInit, Passed, Writes, Idle
<1>3. Cardinality({}) = 0
  BY FS_EmptySet
<1>4. WithinReach
  BY <1>2, <1>3, AtLeastOne, Finite DEF WorkspacesInit, WithinReach, Sized
<1>5. AllNamed /\ Spares /\ NotBefore
  BY DEF WorkspacesInit, AllNamed, Named, Spares, NotBefore, Idle
<1>. QED  BY <1>1, <1>4, <1>5 DEF WorkspacesIInv

\* A step that adds no project and lets nobody past the count keeps within reach.
LEMMA Shrinks ==
    ASSUME Sized, WorkspacesTypeOK, WithinReach, projects' \subseteq projects, Passed' \subseteq Passed,
           limited' = limited, unlimited' = unlimited
    PROVE  WithinReach'
<1>1. Passed \subseteq Request /\ projects \subseteq Project
  BY DEF Passed, WorkspacesTypeOK
<1>2. /\ Cardinality(projects') <= Cardinality(projects)
      /\ Cardinality(Passed') <= Cardinality(Passed)
  BY <1>1, Finite, FS_Subset
<1>3. /\ Cardinality(projects) \in Nat /\ Cardinality(projects') \in Nat
      /\ Cardinality(Passed) \in Nat /\ Cardinality(Passed') \in Nat
      /\ Cardinality(Request) \in Nat
  BY <1>1, Finite
<1>. QED  BY <1>2, <1>3 DEF WithinReach, Sized

\* A request that ends, or moves to a statement that is not a write.
LEMMA EndsTyped ==
    ASSUME WorkspacesTypeOK, NEW r \in Request, request' = [request EXCEPT ![r] = Idle]
    PROVE  /\ request' \in [Request -> RequestRecord]
           /\ request'[r].at = "idle" /\ Named(request'[r])
           /\ \A q \in Request \ {r} : request'[q] = request[q]
           /\ Passed' = Passed \ {r}
<1>1. Idle \in RequestRecord /\ Idle.at = "idle" /\ Named(Idle)
  BY DEF RequestRecord, Idle, Role, Ops, Named
<1>2. /\ request' \in [Request -> RequestRecord] /\ request'[r].at = "idle" /\ Named(request'[r])
      /\ \A q \in Request \ {r} : request'[q] = request[q]
  BY <1>1 DEF WorkspacesTypeOK
<1>. QED  BY <1>2 DEF Passed, Writes

LEMMA CreateWorkspaceStep ==
    ASSUME WorkspacesIInv, NEW u \in User, CreateWorkspace(u)
    PROVE  WorkspacesIInv'
<1>1. WorkspacesTypeOK'
  BY DEF WorkspacesIInv, WorkspacesTypeOK, CreateWorkspace, Role
<1>2. WithinReach'
  BY DEF WorkspacesIInv, WithinReach, CreateWorkspace, Passed, Writes
<1>3. AllNamed' /\ Spares' /\ NotBefore'
  BY DEF WorkspacesIInv, AllNamed, NotBefore, Spares, CreateWorkspace
<1>. QED  BY <1>1, <1>2, <1>3 DEF WorkspacesIInv

LEMMA ChangePlanStep ==
    ASSUME WorkspacesIInv, ChangePlan
    PROVE  WorkspacesIInv'
BY DEF WorkspacesIInv, AllNamed, WorkspacesTypeOK, WithinReach, Spares, NotBefore, ChangePlan, Passed, Writes, Admins, TakesAnAdmin

LEMMA ArriveStep ==
    ASSUME Sized, WorkspacesIInv, NEW r \in Request, Arrive(r)
    PROVE  WorkspacesIInv'
<1>1. PICK q : /\ q \in RequestRecord /\ q.at = "access" /\ Named(q)
               /\ request' = [request EXCEPT ![r] = q]
  <2>1. PICK op \in Ops, u \in User, role \in Role :
           \E v \in IF op \in {"invite", "role", "kick"} THEN User ELSE {"none"},
              p \in IF op \in {"addProject", "removeProject"} THEN Project ELSE {"none"} :
              /\ op \notin {"invite", "role"} => role = "read"
              /\ request' = [request EXCEPT ![r] =
                    [at |-> "access", op |-> op, by |-> u, whom |-> v, role |-> role,
                     project |-> p]]
    BY Zenon DEF Arrive
  <2>2. PICK v \in User \cup {"none"},
             p \in IF op \in {"addProject", "removeProject"} THEN Project ELSE {"none"} :
              request' = [request EXCEPT ![r] =
                 [at |-> "access", op |-> op, by |-> u, whom |-> v, role |-> role,
                  project |-> p]]
    BY <2>1
  <2> DEFINE q == [at |-> "access", op |-> op, by |-> u, whom |-> v, role |-> role,
                   project |-> p]
  <2>3. q \in RequestRecord /\ q.at = "access" /\ Named(q)
    BY DEF RequestRecord, Named
  <2>. QED  BY <2>2, <2>3
<1>2. /\ request' \in [Request -> RequestRecord] /\ request'[r].at = "access" /\ Named(request'[r])
      /\ \A x \in Request \ {r} : request'[x] = request[x]
  BY <1>1 DEF WorkspacesIInv, WorkspacesTypeOK
<1>3. UNCHANGED <<workspace, members, limited, projects, unlimited, stale>>
  BY DEF Arrive
<1>4. WorkspacesTypeOK'
  BY <1>2, <1>3 DEF WorkspacesIInv, WorkspacesTypeOK
<1>5. Passed' \subseteq Passed
  BY <1>2 DEF Passed, Writes
<1>6. WithinReach'
  BY <1>3, <1>5, Shrinks DEF WorkspacesIInv
<1>7. AllNamed' /\ Spares' /\ NotBefore'
  BY <1>2, <1>3 DEF WorkspacesIInv, AllNamed, Spares, NotBefore, Admins, TakesAnAdmin
<1>. QED  BY <1>4, <1>6, <1>7 DEF WorkspacesIInv

\* A request that ends without writing to members.
LEMMA DoneStep ==
    ASSUME Sized, WorkspacesIInv, NEW r \in Request, Done(r), projects' \subseteq projects,
           UNCHANGED <<workspace, members, limited, unlimited>>
    PROVE  WorkspacesIInv'
<1>1. /\ request' \in [Request -> RequestRecord] /\ request'[r].at = "idle" /\ Named(request'[r])
      /\ \A q \in Request \ {r} : request'[q] = request[q]
      /\ Passed' \subseteq Passed
  BY EndsTyped DEF WorkspacesIInv, Done
<1>2. WorkspacesTypeOK'
  BY <1>1 DEF WorkspacesIInv, WorkspacesTypeOK, Done
<1>3. WithinReach'
  BY <1>1, Shrinks DEF WorkspacesIInv
<1>4. AllNamed' /\ Spares' /\ NotBefore'
  BY <1>1 DEF WorkspacesIInv, AllNamed, Spares, NotBefore, Admins, TakesAnAdmin, Done
<1>. QED  BY <1>2, <1>3, <1>4 DEF WorkspacesIInv

LEMMA AccessStep ==
    ASSUME Sized, WorkspacesIInv, NEW r \in Request, Access(r)
    PROVE  WorkspacesIInv'
<1> DEFINE q == request[r]
           to == IF NeedsCheck(q) THEN "check" ELSE "write"
<1>1. CASE Done(r)
  BY <1>1, DoneStep DEF Access
<1>2. CASE ~Done(r)
  <2>1. /\ workspace = "there" /\ to \in {"check", "write"}
        /\ request' = [request EXCEPT ![r].at = to]
        /\ UNCHANGED <<workspace, members, limited, projects, unlimited, stale>>
    BY <1>2 DEF Access
  <2>2. q \in RequestRecord
    BY DEF WorkspacesIInv, WorkspacesTypeOK
  <2>3. [q EXCEPT !.at = to] = [at |-> to, op |-> q.op, by |-> q.by,
              whom |-> q.whom, role |-> q.role, project |-> q.project]
    BY <2>2 DEF RequestRecord
  <2>4. /\ request' \in [Request -> RequestRecord]
        /\ request'[r].at = to /\ request'[r].op = q.op /\ request'[r].role = q.role
        /\ request'[r].project = q.project
        /\ \A x \in Request \ {r} : request'[x] = request[x]
    BY <2>1, <2>2, <2>3 DEF WorkspacesIInv, WorkspacesTypeOK, RequestRecord
  <2>5. WorkspacesTypeOK'
    BY <2>1, <2>4 DEF WorkspacesIInv, WorkspacesTypeOK
  <2>6. WithinReach'
    <3>1. CASE unlimited
      BY <2>1, <3>1 DEF WithinReach
    <3>2. CASE ~unlimited
      <4>1. limited
        BY <3>2 DEF WorkspacesIInv, WithinReach
      <4>2. Passed' \subseteq Passed
        BY <2>4, <4>1 DEF Passed, Writes, NeedsCheck
      <4>. QED  BY <2>1, <4>2, Shrinks DEF WorkspacesIInv
    <3>. QED  BY <3>1, <3>2
  <2>7. Spares'
    <3>1. request'[r].at = "write" => ~TakesAnAdmin(request'[r])
      BY <2>4 DEF NeedsCheck, TakesAnAdmin
    <3>2. Admins' = Admins
      BY <2>1 DEF Admins
    <3>. QED  BY <2>1, <2>4, <3>1, <3>2 DEF WorkspacesIInv, Spares
  <2>8. AllNamed' /\ NotBefore'
    BY <2>1, <2>2, <2>4 DEF WorkspacesIInv, AllNamed, Named, NotBefore
  <2>. QED  BY <2>5, <2>6, <2>7, <2>8 DEF WorkspacesIInv
<1>. QED  BY <1>1, <1>2

LEMMA CheckStep ==
    ASSUME Sized, WorkspacesIInv, NEW r \in Request, Check(r)
    PROVE  WorkspacesIInv'
<1> DEFINE q == request[r]
<1>1. CASE Refused(q)
  BY <1>1, DoneStep DEF Check
<1>2. CASE ~Refused(q)
  <2>1. /\ q.at = "check" /\ request' = [request EXCEPT ![r].at = "write"]
        /\ stale' = stale \ {r}
        /\ UNCHANGED <<workspace, members, limited, projects, unlimited>>
    BY <1>2 DEF Check
  <2>2. q \in RequestRecord
    BY DEF WorkspacesIInv, WorkspacesTypeOK
  <2>3. [q EXCEPT !.at = "write"] = [at |-> "write", op |-> q.op, by |-> q.by,
              whom |-> q.whom, role |-> q.role, project |-> q.project]
    BY <2>2 DEF RequestRecord
  <2>4. /\ request' \in [Request -> RequestRecord]
        /\ request'[r].at = "write" /\ request'[r].op = q.op /\ request'[r].role = q.role
        /\ request'[r].project = q.project
        /\ request'[r].whom = q.whom
        /\ \A x \in Request \ {r} : request'[x] = request[x]
    BY <2>1, <2>2, <2>3 DEF WorkspacesIInv, WorkspacesTypeOK, RequestRecord
  <2>5. WorkspacesTypeOK'
    BY <2>1, <2>4 DEF WorkspacesIInv, WorkspacesTypeOK
  <2>6. WithinReach'
    <3>1. CASE unlimited
      BY <2>1, <3>1 DEF WithinReach
    <3>2. CASE ~unlimited /\ q.op = "addProject"
      <4>1. /\ Cardinality(projects) \in Nat /\ Cardinality(Request) \in Nat
            /\ Cardinality(Passed') \in Nat /\ Cardinality(Passed') <= Cardinality(Request)
        <5>1. Passed' \subseteq Request
          BY DEF Passed
        <5>. QED  BY <5>1, Finite DEF WorkspacesIInv, WorkspacesTypeOK
      <4>2. Cardinality(projects) + 1 <= Ceiling
        BY <1>2, <3>2, <4>1 DEF Refused, AtCeiling, Sized
      <4>. QED  BY <2>1, <3>2, <4>1, <4>2 DEF WorkspacesIInv, WithinReach, Sized
    <3>3. CASE q.op # "addProject"
      <4>1. Passed' \subseteq Passed
        BY <2>4, <3>3 DEF Passed, Writes
      <4>. QED  BY <2>1, <4>1, Shrinks DEF WorkspacesIInv
    <3>. QED  BY <3>1, <3>2, <3>3
  <2>7. Spares'
    <3>1. TakesAnAdmin(request'[r]) => Admins # {q.whom}
      BY <1>2, <2>4 DEF Refused, IsLastAdmin, TakesAnAdmin
    <3>2. Admins' = Admins
      BY <2>1 DEF Admins
    <3>. QED  BY <2>1, <2>4, <3>1, <3>2 DEF WorkspacesIInv, Spares
  <2>8. AllNamed' /\ NotBefore'
    BY <2>1, <2>2, <2>4 DEF WorkspacesIInv, AllNamed, Named, NotBefore
  <2>. QED  BY <2>5, <2>6, <2>7, <2>8 DEF WorkspacesIInv
<1>. QED  BY <1>1, <1>2

\* A write to members overtakes whoever is past his check.
LEMMA OvertakesStep ==
    ASSUME Sized, WorkspacesIInv, NEW r \in Request, Overtakes(r),
           members' \in [User -> Role \cup {"none"}],
           workspace' = workspace \/ workspace' = "deleted",
           projects' \subseteq projects,
           UNCHANGED <<limited, unlimited>>
    PROVE  WorkspacesIInv'
<1>1. /\ request' \in [Request -> RequestRecord] /\ request'[r].at = "idle" /\ Named(request'[r])
      /\ \A q \in Request \ {r} : request'[q] = request[q]
      /\ Passed' \subseteq Passed
  BY EndsTyped DEF WorkspacesIInv, Overtakes
<1>2. WorkspacesTypeOK'
  BY <1>1 DEF WorkspacesIInv, WorkspacesTypeOK, Overtakes
<1>3. WithinReach'
  BY <1>1, Shrinks DEF WorkspacesIInv
<1>4. \A q \in Request \ stale' : request'[q].at # "write"
  BY <1>1 DEF Overtakes
<1>5. AllNamed' /\ Spares' /\ NotBefore'
  BY <1>1, <1>4 DEF WorkspacesIInv, AllNamed, Spares, NotBefore
<1>. QED  BY <1>2, <1>3, <1>5 DEF WorkspacesIInv

LEMMA MemberStep ==
    ASSUME Sized, WorkspacesIInv, NEW r \in Request, Invite(r) \/ SetRole(r) \/ Kick(r) \/ RemoveWorkspace(r)
    PROVE  WorkspacesIInv'
<1>1. request[r].role \in Role
  BY DEF WorkspacesIInv, WorkspacesTypeOK, RequestRecord
<1>2. members' \in [User -> Role \cup {"none"}]
  BY <1>1 DEF WorkspacesIInv, WorkspacesTypeOK, Invite, SetRole, Kick, RemoveWorkspace
<1>. QED  BY <1>2, OvertakesStep DEF Invite, SetRole, Kick, RemoveWorkspace

LEMMA AddProjectStep ==
    ASSUME Sized, WorkspacesIInv, NEW r \in Request, AddProject(r)
    PROVE  WorkspacesIInv'
<1> DEFINE p == request[r].project
<1>1. /\ request' \in [Request -> RequestRecord] /\ request'[r].at = "idle" /\ Named(request'[r])
      /\ \A q \in Request \ {r} : request'[q] = request[q]
      /\ Passed' = Passed \ {r}
  BY EndsTyped DEF WorkspacesIInv, AddProject, Done
<1>2. p \in Project
  BY DEF AddProject, Writes, WorkspacesIInv, AllNamed, Named
<1>3. WorkspacesTypeOK'
  BY <1>1, <1>2 DEF WorkspacesIInv, WorkspacesTypeOK, AddProject, Done
<1>4. WithinReach'
  <2>1. IsFiniteSet(projects) /\ IsFiniteSet(Passed)
    BY Finite DEF WorkspacesIInv, WorkspacesTypeOK, Passed
  <2>2. Cardinality(projects') = Cardinality(projects) + 1
    BY <2>1, FS_AddElement DEF AddProject
  <2>3. Cardinality(Passed') = Cardinality(Passed) - 1
    BY <1>1, <2>1, FS_RemoveElement DEF AddProject, Passed
  <2>4. /\ Cardinality(projects) \in Nat /\ Cardinality(Passed) \in Nat
        /\ Cardinality(Request) \in Nat
    BY <2>1, FS_CardinalityType DEF Sized
  <2>. QED  BY <2>2, <2>3, <2>4 DEF WorkspacesIInv, WithinReach, AddProject, Sized
<1>5. AllNamed' /\ Spares' /\ NotBefore'
  BY <1>1 DEF WorkspacesIInv, AllNamed, Spares, NotBefore, Admins, TakesAnAdmin, AddProject, Done
<1>. QED  BY <1>3, <1>4, <1>5 DEF WorkspacesIInv

LEMMA WorkspacesStutterStep == WorkspacesIInv /\ UNCHANGED workspacesVars => WorkspacesIInv'
BY DEF WorkspacesIInv, AllNamed, WorkspacesTypeOK, WithinReach, Spares, NotBefore, workspacesVars, Passed, Writes, Admins, TakesAnAdmin

-------------------------------------------------------------------------------
\* The invariant behind both results holds in every reachable state.
THEOREM WorkspacesInductive == ASSUME Sized PROVE WorkspacesSpec => []WorkspacesIInv
<1>1. WorkspacesIInv /\ [WorkspacesNext]_workspacesVars => WorkspacesIInv'
  <2> SUFFICES ASSUME WorkspacesIInv, [WorkspacesNext]_workspacesVars PROVE WorkspacesIInv'
    OBVIOUS
  <2>1. CASE \E u \in User : CreateWorkspace(u)
    BY <2>1, CreateWorkspaceStep
  <2>2. CASE ChangePlan
    BY <2>2, ChangePlanStep
  <2>3. CASE \E r \in Request : Arrive(r) \/ Access(r) \/ Check(r)
    BY <2>3, ArriveStep, AccessStep, CheckStep
  <2>4. CASE \E r \in Request : Invite(r) \/ SetRole(r) \/ Kick(r) \/ RemoveWorkspace(r)
    BY <2>4, MemberStep
  <2>5. CASE \E r \in Request : AddProject(r)
    BY <2>5, AddProjectStep
  <2>6. CASE \E r \in Request : RemoveProject(r) \/ Fails(r)
    <3>1. PICK r \in Request : RemoveProject(r) \/ Fails(r)
      BY <2>6
    <3>2. /\ Done(r) /\ projects' \subseteq projects
          /\ UNCHANGED <<workspace, members, limited, unlimited>>
      BY <3>1 DEF RemoveProject, Fails
    <3>. QED  BY <3>2, DoneStep
  <2>7. CASE UNCHANGED workspacesVars
    BY <2>7, WorkspacesStutterStep
  <2>. QED  BY <2>1, <2>2, <2>3, <2>4, <2>5, <2>6, <2>7 DEF WorkspacesNext
<1>. QED  BY <1>1, StartsWithin, PTL DEF WorkspacesSpec

\* However many tabs pass addProject's count at once, a workspace that never had
\* an unlimited plan exceeds its ceiling by less than the requests in progress,
\* and its state is well typed (api.server.ts addProject, Guarded).
THEOREM GuardedHolds == ASSUME Sized PROVE WorkspacesSpec => []Guarded
<1>1. WorkspacesIInv => Guarded
  <2> SUFFICES ASSUME WorkspacesIInv PROVE Guarded
    OBVIOUS
  <2>1. Passed \subseteq Request /\ projects \subseteq Project
    BY DEF Passed, WorkspacesIInv, WorkspacesTypeOK
  <2>2. /\ Cardinality(projects) \in Nat /\ Cardinality(Passed) \in Nat
        /\ Cardinality(Request) \in Nat
    BY <2>1, Finite
  <2>3. CeilingHolds
    BY <2>2 DEF WorkspacesIInv, WithinReach, CeilingHolds, Sized
  <2>. QED  BY <2>3 DEF WorkspacesIInv, Guarded
<1>. QED  BY <1>1, WorkspacesInductive, PTL

LEMMA KeepsAnAdmin ==
    ASSUME Sized, WorkspacesIInv, WorkspacesNext, LosesAdmin
    PROVE  \E r \in Request : TakesLastAdmin(r)
<1>1. ASSUME NEW r \in Request, Invite(r) \/ (r \in stale /\ (SetRole(r) \/ Kick(r)))
      PROVE  TakesLastAdmin(r)
  <2>1. request'[r].at = "idle"
    BY <1>1, EndsTyped DEF Invite, SetRole, Kick, Overtakes, WorkspacesIInv
  <2>. QED  BY <1>1, <2>1 DEF Invite, SetRole, Kick, Writes, TakesLastAdmin
<1>2. ASSUME NEW r \in Request \ stale, SetRole(r) \/ Kick(r)
      PROVE  FALSE
  <2> DEFINE q == request[r]
  <2>1. \A u \in User \ {q.whom} : members'[u] = members[u]
    BY <1>2 DEF SetRole, Kick, WorkspacesIInv, WorkspacesTypeOK
  <2>2. Admins \subseteq {q.whom}
    BY <2>1 DEF LosesAdmin, Admins
  <2>3. Admins = {q.whom} /\ q.whom \in User /\ members[q.whom] = "admin"
    BY <2>2 DEF LosesAdmin, Admins
  <2>4. q.at = "write" /\ ~TakesAnAdmin(q)
    BY <1>2, <2>3 DEF SetRole, Kick, Writes, WorkspacesIInv, Spares
  <2>5. SetRole(r) /\ q.role = "admin"
    <3>1. CASE Kick(r)
      BY <2>4, <3>1 DEF TakesAnAdmin, Kick, Writes
    <3>2. CASE SetRole(r)
      BY <2>4, <3>2 DEF TakesAnAdmin, SetRole, Writes
    <3>. QED  BY <1>2, <3>1, <3>2
  <2>6. members'[q.whom] = "admin"
    BY <2>3, <2>5 DEF SetRole, WorkspacesIInv, WorkspacesTypeOK
  <2>. QED  BY <2>3, <2>6 DEF LosesAdmin, Admins
<1>3. CASE \E u \in User : CreateWorkspace(u)
  BY <1>3 DEF CreateWorkspace, LosesAdmin, Admins, WorkspacesIInv, WorkspacesTypeOK
<1>4. CASE \E r \in Request : RemoveWorkspace(r)
  BY <1>4 DEF RemoveWorkspace, LosesAdmin
<1>5. CASE members' = members
  BY <1>5 DEF LosesAdmin, Admins
<1>6. CASE \E r \in Request : Invite(r) \/ SetRole(r) \/ Kick(r)
  <2>1. PICK r \in Request : Invite(r) \/ SetRole(r) \/ Kick(r)
    BY <1>6
  <2>2. r \notin stale => Invite(r)
    BY <1>2, <2>1
  <2>. QED  BY <1>1, <2>1, <2>2
<1>. QED  BY <1>3, <1>4, <1>5, <1>6
          DEF WorkspacesNext, ChangePlan, Arrive, Access, Check, AddProject, RemoveProject, Fails

\* The last admin is taken only by an invitation that names him a reader or by
\* a demotion or removal another write has overtaken (repo.ts isLastAdmin).
THEOREM AdminRemainsHolds == ASSUME Sized PROVE WorkspacesSpec => AdminRemains
<1>1. WorkspacesIInv /\ [WorkspacesNext]_workspacesVars => [LosesAdmin => \E r \in Request : TakesLastAdmin(r)]_workspacesVars
  BY KeepsAnAdmin
<1>. QED  BY <1>1, WorkspacesInductive, PTL DEF WorkspacesSpec, AdminRemains

-------------------------------------------------------------------------------
(* Partitions.                                                             *)

(* What holds of the call c of a replica, in the tables as they are.       *)

\* Where its loop is.
InRange(c) ==
    c.at # "idle" =>
        /\ c.month >= 1 /\ c.last <= LastMonth + Ahead
        /\ c.at \in {"create", "drain", "attach"} => c.month <= c.last
        /\ c.at = "commit" => c.month > c.last

\* The months it has created are behind it, but for the one it is filling.
Behind(c) ==
    /\ \A m \in c.made : m <= c.month /\ (c.at \notin {"drain", "attach"} => m < c.month)
    /\ c.at \in {"drain", "attach"} => c.month \in c.made
    /\ c.made \cap parts = {}

\* What it has moved is of those months, and of a month behind it nothing is
\* left in the default partition.
Drained(c) ==
    /\ \A e \in c.moved : MonthOf[e] \in c.made
    /\ \A e \in default : MonthOf[e] \in c.made /\ MonthOf[e] < c.month => e \in c.moved

\* It keeps inserts out of the default partition from its first attach on.
Locking(c) ==
    /\ (\E m \in c.made : m < c.month) => c.locks
    /\ c.locks => \A w \in Writer : ~(write[w].at = "inserted" /\ write[w].leaf = 0)

\* From this month on it has skipped only months that have a partition.
Reached(c) ==
    c.at # "idle" =>
        \A m \in now..(LastMonth + Ahead) : m < c.month /\ m <= c.last => m \in parts \cup c.made

CallInv(c) == InRange(c) /\ Behind(c) /\ Drained(c) /\ Locking(c) /\ Reached(c)

\* No two calls have created one month.
Apart == \A r, q \in Replica : r # q => call[r].made \cap call[q].made = {}

\* An insert past its routing writes where its month says.
WriteInv(i) ==
    /\ i.at = "idle" => i.leaf = 0
    /\ i.leaf # 0 => i.leaf = MonthOf[i.entry] /\ i.leaf \in parts
    /\ i.at = "inserted" /\ i.leaf = 0 => MonthOf[i.entry] \notin parts

PartitionsIInv ==
    /\ PartitionsTypeOK
    /\ \A r \in Replica : CallInv(call[r])
    /\ Apart
    /\ \A w \in Writer : WriteInv(write[w])
    /\ Routed
    /\ NothingLost

-------------------------------------------------------------------------------
LEMMA NoCallHolds ==
    /\ NoCall \in Call /\ NoCall.at = "idle" /\ NoCall.made = {} /\ NoCall.moved = {}
    /\ ~NoCall.locks
    /\ CallInv(NoCall)
BY DEF NoCall, Call, CallInv, InRange, Behind, Drained, Locking, Reached

LEMMA NoWriteHolds ==
    NoWrite \in Write /\ NoWrite.at = "idle" /\ NoWrite.leaf = 0 /\ WriteInv(NoWrite)
<1>1. (CHOOSE e \in Entry : TRUE) \in Entry
  BY PartitionAssumption
<1>. QED  BY <1>1 DEF NoWrite, Write, WriteInv

LEMMA Starts == PartitionsInit => PartitionsIInv
<1> SUFFICES ASSUME PartitionsInit PROVE PartitionsIInv
  OBVIOUS
<1>1. PartitionsTypeOK
  BY NoCallHolds, NoWriteHolds, PartitionAssumption DEF PartitionsInit, PartitionsTypeOK
<1>2. \A r \in Replica : CallInv(call[r])
  BY NoCallHolds DEF PartitionsInit
<1>3. Apart
  BY NoCallHolds DEF PartitionsInit, Apart
<1>4. \A w \in Writer : WriteInv(write[w])
  BY NoWriteHolds DEF PartitionsInit
<1>5. Routed /\ NothingLost
  BY DEF PartitionsInit, Routed, NothingLost
<1>. QED  BY <1>1, <1>2, <1>3, <1>4, <1>5 DEF PartitionsIInv

\* The months of the clock, and of the calls.
LEMMA Months ==
    /\ FirstMonth \in Nat /\ LastMonth \in Nat /\ Ahead \in Nat /\ FirstMonth <= LastMonth
    /\ Month = 1..(LastMonth + Ahead)
    /\ \A r \in Replica : Back[r] \in Nat /\ Back[r] < FirstMonth
    /\ \A e \in Entry : MonthOf[e] \in Month
BY PartitionAssumption DEF Month

\* A step that gives one replica another call and touches nothing else.
LEMMA CallStep ==
    ASSUME PartitionsIInv, NEW r \in Replica, NEW c \in Call, CallInv(c),
           \A q \in Replica \ {r} : c.made \cap call[q].made = {},
           call' = [call EXCEPT ![r] = c],
           UNCHANGED <<now, tables, write, answered>>
    PROVE  PartitionsIInv'
<1>1. /\ call' \in [Replica -> Call] /\ call'[r] = c
      /\ \A q \in Replica \ {r} : call'[q] = call[q]
  BY DEF PartitionsIInv, PartitionsTypeOK
<1>2. PartitionsTypeOK'
  BY <1>1 DEF PartitionsIInv, PartitionsTypeOK, tables
<1>3. ASSUME NEW q \in Replica PROVE CallInv(call[q])'
  <2>1. CallInv(call'[q])
    BY <1>1 DEF PartitionsIInv
  <2>. QED
    BY <2>1 DEF CallInv, InRange, Behind, Drained, Locking, Reached, tables
<1>4. Apart'
  BY <1>1 DEF PartitionsIInv, Apart
<1>5. \A w \in Writer : WriteInv(write[w])'
  BY DEF PartitionsIInv, WriteInv, tables
<1>6. Routed' /\ NothingLost'
  BY DEF PartitionsIInv, Routed, NothingLost, Stored, tables
<1>. QED  BY <1>2, <1>3, <1>4, <1>5, <1>6 DEF PartitionsIInv

LEMMA ForgetsStep ==
    ASSUME PartitionsIInv, NEW r \in Replica, call' = [call EXCEPT ![r] = NoCall],
           UNCHANGED <<now, tables, write, answered>>
    PROVE  PartitionsIInv'
BY NoCallHolds, CallStep

LEMMA EnsureStep ==
    ASSUME PartitionsIInv, NEW r \in Replica, Ensure(r)
    PROVE  PartitionsIInv'
<1> DEFINE c == [at |-> "look", month |-> now - Back[r], last |-> now + Ahead,
                 made |-> {}, moved |-> {}, locks |-> FALSE]
<1>1. call' = [call EXCEPT ![r] = c] /\ UNCHANGED <<now, tables, write, answered>>
  BY DEF Ensure
<1>2. now \in FirstMonth..LastMonth
  BY DEF PartitionsIInv, PartitionsTypeOK
<1>3. c \in Call
  BY <1>2, Months DEF Call
<1>4. CallInv(c)
  BY <1>2, Months DEF CallInv, InRange, Behind, Drained, Locking, Reached
<1>5. c.made = {}
  OBVIOUS
<1> HIDE DEF c
<1>. QED  BY <1>1, <1>3, <1>4, <1>5, CallStep

LEMMA LookStep ==
    ASSUME PartitionsIInv, NEW r \in Replica, Look(r)
    PROVE  PartitionsIInv'
<1> DEFINE c == call[r]
<1>0. c \in Call /\ CallInv(c) /\ c.at = "look" /\ UNCHANGED <<now, tables, write, answered>>
  BY DEF PartitionsIInv, PartitionsTypeOK, Look
<1>1. \A q \in Replica \ {r} : c.made \cap call[q].made = {}
  BY DEF PartitionsIInv, Apart
<1>2. CASE Past(c)
  <2> DEFINE d == [at |-> "commit", month |-> c.month, last |-> c.last,
                   made |-> c.made, moved |-> c.moved, locks |-> c.locks]
  <2>1. call' = [call EXCEPT ![r] = d]
    BY <1>2 DEF Look, Goes
  <2>2. d \in Call /\ d.made = c.made
    BY <1>0 DEF Call
  <2>3. CallInv(d)
    BY <1>0, <1>2, Months DEF CallInv, InRange, Behind, Drained, Locking, Reached, Past
  <2> HIDE DEF d
  <2>. QED  BY <1>0, <1>1, <2>1, <2>2, <2>3, CallStep
<1>3. CASE ~Past(c) /\ c.month \in parts
  <2> DEFINE d == [at |-> "look", month |-> c.month + 1, last |-> c.last,
                   made |-> c.made, moved |-> c.moved, locks |-> c.locks]
  <2>1. call' = [call EXCEPT ![r] = d]
    BY <1>3 DEF Look, Goes
  <2>2. d \in Call /\ d.made = c.made
    BY <1>0 DEF Call
  <2>3. InRange(d)
    BY <1>0, <1>3, Months DEF CallInv, InRange, Call
  <2>4. Behind(d) /\ Locking(d) /\ Drained(d)
    BY <1>0, Months DEF CallInv, Behind, Drained, Locking, Call
  <2>5. Reached(d)
    BY <1>0, <1>3, Months DEF CallInv, Reached, Call, PartitionsIInv, PartitionsTypeOK
  <2>6. CallInv(d)
    BY <2>3, <2>4, <2>5 DEF CallInv
  <2> HIDE DEF d
  <2>. QED  BY <1>0, <1>1, <2>1, <2>2, <2>6, CallStep
<1>4. CASE ~Past(c) /\ c.month \notin parts
  <2> DEFINE d == [at |-> "create", month |-> c.month, last |-> c.last,
                   made |-> c.made, moved |-> c.moved, locks |-> c.locks]
  <2>1. call' = [call EXCEPT ![r] = d]
    BY <1>4 DEF Look, Goes
  <2>2. d \in Call /\ d.made = c.made
    BY <1>0 DEF Call
  <2>3. CallInv(d)
    BY <1>0, <1>4, Months DEF CallInv, InRange, Behind, Drained, Locking, Reached, Past, Call
  <2> HIDE DEF d
  <2>. QED  BY <1>0, <1>1, <2>1, <2>2, <2>3, CallStep
<1>. QED  BY <1>2, <1>3, <1>4

LEMMA CreatePartitionStep ==
    ASSUME PartitionsIInv, NEW r \in Replica, CreatePartition(r)
    PROVE  PartitionsIInv'
<1> DEFINE c == call[r]
<1>0. /\ c \in Call /\ CallInv(c) /\ c.at = "create" /\ ~NameTaken(r, c.month)
      /\ UNCHANGED <<now, tables, write, answered>>
  BY DEF PartitionsIInv, PartitionsTypeOK, CreatePartition
<1>1. \A q \in Replica \ {r} : c.made \cap call[q].made = {}
  BY DEF PartitionsIInv, Apart
<1>2. CASE c.month \in parts
  BY <1>0, <1>2, ForgetsStep DEF CreatePartition, CallEnds
<1>3. CASE c.month \notin parts
  <2> DEFINE d == [at |-> "drain", month |-> c.month, last |-> c.last,
                   made |-> c.made \cup {c.month}, moved |-> c.moved, locks |-> c.locks]
  <2>1. call' = [call EXCEPT ![r] = d]
    BY <1>3 DEF CreatePartition, Goes
  <2>2. c.month \in Month
    BY <1>0, Months DEF CallInv, InRange, Call
  <2>3. d \in Call /\ \A q \in Replica \ {r} : d.made \cap call[q].made = {}
    BY <1>0, <1>1, <2>2 DEF Call, NameTaken
  <2>4. InRange(d) /\ Reached(d)
    BY <1>0 DEF CallInv, InRange, Reached
  <2>5. Behind(d) /\ Locking(d) /\ Drained(d)
    BY <1>0, <1>3, <2>2, Months DEF CallInv, Behind, Drained, Locking
  <2>6. CallInv(d)
    BY <2>4, <2>5 DEF CallInv
  <2> HIDE DEF d
  <2>. QED  BY <1>0, <2>1, <2>3, <2>6, CallStep
<1>. QED  BY <1>2, <1>3

LEMMA DrainStep ==
    ASSUME PartitionsIInv, NEW r \in Replica, Drain(r)
    PROVE  PartitionsIInv'
<1> DEFINE c == call[r]
           d == [at |-> "attach", month |-> c.month, last |-> c.last, made |-> c.made,
                 moved |-> c.moved \cup Of(c.month, default), locks |-> c.locks]
<1>0. /\ c \in Call /\ CallInv(c) /\ c.at = "drain"
      /\ UNCHANGED <<now, tables, write, answered>>
  BY DEF PartitionsIInv, PartitionsTypeOK, Drain
<1>1. \A q \in Replica \ {r} : c.made \cap call[q].made = {}
  BY DEF PartitionsIInv, Apart
<1>2. call' = [call EXCEPT ![r] = d]
  BY DEF Drain, Goes
<1>3. d \in Call /\ d.made = c.made
  BY <1>0 DEF Call, Of, PartitionsIInv, PartitionsTypeOK
<1>4. CallInv(d)
  BY <1>0 DEF CallInv, InRange, Behind, Drained, Locking, Reached, Of
<1> HIDE DEF d
<1>. QED  BY <1>0, <1>1, <1>2, <1>3, <1>4, CallStep

LEMMA AttachStep ==
    ASSUME PartitionsIInv, NEW r \in Replica, Attach(r)
    PROVE  PartitionsIInv'
<1> DEFINE c == call[r]
<1>0. /\ c \in Call /\ CallInv(c) /\ c.at = "attach" /\ ~DefaultBusy(r)
      /\ UNCHANGED <<now, tables, write, answered>>
  BY DEF PartitionsIInv, PartitionsTypeOK, Attach
<1>1. \A q \in Replica \ {r} : c.made \cap call[q].made = {}
  BY DEF PartitionsIInv, Apart
<1>2. CASE ~MayAttach(r)
  BY <1>0, <1>2, ForgetsStep DEF Attach, CallEnds
<1>3. CASE MayAttach(r)
  <2> DEFINE d == [at |-> "look", month |-> c.month + 1, last |-> c.last, made |-> c.made,
                   moved |-> c.moved, locks |-> TRUE]
  <2>1. call' = [call EXCEPT ![r] = d]
    BY <1>3 DEF Attach, Goes
  <2>2. d \in Call /\ d.made = c.made
    BY <1>0 DEF Call
  <2>3. InRange(d) /\ Behind(d)
    BY <1>0, Months DEF CallInv, InRange, Behind, Call
  <2>4. Drained(d)
    BY <1>0, <1>3, Months DEF CallInv, Behind, Drained, Call, MayAttach, Of, PartitionsIInv, PartitionsTypeOK
  <2>5. Locking(d)
    BY <1>0 DEF Locking, DefaultBusy
  <2>6. Reached(d)
    BY <1>0, Months DEF CallInv, Behind, Reached, Call, PartitionsIInv, PartitionsTypeOK
  <2>7. CallInv(d)
    BY <2>3, <2>4, <2>5, <2>6 DEF CallInv
  <2> HIDE DEF d
  <2>. QED  BY <1>0, <1>1, <2>1, <2>2, <2>7, CallStep
<1>. QED  BY <1>2, <1>3

\* The commit: what was created is attached, what was moved is in it.
LEMMA CommitStep ==
    ASSUME PartitionsIInv, NEW r \in Replica, Commit(r)
    PROVE  PartitionsIInv'
<1> DEFINE c == call[r]
<1>0. /\ c \in Call /\ CallInv(c) /\ c.at = "commit"
      /\ parts' = parts \cup c.made /\ default' = default \ c.moved
      /\ rows' = [m \in Month |-> IF m \in c.made THEN Of(m, c.moved) ELSE rows[m]]
      /\ call' = [call EXCEPT ![r] = NoCall]
      /\ UNCHANGED <<now, write, answered>>
  BY DEF PartitionsIInv, PartitionsTypeOK, Commit, CallEnds
<1>1. /\ call' \in [Replica -> Call] /\ call'[r] = NoCall
      /\ \A q \in Replica \ {r} : call'[q] = call[q]
  BY <1>0, NoCallHolds DEF PartitionsIInv, PartitionsTypeOK
<1>2. PartitionsTypeOK'
  BY <1>0, <1>1 DEF PartitionsIInv, PartitionsTypeOK, Call, Of
<1>3. \A e \in default : MonthOf[e] \in c.made => e \in c.moved
  BY <1>0 DEF CallInv, Behind, Drained
<1>4. ASSUME NEW q \in Replica PROVE CallInv(call[q])'
  <2>1. CASE q = r
    BY <1>1, <2>1, NoCallHolds DEF CallInv, InRange, Behind, Drained, Locking, Reached
  <2>2. CASE q # r
    <3>1. call'[q] = call[q] /\ CallInv(call[q]) /\ call[q].made \cap c.made = {}
      BY <1>1, <2>2 DEF PartitionsIInv, Apart
    <3>. QED
      BY <1>0, <3>1 DEF CallInv, InRange, Behind, Drained, Locking, Reached
  <2>. QED  BY <2>1, <2>2
<1>5. Apart'
  BY <1>1, NoCallHolds DEF PartitionsIInv, Apart
<1>6. ASSUME NEW w \in Writer PROVE WriteInv(write[w])'
  <2>1. c.made # {} => c.locks
    BY <1>0 DEF CallInv, Behind, Locking
  <2>2. WriteInv(write[w])
    BY DEF PartitionsIInv
  <2>. QED  BY <1>0, <2>1, <2>2 DEF CallInv, Locking, WriteInv
<1>7. Routed'
  BY <1>0, <1>3 DEF PartitionsIInv, Routed, Of
<1>8. NothingLost'
  <2> SUFFICES ASSUME NEW e \in answered, e \in Stored PROVE e \in Stored'
    BY <1>0 DEF PartitionsIInv, NothingLost
  <2>1. CASE e \in default /\ e \notin c.moved
    BY <1>0, <2>1 DEF Stored
  <2>2. CASE e \in default /\ e \in c.moved
    <3>1. MonthOf[e] \in c.made /\ e \in Entry
      BY <1>0, <2>2 DEF CallInv, Drained, PartitionsIInv, PartitionsTypeOK
    <3>2. e \in rows'[MonthOf[e]] /\ MonthOf[e] \in parts'
      BY <1>0, <2>2, <3>1, Months DEF Of
    <3>. QED  BY <3>2 DEF Stored
  <2>3. CASE \E m \in parts : e \in rows[m]
    <3>1. PICK m \in parts : e \in rows[m]
      BY <2>3
    <3>2. m \notin c.made /\ m \in Month
      BY <1>0 DEF CallInv, Behind, PartitionsIInv, PartitionsTypeOK
    <3>3. e \in rows'[m] /\ m \in parts'
      BY <1>0, <3>1, <3>2
    <3>. QED  BY <3>3 DEF Stored
  <2>. QED  BY <2>1, <2>2, <2>3 DEF Stored
<1>. QED  BY <1>2, <1>4, <1>5, <1>6, <1>7, <1>8 DEF PartitionsIInv

-------------------------------------------------------------------------------
(* The inserts.                                                            *)

\* A step that gives one writer another insert that holds no new lock, and at
\* most answers for a row that is stored.
LEMMA WriteStep ==
    ASSUME PartitionsIInv, NEW w \in Writer, NEW i \in Write, WriteInv(i),
           write' = [write EXCEPT ![w] = i],
           i.at = "inserted" /\ i.leaf = 0 => \A q \in Replica : ~call[q].locks,
           answered' \subseteq answered \cup Stored,
           UNCHANGED <<now, tables, call>>
    PROVE  PartitionsIInv'
<1>1. /\ write' \in [Writer -> Write] /\ write'[w] = i
      /\ \A v \in Writer \ {w} : write'[v] = write[v]
  BY DEF PartitionsIInv, PartitionsTypeOK
<1>2. Stored \subseteq Entry /\ Stored' = Stored
  BY DEF Stored, PartitionsIInv, PartitionsTypeOK, tables
<1>3. PartitionsTypeOK'
  BY <1>1, <1>2 DEF PartitionsIInv, PartitionsTypeOK, tables
<1>4. ASSUME NEW q \in Replica PROVE CallInv(call[q])'
  BY <1>1 DEF PartitionsIInv, CallInv, InRange, Behind, Drained, Locking, Reached, tables
<1>5. Apart'
  BY DEF PartitionsIInv, Apart
<1>6. \A v \in Writer : WriteInv(write[v])'
  BY <1>1 DEF PartitionsIInv, WriteInv, tables
<1>7. Routed'
  BY DEF PartitionsIInv, Routed, tables
<1>8. NothingLost'
  BY <1>2 DEF PartitionsIInv, NothingLost
<1>. QED  BY <1>3, <1>4, <1>5, <1>6, <1>7, <1>8 DEF PartitionsIInv

LEMMA EndsStep ==
    ASSUME PartitionsIInv, NEW w \in Writer, write' = Ended(w), answered' \subseteq answered \cup Stored,
           UNCHANGED <<now, tables, call>>
    PROVE  PartitionsIInv'
<1>1. write' = [write EXCEPT ![w] = NoWrite]
  BY DEF Ended
<1>. QED  BY <1>1, NoWriteHolds, WriteStep

LEMMA RouteStep ==
    ASSUME PartitionsIInv, NEW w \in Writer, NEW e \in Entry, Route(w, e)
    PROVE  PartitionsIInv'
<1> DEFINE i == [at |-> "routed", entry |-> e, leaf |-> Leaf(e)]
<1>1. i \in Write /\ WriteInv(i) /\ i.at = "routed"
  BY Months DEF Write, WriteInv, Leaf
<1>2. write' = [write EXCEPT ![w] = i] /\ UNCHANGED <<now, tables, call, answered>>
  BY DEF Route
<1> HIDE DEF i
<1>. QED  BY <1>1, <1>2, WriteStep

LEMMA InsertStep ==
    ASSUME PartitionsIInv, NEW w \in Writer, Insert(w)
    PROVE  PartitionsIInv'
<1> DEFINE e == write[w].entry
           leaf == write[w].leaf
<1>0. write[w] \in Write /\ WriteInv(write[w]) /\ UNCHANGED <<now, tables, call>>
  BY DEF PartitionsIInv, PartitionsTypeOK, Insert
<1>1. CASE leaf = 0 /\ MonthOf[e] \in parts
  <2>1. write' = Ended(w) /\ answered' = answered
    BY <1>1 DEF Insert
  <2>. QED  BY <1>0, <2>1, EndsStep
<1>2. CASE ~(leaf = 0 /\ MonthOf[e] \in parts) /\ e \in (IF leaf = 0 THEN default ELSE rows[leaf])
  <2>1. write' = Ended(w) /\ answered' = answered \cup {e}
    BY <1>2 DEF Insert
  <2>2. e \in Stored
    BY <1>0, <1>2 DEF Stored, WriteInv
  <2>. QED  BY <1>0, <2>1, <2>2, EndsStep
<1>3. CASE ~(leaf = 0 /\ MonthOf[e] \in parts) /\ e \notin (IF leaf = 0 THEN default ELSE rows[leaf])
  <2> DEFINE i == [at |-> "inserted", entry |-> e, leaf |-> leaf]
  <2>1. write' = [write EXCEPT ![w] = [write[w] EXCEPT !.at = "inserted"]] /\ answered' = answered
    BY <1>3 DEF Insert
  <2>2. [write[w] EXCEPT !.at = "inserted"] = i
    BY <1>0 DEF Write
  <2>3. i \in Write /\ WriteInv(i)
    BY <1>0, <1>3 DEF Write, WriteInv
  <2>4. i.leaf = 0 => \A q \in Replica : ~call[q].locks
    BY DEF Insert, DefaultLocked
  <2> HIDE DEF i
  <2>. QED  BY <1>0, <2>1, <2>2, <2>3, <2>4, WriteStep
<1>. QED  BY <1>1, <1>2, <1>3

LEMMA InsertCommitsStep ==
    ASSUME PartitionsIInv, NEW w \in Writer, InsertCommits(w)
    PROVE  PartitionsIInv'
<1> DEFINE e == write[w].entry
           leaf == write[w].leaf
<1>0. /\ write[w] \in Write /\ WriteInv(write[w]) /\ write[w].at = "inserted"
      /\ write' = [write EXCEPT ![w] = NoWrite] /\ answered' = answered \cup {e}
      /\ UNCHANGED <<now, parts, call>>
  BY DEF PartitionsIInv, PartitionsTypeOK, InsertCommits, Ended
<1>1. /\ write' \in [Writer -> Write] /\ write'[w] = NoWrite
      /\ \A v \in Writer \ {w} : write'[v] = write[v]
  BY <1>0, NoWriteHolds DEF PartitionsIInv, PartitionsTypeOK
<1>2. \A v \in Writer : WriteInv(write[v])'
  BY <1>0, <1>1, NoWriteHolds DEF PartitionsIInv, WriteInv
<1>3. e \in Entry /\ (leaf # 0 => leaf \in Month)
  BY <1>0 DEF Write
<1>4. \/ leaf = 0 /\ default' = default \cup {e} /\ rows' = rows
      \/ leaf # 0 /\ rows' = [rows EXCEPT ![leaf] = @ \cup {e}] /\ default' = default
  BY DEF InsertCommits
<1>5. PartitionsTypeOK'
  BY <1>0, <1>1, <1>3, <1>4 DEF PartitionsIInv, PartitionsTypeOK
<1>6. ASSUME NEW q \in Replica PROVE CallInv(call[q])'
  <2>1. CallInv(call[q])
    BY DEF PartitionsIInv
  <2>2. InRange(call[q])' /\ Behind(call[q])' /\ Reached(call[q])'
    BY <1>0, <2>1 DEF CallInv, InRange, Behind, Reached
  <2>3. Locking(call[q])'
    BY <1>0, <1>1, <2>1, NoWriteHolds DEF CallInv, Locking
  <2>4. Drained(call[q])'
    BY <1>0, <1>4, <2>1 DEF CallInv, Drained, Locking
  <2>. QED  BY <2>2, <2>3, <2>4 DEF CallInv
<1>7. Apart'
  BY <1>0 DEF PartitionsIInv, Apart
<1>8. Routed'
  BY <1>0, <1>3, <1>4 DEF PartitionsIInv, PartitionsTypeOK, Routed, WriteInv
<1>9. Stored \subseteq Stored' /\ e \in Stored'
  <2>1. \A m \in parts : m \in Month /\ rows[m] \subseteq rows'[m]
    BY <1>4 DEF PartitionsIInv, PartitionsTypeOK
  <2>2. e \in Stored'
    BY <1>0, <1>3, <1>4 DEF PartitionsIInv, PartitionsTypeOK, Stored, WriteInv
  <2>. QED  BY <1>0, <1>4, <2>1, <2>2 DEF Stored
<1>10. NothingLost'
  BY <1>0, <1>9 DEF PartitionsIInv, NothingLost
<1>. QED  BY <1>2, <1>5, <1>6, <1>7, <1>8, <1>10 DEF PartitionsIInv

-------------------------------------------------------------------------------
(* The clock and retention.                                                *)

LEMMA TickStep ==
    ASSUME PartitionsIInv, Tick
    PROVE  PartitionsIInv'
<1>1. now' = now + 1 /\ now' \in FirstMonth..LastMonth /\ now \in Nat
  BY Months DEF Tick, PartitionsIInv, PartitionsTypeOK
<1>2. PartitionsTypeOK'
  BY <1>1 DEF Tick, PartitionsIInv, PartitionsTypeOK, tables
<1>3. ASSUME NEW q \in Replica PROVE CallInv(call[q])'
  <2>1. Reached(call[q])'
    BY <1>1, Months DEF Tick, PartitionsIInv, CallInv, Reached, tables
  <2>. QED  BY <2>1 DEF Tick, PartitionsIInv, CallInv, InRange, Behind, Drained, Locking, tables
<1>4. Apart' /\ Routed' /\ \A w \in Writer : WriteInv(write[w])'
  BY DEF Tick, PartitionsIInv, Apart, Routed, WriteInv, tables
<1>5. NothingLost'
  <2>1. Stored' = Stored /\ answered' = answered /\ answered \subseteq Entry
    BY DEF Tick, Stored, tables, PartitionsIInv, PartitionsTypeOK
  <2>. QED  BY <1>1, <2>1, Months DEF PartitionsIInv, NothingLost
<1>. QED  BY <1>2, <1>3, <1>4, <1>5 DEF PartitionsIInv

LEMMA DropStep ==
    ASSUME PartitionsIInv, NEW retain \in 0..LastMonth, DropExpired(retain)
    PROVE  PartitionsIInv'
<1>0. /\ parts' = parts \ Expired(retain) /\ parts' \subseteq parts
      /\ rows' = [m \in Month |-> IF m \in parts' THEN rows[m] ELSE {}]
      /\ UNCHANGED <<now, default, call, write, answered>>
      /\ \A r \in Replica : call[r].made = {}
      /\ \A w \in Writer : write[w].at = "idle"
  BY DEF DropExpired, Unlocked
<1>1. now \in Nat /\ parts \subseteq Month
  BY Months DEF PartitionsIInv, PartitionsTypeOK
<1>2. \A m \in parts \ parts' : m < now - 1
  BY <1>0, <1>1, Months DEF Expired
<1>3. PartitionsTypeOK'
  BY <1>0 DEF PartitionsIInv, PartitionsTypeOK
<1>4. ASSUME NEW q \in Replica PROVE CallInv(call[q])'
  <2>1. CallInv(call[q])
    BY DEF PartitionsIInv
  <2>2. Reached(call[q])'
    BY <1>0, <1>1, <1>2, <2>1, Months DEF CallInv, Reached
  <2>. QED  BY <1>0, <2>1, <2>2 DEF CallInv, InRange, Behind, Drained, Locking
<1>5. Apart'
  BY <1>0 DEF PartitionsIInv, Apart
<1>6. ASSUME NEW w \in Writer PROVE WriteInv(write[w])'
  <2>1. write[w].leaf = 0
    BY <1>0 DEF PartitionsIInv, WriteInv
  <2>. QED  BY <1>0, <2>1 DEF PartitionsIInv, WriteInv
<1>7. Routed'
  BY <1>0 DEF PartitionsIInv, PartitionsTypeOK, Routed
<1>8. NothingLost'
  <2> SUFFICES ASSUME NEW e \in answered, e \in Stored, ~(MonthOf[e] < now - 1)
               PROVE  e \in Stored'
    BY <1>0 DEF PartitionsIInv, NothingLost
  <2>1. CASE e \in default
    BY <1>0, <2>1 DEF Stored
  <2>2. CASE \E m \in parts : e \in rows[m]
    <3>1. PICK m \in parts : e \in rows[m]
      BY <2>2
    <3>2. m \in Month /\ MonthOf[e] = m
      BY <1>1, <3>1 DEF PartitionsIInv, Routed
    <3>3. m \in parts' /\ e \in rows'[m]
      BY <1>0, <1>2, <3>1, <3>2
    <3>. QED  BY <3>3 DEF Stored
  <2>. QED  BY <2>1, <2>2 DEF Stored
<1>. QED  BY <1>3, <1>4, <1>5, <1>6, <1>7, <1>8 DEF PartitionsIInv

LEMMA PartitionsStutterStep == PartitionsIInv /\ UNCHANGED partitionsVars => PartitionsIInv'
BY DEF PartitionsIInv, PartitionsTypeOK, CallInv, InRange, Behind, Drained, Locking, Reached, Apart, WriteInv,
       Routed, NothingLost, Stored, partitionsVars, tables

-------------------------------------------------------------------------------
\* The invariant behind both results holds in every reachable state.
THEOREM PartitionsInductive == PartitionsSpec => []PartitionsIInv
<1>1. PartitionsIInv /\ [PartitionsNext]_partitionsVars => PartitionsIInv'
  <2> SUFFICES ASSUME PartitionsIInv, [PartitionsNext]_partitionsVars PROVE PartitionsIInv'
    OBVIOUS
  <2>1. CASE Tick
    BY <2>1, TickStep
  <2>2. CASE Maintain
    <3>1. ASSUME NEW r \in Replica, EnsureFails(r) PROVE PartitionsIInv'
      BY <3>1, ForgetsStep DEF EnsureFails, CallEnds
    <3>. QED
      BY <2>2, <3>1, EnsureStep, LookStep, CreatePartitionStep, DrainStep, AttachStep, CommitStep
         DEF Maintain
  <2>3. CASE Store
    <3>1. ASSUME NEW w \in Writer, InsertFails(w) PROVE PartitionsIInv'
      BY <3>1, EndsStep DEF InsertFails
    <3>. QED
      BY <2>3, <3>1, RouteStep, InsertStep, InsertCommitsStep DEF Store
  <2>4. CASE Retain
    BY <2>4, DropStep DEF Retain
  <2>5. CASE UNCHANGED partitionsVars
    BY <2>5, PartitionsStutterStep
  <2>. QED  BY <2>1, <2>2, <2>3, <2>4, <2>5 DEF PartitionsNext
<1>. QED  BY <1>1, Starts, PTL DEF PartitionsSpec

\* A row is in exactly the leaf its month routes to, and a call that is about to
\* commit leaves no month it was called for without a partition (Placed).
THEOREM PlacedHolds == PartitionsSpec => []Placed
<1>1. PartitionsIInv => Placed
  <2> SUFFICES ASSUME PartitionsIInv PROVE Placed
    OBVIOUS
  <2>1. ASSUME NEW r \in Replica, NEW m \in now..LastMonth + Ahead,
               call[r].at = "commit", m <= call[r].last
        PROVE  m \in parts \cup call[r].made
    <3>1. call[r] \in Call /\ InRange(call[r]) /\ Reached(call[r]) /\ now \in Nat
      BY Months DEF PartitionsIInv, CallInv, PartitionsTypeOK
    <3>2. m \in Int /\ call[r].month \in Int /\ call[r].last \in Int
      BY <3>1, Months DEF Call
    <3>3. m < call[r].month
      BY <2>1, <3>1, <3>2 DEF InRange
    <3>. QED  BY <2>1, <3>1, <3>3 DEF Reached
  <2>. QED  BY <2>1 DEF PartitionsIInv, Placed, Covered
<1>. QED  BY <1>1, PartitionsInductive, PTL

\* What an insert was answered for stays in the table until retention may take
\* it: no move, failed call or second replica loses a row (NothingLost).
THEOREM NothingLostHolds == PartitionsSpec => []NothingLost
<1>1. PartitionsIInv => NothingLost
  BY DEF PartitionsIInv
<1>. QED  BY <1>1, PartitionsInductive, PTL

-------------------------------------------------------------------------------
(* Billing.                                                                *)

\* Who a customer was minted for.
Owned(c, w) == c \in DOMAIN owner /\ owner[c] = w

\* What Isolated rests on: wherever a customer is on its way to a row, in a click,
\* a checkout session, a subscription or an event, it is on its way to the
\* workspace it was minted for.
Custody ==
    /\ \A w \in Workspace :
          /\ row[w].customer # None => Owned(row[w].customer, w)
          /\ row[w].subscription # None =>
                /\ row[w].subscription \in DOMAIN subs
                /\ subs[row[w].subscription].workspace = w
    /\ \A k \in Checkout :
          /\ checkout[k].at \in {"create", "write", "session"} =>
                checkout[k].workspace \in Workspace
          /\ checkout[k].at \in {"write", "session"} =>
                Owned(checkout[k].customer, checkout[k].workspace)
    /\ \A s \in sessions : Owned(s.customer, s.workspace)
    /\ \A i \in DOMAIN subs : Owned(subs[i].customer, subs[i].workspace)
    /\ \A e \in unanswered : e.sub \in DOMAIN subs
    /\ \A h \in handlers :
          /\ h.event.sub \in DOMAIN subs
          /\ h.target \in {Nobody, subs[h.event.sub].workspace}

BillingIInv == BillingTypeOK /\ Custody

LEMMA Initially == BillingInit => BillingIInv
BY BillingAssumption DEF BillingInit, BillingIInv, BillingTypeOK, Custody, Row, Click, Away, Plan, BillingStatus, None, Owned

LEMMA AsksStep ==
    ASSUME BillingIInv, NEW k \in Checkout, NEW w \in Workspace, NEW p \in Sold \cup {"portal"},
           Asks(k, w, p)
    PROVE  BillingIInv'
BY DEF Asks, BillingIInv, BillingTypeOK, Custody, Row, Click, stripeVars, marks, Creates, Owned

LEMMA MintStep ==
    ASSUME BillingIInv, NEW k \in Checkout, Mint(k)
    PROVE  BillingIInv'
<1>1. checkout[k].workspace \in Workspace
  BY DEF BillingIInv, Custody, Mint
<1>2. /\ owner' \in Seq(Workspace) /\ Len(owner') = Len(owner) + 1
      /\ DOMAIN owner' = 1..Len(owner') /\ DOMAIN owner = 1..Len(owner)
      /\ \A c \in DOMAIN owner : owner'[c] = owner[c]
      /\ owner'[Len(owner')] = checkout[k].workspace
  BY <1>1 DEF Mint, BillingIInv, BillingTypeOK
<1>3. \A c, w : Owned(c, w) => Owned(c, w)'
  BY <1>2 DEF Owned, BillingIInv, BillingTypeOK
<1>4. /\ checkout' \in [Checkout -> Click]
      /\ \A j \in Checkout \ {k} : checkout'[j] = checkout[j]
      /\ \/ checkout'[k].at = "done"
         \/ checkout'[k].workspace = checkout[k].workspace /\ checkout'[k].customer = Len(owner')
  <2>1. CASE Moves(k, "write", Len(owner'))
    <3>1. Len(owner') \in Customer
      BY <1>2, BillingAssumption DEF Mint, BillingIInv, BillingTypeOK, Customer
    <3>. QED  BY <2>1, <3>1 DEF Moves, Click, BillingIInv, BillingTypeOK
  <2>2. CASE Ends(k)
    BY <2>2 DEF Ends, Away, Click, BillingIInv, BillingTypeOK, None
  <2>. QED  BY <2>1, <2>2 DEF Mint
<1>5. BillingTypeOK'
  BY <1>2, <1>4, BillingAssumption DEF Mint, BillingIInv, BillingTypeOK, marks
<1>6. ASSUME NEW j \in Checkout
      PROVE  /\ checkout'[j].at \in {"create", "write", "session"} =>
                   checkout'[j].workspace \in Workspace
             /\ checkout'[j].at \in {"write", "session"} =>
                   Owned(checkout[j].customer, checkout[j].workspace)'
  <2>1. CASE j = k
    BY <1>1, <1>2, <1>4, <2>1 DEF Owned
  <2>2. CASE j # k
    BY <1>3, <1>4, <2>2 DEF BillingIInv, Custody
  <2>. QED  BY <2>1, <2>2
<1>7. Custody'
  BY <1>3, <1>6 DEF Mint, BillingIInv, Custody
<1>. QED  BY <1>5, <1>7 DEF BillingIInv

LEMMA KeepCustomerStep ==
    ASSUME BillingIInv, NEW k \in Checkout, KeepCustomer(k)
    PROVE  BillingIInv'
<1> DEFINE w == checkout[k].workspace
           c == checkout[k].customer
<1>1. w \in Workspace /\ Owned(c, w) /\ c \in Customer
  BY DEF BillingIInv, BillingTypeOK, Custody, KeepCustomer, Owned, Customer, Click, None
<1>2. /\ row' = [row EXCEPT ![w] = [row[w] EXCEPT !.customer = c]]
      /\ checkout' = [checkout EXCEPT ![k] =
            [at |-> "session", workspace |-> @.workspace, price |-> @.price, customer |-> c]]
      /\ UNCHANGED <<ordered, stripeVars, handlers, marks>>
  BY DEF KeepCustomer, SetBilling, Moves
<1>3. BillingTypeOK'
  <2>1. row' \in [Workspace -> Row]
    BY <1>1, <1>2 DEF BillingIInv, BillingTypeOK, Row
  <2>2. checkout' \in [Checkout -> Click]
    BY <1>1, <1>2 DEF BillingIInv, BillingTypeOK, Click
  <2>. QED  BY <1>2, <2>1, <2>2 DEF BillingIInv, BillingTypeOK, stripeVars, marks
<1>4. Custody'
  BY <1>1, <1>2 DEF BillingIInv, BillingTypeOK, Custody, Owned, Row, Click, stripeVars
<1>. QED  BY <1>3, <1>4 DEF BillingIInv

LEMMA OpenSessionStep ==
    ASSUME BillingIInv, NEW k \in Checkout, OpenSession(k)
    PROVE  BillingIInv'
<1>1. /\ checkout' \in [Checkout -> Click]
      /\ \A j \in Checkout : checkout'[j] = checkout[j] \/ checkout'[j].at = "done"
  BY DEF BillingIInv, BillingTypeOK, OpenSession, Ends, Away, Click, None
<1>2. \A s \in sessions' : s \in sessions \/
        /\ s \in [workspace : Workspace, customer : Customer, price : Sold]
        /\ Owned(s.customer, s.workspace)
  BY DEF BillingIInv, BillingTypeOK, Custody, OpenSession, Click, Owned, Customer, None
<1>3. BillingTypeOK'
  BY <1>1, <1>2 DEF BillingIInv, BillingTypeOK, OpenSession, marks
<1>4. Custody'
  BY <1>1, <1>2 DEF BillingIInv, BillingTypeOK, Custody, OpenSession, Owned
<1>. QED  BY <1>3, <1>4 DEF BillingIInv

LEMMA GivesUpStep ==
    ASSUME BillingIInv, NEW k \in Checkout, GivesUp(k)
    PROVE  BillingIInv'
BY DEF BillingIInv, BillingTypeOK, Custody, GivesUp, Ends, Away, Click, stripeVars, marks, Owned, None

LEMMA ForceStep ==
    ASSUME BillingIInv, NEW w \in Workspace, NEW lever \in Levers, ForcePlan(w, lever)
    PROVE  BillingIInv'
<1>1. /\ row' \in [Workspace -> Row]
      /\ \A v \in Workspace : /\ row'[v].customer = row[v].customer
                             /\ row'[v].subscription = row[v].subscription
  BY BillingAssumption DEF BillingIInv, BillingTypeOK, ForcePlan, SetBilling, Row
<1>2. BillingTypeOK'
  BY <1>1 DEF BillingIInv, BillingTypeOK, ForcePlan, stripeVars
<1>3. Custody'
  BY <1>1 DEF BillingIInv, BillingTypeOK, Custody, ForcePlan, stripeVars, Owned
<1>. QED  BY <1>2, <1>3 DEF BillingIInv

-------------------------------------------------------------------------------
(* Stripe.                                                                 *)

\* What is emitted is about the subscription it names.
LEMMA EmitAdds ==
    ASSUME BillingTypeOK, NEW types \in Seq(EventType), NEW i,
           subs' \in Seq(SubscriptionRecord), i \in DOMAIN subs', Emit(types, i)
    PROVE  /\ unanswered' \subseteq Event /\ emitted' \in 0..MaxEvents
           /\ \A e \in unanswered' : e \in unanswered \/ e.sub = i
<1>1. /\ emitted' = emitted + Len(types) /\ emitted' <= MaxEvents /\ emitted' \in Nat
  BY BillingAssumption DEF Emit, BillingTypeOK
<1>2. subs'[i] \in SubscriptionRecord /\ i \in Nat \ {None}
  BY DEF None
<1>3. ASSUME NEW n \in DOMAIN types
      PROVE  [id |-> emitted + n, type |-> types[n], sub |-> i,
              price |-> subs'[i].price, status |-> subs'[i].status] \in Event
  <2>1. emitted + n \in 1..MaxEvents /\ types[n] \in EventType
    BY <1>1, <1>3, BillingAssumption DEF BillingTypeOK
  <2>. QED  BY <1>2, <2>1 DEF Event, SubscriptionRecord
<1>. QED  BY <1>1, <1>3, BillingAssumption DEF Emit, BillingTypeOK

\* A subscription never changes hands, and a new one is its customer's.
LEMMA SubsGrow ==
    ASSUME BillingIInv, UNCHANGED <<row, checkout, owner, handlers>>,
           sessions' \subseteq sessions,
           DOMAIN subs \subseteq DOMAIN subs',
           \A i \in DOMAIN subs : /\ subs'[i].workspace = subs[i].workspace
                                 /\ subs'[i].customer = subs[i].customer,
           \A i \in DOMAIN subs' \ DOMAIN subs : Owned(subs'[i].customer, subs'[i].workspace),
           \A e \in unanswered' : e \in unanswered \/ e.sub \in DOMAIN subs'
    PROVE  Custody'
BY DEF BillingIInv, Custody, Owned

\* The same events in the other order.
LEMMA Reversed ==
    ASSUME NEW T, NEW q \in Seq(T)
    PROVE  Reverse(q) \in Seq(T) /\ {Reverse(q)[n] : n \in DOMAIN Reverse(q)} = {q[n] : n \in DOMAIN q}
<1> DEFINE m == Len(q)
           r == Reverse(q)
<1>1. m \in Nat /\ DOMAIN q = 1..m /\ \A n \in 1..m : q[n] \in T /\ (m - n) + 1 \in 1..m
  BY LenProperties
<1>2. r = [n \in 1..m |-> q[(m - n) + 1]]
  BY DEF Reverse
<1> HIDE DEF m, r
<1>3. DOMAIN r = 1..m /\ r \in [1..m -> T] /\ \A n \in 1..m : r[n] = q[(m - n) + 1]
  BY <1>1, <1>2
<1>4. r \in Seq(T)
  BY <1>1, <1>3
<1>5. \A n \in 1..m : r[(m - n) + 1] = q[n]
  <2> SUFFICES ASSUME NEW n \in 1..m PROVE r[(m - n) + 1] = q[n]
    OBVIOUS
  <2>1. (m - ((m - n) + 1)) + 1 = n
    BY <1>1
  <2> QED BY <1>1, <1>3, <2>1
<1>6. {r[n] : n \in 1..m} = {q[n] : n \in 1..m}
  BY <1>1, <1>3, <1>5
<1> QED BY <1>1, <1>3, <1>4, <1>6 DEF r

LEMMA PayStep ==
    ASSUME BillingIInv, NEW s \in sessions, Pay(s)
    PROVE  BillingIInv'
<1> PICK status \in {"active", "incomplete"} :
           /\ subs' = Append(subs, [workspace |-> s.workspace, customer |-> s.customer,
                                    price |-> s.price, status |-> status])
           /\ Emit(IF status = "active" THEN <<"created", "paid", "completed">>
                                        ELSE <<"created", "completed">>, Len(subs'))
  BY DEF Pay
<1> DEFINE sub == [workspace |-> s.workspace, customer |-> s.customer,
                   price |-> s.price, status |-> status]
           types == IF status = "active" THEN <<"created", "paid", "completed">>
                                         ELSE <<"created", "completed">>
<1>1. /\ sub \in SubscriptionRecord /\ s.workspace \in Workspace
      /\ Owned(s.customer, s.workspace)
  BY DEF BillingIInv, BillingTypeOK, Custody, SubscriptionRecord, SubStatus, Sold
<1>2. /\ subs' = Append(subs, sub) /\ subs \in Seq(SubscriptionRecord)
      /\ UNCHANGED <<row, checkout, ordered, owner, handlers, raced, forced>>
      /\ sessions' \subseteq sessions
      /\ tangled' \subseteq tangled \cup {s.workspace}
  BY DEF Pay, Emit, BillingIInv, BillingTypeOK
<1> HIDE DEF sub
<1>3. /\ subs' \in Seq(SubscriptionRecord) /\ Len(subs') = Len(subs) + 1
      /\ DOMAIN subs = 1..Len(subs) /\ DOMAIN subs' = 1..Len(subs')
      /\ \A i \in DOMAIN subs : subs'[i] = subs[i]
      /\ subs'[Len(subs')] = sub
  BY <1>1, <1>2
<1>4. /\ unanswered' \subseteq Event /\ emitted' \in 0..MaxEvents
      /\ \A e \in unanswered' : e \in unanswered \/ e.sub = Len(subs')
  <2>1. types \in Seq(EventType)
    <3>1. <<"created", "paid", "completed">> \in Seq(EventType) /\ <<"created", "completed">> \in Seq(EventType)
      BY DEF EventType
    <3> QED BY <3>1
  <2>2. Len(subs') \in DOMAIN subs' /\ Emit(types, Len(subs'))
    BY <1>2, <1>3
  <2> HIDE DEF types
  <2>. QED  BY <1>3, <2>1, <2>2, EmitAdds DEF BillingIInv
<1>5. BillingTypeOK'
  BY <1>1, <1>2, <1>3, <1>4 DEF BillingIInv, BillingTypeOK
<1>6. Custody'
  <2>1. \A i \in DOMAIN subs' \ DOMAIN subs : Owned(subs'[i].customer, subs'[i].workspace)
    BY <1>1, <1>2, <1>3 DEF sub
  <2>2. DOMAIN subs \subseteq DOMAIN subs' /\ \A e \in unanswered' : e \in unanswered \/ e.sub \in DOMAIN subs'
    BY <1>2, <1>3, <1>4
  <2>. QED  BY <1>2, <1>3, <2>1, <2>2, SubsGrow
<1>. QED  BY <1>5, <1>6 DEF BillingIInv

LEMMA BecomesStep ==
    ASSUME BillingIInv, NEW i \in DOMAIN subs, NEW price \in Price,
           NEW status \in SubStatus,
           NEW told \in SUBSET Seq(EventType), Becomes(i, price, status, told)
    PROVE  BillingIInv'
<1>1. /\ subs' = [subs EXCEPT ![i] = [workspace |-> subs[i].workspace, customer |-> subs[i].customer,
                                     price |-> price, status |-> status]]
      /\ subs \in Seq(SubscriptionRecord) /\ subs[i] \in SubscriptionRecord
      /\ UNCHANGED <<row, checkout, ordered, owner, handlers, raced, forced, sessions, tangled>>
  BY DEF Becomes, Emit, BillingIInv, BillingTypeOK
<1>2. /\ subs' \in Seq(SubscriptionRecord) /\ DOMAIN subs' = DOMAIN subs
      /\ \A j \in DOMAIN subs : /\ subs'[j].workspace = subs[j].workspace
                                /\ subs'[j].customer = subs[j].customer
  BY <1>1 DEF SubscriptionRecord
<1>3. PICK types \in told : Emit(types, i)
  BY DEF Becomes
<1>4. /\ unanswered' \subseteq Event /\ emitted' \in 0..MaxEvents
      /\ \A e \in unanswered' : e \in unanswered \/ e.sub = i
  <2>1. types \in Seq(EventType)
    BY <1>3
  <2> QED BY <1>2, <1>3, <2>1, EmitAdds DEF BillingIInv
<1>5. BillingTypeOK'
  BY <1>1, <1>2, <1>4 DEF BillingIInv, BillingTypeOK
<1>6. Custody'
  BY <1>1, <1>2, <1>4, SubsGrow
<1>. QED  BY <1>5, <1>6 DEF BillingIInv

LEMMA ChangesStep ==
    ASSUME BillingIInv, NEW i \in DOMAIN subs, Changes(i)
    PROVE  BillingIInv'
<1>1. subs[i] \in SubscriptionRecord
  BY DEF BillingIInv, BillingTypeOK
<1>2. PICK price \in Price, status \in SubStatus, told \in SUBSET Seq(EventType) :
        Becomes(i, price, status, told)
  <2>1. /\ <<"updated">> \in Seq(EventType) /\ <<"deleted">> \in Seq(EventType)
        /\ <<"failed", "updated">> \in Seq(EventType) /\ <<"paid", "updated">> \in Seq(EventType)
        /\ <<"updated", "deleted">> \in Seq(EventType)
    BY DEF EventType
  <2>2. /\ EitherWay(<<"failed", "updated">>) \in SUBSET Seq(EventType)
        /\ EitherWay(<<"paid", "updated">>) \in SUBSET Seq(EventType)
    BY <2>1, Reversed DEF EitherWay
  <2>3. subs[i].price \in Price /\ subs[i].status \in SubStatus
    BY <1>1 DEF SubscriptionRecord
  <2>4. {"past_due", "unpaid", "paused", "active", "incomplete_expired", "canceled"} \subseteq SubStatus
    BY DEF SubStatus
  <2> QED BY <2>1, <2>2, <2>3, <2>4 DEF Changes
<1>. QED  BY <1>2, BecomesStep

LEMMA InvoiceStep ==
    ASSUME BillingIInv, NEW i \in DOMAIN subs, FirstInvoice(i) \/ LastInvoice(i)
    PROVE  BillingIInv'
<1>0. subs \in Seq(SubscriptionRecord) /\ subs[i] \in SubscriptionRecord
  BY DEF BillingIInv, BillingTypeOK
<1>1. /\ subs' = subs /\ subs[i].workspace \in Workspace
      /\ UNCHANGED <<row, checkout, ordered, owner, handlers, raced, forced, sessions>>
      /\ tangled' \subseteq tangled \cup {subs[i].workspace}
  BY <1>0 DEF FirstInvoice, LastInvoice, Emit, SubscriptionRecord
<1>2. /\ unanswered' \subseteq Event /\ emitted' \in 0..MaxEvents
      /\ \A e \in unanswered' : e \in unanswered \/ e.sub = i
  <2>1. <<"paid">> \in Seq(EventType) /\ <<"failed">> \in Seq(EventType)
    BY DEF EventType
  <2>. QED  BY <1>0, <1>1, <2>1, EmitAdds DEF FirstInvoice, LastInvoice, BillingIInv
<1>3. BillingTypeOK'
  BY <1>0, <1>1, <1>2 DEF BillingIInv, BillingTypeOK
<1>4. Custody'
  BY <1>1, <1>2, SubsGrow
<1>. QED  BY <1>3, <1>4 DEF BillingIInv

-------------------------------------------------------------------------------
(* The webhook.                                                            *)

\* An event finds the workspace it was sold to, or none: by the customer on a
\* row, which was minted for that workspace, or by the subscription itself.
LEMMA TargetOwns ==
    ASSUME BillingIInv, NEW e \in unanswered
    PROVE  Target(e) \in {Nobody, subs[e.sub].workspace}
<1> DEFINE s == subs[e.sub]
<1>1. Owned(s.customer, s.workspace) /\ s.customer # None
  BY DEF BillingIInv, BillingTypeOK, Custody, Owned, None
<1>2. \A w \in ByCustomer(s.customer) : w = s.workspace
  BY <1>1 DEF BillingIInv, Custody, ByCustomer, Owned
<1>. QED  BY <1>2 DEF Target

LEMMA ReceiveStep ==
    ASSUME BillingIInv, NEW e \in unanswered, Receive(e)
    PROVE  BillingIInv'
<1>0. /\ e \in Event /\ e.sub \in DOMAIN subs /\ subs[e.sub] \in SubscriptionRecord
  BY DEF BillingIInv, BillingTypeOK, Custody
<1>1. /\ e \in Event /\ e.sub \in DOMAIN subs /\ subs[e.sub].workspace \in Workspace
  BY <1>0 DEF SubscriptionRecord
<1>2. Target(e) \in {Nobody, subs[e.sub].workspace}
  BY TargetOwns
<1>3. BillingTypeOK'
  BY <1>1, <1>2 DEF BillingIInv, BillingTypeOK, Receive, stripeVars, marks
<1>4. Custody'
  BY <1>1, <1>2 DEF BillingIInv, Custody, Receive, stripeVars, Owned
<1>. QED  BY <1>3, <1>4 DEF BillingIInv

\* A row the event of its own workspace is applied to stays a row of that workspace.
LEMMA AppliedOwns ==
    ASSUME BillingIInv, NEW h \in handlers, h.target # Nobody, NEW r, r = Applied(h.event, row[h.target])
    PROVE  /\ r \in Row
           /\ r.customer # None => Owned(r.customer, h.target)
           /\ r.subscription # None =>
                 r.subscription \in DOMAIN subs /\ subs[r.subscription].workspace = h.target
<1> DEFINE e == h.event
           w == h.target
<1>1. /\ w \in Workspace /\ e \in Event /\ e.sub \in DOMAIN subs /\ subs[e.sub].workspace = w
      /\ subs[e.sub] \in SubscriptionRecord /\ Owned(subs[e.sub].customer, w)
      /\ row[w] \in Row
  BY DEF BillingIInv, BillingTypeOK, Custody
<1>2. r.plan \in Plan /\ r.status \in BillingStatus
  BY <1>1 DEF Applied, Row, Plan, BillingStatus, StatusFor, Event
<1>3. /\ r.customer \in {row[w].customer, subs[e.sub].customer}
      /\ r.subscription \in {None, row[w].subscription, e.sub}
  BY DEF Applied
<1>4. r = [plan |-> r.plan, status |-> r.status, customer |-> r.customer,
           subscription |-> r.subscription]
  BY DEF Applied
<1>5. r.customer \in Customer \cup {None} /\ r.subscription \in Nat
  BY <1>1, <1>3 DEF Row, SubscriptionRecord, Event, None
<1>6. r \in Row
  BY <1>2, <1>4, <1>5 DEF Row
<1>7. r.customer # None => Owned(r.customer, w)
  BY <1>1, <1>3 DEF BillingIInv, Custody
<1>8. r.subscription # None =>
          r.subscription \in DOMAIN subs /\ subs[r.subscription].workspace = w
  BY <1>1, <1>3 DEF BillingIInv, Custody
<1>. QED  BY <1>6, <1>7, <1>8

LEMMA HandleStep ==
    ASSUME BillingIInv, NEW h \in handlers, Handle(h)
    PROVE  BillingIInv'
<1> DEFINE r == Applied(h.event, row[h.target])
<1>1. /\ handlers' \subseteq handlers /\ unanswered' \subseteq unanswered /\ forced' \subseteq forced
      /\ UNCHANGED <<checkout, ordered, owner, sessions, subs, emitted, tangled, raced>>
  BY DEF Handle, Answered
<1>2. CASE h.target = Nobody
  <2>1. row' = row
    BY <1>2 DEF Handle
  <2>. QED  BY <1>1, <2>1 DEF BillingIInv, BillingTypeOK, Custody, Owned
<1>3. CASE h.target # Nobody
  <2>1. row' = [row EXCEPT ![h.target] = r] /\ h.target \in Workspace
    BY <1>3 DEF Handle, SetBilling, BillingIInv, BillingTypeOK
  <2>2. /\ r \in Row
        /\ r.customer # None => Owned(r.customer, h.target)
        /\ r.subscription # None =>
              r.subscription \in DOMAIN subs /\ subs[r.subscription].workspace = h.target
    BY <1>3, AppliedOwns
  <2> HIDE DEF r
  <2>3. BillingTypeOK'
    BY <1>1, <2>1, <2>2 DEF BillingIInv, BillingTypeOK
  <2>4. Custody'
    BY <1>1, <2>1, <2>2 DEF BillingIInv, BillingTypeOK, Custody, Owned
  <2>. QED  BY <2>3, <2>4 DEF BillingIInv
<1>. QED  BY <1>2, <1>3

LEMMA HandleFailsStep ==
    ASSUME BillingIInv, NEW h \in handlers, HandleFails(h)
    PROVE  BillingIInv'
BY DEF BillingIInv, BillingTypeOK, Custody, HandleFails, stripeVars, marks, Owned

LEMMA BillingStutterStep == BillingIInv /\ UNCHANGED billingVars => BillingIInv'
BY DEF BillingIInv, BillingTypeOK, Custody, billingVars, stripeVars, marks, Owned

-------------------------------------------------------------------------------
\* Every reachable state is typed, and every customer in custody.
THEOREM BillingInductive == BillingSpec => []BillingIInv
<1>1. BillingIInv /\ [BillingNext]_billingVars => BillingIInv'
  <2> SUFFICES ASSUME BillingIInv, [BillingNext]_billingVars
               PROVE  BillingIInv'
    OBVIOUS
  <2>1. CASE \E k \in Checkout, w \in Workspace, price \in Sold \cup {"portal"} : Asks(k, w, price)
    BY <2>1, AsksStep
  <2>2. CASE \E k \in Checkout : Mint(k) \/ KeepCustomer(k) \/ OpenSession(k) \/ GivesUp(k)
    BY <2>2, MintStep, KeepCustomerStep, OpenSessionStep, GivesUpStep
  <2>3. CASE \E w \in Workspace, lever \in Levers : ForcePlan(w, lever)
    BY <2>3, ForceStep
  <2>4. CASE \E s \in sessions : Pay(s)
    BY <2>4, PayStep
  <2>5. CASE \E i \in DOMAIN subs : Changes(i) \/ FirstInvoice(i) \/ LastInvoice(i)
    BY <2>5, ChangesStep, InvoiceStep
  <2>6. CASE \E e \in unanswered : Receive(e)
    BY <2>6, ReceiveStep
  <2>7. CASE \E h \in handlers : Handle(h) \/ HandleFails(h)
    BY <2>7, HandleStep, HandleFailsStep
  <2>8. CASE UNCHANGED billingVars
    BY <2>8, BillingStutterStep
  <2>. QED  BY <2>1, <2>2, <2>3, <2>4, <2>5, <2>6, <2>7, <2>8 DEF BillingNext
<1>. QED  BY <1>1, Initially, PTL DEF BillingSpec

\* The columns, the clicks, Stripe's records and the events stay what the code
\* and Stripe declare them to be (schema.ts:148, stripe.server.ts:264).
THEOREM BillingTypesHold == BillingSpec => []BillingTypeOK
<1>1. BillingIInv => BillingTypeOK
  BY DEF BillingIInv
<1>. QED  BY <1>1, BillingInductive, PTL

\* No workspace pays for another: whatever clicks, events, retries and their
\* order, the customer and the subscription on a row were minted for it and sold
\* to it (workspaceIdFor and setBilling, stripe.server.ts:309-370).
THEOREM IsolatedHolds == BillingSpec => []Isolated
<1>1. BillingIInv => Isolated
  BY DEF BillingIInv, Custody, Isolated, Owned
<1>. QED  BY <1>1, BillingInductive, PTL

\* The rows of a workspace are what the schema says and its own, together (RowsKept).
THEOREM RowsKeptHolds == BillingSpec => []RowsKept
<1>1. RowsKept <=> BillingTypeOK /\ Isolated
  BY DEF RowsKept
<1>. QED  BY <1>1, BillingTypesHold, IsolatedHolds, PTL

-------------------------------------------------------------------------------
(* Who pays.                                                               *)

\* Unless two clicks minted customers for a workspace at once, there is one
\* customer of it wherever one is on its way to the row or to a subscription,
\* and while a click mints or writes it the row has none.
Paying(w) ==
    /\ \A k \in Checkout : checkout[k].workspace = w =>
          /\ checkout[k].at \in {"create", "write"} => row[w].customer = None
          /\ checkout[k].at = "session" => checkout[k].customer = row[w].customer
    /\ \A j, k \in Checkout :
          (/\ checkout[j].workspace = w /\ checkout[j].at \in {"create", "write"}
           /\ checkout[k].workspace = w /\ checkout[k].at \in {"create", "write"}) => j = k
    /\ \A s \in sessions : s.workspace = w => s.customer = row[w].customer
    /\ \A i \in DOMAIN subs : subs[i].workspace = w => subs[i].customer = row[w].customer

OnePayer == \A w \in Workspace \ raced : Paying(w)

\* A click keeps its workspace until it is over, and no click is new to one.
LEMMA ClicksStay ==
    ASSUME BillingIInv, NEW k \in Checkout, Mint(k) \/ KeepCustomer(k) \/ OpenSession(k) \/ GivesUp(k)
    PROVE  /\ checkout[k].workspace \in Workspace
           /\ \A j \in Checkout \ {k} : checkout'[j] = checkout[j]
           /\ \/ checkout'[k].at = "done" /\ checkout'[k].workspace = Nobody
              \/ /\ checkout'[k].workspace = checkout[k].workspace
                 /\ \/ Mint(k) /\ checkout'[k].at = "write"
                    \/ /\ KeepCustomer(k) /\ checkout'[k].at = "session"
                       /\ checkout'[k].customer = checkout[k].customer
BY DEF BillingIInv, BillingTypeOK, Custody, Mint, KeepCustomer, OpenSession, GivesUp, Moves, Ends, Away

\* A click that goes on, or ends, brings the row no customer but its own.
LEMMA ClickPays ==
    ASSUME BillingIInv, OnePayer, NEW k \in Checkout,
           Mint(k) \/ KeepCustomer(k) \/ OpenSession(k) \/ GivesUp(k)
    PROVE  OnePayer'
<1> SUFFICES ASSUME NEW w \in Workspace, w \notin raced' PROVE Paying(w)'
  BY DEF OnePayer
<1> DEFINE u == checkout[k].workspace
<1>1. raced' = raced /\ subs' = subs
  BY DEF Mint, KeepCustomer, OpenSession, GivesUp, stripeVars, marks
<1>2. Paying(w) /\ Nobody # w /\ u \in Workspace
  BY <1>1, ClicksStay, BillingAssumption DEF OnePayer
<1>3. CASE KeepCustomer(k)
  <2>1. /\ row' = [row EXCEPT ![u] = [row[u] EXCEPT !.customer = checkout[k].customer]]
        /\ checkout[k].at = "write" /\ sessions' = sessions /\ row \in [Workspace -> Row]
    BY <1>3 DEF KeepCustomer, SetBilling, stripeVars, BillingIInv, BillingTypeOK
  <2>2. CASE u = w
    <3>1. /\ row[w].customer = None /\ row'[w].customer = checkout[k].customer
      BY <1>2, <2>1, <2>2 DEF Paying, Row
    <3>2. \A j \in Checkout \ {k} : checkout[j].workspace = w =>
             checkout[j].at \notin {"create", "write", "session"}
      <4> SUFFICES ASSUME NEW j \in Checkout \ {k}, checkout[j].workspace = w
                   PROVE  checkout[j].at \notin {"create", "write", "session"}
        OBVIOUS
      <4>1. checkout[j].at \notin {"create", "write"}
        BY <1>2, <2>1, <2>2 DEF Paying
      <4>2. checkout[j].at = "session" => checkout[j].customer # None
        BY DEF BillingIInv, Custody, BillingTypeOK, Owned, None
      <4>3. checkout[j].at = "session" => checkout[j].customer = row[w].customer
        BY <1>2 DEF Paying
      <4> QED BY <3>1, <4>1, <4>2, <4>3
    <3>3. /\ \A s \in sessions : s.workspace # w
          /\ \A i \in DOMAIN subs : subs[i].workspace # w
      BY <1>2, <3>1 DEF Paying, BillingIInv, Custody, BillingTypeOK, Owned, None
    <3>4. \A j \in Checkout : checkout'[j].workspace = w /\ checkout'[j].at \in {"create", "write", "session"}
             => j = k /\ checkout'[k].at = "session" /\ checkout'[k].customer = checkout[k].customer
      <4>1. checkout'[k].at = "session" /\ checkout'[k].customer = checkout[k].customer
        BY <1>3 DEF KeepCustomer, Moves, BillingIInv, BillingTypeOK
      <4> QED BY <3>2, <4>1, ClicksStay
    <3> QED BY <1>1, <2>1, <3>1, <3>3, <3>4 DEF Paying
  <2>3. CASE u # w
    <3>1. row'[w] = row[w]
      BY <1>2, <2>1, <2>3
    <3>2. \A j \in Checkout : checkout'[j].workspace = w => checkout'[j] = checkout[j]
      BY <1>2, <2>3, ClicksStay
    <3> QED BY <1>1, <1>2, <2>1, <3>1, <3>2 DEF Paying
  <2> QED BY <2>2, <2>3
<1>4. CASE ~KeepCustomer(k)
  <2>1. row' = row
    BY <1>4 DEF Mint, OpenSession, GivesUp
  <2>2. \A s \in sessions' : s \in sessions \/
           (/\ s.workspace = checkout[k].workspace /\ s.customer = checkout[k].customer
            /\ checkout[k].at = "session")
    BY <1>4 DEF Mint, OpenSession, GivesUp, stripeVars
  <2>3. \A j \in Checkout : checkout'[j].workspace = w =>
           \/ checkout'[j] = checkout[j]
           \/ /\ checkout'[j].at = "write" /\ checkout[j].at = "create"
              /\ checkout[j].workspace = w
    BY <1>2, <1>4, ClicksStay DEF Mint
  <2> QED BY <1>1, <1>2, <2>1, <2>2, <2>3 DEF Paying
<1> QED BY <1>3, <1>4

\* A click that finds no customer is the only one to mint one, or is told of as raced.
LEMMA AskPays ==
    ASSUME BillingIInv, OnePayer, NEW k \in Checkout, NEW w \in Workspace,
           NEW p \in Sold \cup {"portal"}, Asks(k, w, p)
    PROVE  OnePayer'
<1> SUFFICES ASSUME NEW v \in Workspace, v \notin raced' PROVE Paying(v)'
  BY DEF OnePayer
<1>1. /\ UNCHANGED <<row, sessions, subs>> /\ v \notin raced
      /\ checkout[k].at = "free"
      /\ \A j \in Checkout \ {k} : checkout'[j] = checkout[j]
      /\ checkout'[k].workspace = w /\ checkout'[k].customer = row[w].customer
      /\ checkout'[k].at = IF row[w].customer = None THEN "create" ELSE "session"
      /\ (v = w /\ row[w].customer = None) =>
            ~ \E j \in Checkout : checkout[j].workspace = w /\ checkout[j].at \in {"create", "write"}
  BY DEF Asks, Creates, BillingIInv, BillingTypeOK, stripeVars
<1>2. Paying(v)
  BY <1>1 DEF OnePayer
<1>3. \A j \in Checkout : checkout'[j].workspace = v =>
         /\ checkout'[j].at \in {"create", "write"} => row[v].customer = None
         /\ checkout'[j].at = "session" => checkout'[j].customer = row[v].customer
  BY <1>1, <1>2 DEF Paying
<1>4. \A i, j \in Checkout :
         (/\ checkout'[j].workspace = v /\ checkout'[j].at \in {"create", "write"}
          /\ checkout'[i].workspace = v /\ checkout'[i].at \in {"create", "write"}) => i = j
  BY <1>1, <1>2 DEF Paying
<1> QED BY <1>1, <1>2, <1>3, <1>4 DEF Paying

\* Stripe sells only what a session of the workspace asked for.
LEMMA StripePays ==
    ASSUME BillingIInv, OnePayer, UNCHANGED <<row, checkout, raced>>, sessions' \subseteq sessions,
           \A i \in DOMAIN subs' :
              \/ /\ i \in DOMAIN subs /\ subs'[i].workspace = subs[i].workspace
                 /\ subs'[i].customer = subs[i].customer
              \/ \E s \in sessions : subs'[i].workspace = s.workspace /\ subs'[i].customer = s.customer
    PROVE  OnePayer'
BY DEF OnePayer, Paying

\* So a sale, a change and an invoice keep to it.
LEMMA SalePays ==
    ASSUME BillingIInv, OnePayer, (\E s \in sessions : Pay(s)) \/ (\E i \in DOMAIN subs : Changes(i) \/ FirstInvoice(i) \/ LastInvoice(i))
    PROVE  OnePayer'
<1>1. subs \in Seq(SubscriptionRecord)
  BY DEF BillingIInv, BillingTypeOK
<1>2. CASE \E s \in sessions : Pay(s)
  <2>1. PICK s \in sessions : Pay(s)
    BY <1>2
  <2>2. /\ UNCHANGED <<row, checkout, raced>> /\ sessions' \subseteq sessions
        /\ \E status \in {"active", "incomplete"} :
              subs' = Append(subs, [workspace |-> s.workspace, customer |-> s.customer,
                                    price |-> s.price, status |-> status])
    BY <2>1 DEF Pay, Emit
  <2>3. \A status \in {"active", "incomplete"} :
           [workspace |-> s.workspace, customer |-> s.customer,
            price |-> s.price, status |-> status] \in SubscriptionRecord
    BY DEF BillingIInv, BillingTypeOK, SubscriptionRecord, SubStatus, Sold
  <2>4. \A i \in DOMAIN subs' :
           \/ i \in DOMAIN subs /\ subs'[i] = subs[i]
           \/ subs'[i].workspace = s.workspace /\ subs'[i].customer = s.customer
    BY <1>1, <2>2, <2>3
  <2> QED BY <2>2, <2>4, StripePays
<1>3. CASE \E i \in DOMAIN subs : Changes(i) \/ FirstInvoice(i) \/ LastInvoice(i)
  <2>1. PICK i \in DOMAIN subs : Changes(i) \/ FirstInvoice(i) \/ LastInvoice(i)
    BY <1>3
  <2>2. /\ UNCHANGED <<row, checkout, raced>> /\ sessions' \subseteq sessions
        /\ \/ subs' = subs
           \/ \E price, status : subs' = [subs EXCEPT ![i] =
                 [workspace |-> @.workspace, customer |-> @.customer, price |-> price, status |-> status]]
    BY <2>1 DEF Changes, Becomes, FirstInvoice, LastInvoice, Emit
  <2>3. \A j \in DOMAIN subs' : /\ j \in DOMAIN subs /\ subs'[j].workspace = subs[j].workspace
                                /\ subs'[j].customer = subs[j].customer
    BY <2>2
  <2> QED BY <2>2, <2>3, StripePays
<1> QED BY <1>2, <1>3

\* A webhook writes no customer but that of a subscription of the workspace.
LEMMA HookPays ==
    ASSUME BillingIInv, OnePayer,
           \/ \E w \in Workspace, lever \in Levers : ForcePlan(w, lever)
           \/ \E e \in unanswered : Receive(e)
           \/ \E h \in handlers : Handle(h) \/ HandleFails(h)
           \/ UNCHANGED billingVars
    PROVE  OnePayer'
<1>1. UNCHANGED <<checkout, sessions, subs, raced>>
  BY DEF ForcePlan, Receive, Handle, HandleFails, stripeVars, marks, billingVars
<1>2. ASSUME NEW w \in Workspace \ raced
      PROVE  row'[w].customer = row[w].customer
  <2>0. row \in [Workspace -> Row] /\ Paying(w)
    BY DEF BillingIInv, BillingTypeOK, OnePayer
  <2>1. CASE \E v \in Workspace, lever \in Levers : ForcePlan(v, lever)
    <3>1. PICK v \in Workspace, lever \in Levers : ForcePlan(v, lever)
      BY <2>1
    <3>2. row' = [row EXCEPT ![v] = [row[v] EXCEPT !.plan = lever.plan, !.status = lever.status]]
      BY <3>1 DEF ForcePlan, SetBilling
    <3>3. row[v] \in Row /\ row[w] \in Row
      BY <2>0
    <3> QED BY <2>0, <3>2, <3>3 DEF Row
  <2>2. CASE \E h \in handlers : Handle(h)
    <3>1. PICK h \in handlers : Handle(h)
      BY <2>2
    <3>2. CASE h.target = Nobody
      BY <3>1, <3>2 DEF Handle
    <3>3. CASE h.target # Nobody
      <4>1. /\ row' = [row EXCEPT ![h.target] = Applied(h.event, row[h.target])]
            /\ h.target = subs[h.event.sub].workspace /\ h.event.sub \in DOMAIN subs
        BY <3>1, <3>3 DEF Handle, SetBilling, BillingIInv, Custody
      <4>2. Applied(h.event, row[h.target]).customer \in
               {row[h.target].customer, subs[h.event.sub].customer}
        BY DEF Applied
      <4>3. CASE h.target = w
        BY <2>0, <4>1, <4>2, <4>3 DEF Paying
      <4>4. CASE h.target # w
        BY <4>1, <4>4
      <4> QED BY <4>3, <4>4
    <3> QED BY <3>2, <3>3
  <2>3. CASE (\E e \in unanswered : Receive(e)) \/ (\E h \in handlers : HandleFails(h)) \/ UNCHANGED billingVars
    BY <2>3 DEF Receive, HandleFails, billingVars
  <2> QED BY <2>1, <2>2, <2>3
<1> QED BY <1>1, <1>2 DEF OnePayer, Paying

\* The customer that is metered is the one that pays: unless two first clicks
\* created a customer each, every subscription of a workspace is billed to the
\* customer on its row (ensureCustomer, stripe.server.ts:147).
THEOREM PayerIsMeteredHolds == BillingSpec => []PayerIsMetered
<1>1. BillingInit => OnePayer
  BY BillingAssumption DEF BillingInit, OnePayer, Paying, Away
<1>2. BillingIInv /\ OnePayer /\ [BillingNext]_billingVars => OnePayer'
  <2> SUFFICES ASSUME BillingIInv, OnePayer, [BillingNext]_billingVars PROVE OnePayer'
    OBVIOUS
  <2>1. CASE \E k \in Checkout, w \in Workspace, price \in Sold \cup {"portal"} : Asks(k, w, price)
    BY <2>1, AskPays
  <2>2. CASE \E k \in Checkout : Mint(k) \/ KeepCustomer(k) \/ OpenSession(k) \/ GivesUp(k)
    BY <2>2, ClickPays
  <2>3. CASE (\E s \in sessions : Pay(s)) \/ \E i \in DOMAIN subs : Changes(i) \/ FirstInvoice(i) \/ LastInvoice(i)
    BY <2>3, SalePays
  <2>4. CASE \/ \E w \in Workspace, lever \in Levers : ForcePlan(w, lever)
             \/ \E e \in unanswered : Receive(e)
             \/ \E h \in handlers : Handle(h) \/ HandleFails(h)
             \/ UNCHANGED billingVars
    BY <2>4, HookPays
  <2> QED BY <2>1, <2>2, <2>3, <2>4 DEF BillingNext
<1>3. OnePayer => PayerIsMetered
  BY DEF OnePayer, Paying, PayerIsMetered, LiveOf
<1> QED BY <1>1, <1>2, <1>3, BillingInductive, PTL DEF BillingSpec

-------------------------------------------------------------------------------
(* What the row becomes.                                                   *)

\* The events a workspace still has to hear; those that always find it, and write
\* its subscription and its status; and those that write its plan.
Whole(e) == About(e) \/ e.type = "completed"
Prices(e) == e.type = "deleted" \/ (e.type \in {"created", "updated"} /\ e.price \in Plan)
Due(w) == {e \in unanswered : subs[e.sub].workspace = w}
Wholes(w) == {e \in Due(w) : Whole(e)}
Priced(w) == {e \in Due(w) : Prices(e)}

\* What an event writes in the columns it writes.
Subscribes(e) == IF e.type = "deleted" THEN None ELSE e.sub
Plans(e) == IF e.type = "deleted" THEN "free" ELSE e.price
Stands(e) == IF About(e) THEN StatusFor(e.status)
             ELSE IF e.type = "failed" THEN "past_due" ELSE "active"

\* What the row should say of what stands there.
TrueSubscription(w, x) == IF Standing(w) = {} THEN x = None ELSE x \in Standing(w)
TruePlan(w, x) ==
    IF Standing(w) = {} THEN x = "free"
    ELSE \A i \in Standing(w) : subs[i].price \in Plan => x = subs[i].price
TrueStatus(w, x) == \A i \in Standing(w) : Shows(i, x)

\* The last event that writes a column writes what stands, and without one
\* the row has it already.
Newest(e, F) == \A f \in F : f.id <= e.id
SubscriptionDue(w) ==
    /\ \A e \in Wholes(w) : Newest(e, Wholes(w)) => TrueSubscription(w, Subscribes(e))
    /\ Wholes(w) = {} => TrueSubscription(w, row[w].subscription)
PlanDue(w) ==
    /\ \A e \in Priced(w) : Newest(e, Priced(w)) => TruePlan(w, Plans(e))
    /\ Priced(w) = {} /\ w \notin forced => TruePlan(w, row[w].plan)
StatusDue(w) ==
    /\ \A e \in Due(w) : Newest(e, Wholes(w)) => TrueStatus(w, Stands(e))
    /\ Wholes(w) = {} /\ w \notin forced => TrueStatus(w, row[w].status)

\* One event is handled at a time, the oldest, and it stays unanswered until it is.
InTurn ==
    /\ \A e \in unanswered : e.id <= emitted
    /\ \A h \in handlers :
          /\ handlers = {h} /\ h.event \in unanswered
          /\ \A e \in unanswered : h.event.id <= e.id
          /\ Whole(h.event) => h.target = subs[h.event.sub].workspace

SoldTo(w) == {i \in DOMAIN subs : subs[i].workspace = w}
NewestLives(w) == LiveOf(w) \subseteq Standing(w)
CatchesUp(w) == NewestLives(w) /\ SubscriptionDue(w) /\ PlanDue(w) /\ StatusDue(w)
Catching == ordered => InTurn /\ \A w \in Workspace \ tangled : CatchesUp(w)

\* What stands of a workspace is a matter of its own subscriptions.
LEMMA TruthStays ==
    ASSUME NEW w, SoldTo(w)' = SoldTo(w), \A i \in SoldTo(w) : subs'[i] = subs[i]
    PROVE  /\ Standing(w)' = Standing(w) /\ LiveOf(w)' = LiveOf(w)
           /\ \A x : /\ TrueSubscription(w, x)' <=> TrueSubscription(w, x)
                     /\ TruePlan(w, x)' <=> TruePlan(w, x)
                     /\ TrueStatus(w, x)' <=> TrueStatus(w, x)
<1>1. /\ Standing(w) = {i \in SoldTo(w) : subs[i].status # "canceled" /\ \A j \in SoldTo(w) : j <= i}
      /\ Standing(w)' = {i \in SoldTo(w)' : subs'[i].status # "canceled" /\ \A j \in SoldTo(w)' : j <= i}
  BY DEF Standing, SoldTo
<1>2. /\ LiveOf(w) = {i \in SoldTo(w) : LiveSub(i)}
      /\ LiveOf(w)' = {i \in SoldTo(w)' : LiveSub(i)'}
  BY DEF LiveOf, SoldTo
<1>3. Standing(w)' = Standing(w)
  BY <1>1
<1>4. \A i \in SoldTo(w) : LiveSub(i)' <=> LiveSub(i)
  BY DEF LiveSub
<1>5. LiveOf(w)' = LiveOf(w)
  BY <1>2, <1>4
<1>6. \A i \in Standing(w) : i \in SoldTo(w)
  BY <1>1
<1>7. \A x : \A i \in Standing(w) : Shows(i, x)' <=> Shows(i, x)
  BY <1>4, <1>6 DEF Shows
<1>8. \A x : TrueStatus(w, x)' <=> TrueStatus(w, x)
  BY <1>3, <1>7 DEF TrueStatus
<1>9. \A x : TruePlan(w, x)' <=> TruePlan(w, x)
  BY <1>3, <1>6 DEF TruePlan
<1>10. \A x : TrueSubscription(w, x)' <=> TrueSubscription(w, x)
  BY <1>3 DEF TrueSubscription
<1> QED BY <1>3, <1>5, <1>8, <1>9, <1>10

\* One subscription at most stands.
LEMMA OneStands ==
    ASSUME NEW w, subs \in Seq(SubscriptionRecord), NEW i \in Standing(w)
    PROVE  Standing(w) = {i}
<1>1. DOMAIN subs = 1..Len(subs) /\ Len(subs) \in Nat
  OBVIOUS
<1>2. \A j \in Standing(w) : j <= i /\ i <= j /\ j \in Nat /\ i \in Nat
  BY <1>1 DEF Standing
<1> QED BY <1>2

\* A step that neither concerns a workspace nor rewrites its row.
LEMMA OthersCatchUp ==
    ASSUME NEW w, CatchesUp(w), Due(w)' = Due(w),
           SoldTo(w)' = SoldTo(w), \A i \in SoldTo(w) : subs'[i] = subs[i],
           row'[w].subscription = row[w].subscription,
           w \notin forced' => /\ w \notin forced
                               /\ row'[w].plan = row[w].plan /\ row'[w].status = row[w].status
    PROVE  CatchesUp(w)'
<1>1. LiveOf(w)' = LiveOf(w) /\ Standing(w)' = Standing(w)
  BY TruthStays
<1>2. \A x : /\ TrueSubscription(w, x)' <=> TrueSubscription(w, x)
             /\ TruePlan(w, x)' <=> TruePlan(w, x)
             /\ TrueStatus(w, x)' <=> TrueStatus(w, x)
  BY TruthStays
<1>3. Wholes(w)' = Wholes(w) /\ Priced(w)' = Priced(w)
  BY DEF Wholes, Priced, Whole, Prices, About
<1>4. NewestLives(w)'
  BY <1>1 DEF CatchesUp, NewestLives
<1>5. SubscriptionDue(w)'
  BY <1>2, <1>3 DEF CatchesUp, SubscriptionDue, Newest, Subscribes
<1>6. PlanDue(w)'
  BY <1>2, <1>3 DEF CatchesUp, PlanDue, Newest, Plans
<1>7. StatusDue(w)'
  BY <1>2, <1>3 DEF CatchesUp, StatusDue, Newest, Stands, About, StatusFor
<1> QED BY <1>4, <1>5, <1>6, <1>7 DEF CatchesUp

\* Events the last of which is true of what stands now, one of which writes each
\* column that should now be something else, bring the row up to date.
LEMMA NewsCatchesUp ==
    ASSUME NEW w, NEW N, CatchesUp(w), Due(w)' = Due(w) \cup N, NewestLives(w)',
           \A e \in Due(w), n \in N : ~(n.id <= e.id),
           \E n \in N : Whole(n),
           (\E n \in N : Prices(n)) \/ (\A x : TruePlan(w, x)'),
           \A n \in N : /\ Whole(n) /\ Newest(n, {m \in N : Whole(m)})
                              => TrueSubscription(w, Subscribes(n))'
                        /\ Prices(n) /\ Newest(n, {m \in N : Prices(m)})
                              => TruePlan(w, Plans(n))'
                        /\ TrueStatus(w, Stands(n))'
    PROVE  CatchesUp(w)'
<1>1. /\ Wholes(w)' = Wholes(w) \cup {n \in N : Whole(n)}
      /\ Priced(w)' = Priced(w) \cup {n \in N : Prices(n)}
      /\ Wholes(w) \subseteq Due(w) /\ Priced(w) \subseteq Due(w)
  BY DEF Wholes, Priced, Whole, Prices, About
<1>2. \A e : Newest(e, Wholes(w))' => e \notin Due(w)
  BY <1>1 DEF Newest
<1>3. SubscriptionDue(w)'
  <2>1. Wholes(w)' # {}
    BY <1>1
  <2>2. \A e \in Wholes(w)' : Newest(e, Wholes(w))' => TrueSubscription(w, Subscribes(e))'
    <3>1. \A e \in Wholes(w)' : Newest(e, Wholes(w))' =>
             /\ e \in N /\ Whole(e) /\ Newest(e, {m \in N : Whole(m)})
      BY <1>1, <1>2 DEF Newest
    <3> QED BY <3>1
  <2> QED BY <2>1, <2>2 DEF SubscriptionDue, Subscribes, Newest
<1>4. PlanDue(w)'
  <2>1. CASE \A x : TruePlan(w, x)'
    BY <2>1 DEF PlanDue
  <2>2. CASE \E n \in N : Prices(n)
    <3>1. Priced(w)' # {}
      BY <1>1, <2>2
    <3>2. \A e \in Priced(w)' : Newest(e, Priced(w))' =>
             e \in N /\ Prices(e) /\ Newest(e, {m \in N : Prices(m)})
      BY <1>1, <2>2 DEF Newest
    <3> QED BY <3>1, <3>2 DEF PlanDue, Plans, Newest
  <2> QED BY <2>1, <2>2
<1>5. StatusDue(w)'
  <2>1. Wholes(w)' # {}
    BY <1>1
  <2>2. \A e \in Due(w)' : Newest(e, Wholes(w))' => TrueStatus(w, Stands(e))'
    BY <1>2
  <2> QED BY <2>1, <2>2 DEF StatusDue, Stands, Newest, About, StatusFor
<1> QED BY <1>3, <1>4, <1>5 DEF CatchesUp

\* Emit adds one event for each type, newer than any other.
LEMMA EmitTells ==
    ASSUME BillingIInv, InTurn, NEW types \in Seq(EventType), NEW i, Emit(types, i)
    PROVE  LET event(n) == [id |-> emitted + n, type |-> types[n], sub |-> i,
                            price |-> subs'[i].price, status |-> subs'[i].status]
           IN  /\ unanswered' = unanswered \cup {event(n) : n \in DOMAIN types}
               /\ \A e \in unanswered, n \in DOMAIN types : ~(event(n).id <= e.id)
               /\ UNCHANGED <<row, ordered, handlers, forced>>
<1>1. emitted \in Nat /\ \A e \in unanswered : e.id <= emitted /\ e.id \in Nat
  BY DEF InTurn, BillingIInv, BillingTypeOK, Event
<1>2. \A n \in DOMAIN types : n \in Nat \ {0}
  OBVIOUS
<1> QED BY <1>1, <1>2 DEF Emit

\* What is emitted comes after what is being handled.
LEMMA EmitKeepsTurn ==
    ASSUME BillingIInv, InTurn, NEW types \in Seq(EventType), NEW i, Emit(types, i),
           \A j \in DOMAIN subs : subs'[j].workspace = subs[j].workspace
    PROVE  InTurn'
<1> DEFINE event(n) == [id |-> emitted + n, type |-> types[n], sub |-> i,
                        price |-> subs'[i].price, status |-> subs'[i].status]
<1>1. /\ unanswered' = unanswered \cup {event(n) : n \in DOMAIN types}
      /\ emitted' = emitted + Len(types) /\ handlers' = handlers
  BY DEF Emit
<1>2. /\ emitted \in Nat /\ Len(types) \in Nat /\ DOMAIN types = 1..Len(types)
      /\ \A e \in unanswered : e.id <= emitted /\ e.id \in Nat
  BY DEF InTurn, BillingIInv, BillingTypeOK, Event
<1>3. \A n \in DOMAIN types : event(n).id <= emitted' /\ \A e \in unanswered : e.id <= event(n).id
  BY <1>1, <1>2
<1> HIDE DEF event
<1>4. \A e \in unanswered' : e.id <= emitted'
  BY <1>1, <1>2, <1>3
<1>5. ASSUME NEW h \in handlers'
      PROVE  /\ handlers' = {h} /\ h.event \in unanswered'
             /\ \A e \in unanswered' : h.event.id <= e.id
             /\ Whole(h.event) => h.target = subs'[h.event.sub].workspace
  <2>1. h.event \in unanswered /\ h.event.sub \in DOMAIN subs
    BY <1>1, <1>5 DEF InTurn, BillingIInv, Custody
  <2> QED BY <1>1, <1>3, <1>5, <2>1 DEF InTurn
<1> QED BY <1>4, <1>5 DEF InTurn, Whole, About

\* A workspace that buys its first subscription, or one after the last has ended.
LEMMA PayCatchesUp ==
    ASSUME BillingIInv, ordered, Catching, NEW s \in sessions, Pay(s)
    PROVE  Catching'
<1>0. PICK status \in {"active", "incomplete"} :
           /\ subs' = Append(subs, [workspace |-> s.workspace, customer |-> s.customer,
                                    price |-> s.price, status |-> status])
           /\ Emit(IF status = "active" THEN <<"created", "paid", "completed">>
                                        ELSE <<"created", "completed">>, Len(subs'))
  BY DEF Pay
<1> DEFINE u == s.workspace
           i == Len(subs')
           types == IF status = "active" THEN <<"created", "paid", "completed">>
                                         ELSE <<"created", "completed">>
           event(n) == [id |-> emitted + n, type |-> types[n], sub |-> i,
                        price |-> subs'[i].price, status |-> subs'[i].status]
           N == {event(n) : n \in DOMAIN types}
<1>1. /\ types \in Seq(EventType) /\ 1 \in DOMAIN types /\ types[1] = "created"
      /\ \A n \in DOMAIN types : types[n] \in {"created", "completed", "paid"}
      /\ status # "active" => \A n \in DOMAIN types : types[n] # "paid"
  <2>1. CASE status = "active"
    BY <2>1 DEF EventType
  <2>2. CASE status = "incomplete"
    BY <2>2 DEF EventType
  <2> QED BY <2>1, <2>2
<1>2. /\ subs \in Seq(SubscriptionRecord) /\ u \in Workspace
      /\ [workspace |-> u, customer |-> s.customer, price |-> s.price, status |-> status]
            \in SubscriptionRecord
      /\ subs' = Append(subs, [workspace |-> u, customer |-> s.customer,
                               price |-> s.price, status |-> status])
      /\ s.price \in Plan /\ Emit(types, i)
  BY <1>0 DEF BillingIInv, BillingTypeOK, SubscriptionRecord, SubStatus, Sold, Plan
<1> HIDE DEF types
<1>3. /\ DOMAIN subs' = DOMAIN subs \cup {i} /\ i \notin DOMAIN subs /\ i \in Nat \ {None}
      /\ \A j \in DOMAIN subs : subs'[j] = subs[j]
      /\ subs'[i].workspace = u /\ subs'[i].price = s.price /\ subs'[i].status = status
      /\ \A j \in DOMAIN subs : j <= i /\ j # i
  BY <1>2 DEF None
<1> HIDE DEF i
<1>4. InTurn /\ InTurn'
  BY <1>1, <1>2, <1>3, EmitKeepsTurn DEF Catching
<1>5. /\ unanswered' = unanswered \cup N
      /\ \A e \in unanswered, n \in N : ~(n.id <= e.id)
      /\ UNCHANGED <<row, ordered, handlers, forced>>
  BY <1>1, <1>2, <1>4, EmitTells
<1>6. \A e \in unanswered : e.sub \in DOMAIN subs
  BY DEF BillingIInv, Custody
<1>7. /\ \A n \in N : n.sub = i /\ n.price = s.price /\ n.status = status
                      /\ n.type \in {"created", "paid", "completed"}
                      /\ (status # "active" => n.type # "paid")
      /\ event(1) \in N /\ event(1).type = "created" /\ event(1).price = s.price
  BY <1>1, <1>3
<1> HIDE DEF N, event
<1>8. ASSUME NEW w \in Workspace \ tangled'
      PROVE  CatchesUp(w)'
  <2>1. /\ tangled \subseteq tangled' /\ (w = u => LiveOf(u) = {})
    BY DEF Pay
  <2>2. CatchesUp(w)
    BY <1>8, <2>1 DEF Catching
  <2>3. CASE w = u
    <3>1. Due(w)' = Due(w) \cup N
      BY <1>3, <1>5, <1>6, <1>7, <2>3 DEF Due
    <3>a. i \in DOMAIN subs' /\ i <= i
      BY <1>3
    <3>2. Standing(w)' = {i}
      <4>1. i \in Standing(w)'
        BY <1>3, <2>3, <3>a DEF Standing
      <4>2. \A j \in DOMAIN subs : ~(i <= j)
        BY <1>2, <1>3
      <4>3. \A j \in Standing(w)' : j = i
        BY <1>3, <2>3, <4>2 DEF Standing
      <4> QED BY <4>1, <4>3
    <3>3. NewestLives(w)'
      <4>1. LiveOf(w)' \subseteq {i}
        BY <1>3, <2>1, <2>3 DEF LiveOf, LiveSub
      <4> QED BY <3>2, <4>1 DEF NewestLives
    <3>4. /\ \A x : TruePlan(w, x)' <=> x = s.price
          /\ \A x : TrueSubscription(w, x)' <=> x = i
          /\ \A x : TrueStatus(w, x)' <=> (status = "active" => x = "active")
      BY <1>2, <1>3, <3>2 DEF TruePlan, TrueSubscription, TrueStatus, Shows, LiveSub
    <3>5. \A n \in N : /\ Whole(n) => TrueSubscription(w, Subscribes(n))'
                       /\ Prices(n) => TruePlan(w, Plans(n))'
                       /\ TrueStatus(w, Stands(n))'
      BY <1>7, <3>4 DEF Whole, Prices, About, Subscribes, Plans, Stands, StatusFor
    <3>6. (\E n \in N : Whole(n)) /\ (\E n \in N : Prices(n))
      BY <1>2, <1>7 DEF Whole, About, Prices
    <3>7. \A e \in Due(w), n \in N : ~(n.id <= e.id)
      BY <1>5 DEF Due
    <3> QED BY <2>2, <3>1, <3>3, <3>5, <3>6, <3>7, NewsCatchesUp
  <2>4. CASE w # u
    <3>1. Due(w)' = Due(w)
      BY <1>3, <1>5, <1>6, <1>7, <2>4 DEF Due
    <3>2. SoldTo(w)' = SoldTo(w) /\ \A j \in SoldTo(w) : subs'[j] = subs[j]
      BY <1>3, <2>4 DEF SoldTo
    <3> QED BY <1>5, <2>2, <3>1, <3>2, OthersCatchUp
  <2> QED BY <2>3, <2>4
<1> QED BY <1>4, <1>5, <1>8 DEF Catching

\* A subscription that changes: the last of its events says what it has become.
Says(status) ==
    CASE status = "canceled" -> {"updated", "deleted"}
      [] status = "active" -> {"updated", "paid"}
      [] status \in {"past_due", "unpaid"} -> {"updated", "failed"}
      [] OTHER -> {"updated"}
TellsOf(types, status) ==
    /\ \A n \in DOMAIN types : types[n] \in Says(status)
    /\ \E n \in DOMAIN types : types[n] \in {"updated", "deleted"}
    /\ status = "canceled" =>
          \E n \in DOMAIN types : /\ types[n] = "deleted"
                                  /\ \A m \in DOMAIN types : m # n => m < n

LEMMA BecomesCatchesUp ==
    ASSUME BillingIInv, ordered, Catching, NEW i \in DOMAIN subs, NEW price \in Price,
           NEW status \in SubStatus, LiveSub(i), tangled' = tangled,
           subs' = [subs EXCEPT ![i] = [workspace |-> @.workspace, customer |-> @.customer,
                                       price |-> price, status |-> status]],
           NEW told \in Seq(EventType), Emit(told, i), TellsOf(told, status)
    PROVE  Catching'
<1> DEFINE u == subs[i].workspace
           event(n) == [id |-> emitted + n, type |-> told[n], sub |-> i,
                        price |-> subs'[i].price, status |-> subs'[i].status]
           N == {event(n) : n \in DOMAIN told}
<1>1. subs \in Seq(SubscriptionRecord)
  BY DEF BillingIInv, BillingTypeOK
<1>2. /\ DOMAIN subs' = DOMAIN subs /\ i \in Nat \ {None}
      /\ \A j \in DOMAIN subs : j # i => subs'[j] = subs[j]
      /\ \A j \in DOMAIN subs : subs'[j].workspace = subs[j].workspace
      /\ subs'[i].price = price /\ subs'[i].status = status
  BY <1>1 DEF None
<1>3. InTurn /\ InTurn'
  BY <1>2, EmitKeepsTurn DEF Catching
<1>4. /\ unanswered' = unanswered \cup N
      /\ \A e \in unanswered, n \in N : ~(n.id <= e.id)
      /\ UNCHANGED <<row, ordered, handlers, forced>>
  BY <1>3, EmitTells
<1>5. \A e \in unanswered : e.sub \in DOMAIN subs
  BY DEF BillingIInv, Custody
<1>6. /\ \A n \in N : n.sub = i /\ n.price = price /\ n.status = status /\ n.type \in Says(status)
      /\ \E n \in N : n.type \in {"updated", "deleted"}
      /\ status = "canceled" =>
            \E d \in N : d.type = "deleted" /\ \A m \in N : d.id <= m.id => m = d
  <2>1. /\ \A n \in DOMAIN told : event(n) \in N /\ event(n).type = told[n] /\ event(n).id = emitted + n
        /\ \A m \in N : \E n \in DOMAIN told : m = event(n)
    OBVIOUS
  <2>2. \A n \in N : n.sub = i /\ n.price = price /\ n.status = status /\ n.type \in Says(status)
    BY <1>2 DEF TellsOf
  <2>3. \E n \in N : n.type \in {"updated", "deleted"}
    BY <2>1 DEF TellsOf
  <2>4. ASSUME status = "canceled"
        PROVE  \E d \in N : d.type = "deleted" /\ \A m \in N : d.id <= m.id => m = d
    <3>1. PICK k \in DOMAIN told : told[k] = "deleted" /\ \A m \in DOMAIN told : m # k => m < k
      BY <2>4 DEF TellsOf
    <3>2. emitted \in Nat /\ DOMAIN told \subseteq Nat
      BY DEF BillingIInv, BillingTypeOK
    <3>3. \A m \in DOMAIN told : emitted + k <= emitted + m => m = k
      BY <3>1, <3>2
    <3> HIDE DEF event, N
    <3>4. ASSUME NEW m \in N, event(k).id <= m.id PROVE m = event(k)
      <4>1. PICK n \in DOMAIN told : m = event(n)
        BY <2>1
      <4>2. emitted + k <= emitted + n
        BY <2>1, <3>4, <4>1
      <4> QED BY <3>3, <4>1, <4>2
    <3> QED BY <2>1, <3>1, <3>4
  <2> QED BY <2>2, <2>3, <2>4
<1> HIDE DEF N, event
<1>7. ASSUME NEW w \in Workspace \ tangled'
      PROVE  CatchesUp(w)'
  <2>1. CatchesUp(w)
    BY <1>7 DEF Catching
  <2>2. CASE w = u
    <3>1. Due(w)' = Due(w) \cup N
      BY <1>2, <1>4, <1>5, <1>6, <2>2 DEF Due
    <3>2. i \in LiveOf(w) /\ i \in Standing(w) /\ \A j \in LiveOf(w) : j = i
      <4>1. i \in LiveOf(w) /\ LiveOf(w) \subseteq Standing(w)
        BY <2>1, <2>2 DEF LiveOf, CatchesUp, NewestLives
      <4>2. Standing(w) = {i}
        BY <1>1, <4>1, OneStands
      <4> QED BY <4>1, <4>2
    <3>3. Standing(w)' = IF status = "canceled" THEN {} ELSE {i}
      <4>1. \A j \in DOMAIN subs : subs[j].workspace = w => j <= i
        BY <3>2 DEF Standing
      <4>2. Standing(w)' \subseteq {i}
        <5>1. ASSUME NEW j \in Standing(w)' PROVE j = i
          <6>1. /\ j \in DOMAIN subs /\ subs[j].workspace = w /\ i <= j
            BY <1>2, <2>2, <5>1 DEF Standing
          <6>2. j \in Nat /\ i \in Nat /\ j <= i
            BY <1>1, <1>2, <4>1, <6>1
          <6> QED BY <6>1, <6>2
        <5> QED BY <5>1
      <4>3. i \in Standing(w)' <=> status # "canceled"
        BY <1>2, <2>2, <4>1 DEF Standing
      <4> QED BY <4>2, <4>3
    <3>4. NewestLives(w)'
      <4>1. \A j \in LiveOf(w)' : j = i \/ j \in LiveOf(w)
        BY <1>2 DEF LiveOf, LiveSub
      <4>2. i \in LiveOf(w)' => status # "canceled"
        BY <1>2 DEF LiveOf, LiveSub
      <4> QED BY <3>2, <3>3, <4>1, <4>2 DEF NewestLives
    <3>5. \A x : /\ TrueSubscription(w, x)' <=> x = IF status = "canceled" THEN None ELSE i
                 /\ TruePlan(w, x)' <=> IF status = "canceled" THEN x = "free"
                                        ELSE price \in Plan => x = price
                 /\ TrueStatus(w, x)' <=>
                       (status \notin {"canceled", "incomplete_expired", "incomplete"} =>
                           x = IF status \in {"past_due", "unpaid"} THEN "past_due" ELSE "active")
      BY <1>2, <3>3 DEF TrueSubscription, TruePlan, TrueStatus, Shows, LiveSub
    <3>6. \A n \in N : TrueStatus(w, Stands(n))'
      BY <1>6, <3>5 DEF Says, About, Stands, StatusFor, SubStatus
    <3>7. \A n \in N : /\ Whole(n) /\ Newest(n, {m \in N : Whole(m)})
                              => TrueSubscription(w, Subscribes(n))'
                       /\ Prices(n) /\ Newest(n, {m \in N : Prices(m)})
                              => TruePlan(w, Plans(n))'
      <4>1. CASE status # "canceled"
        <5>1. \A n \in N : n.type \in {"updated", "paid", "failed"} /\ n.sub = i /\ n.price = price
          BY <1>6, <4>1 DEF Says
        <5> QED BY <3>5, <4>1, <5>1 DEF Whole, Prices, About, Subscribes, Plans
      <4>2. CASE status = "canceled"
        <5>1. PICK d \in N : d.type = "deleted" /\ \A m \in N : d.id <= m.id => m = d
          BY <1>6, <4>2
        <5>2. Whole(d) /\ Prices(d)
          BY <5>1 DEF Whole, Prices, About
        <5>3. \A n \in N : \/ Newest(n, {m \in N : Whole(m)})
                           \/ Newest(n, {m \in N : Prices(m)}) => n = d
          BY <5>1, <5>2 DEF Newest
        <5>4. TrueSubscription(w, Subscribes(d))' /\ TruePlan(w, Plans(d))'
          BY <3>5, <4>2, <5>1 DEF Subscribes, Plans
        <5>5. \A n \in N : Newest(n, {m \in N : Whole(m)}) => n = d
          BY <5>1, <5>2 DEF Newest
        <5>6. \A n \in N : Newest(n, {m \in N : Prices(m)}) => n = d
          BY <5>1, <5>2 DEF Newest
        <5> QED BY <5>4, <5>5, <5>6
      <4> QED BY <4>1, <4>2
    <3>8. \E n \in N : Whole(n)
      BY <1>6 DEF Whole, About
    <3>9. (\E n \in N : Prices(n)) \/ (\A x : TruePlan(w, x)')
      BY <1>6, <3>5 DEF Prices
    <3>10. \A e \in Due(w), n \in N : ~(n.id <= e.id)
      BY <1>4 DEF Due
    <3> QED BY <2>1, <3>1, <3>4, <3>6, <3>7, <3>8, <3>9, <3>10, NewsCatchesUp
  <2>3. CASE w # u
    <3>1. Due(w)' = Due(w)
      BY <1>2, <1>4, <1>5, <1>6, <2>3 DEF Due
    <3>2. SoldTo(w)' = SoldTo(w) /\ \A j \in SoldTo(w) : subs'[j] = subs[j]
      BY <1>2, <2>3 DEF SoldTo
    <3> QED BY <1>4, <2>1, <3>1, <3>2, OthersCatchUp
  <2> QED BY <2>2, <2>3
<1> QED BY <1>3, <1>4, <1>7 DEF Catching

\* Two events of a change, in either order.
LEMMA EitherTells ==
    ASSUME NEW a \in {"failed", "paid"}, NEW types \in EitherWay(<<a, "updated">>)
    PROVE  types \in Seq({a, "updated"}) /\ \E n \in DOMAIN types : types[n] = "updated"
<1>1. <<a, "updated">> \in Seq({a, "updated"}) /\ 2 \in DOMAIN <<a, "updated">>
  OBVIOUS
<1>2. CASE types = <<a, "updated">>
  BY <1>1, <1>2
<1>3. CASE types = Reverse(<<a, "updated">>)
  <2>1. /\ Reverse(<<a, "updated">>) \in Seq({a, "updated"})
        /\ {Reverse(<<a, "updated">>)[n] : n \in DOMAIN Reverse(<<a, "updated">>)} =
           {<<a, "updated">>[n] : n \in DOMAIN <<a, "updated">>}
    BY <1>1, Reversed
  <2>2. "updated" \in {types[n] : n \in DOMAIN types}
    BY <1>1, <1>3, <2>1
  <2> QED BY <1>3, <2>1, <2>2
<1> QED BY <1>2, <1>3 DEF EitherWay

\* Whatever becomes of a subscription, in whichever order its events are told.
LEMMA ChangesCatchesUp ==
    ASSUME BillingIInv, ordered, Catching, NEW i \in DOMAIN subs, Changes(i)
    PROVE  Catching'
<1>1. subs[i].price \in Price /\ subs[i].status \in SubStatus
  <2>1. subs \in Seq(SubscriptionRecord)
    BY DEF BillingIInv, BillingTypeOK
  <2>2. subs[i] \in SubscriptionRecord
    BY <2>1
  <2> QED BY <2>2 DEF SubscriptionRecord
<1>2. PICK price \in Price, status \in SubStatus,
           told \in {{<<"updated">>}, EitherWay(<<"failed", "updated">>), EitherWay(<<"paid", "updated">>),
                    {<<"deleted">>, <<"updated", "deleted">>}} :
        /\ Becomes(i, price, status, told)
        /\ \/ told = {<<"updated">>} /\ status # "canceled"
           \/ told = EitherWay(<<"failed", "updated">>) /\ status \in {"past_due", "unpaid"}
           \/ told = EitherWay(<<"paid", "updated">>) /\ status = "active"
           \/ told = {<<"deleted">>, <<"updated", "deleted">>} /\ status = "canceled"
  <2>1. {"past_due", "unpaid", "paused", "active", "incomplete_expired", "canceled"} \subseteq SubStatus
    BY DEF SubStatus
  <2>2. LiveSub(i) => subs[i].status # "canceled"
    BY DEF LiveSub
  <2>3. CASE \E price \in Price \ {subs[i].price} : Becomes(i, price, subs[i].status, {<<"updated">>})
    <3>1. subs[i].status # "canceled"
      BY <2>2, <2>3 DEF Becomes
    <3> QED BY <1>1, <2>3, <3>1
  <2>4. CASE \E status \in {"past_due", "unpaid"} :
                Becomes(i, subs[i].price, status, EitherWay(<<"failed", "updated">>))
    BY <1>1, <2>1, <2>4
  <2>5. CASE \/ Becomes(i, subs[i].price, "paused", {<<"updated">>})
             \/ Becomes(i, subs[i].price, "active", EitherWay(<<"paid", "updated">>))
             \/ Becomes(i, subs[i].price, "incomplete_expired", {<<"updated">>})
             \/ Becomes(i, subs[i].price, "canceled", {<<"deleted">>, <<"updated", "deleted">>})
    BY <1>1, <2>1, <2>5
  <2> QED BY <2>3, <2>4, <2>5 DEF Changes
<1>3. PICK types \in told : Emit(types, i)
  BY <1>2 DEF Becomes
<1>4. types \in Seq(EventType) /\ TellsOf(types, status)
  <2>1. CASE told = {<<"updated">>} /\ status # "canceled"
    <3>1. types = <<"updated">>
      BY <1>3, <2>1
    <3>2. DOMAIN types = {1} /\ types[1] = "updated" /\ types \in Seq(EventType)
      BY <3>1 DEF EventType
    <3>3. "updated" \in Says(status)
      BY <2>1 DEF Says
    <3> QED BY <2>1, <3>2, <3>3 DEF TellsOf
  <2>2. CASE told = EitherWay(<<"failed", "updated">>) /\ status \in {"past_due", "unpaid"}
    <3>1. types \in Seq({"failed", "updated"}) /\ \E n \in DOMAIN types : types[n] = "updated"
      BY <1>3, <2>2, EitherTells
    <3> QED BY <2>2, <3>1 DEF TellsOf, Says, EventType
  <2>3. CASE told = EitherWay(<<"paid", "updated">>) /\ status = "active"
    <3>1. types \in Seq({"paid", "updated"}) /\ \E n \in DOMAIN types : types[n] = "updated"
      BY <1>3, <2>3, EitherTells
    <3> QED BY <2>3, <3>1 DEF TellsOf, Says, EventType
  <2>4. CASE types = <<"deleted">> /\ status = "canceled"
    BY <2>4 DEF TellsOf, Says, EventType
  <2>5. CASE types = <<"updated", "deleted">> /\ status = "canceled"
    <3>1. DOMAIN types = {1, 2} /\ types[1] = "updated" /\ types[2] = "deleted" /\ types \in Seq(EventType)
      BY <2>5 DEF EventType
    <3> QED BY <2>5, <3>1 DEF TellsOf, Says
  <2> QED BY <1>2, <1>3, <2>1, <2>2, <2>3, <2>4, <2>5
<1>5. /\ LiveSub(i) /\ tangled' = tangled
      /\ subs' = [subs EXCEPT ![i] = [workspace |-> @.workspace, customer |-> @.customer,
                                     price |-> price, status |-> status]]
  BY <1>2 DEF Becomes
<1> QED BY <1>3, <1>4, <1>5, BecomesCatchesUp

\* An invoice before the start or after the end says nothing about what is in force.
LEMMA InvoiceCatchesUp ==
    ASSUME BillingIInv, ordered, Catching, NEW i \in DOMAIN subs, FirstInvoice(i) \/ LastInvoice(i)
    PROVE  Catching'
<1>1. /\ subs' = subs /\ tangled \subseteq tangled'
      /\ \/ subs[i].status = "incomplete"
         \/ LiveOf(subs[i].workspace) # {} => subs[i].workspace \in tangled'
  BY DEF FirstInvoice, LastInvoice
<1>2. PICK types \in {<<"paid">>, <<"failed">>} : Emit(types, i)
  BY DEF FirstInvoice, LastInvoice
<1>3. types \in Seq(EventType) /\ \A n \in DOMAIN types : types[n] \in {"paid", "failed"}
  <2>1. CASE types = <<"paid">>
    BY <2>1 DEF EventType
  <2>2. CASE types = <<"failed">>
    BY <2>2 DEF EventType
  <2> QED BY <1>2, <2>1, <2>2
<1> DEFINE event(n) == [id |-> emitted + n, type |-> types[n], sub |-> i,
                        price |-> subs'[i].price, status |-> subs'[i].status]
           N == {event(n) : n \in DOMAIN types}
<1>4. InTurn /\ InTurn'
  BY <1>1, <1>2, <1>3, EmitKeepsTurn DEF Catching
<1>5. /\ unanswered' = unanswered \cup N
      /\ UNCHANGED <<row, ordered, handlers, forced>>
  BY <1>2, <1>3, <1>4, EmitTells
<1>6. \A n \in N : n.sub = i /\ n.type \in {"paid", "failed"}
  BY <1>3
<1> HIDE DEF N, event
<1>7. ASSUME NEW w \in Workspace \ tangled'
      PROVE  CatchesUp(w)'
  <2>1. CatchesUp(w)
    BY <1>1, <1>7 DEF Catching
  <2>2. Wholes(w)' = Wholes(w) /\ Priced(w)' = Priced(w)
    BY <1>1, <1>5, <1>6 DEF Wholes, Priced, Due, Whole, Prices, About
  <2>3. CASE w = subs[i].workspace
    <3>1. /\ Standing(w)' = Standing(w) /\ LiveOf(w)' = LiveOf(w)
          /\ \A x : /\ TrueSubscription(w, x)' <=> TrueSubscription(w, x)
                    /\ TruePlan(w, x)' <=> TruePlan(w, x)
                    /\ TrueStatus(w, x)' <=> TrueStatus(w, x)
      <4>1. SoldTo(w)' = SoldTo(w) /\ \A j \in SoldTo(w) : subs'[j] = subs[j]
        BY <1>1 DEF SoldTo
      <4> QED BY <4>1, TruthStays
    <3>2. \A x : TrueStatus(w, x)
      <4>1. ASSUME NEW j \in Standing(w), LiveSub(j) PROVE subs[j].status = "incomplete"
        <5>1. j \in LiveOf(w)
          BY <4>1 DEF Standing, LiveOf
        <5>2. subs[i].status = "incomplete"
          BY <1>1, <1>7, <2>3, <5>1
        <5>3. i \in LiveOf(w)
          BY <2>3, <5>2 DEF LiveOf, LiveSub
        <5>4. i \in Standing(w)
          BY <2>1, <5>3 DEF CatchesUp, NewestLives
        <5>5. subs \in Seq(SubscriptionRecord)
          BY DEF BillingIInv, BillingTypeOK
        <5>6. Standing(w) = {i}
          BY <5>4, <5>5, OneStands
        <5> QED BY <5>2, <5>6
      <4> QED BY <4>1 DEF TrueStatus, Shows
    <3>3. SubscriptionDue(w)'
      BY <1>5, <2>1, <2>2, <3>1 DEF CatchesUp, SubscriptionDue, Newest, Subscribes
    <3>4. PlanDue(w)'
      BY <1>5, <2>1, <2>2, <3>1 DEF CatchesUp, PlanDue, Newest, Plans
    <3>5. StatusDue(w)' /\ NewestLives(w)'
      BY <2>1, <3>1, <3>2 DEF CatchesUp, StatusDue, NewestLives
    <3> QED BY <3>3, <3>4, <3>5 DEF CatchesUp
  <2>4. CASE w # subs[i].workspace
    <3>1. Due(w)' = Due(w)
      BY <1>1, <1>5, <1>6, <2>4 DEF Due
    <3>2. SoldTo(w)' = SoldTo(w) /\ \A j \in SoldTo(w) : subs'[j] = subs[j]
      BY <1>1 DEF SoldTo
    <3> QED BY <1>5, <2>1, <3>1, <3>2, OthersCatchUp
  <2> QED BY <2>3, <2>4
<1> QED BY <1>4, <1>5, <1>7 DEF Catching

\* An event that is handled is the oldest: what it writes stands only if nothing
\* else is due, and then it is what Stripe has.
LEMMA HandleCatchesUp ==
    ASSUME BillingIInv, ordered, Catching, NEW h \in handlers, Handle(h)
    PROVE  Catching'
<1> DEFINE e == h.event
           u == subs[e.sub].workspace
           r == Applied(e, row[h.target])
<1>1. /\ handlers = {h} /\ handlers' = {} /\ e \in unanswered
      /\ \A f \in unanswered : e.id <= f.id
      /\ Whole(e) => h.target = u
      /\ h.target \in {Nobody, u} /\ u \in Workspace /\ u # Nobody
  <2>1. subs[e.sub] \in SubscriptionRecord
    BY DEF BillingIInv, BillingTypeOK, Custody
  <2> QED BY <2>1, BillingAssumption DEF Catching, InTurn, Handle, Answered, BillingIInv, Custody, SubscriptionRecord
<1>2. /\ unanswered' \in {unanswered, unanswered \ {e}}
      /\ UNCHANGED <<ordered, subs, emitted, tangled>>
      /\ row' = IF h.target = Nobody THEN row ELSE [row EXCEPT ![u] = r]
      /\ \A w \in forced : w \in forced' \/ (w = h.target /\ Prices(e))
  BY <1>1 DEF Handle, Answered, SetBilling, About, Prices
<1>3. InTurn'
  BY <1>1, <1>2 DEF Catching, InTurn
<1>4. ASSUME NEW w \in Workspace \ tangled'
      PROVE  CatchesUp(w)'
  <2>1. CatchesUp(w) /\ row \in [Workspace -> Row]
    BY <1>2, <1>4 DEF Catching, BillingIInv, BillingTypeOK
  <2>2. CASE w # u
    <3>1. Due(w)' = Due(w) /\ row'[w] = row[w] /\ (w \in forced => w \in forced')
      <4>1. Due(w)' = Due(w)
        BY <1>2, <2>2 DEF Due
      <4>2. row'[w] = row[w]
        <5> HIDE DEF r, u
        <5> QED BY <1>2, <2>2
      <4>3. w \in forced => w \in forced'
        BY <1>1, <1>2, <2>2, BillingAssumption
      <4> QED BY <4>1, <4>2, <4>3
    <3>2. SoldTo(w)' = SoldTo(w) /\ \A j \in SoldTo(w) : subs'[j] = subs[j]
      BY <1>2 DEF SoldTo
    <3> QED BY <1>2, <2>1, <3>1, <3>2, OthersCatchUp
  <2>3. CASE w = u
    <3>1. \A x : /\ TrueSubscription(w, x)' <=> TrueSubscription(w, x)
                 /\ TruePlan(w, x)' <=> TruePlan(w, x)
                 /\ TrueStatus(w, x)' <=> TrueStatus(w, x)
      BY <1>2, TruthStays DEF SoldTo
    <3>2. NewestLives(w)'
      BY <1>2, <2>1 DEF CatchesUp, NewestLives, LiveOf, LiveSub, Standing
    <3>3. /\ e \in Due(w) /\ Due(w)' \subseteq Due(w) /\ Due(w) \subseteq Due(w)' \cup {e}
          /\ Wholes(w)' \subseteq Wholes(w) /\ Wholes(w) \subseteq Wholes(w)' \cup {e}
          /\ Priced(w)' \subseteq Priced(w) /\ Priced(w) \subseteq Priced(w)' \cup {e}
          /\ Whole(e) <=> e \in Wholes(w)
          /\ Prices(e) <=> e \in Priced(w)
      BY <1>1, <1>2, <2>3 DEF Due, Wholes, Priced, Whole, Prices, About
    <3>4. \A f \in Due(w)' : /\ Newest(f, Wholes(w)') => Newest(f, Wholes(w))
                             /\ Newest(f, Priced(w)') => Newest(f, Priced(w))
      BY <1>1, <3>3 DEF Newest, Due
    <3>5. Wholes(w) \subseteq Due(w) /\ Priced(w) \subseteq Wholes(w)
      BY DEF Wholes, Priced, Whole, Prices, About
    <3>6. SubscriptionDue(w)'
      <4>1. \A f \in Wholes(w)' : Newest(f, Wholes(w)') => TrueSubscription(w, Subscribes(f))
        BY <2>1, <3>3, <3>4 DEF CatchesUp, SubscriptionDue, Wholes
      <4>2. ASSUME Wholes(w)' = {} PROVE TrueSubscription(w, row'[w].subscription)
        <5>1. CASE Wholes(w) = {}
          <6>1. row'[w].subscription = row[w].subscription
            BY <1>1, <1>2, <2>1, <2>3, <3>3, <5>1 DEF Applied, Whole, About, BillingIInv, BillingTypeOK, Event, EventType
          <6> QED BY <2>1, <5>1, <6>1 DEF CatchesUp, SubscriptionDue
        <5>2. CASE Wholes(w) # {}
          <6>1. Wholes(w) = {e}
            BY <3>3, <4>2, <5>2
          <6>2. row'[w].subscription = Subscribes(e) /\ Newest(e, Wholes(w))
            BY <1>1, <1>2, <2>1, <2>3, <6>1 DEF Applied, Wholes, Whole, About, Subscribes, Newest, Due, BillingIInv, BillingTypeOK, Event
          <6> QED BY <2>1, <6>1, <6>2 DEF CatchesUp, SubscriptionDue
        <5> QED BY <5>1, <5>2
      <4> QED BY <3>1, <4>1, <4>2 DEF SubscriptionDue, Newest, Subscribes
    <3>7. PlanDue(w)'
      <4>1. \A f \in Priced(w)' : Newest(f, Priced(w)') => TruePlan(w, Plans(f))
        BY <2>1, <3>3, <3>4 DEF CatchesUp, PlanDue, Priced
      <4>2. ASSUME Priced(w)' = {}, w \notin forced' PROVE TruePlan(w, row'[w].plan)
        <5>1. CASE Priced(w) = {}
          <6>1. row'[w].plan = row[w].plan
            BY <1>1, <1>2, <2>1, <2>3, <3>3, <5>1 DEF Applied, Prices
          <6>2. w \notin forced
            BY <1>2, <3>3, <4>2, <5>1
          <6> QED BY <2>1, <5>1, <6>1, <6>2 DEF CatchesUp, PlanDue
        <5>2. CASE Priced(w) # {}
          <6>1. Priced(w) = {e}
            BY <3>3, <4>2, <5>2
          <6>2. row'[w].plan = Plans(e) /\ Newest(e, Priced(w))
            BY <1>1, <1>2, <2>1, <2>3, <3>3, <3>5, <6>1 DEF Applied, Prices, Plans, Newest, Due, BillingIInv, BillingTypeOK, Event
          <6> QED BY <2>1, <6>1, <6>2 DEF CatchesUp, PlanDue
        <5> QED BY <5>1, <5>2
      <4> QED BY <3>1, <4>1, <4>2 DEF PlanDue, Newest, Plans
    <3>8. StatusDue(w)'
      <4>1. \A f \in Due(w)' : Newest(f, Wholes(w)') => TrueStatus(w, Stands(f))
        BY <2>1, <3>3, <3>4 DEF CatchesUp, StatusDue
      <4>2. ASSUME Wholes(w)' = {}, w \notin forced' PROVE TrueStatus(w, row'[w].status)
        <5>1. Newest(e, Wholes(w))
          BY <1>1, <3>3, <4>2 DEF Newest
        <5>2. TrueStatus(w, Stands(e))
          BY <2>1, <3>3, <5>1 DEF CatchesUp, StatusDue
        <5>3. CASE h.target = Nobody
          <6>1. row' = row /\ Wholes(w) = {} /\ w \notin forced
            BY <1>1, <1>2, <2>3, <3>3, <4>2, <5>3
          <6> QED BY <2>1, <6>1 DEF CatchesUp, StatusDue
        <5>4. CASE h.target # Nobody
          <6>1. row'[w].status = Stands(e)
            BY <1>1, <1>2, <2>1, <2>3, <5>4 DEF Applied, Stands
          <6> QED BY <5>2, <6>1
        <5> QED BY <5>3, <5>4
      <4> QED BY <3>1, <4>1, <4>2 DEF StatusDue, Newest, Stands, About, StatusFor
    <3> QED BY <3>2, <3>6, <3>7, <3>8 DEF CatchesUp
  <2> QED BY <2>2, <2>3
<1> QED BY <1>2, <1>3, <1>4 DEF Catching

\* A webhook is taken on when no other is, for the oldest event.
LEMMA ReceiveCatchesUp ==
    ASSUME BillingIInv, ordered, Catching, NEW e \in unanswered, Receive(e)
    PROVE  Catching'
<1> DEFINE h == [event |-> e, target |-> Target(e)]
<1>1. /\ handlers' = {h} /\ \A f \in unanswered : e.id <= f.id
      /\ UNCHANGED <<row, ordered, subs, unanswered, emitted, tangled, forced>>
  BY DEF Receive, stripeVars, marks
<1>2. Whole(e) => Target(e) = subs[e.sub].workspace
  <2>1. \A w \in ByCustomer(subs[e.sub].customer) : w \in Workspace /\ w # Nobody
    BY BillingAssumption DEF ByCustomer
  <2>2. Target(e) \in {Nobody, subs[e.sub].workspace}
    BY TargetOwns
  <2> QED BY <2>1, <2>2 DEF Target, Whole, About
<1>3. InTurn'
  BY <1>1, <1>2 DEF Catching, InTurn, Whole, About
<1>4. ASSUME NEW w \in Workspace \ tangled'
      PROVE  CatchesUp(w)'
  <2>1. CatchesUp(w) /\ Due(w)' = Due(w)
    BY <1>1, <1>4 DEF Catching, Due
  <2>2. SoldTo(w)' = SoldTo(w) /\ \A j \in SoldTo(w) : subs'[j] = subs[j]
    BY <1>1 DEF SoldTo
  <2> QED BY <1>1, <2>1, <2>2, OthersCatchUp
<1> QED BY <1>1, <1>3, <1>4 DEF Catching

\* A webhook that fails, clicks, and what an operator forces, which the history
\* remembers until the next event that prices the workspace.
LEMMA RestCatchesUp ==
    ASSUME BillingIInv, ordered, Catching,
           \/ \E k \in Checkout, w \in Workspace, price \in Sold \cup {"portal"} : Asks(k, w, price)
           \/ \E k \in Checkout : Mint(k) \/ KeepCustomer(k) \/ OpenSession(k) \/ GivesUp(k)
           \/ \E w \in Workspace, lever \in Levers : ForcePlan(w, lever)
           \/ \E h \in handlers : HandleFails(h)
           \/ UNCHANGED billingVars
    PROVE  Catching'
<1>1. /\ UNCHANGED <<ordered, subs, unanswered, emitted, tangled>>
      /\ handlers' \subseteq handlers /\ forced \subseteq forced'
  BY DEF Asks, Mint, KeepCustomer, OpenSession, GivesUp, ForcePlan, HandleFails, stripeVars, marks, billingVars
<1>2. InTurn'
  BY <1>1 DEF Catching, InTurn, Whole, About
<1>3. ASSUME NEW w \in Workspace
      PROVE  /\ row'[w].subscription = row[w].subscription
             /\ w \notin forced' => row'[w].plan = row[w].plan /\ row'[w].status = row[w].status
  <2>0. row \in [Workspace -> Row]
    BY DEF BillingIInv, BillingTypeOK
  <2>1. CASE \E v \in Workspace, lever \in Levers : ForcePlan(v, lever)
    <3>1. PICK v \in Workspace, lever \in Levers : ForcePlan(v, lever)
      BY <2>1
    <3>2. /\ row' = [row EXCEPT ![v] = [row[v] EXCEPT !.plan = lever.plan, !.status = lever.status]]
          /\ v \in forced'
      BY <3>1 DEF ForcePlan, SetBilling
    <3>3. row[v] \in Row /\ row[w] \in Row
      BY <2>0
    <3> QED BY <2>0, <3>2, <3>3 DEF Row
  <2>2. CASE \E k \in Checkout : KeepCustomer(k)
    <3>1. PICK k \in Checkout : KeepCustomer(k)
      BY <2>2
    <3> DEFINE v == checkout[k].workspace
    <3>2. v \in Workspace /\ row' = [row EXCEPT ![v] = [row[v] EXCEPT !.customer = checkout[k].customer]]
      BY <3>1 DEF KeepCustomer, SetBilling, BillingIInv, Custody
    <3>3. row[v] \in Row /\ row[w] \in Row
      BY <2>0, <3>2
    <3> HIDE DEF v
    <3> QED BY <2>0, <3>2, <3>3 DEF Row
  <2>3. CASE \/ \E k \in Checkout, v \in Workspace, price \in Sold \cup {"portal"} : Asks(k, v, price)
             \/ \E k \in Checkout : Mint(k) \/ OpenSession(k) \/ GivesUp(k)
             \/ \E h \in handlers : HandleFails(h)
             \/ UNCHANGED billingVars
    BY <2>3 DEF Asks, Mint, OpenSession, GivesUp, HandleFails, billingVars
  <2> QED BY <2>1, <2>2, <2>3
<1>4. ASSUME NEW w \in Workspace \ tangled'
      PROVE  CatchesUp(w)'
  <2>1. CatchesUp(w) /\ Due(w)' = Due(w)
    BY <1>1, <1>4 DEF Catching, Due
  <2>2. SoldTo(w)' = SoldTo(w) /\ \A j \in SoldTo(w) : subs'[j] = subs[j]
    BY <1>1 DEF SoldTo
  <2> QED BY <1>1, <1>3, <2>1, <2>2, OthersCatchUp
<1> QED BY <1>1, <1>2, <1>4 DEF Catching

\* Events that come in order leave the row of a workspace naming the subscription
\* that stands (the newest, unless it was deleted), on its plan and with its status,
\* however often each comes and whatever fails, unless it is billed on two at once
\* or an operator's plan is in force (applyWebhook, stripe.server.ts:351).
THEOREM InStepHolds == BillingSpec => []InStep
<1>1. BillingInit => Catching
  <2> SUFFICES ASSUME BillingInit PROVE InTurn /\ \A w \in Workspace : CatchesUp(w)
    BY DEF Catching
  <2>1. InTurn
    BY DEF BillingInit, InTurn
  <2>2. ASSUME NEW w \in Workspace PROVE CatchesUp(w)
    <3>1. /\ unanswered = {} /\ LiveOf(w) = {} /\ Standing(w) = {}
          /\ row[w].plan = "free" /\ row[w].subscription = None
      BY DEF BillingInit, LiveOf, Standing
    <3> QED BY <3>1 DEF CatchesUp, NewestLives, SubscriptionDue, PlanDue, StatusDue, Due, Wholes,
                        Priced, TrueSubscription, TruePlan, TrueStatus
  <2> QED BY <2>1, <2>2
<1>2. BillingIInv /\ Catching /\ [BillingNext]_billingVars => Catching'
  <2> SUFFICES ASSUME BillingIInv, Catching, [BillingNext]_billingVars PROVE Catching'
    OBVIOUS
  <2>0. CASE ~ordered
    <3>1. ordered' = ordered
      BY DEF BillingNext, Asks, Mint, KeepCustomer, OpenSession, GivesUp, ForcePlan, Pay, Changes, Becomes,
             FirstInvoice, LastInvoice, Emit, Receive, Handle, HandleFails, billingVars
    <3> QED BY <2>0, <3>1 DEF Catching
  <2>1. CASE ordered /\ \E s \in sessions : Pay(s)
    BY <2>1, PayCatchesUp
  <2>2. CASE ordered /\ \E i \in DOMAIN subs : Changes(i) \/ FirstInvoice(i) \/ LastInvoice(i)
    BY <2>2, ChangesCatchesUp, InvoiceCatchesUp
  <2>3. CASE ordered /\ \E e \in unanswered : Receive(e)
    BY <2>3, ReceiveCatchesUp
  <2>4. CASE ordered /\ \E h \in handlers : Handle(h)
    BY <2>4, HandleCatchesUp
  <2>5. CASE /\ ordered
             /\ \/ \E k \in Checkout, w \in Workspace, price \in Sold \cup {"portal"} : Asks(k, w, price)
                \/ \E k \in Checkout : Mint(k) \/ KeepCustomer(k) \/ OpenSession(k) \/ GivesUp(k)
                \/ \E w \in Workspace, lever \in Levers : ForcePlan(w, lever)
                \/ \E h \in handlers : HandleFails(h)
                \/ UNCHANGED billingVars
    BY <2>5, RestCatchesUp
  <2> QED BY <2>0, <2>1, <2>2, <2>3, <2>4, <2>5 DEF BillingNext
<1>3. BillingIInv /\ Catching => InStep
  <2> SUFFICES ASSUME Catching, ordered, AllHandled, NEW w \in Workspace \ (tangled \cup forced)
               PROVE  Matches(w)
    BY DEF InStep
  <2>1. CatchesUp(w) /\ Wholes(w) = {} /\ Priced(w) = {}
    BY DEF Catching, AllHandled, Wholes, Priced, Due
  <2>2. /\ TrueSubscription(w, row[w].subscription) /\ TruePlan(w, row[w].plan)
        /\ TrueStatus(w, row[w].status)
    BY <2>1 DEF CatchesUp, SubscriptionDue, PlanDue, StatusDue
  <2> QED BY <2>2 DEF Matches, TrueSubscription, TruePlan, TrueStatus
<1> QED BY <1>1, <1>2, <1>3, BillingInductive, PTL DEF BillingSpec

-----------------------------------------------------------------------------
(* Geometry.                                                               *)

OnGrid(n) == SnapToGrid(n) = n

(* A card as the canvas keeps it: within the contract, on the grid and on   *)
(* the canvas.                                                             *)
InPlace(r) ==
    /\ r \in Rect /\ Accepted(r)
    /\ OnGrid(r.x) /\ OnGrid(r.y) /\ OnGrid(r.w) /\ OnGrid(r.h)
    /\ r.x + r.w <= CANVAS_WIDTH

LEMMA SnapIsOnGrid ==
    ASSUME NEW n \in Int
    PROVE  SnapToGrid(n) \in Int /\ OnGrid(SnapToGrid(n))
BY DEF SnapToGrid, OnGrid, GRID

LEMMA GridSums ==
    ASSUME NEW a \in Int, NEW b \in Int, OnGrid(a), OnGrid(b)
    PROVE  OnGrid(a + b) /\ OnGrid(a - b)
BY DEF OnGrid, SnapToGrid, GRID

LEMMA GridBounds ==
    /\ OnGrid(0) /\ OnGrid(MIN_WIDGET_W) /\ OnGrid(MIN_WIDGET_H)
    /\ OnGrid(MAX_WIDGET_H) /\ OnGrid(MAX_WIDGET_Y) /\ OnGrid(CANVAS_WIDTH)
BY DEF OnGrid, SnapToGrid, GRID, MIN_WIDGET_W, MIN_WIDGET_H, MAX_WIDGET_H,
       MAX_WIDGET_Y, CANVAS_WIDTH

LEMMA Sizes ==
    /\ MIN_WIDGET_W \in Nat /\ CANVAS_WIDTH \in Nat /\ MIN_WIDGET_W <= CANVAS_WIDTH
    /\ MIN_WIDGET_H \in Nat /\ MAX_WIDGET_H \in Nat /\ MIN_WIDGET_H <= MAX_WIDGET_H
    /\ MAX_WIDGET_Y \in Nat
BY DEF MIN_WIDGET_W, MIN_WIDGET_H, MAX_WIDGET_H, MAX_WIDGET_Y, CANVAS_WIDTH

LEMMA ClampIsOnGrid ==
    ASSUME NEW n \in Int, NEW lo \in Int, NEW hi \in Int, lo <= hi,
           OnGrid(lo), OnGrid(hi)
    PROVE  /\ Clamp(SnapToGrid(n), lo, hi) \in lo .. hi
           /\ OnGrid(Clamp(SnapToGrid(n), lo, hi))
<1>1. PICK m \in Int : m = SnapToGrid(n) /\ OnGrid(m)
  BY SnapIsOnGrid
<1>2. Clamp(m, lo, hi) \in lo .. hi
  BY DEF Clamp, Lesser, Greater
<1>3. Clamp(m, lo, hi) = m \/ Clamp(m, lo, hi) = lo \/ Clamp(m, lo, hi) = hi
  BY DEF Clamp, Lesser, Greater
<1> QED BY <1>1, <1>2, <1>3

LEMMA ClampKeeps ==
    ASSUME NEW lo \in Int, NEW hi \in Int, NEW n \in lo .. hi, OnGrid(n)
    PROVE  Clamp(SnapToGrid(n), lo, hi) = n
<1>1. SnapToGrid(n) = n
  BY DEF OnGrid
<1>2. Clamp(n, lo, hi) = n
  BY DEF Clamp, Lesser, Greater
<1> QED BY <1>1, <1>2

LEMMA NormaliseFields ==
    ASSUME NEW r
    PROVE  LET q == NormaliseRect(r)
           IN  /\ q = [x |-> q.x, y |-> q.y, w |-> q.w, h |-> q.h]
               /\ q.w = Clamp(SnapToGrid(r.w), MIN_WIDGET_W, CANVAS_WIDTH)
               /\ q.x = Clamp(SnapToGrid(r.x), 0, CANVAS_WIDTH - q.w)
               /\ q.y = Clamp(SnapToGrid(r.y), 0, MAX_WIDGET_Y)
               /\ q.h = Clamp(SnapToGrid(r.h), MIN_WIDGET_H, MAX_WIDGET_H)
BY Zenon DEF NormaliseRect

(* normaliseRect makes any rect one that the board can be saved with, on    *)
(* the grid and not past the right edge of the canvas (canvas.ts).          *)
THEOREM NormaliseLegal ==
    ASSUME NEW r \in Rect
    PROVE  InPlace(NormaliseRect(r))
<1> DEFINE q == NormaliseRect(r)
<1>1. r.x \in Int /\ r.y \in Int /\ r.w \in Int /\ r.h \in Int
  BY DEF Rect
<1>2. /\ q = [x |-> q.x, y |-> q.y, w |-> q.w, h |-> q.h]
      /\ q.w = Clamp(SnapToGrid(r.w), MIN_WIDGET_W, CANVAS_WIDTH)
      /\ q.x = Clamp(SnapToGrid(r.x), 0, CANVAS_WIDTH - q.w)
      /\ q.y = Clamp(SnapToGrid(r.y), 0, MAX_WIDGET_Y)
      /\ q.h = Clamp(SnapToGrid(r.h), MIN_WIDGET_H, MAX_WIDGET_H)
  BY NormaliseFields, Zenon
<1> HIDE DEF q
<1>3. q.w \in MIN_WIDGET_W .. CANVAS_WIDTH /\ OnGrid(q.w)
  BY <1>1, <1>2, Sizes, GridBounds, ClampIsOnGrid
<1>4. q.h \in MIN_WIDGET_H .. MAX_WIDGET_H /\ OnGrid(q.h)
  BY <1>1, <1>2, Sizes, GridBounds, ClampIsOnGrid
<1>5. q.y \in 0 .. MAX_WIDGET_Y /\ OnGrid(q.y)
  BY <1>1, <1>2, Sizes, GridBounds, ClampIsOnGrid
<1>6. q.w \in Int /\ CANVAS_WIDTH - q.w \in Nat
  BY <1>3, Sizes
<1>7. OnGrid(CANVAS_WIDTH - q.w)
  <2>1. q.w \in Int /\ OnGrid(q.w) /\ CANVAS_WIDTH \in Int /\ OnGrid(CANVAS_WIDTH)
    BY <1>3, <1>6, Sizes, GridBounds
  <2> QED BY <2>1, GridSums, Zenon
<1>8. q.x \in 0 .. (CANVAS_WIDTH - q.w) /\ OnGrid(q.x)
  <2>1. PICK m \in Int : m = CANVAS_WIDTH - q.w /\ 0 <= m /\ OnGrid(m)
    BY <1>6, <1>7
  <2>2. Clamp(SnapToGrid(r.x), 0, m) \in 0 .. m /\ OnGrid(Clamp(SnapToGrid(r.x), 0, m))
    <3>1. 0 \in Int /\ OnGrid(0)
      BY GridBounds
    <3> QED BY <1>1, <2>1, <3>1, ClampIsOnGrid, Zenon
  <2> QED BY <1>2, <2>1, <2>2
<1>9. q \in Rect
  <2>1. q.x \in Int /\ q.y \in Int /\ q.w \in Int /\ q.h \in Int
    BY <1>4, <1>5, <1>6, <1>8, Sizes
  <2>2. [x |-> q.x, y |-> q.y, w |-> q.w, h |-> q.h] \in Rect
    BY <2>1 DEF Rect
  <2> QED BY <1>2, <2>2
<1>10. Accepted(q) /\ q.x + q.w <= CANVAS_WIDTH
  BY <1>3, <1>4, <1>5, <1>6, <1>8, Sizes DEF Accepted
<1> QED BY <1>3, <1>4, <1>5, <1>8, <1>9, <1>10 DEF InPlace, q

LEMMA PlacedFields ==
    ASSUME NEW r, InPlace(r)
    PROVE  /\ r = [x |-> r.x, y |-> r.y, w |-> r.w, h |-> r.h]
           /\ r.x \in Int /\ r.y \in Int /\ r.w \in Int /\ r.h \in Int
           /\ r.x \in 0 .. CANVAS_WIDTH - r.w /\ r.y \in 0 .. MAX_WIDGET_Y
           /\ r.w \in MIN_WIDGET_W .. CANVAS_WIDTH /\ r.h \in MIN_WIDGET_H .. MAX_WIDGET_H
           /\ OnGrid(r.x) /\ OnGrid(r.y) /\ OnGrid(r.w) /\ OnGrid(r.h)
BY Sizes DEF InPlace, Rect, Accepted

(* normaliseRect leaves a card where it is when it is already placed: what  *)
(* is read back from the server does not move (canvas.ts, readWidgets).     *)
THEOREM NormaliseKeeps ==
    ASSUME NEW r, InPlace(r)
    PROVE  NormaliseRect(r) = r
<1> DEFINE q == NormaliseRect(r)
<1>1. /\ q = [x |-> q.x, y |-> q.y, w |-> q.w, h |-> q.h]
      /\ q.w = Clamp(SnapToGrid(r.w), MIN_WIDGET_W, CANVAS_WIDTH)
      /\ q.x = Clamp(SnapToGrid(r.x), 0, CANVAS_WIDTH - q.w)
      /\ q.y = Clamp(SnapToGrid(r.y), 0, MAX_WIDGET_Y)
      /\ q.h = Clamp(SnapToGrid(r.h), MIN_WIDGET_H, MAX_WIDGET_H)
  BY NormaliseFields, Zenon
<1> HIDE DEF q
<1>2. q.w = r.w /\ q.h = r.h /\ q.y = r.y
  BY <1>1, PlacedFields, Sizes, ClampKeeps
<1>3. q.x = r.x
  <2>1. PICK m \in Int : m = CANVAS_WIDTH - r.w
    BY PlacedFields, Sizes
  <2>2. Clamp(SnapToGrid(r.x), 0, m) = r.x
    BY <2>1, PlacedFields, ClampKeeps
  <2> QED BY <1>1, <1>2, <2>1, <2>2
<1> QED BY <1>1, <1>2, <1>3, PlacedFields DEF q

(* One axis of a gesture that drags the near side: far is the side that     *)
(* stays, s where the pointer puts the near one.                           *)
Near(far, s, lo, hi, cap) ==
    Lesser(Greater(Greater(0, far - hi), s), Lesser(far - lo, cap))

LEMMA DragNear ==
    ASSUME NEW far \in Int, NEW s \in Int, NEW lo \in Int, NEW hi \in Int, NEW cap \in Int,
           OnGrid(far), OnGrid(s), OnGrid(lo), OnGrid(hi), OnGrid(cap),
           lo <= hi, lo <= far, 0 <= cap, far - hi <= cap
    PROVE  /\ Near(far, s, lo, hi, cap) \in Int /\ Near(far, s, lo, hi, cap) \in 0 .. cap
           /\ OnGrid(Near(far, s, lo, hi, cap))
           /\ far - Near(far, s, lo, hi, cap) \in lo .. hi
           /\ OnGrid(far - Near(far, s, lo, hi, cap))
<1> DEFINE o == Near(far, s, lo, hi, cap)
<1>0. o = Lesser(Greater(Greater(0, far - hi), s), Lesser(far - lo, cap))
  BY DEF Near
<1> HIDE DEF o
<1>1. OnGrid(far - hi) /\ OnGrid(far - lo) /\ OnGrid(0)
  BY GridSums, GridBounds
<1>2. o = 0 \/ o = far - hi \/ o = s \/ o = far - lo \/ o = cap
  BY <1>0 DEF Lesser, Greater
<1>3. o \in Int /\ o \in 0 .. cap /\ far - o \in lo .. hi
  BY <1>0 DEF Lesser, Greater
<1>4. OnGrid(o)
  BY <1>1, <1>2
<1>5. OnGrid(far - o)
  BY <1>3, <1>4, GridSums
<1> QED BY <1>3, <1>4, <1>5 DEF o

(* A card dragged by its west or north edge keeps its east or south edge    *)
(* where it is, however far the pointer goes and whatever limit is reached; *)
(* by its east or south edge it keeps its origin (canvas.tsx, resizeBy).    *)
THEOREM ResizeAnchored ==
    ASSUME NEW r, InPlace(r), NEW edge \in SUBSET {"n", "e", "s", "w"},
           NEW dx \in Int, NEW dy \in Int
    PROVE  LET q == NormaliseRect(ResizeBy(r, edge, dx, dy))
           IN  /\ IF "w" \in edge THEN q.x + q.w = r.x + r.w ELSE q.x = r.x
               /\ IF "n" \in edge THEN q.y + q.h = r.y + r.h ELSE q.y = r.y
<1> DEFINE p == ResizeBy(r, edge, dx, dy)
           q == NormaliseRect(p)
           right == r.x + r.w
           bottom == r.y + r.h
<1>1. /\ q.w = Clamp(SnapToGrid(p.w), MIN_WIDGET_W, CANVAS_WIDTH)
      /\ q.x = Clamp(SnapToGrid(p.x), 0, CANVAS_WIDTH - q.w)
      /\ q.y = Clamp(SnapToGrid(p.y), 0, MAX_WIDGET_Y)
      /\ q.h = Clamp(SnapToGrid(p.h), MIN_WIDGET_H, MAX_WIDGET_H)
  BY NormaliseFields, Zenon
<1>2. /\ "w" \in edge =>
          /\ p.x = Lesser(Greater(Greater(0, right - CANVAS_WIDTH), SnapToGrid(r.x + dx)),
                          right - MIN_WIDGET_W)
          /\ p.w = right - p.x
      /\ "w" \notin edge =>
          /\ p.x = r.x
          /\ \/ p.w = r.w
             \/ p.w = Lesser(SnapToGrid(r.w + dx), CANVAS_WIDTH - r.x)
  BY Zenon DEF ResizeBy
<1>3. /\ "n" \in edge =>
          /\ p.y = Lesser(Greater(Greater(0, bottom - MAX_WIDGET_H), SnapToGrid(r.y + dy)),
                          Lesser(bottom - MIN_WIDGET_H, MAX_WIDGET_Y))
          /\ p.h = bottom - p.y
      /\ "n" \notin edge => p.y = r.y
  BY Zenon DEF ResizeBy
<1> HIDE DEF p, q
<1>4. /\ right \in Int /\ bottom \in Int
      /\ OnGrid(right) /\ OnGrid(bottom)
      /\ MIN_WIDGET_W <= right /\ right <= CANVAS_WIDTH
      /\ MIN_WIDGET_H <= bottom /\ bottom - MAX_WIDGET_H <= MAX_WIDGET_Y
  <2>1. OnGrid(right) /\ OnGrid(bottom)
    BY PlacedFields, GridSums
  <2> QED BY <2>1, PlacedFields, Sizes
<1> HIDE DEF right, bottom
<1>5. ASSUME "w" \in edge PROVE q.x + q.w = right
  <2> DEFINE s == SnapToGrid(r.x + dx)
             cap == right - MIN_WIDGET_W
  <2>1. s \in Int /\ OnGrid(s)
    BY PlacedFields, SnapIsOnGrid
  <2>2. cap \in Int /\ OnGrid(cap) /\ 0 <= cap /\ right - CANVAS_WIDTH <= cap
    <3>1. OnGrid(cap)
      BY <1>4, Sizes, GridBounds, GridSums
    <3> QED BY <1>4, <3>1, Sizes
  <2>3. p.x = Near(right, s, MIN_WIDGET_W, CANVAS_WIDTH, cap)
    BY <1>2, <1>5, Zenon DEF Near, Lesser
  <2> HIDE DEF s, cap
  <2>4. /\ p.x \in Int /\ p.x \in 0 .. cap /\ OnGrid(p.x)
        /\ right - p.x \in MIN_WIDGET_W .. CANVAS_WIDTH /\ OnGrid(right - p.x)
    <3>1. /\ MIN_WIDGET_W \in Int /\ CANVAS_WIDTH \in Int /\ MIN_WIDGET_W <= CANVAS_WIDTH
          /\ OnGrid(MIN_WIDGET_W) /\ OnGrid(CANVAS_WIDTH)
      BY Sizes, GridBounds
    <3>2. PICK o : o = Near(right, s, MIN_WIDGET_W, CANVAS_WIDTH, cap)
      OBVIOUS
    <3>3. /\ o \in Int /\ o \in 0 .. cap /\ OnGrid(o)
          /\ right - o \in MIN_WIDGET_W .. CANVAS_WIDTH /\ OnGrid(right - o)
      BY <1>4, <2>1, <2>2, <3>1, <3>2, DragNear
    <3> QED BY <2>3, <3>2, <3>3
  <2>5. q.w = p.w /\ p.w = right - p.x
    BY <1>1, <1>2, <1>5, <2>4, Sizes, ClampKeeps
  <2>6. PICK m \in Int : m = CANVAS_WIDTH - p.w /\ p.x <= m
    BY <1>4, <2>4, <2>5, Sizes
  <2>7. Clamp(SnapToGrid(p.x), 0, m) = p.x
    BY <2>4, <2>6, ClampKeeps
  <2>8. q.x = p.x
    BY <1>1, <2>5, <2>6, <2>7
  <2> QED BY <1>4, <2>4, <2>5, <2>8
<1>6. ASSUME "w" \notin edge PROVE q.x = r.x
  <2>1. p.x = r.x /\ p.w \in Int /\ p.w <= CANVAS_WIDTH - r.x
    <3>1. SnapToGrid(r.w + dx) \in Int
      BY PlacedFields, SnapIsOnGrid
    <3> QED BY <1>2, <1>6, <3>1, PlacedFields, Sizes DEF Lesser
  <2>2. PICK v \in Int : v = SnapToGrid(p.w) /\ v <= CANVAS_WIDTH - r.x
    <3>1. PICK room \in Int : room = CANVAS_WIDTH - r.x /\ SnapToGrid(room) = room
      BY PlacedFields, Sizes, GridBounds, GridSums DEF OnGrid
    <3>2. PICK n \in Int : n = p.w /\ n <= room
      BY <2>1, <3>1
    <3>3. SnapToGrid(n) \in Int /\ SnapToGrid(n) <= SnapToGrid(room)
      BY <3>2 DEF SnapToGrid, GRID
    <3> QED BY <3>1, <3>2, <3>3
  <2>3. PICK room \in Int : room = CANVAS_WIDTH - r.x /\ MIN_WIDGET_W <= room
    BY PlacedFields, Sizes
  <2>4. q.w \in Int /\ q.w <= room
    BY <1>1, <2>2, <2>3, Sizes DEF Clamp, Lesser, Greater
  <2>5. PICK m \in Int : m = CANVAS_WIDTH - q.w /\ r.x <= m
    BY <2>3, <2>4, PlacedFields, Sizes
  <2>6. Clamp(SnapToGrid(r.x), 0, m) = r.x
    BY <2>5, PlacedFields, ClampKeeps
  <2> QED BY <1>1, <2>1, <2>5, <2>6
<1>7. ASSUME "n" \in edge PROVE q.y + q.h = bottom
  <2> DEFINE s == SnapToGrid(r.y + dy)
  <2>1. s \in Int /\ OnGrid(s)
    BY PlacedFields, SnapIsOnGrid
  <2>2. p.y = Near(bottom, s, MIN_WIDGET_H, MAX_WIDGET_H, MAX_WIDGET_Y)
    BY <1>3, <1>7, Zenon DEF Near
  <2> HIDE DEF s
  <2>3. /\ p.y \in Int /\ p.y \in 0 .. MAX_WIDGET_Y /\ OnGrid(p.y)
        /\ bottom - p.y \in MIN_WIDGET_H .. MAX_WIDGET_H /\ OnGrid(bottom - p.y)
    <3>1. /\ MIN_WIDGET_H \in Int /\ MAX_WIDGET_H \in Int /\ MAX_WIDGET_Y \in Int
          /\ MIN_WIDGET_H <= MAX_WIDGET_H /\ 0 <= MAX_WIDGET_Y
          /\ OnGrid(MIN_WIDGET_H) /\ OnGrid(MAX_WIDGET_H) /\ OnGrid(MAX_WIDGET_Y)
      BY Sizes, GridBounds
    <3>2. PICK o : o = Near(bottom, s, MIN_WIDGET_H, MAX_WIDGET_H, MAX_WIDGET_Y)
      OBVIOUS
    <3>3. /\ o \in Int /\ o \in 0 .. MAX_WIDGET_Y /\ OnGrid(o)
          /\ bottom - o \in MIN_WIDGET_H .. MAX_WIDGET_H /\ OnGrid(bottom - o)
      BY <1>4, <2>1, <3>1, <3>2, DragNear
    <3> QED BY <2>2, <3>2, <3>3
  <2>4. q.y = p.y
    BY <1>1, <2>3, Sizes, ClampKeeps
  <2>5. q.h = bottom - p.y
    <3>1. PICK n \in Int : n = bottom - p.y
      BY <1>4, <2>3
    <3> QED BY <1>1, <1>3, <1>7, <2>3, <3>1, Sizes, ClampKeeps
  <2> QED BY <1>4, <2>3, <2>4, <2>5
<1>8. ASSUME "n" \notin edge PROVE q.y = r.y
  BY <1>1, <1>3, <1>8, PlacedFields, Sizes, ClampKeeps
<1> QED BY <1>5, <1>6, <1>7, <1>8 DEF p, q, right, bottom

-----------------------------------------------------------------------------
(* The gate.  A save in progress never carries a newer edit than the last   *)
(* one, nor the last one while that still waits for its debounce; and no    *)
(* two saves carry the same edit.                                          *)
SavesInv ==
    /\ \A s \in saves : s.edit <= edits /\ (Pending => s.edit < edits)
    /\ \A s, t \in saves : s.edit = t.edit => s = t

Counters == TypeOK /\ GateIsTrue /\ SavesInv

IInv == Counters /\ PreviewShown

LEMMA SameCounters ==
    ASSUME Counters, UNCHANGED <<edits, confirmed, timer, saves, saving, waiting>>
    PROVE  Counters'
BY DEF Counters, TypeOK, GateIsTrue, SavesInv, Pending, Unsaved

(* Only the end of the last edit's own save can make it confirmed.          *)
LEMMA SettleKeeps ==
    ASSUME Counters, NEW done \in SUBSET saves, Settle(done),
           UNCHANGED <<edits, timer>>, waiting' \in BOOLEAN
    PROVE  Counters'
<1>1. /\ edits \in Nat /\ confirmed \in Nat /\ timer.edit \in Nat
      /\ \A s \in saves : s.edit \in Nat /\ s.edit <= edits /\ (Pending => s.edit < edits)
      /\ \A s, t \in saves : s.edit = t.edit => s = t
      /\ confirmed <= edits /\ (Pending => timer.edit = edits)
      /\ Unsaved <=> (Pending \/ \E s \in saves : s.edit = edits)
  BY DEF Counters, TypeOK, GateIsTrue, SavesInv
<1>2. /\ saves' = saves \ done /\ confirmed <= confirmed'
      /\ confirmed' \in {confirmed} \cup {s.edit : s \in done}
      /\ \A s \in done : s.edit <= confirmed'
  BY DEF Settle
<1>3. Pending' <=> Pending
  BY DEF Pending
<1>4. confirmed' \in Nat /\ confirmed' <= edits
  BY <1>1, <1>2
<1>5. ASSUME Unsaved' PROVE Pending \/ \E s \in saves' : s.edit = edits
  <2>1. confirmed' < edits
    BY <1>5 DEF Unsaved
  <2>2. Unsaved
    BY <1>1, <1>2, <1>4, <2>1 DEF Unsaved
  <2>3. CASE Pending
    BY <2>3
  <2>4. CASE \E s \in saves : s.edit = edits
    <3>1. PICK s \in saves : s.edit = edits
      BY <2>4
    <3>2. s \notin done
      BY <1>1, <1>2, <1>4, <2>1, <3>1
    <3> QED BY <1>2, <3>1, <3>2
  <2> QED BY <1>1, <2>2, <2>3, <2>4
<1>6. ASSUME Pending \/ \E s \in saves' : s.edit = edits PROVE Unsaved'
  <2>1. Unsaved
    BY <1>1, <1>2, <1>6
  <2>2. ASSUME NEW t \in done, confirmed' = t.edit PROVE t.edit < edits
    <3>1. CASE Pending
      BY <1>1, <2>2, <3>1
    <3>2. CASE \E s \in saves' : s.edit = edits
      <4>1. PICK s \in saves' : s.edit = edits
        BY <3>2
      <4>2. s \in saves /\ s # t
        BY <1>2, <4>1, <2>2
      <4>3. t.edit # edits
        BY <1>1, <4>1, <4>2
      <4> QED BY <1>1, <4>3
    <3> QED BY <1>6, <3>1, <3>2
  <2>3. confirmed' < edits
    BY <1>1, <1>2, <2>1, <2>2 DEF Unsaved
  <2> QED BY <2>3 DEF Unsaved
<1>7. saving' \in BOOLEAN /\ (saving' => saves' # {})
  <2>1. saving' = (saving /\ done = {})
    BY DEF Settle
  <2>2. saving => saves # {}
    BY DEF Counters, GateIsTrue
  <2> QED BY <1>2, <2>1, <2>2
<1>8. TypeOK'
  BY <1>1, <1>2, <1>4, <1>7 DEF TypeOK
<1>9. GateIsTrue'
  BY <1>1, <1>3, <1>4, <1>5, <1>6, <1>7 DEF GateIsTrue
<1>10. SavesInv'
  BY <1>1, <1>2, <1>3 DEF SavesInv
<1> QED BY <1>8, <1>9, <1>10 DEF Counters

(* A new edit waits for its debounce, or is on its way.                     *)
LEMMA PersistKeeps ==
    ASSUME Counters, waiting' \in BOOLEAN,
           NEW b, NEW pending, NEW next, NEW e, Persist(b, pending, next, e)
    PROVE  Counters'
<1>1. /\ edits \in Nat /\ confirmed \in Nat /\ confirmed <= edits
      /\ \A s \in saves : s.edit \in Nat /\ s.edit <= edits
      /\ \A s, t \in saves : s.edit = t.edit => s = t
      /\ saving \in BOOLEAN /\ (saving => saves # {})
  BY DEF Counters, TypeOK, GateIsTrue, SavesInv
<1>2. edits' = edits + 1 /\ confirmed' = confirmed /\ Unsaved'
  BY <1>1 DEF Persist, Unsaved
<1>3. CASE Debounced(e)
  <2>1. timer' = Payload(next, e) /\ saves' = saves /\ saving' = saving
    BY <1>3 DEF Persist, Armed
  <2>2. timer'.edit = edits + 1 /\ Pending'
    BY <1>1, <2>1 DEF Payload, Pending
  <2> QED BY <1>1, <1>2, <2>1, <2>2 DEF Counters, TypeOK, GateIsTrue, SavesInv
<1>4. CASE ~Debounced(e)
  <2> DEFINE p == Payload(next, e)
             new == [edit |-> p.edit, refetch |-> p.refetch, at |-> "sent"]
  <2>1. timer' = NoTimer /\ saves' = saves \cup {new} /\ saving' = TRUE
    BY <1>4 DEF Persist, Armed, Send
  <2>2. new.edit = edits + 1
    BY DEF Payload
  <2>3. timer'.edit = 0 /\ ~Pending'
    BY <2>1 DEF NoTimer, Pending
  <2> HIDE DEF new, p
  <2> QED BY <1>1, <1>2, <2>1, <2>2, <2>3 DEF Counters, TypeOK, GateIsTrue, SavesInv
<1> QED BY <1>3, <1>4

(* Nothing takes the board away from under a gesture.                      *)
LEMMA TakeKeeps ==
    ASSUME PreviewShown, UNCHANGED active, NEW l, NEW pending, NEW open,
           open => ~Holding, Take(l, pending, open)
    PROVE  PreviewShown' /\ waiting' \in BOOLEAN
<1>1. waiting' \in BOOLEAN
  BY DEF Take
<1>2. Holding' <=> Holding
  BY DEF Holding
<1>3. Holding => board' = board
  BY DEF Take
<1> QED BY <1>1, <1>2, <1>3 DEF PreviewShown

LEMMA SaveEndsKeeps ==
    ASSUME IInv, NEW s \in saves, SaveEnds(s), UNCHANGED active
    PROVE  IInv'
<1>1. PreviewShown' /\ waiting' \in BOOLEAN
  BY TakeKeeps DEF SaveEnds, IInv, GateOpen
<1> QED BY <1>1, SettleKeeps DEF SaveEnds, IInv

LEMMA InitGood == Init => IInv
<1> SUFFICES ASSUME Init PROVE IInv
  OBVIOUS
<1>1. Counters
  <2>1. /\ edits = 0 /\ confirmed = 0 /\ timer = NoTimer /\ saves = {}
        /\ saving = FALSE /\ waiting = FALSE
    BY DEF Init
  <2>2. timer.edit = 0
    BY <2>1 DEF NoTimer
  <2>3. ~Pending /\ ~Unsaved
    BY <2>1, <2>2 DEF Pending, Unsaved
  <2>4. TypeOK
    <3>1. saving \in BOOLEAN /\ waiting \in BOOLEAN
      BY <2>1, Zenon
    <3>2. edits \in Nat /\ confirmed \in Nat /\ timer.edit \in Nat
      BY <2>1, <2>2
    <3> QED BY <2>1, <3>1, <3>2, Zenon DEF TypeOK
  <2>5. GateIsTrue
    BY <2>1, <2>3 DEF GateIsTrue
  <2>6. SavesInv
    BY <2>1 DEF SavesInv
  <2> QED BY <2>4, <2>5, <2>6 DEF Counters
<1>2. PreviewShown
  BY DEF Init, PreviewShown, Holding, NoGesture
<1> QED BY <1>1, <1>2 DEF IInv

LEMMA StepGood == IInv /\ [Next]_vars => IInv'
<1> SUFFICES ASSUME IInv, [Next]_vars PROVE IInv'
  OBVIOUS
<1> USE DEF IInv
<1>1. ASSUME UNCHANGED <<edits, confirmed, timer, saves, saving, waiting, board, active>>
      PROVE  IInv'
  <2>1. PreviewShown'
    BY <1>1 DEF PreviewShown, Holding
  <2> QED BY <1>1, <2>1, SameCounters
<1>2. CASE TimerFires
  <2>1. PreviewShown'
    BY <1>2 DEF TimerFires, page, host, PreviewShown, Holding
  <2>2. /\ edits' = edits /\ confirmed' = confirmed /\ waiting' = waiting
        /\ timer' = NoTimer /\ Pending
    BY <1>2 DEF TimerFires, page
  <2> DEFINE new == [edit |-> timer.edit, refetch |-> timer.refetch, at |-> "sent"]
  <2>3. saves' = saves \cup {new} /\ saving' = TRUE
    BY <1>2 DEF TimerFires, Send
  <2>4. new.edit = timer.edit
    OBVIOUS
  <2> HIDE DEF new
  <2>5. timer'.edit = 0 /\ ~Pending'
    BY <2>2 DEF NoTimer, Pending
  <2>6. /\ edits \in Nat /\ confirmed \in Nat /\ confirmed <= edits /\ timer.edit = edits
        /\ \A s \in saves : s.edit \in Nat /\ s.edit < edits
        /\ \A s, t \in saves : s.edit = t.edit => s = t
        /\ waiting \in BOOLEAN /\ Unsaved
    BY <2>2 DEF Counters, TypeOK, GateIsTrue, SavesInv
  <2>7. Unsaved'
    BY <2>2, <2>6 DEF Unsaved
  <2>8. Counters'
    BY <2>2, <2>3, <2>4, <2>5, <2>6, <2>7 DEF Counters, TypeOK, GateIsTrue, SavesInv
  <2> QED BY <2>1, <2>8
<1>3. CASE Beat
  BY <1>1, <1>3 DEF Beat, page, saver, host
<1>4. CASE Wake
  BY <1>1, <1>4 DEF Wake, page, saver
<1>5. CASE Read
  BY <1>1, <1>5 DEF Read, page, saver, host
<1>6. CASE Answer
  <2> DEFINE done == {s \in saves : s.at = "reading"}
  <2>1. /\ Settle(done) /\ Take(loader.answer, TRUE, GateOpen(confirmed'))
        /\ UNCHANGED <<edits, timer, active>>
    BY <1>6 DEF Answer, host
  <2>2. PreviewShown' /\ waiting' \in BOOLEAN
    BY <2>1, TakeKeeps DEF GateOpen
  <2>3. done \in SUBSET saves
    OBVIOUS
  <2> HIDE DEF done
  <2> QED BY <2>1, <2>2, <2>3, SettleKeeps
<1>7. CASE LoaderFails
  <2> DEFINE done == {s \in saves : s.at = "reading"}
  <2>1. /\ Settle(done) /\ Take(layout, waiting, GateOpen(confirmed'))
        /\ UNCHANGED <<edits, timer, active>>
    BY <1>7 DEF LoaderFails, host
  <2>2. PreviewShown' /\ waiting' \in BOOLEAN
    BY <2>1, TakeKeeps DEF GateOpen
  <2>3. done \in SUBSET saves
    OBVIOUS
  <2> HIDE DEF done
  <2> QED BY <2>1, <2>2, <2>3, SettleKeeps
<1>8. CASE LoaderHangs
  BY <1>1, <1>8 DEF LoaderHangs, page, saver, host
<1>9. CASE BeatGivesUp
  BY <1>1, <1>9 DEF BeatGivesUp, page, saver, host
<1>10. CASE Arrange
  BY <1>1, <1>10 DEF Arrange, page, saver
<1>11. CASE Edit
  <2> DEFINE e == script[edits + 1]
  <2>1. /\ Persist(board, waiting, Edited(board, e, edits + 1), e)
        /\ ~Holding /\ waiting' = waiting /\ active' = active
    BY <1>11 DEF Edit, host
  <2> HIDE DEF e
  <2>2. PreviewShown'
    BY <2>1 DEF PreviewShown, Holding
  <2>3. waiting' \in BOOLEAN
    BY <2>1 DEF Counters, TypeOK
  <2> QED BY <2>1, <2>2, <2>3, PersistKeeps
<1>12. CASE Grab
  <2> DEFINE e == script[edits + 1]
             r == Reshaped(board.cards[e.card], e)
  <2>1. /\ e.kind \in Gestures /\ Has(e) /\ board' = WithRect(board, e.card, r)
        /\ active' = [card |-> e.card, from |-> board.cards[e.card], rect |-> r]
        /\ UNCHANGED <<edits, confirmed, timer, saves, saving, waiting>>
    BY <1>12 DEF Grab, saver
  <2> HIDE DEF e, r
  <2>2. e.card \in DOMAIN board.cards
    BY <2>1 DEF Has, Gestures
  <2>3. board'.cards = [c \in DOMAIN board.cards |-> IF c = e.card THEN r ELSE board.cards[c]]
    BY <2>1 DEF WithRect, Content
  <2>4. active'.card = e.card /\ active'.rect = r
    BY <2>1
  <2>5. PreviewShown'
    BY <2>2, <2>3, <2>4 DEF PreviewShown
  <2> QED BY <2>1, <2>5, SameCounters
<1>13. CASE Release
  <2>1. /\ active' = NoGesture /\ waiting' = (waiting /\ Unsaved)
        /\ Persist(Uncovered, waiting', WithRect(Uncovered, active.card, active.rect),
                   script[edits + 1])
    BY <1>13 DEF Release
  <2>2. PreviewShown'
    BY <2>1 DEF PreviewShown, Holding, NoGesture
  <2>3. waiting' \in BOOLEAN
    BY <2>1
  <2> QED BY <2>1, <2>2, <2>3, PersistKeeps
<1>14. CASE Escape
  <2>1. /\ active' = NoGesture /\ waiting' = (waiting /\ Unsaved)
        /\ UNCHANGED <<edits, confirmed, timer, saves, saving>>
    BY <1>14 DEF Escape, saver
  <2>2. PreviewShown'
    BY <2>1 DEF PreviewShown, Holding, NoGesture
  <2>3. Counters'
    BY <2>1 DEF Counters, TypeOK, GateIsTrue, SavesInv, Pending, Unsaved
  <2> QED BY <2>2, <2>3
<1>15. ASSUME NEW r \in net, Land(r) PROVE IInv'
  <2> DEFINE Image(s) == IF s.edit = r.edit
                         THEN [edit |-> s.edit, refetch |-> s.refetch, at |-> "landed"] ELSE s
  <2>1. saves' = {Image(s) : s \in saves}
    BY <1>15 DEF Land
  <2>2. UNCHANGED <<edits, confirmed, timer, saving, waiting, board, active>>
    BY <1>15 DEF Land, page, host
  <2>3. \A s : Image(s).edit = s.edit
    OBVIOUS
  <2>4. \A s, t \in saves : Image(s).edit = Image(t).edit => Image(s) = Image(t)
    <3>1. \A s, t \in saves : s.edit = t.edit => s = t
      BY DEF Counters, SavesInv
    <3> QED BY <2>3, <3>1
  <2> HIDE DEF Image
  <2>5. PreviewShown'
    BY <2>2 DEF PreviewShown, Holding
  <2>6. Pending' <=> Pending
    BY <2>2 DEF Pending
  <2>7. Unsaved' <=> Unsaved
    BY <2>2 DEF Unsaved
  <2>8. TypeOK'
    BY <2>1, <2>2, <2>3 DEF Counters, TypeOK
  <2>9. GateIsTrue'
    BY <2>1, <2>2, <2>3, <2>6, <2>7 DEF Counters, GateIsTrue
  <2>10. SavesInv'
    BY <2>1, <2>2, <2>3, <2>4, <2>6 DEF Counters, SavesInv
  <2> QED BY <2>5, <2>8, <2>9, <2>10 DEF Counters
<1>16. ASSUME NEW r \in net, Refuse(r) PROVE IInv'
  <2>1. active' = active
    BY <1>16 DEF Refuse, host
  <2>2. CASE \E s \in saves : SaveEnds(s)
    BY <2>1, <2>2, SaveEndsKeeps
  <2>3. CASE UNCHANGED <<page, edits, confirmed, timer, saves, saving>>
    BY <1>1, <2>1, <2>3 DEF page
  <2> QED BY <1>16, <2>2, <2>3 DEF Refuse
<1>17. ASSUME NEW s \in saves, SaveAnswered(s) PROVE IInv'
  <2>1. active' = active
    BY <1>17 DEF SaveAnswered, host
  <2>2. CASE SaveEnds(s)
    BY <2>1, <2>2, SaveEndsKeeps
  <2>3. CASE /\ saves' = (saves \ {s}) \cup {[edit |-> s.edit, refetch |-> TRUE, at |-> "reading"]}
             /\ UNCHANGED <<page, edits, confirmed, timer, saving>>
    <3> DEFINE new == [edit |-> s.edit, refetch |-> TRUE, at |-> "reading"]
    <3>1. saves' = (saves \ {s}) \cup {new} /\ new.edit = s.edit
      BY <2>3
    <3> HIDE DEF new
    <3>2. PreviewShown'
      BY <2>1, <2>3 DEF PreviewShown, Holding, page
    <3>3. (Pending' <=> Pending) /\ (Unsaved' <=> Unsaved)
      BY <2>3 DEF Pending, Unsaved
    <3>4. TypeOK'
      BY <2>3, <3>1 DEF Counters, TypeOK, page
    <3>5. GateIsTrue'
      BY <2>3, <3>1, <3>3 DEF Counters, GateIsTrue
    <3>6. SavesInv'
      BY <2>3, <3>1, <3>3 DEF Counters, SavesInv
    <3> QED BY <3>2, <3>4, <3>5, <3>6 DEF Counters
  <2> QED BY <1>17, <2>2, <2>3 DEF SaveAnswered
<1>18. ASSUME NEW s \in saves, GiveUp(s) PROVE IInv'
  BY <1>18, SaveEndsKeeps DEF GiveUp, host
<1>19. ASSUME NEW d \in Dash, Navigate(d) PROVE IInv'
  BY <1>1, <1>19 DEF Navigate, page, saver, host
<1>21. ASSUME NEW d \in Dash, Leave(d) PROVE IInv'
  <2>1. /\ active' = NoGesture /\ waiting' = FALSE /\ edits' = edits /\ confirmed' = edits
        /\ timer' = NoTimer /\ saves' = {} /\ saving' = FALSE
    BY <1>21 DEF Leave
  <2>2. timer'.edit = 0 /\ ~Pending' /\ ~Holding' /\ edits \in Nat
    BY <2>1 DEF NoTimer, Pending, NoGesture, Holding, Counters, TypeOK
  <2>3. ~Unsaved'
    BY <2>1, <2>2 DEF Unsaved
  <2>4. TypeOK'
    <3>1. edits' \in Nat /\ confirmed' \in Nat /\ timer'.edit \in Nat
      BY <2>1, <2>2
    <3>2. saving' \in BOOLEAN /\ waiting' \in BOOLEAN
      BY <2>1, Zenon
    <3> QED BY <2>1, <3>1, <3>2 DEF TypeOK
  <2>5. GateIsTrue' /\ SavesInv'
    BY <2>1, <2>2, <2>3 DEF GateIsTrue, SavesInv
  <2>6. PreviewShown'
    BY <2>2 DEF PreviewShown
  <2> QED BY <2>4, <2>5, <2>6 DEF Counters
<1>22. CASE OutlivedSaveReads
  BY <1>1, <1>22 DEF OutlivedSaveReads, page, saver
<1>20. CASE UNCHANGED vars
  BY <1>1, <1>20 DEF vars, page, saver, host
<1> QED BY <1>2, <1>3, <1>4, <1>5, <1>6, <1>7, <1>8, <1>9, <1>10, <1>11, <1>12, <1>13,
           <1>14, <1>15, <1>16, <1>17, <1>18, <1>19, <1>20, <1>21, <1>22 DEF Next

(* For any boards, edits and order of saves, answers and deadlines: the     *)
(* page counts itself saved exactly when the last edit is neither on its    *)
(* debounce nor in a save that is not over, and a card that is held stays   *)
(* under the pointer (dashboard.tsx: persist, run, unsaved, settled).       *)
THEOREM ContractHolds == Spec => []Contract
<1>1. Init => IInv
  BY InitGood
<1>2. IInv /\ [Next]_vars => IInv'
  BY StepGood
<1>3. IInv => Contract
  BY DEF IInv, Counters, Contract
<1> QED BY <1>1, <1>2, <1>3, PTL DEF Spec

-----------------------------------------------------------------------------
(* The place of a new card.                                                *)

(* A nonempty finite set of numbers has a largest.                          *)
LEMMA Largest ==
    ASSUME NEW S, S \subseteq Int, S # {}, IsFiniteSet(S)
    PROVE  \E m \in S : \A n \in S : n <= m
<1> DEFINE Over(m) == {n \in S : m < n}
           C == {Over(m) : m \in S}
<1>1. C \in SUBSET FiniteSubsetsOf(S) /\ C # {}
  <2>1. FiniteSubsetsOf(S) = SUBSET S
    BY FS_FiniteSubsetsOfFinite
  <2>2. \A m \in S : Over(m) \in SUBSET S
    OBVIOUS
  <2>3. \A m \in S : Over(m) \in C
    OBVIOUS
  <2>4. \A T \in C : \E m \in S : T = Over(m)
    OBVIOUS
  <2> HIDE DEF C, Over
  <2>5. C \subseteq SUBSET S
    BY <2>2, <2>4
  <2>6. C # {}
    BY <2>3
  <2> QED BY <2>1, <2>5, <2>6
<1>2. PICK T \in C : \A U \in C : <<U, T>> \notin StrictSubsetOrdering(S)
  <2> HIDE DEF C
  <2> QED BY <1>1, FS_StrictSubsetOrderingWellFounded, WFMin
<1>3. PICK m \in S : T = Over(m)
  BY <1>2
<1>4. ASSUME NEW n \in S, ~(n <= m) PROVE FALSE
  <2>1. n \in Int /\ m \in Int /\ m < n
    BY <1>4
  <2>2. \A k \in Over(n) : k \in Over(m)
    BY <2>1
  <2>3. n \in Over(m) /\ n \notin Over(n)
    BY <2>1
  <2>4. Over(n) \in C /\ Over(n) \in SUBSET S /\ Over(m) \in SUBSET S
    OBVIOUS
  <2> HIDE DEF C, Over
  <2> QED BY <1>2, <1>3, <2>2, <2>3, <2>4 DEF StrictSubsetOrdering
<1> QED BY <1>4

LEMMA Smallest ==
    ASSUME NEW S \in SUBSET Nat, S # {}
    PROVE  \E m \in S : \A n \in S : m <= n
<1>1. PICK c \in S : TRUE
  OBVIOUS
<1> DEFINE Upto == {n \in S : n <= c}
           Less == {n \in 0 .. c : c - n \in Upto}
<1>2. Less \subseteq Int /\ Less # {} /\ IsFiniteSet(Less)
  <2>1. Less \subseteq 0 .. c /\ c - c \in Less
    BY <1>1
  <2>2. IsFiniteSet(0 .. c)
    BY <1>1, FS_Interval
  <2>3. 0 .. c \subseteq Int
    OBVIOUS
  <2> HIDE DEF Less
  <2>4. IsFiniteSet(Less)
    BY <2>1, <2>2, FS_Subset
  <2> QED BY <2>1, <2>3, <2>4
<1>3. PICK m \in Less : \A n \in Less : n <= m
  <2> HIDE DEF Less
  <2> QED BY <1>2, Largest
<1>4. c - m \in S
  BY <1>3
<1>5. ASSUME NEW n \in S PROVE c - m <= n
  <2>1. CASE n <= c
    <3>1. c - n \in Less
      BY <1>1, <2>1
    <3> QED BY <1>1, <1>3, <3>1
  <2>2. CASE ~(n <= c)
    BY <1>1, <1>3, <2>2
  <2> QED BY <2>1, <2>2
<1> QED BY <1>4, <1>5

(* A card on the grid and on the canvas, of a size the canvas has, however  *)
(* far down.                                                               *)
OnCanvas(r) ==
    /\ r \in Rect /\ 0 <= r.x /\ r.x + r.w <= CANVAS_WIDTH /\ 0 <= r.y
    /\ r.w \in MIN_WIDGET_W .. CANVAS_WIDTH /\ r.h \in MIN_WIDGET_H .. MAX_WIDGET_H
    /\ OnGrid(r.x) /\ OnGrid(r.y) /\ OnGrid(r.w) /\ OnGrid(r.h)

LEMMA Places ==
    ASSUME NEW r
    PROVE  /\ InPlace(r) => OnCanvas(r)
           /\ OnCanvas(r) /\ Accepted(r) => InPlace(r)
BY PlacedFields DEF InPlace, OnCanvas, Accepted

(* A size the page offers, or that of a card there is.                      *)
Size(w, h) ==
    /\ w \in MIN_WIDGET_W .. CANVAS_WIDTH /\ h \in MIN_WIDGET_H .. MAX_WIDGET_H
    /\ OnGrid(w) /\ OnGrid(h)

LEMMA GridSteps ==
    ASSUME NEW k \in Nat
    PROVE  k * GRID \in Nat /\ OnGrid(k * GRID)
BY DEF OnGrid, SnapToGrid, GRID

(* A card in the first column, j rows down.                                *)
AtRow(j, w, h) == [x |-> 0, y |-> j * GRID, w |-> w, h |-> h]

FreeRow(j, taken, w, h) == \A r \in taken : ~RectsOverlap(AtRow(j, w, h), r)

(* findFreeSlot: the place found lies on the grid and on the canvas, and no  *)
(* lower than the first row that is free from the left edge.               *)
LEMMA FreeSlotOnCanvas ==
    ASSUME NEW taken, IsFiniteSet(taken), \A r \in taken : OnCanvas(r),
           NEW w, NEW h, Size(w, h)
    PROVE  LET q == FindFreeSlot(taken, w, h)
           IN  /\ OnCanvas(q)
               /\ \A j \in Nat : FreeRow(j, taken, w, h) => q.y <= j * GRID
<1> DEFINE ends    == {0} \cup {r.y + r.h : r \in taken}
           last    == CHOOSE m \in ends : \A n \in ends : n <= m
           maxY    == last + h + GRID
           At(i, j) == [x |-> i * GRID, y |-> j * GRID, w |-> w, h |-> h]
           Free(i, j) == \A r \in taken : ~RectsOverlap(At(i, j), r)
           tiers   == 0 .. (maxY \div GRID)
           columns == 0 .. ((CANVAS_WIDTH - w) \div GRID)
           FirstIn(j) == CHOOSE i \in columns :
                             Free(i, j) /\ \A k \in columns : k < i => ~Free(k, j)
           tier    == CHOOSE j \in tiers :
                         /\ \E i \in columns : Free(i, j)
                         /\ \A k \in tiers : k < j => \A i \in columns : ~Free(i, k)
<1>1. FindFreeSlot(taken, w, h) =
        IF \E j \in tiers : \E i \in columns : Free(i, j) THEN At(FirstIn(tier), tier)
        ELSE [x |-> 0, y |-> SnapToGrid(maxY), w |-> w, h |-> h]
  BY Zenon DEF FindFreeSlot
<1>2. /\ w \in Nat /\ h \in Nat /\ w <= CANVAS_WIDTH /\ CANVAS_WIDTH \in Nat
      /\ w \in MIN_WIDGET_W .. CANVAS_WIDTH /\ h \in MIN_WIDGET_H .. MAX_WIDGET_H
      /\ OnGrid(w) /\ OnGrid(h)
  BY Sizes DEF Size
<1>3. last \in Nat
  <2>1. ends \subseteq Nat
    BY Sizes DEF OnCanvas, Rect
  <2>2. IsFiniteSet(ends)
    <3> DEFINE bottoms == {r.y + r.h : r \in taken}
               f == [r \in taken |-> r.y + r.h]
    <3>1. f \in Surjection(taken, bottoms)
      BY DEF Surjection
    <3>2. IsFiniteSet(bottoms)
      <4> HIDE DEF f, bottoms
      <4> QED BY <3>1, FS_Surjection
    <3>3. IsFiniteSet({0})
      BY FS_Singleton
    <3>4. ends = {0} \cup bottoms
      OBVIOUS
    <3> HIDE DEF bottoms, ends
    <3> QED BY <3>2, <3>3, <3>4, FS_Union
  <2>3. \E m \in ends : \A n \in ends : n <= m
    <3>1. ends # {} /\ ends \subseteq Int
      BY <2>1
    <3> HIDE DEF ends
    <3> QED BY <2>2, <3>1, Largest
  <2> HIDE DEF ends
  <2>4. last \in ends
    BY <2>3, Zenon
  <2> QED BY <2>1, <2>4
<1> HIDE DEF ends, last
<1>4. maxY \in Nat
  BY <1>2, <1>3 DEF GRID
<1> HIDE DEF maxY
<1>5. tiers \subseteq Nat /\ columns \subseteq Nat /\ 0 \in columns
  BY <1>2 DEF GRID
<1>6. ASSUME NEW j PROVE Free(0, j) <=> FreeRow(j, taken, w, h)
  <2>1. 0 * GRID = 0
    BY DEF GRID
  <2>2. At(0, j) = AtRow(j, w, h)
    BY <2>1, Zenon DEF AtRow
  <2> HIDE DEF At
  <2> QED BY <2>2, Zenon DEF FreeRow
<1>7. ASSUME NEW i \in columns, NEW j \in tiers PROVE OnCanvas(At(i, j))
  <2>1. i \in Nat /\ j \in Nat /\ i <= (CANVAS_WIDTH - w) \div GRID
    OBVIOUS
  <2>2. i * GRID <= CANVAS_WIDTH - w
    BY <1>2, <2>1 DEF GRID
  <2>3. i * GRID \in Nat /\ OnGrid(i * GRID) /\ j * GRID \in Nat /\ OnGrid(j * GRID)
    BY <2>1, GridSteps
  <2> DEFINE a == i * GRID
             b == j * GRID
  <2> HIDE DEF a, b
  <2>4. [x |-> a, y |-> b, w |-> w, h |-> h] \in Rect /\ a + w <= CANVAS_WIDTH
    BY <1>2, <2>2, <2>3 DEF a, b, Rect
  <2>5. OnCanvas([x |-> a, y |-> b, w |-> w, h |-> h])
    BY <1>2, <2>3, <2>4 DEF a, b, OnCanvas
  <2> QED BY <2>5 DEF a, b
<1>8. CASE \E j \in tiers : \E i \in columns : Free(i, j)
  <2> HIDE DEF Free, At
  <2>1. /\ tier \in tiers /\ \E i \in columns : Free(i, tier)
        /\ \A k \in tiers : k < tier => \A i \in columns : ~Free(i, k)
    <3> DEFINE S == {j \in tiers : \E i \in columns : Free(i, j)}
    <3>1. PICK m \in S : \A n \in S : m <= n
      <4>1. S \subseteq Nat /\ S # {}
        BY <1>5, <1>8
      <4> HIDE DEF S
      <4> QED BY <4>1, Smallest
    <3>2. /\ \E i \in columns : Free(i, m)
          /\ \A k \in tiers : k < m => \A i \in columns : ~Free(i, k)
      BY <1>5, <3>1
    <3> HIDE DEF tiers, columns
    <3> QED BY <3>1, <3>2, Zenon
  <2>2. FirstIn(tier) \in columns
    <3> HIDE DEF tier
    <3> DEFINE S == {i \in columns : Free(i, tier)}
    <3>1. PICK m \in S : \A n \in S : m <= n
      <4>1. S \subseteq Nat /\ S # {}
        BY <1>5, <2>1
      <4> HIDE DEF S
      <4> QED BY <4>1, Smallest
    <3>2. Free(m, tier) /\ \A k \in columns : k < m => ~Free(k, tier)
      BY <1>5, <3>1
    <3> HIDE DEF tiers, columns
    <3> QED BY <3>1, <3>2, Zenon
  <2>3. ASSUME NEW j \in Nat, FreeRow(j, taken, w, h) PROVE tier <= j
    <3> HIDE DEF tier
    <3>1. 0 \in columns /\ tier \in 0 .. (maxY \div GRID) /\ tier \in Nat
      BY <1>5, <2>1
    <3>2. Free(0, j)
      BY <1>6, <2>3
    <3>3. CASE j \in tiers
      <4> HIDE DEF tiers, columns
      <4> QED BY <2>1, <3>1, <3>2, <3>3
    <3>4. CASE j \notin tiers
      BY <1>4, <2>3, <3>1, <3>4 DEF GRID
    <3> QED BY <3>3, <3>4
  <2> HIDE DEF tier, FirstIn, tiers, columns
  <2>4. OnCanvas(At(FirstIn(tier), tier))
    BY <1>7, <2>1, <2>2
  <2>5. At(FirstIn(tier), tier).y = tier * GRID /\ tier \in Nat
    BY <1>5, <2>1 DEF At
  <2>6. \A j \in Nat : FreeRow(j, taken, w, h) => tier * GRID <= j * GRID
    BY <2>3, <2>5 DEF GRID
  <2>7. FindFreeSlot(taken, w, h) = At(FirstIn(tier), tier)
    BY <1>1, <1>8, Zenon
  <2> QED BY <2>4, <2>5, <2>6, <2>7
<1>9. CASE ~\E j \in tiers : \E i \in columns : Free(i, j)
  <2> DEFINE s == SnapToGrid(maxY)
  <2>1. s \in Nat /\ OnGrid(s)
    BY <1>4 DEF SnapToGrid, OnGrid, GRID
  <2>3. ASSUME NEW j \in Nat, FreeRow(j, taken, w, h) PROVE s <= j * GRID
    <3>1. 0 \in columns
      BY <1>5
    <3>2. Free(0, j)
      BY <1>6, <2>3
    <3>3. j \notin tiers
      <4> HIDE DEF tiers, columns, Free
      <4> QED BY <1>9, <3>1, <3>2
    <3> QED BY <1>4, <2>3, <3>3 DEF SnapToGrid, GRID
  <2> HIDE DEF s
  <2>2. OnCanvas([x |-> 0, y |-> s, w |-> w, h |-> h])
    BY <1>2, <2>1, GridBounds DEF OnCanvas, Rect
  <2> HIDE DEF tiers, columns, Free
  <2>4. FindFreeSlot(taken, w, h) = [x |-> 0, y |-> s, w |-> w, h |-> h]
    BY <1>1, <1>9, Zenon DEF s
  <2> QED BY <2>2, <2>3, <2>4
<1> QED BY <1>8, <1>9

-----------------------------------------------------------------------------
(* How far down a new card can be.                                        *)

(* Rows of the grid a card may start at, and the tiers in n pixels.           *)
Rows == 0 .. 2000
Cells(n) == (n + 10) \div GRID

LEMMA IntervalCount ==
    ASSUME NEW a \in Int, NEW b \in Int, a <= b, NEW S, S = a .. b
    PROVE  IsFiniteSet(S) /\ Cardinality(S) = b - a + 1
<1>1. Cardinality(a .. b) = IF a > b THEN 0 ELSE b - a + 1
  BY FS_Interval, Zenon
<1> QED BY <1>1, FS_Interval

LEMMA RowCount ==
    /\ IsFiniteSet(1 .. 299) /\ Cardinality(1 .. 299) = 299 /\ Cardinality(Rows) = 2001
<1> DEFINE S == 1 .. 299
<1>1. PICK one \in Int, n \in Int : one = 1 /\ n = 299
  OBVIOUS
<1>2. PICK o \in Int, m \in Int : o = 0 /\ m = 2000
  OBVIOUS
<1>3. S = one .. n /\ Rows = o .. m
  BY <1>1, <1>2 DEF Rows
<1> HIDE DEF S
<1>4. one <= n /\ o <= m
  BY <1>1, <1>2
<1>5. IsFiniteSet(S) /\ Cardinality(S) = n - one + 1
  BY <1>3, <1>4, IntervalCount, Zenon
<1>6. Cardinality(Rows) = m - o + 1
  BY <1>3, <1>4, IntervalCount, Zenon
<1> QED BY <1>1, <1>2, <1>5, <1>6 DEF S

(* A card on the grid overlaps a new one in fewer than 300 rows.            *)
LEMMA RowsOfCard ==
    ASSUME NEW y \in Int, NEW k \in Int, NEW g \in Int, OnGrid(y), OnGrid(k), OnGrid(g),
           k <= MAX_WIDGET_H, g <= MAX_WIDGET_H,
           NEW j \in Int, j * GRID < y + k, y < j * GRID + g
    PROVE  j - Cells(y) + Cells(g) \in 1 .. 299 /\ Cells(y) \in Int /\ Cells(g) \in Int
<1>1. /\ Cells(y) \in Int /\ Cells(k) \in Int /\ Cells(g) \in Int
      /\ Cells(y) * 20 = y /\ Cells(k) * 20 = k /\ Cells(g) * 20 = g
  BY DEF OnGrid, SnapToGrid, GRID, Cells
<1>2. j * 20 < y + k /\ y < j * 20 + g /\ k <= 3000 /\ g <= 3000
  BY DEF GRID, MAX_WIDGET_H
<1>3. PICK a \in Int, b \in Int, c \in Int : a = Cells(y) /\ b = Cells(k) /\ c = Cells(g)
  BY <1>1
<1>4. a * 20 = y /\ b * 20 = k /\ c * 20 = g
  BY <1>1, <1>3
<1>5. j - a + c \in 1 .. 299
  BY <1>2, <1>4
<1> QED BY <1>1, <1>3, <1>5

(* Six cards cannot overlap it in all of 2001 rows.                         *)
LEMMA TooManyRows ==
    ASSUME NEW S, IsFiniteSet(S), Cardinality(S) <= 6,
           NEW hit \in [Rows -> S], NEW off \in [Rows -> 1 .. 299],
           \A j, k \in Rows : hit[j] = hit[k] /\ off[j] = off[k] => j = k
    PROVE  FALSE
<1> DEFINE f == [j \in Rows |-> <<hit[j], off[j]>>]
<1>1. f \in [Rows -> S \X (1 .. 299)]
  OBVIOUS
<1>2. \A j, k \in Rows : f[j] = f[k] => j = k
  OBVIOUS
<1> HIDE DEF f
<1>3. f \in Injection(Rows, S \X (1 .. 299))
  BY <1>1, <1>2 DEF Injection, IsInjective
<1>4. /\ IsFiniteSet(S \X (1 .. 299))
      /\ Cardinality(S \X (1 .. 299)) = Cardinality(S) * Cardinality(1 .. 299)
  <2> DEFINE T == 1 .. 299
  <2>1. IsFiniteSet(T)
    BY RowCount
  <2> HIDE DEF T
  <2>2. IsFiniteSet(S \X T) /\ Cardinality(S \X T) = Cardinality(S) * Cardinality(T)
    BY <2>1, FS_Product
  <2> QED BY <2>2 DEF T
<1>5. Cardinality(Rows) <= Cardinality(S \X (1 .. 299))
  BY <1>3, <1>4, FS_Injection
<1>6. Cardinality(S) \in Nat
  BY FS_CardinalityType
<1>7. Cardinality(S) * 299 <= 6 * 299
  BY <1>6
<1> QED BY <1>4, <1>5, <1>6, <1>7, RowCount

LEMMA SomeRowFree ==
    ASSUME NEW taken, IsFiniteSet(taken), Cardinality(taken) <= 6,
           \A r \in taken : OnCanvas(r), NEW w, NEW h, Size(w, h)
    PROVE  \E j \in Rows : FreeRow(j, taken, w, h)
<1> SUFFICES ASSUME \A j \in Rows : ~FreeRow(j, taken, w, h) PROVE FALSE
  OBVIOUS
<1> DEFINE Hit(j, r) == RectsOverlap(AtRow(j, w, h), r)
           hit == [j \in Rows |-> CHOOSE r \in taken : Hit(j, r)]
           off == [j \in Rows |-> j - Cells(hit[j].y) + Cells(h)]
<1>1. ASSUME NEW j \in Rows PROVE hit[j] \in taken /\ Hit(j, hit[j])
  <2>1. \E r \in taken : Hit(j, r)
    BY DEF FreeRow
  <2> HIDE DEF Hit
  <2>2. hit[j] = CHOOSE r \in taken : Hit(j, r)
    OBVIOUS
  <2> HIDE DEF hit
  <2> QED BY <2>1, <2>2, Zenon
<1>2. ASSUME NEW j \in Rows, NEW r \in taken, Hit(j, r)
      PROVE  /\ j - Cells(r.y) + Cells(h) \in 1 .. 299 /\ Cells(r.y) \in Int /\ Cells(h) \in Int
  <2> HIDE DEF hit, off
  <2>1. /\ r.y \in Int /\ r.h \in Int /\ h \in Int /\ j \in Int
        /\ r.h <= MAX_WIDGET_H /\ h <= MAX_WIDGET_H
        /\ OnGrid(r.y) /\ OnGrid(r.h) /\ OnGrid(h)
    BY Sizes DEF OnCanvas, Rect, Size, Rows
  <2>2. j * GRID < r.y + r.h /\ r.y < j * GRID + h
    BY <1>2 DEF RectsOverlap, AtRow
  <2> HIDE DEF Hit
  <2> QED BY <2>1, <2>2, RowsOfCard
<1> HIDE DEF Hit
<1>3. hit \in [Rows -> taken]
  BY <1>1
<1> HIDE DEF hit
<1>4. off \in [Rows -> 1 .. 299]
  BY <1>1, <1>2
<1>5. ASSUME NEW j \in Rows, NEW k \in Rows, hit[j] = hit[k], off[j] = off[k] PROVE j = k
  <2>1. j - Cells(hit[j].y) + Cells(h) = k - Cells(hit[j].y) + Cells(h)
    BY <1>5
  <2>2. Cells(hit[j].y) \in Int /\ Cells(h) \in Int
    BY <1>1, <1>2
  <2>3. j \in Int /\ k \in Int
    BY DEF Rows
  <2> HIDE DEF off
  <2> QED BY <2>1, <2>2, <2>3
<1> HIDE DEF off
<1> QED BY <1>3, <1>4, <1>5, TooManyRows

(* findFreeSlot on a board of up to six cards: the place found is one the   *)
(* stored contract accepts, whatever the cards' sizes.                     *)
THEOREM FreeSlotPlaced ==
    ASSUME NEW taken, IsFiniteSet(taken), Cardinality(taken) <= 6,
           \A r \in taken : OnCanvas(r), NEW w, NEW h, Size(w, h)
    PROVE  InPlace(FindFreeSlot(taken, w, h))
<1> DEFINE q == FindFreeSlot(taken, w, h)
<1>1. OnCanvas(q) /\ \A j \in Nat : FreeRow(j, taken, w, h) => q.y <= j * GRID
  BY FreeSlotOnCanvas
<1>2. PICK j \in Rows : FreeRow(j, taken, w, h)
  BY SomeRowFree
<1> HIDE DEF q
<1>3. q.y <= MAX_WIDGET_Y
  BY <1>1, <1>2 DEF GRID, MAX_WIDGET_Y, OnCanvas, Rect, Rows
<1>4. Accepted(q)
  BY <1>1, <1>3, Sizes DEF OnCanvas, Rect, Accepted
<1> QED BY <1>1, <1>4, Places DEF q

-----------------------------------------------------------------------------
(* Boards.                                                                 *)

(* A board as it is made: finitely many cards, on the canvas.               *)
Formed(b) ==
    /\ b = Content(b.of, b.cards, b.frame, b.text)
    /\ b.cards = [c \in DOMAIN b.cards |-> b.cards[c]]

Good(b) ==
    /\ Formed(b) /\ IsFiniteSet(DOMAIN b.cards)
    /\ \A c \in DOMAIN b.cards : OnCanvas(b.cards[c])

LEMMA ContentFields ==
    ASSUME NEW of, NEW cards, NEW frame, NEW text
    PROVE  LET b == Content(of, cards, frame, text)
           IN  /\ b.of = of /\ b.cards = cards /\ b.frame = frame /\ b.text = text
               /\ b = Content(b.of, b.cards, b.frame, b.text)
BY DEF Content

LEMMA WithRectFields ==
    ASSUME NEW b, NEW card, NEW r, NEW q, q = WithRect(b, card, r)
    PROVE  /\ Formed(q) /\ q.of = b.of /\ q.frame = b.frame /\ q.text = b.text
           /\ q.cards = [c \in DOMAIN b.cards |-> IF c = card THEN r ELSE b.cards[c]]
           /\ DOMAIN q.cards = DOMAIN b.cards
<1> DEFINE new == [c \in DOMAIN b.cards |-> IF c = card THEN r ELSE b.cards[c]]
<1>1. q = Content(b.of, new, b.frame, b.text)
  BY DEF WithRect
<1>2. new = [c \in DOMAIN new |-> new[c]] /\ DOMAIN new = DOMAIN b.cards
  OBVIOUS
<1> HIDE DEF new
<1>3. /\ q.of = b.of /\ q.cards = new /\ q.frame = b.frame /\ q.text = b.text
      /\ q = Content(q.of, q.cards, q.frame, q.text)
  BY <1>1, ContentFields
<1> QED BY <1>2, <1>3 DEF Formed, new

LEMMA WithRectKeeps ==
    ASSUME NEW b, NEW card, NEW r, NEW q, q = WithRect(b, card, r)
    PROVE  /\ q.of = b.of /\ q.frame = b.frame /\ q.text = b.text
           /\ DOMAIN q.cards = DOMAIN b.cards
BY SMT DEF WithRect, Content

LEMMA WithRectAt ==
    ASSUME NEW b, NEW card, NEW r, NEW c \in DOMAIN b.cards
    PROVE  WithRect(b, card, r).cards[c] = IF c = card THEN r ELSE b.cards[c]
BY SMT DEF WithRect, Content

(* Where a card was before makes no difference to where it is put.          *)
LEMMA RectReplaced ==
    ASSUME NEW b, NEW card, NEW r, NEW q
    PROVE  WithRect(WithRect(b, card, q), card, r) = WithRect(b, card, r)
<1> DEFINE m == WithRect(b, card, q)
<1>1. /\ m.of = b.of /\ m.frame = b.frame /\ m.text = b.text /\ DOMAIN m.cards = DOMAIN b.cards
      /\ m.cards = [c \in DOMAIN b.cards |-> IF c = card THEN q ELSE b.cards[c]]
  BY WithRectFields
<1> HIDE DEF m
<1>2. [c \in DOMAIN m.cards |-> IF c = card THEN r ELSE m.cards[c]] =
      [c \in DOMAIN b.cards |-> IF c = card THEN r ELSE b.cards[c]]
  BY <1>1
<1> QED BY <1>1, <1>2 DEF WithRect, m

(* A card put where it is, or one the board does not have, leaves it alone. *)
LEMMA RectUnmoved ==
    ASSUME NEW b, Formed(b), NEW card, NEW r, card \in DOMAIN b.cards => r = b.cards[card]
    PROVE  WithRect(b, card, r) = b
<1>1. [c \in DOMAIN b.cards |-> IF c = card THEN r ELSE b.cards[c]] = b.cards
  <2>1. \A c \in DOMAIN b.cards : (IF c = card THEN r ELSE b.cards[c]) = b.cards[c]
    OBVIOUS
  <2>2. [c \in DOMAIN b.cards |-> IF c = card THEN r ELSE b.cards[c]] =
        [c \in DOMAIN b.cards |-> b.cards[c]]
    BY <2>1
  <2> QED BY <2>2 DEF Formed
<1> QED BY <1>1 DEF WithRect, Formed

LEMMA WithRectGood ==
    ASSUME NEW b, Good(b), NEW card, NEW r, OnCanvas(r)
    PROVE  Good(WithRect(b, card, r))
<1> DEFINE q == WithRect(b, card, r)
<1>1. /\ Formed(q) /\ DOMAIN q.cards = DOMAIN b.cards
      /\ q.cards = [c \in DOMAIN b.cards |-> IF c = card THEN r ELSE b.cards[c]]
  BY WithRectFields
<1> HIDE DEF q
<1>2. \A c \in DOMAIN q.cards : OnCanvas(q.cards[c])
  BY <1>1 DEF Good
<1> QED BY <1>1, <1>2 DEF Good, q

LEMMA Extremes ==
    ASSUME NEW a \in Int, NEW b \in Int
    PROVE  Lesser(a, b) \in Int /\ Greater(a, b) \in Int
BY DEF Lesser, Greater

LEMMA ResizeIsRect ==
    ASSUME NEW r \in Rect, NEW edge, NEW dx \in Int, NEW dy \in Int
    PROVE  ResizeBy(r, edge, dx, dy) \in Rect
<1> DEFINE p == ResizeBy(r, edge, dx, dy)
           right == r.x + r.w
           bottom == r.y + r.h
           sx == SnapToGrid(r.x + dx)
           sy == SnapToGrid(r.y + dy)
           sw == SnapToGrid(r.w + dx)
           sh == SnapToGrid(r.h + dy)
           left == Lesser(Greater(Greater(0, right - CANVAS_WIDTH), sx), right - MIN_WIDGET_W)
           top == Lesser(Greater(Greater(0, bottom - MAX_WIDGET_H), sy),
                         Lesser(bottom - MIN_WIDGET_H, MAX_WIDGET_Y))
           wide == Lesser(sw, CANVAS_WIDTH - r.x)
<1>1. /\ p = [x |-> p.x, y |-> p.y, w |-> p.w, h |-> p.h]
      /\ p.x = left \/ p.x = r.x
      /\ p.y = top \/ p.y = r.y
      /\ p.w = right - left \/ p.w = wide \/ p.w = r.w
      /\ p.h = bottom - top \/ p.h = sh \/ p.h = r.h
  BY Zenon DEF ResizeBy
<1>2. r.x \in Int /\ r.y \in Int /\ r.w \in Int /\ r.h \in Int
  BY DEF Rect
<1>3. right \in Int /\ bottom \in Int
  BY <1>2
<1>4. sx \in Int /\ sy \in Int /\ sw \in Int /\ sh \in Int
  BY <1>2, SnapIsOnGrid
<1> HIDE DEF p, right, bottom, sx, sy, sw, sh
<1>5. left \in Int
  <2>1. right - CANVAS_WIDTH \in Int /\ right - MIN_WIDGET_W \in Int
    BY <1>3, Sizes
  <2>2. Greater(0, right - CANVAS_WIDTH) \in Int
    BY <2>1, Extremes
  <2> QED BY <1>4, <2>1, <2>2, Extremes
<1>6. top \in Int
  <2>1. /\ bottom - MAX_WIDGET_H \in Int /\ bottom - MIN_WIDGET_H \in Int
        /\ MAX_WIDGET_Y \in Int
    BY <1>3, Sizes
  <2>2. Greater(0, bottom - MAX_WIDGET_H) \in Int
    BY <2>1, Extremes
  <2>3. Lesser(bottom - MIN_WIDGET_H, MAX_WIDGET_Y) \in Int
    BY <2>1, Extremes
  <2> QED BY <1>4, <2>2, <2>3, Extremes
<1>7. wide \in Int
  <2>1. CANVAS_WIDTH - r.x \in Int
    BY <1>2, Sizes
  <2> QED BY <1>4, <2>1, Extremes
<1> HIDE DEF left, top, wide
<1>8. p.x \in Int /\ p.y \in Int /\ p.w \in Int /\ p.h \in Int
  BY <1>1, <1>2, <1>3, <1>4, <1>5, <1>6, <1>7
<1>9. [x |-> p.x, y |-> p.y, w |-> p.w, h |-> p.h] \in Rect
  BY <1>8 DEF Rect
<1> QED BY <1>1, <1>9 DEF p

LEMMA ReshapedPlaced ==
    ASSUME NEW r \in Rect, NEW e, e.dx \in Int, e.dy \in Int
    PROVE  InPlace(Reshaped(r, e)) /\ InPlace(Nudged(r, e))
<1>1. r.x \in Int /\ r.y \in Int /\ r.w \in Int /\ r.h \in Int
  BY DEF Rect
<1>2. MoveBy(r, e.dx, e.dy) \in Rect
  BY <1>1 DEF MoveBy, Rect
<1>3. [x |-> r.x, y |-> r.y, w |-> r.w + e.dx, h |-> r.h + e.dy] \in Rect
  BY <1>1 DEF Rect
<1>4. \A a, b \in Int : Lesser(a, b) \in Int /\ Greater(a, b) \in Int
  BY DEF Lesser, Greater
<1>5. \A n \in Int : SnapToGrid(n) \in Int
  BY DEF SnapToGrid, GRID
<1>6. ResizeBy(r, e.edge, e.dx, e.dy) \in Rect
  BY <1>1, ResizeIsRect
<1>7. InPlace(Reshaped(r, e))
  BY <1>2, <1>6, NormaliseLegal DEF Reshaped
<1>8. InPlace(Nudged(r, e))
  BY <1>2, <1>3, NormaliseLegal DEF Nudged
<1> QED BY <1>7, <1>8

LEMMA WithCardGood ==
    ASSUME NEW b, Good(b), NEW card, NEW w, NEW h, Size(w, h)
    PROVE  LET q == WithCard(b, card, w, h)
           IN  Good(q) /\ q.of = b.of /\ DOMAIN q.cards = DOMAIN b.cards \cup {card}
<1> DEFINE slot == FindFreeSlot(Occupied(b), w, h)
           new == [c \in DOMAIN b.cards \cup {card} |-> IF c = card THEN slot ELSE b.cards[c]]
           q == WithCard(b, card, w, h)
<1>1. q = Content(b.of, new, b.frame, b.text)
  BY DEF WithCard
<1>2. IsFiniteSet(Occupied(b)) /\ \A r \in Occupied(b) : OnCanvas(r)
  <2> DEFINE f == [c \in DOMAIN b.cards |-> b.cards[c]]
  <2>1. f \in Surjection(DOMAIN b.cards, Occupied(b))
    BY DEF Surjection, Occupied
  <2> HIDE DEF f
  <2>2. IsFiniteSet(Occupied(b))
    BY <2>1, FS_Surjection DEF Good
  <2> QED BY <2>2 DEF Good, Occupied
<1>3. OnCanvas(slot)
  BY <1>2, FreeSlotOnCanvas
<1> HIDE DEF slot
<1>4. /\ new = [c \in DOMAIN new |-> new[c]] /\ DOMAIN new = DOMAIN b.cards \cup {card}
      /\ \A c \in DOMAIN new : OnCanvas(new[c])
  BY <1>3 DEF Good
<1>5. IsFiniteSet(DOMAIN new)
  BY <1>4, FS_AddElement DEF Good
<1> HIDE DEF new, q
<1>6. q.of = b.of /\ q.cards = new /\ q = Content(q.of, q.cards, q.frame, q.text)
  BY <1>1, ContentFields
<1> QED BY <1>4, <1>5, <1>6 DEF Good, Formed, q

LEMMA WithoutGood ==
    ASSUME NEW b, Good(b), NEW card
    PROVE  LET q == Without(b, card)
           IN  Good(q) /\ q.of = b.of /\ DOMAIN q.cards \subseteq DOMAIN b.cards
<1> DEFINE new == [c \in DOMAIN b.cards \ {card} |-> b.cards[c]]
           q == Without(b, card)
<1>1. q = Content(b.of, new, b.frame, b.text)
  BY DEF Without
<1>2. /\ new = [c \in DOMAIN new |-> new[c]] /\ DOMAIN new = DOMAIN b.cards \ {card}
      /\ \A c \in DOMAIN new : OnCanvas(new[c])
  BY DEF Good
<1>3. IsFiniteSet(DOMAIN new)
  BY <1>2, FS_Subset DEF Good
<1> HIDE DEF new, q
<1>4. q.of = b.of /\ q.cards = new /\ q = Content(q.of, q.cards, q.frame, q.text)
  BY <1>1, ContentFields
<1> QED BY <1>2, <1>3, <1>4 DEF Good, Formed, q

(* An edit leaves a good board, and adds no card but its own.               *)
LEMMA EditedGood ==
    ASSUME NEW b, Good(b), NEW e, Offered(e), NEW n
    PROVE  /\ Good(Edited(b, e, n)) /\ Edited(b, e, n).of = b.of
           /\ DOMAIN Edited(b, e, n).cards \subseteq DOMAIN b.cards \cup {n}
<1> DEFINE q == Edited(b, e, n)
           Kept3 == Good(q) /\ q.of = b.of /\ DOMAIN q.cards \subseteq DOMAIN b.cards \cup {n}
<1>1. e.dx \in Int /\ e.dy \in Int /\ e.kind \in Kinds
  BY DEF Offered
<1>2. \A c \in DOMAIN b.cards : b.cards[c] \in Rect /\ Size(b.cards[c].w, b.cards[c].h)
  BY DEF Good, OnCanvas, Size
<1>3. ASSUME e.kind = "frame" PROVE Kept3
  <2>1. q = Content(b.of, b.cards, n, b.text)
    BY <1>3 DEF Edited, Gestures
  <2> HIDE DEF q
  <2> QED BY <2>1, ContentFields DEF Good, Formed
<1>4. ASSUME e.kind \in {"text", "front"} PROVE Kept3
  <2>1. q = Content(b.of, b.cards, b.frame, n)
    BY <1>4 DEF Edited, Gestures
  <2> HIDE DEF q
  <2> QED BY <2>1, ContentFields DEF Good, Formed
<1>5. ASSUME e.kind = "add" PROVE Kept3
  <2>1. q = WithCard(b, n, e.dx, e.dy)
    BY <1>5 DEF Edited, Gestures
  <2>2. Size(e.dx, e.dy)
    BY <1>5 DEF Offered, Size, OnGrid
  <2> HIDE DEF q
  <2> QED BY <2>1, <2>2, WithCardGood
<1>6. ASSUME e.kind = "copy" PROVE Kept3
  <2>1. q = IF e.card \in DOMAIN b.cards
            THEN WithCard(b, n, b.cards[e.card].w, b.cards[e.card].h) ELSE b
    BY <1>6 DEF Edited, Gestures
  <2> HIDE DEF q
  <2> QED BY <1>2, <2>1, WithCardGood
<1>7. ASSUME e.kind = "remove" PROVE Kept3
  <2>1. q = Without(b, e.card)
    BY <1>7 DEF Edited, Gestures
  <2> HIDE DEF q
  <2> QED BY <2>1, WithoutGood
<1>8. ASSUME e.kind = "nudge" PROVE Kept3
  <2>1. q = IF e.card \in DOMAIN b.cards
            THEN WithRect(b, e.card, Nudged(b.cards[e.card], e)) ELSE b
    BY <1>8 DEF Edited, Gestures
  <2>2. e.card \in DOMAIN b.cards => OnCanvas(Nudged(b.cards[e.card], e))
    BY <1>1, <1>2, ReshapedPlaced, Places
  <2> HIDE DEF q
  <2>3. CASE e.card \in DOMAIN b.cards
    <3> DEFINE r == Nudged(b.cards[e.card], e)
    <3>1. q = WithRect(b, e.card, r) /\ OnCanvas(r)
      BY <2>1, <2>2, <2>3
    <3> HIDE DEF r
    <3>2. Good(WithRect(b, e.card, r))
      BY <3>1, WithRectGood
    <3>3. q.of = b.of /\ DOMAIN q.cards = DOMAIN b.cards
      BY <3>1, WithRectKeeps
    <3> QED BY <3>1, <3>2, <3>3
  <2> QED BY <2>1, <2>3
<1>9. ASSUME e.kind \in Gestures PROVE Kept3
  <2>1. q = IF e.card \in DOMAIN b.cards
            THEN WithRect(b, e.card, Reshaped(b.cards[e.card], e)) ELSE b
    BY <1>9 DEF Edited, Gestures
  <2>2. e.card \in DOMAIN b.cards => OnCanvas(Reshaped(b.cards[e.card], e))
    BY <1>1, <1>2, ReshapedPlaced, Places
  <2> HIDE DEF q
  <2>3. CASE e.card \in DOMAIN b.cards
    <3> DEFINE r == Reshaped(b.cards[e.card], e)
    <3>1. q = WithRect(b, e.card, r) /\ OnCanvas(r)
      BY <2>1, <2>2, <2>3
    <3> HIDE DEF r
    <3>2. Good(WithRect(b, e.card, r))
      BY <3>1, WithRectGood
    <3>3. q.of = b.of /\ DOMAIN q.cards = DOMAIN b.cards
      BY <3>1, WithRectKeeps
    <3> QED BY <3>1, <3>2, <3>3
  <2> QED BY <2>1, <2>3
<1> HIDE DEF q
<1>10. Kept3
  BY <1>1, <1>3, <1>4, <1>5, <1>6, <1>7, <1>8, <1>9 DEF Kinds, Gestures
<1> QED BY <1>10 DEF q

(* A good board the contract accepts is read back as it was saved.          *)
LEMMA ReadAsSaved ==
    ASSUME NEW b, Good(b), \A c \in DOMAIN b.cards : Accepted(b.cards[c])
    PROVE  ParseBoard(b) = b
<1>1. \A c \in DOMAIN b.cards : NormaliseRect(b.cards[c]) = b.cards[c]
  BY Places, NormaliseKeeps DEF Good
<1>2. [c \in DOMAIN b.cards |-> NormaliseRect(b.cards[c])] = [c \in DOMAIN b.cards |-> b.cards[c]]
  BY <1>1
<1> QED BY <1>2 DEF ParseBoard, Good, Formed

-----------------------------------------------------------------------------
(* What holds whatever becomes of the requests.                            *)

(* Each board with every edit made to it is a good board, its cards are      *)
(* those it was opened with and those an edit has added, and no card is on   *)
(* two boards.                                                             *)
WishInv ==
    /\ \A d \in Dash : /\ wish[d].of = d /\ Good(wish[d])
                       /\ DOMAIN wish[d].cards \subseteq Dash \cup 1 .. edits
    /\ \A c, d \in Dash : c # d => \A k \in DOMAIN wish[c].cards : k \notin DOMAIN wish[d].cards

(* What the pointer holds is the next edit of the script, half made.        *)
HoldInv ==
    Holding => LET e == script[edits + 1]
               IN  /\ edits < Len(script) /\ e.kind \in Gestures /\ active.card = e.card
                   /\ active.rect = Reshaped(active.from, e)

(* Every address is that of a board.                                       *)
Addr ==
    /\ script \in Scripts
    /\ DOMAIN stored = Dash /\ DOMAIN wish = Dash
    /\ id \in Dash /\ place \in Dash
    /\ loader.at \in {"asked", "read"} => loader.of \in Dash

Always == IInv /\ WishInv /\ HoldInv /\ Addr

LEMMA NextEdit ==
    ASSUME Always, edits < Len(script)
    PROVE  Offered(script[edits + 1]) /\ edits + 1 \in Nat /\ edits \in Nat
<1>1. script \in Scripts /\ edits \in Nat
  BY DEF Always, Addr, IInv, Counters, TypeOK
<1>2. Len(script) \in Nat /\ \A i \in 1 .. Len(script) : Offered(script[i])
  BY <1>1, BoardAssumption
<1>3. edits + 1 \in 1 .. Len(script)
  BY <1>1, <1>2
<1> QED BY <1>1, <1>2, <1>3

(* The history of a board, and of its neighbours, after one more edit.      *)
LEMMA WishGrows ==
    ASSUME Always, edits < Len(script),
           wish' = [wish EXCEPT ![id] = Edited(wish[id], script[edits + 1], edits + 1)],
           edits' = edits + 1
    PROVE  /\ WishInv' /\ DOMAIN wish' = Dash
           /\ wish'[id] = Edited(wish[id], script[edits + 1], edits + 1)
           /\ \A d \in Dash : d # id => wish'[d] = wish[d]
<1> DEFINE e == script[edits + 1]
           n == edits + 1
           new == Edited(wish[id], e, n)
<1>1. Offered(e) /\ n \in Nat /\ edits \in Nat
  BY NextEdit
<1>2. id \in Dash /\ DOMAIN wish = Dash
  BY DEF Always, Addr
<1>3. /\ \A d \in Dash : /\ wish[d].of = d /\ Good(wish[d])
                         /\ DOMAIN wish[d].cards \subseteq Dash \cup 1 .. edits
      /\ \A c, d \in Dash : c # d => \A k \in DOMAIN wish[c].cards : k \notin DOMAIN wish[d].cards
  BY DEF Always, WishInv
<1> HIDE DEF e
<1>4. Good(new) /\ new.of = id /\ DOMAIN new.cards \subseteq DOMAIN wish[id].cards \cup {n}
  BY <1>1, <1>2, <1>3, EditedGood
<1>5. wish' = [wish EXCEPT ![id] = new]
  BY DEF e
<1> HIDE DEF new
<1>6. DOMAIN wish' = Dash /\ wish'[id] = new /\ \A d \in Dash : d # id => wish'[d] = wish[d]
  BY <1>2, <1>5
<1>7. \A d \in Dash : n \notin DOMAIN wish[d].cards
  BY <1>1, <1>3, BoardAssumption
<1>8. \A d \in Dash : DOMAIN wish[d].cards \subseteq Dash \cup 1 .. edits'
  BY <1>1, <1>3
<1>9. \A d \in Dash : /\ wish'[d].of = d /\ Good(wish'[d])
                      /\ DOMAIN wish'[d].cards \subseteq Dash \cup 1 .. edits'
  <2>1. DOMAIN new.cards \subseteq Dash \cup 1 .. edits'
    BY <1>1, <1>2, <1>4, <1>8
  <2> QED BY <1>3, <1>4, <1>6, <1>8, <2>1
<1>10. ASSUME NEW c \in Dash, NEW d \in Dash, c # d,
              NEW k \in DOMAIN wish'[c].cards, k \in DOMAIN wish'[d].cards
       PROVE  FALSE
  <2>1. CASE c = id
    BY <1>2, <1>3, <1>4, <1>6, <1>7, <1>10, <2>1
  <2>2. CASE d = id
    BY <1>2, <1>3, <1>4, <1>6, <1>7, <1>10, <2>2
  <2> QED BY <1>3, <1>6, <1>10, <2>1, <2>2
<1>11. WishInv'
  BY <1>9, <1>10 DEF WishInv
<1> QED BY <1>6, <1>11 DEF new, e

LEMMA PersistAlways ==
    ASSUME Always, IInv', edits < Len(script), ~Holding',
           NEW b, NEW pending, NEW next, Persist(b, pending, next, script[edits + 1]),
           UNCHANGED <<script, stored, id, place, loader>>
    PROVE  Always'
<1>1. /\ wish' = [wish EXCEPT ![id] = Edited(wish[id], script[edits + 1], edits + 1)]
      /\ edits' = edits + 1
  BY DEF Persist
<1>2. WishInv' /\ DOMAIN wish' = Dash
  BY <1>1, WishGrows
<1>3. HoldInv'
  BY DEF HoldInv
<1>4. Addr'
  BY <1>2 DEF Always, Addr
<1> QED BY <1>2, <1>3, <1>4 DEF Always

LEMMA SameWish ==
    ASSUME WishInv, UNCHANGED <<wish, edits>>
    PROVE  WishInv'
BY DEF WishInv

LEMMA SameHold ==
    ASSUME HoldInv, UNCHANGED <<script, edits, active>>
    PROVE  HoldInv'
BY DEF HoldInv, Holding

LEMMA ReadCards ==
    ASSUME NEW b, b.cards = [c \in DOMAIN b.cards |-> b.cards[c]],
           IsFiniteSet(DOMAIN b.cards), \A c \in DOMAIN b.cards : b.cards[c] \in Rect
    PROVE  /\ Good(ParseBoard(b)) /\ ParseBoard(b).of = b.of
           /\ DOMAIN ParseBoard(b).cards = DOMAIN b.cards
<1> DEFINE new == [c \in DOMAIN b.cards |-> NormaliseRect(b.cards[c])]
           q == ParseBoard(b)
<1>1. q = Content(b.of, new, b.frame, b.text)
  BY DEF ParseBoard
<1>2. /\ new = [c \in DOMAIN new |-> new[c]] /\ DOMAIN new = DOMAIN b.cards
      /\ \A c \in DOMAIN new : OnCanvas(new[c])
  BY NormaliseLegal, Places
<1> HIDE DEF new, q
<1>3. q.of = b.of /\ q.cards = new /\ q = Content(q.of, q.cards, q.frame, q.text)
  BY <1>1, ContentFields
<1> QED BY <1>2, <1>3 DEF Good, Formed, q

LEMMA InitAlways == Init => Always
<1> SUFFICES ASSUME Init PROVE Always
  OBVIOUS
<1> DEFINE r0 == [x |-> 20, y |-> 45, w |-> 200, h |-> 160]
           b0(d) == Content(d, [c \in {d} |-> r0], 0, 0)
<1>1. IInv
  BY InitGood
<1>2. /\ script \in Scripts /\ stored = [d \in Dash |-> b0(d)] /\ place = First /\ id = First
      /\ loader = NoLoader /\ active = NoGesture /\ edits = 0
      /\ wish = [d \in Dash |-> ParseBoard(stored[d])]
  BY DEF Init
<1>3. r0 \in Rect
  BY DEF Rect
<1> HIDE DEF r0
<1>4. ASSUME NEW d \in Dash
      PROVE  wish[d].of = d /\ Good(wish[d]) /\ DOMAIN wish[d].cards = {d}
  <2> DEFINE b == b0(d)
  <2>1. b.of = d /\ b.cards = [c \in {d} |-> r0]
    BY DEF Content
  <2>2. wish[d] = ParseBoard(b)
    BY <1>2
  <2> HIDE DEF b
  <2>3. /\ b.cards = [c \in DOMAIN b.cards |-> b.cards[c]] /\ DOMAIN b.cards = {d}
        /\ \A c \in DOMAIN b.cards : b.cards[c] \in Rect
    BY <1>3, <2>1
  <2>4. IsFiniteSet(DOMAIN b.cards)
    BY <2>3, FS_Singleton
  <2> QED BY <2>1, <2>2, <2>3, <2>4, ReadCards
<1>5. WishInv
  BY <1>4 DEF WishInv
<1>6. HoldInv
  BY <1>2 DEF HoldInv, Holding, NoGesture
<1>7. Addr
  BY <1>2, BoardAssumption DEF Addr, NoLoader
<1> QED BY <1>1, <1>5, <1>6, <1>7 DEF Always

LEMMA SameAlways ==
    ASSUME Always, IInv', UNCHANGED <<script, edits, active, wish>>,
           DOMAIN stored' = Dash, id' \in Dash, place' \in Dash,
           loader'.at \in {"asked", "read"} => loader'.of \in Dash
    PROVE  Always'
<1>1. WishInv' /\ HoldInv'
  BY SameWish, SameHold DEF Always
<1>2. Addr'
  BY DEF Always, Addr
<1> QED BY <1>1, <1>2 DEF Always

LEMMA AskedFields == ASSUME NEW d PROVE Asked(d).at = "asked" /\ Asked(d).of = d
BY DEF Asked

LEMMA StepAlways == Always /\ [Next]_vars => Always'
<1> SUFFICES ASSUME Always, [Next]_vars PROVE Always'
  OBVIOUS
<1>1. IInv'
  BY StepGood DEF Always
<1>2. /\ DOMAIN stored = Dash /\ id \in Dash /\ place \in Dash
      /\ loader.at \in {"asked", "read"} => loader.of \in Dash
      /\ edits \in Nat
  BY DEF Always, Addr, IInv, Counters, TypeOK
<1>3. ASSUME UNCHANGED <<script, edits, active, wish, stored, id, place, loader>> PROVE Always'
  BY <1>1, <1>2, <1>3, SameAlways
<1>4. ASSUME NEW s \in saves, SaveEnds(s), UNCHANGED <<script, active, wish, stored, place, loader>>
      PROVE  Always'
  BY <1>3, <1>4 DEF SaveEnds
<1>5. ASSUME UNCHANGED <<script, edits, active, wish, stored, id, place>>, loader' = Asked(place)
      PROVE  Always'
  BY <1>1, <1>2, <1>5, SameAlways, AskedFields
<1>6. CASE TimerFires
  BY <1>3, <1>6 DEF TimerFires, page, reader, host
<1>7. CASE Beat
  BY <1>5, <1>7 DEF Beat, page, saver, host, history
<1>8. CASE Wake
  <2>1. UNCHANGED <<script, edits, active, wish, stored, id, place>>
    BY <1>8 DEF Wake, page, saver, history
  <2>2. loader' = loader \/ loader' = Asked(place)
    BY <1>8 DEF Wake
  <2> QED BY <1>3, <1>5, <2>1, <2>2
<1>9. CASE Read
  <2>1. /\ UNCHANGED <<script, edits, active, wish, stored, id, place>> /\ loader'.of = place
    BY <1>9 DEF Read, page, saver, host, history
  <2> QED BY <1>1, <1>2, <2>1, SameAlways
<1>10. CASE Answer
  <2>1. /\ UNCHANGED <<script, edits, active, wish, stored, place>>
        /\ id' = loader.of /\ loader.at = "read" /\ loader' = NoLoader
    BY <1>10 DEF Answer, host
  <2>2. loader'.at = "none"
    BY <2>1 DEF NoLoader
  <2> QED BY <1>1, <1>2, <2>1, <2>2, SameAlways
<1>11. CASE LoaderFails
  <2>1. UNCHANGED <<script, edits, active, wish, stored, id, place>> /\ loader' = NoLoader
    BY <1>11 DEF LoaderFails, host
  <2>2. loader'.at = "none"
    BY <2>1 DEF NoLoader
  <2> QED BY <1>1, <1>2, <2>1, <2>2, SameAlways
<1>12. CASE LoaderHangs
  <2>1. UNCHANGED <<script, edits, active, wish, stored, id, place>> /\ loader'.at = "lost"
    BY <1>12 DEF LoaderHangs, page, saver, host, history
  <2> QED BY <1>1, <1>2, <2>1, SameAlways
<1>13. CASE BeatGivesUp
  BY <1>3, <1>13 DEF BeatGivesUp, page, saver, host, history
<1>14. CASE Arrange
  BY <1>3, <1>14 DEF Arrange, page, saver, reader, history
<1>15. CASE Edit
  <2> DEFINE e == script[edits + 1]
  <2>1. /\ edits < Len(script) /\ ~Holding
        /\ Persist(board, waiting, Edited(board, e, edits + 1), e)
        /\ UNCHANGED <<script, stored, id, place, loader, active>>
    BY <1>15 DEF Edit, reader, host
  <2>2. ~Holding'
    BY <2>1 DEF Holding
  <2> QED BY <1>1, <2>1, <2>2, PersistAlways
<1>16. CASE Grab
  <2> DEFINE e == script[edits + 1]
             from == board.cards[e.card]
  <2>1. /\ edits < Len(script) /\ e.kind \in Gestures
        /\ active' = [card |-> e.card, from |-> from, rect |-> Reshaped(from, e)]
        /\ UNCHANGED <<script, edits, wish, stored, id, place, loader>>
    BY <1>16 DEF Grab, saver, reader, history
  <2>2. WishInv'
    BY <2>1, SameWish DEF Always
  <2>3. Addr'
    BY <2>1 DEF Always, Addr
  <2>4. HoldInv'
    BY <2>1 DEF HoldInv
  <2> QED BY <1>1, <2>2, <2>3, <2>4 DEF Always
<1>17. CASE Release
  <2>1. /\ Holding /\ active' = NoGesture
        /\ Persist(Uncovered, waiting', WithRect(Uncovered, active.card, active.rect),
                   script[edits + 1])
        /\ UNCHANGED <<script, stored, id, place, loader>>
    BY <1>17 DEF Release, reader
  <2>2. edits < Len(script)
    BY <2>1 DEF Always, HoldInv
  <2>3. ~Holding'
    BY <2>1 DEF Holding, NoGesture
  <2> QED BY <1>1, <2>1, <2>2, <2>3, PersistAlways
<1>18. CASE Escape
  <2>1. /\ active' = NoGesture
        /\ UNCHANGED <<script, edits, wish, stored, id, place, loader>>
    BY <1>18 DEF Escape, saver, reader, history
  <2>2. WishInv'
    BY <2>1, SameWish DEF Always
  <2>3. Addr'
    BY <2>1 DEF Always, Addr
  <2>4. HoldInv'
    BY <2>1 DEF HoldInv, Holding, NoGesture
  <2> QED BY <1>1, <2>2, <2>3, <2>4 DEF Always
<1>19. ASSUME NEW r \in net, Land(r) PROVE Always'
  <2>1. /\ UNCHANGED <<script, edits, active, wish, id, place, loader>>
        /\ stored' = [stored EXCEPT ![r.to] = r.layout]
    BY <1>19 DEF Land, page, reader, host, history
  <2>2. DOMAIN stored' = Dash
    BY <1>2, <2>1
  <2> QED BY <1>1, <1>2, <2>1, <2>2, SameAlways
<1>20. ASSUME NEW r \in net, Refuse(r) PROVE Always'
  <2>1. UNCHANGED <<script, active, wish, stored, place, loader>>
    BY <1>20 DEF Refuse, reader, host
  <2>2. CASE \E s \in saves : SaveEnds(s)
    BY <1>4, <2>1, <2>2
  <2>3. CASE UNCHANGED <<page, edits, confirmed, timer, saves, saving>>
    BY <1>3, <2>1, <2>3 DEF page
  <2> QED BY <1>20, <2>2, <2>3 DEF Refuse
<1>21. ASSUME NEW s \in saves, SaveAnswered(s) PROVE Always'
  <2>1. UNCHANGED <<script, active, wish, stored, place>>
    BY <1>21 DEF SaveAnswered, host, history
  <2>2. CASE SaveEnds(s) /\ UNCHANGED loader
    BY <1>4, <2>1, <2>2
  <2>3. CASE loader' = Asked(place) /\ UNCHANGED <<page, edits>>
    BY <1>5, <2>1, <2>3 DEF page
  <2> QED BY <1>21, <2>2, <2>3 DEF SaveAnswered
<1>22. ASSUME NEW s \in saves, GiveUp(s) PROVE Always'
  BY <1>4, <1>22 DEF GiveUp, reader, host
<1>23. ASSUME NEW d \in Dash, Navigate(d) PROVE Always'
  <2>1. /\ UNCHANGED <<script, edits, active, wish, stored, id>>
        /\ place' = d /\ loader' = Asked(d)
    BY <1>23 DEF Navigate, page, saver, host
  <2> QED BY <1>1, <1>2, <2>1, SameAlways, AskedFields
<1>25. ASSUME NEW d \in Dash, Leave(d) PROVE Always'
  <2>1. /\ active' = NoGesture /\ place' = d /\ loader' = Asked(d)
        /\ UNCHANGED <<script, edits, wish, stored, id>>
    BY <1>25 DEF Leave
  <2>2. WishInv'
    BY <2>1, SameWish DEF Always
  <2>3. HoldInv'
    BY <2>1 DEF HoldInv, Holding, NoGesture
  <2>4. Addr'
    BY <2>1, AskedFields DEF Always, Addr
  <2> QED BY <1>1, <2>2, <2>3, <2>4 DEF Always
<1>26. CASE OutlivedSaveReads
  BY <1>5, <1>26 DEF OutlivedSaveReads, page, saver, history
<1>24. CASE UNCHANGED vars
  BY <1>3, <1>24 DEF vars, page, saver, reader, host, history
<1> QED BY <1>6, <1>7, <1>8, <1>9, <1>10, <1>11, <1>12, <1>13, <1>14, <1>15, <1>16, <1>17,
           <1>18, <1>19, <1>20, <1>21, <1>22, <1>23, <1>24, <1>25,
           <1>26 DEF Next

-----------------------------------------------------------------------------
(* What holds while nothing has been sent unprotected.                     *)

(* The screen shows its board with every edit made to it, and a card that   *)
(* is held was taken from there.                                           *)
OnScreen ==
    /\ board.of \in Dash /\ Shown = wish[board.of]
    /\ Holding => /\ active.card \in DOMAIN wish[board.of].cards
                  /\ active.from = wish[board.of].cards[active.card]

(* The debounce holds the whole board, and the save it starts asks for no   *)
(* answer.                                                                 *)
OnTimer == Pending => timer.layout = wish[board.of] /\ board.of = id /\ ~timer.refetch

(* One request at most is on its way, and it is the last one sent: the       *)
(* saves from its own onwards are waiting for it, and it carries every edit  *)
(* but one still on its debounce.                                          *)
OnTheWay ==
    \A r \in net :
        /\ net = {r} /\ r.to = board.of /\ r.layout.of = r.to
        /\ r.edit \in Nat /\ confirmed < r.edit /\ r.edit <= edits
        /\ \A s \in saves : r.edit <= s.edit => s.at = "sent"
        /\ ~Pending => r.layout = wish[board.of]

(* The row of a board is read back with every edit made to it, except the    *)
(* board on the screen while an edit of it is on its debounce or its way.    *)
AtRest ==
    \A d \in Dash :
        /\ stored[d].of = d
        /\ (d # board.of \/ (net = {} /\ ~Pending)) => ParseBoard(stored[d]) = wish[d]

(* A save that will read its board again is never followed by one that will  *)
(* not.                                                                    *)
Refetched ==
    \A s \in saves : s.refetch => /\ ~Pending
                                  /\ \A t \in saves : t.edit = edits => t.refetch

(* The last edit is in a save that is yet to read its board again.          *)
Rereads(S) == \E s \in S : s.edit = edits /\ s.refetch

(* An answer is what its board should be, or a later one replaces it.       *)
Current(l, S) == l.of \in Dash /\ (l = wish[l.of] \/ Rereads(S))

Unread(S) == {s \in S : s.at # "reading"}

Asking == (loader.at = "asked" /\ place = board.of /\ Unsaved) => Rereads(saves)
Reading == loader.at = "read" => Current(loader.answer, Unread(saves))
Waiting == waiting => Current(layout, saves)

Protected ==
    /\ OnScreen /\ OnTimer /\ OnTheWay /\ AtRest /\ Refetched
    /\ Asking /\ Reading /\ Waiting

Sound == Always /\ (~exposed => Protected /\ ~outlived)

(* The gate, as these proofs use it.                                       *)
LEMMA Gate ==
    ASSUME IInv
    PROVE  /\ edits \in Nat /\ confirmed \in Nat /\ confirmed <= edits
           /\ \A s \in saves : s.edit \in Nat /\ s.edit <= edits /\ (Pending => s.edit < edits)
           /\ \A s, t \in saves : s.edit = t.edit => s = t
           /\ Unsaved <=> (Pending \/ \E s \in saves : s.edit = edits)
           /\ Pending => timer.edit = edits
           /\ waiting \in BOOLEAN
BY DEF IInv, Counters, TypeOK, GateIsTrue, SavesInv

(* What is saved is at rest, and what is read then is true.                 *)
LEMMA SavedIsQuiet ==
    ASSUME IInv, Protected, ~Unsaved
    PROVE  ~Pending /\ net = {} /\ ~Rereads(saves) /\ (waiting => layout = wish[layout.of])
<1>1. ~Pending /\ ~Rereads(saves)
  BY Gate DEF Rereads
<1>2. edits \in Nat /\ confirmed \in Nat /\ ~(confirmed < edits)
  BY Gate DEF Unsaved
<1>3. net = {}
  <2>1. ASSUME NEW r \in net PROVE FALSE
    <3>1. r.edit \in Nat /\ confirmed < r.edit /\ r.edit <= edits
      BY DEF Protected, OnTheWay
    <3> QED BY <1>2, <3>1
  <2> QED BY <2>1
<1>4. waiting => layout = wish[layout.of]
  BY <1>1 DEF Protected, Waiting, Current
<1> QED BY <1>1, <1>3, <1>4

(* Saves that end leave what they should: they were handled, and none of     *)
(* them was to read the board again and has not.                           *)
LEMMA SettleProtected ==
    ASSUME Always, IInv', Protected,
           NEW done \in SUBSET saves, NEW l, NEW pending \in BOOLEAN,
           Settle(done), \A s \in done : s.at # "sent",
           Take(l, pending, GateOpen(confirmed')),
           layout' = l,
           pending => Current(l, saves \ done),
           Pending => id' = id,
           \/ loader'.at = "none"
           \/ loader' = loader /\ place' = place /\ \A s \in done : ~s.refetch,
           UNCHANGED <<edits, timer, net, stored, wish, active>>
    PROVE  Protected'
<1>1. /\ edits \in Nat /\ confirmed \in Nat /\ confirmed <= edits
      /\ \A s \in saves : s.edit \in Nat /\ s.edit <= edits /\ (Pending => s.edit < edits)
      /\ \A s, t \in saves : s.edit = t.edit => s = t
      /\ Unsaved <=> (Pending \/ \E s \in saves : s.edit = edits)
  BY Gate DEF Always
<1>2. /\ Unsaved' <=> (Pending' \/ \E s \in saves' : s.edit = edits)
      /\ confirmed' \in Nat
  BY DEF IInv, Counters, GateIsTrue, TypeOK
<1>3. /\ saves' = saves \ done /\ confirmed <= confirmed'
      /\ confirmed' \in {confirmed} \cup {s.edit : s \in done}
  BY DEF Settle
<1>4. (Pending' <=> Pending) /\ (Holding' <=> Holding)
  BY DEF Pending, Holding
<1>5. Unsaved' <=> confirmed' < edits
  BY DEF Unsaved
<1>6. ASSUME NEW r \in net PROVE confirmed' < r.edit
  <2>1. r.edit \in Nat /\ confirmed < r.edit /\ \A s \in saves : r.edit <= s.edit => s.at = "sent"
    BY DEF Protected, OnTheWay
  <2>2. ASSUME NEW s \in done PROVE s.edit < r.edit
    BY <1>1, <2>1
  <2> QED BY <1>3, <2>1, <2>2
<1>7. GateOpen(confirmed') <=> ~Unsaved' /\ ~Holding
  BY <1>1, <1>2, <1>5 DEF GateOpen
<1>8. ~Unsaved' => ~Pending /\ net = {}
  <2>1. ASSUME ~Unsaved', NEW r \in net PROVE FALSE
    <3>1. r.edit \in Nat /\ r.edit <= edits
      BY DEF Protected, OnTheWay
    <3> QED BY <1>1, <1>2, <1>5, <1>6, <2>1, <3>1
  <2> QED BY <1>2, <1>4, <2>1
<1>9. ASSUME board' # board PROVE ~Unsaved' /\ ~Holding /\ pending /\ board' = l
  BY <1>7, <1>9 DEF Take
<1>10. OnScreen'
  <2>1. CASE board' = board
    <3>1. Shown' = Shown
      BY <1>4, <2>1 DEF Shown, Holding
    <3> QED BY <1>4, <2>1, <3>1 DEF Protected, OnScreen
  <2>2. CASE board' # board
    <3>1. ~Rereads(saves \ done)
      BY <1>2, <1>3, <1>9, <2>2 DEF Rereads
    <3>2. l.of \in Dash /\ l = wish[l.of]
      BY <1>9, <2>2, <3>1 DEF Current
    <3>3. Shown' = board'
      BY <1>4, <1>9, <2>2 DEF Shown
    <3> QED BY <1>4, <1>9, <2>2, <3>2, <3>3 DEF OnScreen
  <2> QED BY <2>1, <2>2
<1>11. OnTimer'
  <2>1. Pending => board' = board
    BY <1>8, <1>9
  <2> QED BY <1>4, <2>1 DEF Protected, OnTimer
<1>12. OnTheWay'
  <2>1. net # {} => board' = board
    BY <1>8, <1>9
  <2>2. ASSUME NEW r \in net
        PROVE  /\ net = {r} /\ r.to = board.of /\ r.layout.of = r.to
               /\ r.edit \in Nat /\ r.edit <= edits
               /\ \A s \in saves : r.edit <= s.edit => s.at = "sent"
               /\ ~Pending => r.layout = wish[board.of]
    BY DEF Protected, OnTheWay
  <2> QED BY <1>3, <1>4, <1>6, <2>1, <2>2 DEF OnTheWay
<1>13. AtRest'
  BY <1>4, <1>8, <1>9 DEF Protected, AtRest
<1>14. Refetched'
  BY <1>3, <1>4 DEF Protected, Refetched
<1>15. Asking'
  <2>1. ASSUME loader'.at = "asked", place' = board'.of, Unsaved' PROVE Rereads(saves \ done)
    <3>1. loader' = loader /\ place' = place /\ \A s \in done : ~s.refetch
      BY <2>1
    <3>2. board' = board /\ Unsaved
      BY <1>1, <1>2, <1>3, <1>5, <1>9, <2>1 DEF Unsaved
    <3>3. Rereads(saves)
      BY <2>1, <3>1, <3>2 DEF Protected, Asking
    <3> QED BY <3>1, <3>3 DEF Rereads
  <2> QED BY <1>3, <2>1 DEF Asking, Rereads
<1>16. Reading'
  <2>1. ASSUME loader'.at = "read" PROVE Current(loader.answer, Unread(saves \ done)) /\ loader' = loader
    <3>1. loader' = loader /\ \A s \in done : ~s.refetch
      BY <2>1
    <3>2. Current(loader.answer, Unread(saves))
      BY <2>1, <3>1 DEF Protected, Reading
    <3> QED BY <3>1, <3>2 DEF Current, Rereads, Unread
  <2> QED BY <1>3, <2>1 DEF Reading, Current, Rereads, Unread
<1>17. Waiting'
  <2>1. waiting' => pending
    BY DEF Take
  <2> QED BY <1>3, <2>1 DEF Waiting, Current, Rereads
<1> QED BY <1>10, <1>11, <1>12, <1>13, <1>14, <1>15, <1>16, <1>17 DEF Protected

-----------------------------------------------------------------------------
(* An edit: by a key, a button or a gesture.                               *)

(* An edit is protected: it leaves nothing behind that could undo it.       *)
LEMMA PersistProtected ==
    ASSUME Always, IInv', Protected, edits < Len(script), ~Holding',
           NEW before, NEW pending \in BOOLEAN, NEW next, NEW e, e = script[edits + 1],
           Persist(before, pending, next, e), ~exposed',
           before.of = board.of \/ ~Unsaved,
           next = Edited(wish[id], e, edits + 1),
           waiting' => pending /\ waiting,
           UNCHANGED <<script, id, layout, place, loader, stored>>
    PROVE  Protected'
<1>1. /\ edits \in Nat /\ confirmed \in Nat /\ confirmed <= edits
      /\ \A s \in saves : s.edit \in Nat /\ s.edit <= edits
  BY Gate DEF Always
<1>2. /\ wish'[id] = next /\ (\A d \in Dash : d # id => wish'[d] = wish[d])
      /\ wish'[id].of = id /\ id \in Dash
  <2>1. /\ wish' = [wish EXCEPT ![id] = Edited(wish[id], script[edits + 1], edits + 1)]
        /\ edits' = edits + 1
    BY DEF Persist
  <2>2. id \in Dash
    BY DEF Always, Addr
  <2>3. /\ WishInv' /\ wish'[id] = Edited(wish[id], script[edits + 1], edits + 1)
        /\ \A d \in Dash : d # id => wish'[d] = wish[d]
    BY <2>1, WishGrows
  <2> QED BY <2>2, <2>3 DEF WishInv
<1>3. /\ board' = next /\ edits' = edits + 1 /\ confirmed' = confirmed
      /\ timer' = Armed(Payload(next, e), Debounced(e))
      /\ ~Unprotected(before, pending, Refetches(e)) /\ (Debounced(e) \/ net = {})
  BY DEF Persist
<1>4. /\ before.of = id
      /\ ~Refetches(e) => ~Awaiting /\ ~pending /\ \A s \in saves : ~s.refetch
  BY <1>3 DEF Unprotected
<1>5. board.of # id => ~Pending /\ net = {}
  BY <1>4, SavedIsQuiet DEF Always
<1>6. board'.of = id /\ Shown' = board'
  BY <1>2, <1>3 DEF Shown
<1>7. OnScreen'
  BY <1>2, <1>3, <1>6 DEF OnScreen
<1>8. ASSUME NEW d \in Dash, d # id PROVE stored'[d].of = d /\ ParseBoard(stored'[d]) = wish'[d]
  BY <1>2, <1>5, <1>8 DEF Protected, AtRest
<1>9. stored'[id].of = id
  BY <1>2 DEF Protected, AtRest
<1>10. ~Refetches(e) => loader'.at = "none" /\ ~waiting'
  BY <1>4 DEF Awaiting
<1>11. CASE Debounced(e)
  <2>1. ~Refetches(e)
    BY <1>11 DEF Debounced, Refetches, Gestures
  <2>2. timer' = Payload(next, e) /\ saves' = saves /\ net' = net
    BY <1>3, <1>11 DEF Persist, Armed
  <2>3. timer'.edit = edits + 1 /\ timer'.layout = next /\ timer'.refetch = Refetches(e)
    BY <2>2 DEF Payload
  <2>4. Pending'
    BY <1>1, <2>3 DEF Pending
  <2>5. OnTimer'
    BY <1>2, <1>6, <2>1, <2>3 DEF OnTimer
  <2>6. OnTheWay'
    <3>1. ASSUME NEW r \in net
          PROVE  /\ net = {r} /\ r.to = id /\ r.layout.of = r.to
                 /\ r.edit \in Nat /\ confirmed < r.edit /\ r.edit <= edits
                 /\ \A s \in saves : r.edit <= s.edit => s.at = "sent"
      BY <1>5 DEF Protected, OnTheWay
    <3>2. \A r \in net : r.edit <= edits + 1
      BY <1>1, <3>1
    <3> QED BY <1>3, <1>6, <2>2, <2>4, <3>1, <3>2 DEF OnTheWay
  <2>7. AtRest'
    BY <1>6, <1>8, <1>9, <2>4 DEF AtRest
  <2>8. Refetched'
    BY <1>4, <2>1, <2>2 DEF Refetched
  <2>9. Asking' /\ Reading' /\ Waiting'
    BY <1>10, <2>1 DEF Asking, Reading, Waiting
  <2> QED BY <1>7, <2>5, <2>6, <2>7, <2>8, <2>9 DEF Protected
<1>12. CASE ~Debounced(e)
  <2> DEFINE p == Payload(next, e)
             new == [edit |-> p.edit, refetch |-> p.refetch, at |-> "sent"]
             req == [edit |-> p.edit, layout |-> p.layout, to |-> id]
  <2>1. timer' = NoTimer /\ saves' = saves \cup {new} /\ net' = net \cup {req} /\ net = {}
    BY <1>3, <1>12 DEF Persist, Armed, Send
  <2>2. /\ new.edit = edits + 1 /\ new.refetch = Refetches(e) /\ new.at = "sent"
        /\ req.edit = edits + 1 /\ req.layout = next /\ req.to = id
    BY DEF Payload
  <2>3. ~Pending'
    BY <2>1 DEF NoTimer, Pending
  <2> HIDE DEF p, new, req
  <2>4. OnTimer'
    BY <2>3 DEF OnTimer
  <2>5. OnTheWay'
    <3>1. net' = {req}
      BY <2>1
    <3>2. confirmed' < req.edit /\ req.edit <= edits' /\ req.edit \in Nat
      BY <1>1, <1>3, <2>2
    <3>3. \A s \in saves' : req.edit <= s.edit => s.at = "sent"
      BY <1>1, <2>1, <2>2
    <3>4. req.to = board'.of /\ req.layout.of = req.to /\ req.layout = wish'[board'.of]
      BY <1>2, <1>3, <1>6, <2>2
    <3> QED BY <3>1, <3>2, <3>3, <3>4 DEF OnTheWay
  <2>6. AtRest'
    <3>1. net' # {}
      BY <2>1
    <3> QED BY <1>6, <1>8, <1>9, <3>1 DEF AtRest
  <2>7. Refetched'
    <3>1. \A t \in saves' : t.edit = edits' => t = new
      BY <1>1, <1>3, <2>1
    <3>2. \A s \in saves' : s.refetch => new.refetch
      BY <1>4, <2>1, <2>2
    <3> QED BY <2>3, <3>1, <3>2 DEF Refetched
  <2>8. Asking' /\ Reading' /\ Waiting'
    <3>1. CASE Refetches(e)
      <4>1. new \in saves' /\ new.edit = edits' /\ new.refetch /\ new \in Unread(saves')
        BY <1>3, <2>1, <2>2, <3>1 DEF Unread
      <4>2. Rereads(saves)' /\ Rereads(Unread(saves))'
        BY <4>1 DEF Rereads, Unread
      <4>3. /\ loader.at = "read" => loader.answer.of \in Dash
            /\ waiting => layout.of \in Dash
        BY DEF Protected, Reading, Waiting, Current
      <4>4. Asking' /\ Reading'
        BY <4>2, <4>3 DEF Asking, Reading, Current
      <4> QED BY <4>2, <4>3, <4>4 DEF Waiting, Current
    <3>2. CASE ~Refetches(e)
      BY <1>10, <3>2 DEF Asking, Reading, Waiting
    <3> QED BY <3>1, <3>2
  <2> QED BY <1>7, <2>4, <2>5, <2>6, <2>7, <2>8 DEF Protected
<1> QED BY <1>11, <1>12

LEMMA GestureEdits ==
    ASSUME NEW b, NEW e, e.kind \in Gestures, NEW n
    PROVE  /\ e.card \in DOMAIN b.cards =>
                  Edited(b, e, n) = WithRect(b, e.card, Reshaped(b.cards[e.card], e))
           /\ e.card \notin DOMAIN b.cards => Edited(b, e, n) = b
<1>1. Edited(b, e, n) = IF e.card \in DOMAIN b.cards
                        THEN WithRect(b, e.card, Reshaped(b.cards[e.card], e)) ELSE b
  BY DEF Edited, Gestures
<1> QED BY <1>1

(* Under a card that is held is a board with every edit made to it, the one  *)
(* on the screen or an answer that has just been let in: the card is put     *)
(* back where it was, or committed as its edit.                            *)
LEMMA BeneathHeld ==
    ASSUME Always, Protected, Holding, NEW e, e = script[edits + 1]
    PROVE  LET b == Uncovered
           IN  /\ b.of \in Dash /\ (b.of = board.of \/ ~Unsaved)
               /\ WithRect(b, active.card, active.from) = wish[b.of]
               /\ WithRect(b, active.card, active.rect) = Edited(wish[b.of], e, edits + 1)
<1> DEFINE b == Uncovered
           card == active.card
<1>1. /\ e.kind \in Gestures /\ card = e.card /\ active.rect = Reshaped(active.from, e)
  BY DEF Always, HoldInv
<1>2. /\ board.of \in Dash /\ WithRect(board, card, active.from) = wish[board.of]
      /\ card \in DOMAIN wish[board.of].cards
      /\ active.from = wish[board.of].cards[card]
  BY DEF Protected, OnScreen, Shown
<1>3. \A d \in Dash : wish[d].of = d /\ Formed(wish[d])
  BY DEF Always, WishInv, Good
<1>4. CASE waiting /\ ~Unsaved
  <2>1. b = layout /\ layout.of \in Dash /\ layout = wish[layout.of]
    <3>1. layout = wish[layout.of]
      BY <1>4, SavedIsQuiet DEF Always
    <3>2. layout.of \in Dash
      BY <1>4 DEF Protected, Waiting, Current
    <3> QED BY <1>4, <3>1, <3>2 DEF Uncovered
  <2> DEFINE w == wish[layout.of]
  <2>2. Formed(w) /\ (card \in DOMAIN w.cards => active.from = w.cards[card])
    <3>1. card \in DOMAIN w.cards => layout.of = board.of
      BY <1>2, <2>1 DEF Always, WishInv
    <3> QED BY <1>2, <1>3, <2>1, <3>1
  <2>3. b = w /\ b.of \in Dash
    BY <2>1
  <2> HIDE DEF w, b
  <2>4. WithRect(w, card, active.from) = w
    BY <2>2, RectUnmoved
  <2>5. WithRect(w, card, active.rect) = Edited(w, e, edits + 1)
    <3>1. CASE card \in DOMAIN w.cards
      BY <1>1, <2>2, <3>1, GestureEdits
    <3>2. CASE card \notin DOMAIN w.cards
      <4>1. WithRect(w, card, active.rect) = w
        BY <2>2, <3>2, RectUnmoved
      <4> QED BY <1>1, <3>2, <4>1, GestureEdits
    <3> QED BY <3>1, <3>2
  <2>6. w = wish[b.of]
    BY <1>3, <2>1 DEF w, b
  <2> QED BY <1>4, <2>3, <2>4, <2>5, <2>6 DEF b
<1>5. CASE ~(waiting /\ ~Unsaved)
  <2>1. b = board
    BY <1>5 DEF Uncovered
  <2> DEFINE w == wish[board.of]
  <2> HIDE DEF w, b
  <2>2. WithRect(WithRect(board, card, active.from), card, active.rect) =
        WithRect(board, card, active.rect)
    BY RectReplaced
  <2>3. WithRect(board, card, active.rect) = WithRect(w, card, active.rect)
    BY <1>2, <2>2 DEF w
  <2>4. WithRect(w, card, active.rect) = Edited(w, e, edits + 1)
    BY <1>1, <1>2, GestureEdits DEF w
  <2> QED BY <1>2, <2>1, <2>3, <2>4 DEF w, b
<1> QED BY <1>4, <1>5

LEMMA EditProtected ==
    ASSUME Always, IInv', Protected, Edit, ~exposed'
    PROVE  Protected'
<1> DEFINE e == script[edits + 1]
<1>1. /\ edits < Len(script) /\ ~Holding
      /\ Persist(board, waiting, Edited(board, e, edits + 1), e)
      /\ UNCHANGED <<script, id, layout, waiting, place, loader, stored, active>>
  BY DEF Edit, reader, host
<1> HIDE DEF e
<1>2. ~Holding' /\ (waiting' => waiting) /\ waiting \in BOOLEAN
  BY <1>1, Gate DEF Holding, Always
<1>3. board.of = id
  BY <1>1 DEF Persist, Unprotected
<1>4. board = wish[id]
  BY <1>1, <1>3 DEF Protected, OnScreen, Shown
<1>5. Edited(board, e, edits + 1) = Edited(wish[id], e, edits + 1)
  BY <1>4
<1> QED BY <1>1, <1>2, <1>5, PersistProtected DEF e

LEMMA ReleaseProtected ==
    ASSUME Always, IInv', Protected, Release, ~exposed'
    PROVE  Protected'
<1> DEFINE e == script[edits + 1]
           b == Uncovered
           next == WithRect(b, active.card, active.rect)
<1>1. /\ Holding /\ active' = NoGesture /\ waiting' = (waiting /\ Unsaved)
      /\ Persist(b, waiting', next, e)
      /\ UNCHANGED <<script, id, layout, place, loader, stored>>
  BY DEF Release, reader
<1>2. /\ edits < Len(script) /\ ~Holding'
      /\ (waiting' => waiting) /\ waiting' \in BOOLEAN
  BY <1>1 DEF Always, HoldInv, Holding, NoGesture
<1>3. /\ b.of \in Dash /\ (b.of = board.of \/ ~Unsaved)
      /\ next = Edited(wish[b.of], e, edits + 1)
  BY <1>1, BeneathHeld
<1> HIDE DEF e, b, next
<1>4. b.of = id
  BY <1>1 DEF Persist, Unprotected
<1>5. next = Edited(wish[id], e, edits + 1)
  BY <1>3, <1>4
<1>6. e = script[edits + 1]
  BY DEF e
<1> DEFINE pending == waiting'
<1> QED BY <1>1, <1>2, <1>3, <1>5, <1>6, PersistProtected

-----------------------------------------------------------------------------
(* What only changes the screen, and what the server does.                *)

(* Nothing but the screen has changed, and it is still its board.           *)
LEMMA ScreenProtected ==
    ASSUME Protected, OnScreen', board'.of = board.of \/ (~Pending /\ net = {}),
           waiting' => waiting,
           board'.of = board.of \/ ~Unsaved,
           UNCHANGED <<id, layout, edits, confirmed, timer, saves, net, place, loader, stored, wish>>
    PROVE  Protected'
<1>1. (Pending' <=> Pending) /\ (Unsaved' <=> Unsaved)
  BY DEF Pending, Unsaved
<1>2. OnTimer'
  BY <1>1 DEF Protected, OnTimer
<1>3. OnTheWay'
  BY <1>1 DEF Protected, OnTheWay
<1>4. AtRest'
  BY <1>1 DEF Protected, AtRest
<1>5. Refetched'
  BY <1>1 DEF Protected, Refetched
<1>6. Asking'
  BY <1>1 DEF Protected, Asking, Rereads
<1>7. Reading' /\ Waiting'
  BY DEF Protected, Reading, Waiting, Current, Rereads, Unread
<1> QED BY <1>2, <1>3, <1>4, <1>5, <1>6, <1>7 DEF Protected

LEMMA EscapeProtected ==
    ASSUME Always, Protected, Escape
    PROVE  Protected'
<1> DEFINE b == Uncovered
           e == script[edits + 1]
<1>1. /\ Holding /\ active' = NoGesture /\ waiting' = (waiting /\ Unsaved)
      /\ board' = WithRect(b, active.card, active.from)
      /\ UNCHANGED <<id, layout, edits, confirmed, timer, saves, net, place, loader, stored, wish>>
  BY DEF Escape, saver, reader, history
<1>2. /\ b.of \in Dash /\ (b.of = board.of \/ ~Unsaved)
      /\ WithRect(b, active.card, active.from) = wish[b.of]
  <2>1. e = script[edits + 1]
    OBVIOUS
  <2> HIDE DEF e
  <2> QED BY <1>1, <2>1, BeneathHeld
<1> HIDE DEF b
<1>3. board' = wish[b.of] /\ board'.of = b.of
  BY <1>1, <1>2 DEF Always, WishInv
<1>4. ~Holding'
  BY <1>1 DEF Holding, NoGesture
<1>5. OnScreen'
  BY <1>1, <1>2, <1>3, <1>4 DEF OnScreen, Shown
<1>6. ~Unsaved => ~Pending /\ net = {}
  BY SavedIsQuiet DEF Always
<1> QED BY <1>1, <1>2, <1>3, <1>5, <1>6, ScreenProtected

LEMMA GrabProtected ==
    ASSUME Always, Protected, Grab
    PROVE  Protected'
<1> DEFINE e == script[edits + 1]
           card == e.card
           from == board.cards[card]
           r == Reshaped(from, e)
<1>1. /\ edits < Len(script) /\ ~Holding /\ e.kind \in Gestures /\ Has(e)
      /\ active' = [card |-> card, from |-> from, rect |-> r]
      /\ board' = WithRect(board, card, r)
      /\ UNCHANGED <<id, layout, waiting, edits, confirmed, timer, saves, net, place, loader,
                     stored, wish>>
  BY DEF Grab, saver, reader, history
<1>2. card \in DOMAIN board.cards
  BY <1>1 DEF Has, Gestures
<1>3. board.of \in Dash /\ board = wish[board.of] /\ Formed(board)
  <2>1. board.of \in Dash /\ board = wish[board.of]
    BY <1>1 DEF Protected, OnScreen, Shown
  <2>2. \A d \in Dash : Formed(wish[d])
    BY DEF Always, WishInv, Good
  <2> QED BY <2>1, <2>2
<1>4. card # "none"
  BY <1>1, NextEdit DEF Offered, Gestures
<1>5. active'.card = card /\ active'.from = from /\ Holding'
  BY <1>1, <1>4 DEF Holding
<1>6. WithRect(board', card, from) = board
  <2> HIDE DEF r, card, from
  <2>1. WithRect(WithRect(board, card, r), card, from) = WithRect(board, card, from)
    BY RectReplaced
  <2>2. WithRect(board, card, from) = board
    BY <1>3, RectUnmoved DEF from
  <2> QED BY <1>1, <2>1, <2>2
<1>7. board'.of = board.of
  <2> HIDE DEF r, card
  <2> QED BY <1>1, WithRectKeeps
<1> HIDE DEF e, r, card
<1>8. OnScreen'
  <2>1. Shown' = board
    BY <1>5, <1>6 DEF Shown
  <2> QED BY <1>1, <1>2, <1>3, <1>5, <1>7, <2>1 DEF OnScreen
<1> QED BY <1>1, <1>7, <1>8, ScreenProtected

LEMMA TimerProtected ==
    ASSUME Always, Protected, TimerFires, ~exposed'
    PROVE  Protected'
<1> DEFINE new == [edit |-> timer.edit, refetch |-> timer.refetch, at |-> "sent"]
           req == [edit |-> timer.edit, layout |-> timer.layout, to |-> id]
<1>1. /\ Pending /\ timer' = NoTimer /\ net = {}
      /\ saves' = saves \cup {new} /\ net' = net \cup {req}
      /\ UNCHANGED <<id, layout, waiting, board, edits, confirmed, place, loader, active, stored, wish>>
  BY DEF TimerFires, Send, page, reader, host
<1>2. /\ edits \in Nat /\ confirmed < edits /\ timer.edit = edits
      /\ \A s \in saves : s.edit \in Nat /\ s.edit < edits
  BY <1>1, Gate DEF Always, Unsaved
<1>3. timer.layout = wish[board.of] /\ board.of = id /\ ~timer.refetch
  BY <1>1 DEF Protected, OnTimer
<1>4. new.edit = edits /\ ~new.refetch /\ new.at = "sent"
  BY <1>2, <1>3
<1>5. req.edit = edits /\ req.layout = wish[board.of] /\ req.to = board.of
  BY <1>2, <1>3
<1> HIDE DEF new, req
<1>6. ~Pending' /\ (Unsaved' <=> Unsaved)
  BY <1>1 DEF NoTimer, Pending, Unsaved
<1>7. OnScreen'
  BY <1>1 DEF Protected, OnScreen, Shown, Holding
<1>8. OnTimer'
  BY <1>6 DEF OnTimer
<1>9. OnTheWay'
  <2>1. net' = {req}
    BY <1>1
  <2>2. \A s \in saves' : req.edit <= s.edit => s.at = "sent"
    BY <1>1, <1>2, <1>4, <1>5
  <2>3. req.layout.of = req.to
    BY <1>5 DEF Protected, OnScreen, Always, WishInv
  <2> QED BY <1>1, <1>2, <1>5, <2>1, <2>2, <2>3 DEF OnTheWay
<1>10. AtRest'
  <2>1. net' # {}
    BY <1>1
  <2> QED BY <1>1, <2>1 DEF Protected, AtRest
<1>11. \A s \in saves' : ~s.refetch
  BY <1>1, <1>4 DEF Protected, Refetched
<1>12. Refetched'
  BY <1>11 DEF Refetched
<1>13. saves \subseteq saves' /\ Unread(saves) \subseteq Unread(saves')
  BY <1>1 DEF Unread
<1>14. Asking'
  BY <1>1, <1>6, <1>13 DEF Protected, Asking, Rereads
<1>15. Reading'
  BY <1>1, <1>13 DEF Protected, Reading, Current, Rereads, Unread
<1>16. Waiting'
  BY <1>1, <1>13 DEF Protected, Waiting, Current, Rereads
<1> QED BY <1>7, <1>8, <1>9, <1>10, <1>12, <1>14, <1>15, <1>16 DEF Protected

LEMMA LandProtected ==
    ASSUME Always, Protected, NEW r \in net, Land(r)
    PROVE  Protected'
<1> DEFINE Image(s) == IF s.edit = r.edit
                       THEN [edit |-> s.edit, refetch |-> s.refetch, at |-> "landed"] ELSE s
<1>1. /\ \A c \in DOMAIN r.layout.cards : Accepted(r.layout.cards[c])
      /\ stored' = [stored EXCEPT ![r.to] = r.layout]
      /\ net' = net \ {r} /\ saves' = {Image(s) : s \in saves}
      /\ UNCHANGED <<id, layout, waiting, board, edits, confirmed, timer, place, loader, active, wish>>
  BY DEF Land, Storable, page, reader, host, history
<1>2. \A s : /\ Image(s).edit = s.edit /\ (Image(s).refetch <=> s.refetch)
             /\ Image(s).at = s.at \/ Image(s).at = "landed"
  OBVIOUS
<1> HIDE DEF Image
<1>3. /\ net = {r} /\ r.to = board.of /\ r.layout.of = r.to
      /\ ~Pending => r.layout = wish[board.of]
  BY DEF Protected, OnTheWay
<1>4. board.of \in Dash /\ DOMAIN stored = Dash /\ Good(wish[board.of])
  BY DEF Protected, OnScreen, Always, WishInv, Addr
<1>5. (Pending' <=> Pending) /\ (Unsaved' <=> Unsaved) /\ net' = {}
  BY <1>1, <1>3 DEF Pending, Unsaved
<1>6. OnScreen'
  BY <1>1 DEF Protected, OnScreen, Shown, Holding
<1>7. OnTimer'
  BY <1>1, <1>5 DEF Protected, OnTimer
<1>8. OnTheWay'
  BY <1>5 DEF OnTheWay
<1>9. AtRest'
  <2>1. ~Pending => ParseBoard(r.layout) = wish[board.of]
    <3>1. CASE ~Pending
      <4>1. r.layout = wish[board.of]
        BY <1>3, <3>1
      <4>2. Good(r.layout)
        BY <1>4, <4>1
      <4> QED BY <1>1, <4>1, <4>2, ReadAsSaved
    <3> QED BY <3>1
  <2>2. \A d \in Dash : stored'[d] = IF d = board.of THEN r.layout ELSE stored[d]
    BY <1>1, <1>3, <1>4
  <2> QED BY <1>1, <1>3, <1>5, <2>1, <2>2 DEF Protected, AtRest
<1>10. Refetched'
  BY <1>1, <1>2, <1>5 DEF Protected, Refetched
<1>11. Rereads(saves) => Rereads(saves)'
  BY <1>1, <1>2 DEF Rereads
<1>12. Rereads(Unread(saves)) => Rereads(Unread(saves))'
  <2>1. ASSUME NEW s \in saves, s.edit = edits, s.refetch, s.at # "reading"
        PROVE  Rereads(Unread(saves))'
    <3>1. /\ Image(s) \in saves' /\ Image(s).edit = edits' /\ Image(s).refetch
          /\ Image(s).at # "reading"
      BY <1>1, <1>2, <2>1
    <3> QED BY <3>1 DEF Rereads, Unread
  <2> QED BY <2>1 DEF Rereads, Unread
<1>13. Asking'
  BY <1>1, <1>5, <1>11 DEF Protected, Asking
<1>14. Reading' /\ Waiting'
  BY <1>1, <1>11, <1>12 DEF Protected, Reading, Waiting, Current
<1> QED BY <1>6, <1>7, <1>8, <1>9, <1>10, <1>13, <1>14 DEF Protected

-----------------------------------------------------------------------------
(* Loader calls and the ends of saves.                                     *)

(* Nothing but the loader's call has changed.                              *)
LEMMA LoaderProtected ==
    ASSUME Protected, Asking', Reading',
           UNCHANGED <<id, layout, waiting, board, edits, confirmed, timer, saves, net, active,
                       stored, wish>>
    PROVE  Protected'
<1>1. (Pending' <=> Pending) /\ (Unsaved' <=> Unsaved)
  BY DEF Pending, Unsaved
<1>2. OnScreen'
  BY DEF Protected, OnScreen, Shown, Holding
<1>3. OnTimer' /\ OnTheWay'
  BY <1>1 DEF Protected, OnTimer, OnTheWay
<1>4. AtRest' /\ Refetched'
  BY <1>1 DEF Protected, AtRest, Refetched
<1>5. Waiting'
  BY DEF Protected, Waiting, Current, Rereads
<1> QED BY <1>2, <1>3, <1>4, <1>5 DEF Protected

LEMMA ReadProtected ==
    ASSUME Always, Protected, Read
    PROVE  Protected'
<1>1. /\ loader.at = "asked"
      /\ loader' = [at |-> "read", of |-> place, answer |-> ParseBoard(stored[place])]
      /\ UNCHANGED <<id, layout, waiting, board, edits, confirmed, timer, saves, net, active,
                     stored, wish>>
  BY DEF Read, page, saver, host, history
<1> DEFINE a == ParseBoard(stored[place])
<1>2. place \in Dash /\ a.of = place
  BY DEF Protected, AtRest, ParseBoard, Content, Always, Addr
<1> HIDE DEF a
<1>3. loader'.at = "read" /\ loader'.answer = a
  BY <1>1 DEF a
<1>4. a = wish[place] \/ Rereads(Unread(saves))
  <2>1. CASE place # board.of \/ (net = {} /\ ~Pending)
    BY <1>2, <2>1 DEF Protected, AtRest, a
  <2>2. CASE place = board.of /\ ~(net = {} /\ ~Pending)
    <3>1. Unsaved
      BY <2>2, SavedIsQuiet DEF Always
    <3>2. PICK s \in saves : s.edit = edits /\ s.refetch
      BY <1>1, <2>2, <3>1 DEF Protected, Asking, Rereads
    <3>3. ~Pending
      BY <3>2 DEF Protected, Refetched
    <3>4. PICK r \in net : r.edit <= edits /\ \A t \in saves : r.edit <= t.edit => t.at = "sent"
      BY <2>2, <3>3 DEF Protected, OnTheWay
    <3>5. s.at = "sent"
      BY <3>2, <3>4
    <3> QED BY <3>2, <3>5 DEF Rereads, Unread
  <2> QED BY <2>1, <2>2
<1>5. Asking'
  BY <1>3 DEF Asking
<1>6. Reading'
  BY <1>1, <1>2, <1>3, <1>4 DEF Reading, Current, Rereads, Unread
<1> QED BY <1>1, <1>5, <1>6, LoaderProtected

(* The board is asked for again only when nothing is unsaved, or by a save.  *)
LEMMA AskedProtected ==
    ASSUME Protected, NEW d, loader' = Asked(d), place' = d,
           d = board.of => ~Unsaved,
           UNCHANGED <<id, layout, waiting, board, edits, confirmed, timer, saves, net, active,
                       stored, wish>>
    PROVE  Protected'
<1>1. loader'.at = "asked"
  BY DEF Asked
<1>2. Asking'
  BY DEF Asking, Unsaved
<1>3. Reading'
  BY <1>1 DEF Reading
<1> QED BY <1>2, <1>3, LoaderProtected

(* A save that has landed reads its board again.                           *)
LEMMA RereadProtected ==
    ASSUME Always, Protected, NEW s \in saves, s.refetch, s.at = "landed",
           loader' = Asked(place),
           saves' = (saves \ {s}) \cup {[edit |-> s.edit, refetch |-> TRUE, at |-> "reading"]},
           UNCHANGED <<id, layout, waiting, board, edits, confirmed, timer, net, place, active,
                       stored, wish>>
    PROVE  Protected'
<1> DEFINE new == [edit |-> s.edit, refetch |-> TRUE, at |-> "reading"]
<1>1. saves' = (saves \ {s}) \cup {new} /\ new.edit = s.edit /\ new.refetch
  OBVIOUS
<1> HIDE DEF new
<1>2. (Pending' <=> Pending) /\ (Unsaved' <=> Unsaved) /\ loader'.at = "asked"
  BY DEF Pending, Unsaved, Asked
<1>3. ~Pending /\ \A t \in saves : t.edit = edits => t.refetch
  BY DEF Protected, Refetched
<1>4. OnScreen'
  BY DEF Protected, OnScreen, Shown, Holding
<1>5. OnTimer'
  BY <1>2, <1>3 DEF OnTimer
<1>6. OnTheWay'
  <2>1. ASSUME NEW r \in net PROVE ~(r.edit <= s.edit)
    BY DEF Protected, OnTheWay
  <2> QED BY <1>1, <1>2, <2>1 DEF Protected, OnTheWay
<1>7. AtRest'
  BY <1>2 DEF Protected, AtRest
<1>8. Refetched'
  BY <1>1, <1>2, <1>3 DEF Refetched
<1>9. Rereads(saves) => Rereads(saves)'
  BY <1>1 DEF Rereads
<1>10. Asking'
  <2>1. Unsaved => Rereads(saves)
    BY <1>3, Gate DEF Always, Rereads
  <2> QED BY <1>2, <1>9, <2>1 DEF Asking
<1>11. Reading' /\ Waiting'
  BY <1>2, <1>9 DEF Protected, Reading, Waiting, Current
<1> QED BY <1>4, <1>5, <1>6, <1>7, <1>8, <1>10, <1>11 DEF Protected

LEMMA AnsweredProtected ==
    ASSUME Always, IInv', Protected, NEW s \in saves, SaveAnswered(s)
    PROVE  Protected'
<1>1. s.at = "landed" /\ UNCHANGED <<net, place, active, stored, wish>>
  BY DEF SaveAnswered, host, history
<1>2. CASE /\ s.refetch /\ loader' = Asked(place)
           /\ saves' = (saves \ {s}) \cup {[edit |-> s.edit, refetch |-> TRUE, at |-> "reading"]}
           /\ UNCHANGED <<page, edits, confirmed, timer, saving>>
  BY <1>1, <1>2, RereadProtected DEF page
<1>3. CASE ~s.refetch /\ SaveEnds(s) /\ UNCHANGED loader
  <2> DEFINE done == {s}
  <2>1. /\ Settle(done) /\ Take(layout, waiting, GateOpen(confirmed'))
        /\ UNCHANGED <<id, layout, edits, timer>>
    BY <1>3 DEF SaveEnds
  <2>2. done \in SUBSET saves /\ \A t \in done : t.at # "sent" /\ ~t.refetch
    BY <1>1, <1>3
  <2>3. waiting => Current(layout, saves \ done)
    BY <2>2 DEF Protected, Waiting, Current, Rereads
  <2>4. waiting \in BOOLEAN
    BY Gate DEF Always
  <2> HIDE DEF done
  <2> QED BY <1>1, <1>3, <2>1, <2>2, <2>3, <2>4, SettleProtected
<1> QED BY <1>2, <1>3 DEF SaveAnswered

LEMMA AnswerProtected ==
    ASSUME Always, IInv', Protected, Answer, ~exposed'
    PROVE  Protected'
<1> DEFINE done == {s \in saves : s.at = "reading"}
<1>1. /\ loader.at = "read" /\ loader' = NoLoader /\ id' = loader.of /\ layout' = loader.answer
      /\ Settle(done) /\ Take(loader.answer, TRUE, GateOpen(confirmed'))
      /\ Pending => id' = id
      /\ UNCHANGED <<edits, timer, net, place, active, stored, wish>>
  BY DEF Answer, host
<1>2. done \in SUBSET saves /\ \A s \in done : s.at # "sent"
  OBVIOUS
<1>3. Current(loader.answer, saves \ done)
  BY <1>1 DEF Protected, Reading, Current, Rereads, Unread
<1>4. loader'.at = "none"
  BY <1>1 DEF NoLoader
<1> DEFINE l == loader.answer
<1> HIDE DEF done
<1> QED BY <1>1, <1>2, <1>3, <1>4, SettleProtected

LEMMA FailedProtected ==
    ASSUME Always, IInv', Protected, LoaderFails, ~exposed'
    PROVE  Protected'
<1> DEFINE done == {s \in saves : s.at = "reading"}
<1>1. /\ loader' = NoLoader /\ done = {}
      /\ Settle(done) /\ Take(layout, waiting, GateOpen(confirmed'))
      /\ UNCHANGED <<id, layout, edits, timer, net, place, active, stored, wish>>
  BY DEF LoaderFails, host
<1>2. waiting => Current(layout, saves \ done)
  BY <1>1 DEF Protected, Waiting, Current, Rereads
<1>3. loader'.at = "none"
  BY <1>1 DEF NoLoader
<1>4. waiting \in BOOLEAN
  BY Gate DEF Always
<1> HIDE DEF done
<1> QED BY <1>1, <1>2, <1>3, <1>4, SettleProtected

LEMMA InitSound == Init => Sound
<1> SUFFICES ASSUME Init PROVE Sound
  OBVIOUS
<1>1. Always
  BY InitAlways
<1>2. /\ id = First /\ board = ParseBoard(stored[First])
      /\ waiting = FALSE /\ ~outlived /\ loader = NoLoader /\ active = NoGesture
      /\ edits = 0 /\ confirmed = 0 /\ timer = NoTimer /\ saves = {} /\ net = {}
      /\ wish = [d \in Dash |-> ParseBoard(stored[d])]
      /\ stored = [d \in Dash |-> Content(d, [c \in {d} |-> [x |-> 20, y |-> 45, w |-> 200, h |-> 160]], 0, 0)]
  BY DEF Init
<1>3. ~Holding /\ ~Pending /\ loader.at = "none"
  BY <1>2 DEF NoGesture, NoTimer, NoLoader, Holding, Pending
<1>4. board = wish[First] /\ First \in Dash /\ board.of = First
  <2>1. First \in Dash /\ board = wish[First]
    BY <1>2, BoardAssumption
  <2> QED BY <1>1, <2>1 DEF Always, WishInv
<1>5. OnScreen
  BY <1>3, <1>4 DEF OnScreen, Shown
<1>6. OnTimer /\ OnTheWay
  BY <1>2, <1>3 DEF OnTimer, OnTheWay
<1>7. AtRest
  <2>1. \A d \in Dash : stored[d].of = d
    BY <1>2 DEF Content
  <2>2. \A d \in Dash : ParseBoard(stored[d]) = wish[d]
    BY <1>2
  <2> QED BY <2>1, <2>2 DEF AtRest
<1>8. Refetched /\ Asking /\ Reading /\ Waiting
  BY <1>2, <1>3 DEF Refetched, Asking, Reading, Waiting
<1> QED BY <1>1, <1>2, <1>5, <1>6, <1>7, <1>8 DEF Sound, Protected

LEMMA StepProtected ==
    ASSUME Always, IInv', Protected, ~outlived, Next, ~exposed, ~exposed'
    PROVE  Protected'
<1>1. CASE TimerFires
  BY <1>1, TimerProtected
<1>2. ASSUME ~Unsaved, loader' = Asked(place),
             UNCHANGED <<place, id, layout, waiting, board, edits, confirmed, timer, saves, net,
                         active, stored, wish>>
      PROVE  Protected'
  <2> DEFINE d == place
  <2> QED BY <1>2, AskedProtected
<1>3. CASE Beat
  BY <1>2, <1>3 DEF Beat, Live, Settled, page, saver, host, history
<1>4. ASSUME UNCHANGED <<place, loader, id, layout, waiting, board, edits, confirmed, timer, saves,
                         net, active, stored, wish>>
      PROVE  Protected'
  <2>1. Unsaved' <=> Unsaved
    BY <1>4 DEF Unsaved
  <2>2. Asking' /\ Reading'
    BY <1>4, <2>1 DEF Protected, Asking, Reading, Current, Rereads, Unread
  <2> QED BY <1>4, <2>2, LoaderProtected
<1>5. CASE Wake
  <2>1. UNCHANGED <<place, id, layout, waiting, board, edits, confirmed, timer, saves, net,
                    active, stored, wish>>
    BY <1>5 DEF Wake, page, saver, history
  <2>2. loader' = loader \/ (~Unsaved /\ loader' = Asked(place))
    BY <1>5 DEF Wake, Settled
  <2> QED BY <1>2, <1>4, <2>1, <2>2
<1>6. CASE Read
  BY <1>6, ReadProtected
<1>7. CASE Answer
  BY <1>7, AnswerProtected
<1>8. CASE LoaderFails
  BY <1>8, FailedProtected
<1>9. CASE LoaderHangs
  <2>1. /\ loader'.at = "lost"
        /\ UNCHANGED <<id, layout, waiting, board, edits, confirmed, timer, saves, net, active,
                       stored, wish>>
    BY <1>9 DEF LoaderHangs, page, saver, host, history
  <2>2. Asking' /\ Reading'
    BY <2>1 DEF Asking, Reading
  <2> QED BY <2>1, <2>2, LoaderProtected
<1>10. CASE BeatGivesUp
  BY <1>4, <1>10 DEF BeatGivesUp, page, saver, host, history
<1>11. CASE Arrange
  BY <1>4, <1>11 DEF Arrange, page, saver, reader, history
<1>12. CASE Edit
  BY <1>12, EditProtected
<1>13. CASE Grab
  BY <1>13, GrabProtected
<1>14. CASE Release
  BY <1>14, ReleaseProtected
<1>15. CASE Escape
  BY <1>15, EscapeProtected
<1>16. ASSUME NEW r \in net, Land(r) PROVE Protected'
  BY <1>16, LandProtected
<1>17. ASSUME NEW r \in net, Refuse(r) PROVE FALSE
  BY <1>17 DEF Refuse
<1>18. ASSUME NEW s \in saves, SaveAnswered(s) PROVE Protected'
  BY <1>18, AnsweredProtected
<1>19. ASSUME NEW s \in saves, GiveUp(s) PROVE FALSE
  BY <1>19 DEF GiveUp
<1>20. ASSUME NEW d \in Dash, Navigate(d) PROVE Protected'
  <2>1. /\ loader' = Asked(d) /\ place' = d /\ (d = board.of => ~Unsaved)
        /\ UNCHANGED <<id, layout, waiting, board, edits, confirmed, timer, saves, net, active,
                       stored, wish>>
    BY <1>20 DEF Navigate, page, saver, host
  <2> QED BY <2>1, AskedProtected
<1>21. ASSUME NEW d \in Dash, Leave(d) PROVE Protected'
  <2>1. /\ ~Pending /\ net = {}
        /\ loader' = Asked(d) /\ board' = Shown /\ active' = NoGesture /\ waiting' = FALSE
        /\ timer' = NoTimer /\ saves' = {} /\ confirmed' = edits
        /\ UNCHANGED <<id, edits, net, stored, wish>>
    BY <1>21 DEF Leave
  <2>2. edits \in Nat /\ loader'.at = "asked" /\ ~Holding' /\ ~Pending'
    BY <2>1, AskedFields, Gate DEF Always, NoGesture, Holding, NoTimer, Pending
  <2>3. ~Unsaved'
    BY <2>1, <2>2 DEF Unsaved
  <2>4. board'.of = board.of
    BY <2>1, WithRectKeeps DEF Shown
  <2>5. OnScreen'
    <3>1. Shown' = board' /\ board' = wish[board.of] /\ board.of \in Dash
      BY <2>1, <2>2 DEF Shown, Protected, OnScreen
    <3> QED BY <2>1, <2>2, <2>4, <3>1 DEF OnScreen
  <2>6. OnTimer' /\ OnTheWay'
    BY <2>1, <2>2 DEF OnTimer, OnTheWay
  <2>7. AtRest'
    BY <2>1 DEF Protected, AtRest
  <2>8. Refetched' /\ Asking' /\ Reading' /\ Waiting'
    BY <2>1, <2>2, <2>3 DEF Refetched, Asking, Reading, Waiting
  <2> QED BY <2>5, <2>6, <2>7, <2>8 DEF Protected
<1>22. ~OutlivedSaveReads
  BY DEF OutlivedSaveReads
<1> QED BY <1>1, <1>3, <1>5, <1>6, <1>7, <1>8, <1>9, <1>10, <1>11, <1>12, <1>13, <1>14, <1>15,
           <1>16, <1>17, <1>18, <1>19, <1>20, <1>21, <1>22 DEF Next

(* Nothing that was exposed is protected again.                            *)
LEMMA ExposedStays == ASSUME Next, exposed PROVE exposed'
BY DEF Next, TimerFires, Beat, Wake, Read, Answer, LoaderFails, LoaderHangs, BeatGivesUp,
       Arrange, Edit, Grab, Release, Escape, Land, Refuse, SaveAnswered, GiveUp, Navigate,
       Leave, OutlivedSaveReads, Persist, history

(* A page is left with a save out only at the price of exposure.           *)
LEMMA NoneOutlives ==
    ASSUME Next, ~outlived, ~exposed', Protected, Always
    PROVE  ~outlived'
<1>1. ASSUME NEW d \in Dash, Leave(d) PROVE ~outlived'
  BY <1>1 DEF Leave
<1>2. ~OutlivedSaveReads
  BY DEF OutlivedSaveReads
<1>3. CASE outlived' = outlived
  BY <1>3
<1> QED BY <1>1, <1>2, <1>3 DEF Next, TimerFires, Beat, Wake, Read, Answer, LoaderFails, LoaderHangs,
       BeatGivesUp, Arrange, Edit, Grab, Release, Escape, Land, Refuse, SaveAnswered, GiveUp,
       Navigate, host

LEMMA StepSound == Sound /\ [Next]_vars => Sound'
<1> SUFFICES ASSUME Sound, [Next]_vars PROVE Sound'
  OBVIOUS
<1>1. Always'
  BY StepAlways DEF Sound
<1>2. CASE Next
  <2>1. exposed => exposed'
    BY <1>2, ExposedStays
  <2>2. IInv'
    BY <1>1 DEF Always
  <2> QED BY <1>1, <1>2, <2>1, <2>2, StepProtected, NoneOutlives DEF Sound
<1>3. CASE UNCHANGED vars
  <2>1. UNCHANGED <<place, loader, id, layout, waiting, board, edits, confirmed, timer, saves,
                    net, active, stored, wish, exposed, outlived>>
    BY <1>3 DEF vars, page, saver, reader, host, history
  <2>2. (Unsaved' <=> Unsaved)
    BY <2>1 DEF Unsaved
  <2>3. Protected => Asking' /\ Reading'
    BY <2>1, <2>2 DEF Protected, Asking, Reading, Current, Rereads, Unread
  <2>4. Protected => Protected'
    BY <2>1, <2>3, LoaderProtected
  <2> QED BY <1>1, <2>1, <2>4 DEF Sound
<1> QED BY <1>2, <1>3

LEMMA SoundKeeps == Sound => EditsKept
<1> SUFFICES ASSUME Sound, ~exposed PROVE
             /\ Shown = wish[board.of]
             /\ \A d \in Dash : (net = {} /\ (Pending => d # id)) => ParseBoard(stored[d]) = wish[d]
  BY DEF EditsKept
<1>1. Protected
  BY DEF Sound
<1>2. Shown = wish[board.of]
  BY <1>1 DEF Protected, OnScreen
<1>3. ASSUME NEW d \in Dash, net = {}, Pending => d # id PROVE ParseBoard(stored[d]) = wish[d]
  <2>1. d # board.of \/ ~Pending
    BY <1>1, <1>3 DEF Protected, OnTimer
  <2> QED BY <1>1, <1>3, <2>1 DEF Protected, AtRest
<1> QED BY <1>2, <1>3

(* For any boards, edits and order of saves, answers, failures and visits to *)
(* other boards: until an edit is made or sent unprotected (exposed), the    *)
(* screen shows every edit made to its board, and once nothing is out the    *)
(* row of a board holds them all (dashboard.tsx: persist, run, applied; the  *)
(* gate over loader answers).                                              *)
THEOREM EditsKeptHolds == Spec => []EditsKept
<1>1. Init => Sound
  BY InitSound
<1>2. Sound /\ [Next]_vars => Sound'
  BY StepSound
<1>3. Sound => EditsKept
  BY SoundKeeps
<1> QED BY <1>1, <1>2, <1>3, PTL DEF Spec

-----------------------------------------------------------------------------
(* What is drawn lies within the limits.                                    *)

(* A card as a page may have it: findFreeSlot alone goes below the limit.    *)
CardPlaced(c, r) == OnCanvas(r) /\ (r.y <= MAX_WIDGET_Y \/ c \in Nat)

Drawn(b) ==
    /\ IsFiniteSet(DOMAIN b.cards)
    /\ \A c \in DOMAIN b.cards : CardPlaced(c, b.cards[c])

(* Wherever a board is, its cards are placed; the rows too, but what they     *)
(* hold may be off the grid.                                               *)
AllDrawn ==
    /\ Drawn(board) /\ Drawn(layout)
    /\ Pending => Drawn(timer.layout)
    /\ \A r \in net : Drawn(r.layout)
    /\ loader.at = "read" => Drawn(loader.answer)
    /\ Holding => CardPlaced(active.card, active.from) /\ CardPlaced(active.card, active.rect)
    /\ \A d \in Dash : /\ IsFiniteSet(DOMAIN stored[d].cards)
                       /\ \A c \in DOMAIN stored[d].cards : stored[d].cards[c] \in Rect

LEMMA InPlacePlaced ==
    ASSUME NEW c, NEW r, InPlace(r)
    PROVE  CardPlaced(c, r)
BY Places, Sizes DEF CardPlaced, InPlace, Accepted, Rect

LEMMA WithRectDrawn ==
    ASSUME NEW b, Drawn(b), NEW card, NEW r, card \in DOMAIN b.cards => CardPlaced(card, r)
    PROVE  Drawn(WithRect(b, card, r))
<1> DEFINE q == WithRect(b, card, r)
<1>1. DOMAIN q.cards = DOMAIN b.cards
  BY WithRectKeeps
<1>2. \A c \in DOMAIN b.cards : q.cards[c] = IF c = card THEN r ELSE b.cards[c]
  BY WithRectAt
<1> HIDE DEF q
<1>3. \A c \in DOMAIN q.cards : CardPlaced(c, q.cards[c])
  BY <1>1, <1>2 DEF Drawn
<1> QED BY <1>1, <1>3 DEF Drawn, q

LEMMA WithCardDrawn ==
    ASSUME NEW b, Drawn(b), NEW card \in Nat, NEW w, NEW h, Size(w, h)
    PROVE  Drawn(WithCard(b, card, w, h))
<1> DEFINE slot == FindFreeSlot(Occupied(b), w, h)
           new == [c \in DOMAIN b.cards \cup {card} |-> IF c = card THEN slot ELSE b.cards[c]]
           q == WithCard(b, card, w, h)
<1>1. q.cards = new
  BY DEF WithCard, Content
<1>2. IsFiniteSet(Occupied(b)) /\ \A r \in Occupied(b) : OnCanvas(r)
  <2> DEFINE f == [c \in DOMAIN b.cards |-> b.cards[c]]
  <2>1. f \in Surjection(DOMAIN b.cards, Occupied(b))
    BY DEF Surjection, Occupied
  <2> HIDE DEF f
  <2>2. IsFiniteSet(Occupied(b))
    BY <2>1, FS_Surjection DEF Drawn
  <2>3. \A r \in Occupied(b) : OnCanvas(r)
    BY DEF Drawn, CardPlaced, Occupied
  <2> QED BY <2>2, <2>3
<1>3. OnCanvas(slot)
  BY <1>2, FreeSlotOnCanvas
<1>4. CardPlaced(card, slot)
  BY <1>3 DEF CardPlaced
<1> HIDE DEF slot
<1>5. DOMAIN new = DOMAIN b.cards \cup {card} /\ \A c \in DOMAIN new : CardPlaced(c, new[c])
  BY <1>4 DEF Drawn
<1>6. IsFiniteSet(DOMAIN new)
  <2> DEFINE D == DOMAIN b.cards
  <2>1. IsFiniteSet(D)
    BY DEF Drawn
  <2>2. DOMAIN new = D \cup {card}
    BY <1>5
  <2> HIDE DEF D, new
  <2> QED BY <2>1, <2>2, FS_AddElement
<1> HIDE DEF new, q
<1> QED BY <1>1, <1>5, <1>6 DEF Drawn, q

LEMMA WithoutDrawn ==
    ASSUME NEW b, Drawn(b), NEW card
    PROVE  Drawn(Without(b, card))
<1> DEFINE new == [c \in DOMAIN b.cards \ {card} |-> b.cards[c]]
           q == Without(b, card)
<1>1. q.cards = new
  BY DEF Without, Content
<1>2. DOMAIN new \in SUBSET DOMAIN b.cards /\ \A c \in DOMAIN new : CardPlaced(c, new[c])
  BY DEF Drawn
<1> HIDE DEF new, q
<1>3. IsFiniteSet(DOMAIN new)
  <2> DEFINE D == DOMAIN b.cards
  <2>1. IsFiniteSet(D)
    BY DEF Drawn
  <2>2. DOMAIN new \in SUBSET D
    BY <1>2
  <2> HIDE DEF D
  <2> QED BY <2>1, <2>2, FS_Subset
<1> QED BY <1>1, <1>2, <1>3 DEF Drawn, q

(* An edit draws what is placed.                                           *)
LEMMA EditedDrawn ==
    ASSUME NEW b, Drawn(b), NEW e, Offered(e), NEW n \in Nat
    PROVE  Drawn(Edited(b, e, n))
<1> DEFINE q == Edited(b, e, n)
<1>1. e.dx \in Int /\ e.dy \in Int /\ e.kind \in Kinds
  BY DEF Offered
<1>2. \A c \in DOMAIN b.cards : b.cards[c] \in Rect /\ Size(b.cards[c].w, b.cards[c].h)
  BY DEF Drawn, CardPlaced, OnCanvas, Size
<1>4. ASSUME e.kind \in {"frame", "text", "front"} PROVE Drawn(q)
  <2>1. q.cards = b.cards
    BY <1>4 DEF Edited, Gestures, Content
  <2> HIDE DEF q
  <2> QED BY <2>1 DEF Drawn
<1>5. ASSUME e.kind = "add" PROVE Drawn(q)
  <2>1. q = WithCard(b, n, e.dx, e.dy)
    BY <1>5 DEF Edited, Gestures
  <2>2. Size(e.dx, e.dy)
    BY <1>5 DEF Offered, Size, OnGrid
  <2> HIDE DEF q
  <2> QED BY <2>1, <2>2, WithCardDrawn
<1>6. ASSUME e.kind = "copy" PROVE Drawn(q)
  <2>1. q = IF e.card \in DOMAIN b.cards
            THEN WithCard(b, n, b.cards[e.card].w, b.cards[e.card].h) ELSE b
    BY <1>6 DEF Edited, Gestures
  <2> HIDE DEF q
  <2>3. CASE e.card \in DOMAIN b.cards
    <3> DEFINE w == b.cards[e.card].w
               h == b.cards[e.card].h
    <3>1. Size(w, h) /\ q = WithCard(b, n, w, h)
      BY <1>2, <2>1, <2>3
    <3> HIDE DEF w, h
    <3> QED BY <3>1, WithCardDrawn
  <2> QED BY <2>1, <2>3
<1>7. ASSUME e.kind = "remove" PROVE Drawn(q)
  <2>1. q = Without(b, e.card)
    BY <1>7 DEF Edited, Gestures
  <2> DEFINE card == e.card
  <2> HIDE DEF q
  <2> QED BY <2>1, WithoutDrawn
<1>8. ASSUME e.kind = "nudge" PROVE Drawn(q)
  <2> DEFINE card == e.card
             r == Nudged(b.cards[card], e)
  <2>1. q = IF card \in DOMAIN b.cards THEN WithRect(b, card, r) ELSE b
    BY <1>8 DEF Edited, Gestures
  <2>2. card \in DOMAIN b.cards => CardPlaced(card, r)
    BY <1>1, <1>2, ReshapedPlaced, InPlacePlaced
  <2> HIDE DEF q, card, r
  <2> QED BY <2>1, <2>2, WithRectDrawn
<1>9. ASSUME e.kind \in Gestures PROVE Drawn(q)
  <2> DEFINE card == e.card
             r == Reshaped(b.cards[card], e)
  <2>1. q = IF card \in DOMAIN b.cards THEN WithRect(b, card, r) ELSE b
    BY <1>9 DEF Edited, Gestures
  <2>2. card \in DOMAIN b.cards => CardPlaced(card, r)
    BY <1>1, <1>2, ReshapedPlaced, InPlacePlaced
  <2> HIDE DEF q, card, r
  <2> QED BY <2>1, <2>2, WithRectDrawn
<1> HIDE DEF q
<1>10. Drawn(q)
  BY <1>1, <1>4, <1>5, <1>6, <1>7, <1>8, <1>9 DEF Kinds, Gestures
<1> QED BY <1>10 DEF q

-----------------------------------------------------------------------------
(* Every step draws what can be saved.                                     *)

LEMMA ReadDrawn ==
    ASSUME NEW b, IsFiniteSet(DOMAIN b.cards), \A c \in DOMAIN b.cards : b.cards[c] \in Rect
    PROVE  Drawn(ParseBoard(b))
<1> DEFINE new == [c \in DOMAIN b.cards |-> NormaliseRect(b.cards[c])]
           q == ParseBoard(b)
<1>1. q.cards = new
  BY DEF ParseBoard, Content
<1>2. DOMAIN new = DOMAIN b.cards /\ \A c \in DOMAIN new : CardPlaced(c, new[c])
  BY NormaliseLegal, InPlacePlaced
<1> HIDE DEF new, q
<1> QED BY <1>1, <1>2 DEF Drawn, q

(* Nothing is edited.                                                      *)
LEMMA SameDrawn ==
    ASSUME AllDrawn, UNCHANGED <<active, stored>>, Drawn(board'), Drawn(layout'),
           net' \subseteq net, timer' = timer \/ ~Pending',
           loader'.at = "read" => Drawn(loader'.answer)
    PROVE  AllDrawn'
<1>1. Pending' => Pending /\ timer' = timer
  BY DEF Pending
<1> QED BY <1>1 DEF AllDrawn, Holding

LEMMA SettledDrawn ==
    ASSUME AllDrawn, NEW s, SaveEnds(s), UNCHANGED <<active, stored, loader>>,
           net' \subseteq net
    PROVE  AllDrawn'
<1>1. Drawn(board') /\ layout' = layout
  BY DEF SaveEnds, Take, AllDrawn
<1> QED BY <1>1, SameDrawn DEF SaveEnds, AllDrawn

LEMMA PersistDrawn ==
    ASSUME AllDrawn, ~Holding', NEW before, NEW pending, NEW next, NEW e,
           Persist(before, pending, next, e), Drawn(next), UNCHANGED <<layout, loader, stored>>
    PROVE  AllDrawn'
<1>1. board' = next
  BY DEF Persist
<1>2. (Pending' => Drawn(timer'.layout)) /\ \A r \in net' : Drawn(r.layout)
  <2> DEFINE p == Payload(next, e)
             req == [edit |-> p.edit, layout |-> p.layout, to |-> id]
  <2>1. p.layout = next /\ req.layout = next
    BY DEF Payload
  <2>2. \A r \in net : Drawn(r.layout)
    BY DEF AllDrawn
  <2>3. CASE Debounced(e)
    <3>1. timer' = p /\ net' = net
      BY <2>3 DEF Persist, Armed
    <3> HIDE DEF p
    <3> QED BY <2>1, <2>2, <3>1
  <2>4. CASE ~Debounced(e)
    <3>1. timer' = NoTimer /\ net' = net \cup {req}
      BY <2>4 DEF Persist, Armed, Send
    <3>2. ~Pending'
      BY <3>1 DEF NoTimer, Pending
    <3> HIDE DEF p, req
    <3> QED BY <2>1, <2>2, <3>1, <3>2
  <2> QED BY <2>3, <2>4
<1> QED BY <1>1, <1>2 DEF AllDrawn

LEMMA InitDrawn == Init /\ Always => AllDrawn
<1> SUFFICES ASSUME Init, Always PROVE AllDrawn
  OBVIOUS
<1> DEFINE r0 == [x |-> 20, y |-> 45, w |-> 200, h |-> 160]
           b0(d) == Content(d, [c \in {d} |-> r0], 0, 0)
<1>1. /\ stored = [d \in Dash |-> b0(d)] /\ id = First /\ First \in Dash
      /\ layout = ParseBoard(stored[id]) /\ board = layout
      /\ loader = NoLoader /\ active = NoGesture /\ timer = NoTimer /\ net = {}
  BY BoardAssumption DEF Init
<1>2. ~Holding /\ ~Pending /\ loader.at # "read"
  BY <1>1 DEF NoGesture, NoTimer, NoLoader, Holding, Pending
<1>3. r0 \in Rect
  BY DEF Rect
<1> HIDE DEF r0
<1>4. ASSUME NEW d \in Dash
      PROVE  /\ IsFiniteSet(DOMAIN stored[d].cards)
             /\ \A c \in DOMAIN stored[d].cards : stored[d].cards[c] \in Rect
  <2>1. stored[d].cards = [c \in {d} |-> r0]
    BY <1>1 DEF Content
  <2>2. DOMAIN stored[d].cards = {d} /\ \A c \in {d} : stored[d].cards[c] \in Rect
    BY <1>3, <2>1
  <2>3. IsFiniteSet({d})
    BY FS_Singleton
  <2> QED BY <2>2, <2>3
<1>5. Drawn(layout)
  <2> DEFINE b == stored[First]
  <2>1. IsFiniteSet(DOMAIN b.cards) /\ \A c \in DOMAIN b.cards : b.cards[c] \in Rect
    BY <1>1, <1>4
  <2>2. layout = ParseBoard(b)
    BY <1>1
  <2> HIDE DEF b
  <2> QED BY <2>1, <2>2, ReadDrawn
<1> QED BY <1>1, <1>2, <1>4, <1>5 DEF AllDrawn

LEMMA StepDrawn == Always /\ AllDrawn /\ [Next]_vars => AllDrawn'
<1> SUFFICES ASSUME Always, AllDrawn, [Next]_vars PROVE AllDrawn'
  OBVIOUS
<1>1. /\ Drawn(board) /\ Drawn(layout)
      /\ loader.at = "read" => Drawn(loader.answer)
  BY DEF AllDrawn
<1>2. ASSUME UNCHANGED <<active, stored, board, layout, net, timer>>,
             loader' = loader \/ loader'.at # "read"
      PROVE  AllDrawn'
  BY <1>1, <1>2, SameDrawn
<1>3. Asked(place).at = "asked"
  BY AskedFields
<1>4. CASE TimerFires
  <2> DEFINE req == [edit |-> timer.edit, layout |-> timer.layout, to |-> id]
  <2>1. /\ Pending /\ timer' = NoTimer /\ net' = net \cup {req} /\ req.layout = timer.layout
        /\ UNCHANGED <<active, stored, board, layout, loader>>
    BY <1>4 DEF TimerFires, Send, page, reader, host
  <2> HIDE DEF req
  <2>2. ~Pending' /\ (Holding' <=> Holding)
    BY <2>1 DEF NoTimer, Pending, Holding
  <2>3. \A r \in net' : Drawn(r.layout)
    BY <2>1 DEF AllDrawn
  <2> QED BY <2>1, <2>2, <2>3 DEF AllDrawn
<1>5. CASE Beat
  BY <1>2, <1>3, <1>5 DEF Beat, page, saver, host, history
<1>6. CASE Wake
  BY <1>2, <1>3, <1>6 DEF Wake, page, saver, history
<1>7. CASE Read
  <2>1. /\ UNCHANGED <<active, stored, board, layout, net, timer>>
        /\ loader'.answer = ParseBoard(stored[place])
    BY <1>7 DEF Read, page, saver, host, history
  <2> DEFINE b == stored[place]
  <2>2. /\ IsFiniteSet(DOMAIN b.cards) /\ \A c \in DOMAIN b.cards : b.cards[c] \in Rect
    BY DEF AllDrawn, Always, Addr
  <2> HIDE DEF b
  <2>3. Drawn(ParseBoard(b))
    BY <2>2, ReadDrawn
  <2> QED BY <1>1, <2>1, <2>3, SameDrawn DEF b
<1>8. CASE Answer
  <2>1. /\ loader.at = "read" /\ loader' = NoLoader /\ layout' = loader.answer
        /\ (board' = board \/ board' = loader.answer)
        /\ UNCHANGED <<timer, net, active, stored>>
    BY <1>8 DEF Answer, Take, host
  <2>2. loader'.at = "none"
    BY <1>8 DEF Answer, NoLoader
  <2> QED BY <1>1, <2>1, <2>2, SameDrawn
<1>9. CASE LoaderFails
  <2>1. /\ loader' = NoLoader /\ (board' = board \/ board' = layout)
        /\ UNCHANGED <<timer, net, active, stored, layout>>
    BY <1>9 DEF LoaderFails, Take, host
  <2>2. loader'.at = "none"
    BY <2>1 DEF NoLoader
  <2> QED BY <1>1, <2>1, <2>2, SameDrawn
<1>10. CASE LoaderHangs
  <2>1. loader'.at = "lost"
    BY <1>10 DEF LoaderHangs
  <2> QED BY <1>2, <1>10, <2>1 DEF LoaderHangs, page, saver, host, history
<1>11. CASE BeatGivesUp
  BY <1>2, <1>11 DEF BeatGivesUp, page, saver, host, history
<1>12. CASE Arrange
  BY <1>2, <1>12 DEF Arrange, page, saver, reader, history
<1>13. CASE Edit
  <2> DEFINE e == script[edits + 1]
             next == Edited(board, e, edits + 1)
  <2>1. /\ edits < Len(script) /\ ~Holding /\ Persist(board, waiting, next, e)
        /\ UNCHANGED <<layout, loader, stored, active>>
    BY <1>13 DEF Edit, reader, host
  <2>2. ~Holding'
    BY <2>1 DEF Holding
  <2>3. Offered(e) /\ edits + 1 \in Nat
    BY <2>1, NextEdit
  <2> HIDE DEF e
  <2>4. Drawn(next)
    BY <1>1, <2>3, EditedDrawn
  <2> HIDE DEF next
  <2> QED BY <2>1, <2>2, <2>4, PersistDrawn
<1>14. CASE Grab
  <2> DEFINE e == script[edits + 1]
             card == e.card
             from == board.cards[card]
             r == Reshaped(from, e)
  <2>1. /\ edits < Len(script) /\ e.kind \in Gestures /\ Has(e)
        /\ active' = [card |-> card, from |-> from, rect |-> r]
        /\ board' = WithRect(board, card, r)
        /\ UNCHANGED <<layout, timer, net, loader, stored>>
    BY <1>14 DEF Grab, saver, reader, history
  <2>2. Offered(e) /\ card \in DOMAIN board.cards
    BY <2>1, NextEdit DEF Has, Gestures
  <2>3. CardPlaced(card, from)
    BY <1>1, <2>2 DEF Drawn
  <2>4. CardPlaced(card, r)
    BY <2>2, <2>3, ReshapedPlaced, InPlacePlaced DEF Offered, CardPlaced, OnCanvas
  <2> HIDE DEF e, card, from, r
  <2>5. Drawn(board')
    BY <1>1, <2>1, <2>4, WithRectDrawn
  <2>6. Pending' <=> Pending
    BY <2>1 DEF Pending
  <2>7. CardPlaced(active'.card, active'.from) /\ CardPlaced(active'.card, active'.rect)
    BY <2>1, <2>3, <2>4
  <2> QED BY <2>1, <2>5, <2>6, <2>7 DEF AllDrawn
<1>15. Drawn(Uncovered)
  BY <1>1 DEF Uncovered
<1>16. CASE Release
  <2> DEFINE e == script[edits + 1]
             b == Uncovered
             next == WithRect(b, active.card, active.rect)
  <2>1. /\ Holding /\ active' = NoGesture /\ Persist(b, waiting', next, e)
        /\ UNCHANGED <<layout, loader, stored>>
    BY <1>16 DEF Release, reader
  <2>2. ~Holding'
    BY <2>1 DEF Holding, NoGesture
  <2> HIDE DEF b
  <2>4. Drawn(next)
    BY <1>15, <2>1, WithRectDrawn DEF AllDrawn, b
  <2> HIDE DEF next
  <2> DEFINE pending == waiting'
  <2> HIDE DEF e
  <2> QED BY <2>1, <2>2, <2>4, PersistDrawn
<1>17. CASE Escape
  <2> DEFINE b == Uncovered
  <2>1. /\ Holding /\ active' = NoGesture /\ board' = WithRect(b, active.card, active.from)
        /\ UNCHANGED <<layout, timer, net, loader, stored>>
    BY <1>17 DEF Escape, saver, reader, history
  <2> HIDE DEF b
  <2>2. Drawn(board')
    BY <1>15, <2>1, WithRectDrawn DEF AllDrawn, b
  <2>3. ~Holding' /\ (Pending' <=> Pending)
    BY <2>1 DEF Holding, NoGesture, Pending
  <2> QED BY <2>1, <2>2, <2>3 DEF AllDrawn
<1>18. ASSUME NEW r \in net, Land(r) PROVE AllDrawn'
  <2>1. /\ stored' = [stored EXCEPT ![r.to] = r.layout] /\ net' \subseteq net
        /\ UNCHANGED <<layout, board, timer, loader, active>>
    BY <1>18 DEF Land, page, reader, host, history
  <2>2. Drawn(r.layout)
    BY DEF AllDrawn
  <2>3. (Pending' <=> Pending) /\ (Holding' <=> Holding)
    BY <2>1 DEF Pending, Holding
  <2>4. DOMAIN stored = Dash
    BY DEF Always, Addr
  <2>5. \A d \in Dash : stored'[d] = r.layout \/ stored'[d] = stored[d]
    BY <2>1, <2>4
  <2>6. \A d \in Dash : /\ IsFiniteSet(DOMAIN stored'[d].cards)
                        /\ \A c \in DOMAIN stored'[d].cards : stored'[d].cards[c] \in Rect
    BY <2>2, <2>5 DEF AllDrawn, Drawn, CardPlaced, OnCanvas
  <2> QED BY <2>1, <2>3, <2>6 DEF AllDrawn
<1>19. ASSUME NEW r \in net, Refuse(r) PROVE AllDrawn'
  <2>1. UNCHANGED <<active, stored, loader>> /\ net' \subseteq net
    BY <1>19 DEF Refuse, reader, host
  <2>2. CASE \E s \in saves : SaveEnds(s)
    BY <2>1, <2>2, SettledDrawn
  <2>3. CASE UNCHANGED <<page, edits, confirmed, timer, saves, saving>>
    BY <1>1, <2>1, <2>3, SameDrawn DEF page
  <2> QED BY <1>19, <2>2, <2>3 DEF Refuse
<1>20. ASSUME NEW s \in saves, SaveAnswered(s) PROVE AllDrawn'
  <2>1. UNCHANGED <<active, stored, net>>
    BY <1>20 DEF SaveAnswered, host, history
  <2>2. CASE SaveEnds(s) /\ UNCHANGED loader
    BY <2>1, <2>2, SettledDrawn
  <2>3. CASE loader' = Asked(place) /\ UNCHANGED <<page, edits, timer>>
    BY <1>2, <1>3, <2>1, <2>3 DEF page
  <2> QED BY <1>20, <2>2, <2>3 DEF SaveAnswered
<1>21. ASSUME NEW s \in saves, GiveUp(s) PROVE AllDrawn'
  BY <1>21, SettledDrawn DEF GiveUp, reader, host
<1>22. ASSUME NEW d \in Dash, Navigate(d) PROVE AllDrawn'
  <2>1. loader'.at = "asked"
    BY <1>22, AskedFields DEF Navigate
  <2> QED BY <1>2, <1>22, <2>1 DEF Navigate, page, saver, host
<1>24. ASSUME NEW d \in Dash, Leave(d) PROVE AllDrawn'
  <2>1. /\ loader' = Asked(d) /\ board' = Shown /\ active' = NoGesture /\ timer' = NoTimer
        /\ UNCHANGED <<layout, net, stored>>
    BY <1>24 DEF Leave
  <2>2. loader'.at # "read" /\ ~Holding' /\ ~Pending'
    BY <2>1, AskedFields DEF NoGesture, Holding, NoTimer, Pending
  <2>3. Drawn(board')
    BY <1>1, <2>1, WithRectDrawn DEF Shown, AllDrawn
  <2> QED BY <2>1, <2>2, <2>3 DEF AllDrawn
<1>25. CASE OutlivedSaveReads
  BY <1>2, <1>3, <1>25 DEF OutlivedSaveReads, page, saver, history
<1>23. CASE UNCHANGED vars
  BY <1>2, <1>23 DEF vars, page, saver, reader, host, history
<1> QED BY <1>4, <1>5, <1>6, <1>7, <1>8, <1>9, <1>10, <1>11, <1>12, <1>13, <1>14, <1>16, <1>17,
           <1>18, <1>19, <1>20, <1>21, <1>22, <1>23,
           <1>24, <1>25 DEF Next

LEMMA DrawnLegal == AllDrawn => Legal
<1>1. ASSUME NEW c, NEW r, CardPlaced(c, r) PROVE Fits(c, r)
  BY <1>1, Sizes DEF CardPlaced, OnCanvas, Fits, Rect
<1> QED BY <1>1 DEF AllDrawn, Drawn, Legal

(* Edits are kept, and whatever an edit makes of a card is placed within the *)
(* limits of the stored contract (board.ts), with the one exception the      *)
(* code has: findFreeSlot knows no limit to how far down it puts a new card.  *)
THEOREM KeptHolds == Spec => []Kept
<1>1. Init => Sound /\ AllDrawn
  BY InitSound, InitAlways, InitDrawn
<1>2. Sound /\ AllDrawn /\ [Next]_vars => (Sound /\ AllDrawn)'
  BY StepSound, StepDrawn DEF Sound
<1>3. Sound /\ AllDrawn => Kept
  BY SoundKeeps, DrawnLegal DEF Sound, Kept
<1> QED BY <1>1, <1>2, <1>3, PTL DEF Spec

===============================================================================
