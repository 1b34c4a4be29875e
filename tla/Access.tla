------------------------------- MODULE Access -------------------------------
(***************************************************************************)
(* Roles, permissions and what they let a user do                          *)
(* (backend/src/roles, backend/src/permissions, the permission parts of    *)
(* backend/src/users/users.service.ts, auth/guards and                     *)
(* common/utils/effective-permissions.util.ts).                            *)
(*                                                                         *)
(* A request reads and checks, then writes, then tells the users concerned *)
(* and clears the cached role lists; other requests may run in between     *)
(* unless the behaviour is serial.                                         *)
(***************************************************************************)
EXTENDS Integers, FiniteSets

CONSTANTS
    Users,      \* accounts
    Roles,      \* rows that the roles table may get
    RoleNames,  \* role names, up to case and punctuation
    Branch,     \* working locations
    Keys,       \* the permission keys that are granted and revoked
    ARequests,  \* slots for requests in flight
    MaxEdits,   \* bound on the changes of roles and grants
    Global      \* the location of a role that belongs to no branch

ASSUME AccessAssumption ==
    Roles # {} /\ RoleNames # {} /\ Global \notin Branch /\ MaxEdits \in Nat

VARIABLES
    role,     \* roles: the row, or NoRole
    grant,    \* user_roles, user_permissions, user_permission_overrides
    list,     \* the cached role lists: roles:all and roles:branch:<location>
    areq,     \* what each request in flight has read
    clients,  \* users with an open notification stream
    told,     \* users with a permissions_updated event under way
    edits,    \* changes so far
    inTurn    \* TRUE if requests come one at a time

accessVars == <<role, grant, list, areq, clients, told, edits, inTurn>>

NoRole == [name |-> "none"]
NoList == [cached |-> FALSE]
AIdle == [op |-> "idle"]

Role == [name : RoleNames, home : Branch \cup {Global}, keys : SUBSET Keys, system : BOOLEAN]
Grant == [roles : SUBSET Roles, direct : SUBSET Keys, allow : SUBSET Keys, deny : SUBSET Keys]
RoleList == [cached : {TRUE}, rows : [Roles -> Role \cup {NoRole}]]
ListKeys == Branch \cup {Global}  \* Global stands for roles:all

ARequest ==
    [op : {"idle"}]
      \cup [op : {"create"}, role : Roles, row : Role]
      \cup [op : {"update"}, role : Roles, row : Role, at : Branch, rekey : BOOLEAN]
      \cup [op : {"rekey"}, role : Roles, keys : SUBSET Keys]
      \cup [op : {"after"}, role : Roles, tell : BOOLEAN, clear : SUBSET ListKeys]
      \cup [op : {"list"}, key : ListKeys, rows : [Roles -> Role \cup {NoRole}]]

\* Rows are those of the schema, and cached lists and requests well formed.
AccessTypeOK ==
    /\ role \in [Roles -> Role \cup {NoRole}]
    /\ grant \in [Users -> Grant]
    /\ \A u \in Users : grant[u].allow \cap grant[u].deny = {}
    /\ list \in [ListKeys -> RoleList \cup {NoList}]
    /\ areq \in [ARequests -> ARequest]
    /\ clients \subseteq Users /\ told \subseteq clients
    /\ edits \in 0..MaxEdits /\ inTurn \in BOOLEAN

\* One seeded role, which everyone holds.
AccessInit ==
    LET r == CHOOSE x \in Roles : TRUE
        n == CHOOSE x \in RoleNames : TRUE
    IN
      /\ role = [x \in Roles |->
                   IF x = r THEN [name |-> n, home |-> Global, keys |-> Keys, system |-> TRUE]
                   ELSE NoRole]
      /\ grant = [u \in Users |-> [roles |-> {r}, direct |-> {}, allow |-> {}, deny |-> {}]]
      /\ list = [k \in ListKeys |-> NoList]
      /\ areq = [q \in ARequests |-> AIdle]
      /\ clients = {} /\ told = {} /\ edits = 0
      /\ inTurn \in BOOLEAN

-----------------------------------------------------------------------------
(* What a user may do *)

\* Mutant: payroll.create no longer implies payroll.read directly.
Implied_NotClosed(k) == IF k = "payroll.create" THEN {"payroll.manage"} ELSE
                        IF k = "payroll.manage" THEN {"payroll.read"} ELSE {}

\* Permissions that come with another one.
Implied(k) ==
    CASE k = "employees.read_all" -> {"employees.read"}
      [] k \in {"attendance.read_all", "attendance.create"} -> {"attendance.read"}
      [] k = "payroll.create" -> {"payroll.read", "payroll.manage"}
      [] k = "payroll.approve" ->
           {"payroll.approve_initial", "payroll.approve_final", "payroll.read"}
      [] k \in {"payroll.manage", "payroll.read_all", "payroll.approve_initial",
                "payroll.approve_final"} -> {"payroll.read"}
      [] k \in {"payment-structures.read_all", "deductions.manage"} ->
           {"payment-structures.read"}
      [] k \in {"users.read_all", "users.create"} -> {"users.read"}
      [] k \in {"ikimina.manage", "ikimina.read_all"} -> {"ikimina.read"}
      [] k = "audit.read_all" -> {"audit.view"}
      [] k = "branches.manage" -> {"departments.manage", "branch-manager.manage"}
      [] k = "positions.manage" -> {"positions.read"}
      [] OTHER -> {}

Expanded(ks) == ks \cup UNION {Implied(k) : k \in ks}

\* Direct grants and the keys of the user's roles.
RawPermissionKeys(g) ==
    g.direct \cup UNION {role[r].keys : r \in {x \in g.roles : role[x] # NoRole}}

\* What the guards and the query scope check.
ComputeEffectivePermissions(g) ==
    (Expanded(RawPermissionKeys(g)) \cup g.allow) \ g.deny

\* What a token and /auth/me say: raw keys, expanded, then overridden one by one.
BuildEffectivePermissions(g) ==
    (Expanded(RawPermissionKeys(g)) \ g.deny) \cup g.allow

\* What the user list shows: the sources of each key, in the order they are added.
SerializeEffectivePermissions(g) ==
    LET byRole   == UNION {role[r].keys : r \in {x \in g.roles : role[x] # NoRole}}
        held     == byRole \cup g.direct
        implied  == {k \in UNION {Implied(h) : h \in held} : k \notin held}
    IN  ((held \cup implied) \ g.deny) \cup g.allow

\* What a browser makes of it: implied permissions to the last one.
ExpandPermissionKeys(ks) == Expanded(Expanded(Expanded(ks)))

-----------------------------------------------------------------------------
(* Requests *)

Free(q) ==
    /\ areq[q] = AIdle
    /\ inTurn => \A p \in ARequests : areq[p] = AIdle

ABegin(q, a) ==
    /\ Free(q)
    /\ areq' = [areq EXCEPT ![q] = a]

Edited == edits < MaxEdits /\ edits' = edits + 1

\* No other role of the same branch, or no other global one, has the name.
RoleNameIsAvailable(r, n, home) ==
    \A x \in Roles \ {r} : role[x] # NoRole /\ role[x].home = home => role[x].name # n

\* A branch's own role manager creates roles of that branch, others any role;
\* every creation gets a row of its own.
CheckCreateRole(q, r, row) ==
    /\ role[r] = NoRole /\ ~ row.system
    /\ \A p \in ARequests : areq[p].op = "create" => areq[p].role # r
    /\ RoleNameIsAvailable(r, row.name, row.home)
    /\ ABegin(q, [op |-> "create", role |-> r, row |-> row])
    /\ UNCHANGED <<role, grant, list, clients, told, edits, inTurn>>

\* The actor is at branch b; a role manager of one branch only edits its roles.
CheckUpdateRole(q, r, b, scoped, n, ks, rekey) ==
    /\ role[r] # NoRole
    /\ scoped => role[r].home = b
    /\ n # role[r].name => ~ role[r].system /\ RoleNameIsAvailable(r, n, role[r].home)
    /\ ABegin(q, [op |-> "update", role |-> r, at |-> b, rekey |-> rekey,
                  row |-> [role[r] EXCEPT !.name = n, !.keys = IF rekey THEN ks ELSE @]])
    /\ UNCHANGED <<role, grant, list, clients, told, edits, inTurn>>

\* assignToRole and removeFromRole compute the new keys from the ones they read,
\* and write them only if they differ; the holders are told in any case.
CheckRekeyRole(q, r, b, scoped, k, add) ==
    /\ role[r] # NoRole
    /\ scoped => role[r].home = b
    /\ LET ks == IF add THEN role[r].keys \cup {k} ELSE role[r].keys \ {k} IN
         ABegin(q, IF ks # role[r].keys
                     THEN [op |-> "rekey", role |-> r, keys |-> ks]
                     ELSE [op |-> "after", role |-> r, tell |-> TRUE,
                           clear |-> {Global, role[r].home}])
    /\ UNCHANGED <<role, grant, list, clients, told, edits, inTurn>>

\* Mutant: the role's own branch is left out of the lists to clear.
CommitRekeyRole_KeepBranchList(q) ==
    /\ areq[q].op = "rekey"
    /\ role' = [role EXCEPT ![areq[q].role].keys = areq[q].keys]
    /\ areq' = [areq EXCEPT ![q] = [op |-> "after", role |-> @.role, tell |-> TRUE,
                                     clear |-> {Global}]]
    /\ Edited
    /\ UNCHANGED <<grant, list, clients, told, inTurn>>

CommitRekeyRole(q) ==
    /\ areq[q].op = "rekey"
    /\ role' = [role EXCEPT ![areq[q].role].keys = areq[q].keys]
    /\ areq' = [areq EXCEPT ![q] = [op |-> "after", role |-> @.role, tell |-> TRUE,
                                     clear |-> {Global, role[@.role].home}]]
    /\ Edited
    /\ UNCHANGED <<grant, list, clients, told, inTurn>>

CommitCreateRole(q) ==
    /\ areq[q].op = "create"
    /\ role' = [role EXCEPT ![areq[q].role] = areq[q].row]
    /\ areq' = [areq EXCEPT ![q] = [op |-> "after", role |-> @.role, tell |-> FALSE,
                                     clear |-> {Global, @.row.home}]]
    /\ Edited
    /\ UNCHANGED <<grant, list, clients, told, inTurn>>

\* Only the columns that were sent are written.
CommitUpdateRole(q) ==
    /\ areq[q].op = "update"
    /\ LET r == areq[q].role IN
         role' = [role EXCEPT ![r] =
                    [areq[q].row EXCEPT !.keys = IF areq[q].rekey THEN @ ELSE role[r].keys]]
    /\ areq' = [areq EXCEPT ![q] = [op |-> "after", role |-> @.role, tell |-> @.rekey,
                                     clear |-> {Global, @.at, @.row.home}]]
    /\ Edited
    /\ UNCHANGED <<grant, list, clients, told, inTurn>>

Push(us) == told' = told \cup (us \cap clients)

\* After the commit: the holders of the role are told, the lists cleared.
AfterRoleChange(q) ==
    /\ areq[q].op = "after"
    /\ IF areq[q].tell
         THEN Push({u \in Users : areq[q].role \in grant[u].roles})
         ELSE UNCHANGED told
    /\ list' = [k \in ListKeys |-> IF k \in areq[q].clear THEN NoList ELSE list[k]]
    /\ areq' = [areq EXCEPT ![q] = AIdle]
    /\ UNCHANGED <<role, grant, clients, edits, inTurn>>

\* The list of a branch holds its roles and the global ones.
Visible(k) == [r \in Roles |->
                 IF role[r] # NoRole /\ (k = Global \/ role[r].home \in {k, Global})
                   THEN role[r] ELSE NoRole]

FindAllRoles(q, k) ==
    /\ ~ list[k].cached
    /\ ABegin(q, [op |-> "list", key |-> k, rows |-> Visible(k)])
    /\ UNCHANGED <<role, grant, list, clients, told, edits, inTurn>>

CacheRoles(q) ==
    /\ areq[q].op = "list"
    /\ list' = [list EXCEPT ![areq[q].key] = [cached |-> TRUE, rows |-> areq[q].rows]]
    /\ areq' = [areq EXCEPT ![q] = AIdle]
    /\ UNCHANGED <<role, grant, clients, told, edits, inTurn>>

ListExpires(k) ==
    /\ list[k].cached
    /\ list' = [list EXCEPT ![k] = NoList]
    /\ UNCHANGED <<role, grant, areq, clients, told, edits, inTurn>>

-----------------------------------------------------------------------------
(* Grants of one user: each handler's writes are one transaction *)

Grants(u, g, us) ==
    /\ g # grant[u]
    /\ \A q \in ARequests : inTurn => areq[q] = AIdle
    /\ grant' = [grant EXCEPT ![u] = g]
    /\ Push(us)
    /\ Edited
    /\ UNCHANGED <<role, list, areq, clients, inTurn>>

AssignToUser(u, k) == Grants(u, [grant[u] EXCEPT !.direct = @ \cup {k}], {u})

RemoveFromUser(u, k) == Grants(u, [grant[u] EXCEPT !.direct = @ \ {k}], {u})

\* The new roles exist and, for a branch's own role manager, belong there or everywhere.
AssignRoles(u, rs, b, scoped) ==
    /\ \A r \in rs : role[r] # NoRole /\ (scoped => role[r].home \in {Global, b})
    /\ Grants(u, [grant[u] EXCEPT !.roles = rs], Users)

UpdatePermissionOverride(u, k, isAllowed) ==
    Grants(u, [grant[u] EXCEPT !.allow = IF isAllowed THEN @ \cup {k} ELSE @ \ {k},
                               !.deny  = IF isAllowed THEN @ \ {k} ELSE @ \cup {k}], Users)

\* Approval replaces every grant, and tells nobody.
ApproveGrants(u, rs, ks) ==
    /\ \A r \in rs : role[r] # NoRole
    /\ Grants(u, [roles |-> rs, direct |-> ks, allow |-> {}, deny |-> {}], {})

GrantStep ==
    \E u \in Users :
      \/ \E k \in Keys : AssignToUser(u, k) \/ RemoveFromUser(u, k)
      \/ \E k \in Keys, a \in BOOLEAN : UpdatePermissionOverride(u, k, a)
      \/ \E rs \in SUBSET Roles, b \in Branch, s \in BOOLEAN : AssignRoles(u, rs, b, s)
      \/ \E rs \in SUBSET Roles, ks \in {{}} \cup {{k} : k \in Keys} : ApproveGrants(u, rs, ks)

RoleRequest(q) ==
    \/ \E r \in Roles, row \in {x \in Role : x.keys \in {{}, Keys}} : CheckCreateRole(q, r, row)
    \/ \E r \in Roles, b \in Branch, s, y \in BOOLEAN, n \in RoleNames, ks \in {{}} :
         CheckUpdateRole(q, r, b, s, n, ks, y)
    \/ \E r \in Roles, b \in Branch, s, a \in BOOLEAN, k \in Keys :
         CheckRekeyRole(q, r, b, s, k, a)
    \/ \E k \in ListKeys : FindAllRoles(q, k)

RoleCommit(q) ==
    \/ CommitCreateRole(q) \/ CommitUpdateRole(q) \/ CommitRekeyRole(q)
    \/ AfterRoleChange(q) \/ CacheRoles(q)

RoleStep ==
    \/ \E q \in ARequests : RoleRequest(q) \/ RoleCommit(q)
    \/ \E k \in ListKeys : ListExpires(k)

-----------------------------------------------------------------------------
(* Properties *)

\* The guards, the token and /auth/me, and the user list give one answer for
\* every user, and a browser's own expansion adds nothing where no override
\* denies a permission (computeEffectivePermissions, buildEffectivePermissions,
\* serializeEffectivePermissions, expandPermissionKeys).
ViewsAgree ==
    \A u \in Users :
      LET g == grant[u] IN
        /\ ComputeEffectivePermissions(g) = BuildEffectivePermissions(g)
        /\ SerializeEffectivePermissions(g) = BuildEffectivePermissions(g)
        /\ g.deny = {} /\ g.allow = {} =>
             ExpandPermissionKeys(BuildEffectivePermissions(g)) = BuildEffectivePermissions(g)

Settled == \A q \in ARequests : areq[q] = AIdle

\* When requests come one at a time, the cached list of all roles is never out
\* of date, nor is a branch's list as far as that branch's own roles go
\* (roles.service findAll and clearRbacCaches, permissions.service clearRoleCaches).
RoleListsFresh ==
    inTurn /\ Settled =>
      \A k \in ListKeys, r \in Roles :
        list[k].cached /\ (k = Global \/ (role[r] # NoRole /\ role[r].home = k)) =>
          list[k].rows[r] = role[r]

\* When requests come one at a time, no two roles of a branch, and no two
\* global ones, have the same name (roles.service ensureRoleNameIsAvailable).
DistinctRoleNames ==
    inTurn =>
      \A r, s \in Roles :
        r # s /\ role[r] # NoRole /\ role[s] # NoRole /\ role[r].home = role[s].home =>
          role[r].name # role[s].name

\* With requests one at a time, every path that edits a role leaves the cached
\* lists current and role names distinct.
RolesSound == AccessTypeOK /\ RoleListsFresh /\ DistinctRoleNames

=============================================================================
