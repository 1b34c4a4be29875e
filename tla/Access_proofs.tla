--------------------------- MODULE Access_proofs ----------------------------
(***************************************************************************)
(* What users may do, what the cached role lists say and how a tab keeps   *)
(* its session, for any number of users, roles, branches, permissions,     *)
(* requests and lost answers.  Unlike the model-checked instance, roles,   *)
(* grants and the tab all change in one behaviour.                         *)
(***************************************************************************)
EXTENDS Tab, TLAPS

Every == <<tabVars, accessVars>>

Step == ((RoleStep \/ GrantStep) /\ UNCHANGED tabVars) \/ TabNext

-----------------------------------------------------------------------------
(* Implied permissions *)

\* What a permission implies implies nothing more: the table is closed.
LEMMA ImpliedClosed ==
    ASSUME NEW k, NEW j \in Implied(k)
    PROVE  Implied(j) \subseteq Implied(k)
BY DEF Implied

\* One expansion is enough.
LEMMA ExpandedOnce ==
    ASSUME NEW K
    PROVE  Expanded(Expanded(K)) = Expanded(K)
<1>1. ASSUME NEW j \in Expanded(Expanded(K)) PROVE j \in Expanded(K)
  <2>1. CASE j \in Expanded(K)
    BY <2>1
  <2>2. CASE \E k \in Expanded(K) : j \in Implied(k)
    <3>1. PICK k \in Expanded(K) : j \in Implied(k)
      BY <2>2
    <3>2. k \in K \/ \E h \in K : k \in Implied(h)
      BY DEF Expanded
    <3>3. \E h \in K : j \in Implied(h)
      BY <3>1, <3>2, ImpliedClosed
    <3> QED  BY <3>3 DEF Expanded
  <2> QED  BY <2>1, <2>2 DEF Expanded
<1> QED  BY <1>1 DEF Expanded

\* The browser's own expansion is the server's.
LEMMA ExpandedAsServer ==
    ASSUME NEW K
    PROVE  ExpandPermissionKeys(K) = Expanded(K)
BY ExpandedOnce DEF ExpandPermissionKeys

\* More permissions imply more.
LEMMA ExpandedGrows ==
    ASSUME NEW K, NEW L, K \subseteq L
    PROVE  Expanded(K) \subseteq Expanded(L) /\ L \subseteq Expanded(L)
BY DEF Expanded

\* A list of implied permissions without those held, added to those held, is the expansion.
LEMMA SerializedIsExpanded ==
    ASSUME NEW K
    PROVE  K \cup {k \in UNION {Implied(h) : h \in K} : k \notin K} = Expanded(K)
BY DEF Expanded

-----------------------------------------------------------------------------
(* Views: the three answers are one, whatever the roles are *)

\* Views of a grant agree when nothing is both allowed and denied.
LEMMA GrantViewsAgree ==
    ASSUME NEW g, g.allow \cap g.deny = {}
    PROVE  /\ ComputeEffectivePermissions(g) = BuildEffectivePermissions(g)
           /\ SerializeEffectivePermissions(g) = BuildEffectivePermissions(g)
           /\ g.deny = {} /\ g.allow = {} =>
                ExpandPermissionKeys(BuildEffectivePermissions(g)) = BuildEffectivePermissions(g)
<1> DEFINE byRole == UNION {role[r].keys : r \in {x \in g.roles : role[x] # NoRole}}
           held == byRole \cup g.direct
<1>1. RawPermissionKeys(g) = held
  BY DEF RawPermissionKeys
<1>2. ComputeEffectivePermissions(g) = BuildEffectivePermissions(g)
  BY DEF ComputeEffectivePermissions, BuildEffectivePermissions
<1>3. SerializeEffectivePermissions(g) = BuildEffectivePermissions(g)
  <2>1. SerializeEffectivePermissions(g)
          = ((held \cup {k \in UNION {Implied(h) : h \in held} : k \notin held}) \ g.deny) \cup g.allow
    BY DEF SerializeEffectivePermissions
  <2> HIDE DEF held
  <2> QED  BY <1>1, <2>1, SerializedIsExpanded DEF BuildEffectivePermissions
<1>4. ASSUME g.deny = {}, g.allow = {}
      PROVE  ExpandPermissionKeys(BuildEffectivePermissions(g)) = BuildEffectivePermissions(g)
  <2>1. BuildEffectivePermissions(g) = Expanded(RawPermissionKeys(g))
    BY <1>4 DEF BuildEffectivePermissions
  <2> QED  BY <2>1, ExpandedAsServer, ExpandedOnce
<1> QED  BY <1>2, <1>3, <1>4

-----------------------------------------------------------------------------
(* Roles: what a request in flight read still holds *)

\* Always: a request edits a role that exists, and keeps it where it is.
Edits(a) ==
    /\ a.op \in {"update", "rekey"} => role[a.role] \in Role
    /\ a.op = "update" => a.row.home = role[a.role].home
    /\ a.op = "create" => role[a.role] = NoRole

\* Alone: the name it checked is still free, and the rows it read are the table's.
Reads(a) ==
    /\ a.op \in {"create", "update"} => RoleNameIsAvailable(a.role, a.row.name, a.row.home)
    /\ a.op = "list" => a.rows = Visible(a.key)

\* A list is current but for the roles of other branches.
Fresh(k) ==
    \A r \in Roles :
      k = Global \/ (role[r] # NoRole /\ role[r].home = k) => list[k].rows[r] = role[r]

\* A cached list is current, or about to be cleared.
FreshOrCleared ==
    \A k \in ListKeys :
      \/ list[k] = NoList
      \/ Fresh(k)
      \/ \E q \in ARequests : areq[q].op = "after" /\ k \in areq[q].clear

OneRequest == \A p, q \in ARequests : areq[p] # AIdle /\ areq[q] # AIdle => p = q

OwnRow ==
    \A p, q \in ARequests :
      areq[p].op = "create" /\ areq[q].op = "create" /\ areq[p].role = areq[q].role => p = q

RolesInv ==
    /\ AccessTypeOK /\ DistinctRoleNames /\ OwnRow
    /\ \A q \in ARequests : Edits(areq[q])
    /\ inTurn => OneRequest /\ FreshOrCleared /\ \A q \in ARequests : Reads(areq[q])

-----------------------------------------------------------------------------
(* The tab: one refresh under way *)

Views == [roles : SUBSET Roles, perms : SUBSET Expanded(Keys)]

Flow ==
    [pc : {"idle"}]
      \cup [pc : {"joined"}, base : Views]
      \cup [pc : {"sent"}, base : Views, valid : BOOLEAN]
      \cup [pc : {"answered"}, view : Views]
      \cup [pc : {"refused"}]
      \cup [pc : {"profile"}, base : Views, renewed : BOOLEAN]
      \cup [pc : {"read"}, base : Views, renewed : BOOLEAN, got : Views]

TabType ==
    /\ tab \in [signedIn : BOOLEAN, valid : BOOLEAN, token : Views, shown : Views,
                stream : {"connecting", "open", "waiting", "closed"}, retries : 0..MaxRetries]
    /\ tab.stream = "waiting" => tab.retries < MaxRetries
    /\ flow \in [Flows -> Flow]
    /\ lost \in 0..MaxLost

Busy(f) == flow[f].pc \in {"sent", "answered", "refused"}

\* Until an answer is lost one flow at most has a refresh under way, with the
\* token the server will accept.
OneRefresh ==
    /\ tab.signedIn
    /\ \A f, g \in Flows : Busy(f) /\ Busy(g) => f = g
    /\ \A f \in Flows :
         /\ ~ At(f, "refused")
         /\ At(f, "sent") => flow[f].valid /\ tab.valid
    /\ tab.valid \/ \E f \in Flows : At(f, "answered")

TabInv == TabType /\ (lost = 0 => OneRefresh)

-----------------------------------------------------------------------------
(* Lemmas about rows and requests *)

\* A row is not the absence of one.
LEMMA NoRoleIsNone == NoRole \notin Role
<1> SUFFICES ASSUME NoRole \in Role PROVE FALSE
  OBVIOUS
<1>1. DOMAIN NoRole = {"name"}
  BY DEF NoRole
<1>2. \A x \in Role : "home" \in DOMAIN x
  BY DEF Role
<1> QED  BY <1>1, <1>2

\* A request in flight, by what it is doing.
LEMMA RequestKinds ==
    ASSUME NEW a \in ARequest
    PROVE  /\ a.op \in {"idle", "create", "update", "rekey", "after", "list"}
           /\ a.op = "idle" => a = AIdle
           /\ a.op = "create" => a.role \in Roles /\ a.row \in Role
           /\ a.op = "update" =>
                a.role \in Roles /\ a.row \in Role /\ a.at \in Branch /\ a.rekey \in BOOLEAN
           /\ a.op = "rekey" => a.role \in Roles /\ a.keys \subseteq Keys
           /\ a.op = "after" => a.role \in Roles /\ a.tell \in BOOLEAN /\ a.clear \subseteq ListKeys
           /\ a.op = "list" => a.key \in ListKeys /\ a.rows \in [Roles -> Role \cup {NoRole}]
<1>1. CASE a \in [op : {"idle"}]
  BY <1>1 DEF AIdle
<1>2. CASE a \in [op : {"create"}, role : Roles, row : Role]
  BY <1>2
<1>3. CASE a \in [op : {"update"}, role : Roles, row : Role, at : Branch, rekey : BOOLEAN]
  BY <1>3
<1>4. CASE a \in [op : {"rekey"}, role : Roles, keys : SUBSET Keys]
  BY <1>4
<1>5. CASE a \in [op : {"after"}, role : Roles, tell : BOOLEAN, clear : SUBSET ListKeys]
  BY <1>5
<1>6. CASE a \in [op : {"list"}, key : ListKeys, rows : [Roles -> Role \cup {NoRole}]]
  BY <1>6
<1> QED  BY <1>1, <1>2, <1>3, <1>4, <1>5, <1>6 DEF ARequest

\* What a list request reads are rows, and a list of them is current.
LEMMA VisibleIsFresh ==
    ASSUME role \in [Roles -> Role \cup {NoRole}], NEW k \in ListKeys
    PROVE  /\ Visible(k) \in [Roles -> Role \cup {NoRole}]
           /\ \A r \in Roles : k = Global \/ (role[r] # NoRole /\ role[r].home = k)
                => Visible(k)[r] = role[r]
BY DEF Visible

-----------------------------------------------------------------------------
(* Steps of roles and grants *)

\* In the seeded state.
LEMMA RolesStart == AccessInit => RolesInv
<1> SUFFICES ASSUME AccessInit PROVE RolesInv
  OBVIOUS
<1>1. PICK r \in Roles, n \in RoleNames :
        /\ role = [x \in Roles |->
                     IF x = r THEN [name |-> n, home |-> Global, keys |-> Keys, system |-> TRUE]
                     ELSE NoRole]
        /\ grant = [u \in Users |-> [roles |-> {r}, direct |-> {}, allow |-> {}, deny |-> {}]]
  BY AccessAssumption DEF AccessInit
<1>2. /\ list = [k \in ListKeys |-> NoList]
      /\ areq = [q \in ARequests |-> AIdle]
      /\ clients = {} /\ told = {} /\ edits = 0 /\ inTurn \in BOOLEAN
  BY DEF AccessInit
<1>3. [name |-> n, home |-> Global, keys |-> Keys, system |-> TRUE] \in Role
  BY DEF Role
<1>4. [roles |-> {r}, direct |-> {}, allow |-> {}, deny |-> {}] \in Grant
  BY DEF Grant
<1>5. AIdle \in ARequest /\ AIdle.op = "idle"
  BY DEF AIdle, ARequest
<1>6. AccessTypeOK
  BY <1>1, <1>2, <1>3, <1>4, <1>5, AccessAssumption DEF AccessTypeOK
<1>7. DistinctRoleNames
  BY <1>1 DEF DistinctRoleNames
<1>8. OwnRow /\ \A q \in ARequests : Edits(areq[q]) /\ Reads(areq[q])
  BY <1>2, <1>5 DEF OwnRow, Edits, Reads
<1>9. OneRequest /\ FreshOrCleared
  BY <1>2 DEF OneRequest, FreshOrCleared
<1> QED  BY <1>6, <1>7, <1>8, <1>9 DEF RolesInv

\* Steps that leave roles, lists and requests alone.
LEMMA RolesUnmoved ==
    ASSUME RolesInv, AccessTypeOK', UNCHANGED <<role, list, areq, inTurn>>
    PROVE  RolesInv'
<1>1. DistinctRoleNames' /\ OwnRow'
  BY DEF RolesInv, DistinctRoleNames, OwnRow
<1>2. \A q \in ARequests : Edits(areq[q])'
  BY DEF RolesInv, Edits
<1>3. ASSUME inTurn PROVE OneRequest' /\ FreshOrCleared' /\ \A q \in ARequests : Reads(areq[q])'
  BY <1>3 DEF RolesInv, OneRequest, FreshOrCleared, Fresh, Reads, RoleNameIsAvailable, Visible
<1> QED  BY <1>1, <1>2, <1>3 DEF RolesInv

\* A request that starts, with what it read.
LEMMA RolesBegin ==
    ASSUME RolesInv, NEW q \in ARequests, NEW a \in ARequest, ABegin(q, a),
           Edits(a), inTurn => Reads(a),
           \A p \in ARequests : areq[p].op = "create" /\ a.op = "create" => areq[p].role # a.role,
           UNCHANGED <<role, grant, list, clients, told, edits, inTurn>>
    PROVE  RolesInv'
<1>1. /\ areq \in [ARequests -> ARequest] /\ areq[q] = AIdle
      /\ areq' = [areq EXCEPT ![q] = a]
      /\ inTurn => \A p \in ARequests : areq[p] = AIdle
  BY DEF RolesInv, AccessTypeOK, ABegin, Free
<1>2. AIdle.op = "idle"
  BY DEF AIdle
<1>3. areq' \in [ARequests -> ARequest] /\ areq'[q] = a
      /\ \A p \in ARequests \ {q} : areq'[p] = areq[p]
  BY <1>1
<1>4. AccessTypeOK'
  BY <1>3 DEF RolesInv, AccessTypeOK
<1>5. DistinctRoleNames'
  BY DEF RolesInv, DistinctRoleNames
<1>6. OwnRow'
  BY <1>3 DEF RolesInv, OwnRow
<1>7. \A p \in ARequests : Edits(areq[p])'
  BY <1>3 DEF RolesInv, Edits
<1>8. ASSUME inTurn PROVE OneRequest'
  BY <1>1, <1>3, <1>8 DEF OneRequest
<1>9. ASSUME inTurn PROVE FreshOrCleared'
  <2>1. \A k \in ListKeys : list[k] = NoList \/ Fresh(k)
    BY <1>1, <1>2, <1>9 DEF RolesInv, FreshOrCleared
  <2> QED  BY <2>1 DEF FreshOrCleared, Fresh
<1>10. ASSUME inTurn PROVE \A p \in ARequests : Reads(areq[p])'
  BY <1>3, <1>10 DEF RolesInv, Reads, RoleNameIsAvailable, Visible
<1> QED  BY <1>4, <1>5, <1>6, <1>7, <1>8, <1>9, <1>10 DEF RolesInv

\* A request that writes a role's row and goes on to clear the lists it is in.
LEMMA RolesWrite ==
    ASSUME RolesInv, NEW q \in ARequests, NEW r \in Roles, NEW row \in Role, NEW t \in BOOLEAN,
           NEW c \in SUBSET ListKeys, Global \in c, row.home \in c,
           areq[q] # AIdle, areq[q].op # "after",
           \/ role[r] \in Role /\ row.home = role[r].home
           \/ role[r] = NoRole /\ areq[q].op = "create" /\ areq[q].role = r,
           inTurn => RoleNameIsAvailable(r, row.name, row.home),
           role' = [role EXCEPT ![r] = row],
           areq' = [areq EXCEPT ![q] = [op |-> "after", role |-> r, tell |-> t, clear |-> c]],
           Edited, UNCHANGED <<grant, list, clients, told, inTurn>>
    PROVE  RolesInv'
<1> DEFINE a == [op |-> "after", role |-> r, tell |-> t, clear |-> c]
<1>1. a \in ARequest /\ a.op = "after" /\ a.clear = c /\ a # AIdle
  BY DEF ARequest, AIdle
<1>2. /\ role \in [Roles -> Role \cup {NoRole}] /\ areq \in [ARequests -> ARequest]
      /\ edits \in 0..MaxEdits
  BY DEF RolesInv, AccessTypeOK
<1> HIDE DEF a
<1>3. areq' \in [ARequests -> ARequest] /\ areq'[q] = a
      /\ \A p \in ARequests \ {q} : areq'[p] = areq[p]
  BY <1>1, <1>2 DEF a
<1>4. role' \in [Roles -> Role \cup {NoRole}] /\ role'[r] = row
      /\ \A x \in Roles \ {r} : role'[x] = role[x]
  BY <1>2
<1>5. AccessTypeOK'
  <2>1. edits' \in 0..MaxEdits
    BY <1>2, AccessAssumption DEF Edited
  <2> QED  BY <1>3, <1>4, <2>1 DEF RolesInv, AccessTypeOK
<1>6. DistinctRoleNames'
  <2> SUFFICES ASSUME inTurn, NEW x \in Roles, NEW y \in Roles, x # y,
                      role'[x] # NoRole, role'[y] # NoRole, role'[x].home = role'[y].home
               PROVE  role'[x].name # role'[y].name
    BY DEF DistinctRoleNames
  <2>1. CASE x = r
    BY <1>4, <2>1 DEF RoleNameIsAvailable
  <2>2. CASE y = r
    BY <1>4, <2>2 DEF RoleNameIsAvailable
  <2>3. CASE x # r /\ y # r
    BY <1>4, <2>3 DEF RolesInv, DistinctRoleNames
  <2> QED  BY <2>1, <2>2, <2>3
<1>7. OwnRow'
  BY <1>1, <1>3 DEF RolesInv, OwnRow
<1>8. ASSUME NEW p \in ARequests PROVE Edits(areq[p])'
  <2>1. CASE p = q
    BY <1>1, <1>3, <2>1 DEF Edits
  <2>2. CASE p # q
    <3>1. areq'[p] = areq[p] /\ areq[p] \in ARequest /\ Edits(areq[p])
      BY <1>2, <1>3, <2>2 DEF RolesInv
    <3>2. areq[p].op \in {"create", "update", "rekey"} => areq[p].role \in Roles
      BY <3>1, RequestKinds
    <3>3. areq[p].op = "create" => areq[p].role # r
      BY <2>2, <3>1, NoRoleIsNone DEF Edits, RolesInv, OwnRow
    <3>4. areq[p].op \in {"update", "rekey"} /\ areq[p].role = r => row.home = role[r].home
      BY <3>1, NoRoleIsNone DEF Edits
    <3> QED  BY <1>4, <3>1, <3>2, <3>3, <3>4 DEF Edits
  <2> QED  BY <2>1, <2>2
<1>9. ASSUME inTurn
      PROVE  OneRequest' /\ FreshOrCleared' /\ \A p \in ARequests : Reads(areq[p])'
  <2>1. \A p \in ARequests \ {q} : areq[p] = AIdle
    BY <1>9 DEF RolesInv, OneRequest
  <2>2. OneRequest'
    BY <1>3, <2>1 DEF OneRequest
  <2>3. \A p \in ARequests : Reads(areq[p])'
    BY <1>1, <1>3, <2>1 DEF Reads, AIdle
  <2>4. \A p \in ARequests : areq[p].op # "after" \/ p = q
    BY <2>1 DEF AIdle
  <2>5. ASSUME NEW k \in ListKeys, k \notin c, list[k] # NoList PROVE Fresh(k)'
    <3>1. Fresh(k)
      BY <1>9, <2>4, <2>5 DEF RolesInv, FreshOrCleared
    <3>2. k # Global /\ k # row.home
      BY <2>5
    <3> SUFFICES ASSUME NEW x \in Roles, role'[x] # NoRole, role'[x].home = k
                 PROVE  list[k].rows[x] = role'[x]
      BY <3>2 DEF Fresh
    <3>3. x # r
      BY <1>4, <3>2
    <3> QED  BY <1>4, <3>1, <3>3 DEF Fresh
  <2>6. FreshOrCleared'
    BY <1>1, <1>3, <2>5 DEF FreshOrCleared
  <2> QED  BY <2>2, <2>3, <2>6
<1> QED  BY <1>5, <1>6, <1>7, <1>8, <1>9 DEF RolesInv

\* A request that ends, with the lists it leaves.
LEMMA RolesEnd ==
    ASSUME RolesInv, NEW q \in ARequests, areq[q] # AIdle,
           areq' = [areq EXCEPT ![q] = AIdle],
           AccessTypeOK', inTurn => FreshOrCleared', UNCHANGED <<role, inTurn>>
    PROVE  RolesInv'
<1>1. areq \in [ARequests -> ARequest] /\ AIdle.op = "idle"
  BY DEF RolesInv, AccessTypeOK, AIdle
<1>2. areq'[q] = AIdle /\ \A p \in ARequests \ {q} : areq'[p] = areq[p]
  BY <1>1
<1>3. DistinctRoleNames' /\ OwnRow'
  BY <1>1, <1>2 DEF RolesInv, DistinctRoleNames, OwnRow
<1>4. \A p \in ARequests : Edits(areq[p])'
  BY <1>1, <1>2 DEF RolesInv, Edits
<1>5. ASSUME inTurn PROVE OneRequest' /\ \A p \in ARequests : Reads(areq[p])'
  <2>1. OneRequest'
    BY <1>2, <1>5 DEF RolesInv, OneRequest
  <2>2. \A p \in ARequests : Reads(areq[p])'
    BY <1>1, <1>2, <1>5 DEF RolesInv, Reads, RoleNameIsAvailable, Visible
  <2> QED  BY <2>1, <2>2
<1> QED  BY <1>3, <1>4, <1>5 DEF RolesInv

\* The handlers' checks.
LEMMA RolesRequest ==
    ASSUME RolesInv, NEW q \in ARequests, RoleRequest(q)
    PROVE  RolesInv'
<1>1. /\ role \in [Roles -> Role \cup {NoRole}] /\ areq \in [ARequests -> ARequest]
      /\ DistinctRoleNames
  BY DEF RolesInv, AccessTypeOK
<1>2. ASSUME NEW r \in Roles, NEW row \in Role, CheckCreateRole(q, r, row) PROVE RolesInv'
  <2> DEFINE a == [op |-> "create", role |-> r, row |-> row]
  <2>1. a \in ARequest /\ a.op = "create" /\ a.role = r /\ a.row = row
    BY DEF ARequest
  <2> HIDE DEF a
  <2>2. ABegin(q, a) /\ UNCHANGED <<role, grant, list, clients, told, edits, inTurn>>
    BY <1>2 DEF CheckCreateRole, a
  <2>3. Edits(a) /\ Reads(a)
    BY <1>2, <2>1 DEF CheckCreateRole, Edits, Reads
  <2>4. \A p \in ARequests : areq[p].op = "create" => areq[p].role # a.role
    BY <1>2, <2>1 DEF CheckCreateRole
  <2> QED  BY <2>1, <2>2, <2>3, <2>4, RolesBegin
<1>3. ASSUME NEW r \in Roles, NEW b \in Branch, NEW s \in BOOLEAN, NEW y \in BOOLEAN,
             NEW n \in RoleNames, CheckUpdateRole(q, r, b, s, n, {}, y)
      PROVE  RolesInv'
  <2> DEFINE row == [role[r] EXCEPT !.name = n, !.keys = IF y THEN {} ELSE @]
             a == [op |-> "update", role |-> r, at |-> b, rekey |-> y, row |-> row]
  <2>1. role[r] \in Role /\ role[r] # NoRole
    BY <1>1, <1>3 DEF CheckUpdateRole
  <2>2. row \in Role /\ row.home = role[r].home /\ row.name = n
    BY <2>1 DEF Role
  <2>3. ABegin(q, a) /\ UNCHANGED <<role, grant, list, clients, told, edits, inTurn>>
    BY <1>3 DEF CheckUpdateRole
  <2>4. inTurn => RoleNameIsAvailable(r, n, role[r].home)
    <3>1. CASE n = role[r].name
      BY <1>1, <2>1, <3>1 DEF RoleNameIsAvailable, DistinctRoleNames
    <3>2. CASE n # role[r].name
      BY <1>3, <3>2 DEF CheckUpdateRole
    <3> QED  BY <3>1, <3>2
  <2> HIDE DEF row
  <2>5. a \in ARequest /\ a.op = "update" /\ a.role = r /\ a.row = row
    BY <2>2 DEF ARequest
  <2> HIDE DEF a
  <2>6. Edits(a) /\ (inTurn => Reads(a))
    BY <2>1, <2>2, <2>4, <2>5 DEF Edits, Reads
  <2> QED  BY <2>3, <2>5, <2>6, RolesBegin
<1>4. ASSUME NEW r \in Roles, NEW b \in Branch, NEW s \in BOOLEAN, NEW k \in Keys,
             NEW add \in BOOLEAN, CheckRekeyRole(q, r, b, s, k, add)
      PROVE  RolesInv'
  <2>1. PICK ks : ks = IF add THEN role[r].keys \cup {k} ELSE role[r].keys \ {k}
    OBVIOUS
  <2>2. PICK h : h = role[r].home
    OBVIOUS
  <2>3. PICK a : a = IF ks # role[r].keys
                       THEN [op |-> "rekey", role |-> r, keys |-> ks]
                       ELSE [op |-> "after", role |-> r, tell |-> TRUE, clear |-> {Global, h}]
    OBVIOUS
  <2>4. ABegin(q, a) /\ UNCHANGED <<role, grant, list, clients, told, edits, inTurn>>
    BY <1>4, <2>1, <2>2, <2>3 DEF CheckRekeyRole
  <2>5. role[r] \in Role
    BY <1>1, <1>4 DEF CheckRekeyRole
  <2>6. ks \subseteq Keys /\ h \in ListKeys /\ Global \in ListKeys
    BY <2>1, <2>2, <2>5 DEF Role, ListKeys
  <2>7. /\ a \in ARequest /\ a.op \in {"rekey", "after"}
        /\ a.op = "rekey" => a.role = r
    BY <2>3, <2>6 DEF ARequest
  <2>8. Edits(a) /\ Reads(a)
    BY <2>5, <2>7 DEF Edits, Reads
  <2> QED  BY <2>4, <2>7, <2>8, RolesBegin
<1>5. ASSUME NEW k \in ListKeys, FindAllRoles(q, k) PROVE RolesInv'
  <2>1. PICK rows : rows = Visible(k)
    OBVIOUS
  <2> DEFINE a == [op |-> "list", key |-> k, rows |-> rows]
  <2>2. rows \in [Roles -> Role \cup {NoRole}]
    BY <1>1, <2>1, VisibleIsFresh
  <2>3. a \in ARequest /\ a.op = "list" /\ a.key = k /\ a.rows = rows
    BY <2>2 DEF ARequest
  <2>4. ABegin(q, a) /\ UNCHANGED <<role, grant, list, clients, told, edits, inTurn>>
    BY <1>5, <2>1 DEF FindAllRoles
  <2> HIDE DEF a
  <2>5. Edits(a) /\ Reads(a)
    BY <2>1, <2>3 DEF Edits, Reads
  <2> QED  BY <2>3, <2>4, <2>5, RolesBegin
<1> QED  BY <1>2, <1>3, <1>4, <1>5 DEF RoleRequest

\* The handlers' writes and what follows them.
LEMMA RolesCommit ==
    ASSUME RolesInv, NEW q \in ARequests, RoleCommit(q)
    PROVE  RolesInv'
<1>1. /\ role \in [Roles -> Role \cup {NoRole}] /\ areq \in [ARequests -> ARequest]
      /\ list \in [ListKeys -> RoleList \cup {NoList}]
      /\ AccessTypeOK /\ Edits(areq[q]) /\ (inTurn => Reads(areq[q]))
  BY DEF RolesInv, AccessTypeOK
<1>2. PICK a \in ARequest : a = areq[q]
  BY <1>1
<1>3. a.op # "idle" => areq[q] # AIdle
  BY <1>2 DEF AIdle
<1>4. Global \in ListKeys /\ \A x \in Role : x.home \in ListKeys
  BY DEF ListKeys, Role
<1>5. CASE CommitCreateRole(q)
  <2>1. a.op = "create" /\ a.role \in Roles /\ a.row \in Role
    BY <1>2, <1>5, RequestKinds DEF CommitCreateRole
  <2>2. PICK r \in Roles, row \in Role, c \in SUBSET ListKeys :
          r = a.role /\ row = a.row /\ c = {Global, row.home}
    BY <1>4, <2>1
  <2>3. role[r] = NoRole /\ (inTurn => RoleNameIsAvailable(r, row.name, row.home))
    BY <1>1, <1>2, <2>1, <2>2 DEF Edits, Reads
  <2>4. /\ role' = [role EXCEPT ![r] = row]
        /\ areq' = [areq EXCEPT ![q] = [op |-> "after", role |-> r, tell |-> FALSE, clear |-> c]]
        /\ Edited /\ UNCHANGED <<grant, list, clients, told, inTurn>>
    BY <1>1, <1>2, <1>5, <2>2 DEF CommitCreateRole
  <2>5. /\ Global \in c /\ row.home \in c
        /\ areq[q] # AIdle /\ areq[q].op = "create" /\ areq[q].role = r
    BY <1>2, <1>3, <2>1, <2>2
  <2> QED  BY <2>3, <2>4, <2>5, RolesWrite
<1>6. CASE CommitUpdateRole(q)
  <2>1. /\ a.op = "update" /\ a.role \in Roles /\ a.row \in Role /\ a.at \in ListKeys
        /\ a.rekey \in BOOLEAN
    BY <1>2, <1>6, RequestKinds DEF CommitUpdateRole, ListKeys
  <2>2. PICK r \in Roles, t \in BOOLEAN, c \in SUBSET ListKeys :
          r = a.role /\ t = a.rekey /\ c = {Global, a.at, a.row.home}
    BY <1>4, <2>1
  <2>3. /\ role[r] \in Role /\ a.row.home = role[r].home
        /\ inTurn => RoleNameIsAvailable(r, a.row.name, a.row.home)
    BY <1>1, <1>2, <2>1, <2>2 DEF Edits, Reads
  <2>4. PICK row : row = [a.row EXCEPT !.keys = IF t THEN @ ELSE role[r].keys]
    OBVIOUS
  <2>5. row \in Role /\ row.home = a.row.home /\ row.name = a.row.name
    BY <2>1, <2>3, <2>4 DEF Role
  <2>6. /\ role' = [role EXCEPT ![r] = row]
        /\ areq' = [areq EXCEPT ![q] = [op |-> "after", role |-> r, tell |-> t, clear |-> c]]
        /\ Edited /\ UNCHANGED <<grant, list, clients, told, inTurn>>
    BY <1>1, <1>2, <1>6, <2>2, <2>4 DEF CommitUpdateRole
  <2>7. Global \in c /\ row.home \in c /\ areq[q] # AIdle /\ areq[q].op # "after"
    BY <1>2, <1>3, <2>1, <2>2, <2>5
  <2>8. row.home = role[r].home /\ (inTurn => RoleNameIsAvailable(r, row.name, row.home))
    BY <2>3, <2>5
  <2> QED  BY <2>3, <2>5, <2>6, <2>7, <2>8, RolesWrite
<1>7. CASE CommitRekeyRole(q)
  <2>1. a.op = "rekey" /\ a.role \in Roles /\ a.keys \subseteq Keys
    BY <1>2, <1>7, RequestKinds DEF CommitRekeyRole
  <2>2. PICK r \in Roles : r = a.role
    BY <2>1
  <2>3. role[r] \in Role
    BY <1>1, <1>2, <2>1, <2>2 DEF Edits
  <2>4. PICK row : row = [role[r] EXCEPT !.keys = a.keys]
    OBVIOUS
  <2>5. row \in Role /\ row.home = role[r].home /\ row.name = role[r].name
    BY <2>1, <2>3, <2>4 DEF Role
  <2>6. PICK c \in SUBSET ListKeys : c = {Global, row.home}
    BY <1>4, <2>5
  <2>7. /\ role' = [role EXCEPT ![r] = row]
        /\ areq' = [areq EXCEPT ![q] = [op |-> "after", role |-> r, tell |-> TRUE, clear |-> c]]
        /\ Edited /\ UNCHANGED <<grant, list, clients, told, inTurn>>
    BY <1>1, <1>2, <1>7, <2>2, <2>4, <2>5, <2>6 DEF CommitRekeyRole
  <2>8. inTurn => RoleNameIsAvailable(r, row.name, row.home)
    BY <2>3, <2>5, NoRoleIsNone DEF RolesInv, DistinctRoleNames, RoleNameIsAvailable
  <2> QED  BY <1>2, <1>3, <2>1, <2>2, <2>3, <2>5, <2>6, <2>7, <2>8, RolesWrite
<1>8. CASE AfterRoleChange(q)
  <2>1. a.op = "after" /\ a.clear \subseteq ListKeys
    BY <1>2, <1>8, RequestKinds DEF AfterRoleChange
  <2>2. /\ list' = [k \in ListKeys |-> IF k \in a.clear THEN NoList ELSE list[k]]
        /\ areq' = [areq EXCEPT ![q] = AIdle]
        /\ UNCHANGED <<role, grant, clients, edits, inTurn>>
    BY <1>2, <1>8 DEF AfterRoleChange
  <2>3. told' \subseteq clients'
    BY <1>1, <1>8, <2>2 DEF AfterRoleChange, Push, AccessTypeOK
  <2>4. AccessTypeOK'
    <3>1. list' \in [ListKeys -> RoleList \cup {NoList}]
      BY <1>1, <2>2
    <3>2. areq' \in [ARequests -> ARequest]
      BY <1>1, <2>2 DEF ARequest, AIdle
    <3> QED  BY <1>1, <2>2, <2>3, <3>1, <3>2 DEF AccessTypeOK
  <2>5. ASSUME inTurn PROVE FreshOrCleared'
    <3>1. \A p \in ARequests : areq[p].op = "after" => p = q
      BY <1>2, <1>3, <2>1, <2>5 DEF RolesInv, OneRequest, AIdle
    <3>2. \A k \in ListKeys : list[k] = NoList \/ Fresh(k) \/ k \in a.clear
      BY <1>2, <2>5, <3>1 DEF RolesInv, FreshOrCleared
    <3> QED  BY <2>2, <3>2 DEF FreshOrCleared, Fresh
  <2> QED  BY <1>2, <1>3, <2>1, <2>2, <2>4, <2>5, RolesEnd
<1>9. CASE CacheRoles(q)
  <2>1. a.op = "list" /\ a.key \in ListKeys /\ a.rows \in [Roles -> Role \cup {NoRole}]
    BY <1>2, <1>9, RequestKinds DEF CacheRoles
  <2>2. /\ list' = [list EXCEPT ![a.key] = [cached |-> TRUE, rows |-> a.rows]]
        /\ areq' = [areq EXCEPT ![q] = AIdle]
        /\ UNCHANGED <<role, grant, clients, told, edits, inTurn>>
    BY <1>2, <1>9 DEF CacheRoles
  <2>3. AccessTypeOK'
    <3>1. list' \in [ListKeys -> RoleList \cup {NoList}]
      BY <1>1, <2>1, <2>2 DEF RoleList
    <3>2. areq' \in [ARequests -> ARequest]
      BY <1>1, <2>2 DEF ARequest, AIdle
    <3> QED  BY <1>1, <2>2, <3>1, <3>2 DEF AccessTypeOK
  <2>4. ASSUME inTurn PROVE FreshOrCleared'
    <3>1. \A p \in ARequests : areq[p].op # "after"
      BY <1>2, <1>3, <2>1, <2>4 DEF RolesInv, OneRequest, AIdle
    <3>2. \A k \in ListKeys : list[k] = NoList \/ Fresh(k)
      BY <2>4, <3>1 DEF RolesInv, FreshOrCleared
    <3>3. a.rows = Visible(a.key)
      BY <1>1, <1>2, <2>1, <2>4 DEF Reads
    <3>4. list'[a.key].rows = a.rows /\ \A k \in ListKeys \ {a.key} : list'[k] = list[k]
      BY <1>1, <2>1, <2>2
    <3>5. Fresh(a.key)'
      BY <1>1, <2>1, <2>2, <3>3, <3>4, VisibleIsFresh DEF Fresh
    <3>6. ASSUME NEW k \in ListKeys \ {a.key} PROVE list'[k] = NoList \/ Fresh(k)'
      BY <2>2, <3>2, <3>4 DEF Fresh
    <3> QED  BY <3>5, <3>6 DEF FreshOrCleared
  <2> QED  BY <1>2, <1>3, <2>1, <2>2, <2>3, <2>4, RolesEnd
<1> QED  BY <1>5, <1>6, <1>7, <1>8, <1>9 DEF RoleCommit

\* A cached list runs out.
LEMMA RolesExpire ==
    ASSUME RolesInv, NEW k \in ListKeys, ListExpires(k)
    PROVE  RolesInv'
<1>1. /\ list \in [ListKeys -> RoleList \cup {NoList}]
      /\ list' = [list EXCEPT ![k] = NoList]
      /\ UNCHANGED <<role, grant, areq, clients, told, edits, inTurn>>
  BY DEF RolesInv, AccessTypeOK, ListExpires
<1>2. AccessTypeOK'
  BY <1>1 DEF RolesInv, AccessTypeOK
<1>3. DistinctRoleNames' /\ OwnRow' /\ \A q \in ARequests : Edits(areq[q])'
  BY <1>1 DEF RolesInv, DistinctRoleNames, OwnRow, Edits
<1>4. ASSUME inTurn PROVE OneRequest' /\ FreshOrCleared' /\ \A q \in ARequests : Reads(areq[q])'
  <2>1. OneRequest' /\ \A q \in ARequests : Reads(areq[q])'
    BY <1>1, <1>4 DEF RolesInv, OneRequest, Reads, RoleNameIsAvailable, Visible
  <2>2. FreshOrCleared'
    BY <1>1, <1>4 DEF RolesInv, FreshOrCleared, Fresh
  <2> QED  BY <2>1, <2>2
<1> QED  BY <1>1, <1>2, <1>3, <1>4 DEF RolesInv

\* Grants change no role.
LEMMA RolesGrant ==
    ASSUME RolesInv, GrantStep
    PROVE  RolesInv'
<1>1. PICK u \in Users :
        \/ \E k \in Keys : AssignToUser(u, k) \/ RemoveFromUser(u, k)
        \/ \E k \in Keys, a \in BOOLEAN : UpdatePermissionOverride(u, k, a)
        \/ \E rs \in SUBSET Roles, b \in Branch, s \in BOOLEAN : AssignRoles(u, rs, b, s)
        \/ \E rs \in SUBSET Roles, ks \in {{}} \cup {{k} : k \in Keys} : ApproveGrants(u, rs, ks)
  BY DEF GrantStep
<1>2. grant \in [Users -> Grant] /\ grant[u] \in Grant /\ grant[u].allow \cap grant[u].deny = {}
  BY DEF RolesInv, AccessTypeOK
<1>3. \E g \in Grant, us \in SUBSET Users : g.allow \cap g.deny = {} /\ Grants(u, g, us)
  <2>1. CASE \E k \in Keys : AssignToUser(u, k) \/ RemoveFromUser(u, k)
    <3>1. PICK g : /\ \E k \in Keys : \/ g = [grant[u] EXCEPT !.direct = @ \cup {k}]
                                      \/ g = [grant[u] EXCEPT !.direct = @ \ {k}]
                   /\ Grants(u, g, {u})
      BY <2>1 DEF AssignToUser, RemoveFromUser
    <3>2. g \in Grant /\ g.allow \cap g.deny = {}
      BY <1>2, <3>1 DEF Grant
    <3> QED  BY <3>1, <3>2
  <2>2. CASE \E k \in Keys, a \in BOOLEAN : UpdatePermissionOverride(u, k, a)
    <3>1. PICK k \in Keys, a \in BOOLEAN : UpdatePermissionOverride(u, k, a)
      BY <2>2
    <3>2. PICK g : /\ g = [grant[u] EXCEPT !.allow = IF a THEN @ \cup {k} ELSE @ \ {k},
                                           !.deny  = IF a THEN @ \ {k} ELSE @ \cup {k}]
                   /\ Grants(u, g, Users)
      BY <3>1 DEF UpdatePermissionOverride
    <3>3. /\ g.allow = IF a THEN grant[u].allow \cup {k} ELSE grant[u].allow \ {k}
          /\ g.deny  = IF a THEN grant[u].deny \ {k} ELSE grant[u].deny \cup {k}
      BY <1>2, <3>2 DEF Grant
    <3>4. g \in Grant
      BY <1>2, <3>2 DEF Grant
    <3>5. g.allow \cap g.deny = {}
      BY <1>2, <3>3
    <3> QED  BY <3>2, <3>4, <3>5
  <2>3. CASE \E rs \in SUBSET Roles, b \in Branch, s \in BOOLEAN : AssignRoles(u, rs, b, s)
    <3>1. PICK rs \in SUBSET Roles : Grants(u, [grant[u] EXCEPT !.roles = rs], Users)
      BY <2>3 DEF AssignRoles
    <3>2. PICK g : g = [grant[u] EXCEPT !.roles = rs]
      OBVIOUS
    <3>3. g \in Grant /\ g.allow \cap g.deny = {}
      BY <1>2, <3>2 DEF Grant
    <3> QED  BY <3>1, <3>2, <3>3
  <2>4. CASE \E rs \in SUBSET Roles, ks \in {{}} \cup {{k} : k \in Keys} : ApproveGrants(u, rs, ks)
    <3>1. PICK rs \in SUBSET Roles, ks \in SUBSET Keys :
            Grants(u, [roles |-> rs, direct |-> ks, allow |-> {}, deny |-> {}], {})
      BY <2>4 DEF ApproveGrants
    <3>2. PICK g : g = [roles |-> rs, direct |-> ks, allow |-> {}, deny |-> {}]
      OBVIOUS
    <3>3. g \in Grant /\ g.allow \cap g.deny = {}
      BY <3>2 DEF Grant
    <3> QED  BY <3>1, <3>2, <3>3
  <2> QED  BY <1>1, <2>1, <2>2, <2>3, <2>4
<1>4. PICK g \in Grant, us \in SUBSET Users : g.allow \cap g.deny = {} /\ Grants(u, g, us)
  BY <1>3
<1>5. /\ grant' = [grant EXCEPT ![u] = g] /\ told' = told \cup (us \cap clients)
      /\ Edited /\ UNCHANGED <<role, list, areq, clients, inTurn>>
  BY <1>4 DEF Grants, Push
<1>6. grant' \in [Users -> Grant] /\ \A v \in Users : grant'[v].allow \cap grant'[v].deny = {}
  BY <1>2, <1>4, <1>5 DEF RolesInv, AccessTypeOK
<1>7. edits' \in 0..MaxEdits
  BY <1>5, AccessAssumption DEF RolesInv, AccessTypeOK, Edited
<1>8. AccessTypeOK'
  BY <1>5, <1>6, <1>7 DEF RolesInv, AccessTypeOK
<1> QED  BY <1>5, <1>8, RolesUnmoved

-----------------------------------------------------------------------------
(* The tab changes who listens, and nothing else of roles and grants *)

\* What happens in a tab leaves the roles and their lists alone.
LEMMA RolesTab ==
    ASSUME RolesInv, TabNext
    PROVE  RolesInv'
<1>1. UNCHANGED <<role, grant, list, areq, edits, inTurn>>
  BY DEF TabNext, Timer, PermissionsUpdated, Poll, FlowStep, ServerRefresh, Receive, Refused,
         GetMyProfile, ProfileReceived, RefreshTimesOut, StreamOpens, StreamFails, StreamRetries,
         SignedOut, Reconnecting, accessVars
<1>2. \/ UNCHANGED <<clients, told>>
      \/ clients' = clients /\ told' = told \ {Me}
      \/ clients' = clients \ {Me} /\ told' = told \ {Me}
      \/ clients' = clients \cup {Me} /\ told' = told
  BY DEF TabNext, Timer, PermissionsUpdated, Poll, FlowStep, ServerRefresh, Receive, Refused,
         GetMyProfile, ProfileReceived, RefreshTimesOut, StreamOpens, StreamFails, StreamRetries,
         SignedOut, Reconnecting, accessVars
<1>3. clients' \subseteq Users /\ told' \subseteq clients'
  BY <1>2, TabAssumption DEF RolesInv, AccessTypeOK
<1>4. AccessTypeOK'
  BY <1>1, <1>3 DEF RolesInv, AccessTypeOK
<1> QED  BY <1>1, <1>4, RolesUnmoved

\* Every step keeps what the requests in flight read.
LEMMA RolesNext == RolesInv /\ [Step]_Every => RolesInv'
<1> SUFFICES ASSUME RolesInv, [Step]_Every PROVE RolesInv'
  OBVIOUS
<1>1. CASE RoleStep
  BY <1>1, RolesRequest, RolesCommit, RolesExpire DEF RoleStep
<1>2. CASE GrantStep
  BY <1>2, RolesGrant
<1>3. CASE TabNext
  BY <1>3, RolesTab
<1>4. CASE UNCHANGED Every
  <2>1. UNCHANGED accessVars
    BY <1>4 DEF Every
  <2>2. AccessTypeOK'
    BY <2>1 DEF RolesInv, AccessTypeOK, accessVars
  <2> QED  BY <2>1, <2>2, RolesUnmoved DEF accessVars
<1> QED  BY <1>1, <1>2, <1>3, <1>4 DEF Step

\* The invariant of roles holds throughout.
LEMMA RolesAlways == TabSpec => []RolesInv
<1>1. AccessInit => RolesInv
  BY RolesStart
<1> QED  BY <1>1, RolesNext, PTL DEF TabSpec, Step, Every

\* With requests one at a time, every path that edits a role leaves the cached
\* lists current and role names distinct, for any number of roles, branches and
\* permissions and whatever grants and tabs do meanwhile (roles.service findAll,
\* ensureRoleNameIsAvailable, clearRbacCaches; permissions.service clearRoleCaches).
THEOREM RolesAreSound == TabSpec => []RolesSound
<1>1. RolesInv => RolesSound
  <2> SUFFICES ASSUME RolesInv PROVE RolesSound
    OBVIOUS
  <2>1. RoleListsFresh
    <3> SUFFICES ASSUME inTurn, Settled, NEW k \in ListKeys, NEW r \in Roles, list[k].cached,
                        k = Global \/ (role[r] # NoRole /\ role[r].home = k)
                 PROVE  list[k].rows[r] = role[r]
      BY DEF RoleListsFresh
    <3>1. list[k] # NoList
      BY DEF NoList
    <3>2. Fresh(k)
      BY <3>1 DEF RolesInv, FreshOrCleared, Settled, AIdle
    <3> QED  BY <3>2 DEF Fresh
  <2> QED  BY <2>1 DEF RolesInv, RolesSound
<1> QED  BY <1>1, RolesAlways, PTL

\* The guards, the token and /auth/me, and the user list give one answer for
\* every user, and the browser's expansion adds nothing where no override
\* denies a permission: for every table of roles and grants the system can reach
\* (computeEffectivePermissions, buildEffectivePermissions,
\* serializeEffectivePermissions, expandPermissionKeys).
THEOREM ViewsAlwaysAgree == TabSpec => []ViewsAgree
<1>1. RolesInv => ViewsAgree
  <2> SUFFICES ASSUME RolesInv, NEW u \in Users
               PROVE  LET g == grant[u] IN
                        /\ ComputeEffectivePermissions(g) = BuildEffectivePermissions(g)
                        /\ SerializeEffectivePermissions(g) = BuildEffectivePermissions(g)
                        /\ g.deny = {} /\ g.allow = {} =>
                             ExpandPermissionKeys(BuildEffectivePermissions(g))
                               = BuildEffectivePermissions(g)
    BY DEF ViewsAgree
  <2>1. PICK g : g = grant[u]
    OBVIOUS
  <2>2. g.allow \cap g.deny = {}
    BY <2>1 DEF RolesInv, AccessTypeOK
  <2> QED  BY <2>1, <2>2, GrantViewsAgree
<1> QED  BY <1>1, RolesAlways, PTL

-----------------------------------------------------------------------------
(* Steps of the tab *)

\* A flow, by where it is.
LEMMA FlowKinds ==
    ASSUME NEW h \in Flow
    PROVE  /\ h.pc \in {"idle", "sent", "joined", "answered", "refused", "profile", "read"}
           /\ h.pc \in {"profile", "read"} => h.base \in Views /\ h.renewed \in BOOLEAN
           /\ h.pc = "answered" => h.view \in Views
           /\ h.pc = "read" => h.got \in Views
<1>1. CASE h \in [pc : {"idle"}] \cup [pc : {"refused"}] \cup [pc : {"joined"}, base : Views]
  BY <1>1
<1>2. CASE h \in [pc : {"sent"}, base : Views, valid : BOOLEAN]
  BY <1>2
<1>3. CASE h \in [pc : {"answered"}, view : Views]
  BY <1>3
<1>4. CASE h \in [pc : {"profile"}, base : Views, renewed : BOOLEAN]
  BY <1>4
<1>5. CASE h \in [pc : {"read"}, base : Views, renewed : BOOLEAN, got : Views]
  BY <1>5
<1> QED  BY <1>1, <1>2, <1>3, <1>4, <1>5 DEF Flow

\* What the server says of the user is a view, and stays one when mapped.
LEMMA ViewTyped ==
    ASSUME RolesInv
    PROVE  View \in Views
<1>1. PICK g \in Grant : g = grant[Me]
  BY TabAssumption DEF RolesInv, AccessTypeOK
<1>2. RawPermissionKeys(g) \subseteq Keys
  <2>1. \A r \in g.roles : role[r] # NoRole => role[r].keys \subseteq Keys
    BY DEF RolesInv, AccessTypeOK, Grant, Role
  <2> QED  BY <2>1 DEF RawPermissionKeys, Grant
<1>3. Expanded(RawPermissionKeys(g)) \subseteq Expanded(Keys) /\ Keys \subseteq Expanded(Keys)
  BY <1>2, ExpandedGrows
<1>4. g.allow \subseteq Keys /\ g.roles \subseteq Roles
  BY DEF Grant
<1>5. BuildEffectivePermissions(g) \subseteq Expanded(Keys)
  BY <1>3, <1>4 DEF BuildEffectivePermissions
<1> QED  BY <1>1, <1>4, <1>5 DEF View, Views

\* A tab that expands the keys of an answer (mapJwtUser) is left with a view.
LEMMA MappedTyped ==
    ASSUME NEW v \in Views
    PROVE  Mapped(v) \in Views
<1>1. v.perms \subseteq Expanded(Keys) /\ v.roles \subseteq Roles
  BY DEF Views
<1>2. ExpandPermissionKeys(v.perms) \subseteq Expanded(Keys)
  BY <1>1, ExpandedGrows, ExpandedOnce, ExpandedAsServer
<1>3. Mapped(v) = [roles |-> v.roles, perms |-> ExpandPermissionKeys(v.perms)]
  BY DEF Mapped, Views
<1> QED  BY <1>1, <1>2, <1>3 DEF Views

\* In a tab that has just signed in.
LEMMA TabStart == AccessInit /\ TabInit => TabInv
<1> SUFFICES ASSUME AccessInit, TabInit PROVE TabInv
  OBVIOUS
<1>1. PICK v \in Views : v = Mapped(View)
  BY RolesStart, ViewTyped, MappedTyped
<1>2. /\ tab = [signedIn |-> TRUE, valid |-> TRUE, token |-> v, shown |-> v,
                stream |-> "connecting", retries |-> 0]
      /\ flow = [f \in Flows |-> FIdle] /\ lost = 0
  BY <1>1 DEF TabInit
<1>3. FIdle \in Flow /\ FIdle.pc = "idle"
  BY DEF FIdle, Flow
<1>4. TabType
  BY <1>2, <1>3, TabAssumption DEF TabType
<1>5. OneRefresh
  BY <1>2, <1>3 DEF OneRefresh, Busy, At
<1> QED  BY <1>4, <1>5 DEF TabInv

\* A flow that asks for new tokens sends a request, or waits for the one under way.
LEMMA TabAsks ==
    ASSUME TabInv, NEW f \in Flows, NEW v \in Views, flow[f].pc \in {"idle", "read"},
           flow' = [flow EXCEPT ![f] = Asking(f, v)], UNCHANGED <<tab, lost>>
    PROVE  TabInv'
<1>1. flow \in [Flows -> Flow] /\ tab.valid \in BOOLEAN
  BY DEF TabInv, TabType
<1>2. PICK h : h = Asking(f, v)
  OBVIOUS
<1>3. /\ h \in Flow
      /\ \/ h.pc = "joined"
         \/ h.pc = "sent" /\ h.valid = tab.valid /\ \A g \in Flows : ~ Joinable(f, g)
  BY <1>1, <1>2 DEF Asking, Flow
<1>4. flow' \in [Flows -> Flow] /\ flow'[f] = h /\ \A g \in Flows \ {f} : flow'[g] = flow[g]
  BY <1>1, <1>2, <1>3
<1>5. TabType'
  BY <1>4 DEF TabInv, TabType
<1>6. ASSUME lost = 0 PROVE OneRefresh'
  <2>1. OneRefresh /\ ~ At(f, "answered")
    BY <1>6 DEF TabInv, At
  <2>2. CASE h.pc = "joined"
    BY <1>4, <2>1, <2>2 DEF OneRefresh, Busy, At
  <2>3. CASE h.pc = "sent" /\ h.valid = tab.valid /\ \A g \in Flows : ~ Joinable(f, g)
    <3>1. \A g \in Flows \ {f} : ~ Busy(g)
      BY <2>3 DEF Joinable, Busy
    <3>2. tab.valid
      BY <2>1, <3>1 DEF OneRefresh, Busy, At
    <3>3. \A g \in Flows \ {f} : flow'[g].pc \notin {"sent", "answered", "refused"}
      BY <1>4, <3>1 DEF Busy
    <3> QED  BY <1>4, <2>1, <2>3, <3>2, <3>3 DEF OneRefresh, Busy, At
  <2> QED  BY <1>3, <2>2, <2>3
<1> QED  BY <1>5, <1>6 DEF TabInv

\* A flow that has no refresh under way goes on without one.
LEMMA TabQuiet ==
    ASSUME TabInv, NEW f \in Flows, ~ Busy(f), NEW h \in Flow, h.pc \in {"idle", "profile", "read"},
           flow' = [flow EXCEPT ![f] = h], NEW v \in Views,
           tab' = tab \/ tab' = [tab EXCEPT !.shown = v], UNCHANGED lost
    PROVE  TabInv'
<1>1. /\ flow \in [Flows -> Flow]
      /\ tab \in [signedIn : BOOLEAN, valid : BOOLEAN, token : Views, shown : Views,
                  stream : {"connecting", "open", "waiting", "closed"}, retries : 0..MaxRetries]
  BY DEF TabInv, TabType
<1>2. flow' \in [Flows -> Flow] /\ flow'[f] = h /\ \A g \in Flows \ {f} : flow'[g] = flow[g]
  BY <1>1
<1>3. /\ tab' \in [signedIn : BOOLEAN, valid : BOOLEAN, token : Views, shown : Views,
                   stream : {"connecting", "open", "waiting", "closed"}, retries : 0..MaxRetries]
      /\ tab'.stream = tab.stream /\ tab'.retries = tab.retries
      /\ tab'.signedIn = tab.signedIn /\ tab'.valid = tab.valid
  BY <1>1
<1>4. TabType'
  BY <1>2, <1>3 DEF TabInv, TabType
<1>5. ASSUME lost = 0 PROVE OneRefresh'
  BY <1>2, <1>3, <1>5 DEF TabInv, OneRefresh, Busy, At
<1> QED  BY <1>4, <1>5 DEF TabInv

\* The server answers a refresh.
LEMMA TabServer ==
    ASSUME RolesInv, TabInv, NEW f \in Flows, ServerRefresh(f)
    PROVE  TabInv'
<1>1. /\ flow \in [Flows -> Flow]
      /\ tab \in [signedIn : BOOLEAN, valid : BOOLEAN, token : Views, shown : Views,
                  stream : {"connecting", "open", "waiting", "closed"}, retries : 0..MaxRetries]
      /\ At(f, "sent") /\ lost' = lost
  BY DEF TabInv, TabType, ServerRefresh
<1>2. PICK v \in Views : v = Mapped(View)
  BY ViewTyped, MappedTyped
<1>3. CASE flow[f].valid /\ tab.valid
  <2>1. PICK h : h = [pc |-> "answered", view |-> v]
    OBVIOUS
  <2>2. flow' = [flow EXCEPT ![f] = h] /\ tab' = [tab EXCEPT !.valid = FALSE]
    BY <1>2, <1>3, <2>1 DEF ServerRefresh, Set
  <2>3. h \in Flow /\ h.pc = "answered"
    BY <2>1 DEF Flow
  <2>4. flow' \in [Flows -> Flow] /\ flow'[f] = h /\ \A g \in Flows \ {f} : flow'[g] = flow[g]
    BY <1>1, <2>2, <2>3
  <2>5. /\ tab' \in [signedIn : BOOLEAN, valid : BOOLEAN, token : Views, shown : Views,
                     stream : {"connecting", "open", "waiting", "closed"}, retries : 0..MaxRetries]
        /\ tab'.stream = tab.stream /\ tab'.retries = tab.retries /\ tab'.signedIn = tab.signedIn
    BY <1>1, <2>2
  <2>6. TabType'
    BY <1>1, <2>4, <2>5 DEF TabInv, TabType
  <2>7. ASSUME lost = 0 PROVE OneRefresh'
    <3>1. OneRefresh
      BY <2>7 DEF TabInv
    <3>2. \A g \in Flows \ {f} : ~ Busy(g)
      BY <1>1, <3>1 DEF OneRefresh, Busy, At
    <3> QED  BY <2>3, <2>4, <2>5, <3>1, <3>2 DEF OneRefresh, Busy, At
  <2> QED  BY <1>1, <2>6, <2>7 DEF TabInv
<1>4. CASE ~ (flow[f].valid /\ tab.valid)
  <2>1. flow' = [flow EXCEPT ![f] = [pc |-> "refused"]] /\ tab' = tab
    BY <1>4 DEF ServerRefresh, Set
  <2>2. TabType'
    BY <1>1, <2>1 DEF TabInv, TabType, Flow
  <2>3. lost # 0
    BY <1>1, <1>4 DEF TabInv, OneRefresh
  <2> QED  BY <1>1, <2>2, <2>3 DEF TabInv
<1> QED  BY <1>3, <1>4

\* New tokens reach everyone who waits for them.
LEMMA TabReceives ==
    ASSUME TabInv, NEW f \in Flows, Receive(f)
    PROVE  TabInv'
<1>1. /\ flow \in [Flows -> Flow]
      /\ tab \in [signedIn : BOOLEAN, valid : BOOLEAN, token : Views, shown : Views,
                  stream : {"connecting", "open", "waiting", "closed"}, retries : 0..MaxRetries]
      /\ At(f, "answered") /\ lost' = lost
  BY DEF TabInv, TabType, Receive
<1>2. PICK v \in Views : v = flow[f].view
  BY <1>1, FlowKinds DEF At
<1>3. PICK with \in SUBSET Flows : with = {f} \cup {g \in Flows : At(g, "joined")}
  OBVIOUS
<1>4. PICK w \in Views : w = IF with # {"timer"} THEN v ELSE tab.shown
  BY <1>1
<1>5. /\ tab' = [tab EXCEPT !.valid = TRUE, !.token = v, !.stream = "connecting",
                            !.retries = 0, !.shown = w]
      /\ flow' = [g \in Flows |-> IF g \in with THEN Renewed(g, v) ELSE flow[g]]
  BY <1>1, <1>2, <1>3, <1>4 DEF Receive
<1>6. \A g \in Flows : Renewed(g, v) \in Flow /\ Renewed(g, v).pc \in {"idle", "profile"}
  BY DEF Renewed, FIdle, Flow
<1>7. TabType'
  <2>1. flow' \in [Flows -> Flow]
    BY <1>1, <1>5, <1>6
  <2>2. 0 \in 0..MaxRetries
    BY TabAssumption
  <2>3. /\ tab' \in [signedIn : BOOLEAN, valid : BOOLEAN, token : Views, shown : Views,
                     stream : {"connecting", "open", "waiting", "closed"}, retries : 0..MaxRetries]
        /\ tab'.stream = "connecting"
    BY <1>1, <1>5, <2>2
  <2> QED  BY <1>1, <2>1, <2>3 DEF TabInv, TabType
<1>8. ASSUME lost = 0 PROVE OneRefresh'
  <2>1. OneRefresh
    BY <1>8 DEF TabInv
  <2>2. \A g \in Flows \ {f} : ~ Busy(g)
    BY <1>1, <2>1 DEF OneRefresh, Busy, At
  <2>3. \A g \in Flows : flow'[g].pc \notin {"sent", "answered", "refused"}
    BY <1>3, <1>5, <1>6, <2>2 DEF Busy
  <2>4. tab'.valid /\ tab'.signedIn
    BY <1>1, <1>5, <2>1 DEF OneRefresh
  <2> QED  BY <2>3, <2>4 DEF OneRefresh, Busy, At
<1> QED  BY <1>1, <1>7, <1>8 DEF TabInv

\* Signing out is well formed; what else it means is the caller's affair.
LEMMA TabSignsOut ==
    ASSUME TabInv, SignedOut, lost' \in 0..MaxLost, lost' # 0
    PROVE  TabInv'
<1>1. FIdle \in Flow
  BY DEF FIdle, Flow
<1>2. TabType'
  BY <1>1 DEF TabInv, TabType, SignedOut
<1> QED  BY <1>2 DEF TabInv

\* An answer that does not come.
LEMMA TabTimesOut ==
    ASSUME TabInv, NEW f \in Flows, RefreshTimesOut(f)
    PROVE  TabInv'
<1>1. lost \in 0..MaxLost /\ lost < MaxLost /\ lost' = lost + 1
  BY DEF TabInv, TabType, RefreshTimesOut
<1>2. lost' \in 0..MaxLost /\ lost' # 0
  BY <1>1, TabAssumption
<1>3. CASE SignedOut
  BY <1>2, <1>3, TabSignsOut
<1>4. CASE ~ SignedOut
  <2>1. PICK with : flow' = [g \in Flows |-> IF g \in with THEN FIdle ELSE flow[g]]
    BY <1>4 DEF RefreshTimesOut
  <2>2. tab' = tab
    BY <1>4 DEF RefreshTimesOut
  <2>3. FIdle \in Flow
    BY DEF FIdle, Flow
  <2>4. TabType'
    BY <1>2, <2>1, <2>2, <2>3 DEF TabInv, TabType
  <2> QED  BY <1>2, <2>4 DEF TabInv
<1> QED  BY <1>3, <1>4

\* The stream comes and goes; it touches no token.
LEMMA TabStream ==
    ASSUME TabInv, StreamOpens \/ StreamFails \/ StreamRetries
    PROVE  TabInv'
<1>1. /\ tab \in [signedIn : BOOLEAN, valid : BOOLEAN, token : Views, shown : Views,
                  stream : {"connecting", "open", "waiting", "closed"}, retries : 0..MaxRetries]
      /\ tab.stream = "waiting" => tab.retries < MaxRetries
      /\ UNCHANGED <<flow, lost>>
  BY DEF TabInv, TabType, StreamOpens, StreamFails, StreamRetries
<1>2. 0 \in 0..MaxRetries
  BY TabAssumption
<1>3. /\ tab' \in [signedIn : BOOLEAN, valid : BOOLEAN, token : Views, shown : Views,
                   stream : {"connecting", "open", "waiting", "closed"}, retries : 0..MaxRetries]
      /\ tab'.stream = "waiting" => tab'.retries < MaxRetries
      /\ tab'.signedIn = tab.signedIn /\ tab'.valid = tab.valid
  <2>1. CASE StreamOpens
    BY <1>1, <1>2, <2>1 DEF StreamOpens
  <2>2. CASE StreamFails
    BY <1>1, <2>2 DEF StreamFails
  <2>3. CASE StreamRetries
    <3>1. tab.retries + 1 \in 0..MaxRetries
      BY <1>1, <2>3, TabAssumption DEF StreamRetries
    <3> QED  BY <1>1, <2>3, <3>1 DEF StreamRetries
  <2> QED  BY <2>1, <2>2, <2>3
<1>4. TabType'
  BY <1>1, <1>3 DEF TabInv, TabType
<1>5. ASSUME lost = 0 PROVE OneRefresh'
  BY <1>1, <1>3, <1>5 DEF TabInv, OneRefresh, Busy, At
<1> QED  BY <1>1, <1>4, <1>5 DEF TabInv

\* The profile is read and applied, or sends for new tokens.
LEMMA TabProfile ==
    ASSUME RolesInv, TabInv, NEW f \in Flows, GetMyProfile(f) \/ ProfileReceived(f)
    PROVE  TabInv'
<1>1. /\ flow \in [Flows -> Flow] /\ tab.shown \in Views
      /\ flow[f].pc \in {"profile", "read"} /\ lost' = lost
  BY DEF TabInv, TabType, GetMyProfile, ProfileReceived, At
<1>2. ~ Busy(f)
  BY <1>1 DEF Busy
<1>3. PICK b \in Views, n \in BOOLEAN : b = flow[f].base /\ n = flow[f].renewed
  BY <1>1, FlowKinds
<1>4. CASE GetMyProfile(f)
  <2>1. PICK v \in Views : v = View
    BY ViewTyped
  <2>2. PICK h : h = [pc |-> "read", base |-> b, renewed |-> n, got |-> v]
    OBVIOUS
  <2>3. h \in Flow /\ h.pc = "read"
    BY <2>2 DEF Flow
  <2>4. flow' = [flow EXCEPT ![f] = h] /\ tab' = tab
    BY <1>3, <1>4, <2>1, <2>2 DEF GetMyProfile, Set
  <2> QED  BY <1>1, <1>2, <2>1, <2>3, <2>4, TabQuiet
<1>5. CASE ProfileReceived(f)
  <2>1. flow[f].pc = "read"
    BY <1>5 DEF ProfileReceived, At
  <2>2. PICK got \in Views : got = flow[f].got
    BY <1>1, <2>1, FlowKinds
  <2>3. CASE flow' = [flow EXCEPT ![f] = Asking(f, b)] /\ tab' = tab
    BY <1>1, <2>1, <2>3, TabAsks
  <2>4. CASE flow' = [flow EXCEPT ![f] = FIdle]
             /\ tab' = [tab EXCEPT !.shown = ApplyProfile(got, b)]
    <3>1. PICK v : v = ApplyProfile(got, b)
      OBVIOUS
    <3>2. Mapped(got).perms \subseteq Expanded(Keys)
      BY MappedTyped DEF Views
    <3>3. v \in Views
      BY <3>1, <3>2 DEF ApplyProfile, Views
    <3>4. PICK h : h = FIdle
      OBVIOUS
    <3>5. h \in Flow /\ h.pc = "idle"
      BY <3>4 DEF FIdle, Flow
    <3> QED  BY <1>1, <1>2, <2>4, <3>1, <3>3, <3>4, <3>5, TabQuiet
  <2> QED  BY <1>3, <1>5, <2>2, <2>3, <2>4 DEF ProfileReceived, Set, Leave
<1> QED  BY <1>4, <1>5

\* The timer, an event and the poll start a flow.
LEMMA TabBegins ==
    ASSUME TabInv, Timer \/ PermissionsUpdated \/ Poll
    PROVE  TabInv'
<1>1. /\ tab.token \in Views /\ tab.shown \in Views /\ NoView \in Views
      /\ {"timer", "event", "poll"} \subseteq Flows
      /\ UNCHANGED <<tab, lost>>
  BY DEF TabInv, TabType, Views, NoView, Flows, Timer, PermissionsUpdated, Poll
<1>2. PICK t \in Views, z \in Views : t = tab.token /\ z = NoView
  BY <1>1
<1>3. CASE Timer
  <2>1. flow["timer"].pc = "idle" /\ flow' = [flow EXCEPT !["timer"] = Asking("timer", z)]
    BY <1>2, <1>3 DEF Timer, Idle, At, Set
  <2> QED  BY <1>1, <2>1, TabAsks
<1>4. CASE PermissionsUpdated
  <2>1. flow["event"].pc = "idle" /\ flow' = [flow EXCEPT !["event"] = Asking("event", t)]
    BY <1>2, <1>4 DEF PermissionsUpdated, Idle, At, Set
  <2> QED  BY <1>1, <2>1, TabAsks
<1>5. CASE Poll
  <2>1. PICK h : h = [pc |-> "profile", base |-> t, renewed |-> FALSE]
    OBVIOUS
  <2>2. h \in Flow /\ h.pc = "profile"
    BY <2>1 DEF Flow
  <2>3. flow' = [flow EXCEPT !["poll"] = h] /\ ~ Busy("poll")
    BY <1>2, <1>5, <2>1 DEF Poll, Idle, At, Set, Busy
  <2> QED  BY <1>1, <2>2, <2>3, TabQuiet
<1> QED  BY <1>3, <1>4, <1>5

\* Every step keeps at most one refresh under way, until an answer is lost.
LEMMA TabSteps == RolesInv /\ TabInv /\ [Step]_Every => TabInv'
<1> SUFFICES ASSUME RolesInv, TabInv, [Step]_Every PROVE TabInv'
  OBVIOUS
<1>1. CASE UNCHANGED tabVars
  BY <1>1 DEF TabInv, TabType, OneRefresh, Busy, At, tabVars
<1>2. ASSUME NEW f \in Flows, Refused(f) PROVE TabInv'
  <2>1. lost' = lost /\ lost \in 0..MaxLost /\ lost # 0
    BY <1>2 DEF Refused, TabInv, TabType, OneRefresh
  <2> QED  BY <1>2, <2>1, TabSignsOut DEF Refused
<1>3. CASE TabNext
  BY <1>2, <1>3, TabBegins, TabServer, TabReceives, TabProfile, TabTimesOut, TabStream
  DEF TabNext, FlowStep
<1> QED  BY <1>1, <1>3 DEF Step, Every

\* The tab's own flows never make it lose its session, however the timer, the
\* polls and the events overlap: only a lost answer does; and its stream is
\* reopened MaxRetries times at most in a row (refreshPromise in api/auth.ts,
\* auth-context.tsx, hooks/use-notifications.ts).
THEOREM TabIsSound == TabSpec => []TabSound
<1>1. TabInv => TabSound
  <2> SUFFICES ASSUME TabInv PROVE TabSound
    OBVIOUS
  <2>1. TabTypeOK
    <3>1. ExpandPermissionKeys(Keys) = Expanded(Keys)
      BY ExpandedAsServer
    <3>2. \A f \in Flows : flow[f].pc \in {"idle", "sent", "joined", "answered", "refused",
                                           "profile", "read"}
      BY FlowKinds DEF TabInv, TabType
    <3> QED  BY <3>1, <3>2 DEF TabInv, TabType, TabTypeOK, Views
  <2>2. TabKeepsItsSession
    BY DEF TabInv, TabType, OneRefresh, TabKeepsItsSession
  <2> QED  BY <2>1, <2>2 DEF TabSound
<1>2. AccessInit /\ TabInit => TabInv
  BY TabStart
<1> QED  BY <1>1, <1>2, TabSteps, RolesAlways, PTL DEF TabSpec, Step, Every

=============================================================================
