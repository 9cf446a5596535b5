----------------------------- MODULE RoleOrder ------------------------------
(***************************************************************************)
(* The administrators' list of roles (RolesService) and the dashboards it  *)
(* is shown on (RolesInterceptor).  Roles have a place each, `sort', which *)
(* the service renumbers by shifting ranges of rows.  Its transactions are *)
(* SERIALIZABLE, so each is one step here; one that the database aborts    *)
(* changes nothing.  What a request does after its commit, reading the     *)
(* list again and broadcasting it, is not part of the transaction.         *)
(***************************************************************************)
EXTENDS Integers, Sequences, FiniteSets

CONSTANTS
  RoleIds,   \* role ids; a deleted role never comes back
  Defaults,  \* the seeded roles, in order
  Requests   \* requests in flight

ASSUME OrderAssumption ==
  /\ RoleIds # {} /\ Defaults \in Seq(RoleIds)
  /\ \A i, j \in 1..Len(Defaults) : Defaults[i] = Defaults[j] => i = j

VARIABLES
  rows,     \* the roles there are
  sort,     \* their places; 0 for a role that has no row
  deleted,  \* history: roles deleted
  request,  \* per request: "fetch" once committed, "emit" once it read the list
  shown,    \* the list a connected dashboard shows
  contested \* history: the last request to start found another in flight, or
            \* could not read the list

orderVars == <<rows, sort, deleted, request, shown, contested>>

Seeded == {Defaults[i] : i \in 1..Len(Defaults)}

NoList == [r \in RoleIds |-> 0]

InitOrder ==
  /\ rows = Seeded
  /\ sort = [r \in RoleIds |-> IF r \in Seeded
                               THEN CHOOSE i \in 1..Len(Defaults) : Defaults[i] = r ELSE 0]
  /\ deleted = {}
  /\ shown = sort
  /\ request = [q \in Requests |-> [pc |-> "idle", list |-> NoList]]
  /\ contested = FALSE

-----------------------------------------------------------------------------
(* Transactions.                                                           *)

\* maxSort: null, here 0, when there is no role.
MaxSort ==
  IF rows = {} THEN 0
  ELSE CHOOSE m \in {sort[x] : x \in rows} : \A y \in rows : sort[y] <= m

\* Mutant: the new role goes first.
CreateFirst(r) ==
  /\ r \notin rows \cup deleted
  /\ rows' = rows \cup {r}
  /\ sort' = [x \in RoleIds |-> IF x = r THEN 1 ELSE IF x \in rows THEN sort[x] + 1 ELSE 0]
  /\ UNCHANGED deleted

\* create: the new role goes last.
Create(r) ==
  /\ r \notin rows \cup deleted
  /\ rows' = rows \cup {r}
  /\ sort' = [sort EXCEPT ![r] = MaxSort + 1]
  /\ UNCHANGED deleted

\* update renames a role; its place stays.
Update(r) ==
  /\ r \in rows \ Seeded
  /\ UNCHANGED <<rows, sort, deleted>>

\* delete: default roles stay.  That check reads outside the transaction, but
\* the flag of a row never changes.  The gap is closed.
Delete(r) ==
  /\ r \in rows \ Seeded
  /\ rows' = rows \ {r}
  /\ deleted' = deleted \cup {r}
  /\ sort' = [x \in RoleIds |-> IF x = r THEN 0
                                ELSE IF x \in rows /\ sort[x] > sort[r] THEN sort[x] - 1
                                ELSE sort[x]]

\* Mutant: one bound of the range is swapped, so the role is not let in below.
ShiftedPast(r, n) ==
  [x \in RoleIds |->
     IF x = r THEN n
     ELSE IF x \in rows /\ sort[r] < sort[x] /\ sort[x] < n THEN sort[x] - 1
     ELSE IF x \in rows /\ n <= sort[x] /\ sort[x] < sort[r] THEN sort[x] + 1
     ELSE sort[x]]

\* The rows between the old place and the new one make room.
Shifted(r, n) ==
  [x \in RoleIds |->
     IF x = r THEN n
     ELSE IF x \in rows /\ sort[r] < sort[x] /\ sort[x] <= n THEN sort[x] - 1
     ELSE IF x \in rows /\ n <= sort[x] /\ sort[x] < sort[r] THEN sort[x] + 1
     ELSE sort[x]]

\* sort: any role, default or not, to any place up to the last.
Sort(r, n) ==
  /\ r \in rows /\ n # sort[r]
  /\ sort' = Shifted(r, n)
  /\ UNCHANGED <<rows, deleted>>

Change ==
  \/ \E r \in RoleIds : Create(r) \/ Update(r) \/ Delete(r)
  \/ \E r \in rows, n \in 1..MaxSort : Sort(r, n)

-----------------------------------------------------------------------------
(* Requests.                                                               *)

Idle(q) == request[q].pc = "idle"
Alone(q) == \A p \in Requests \ {q} : Idle(p)

\* Mutant: the list is read before the change.
CommitListFirst(q) ==
  /\ Idle(q)
  /\ Change
  /\ request' = [request EXCEPT ![q] = [pc |-> "emit", list |-> sort]]
  /\ contested' = ~Alone(q)
  /\ UNCHANGED shown

\* A change commits; the interceptor goes on.
Commit(q) ==
  /\ Idle(q)
  /\ Change
  /\ request' = [request EXCEPT ![q].pc = "fetch"]
  /\ contested' = ~Alone(q)
  /\ UNCHANGED shown

\* findAll after the change.
Fetch(q) ==
  /\ request[q].pc = "fetch"
  /\ request' = [request EXCEPT ![q] = [pc |-> "emit", list |-> sort]]
  /\ UNCHANGED <<rows, sort, deleted, shown, contested>>

\* It fails: the change stays, and no dashboard is told.
FetchFails(q) ==
  /\ request[q].pc = "fetch"
  /\ request' = [request EXCEPT ![q].pc = "idle"]
  /\ contested' = TRUE
  /\ UNCHANGED <<rows, sort, deleted, shown>>

\* GET /roles: the list it answers is broadcast as well.
Search(q) ==
  /\ Idle(q)
  /\ request' = [request EXCEPT ![q] = [pc |-> "emit", list |-> sort]]
  /\ contested' = ~Alone(q)
  /\ UNCHANGED <<rows, sort, deleted, shown>>

\* Every dashboard shows the list; the request is answered.
Emit(q) ==
  /\ request[q].pc = "emit"
  /\ shown' = request[q].list
  /\ request' = [request EXCEPT ![q] = [pc |-> "idle", list |-> NoList]]
  /\ UNCHANGED <<rows, sort, deleted, contested>>

NextOrder ==
  \E q \in Requests : Commit(q) \/ Fetch(q) \/ FetchFails(q) \/ Search(q) \/ Emit(q)

OrderSpec == InitOrder /\ [][NextOrder]_orderVars

-----------------------------------------------------------------------------
(* Properties.                                                             *)

OrderTypeOK ==
  /\ rows \subseteq RoleIds /\ deleted \subseteq RoleIds \ rows
  /\ sort \in [RoleIds -> Nat] /\ \A r \in RoleIds : r \in rows <=> sort[r] # 0
  /\ shown \in [RoleIds -> Nat] /\ contested \in BOOLEAN
  /\ request \in [Requests -> [pc : {"idle", "fetch", "emit"}, list : [RoleIds -> Nat]]]

\* The shifts of create, delete and sort keep the places 1, 2, ..., without a
\* gap and without two roles at one place.
PlacesAreDense ==
  /\ \A r, x \in rows : sort[r] = sort[x] => r = x
  /\ \A r \in rows : \A k \in 1..sort[r] : \E x \in rows : sort[x] = k

\* No change moves two roles past each other unless it is the sort of one of
\* them: but for one role, every step keeps the order of those that stay.
\* (It follows from ImplementsList below.)
OneRoleMoves ==
  \E m \in RoleIds : \A r, x \in (rows \cap rows') \ {m} : sort[r] < sort[x] <=> sort'[r] < sort'[x]
OneRoleMovesAtATime == [][OneRoleMoves]_orderVars

\* A dashboard ends up with the list as it is, unless the last request to start
\* overlapped another (each broadcasts what it read, in any order) or its read of
\* the list failed after the change.
UncontestedListShown ==
  (\A q \in Requests : Idle(q)) /\ ~contested => shown = sort

\* The list that places stand for: as many roles as have one, in their order.
LastPlace(place) == Cardinality({r \in RoleIds : place[r] # 0})
ListOf(place) == [i \in 1..LastPlace(place) |-> CHOOSE r \in RoleIds : place[r] = i]

\* The rows and their places are a list: the shifts of a whole transaction insert,
\* move and take out one role of it, and what a dashboard shows is such a list.
RoleList == INSTANCE RoleList WITH
  list <- ListOf(sort), used <- rows \cup deleted,
  copies <- [q \in Requests |-> ListOf(request[q].list)],
  holders <- {q \in Requests : request[q].pc = "emit"}, screen <- ListOf(shown)
ImplementsList == RoleList!Spec
=============================================================================
