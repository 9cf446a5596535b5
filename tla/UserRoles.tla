------------------------------ MODULE UserRoles ------------------------------
(***************************************************************************)
(* The roles of one user.  changeRoles reads the rows, and then replaces   *)
(* them in a transaction, within which it also gives the user another      *)
(* security stamp; but that goes through this.prisma, so the stamp is      *)
(* committed before the rows are.  An access token carries the stamp and   *)
(* the roles of the moment it was issued, and counts until the stamp is    *)
(* replaced.  Each statement is a step; the transaction holds the rows it  *)
(* changed, and what these refer to, until it commits.  Left out: the      *)
(* sorted set of verified stamps (SecurityStamps), names.                  *)
(***************************************************************************)
EXTENDS Integers, FiniteSets

CONSTANTS
  Users,
  Target,   \* the user
  Roles,
  Calls     \* handlers; each runs once

VARIABLES
  user,     \* accounts that exist
  role,     \* roles that exist
  row,      \* user_roles of the target, as committed
  stamp,    \* users.security_stamp of the target
  token,    \* access tokens issued
  call      \* per handler, where it stands and what it holds

roleVars == <<role, row, stamp, token>>

Idle == [pc |-> "idle"]
Done == [pc |-> "done"]

InitRoles ==
  /\ role = Roles /\ row \in SUBSET Roles
  /\ stamp = 0 /\ token = {}

Init ==
  /\ user = Users /\ call = [c \in Calls |-> Idle]
  /\ InitRoles

Steps == {"read", "count", "deleted", "inserted", "stamped"}
Changing(c) == call[c].pc \in Steps
Open(c) == call[c].pc \in {"deleted", "inserted", "stamped"}   \* its transaction
Held(c) == IF Open(c) THEN call[c].gone \cup call[c].add ELSE {}
HeldByOthers(c) == UNION {Held(d) : d \in Calls \ {c}}

\* alone: history; nothing else that changes rows ran since the handler began.
Disturbed(h) == IF h.pc \in Steps \cup {"changed"} THEN [h EXCEPT !.alone = FALSE] ELSE h

\* changeRoles: the user and its rows.
ChangeRead(c, asked) ==
  /\ call[c].pc = "idle" /\ Target \in user
  /\ call' = [d \in Calls |->
                IF d = c THEN [pc |-> "read", asked |-> asked, read |-> row, gone |-> {}, add |-> {},
                               alone |-> \A e \in Calls : ~Changing(e)]
                         ELSE Disturbed(call[d])]
  /\ UNCHANGED <<user, roleVars>>

\* All that is asked for must be there.
ChangeCount(c) ==
  /\ call[c].pc = "read"
  /\ call' = [call EXCEPT ![c] = IF @.asked \subseteq role THEN [@ EXCEPT !.pc = "count"] ELSE Done]
  /\ UNCHANGED <<user, roleVars>>

\* The rows that are not asked for, whoever added them.
Deleted(h) == row \ h.asked

\* Mutant: the arguments of difference swapped.
AddedSwapped(h) == h.read \ h.asked

Added(h) == h.asked \ h.read

\* The transaction deletes; a row another one is deleting must be waited for.
ChangeDelete(c) ==
  /\ call[c].pc = "count" /\ Deleted(call[c]) \cap HeldByOthers(c) = {}
  /\ call' = [call EXCEPT ![c].pc = "deleted", ![c].gone = Deleted(call[c])]
  /\ UNCHANGED <<user, roleVars>>

\* It adds what was asked for and not read.  The row must not be there and is
\* waited for like above; user and role must.
ChangeInsert(c) ==
  LET add == Added(call[c]) IN
  /\ call[c].pc = "deleted"
  /\ add \cap row = {} /\ add \cap HeldByOthers(c) = {}
  /\ add \subseteq role /\ (add # {} => Target \in user)
  /\ call' = [call EXCEPT ![c].pc = "inserted", ![c].add = add]
  /\ UNCHANGED <<user, roleVars>>

\* Mutant: only for a role that is taken away.
ChangeStampOfLoss(c) ==
  /\ call[c].pc = "inserted" /\ Target \in user
  /\ stamp' = IF call[c].gone = {} THEN stamp ELSE stamp + 1
  /\ call' = [call EXCEPT ![c].pc = "stamped"]
  /\ UNCHANGED <<user, role, row, token>>

\* The new stamp, committed at once.
ChangeStamp(c) ==
  /\ call[c].pc = "inserted" /\ Target \in user
  /\ stamp' = stamp + 1
  /\ call' = [call EXCEPT ![c].pc = "stamped"]
  /\ UNCHANGED <<user, role, row, token>>

ChangeCommit(c) ==
  /\ call[c].pc = "stamped"
  /\ row' = (row \ call[c].gone) \cup call[c].add
  /\ call' = [call EXCEPT ![c].pc = "changed"]
  /\ UNCHANGED <<user, role, stamp, token>>

\* A row is there already, user or role is gone, two transactions wait for each
\* other, Redis fails, the transaction takes too long: no row is changed.
ChangeThrow(c) ==
  /\ Changing(c)
  /\ call' = [call EXCEPT ![c] = Done]
  /\ UNCHANGED <<user, roleVars>>

\* login, loginProvider, refreshToken: the user, and then its roles.
TokenRead(c) ==
  /\ call[c].pc = "idle" /\ Target \in user
  /\ call' = [call EXCEPT ![c] = [pc |-> "token", stamp |-> stamp]]
  /\ UNCHANGED <<user, roleVars>>

\* between: history; a changeRoles had written its stamp and not its rows.
GenerateAccessToken(c) ==
  /\ call[c].pc = "token"
  /\ token' = token \cup {[stamp |-> call[c].stamp, roles |-> row,
                           between |-> \E d \in Calls : call[d].pc = "stamped"]}
  /\ call' = [call EXCEPT ![c] = Done]
  /\ UNCHANGED <<user, role, row, stamp>>

\* RolesService.delete: nobody's stamp changes.
DeleteRole(r) ==
  /\ r \in role /\ \A c \in Calls : r \notin Held(c)
  /\ role' = role \ {r} /\ row' = row \ {r}
  /\ call' = [c \in Calls |-> Disturbed(call[c])]
  /\ UNCHANGED <<user, stamp, token>>

\* The user is deleted, and its rows with it.
LoseUser(u) ==
  /\ u = Target => \A c \in Calls : Held(c) = {}
  /\ user' = user \ {u} /\ row' = IF u = Target THEN {} ELSE row
  /\ UNCHANGED <<role, stamp, token>>

ChangeStep(c) ==
  \/ \E asked \in SUBSET Roles : ChangeRead(c, asked)
  \/ ChangeCount(c) \/ ChangeDelete(c) \/ ChangeInsert(c) \/ ChangeStamp(c) \/ ChangeCommit(c)
  \/ ChangeThrow(c)

RoleStep ==
  \/ \E c \in Calls : ChangeStep(c) \/ TokenRead(c) \/ GenerateAccessToken(c)
  \/ \E r \in Roles : DeleteRole(r)

Next == RoleStep \/ (\E u \in user : LoseUser(u) /\ UNCHANGED call)

Spec == Init /\ [][Next]_<<user, roleVars, call>>

-----------------------------------------------------------------------------
(* Properties.                                                             *)

\* Rows refer to roles and a user that exist; what a transaction is adding does.
RolesTypeOK ==
  /\ role \subseteq Roles /\ row \subseteq role /\ (row # {} => Target \in user)
  /\ stamp \in Nat /\ token \subseteq [stamp : 0..stamp, roles : SUBSET Roles, between : BOOLEAN]
  /\ \A c \in Calls : Open(c) /\ call[c].add # {} => call[c].add \subseteq role /\ Target \in user

\* After a changeRoles that nothing disturbed the user has the roles asked for.
UndisturbedRolesAreAsked ==
  \A c \in Calls : call[c].pc = "changed" /\ call[c].alone /\ Target \in user => row = call[c].asked

\* A token whose stamp still counts has the user's roles, and besides only roles
\* that were deleted, unless it was issued between the two writes of a changeRoles.
TokenHasRoles ==
  \A t \in token : t.stamp = stamp /\ ~t.between /\ Target \in user =>
    row \subseteq t.roles /\ (t.roles \ row) \cap role = {}
=============================================================================
