----------------------------- MODULE AccountRows -----------------------------
(***************************************************************************)
(* What hangs from an account: the private rooms of all users and the      *)
(* roles of one, over one table of users and one set of handlers.  The     *)
(* second statement of deleteAccount is where they meet: it takes the      *)
(* memberships and the role rows at once, and has to wait for a            *)
(* changeRoles that is adding some.                                        *)
(***************************************************************************)
EXTENDS Integers, FiniteSets

CONSTANTS Users, Target, Roles, Calls, MaxRoom

ASSUME ParameterAssumption == Target \in Users /\ MaxRoom \in Nat

VARIABLES
  user, call,
  live, member, pair, looked, dropped, made,   \* PrivateRooms
  role, row, stamp, token                      \* UserRoles

roomVars == <<live, member, pair, looked, dropped, made>>
roleVars == <<role, row, stamp, token>>
vars == <<user, call, roomVars, roleVars>>

Private == INSTANCE PrivateRooms
Granted == INSTANCE UserRoles

Init == Private!Init /\ Granted!InitRoles

DeleteUser(c) == Private!DeleteUser(c) /\ Granted!LoseUser(call[c].user)

Next ==
  \/ \E c \in Calls : Private!RoomStep(c) /\ UNCHANGED roleVars
  \/ Granted!RoleStep /\ UNCHANGED roomVars
  \/ \E c \in Calls : DeleteUser(c)

Spec == Init /\ [][Next]_vars

-----------------------------------------------------------------------------
(* The properties of the parts, of the whole.                              *)

\* Both parts keep their types, and their rows refer to users that exist.
TypeOK == Private!RoomsTypeOK /\ Granted!RolesTypeOK

\* Two users have one private room, unless two creators looked before either
\* created.
OnePrivateRoom == Private!OnePrivateRoom

\* A private room loses a member only to a deleteAccount that it was created
\* in the middle of.
LeftBehindWasCreatedBetween == Private!LeftBehindWasCreatedBetween

\* createRoom refuses a pair for the room it had, or for one left behind.
RefusedForARoom == Private!RefusedForARoom

\* After an undisturbed changeRoles the user has the roles asked for.
UndisturbedRolesAreAsked == Granted!UndisturbedRolesAreAsked

\* A token whose stamp counts has the user's roles.
TokenHasRoles == Granted!TokenHasRoles
=============================================================================
