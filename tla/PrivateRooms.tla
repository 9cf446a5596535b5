---------------------------- MODULE PrivateRooms ----------------------------
(***************************************************************************)
(* Rooms of two users.  getRoomPrivate looks for the room of its caller    *)
(* and another user and creates it when there is none, createRoom refuses  *)
(* a pair that has one; nothing in the schema backs either.  deleteAccount *)
(* drops the private rooms of its caller and then the caller, in two       *)
(* statements, and the second one cascades to room_members.  A call of the *)
(* database is a step.  Left out: group rooms, messages, names.            *)
(***************************************************************************)
EXTENDS Integers, FiniteSets

CONSTANTS
  Users,
  Calls,    \* handlers; each runs once
  MaxRoom   \* bound: rooms created

Rooms == 1..MaxRoom   \* in the order of their creation

VARIABLES
  user,     \* accounts that exist
  live,     \* rooms that exist
  member,   \* per room, the users room_members has for it
  pair,     \* history: per room, the two it was created for
  looked,   \* history: per room, how many had been created when its creator looked
  dropped,  \* history: per user, how many had been created when its rooms were dropped
  made,     \* rooms created so far
  call      \* per handler, where it stands and what it holds

roomVars == <<live, member, pair, looked, dropped, made>>

Idle == [pc |-> "idle"]
Done == [pc |-> "done"]

InitRooms ==
  /\ live = {} /\ made = 0
  /\ member = [r \in Rooms |-> {}] /\ pair = [r \in Rooms |-> {}]
  /\ looked = [r \in Rooms |-> 0] /\ dropped = [u \in Users |-> 0]

Init ==
  /\ user = Users /\ call = [c \in Calls |-> Idle]
  /\ InitRooms

Answers(c, answer) == call' = [call EXCEPT ![c] = answer]

\* Both have a membership; which of several rooms is found, is up to the database.
RoomsOfBoth(u, v) == {r \in live : u \in member[r] /\ v \in member[r]}

\* Mutant: one membership is one of the two's.
RoomsTouching(u, v) == {r \in live : u \in member[r] \/ v \in member[r]}

\* Every membership is one of the two's; so it is when there is none.
RoomsWithin(u, v) == {r \in live : member[r] \subseteq {u, v}}

Looking(c, u, v) == Answers(c, [pc |-> "create", user |-> u, other |-> v, looked |-> made])

\* getRoomPrivate: the other may be anybody, also somebody who is gone.
GetRoomPrivate(c, u, v) ==
  /\ call[c].pc = "idle" /\ u \in user
  /\ IF RoomsOfBoth(u, v) = {} THEN Looking(c, u, v) ELSE Answers(c, Done)
  /\ UNCHANGED <<user, roomVars>>

\* Mutant: createRoom does not look.
CreateRoomBlindly(c, u, v) ==
  /\ call[c].pc = "idle" /\ u \in user /\ u # v
  /\ Looking(c, u, v)
  /\ UNCHANGED <<user, roomVars>>

\* createRoom for two: the transaction looks first.  RoomsWithin is not what
\* getRoomPrivate looks for.
CreateRoom(c, u, v) ==
  /\ call[c].pc = "idle" /\ u \in user /\ u # v
  /\ IF RoomsWithin(u, v) = {}
     THEN Looking(c, u, v)
     ELSE \E r \in RoomsWithin(u, v) :
            Answers(c, [pc |-> "refused", user |-> u, other |-> v, room |-> r])
  /\ UNCHANGED <<user, roomVars>>

\* Either creates the room with both members in one transaction, whatever has
\* been created since it looked.
Create(c) ==
  LET h == call[c] IN
  /\ h.pc = "create" /\ h.user # h.other /\ {h.user, h.other} \subseteq user
  /\ made < MaxRoom /\ made' = made + 1
  /\ live' = live \cup {made + 1}
  /\ member' = [member EXCEPT ![made + 1] = {h.user, h.other}]
  /\ pair' = [pair EXCEPT ![made + 1] = {h.user, h.other}]
  /\ looked' = [looked EXCEPT ![made + 1] = h.looked]
  /\ Answers(c, Done)
  /\ UNCHANGED <<user, dropped>>

\* Mutant: only the membership goes.
DropRoomsLeave(c, u) ==
  /\ call[c].pc = "idle" /\ u \in user
  /\ member' = [r \in Rooms |-> member[r] \ {u}]
  /\ dropped' = [dropped EXCEPT ![u] = made]
  /\ Answers(c, [pc |-> "dropped", user |-> u])
  /\ UNCHANGED <<user, live, pair, looked, made>>

\* deleteAccount: the private rooms of the caller,
DropRooms(c, u) ==
  /\ call[c].pc = "idle" /\ u \in user
  /\ live' = {r \in live : u \notin member[r]}
  /\ member' = [r \in Rooms |-> IF u \in member[r] THEN {} ELSE member[r]]
  /\ dropped' = [dropped EXCEPT ![u] = made]
  /\ Answers(c, [pc |-> "dropped", user |-> u])
  /\ UNCHANGED <<user, pair, looked, made>>

\* and then the caller, whose memberships go with it.
DeleteUser(c) ==
  LET u == call[c].user IN
  /\ call[c].pc = "dropped" /\ u \in user
  /\ user' = user \ {u}
  /\ member' = [r \in Rooms |-> member[r] \ {u}]
  /\ Answers(c, Done)
  /\ UNCHANGED <<live, pair, looked, dropped, made>>

\* The database refuses (a user is gone, a membership twice) or the process
\* stops: what was written before stays.
Throw(c) ==
  /\ call[c].pc \in {"create", "dropped"}
  /\ Answers(c, Done)
  /\ UNCHANGED <<user, roomVars>>

\* A handler that changes no account.
RoomStep(c) ==
  \/ \E u, v \in Users : GetRoomPrivate(c, u, v) \/ CreateRoom(c, u, v)
  \/ \E u \in Users : DropRooms(c, u)
  \/ Create(c) \/ Throw(c)

Next == \E c \in Calls : RoomStep(c) \/ DeleteUser(c)

Spec == Init /\ [][Next]_<<user, roomVars, call>>

-----------------------------------------------------------------------------
(* Properties.                                                             *)

\* Rooms have users that exist as members, of the pair they were created for.
RoomsTypeOK ==
  /\ user \subseteq Users /\ made \in 0..MaxRoom /\ live \subseteq 1..made
  /\ pair \in [Rooms -> SUBSET Users] /\ member \in [Rooms -> SUBSET Users]
  /\ \A r \in Rooms : member[r] \subseteq (pair[r] \cap user)
  /\ looked \in [Rooms -> 0..MaxRoom] /\ dropped \in [Users -> 0..MaxRoom]

\* Two users have one private room, unless the creator of the second looked
\* before the first was there: getRoomPrivate and createRoom, or either twice.
OnePrivateRoom ==
  \A r, s \in live : r < s /\ pair[r] = pair[s] => looked[s] < r

\* A private room loses a member only to a deleteAccount, and only if it was
\* created between its two statements; else it was dropped with the first.
LeftBehindWasCreatedBetween ==
  \A r \in live : \A u \in pair[r] \ member[r] : u \notin user /\ dropped[u] < r

\* createRoom refuses a pair for the room the two had, or for one left behind by
\* a deleteAccount: for the user left there, or for everybody if none is left.
RefusedForARoom ==
  \A c \in Calls : call[c].pc = "refused" =>
    LET r == call[c].room IN
    \/ pair[r] = {call[c].user, call[c].other}
    \/ \E u \in pair[r] : u \notin user /\ dropped[u] < r
=============================================================================
