------------------------- MODULE AccountRows_proofs -------------------------
(***************************************************************************)
(* Proofs about AccountRows, and about RoleOrder, which orders its roles,  *)
(* for every value of their constants; at the end, that RoleOrder          *)
(* implements RoleList.                                                    *)
(***************************************************************************)
EXTENDS AccountRows, RoleOrder, SequenceTheorems, FiniteSetTheorems, TLAPS

USE ParameterAssumption DEF roomVars, roleVars, Private!roomVars, Granted!roleVars

-----------------------------------------------------------------------------
(* The inductive strengthening.                                            *)

ChangeStates ==
  [pc : Granted!Steps \cup {"changed"}, asked : SUBSET Roles, read : SUBSET Roles,
   gone : SUBSET Roles, add : SUBSET Roles, alone : BOOLEAN]

\* What a handler holds.
HandlerTyped(c) ==
  /\ call[c].pc \in Granted!Steps \cup {"changed"} => call[c] \in ChangeStates
  /\ call[c].pc \in {"read", "count", "deleted"} => call[c].add = {}
  /\ call[c].pc = "token" => call[c].stamp \in 0..stamp
  /\ call[c].pc = "create" =>
       call[c].looked \in 0..made /\ call[c].user \in Users /\ call[c].other \in Users
  /\ call[c].pc = "dropped" => call[c].user \in Users
  /\ call[c].pc = "refused" => call[c].room \in 1..made

HandlersTyped == call = [c \in Calls |-> call[c]] /\ \A c \in Calls : HandlerTyped(c)

\* A room is made for two, and nobody's rooms are dropped in the future.
RoomsArePairs ==
  /\ \A r \in live : \E u, v \in Users : u # v /\ pair[r] = {u, v}
  /\ \A u \in Users : dropped[u] <= made

\* A creator whose users both exist knows of no room of theirs.
CreatorsLooked ==
  \A c \in Calls : call[c].pc = "create" /\ {call[c].user, call[c].other} \subseteq user =>
    \A r \in live : pair[r] = {call[c].user, call[c].other} => call[c].looked < r

\* Whoever deletes an account has dropped its older rooms.
DroppersDropped ==
  \A c \in Calls : call[c].pc = "dropped" /\ call[c].user \in user =>
    \A r \in live : call[c].user \in member[r] => dropped[call[c].user] < r

RoomFacts ==
  /\ Private!RoomsTypeOK /\ RoomsArePairs /\ CreatorsLooked /\ DroppersDropped
  /\ Private!OnePrivateRoom /\ Private!LeftBehindWasCreatedBetween /\ Private!RefusedForARoom

\* A handler that is alone has the rows it read, and computes with them.
AloneHasRows(c) ==
  /\ \A d \in Calls \ {c} : ~Granted!Changing(d)
  /\ Target \in user =>
       /\ call[c].pc \in Granted!Steps => call[c].read = row
       /\ Granted!Open(c) => call[c].gone = row \ call[c].asked
       /\ call[c].pc \in {"inserted", "stamped"} => call[c].add = call[c].asked \ row
       /\ call[c].pc = "changed" => row = call[c].asked

AloneIsAlone ==
  \A c \in Calls : call[c].pc \in Granted!Steps \cup {"changed"} /\ call[c].alone => AloneHasRows(c)

\* While a changeRoles has written its stamp and not its rows, every token with
\* that stamp was issued in the meantime.
StampedMeansBetween ==
  (\E d \in Calls : call[d].pc = "stamped") => \A t \in token : t.stamp = stamp => t.between

RoleFacts ==
  /\ Granted!RolesTypeOK /\ AloneIsAlone /\ StampedMeansBetween
  /\ Granted!TokenHasRoles

RowsInv == HandlersTyped /\ RoomFacts /\ RoleFacts


-----------------------------------------------------------------------------
(* Handlers that do not concern the rooms, or the roles.                   *)

RoomStates == {"create", "dropped", "refused"}
RoleStates == Granted!Steps \cup {"changed"}

\* To disturb a handler is to tell it that it is not alone.
LEMMA DisturbedFacts ==
  ASSUME HandlersTyped, NEW d \in Calls
  PROVE  /\ Granted!Disturbed(call[d]).pc = call[d].pc
         /\ call[d].pc \notin RoleStates => Granted!Disturbed(call[d]) = call[d]
         /\ call[d].pc \in RoleStates =>
              /\ Granted!Disturbed(call[d]) \in ChangeStates
              /\ Granted!Disturbed(call[d]).add = call[d].add
              /\ ~Granted!Disturbed(call[d]).alone
<1>1. CASE call[d].pc \notin RoleStates
  BY <1>1 DEF Granted!Disturbed, RoleStates
<1>2. CASE call[d].pc \in RoleStates
  <2>1. call[d] \in ChangeStates
    BY <1>2 DEF HandlersTyped, HandlerTyped, RoleStates
  <2>2. Granted!Disturbed(call[d]) = [call[d] EXCEPT !.alone = FALSE]
    BY <1>2 DEF Granted!Disturbed, RoleStates
  <2> QED BY <1>2, <2>1, <2>2 DEF ChangeStates
<1> QED BY <1>1, <1>2

\* Only the states in RoomStates concern the rooms.
LEMMA RoomsAside ==
  ASSUME RoomFacts, UNCHANGED <<user, roomVars>>,
         \A d \in Calls : call'[d].pc \in RoomStates => call'[d] = call[d]
  PROVE  RoomFacts'
<1>1. Private!RoomsTypeOK' /\ RoomsArePairs' /\ Private!OnePrivateRoom'
      /\ Private!LeftBehindWasCreatedBetween'
  BY DEF RoomFacts, Private!RoomsTypeOK, RoomsArePairs, Private!OnePrivateRoom,
     Private!LeftBehindWasCreatedBetween
<1>2. CreatorsLooked' /\ DroppersDropped'
  BY DEF RoomFacts, CreatorsLooked, DroppersDropped, RoomStates
<1>3. Private!RefusedForARoom'
  BY DEF RoomFacts, Private!RefusedForARoom, RoomStates
<1> QED BY <1>1, <1>2, <1>3 DEF RoomFacts

\* A handler of the rooms keeps out of RoleStates.
LEMMA RolesAside ==
  ASSUME RoleFacts, UNCHANGED roleVars, user' \subseteq user, Target \in user => Target \in user',
         \A d \in Calls : call'[d].pc \in RoleStates => call'[d] = call[d]
  PROVE  RoleFacts'
<1>1. \A d \in Calls : Granted!Open(d)' => Granted!Open(d) /\ call'[d] = call[d]
  BY DEF Granted!Open, RoleStates, Granted!Steps
<1>2. \A d \in Calls : Granted!Changing(d)' => Granted!Changing(d) /\ call'[d] = call[d]
  BY DEF Granted!Changing, RoleStates
<1>3. Granted!RolesTypeOK'
  BY <1>1 DEF RoleFacts, Granted!RolesTypeOK
<1>4. AloneIsAlone'
  <2> SUFFICES ASSUME NEW c \in Calls, call'[c].pc \in RoleStates, call'[c].alone
               PROVE  AloneHasRows(c)'
    BY DEF AloneIsAlone, AloneHasRows, RoleStates
  <2>1. call'[c] = call[c]
    OBVIOUS
  <2> QED BY <1>1, <1>2, <2>1 DEF RoleFacts, AloneIsAlone, AloneHasRows, RoleStates
<1>5. StampedMeansBetween'
  BY DEF RoleFacts, StampedMeansBetween, RoleStates, Granted!Steps
<1>6. Granted!TokenHasRoles'
  BY DEF RoleFacts, Granted!TokenHasRoles
<1> QED BY <1>3, <1>4, <1>5, <1>6 DEF RoleFacts


-----------------------------------------------------------------------------
(* The rooms.                                                              *)

\* A handler goes on, the others do not.
LEMMA Goes ==
  ASSUME HandlersTyped, NEW c \in Calls, NEW a, call' = [call EXCEPT ![c] = a]
  PROVE  /\ call' = [d \in Calls |-> call'[d]]
         /\ call'[c] = a /\ \A d \in Calls \ {c} : call'[d] = call[d]
<1> QED BY DEF HandlersTyped, HandlerTyped

\* What a handler of the rooms comes to hold is of the right type.
LEMMA GoesTyped ==
  ASSUME HandlersTyped, NEW c \in Calls, NEW a, call' = [call EXCEPT ![c] = a],
         made \in Nat, made' \in Nat, made <= made', UNCHANGED stamp, a.pc \notin RoleStates \cup {"token"},
         a.pc = "create" => a.looked \in 0..made' /\ a.user \in Users /\ a.other \in Users,
         a.pc = "dropped" => a.user \in Users,
         a.pc = "refused" => a.room \in 1..made'
  PROVE  HandlersTyped'
<1>1. /\ call' = [d \in Calls |-> call'[d]]
      /\ call'[c] = a /\ \A d \in Calls \ {c} : call'[d] = call[d]
  BY Goes
<1>2. \A d \in Calls \ {c} :
        /\ call[d].pc = "create" => call[d].looked \in 0..made'
        /\ call[d].pc = "refused" => call[d].room \in 1..made'
  BY DEF HandlersTyped, HandlerTyped
<1>3. ASSUME NEW d \in Calls
      PROVE  HandlerTyped(d)'
  <2>1. CASE d = c
    BY <1>1, <2>1 DEF RoleStates, Granted!Steps, HandlerTyped
  <2>2. CASE d # c
    BY <1>1, <1>2, <2>2 DEF HandlersTyped, HandlerTyped
  <2> QED BY <2>1, <2>2
<1> QED BY <1>1, <1>3 DEF HandlersTyped, HandlerTyped, ChangeStates

\* While both exist nobody is missing from their rooms.
LEMMA PairsAreWhole ==
  ASSUME RoomFacts, NEW r \in live, pair[r] \subseteq user
  PROVE  member[r] = pair[r]
<1>1. live \subseteq Private!Rooms
  BY DEF RoomFacts, Private!RoomsTypeOK, Private!Rooms
<1> QED BY <1>1 DEF RoomFacts, Private!LeftBehindWasCreatedBetween, Private!RoomsTypeOK

\* A handler that looked and found none knows of no room of the two.
LEMMA LookingFinds ==
  ASSUME RoomFacts, HandlersTyped, NEW c \in Calls, NEW u \in Users, NEW v \in Users,
         Private!Looking(c, u, v), UNCHANGED <<user, roomVars, stamp>>,
         {u, v} \subseteq user => \A r \in live : pair[r] # {u, v}
  PROVE  HandlersTyped' /\ RoomFacts'
<1> DEFINE a == [pc |-> "create", user |-> u, other |-> v, looked |-> made]
<1>0. made \in Nat /\ a.pc = "create" /\ a.user = u /\ a.other = v /\ a.looked = made
  BY DEF RoomFacts, Private!RoomsTypeOK
<1>1. call' = [call EXCEPT ![c] = a]
  BY DEF Private!Looking, Private!Answers
<1> HIDE DEF a
<1>2. call'[c] = a /\ \A d \in Calls \ {c} : call'[d] = call[d]
  BY <1>1, Goes
<1>3. HandlersTyped'
  <2>1. a.pc \notin RoleStates \cup {"token"}
    BY <1>0 DEF RoleStates, Granted!Steps
  <2>2. made' = made /\ made <= made' /\ made \in 0..made
    BY <1>0
  <2>3. a.pc # "dropped" /\ a.pc # "refused"
    BY <1>0
  <2> QED BY <1>0, <1>1, <2>1, <2>2, <2>3, GoesTyped
<1>4. Private!RoomsTypeOK' /\ RoomsArePairs' /\ Private!OnePrivateRoom'
      /\ Private!LeftBehindWasCreatedBetween'
  BY DEF RoomFacts, Private!RoomsTypeOK, RoomsArePairs, Private!OnePrivateRoom,
     Private!LeftBehindWasCreatedBetween
<1>5. CreatorsLooked'
  <2> SUFFICES ASSUME NEW d \in Calls, call'[d].pc = "create", {call'[d].user, call'[d].other} \subseteq user,
                      NEW r \in live, pair[r] = {call'[d].user, call'[d].other}
               PROVE  call'[d].looked < r
    BY DEF CreatorsLooked
  <2>1. CASE d = c
    BY <1>0, <1>2, <2>1
  <2>2. CASE d # c
    BY <1>2, <2>2 DEF RoomFacts, CreatorsLooked
  <2> QED BY <2>1, <2>2
<1>6. DroppersDropped' /\ Private!RefusedForARoom'
  BY <1>0, <1>2 DEF RoomFacts, DroppersDropped, Private!RefusedForARoom
<1> QED BY <1>3, <1>4, <1>5, <1>6 DEF RoomFacts

\* A handler that ends leaves nothing behind.
LEMMA EndsSafely ==
  ASSUME RoomFacts, HandlersTyped, NEW c \in Calls, Private!Answers(c, Private!Done),
         UNCHANGED <<user, roomVars, stamp>>
  PROVE  HandlersTyped' /\ RoomFacts'
<1>1. call' = [call EXCEPT ![c] = Private!Done] /\ Private!Done.pc = "done" /\ made \in Nat
  BY DEF Private!Answers, Private!Done, RoomFacts, Private!RoomsTypeOK
<1>2. call'[c].pc = "done" /\ \A d \in Calls \ {c} : call'[d] = call[d]
  BY <1>1, Goes
<1>3. HandlersTyped'
  <2>1. Private!Done.pc \notin RoleStates \cup {"token"}
    BY <1>1 DEF RoleStates, Granted!Steps
  <2>2. made' = made /\ made <= made'
    BY <1>1
  <2>3. Private!Done.pc # "create" /\ Private!Done.pc # "dropped" /\ Private!Done.pc # "refused"
    BY <1>1
  <2> QED BY <1>1, <2>1, <2>2, <2>3, GoesTyped
<1>4. RoomFacts'
  BY <1>2, RoomsAside DEF RoomStates
<1> QED BY <1>3, <1>4

\* getRoomPrivate.
LEMMA GetRoomSafe ==
  ASSUME RoomFacts, HandlersTyped, UNCHANGED stamp,
         NEW c \in Calls, NEW u \in Users, NEW v \in Users, Private!GetRoomPrivate(c, u, v)
  PROVE  HandlersTyped' /\ RoomFacts'
<1>1. UNCHANGED <<user, roomVars>>
  BY DEF Private!GetRoomPrivate
<1>2. CASE Private!RoomsOfBoth(u, v) = {}
  <2>1. ASSUME {u, v} \subseteq user, NEW r \in live, pair[r] = {u, v} PROVE FALSE
    <3>1. member[r] = {u, v}
      BY <2>1, PairsAreWhole
    <3> QED BY <1>2, <3>1 DEF Private!RoomsOfBoth
  <2>2. Private!Looking(c, u, v)
    BY <1>2 DEF Private!GetRoomPrivate
  <2> QED BY <1>1, <2>1, <2>2, LookingFinds
<1>3. CASE Private!RoomsOfBoth(u, v) # {}
  BY <1>1, <1>3, EndsSafely DEF Private!GetRoomPrivate
<1> QED BY <1>2, <1>3

\* createRoom.
LEMMA CreateRoomSafe ==
  ASSUME RoomFacts, HandlersTyped, UNCHANGED stamp,
         NEW c \in Calls, NEW u \in Users, NEW v \in Users, Private!CreateRoom(c, u, v)
  PROVE  HandlersTyped' /\ RoomFacts'
<1>1. UNCHANGED <<user, roomVars>>
  BY DEF Private!CreateRoom
<1>2. CASE Private!RoomsWithin(u, v) = {}
  <2>1. ASSUME {u, v} \subseteq user, NEW r \in live, pair[r] = {u, v} PROVE FALSE
    <3>1. member[r] = {u, v}
      BY <2>1, PairsAreWhole
    <3> QED BY <1>2, <3>1 DEF Private!RoomsWithin
  <2>2. Private!Looking(c, u, v)
    BY <1>2 DEF Private!CreateRoom
  <2> QED BY <1>1, <2>1, <2>2, LookingFinds
<1>3. CASE Private!RoomsWithin(u, v) # {}
  <2>1. PICK r \in Private!RoomsWithin(u, v) :
          Private!Answers(c, [pc |-> "refused", user |-> u, other |-> v, room |-> r])
    BY <1>3 DEF Private!CreateRoom
  <2> DEFINE a == [pc |-> "refused", user |-> u, other |-> v, room |-> r]
  <2>2. a.pc = "refused" /\ a.user = u /\ a.other = v /\ a.room = r
    OBVIOUS
  <2>3. call' = [call EXCEPT ![c] = a]
    BY <2>1 DEF Private!Answers
  <2> HIDE DEF a
  <2>4. call'[c] = a /\ \A d \in Calls \ {c} : call'[d] = call[d]
    BY <2>3, Goes
  <2>5. r \in live /\ member[r] \subseteq {u, v} /\ r \in 1..made /\ made \in Nat
    BY DEF Private!RoomsWithin, RoomFacts, Private!RoomsTypeOK
  <2>6. HandlersTyped'
    <3>1. a.pc \notin RoleStates \cup {"token"}
      BY <2>2 DEF RoleStates, Granted!Steps
    <3>2. made' = made /\ made <= made'
      BY <1>1, <2>5
    <3>3. a.pc # "create" /\ a.pc # "dropped"
      BY <2>2
    <3> QED BY <2>2, <2>3, <2>5, <3>1, <3>2, <3>3, GoesTyped
  <2>7. \/ pair[r] = {u, v}
        \/ \E x \in pair[r] : x \notin user /\ dropped[x] < r
    <3>1. CASE pair[r] \subseteq member[r]
      BY <2>5, <3>1 DEF RoomFacts, RoomsArePairs
    <3>2. CASE ~(pair[r] \subseteq member[r])
      BY <2>5, <3>2 DEF RoomFacts, Private!LeftBehindWasCreatedBetween
    <3> QED BY <3>1, <3>2
  <2>8. Private!RefusedForARoom'
    <3> SUFFICES ASSUME NEW d \in Calls, call'[d].pc = "refused"
                 PROVE  \/ pair[call'[d].room] = {call'[d].user, call'[d].other}
                        \/ \E x \in pair[call'[d].room] : x \notin user /\ dropped[x] < call'[d].room
      BY <1>1 DEF Private!RefusedForARoom
    <3>1. CASE d = c
      BY <2>2, <2>4, <2>7, <3>1
    <3>2. CASE d # c
      BY <2>4, <3>2 DEF RoomFacts, Private!RefusedForARoom
    <3> QED BY <3>1, <3>2
  <2>9. CreatorsLooked' /\ DroppersDropped'
    BY <1>1, <2>2, <2>4 DEF RoomFacts, CreatorsLooked, DroppersDropped
  <2>10. Private!RoomsTypeOK' /\ RoomsArePairs' /\ Private!OnePrivateRoom'
         /\ Private!LeftBehindWasCreatedBetween'
    BY <1>1 DEF RoomFacts, Private!RoomsTypeOK, RoomsArePairs, Private!OnePrivateRoom,
       Private!LeftBehindWasCreatedBetween
  <2> QED BY <2>6, <2>8, <2>9, <2>10 DEF RoomFacts
<1> QED BY <1>2, <1>3


\* A room is created: nobody had one of this pair that the creator did not see.
LEMMA CreateSafe ==
  ASSUME RoomFacts, HandlersTyped, UNCHANGED stamp, NEW c \in Calls, Private!Create(c)
  PROVE  HandlersTyped' /\ RoomFacts'
<1> PICK s, u, v, k : s = made + 1 /\ u = call[c].user /\ v = call[c].other /\ k = call[c].looked
  OBVIOUS
<1>1. /\ call[c].pc = "create" /\ u # v /\ {u, v} \subseteq user
      /\ made < MaxRoom /\ made' = s /\ live' = live \cup {s}
      /\ member' = [member EXCEPT ![s] = {u, v}] /\ pair' = [pair EXCEPT ![s] = {u, v}]
      /\ looked' = [looked EXCEPT ![s] = k]
      /\ call' = [call EXCEPT ![c] = Private!Done] /\ UNCHANGED <<user, dropped>>
  BY DEF Private!Create, Private!Answers
<1>2. /\ made \in 0..MaxRoom /\ live \subseteq 1..made /\ user \subseteq Users
      /\ member \in [1..MaxRoom -> SUBSET Users] /\ pair \in [1..MaxRoom -> SUBSET Users]
      /\ looked \in [1..MaxRoom -> 0..MaxRoom] /\ dropped \in [Users -> 0..MaxRoom]
      /\ \A r \in 1..MaxRoom : member[r] \subseteq (pair[r] \cap user)
  BY DEF RoomFacts, Private!RoomsTypeOK, Private!Rooms
<1>3. k \in 0..made /\ u \in Users /\ v \in Users
  BY <1>1 DEF HandlersTyped, HandlerTyped
<1>4. s \in 1..MaxRoom /\ \A r \in live : r # s /\ r < s /\ r \in 1..MaxRoom /\ r \in 1..made
  <2>1. made \in Nat /\ made < MaxRoom /\ live \subseteq 1..made
    BY <1>1, <1>2
  <2>2. s \in 1..MaxRoom
    BY <2>1
  <2>3. ASSUME NEW r \in 1..made PROVE r # s /\ r < s /\ r \in 1..MaxRoom
    BY <2>1, <2>3
  <2> QED BY <2>1, <2>2, <2>3
<1>5. /\ member'[s] = {u, v} /\ pair'[s] = {u, v} /\ looked'[s] = k
      /\ \A r \in live : member'[r] = member[r] /\ pair'[r] = pair[r] /\ looked'[r] = looked[r]
  BY <1>1, <1>2, <1>4
<1>6. Private!Done.pc = "done" /\ call'[c].pc = "done" /\ \A d \in Calls \ {c} : call'[d] = call[d]
  BY <1>1, Goes DEF Private!Done
<1>7. HandlersTyped'
  <2>1. Private!Done.pc \notin RoleStates \cup {"token"}
    BY <1>6 DEF RoleStates, Granted!Steps
  <2>2. made \in Nat /\ made' \in Nat /\ made <= made'
    BY <1>1, <1>2
  <2>3. Private!Done.pc # "create" /\ Private!Done.pc # "dropped" /\ Private!Done.pc # "refused"
    BY <1>6
  <2> QED BY <1>1, <2>1, <2>2, <2>3, GoesTyped
<1>8. Private!RoomsTypeOK'
  <2>1. user' \subseteq Users /\ made' \in 0..MaxRoom /\ live' \subseteq 1..made'
    BY <1>1, <1>2
  <2>2. /\ member' \in [1..MaxRoom -> SUBSET Users] /\ pair' \in [1..MaxRoom -> SUBSET Users]
        /\ looked' \in [1..MaxRoom -> 0..MaxRoom] /\ dropped' \in [Users -> 0..MaxRoom]
    BY <1>1, <1>2, <1>3
  <2>3. \A r \in 1..MaxRoom : member'[r] \subseteq (pair'[r] \cap user')
    BY <1>1, <1>2, <1>4, <1>5
  <2> QED BY <2>1, <2>2, <2>3 DEF Private!RoomsTypeOK, Private!Rooms
<1>9. RoomsArePairs'
  <2>1. \A r \in live : \E x, y \in Users : x # y /\ pair[r] = {x, y}
    BY DEF RoomFacts, RoomsArePairs
  <2>2. \A x \in Users : dropped'[x] <= made'
    BY <1>1, <1>2 DEF RoomFacts, RoomsArePairs
  <2> QED BY <1>1, <1>3, <1>5, <2>1, <2>2 DEF RoomsArePairs
<1>10. Private!OnePrivateRoom'
  <2> SUFFICES ASSUME NEW r \in live', NEW q \in live', r < q, pair'[r] = pair'[q]
               PROVE  looked'[q] < r
    BY DEF Private!OnePrivateRoom
  <2>1. CASE q = s
    <3>1. r \in live /\ pair[r] = {u, v}
      BY <1>1, <1>4, <1>5, <2>1
    <3> QED BY <1>1, <1>5, <2>1, <3>1 DEF RoomFacts, CreatorsLooked
  <2>2. CASE q # s
    <3>1. q \in live /\ r \in live
      BY <1>1, <1>2, <1>4, <2>2
    <3> QED BY <1>5, <3>1 DEF RoomFacts, Private!OnePrivateRoom
  <2> QED BY <2>1, <2>2
<1>11. Private!LeftBehindWasCreatedBetween'
  BY <1>1, <1>5 DEF RoomFacts, Private!LeftBehindWasCreatedBetween
<1>12. Private!RefusedForARoom'
  <2> SUFFICES ASSUME NEW d \in Calls, call'[d].pc = "refused"
               PROVE  \/ pair'[call'[d].room] = {call'[d].user, call'[d].other}
                      \/ \E x \in pair'[call'[d].room] : x \notin user /\ dropped[x] < call'[d].room
    BY <1>1 DEF Private!RefusedForARoom
  <2>1. d # c /\ call'[d] = call[d] /\ call[d].room \in 1..made
    BY <1>6 DEF HandlersTyped, HandlerTyped
  <2>2. call[d].room \in 1..MaxRoom /\ call[d].room # s
    BY <1>1, <1>2, <2>1
  <2>3. pair'[call[d].room] = pair[call[d].room]
    BY <1>1, <1>2, <2>2
  <2> QED BY <2>1, <2>3 DEF RoomFacts, Private!RefusedForARoom
<1>13. CreatorsLooked'
  <2> SUFFICES ASSUME NEW d \in Calls, call'[d].pc = "create", {call'[d].user, call'[d].other} \subseteq user,
                      NEW r \in live', pair'[r] = {call'[d].user, call'[d].other}
               PROVE  call'[d].looked < r
    BY <1>1 DEF CreatorsLooked
  <2>1. call'[d] = call[d] /\ call[d].looked \in 0..made
    BY <1>6 DEF HandlersTyped, HandlerTyped
  <2>2. CASE r = s
    BY <1>2, <2>1, <2>2
  <2>3. CASE r # s
    BY <1>1, <1>5, <2>1, <2>3 DEF RoomFacts, CreatorsLooked
  <2> QED BY <2>2, <2>3
<1>14. DroppersDropped'
  <2> SUFFICES ASSUME NEW d \in Calls, call'[d].pc = "dropped", call'[d].user \in user,
                      NEW r \in live', call'[d].user \in member'[r]
               PROVE  dropped[call'[d].user] < r
    BY <1>1 DEF DroppersDropped
  <2>1. call'[d] = call[d]
    BY <1>6
  <2>2. CASE r = s
    <3>1. dropped[call[d].user] \in 0..MaxRoom /\ dropped[call[d].user] <= made
      BY <1>2, <2>1 DEF RoomFacts, RoomsArePairs
    <3> QED BY <1>2, <2>1, <2>2, <3>1
  <2>3. CASE r # s
    BY <1>1, <1>5, <2>1, <2>3 DEF RoomFacts, DroppersDropped
  <2> QED BY <2>2, <2>3
<1> QED BY <1>7, <1>8, <1>9, <1>10, <1>11, <1>12, <1>13, <1>14 DEF RoomFacts

\* The rooms of a user are dropped, the older ones all.
LEMMA DropSafe ==
  ASSUME RoomFacts, HandlersTyped, UNCHANGED stamp,
         NEW c \in Calls, NEW u \in Users, Private!DropRooms(c, u)
  PROVE  HandlersTyped' /\ RoomFacts'
<1> DEFINE a == [pc |-> "dropped", user |-> u]
<1>1. /\ u \in user /\ live' = {r \in live : u \notin member[r]}
      /\ member' = [r \in 1..MaxRoom |-> IF u \in member[r] THEN {} ELSE member[r]]
      /\ dropped' = [dropped EXCEPT ![u] = made]
      /\ call' = [call EXCEPT ![c] = a] /\ UNCHANGED <<user, pair, looked, made>>
  BY DEF Private!DropRooms, Private!Answers, Private!Rooms
<1>2. a.pc = "dropped" /\ a.user = u
  OBVIOUS
<1> HIDE DEF a
<1>3. /\ made \in 0..MaxRoom /\ live \subseteq 1..made /\ user \subseteq Users
      /\ member \in [1..MaxRoom -> SUBSET Users] /\ dropped \in [Users -> 0..MaxRoom]
      /\ \A r \in 1..MaxRoom : member[r] \subseteq (pair[r] \cap user)
  BY DEF RoomFacts, Private!RoomsTypeOK, Private!Rooms
<1>4. call'[c] = a /\ \A d \in Calls \ {c} : call'[d] = call[d]
  BY <1>1, Goes
<1>5. /\ dropped'[u] = made /\ \A x \in Users \ {u} : dropped'[x] = dropped[x]
      /\ \A r \in live' : r \in live /\ r \in 1..MaxRoom /\ member'[r] = member[r] /\ u \notin member[r]
  BY <1>1, <1>3
<1>6. HandlersTyped'
  <2>1. a.pc \notin RoleStates \cup {"token"}
    BY <1>2 DEF RoleStates, Granted!Steps
  <2>2. made \in Nat /\ made' = made /\ made <= made'
    BY <1>1, <1>3
  <2>3. a.pc # "create" /\ a.pc # "refused"
    BY <1>2
  <2> QED BY <1>1, <1>2, <2>1, <2>2, <2>3, GoesTyped
<1>7. Private!RoomsTypeOK'
  <2>1. \A r \in 1..MaxRoom : member'[r] \subseteq (pair'[r] \cap user')
    BY <1>1, <1>3
  <2>2. live' \subseteq 1..made' /\ member' \in [1..MaxRoom -> SUBSET Users]
        /\ dropped' \in [Users -> 0..MaxRoom]
    BY <1>1, <1>3
  <2> QED BY <1>1, <2>1, <2>2 DEF RoomFacts, Private!RoomsTypeOK, Private!Rooms
<1>8. RoomsArePairs'
  <2>1. \A x \in Users : dropped'[x] <= made'
    BY <1>1, <1>3, <1>5 DEF RoomFacts, RoomsArePairs
  <2> QED BY <1>1, <1>5, <2>1 DEF RoomFacts, RoomsArePairs
<1>9. Private!OnePrivateRoom'
  BY <1>1, <1>5 DEF RoomFacts, Private!OnePrivateRoom
<1>10. \A x \in Users : x \notin user => dropped'[x] = dropped[x]
  BY <1>1, <1>5
<1>11. Private!LeftBehindWasCreatedBetween'
  <2> SUFFICES ASSUME NEW r \in live', NEW x \in pair[r] \ member[r]
               PROVE  x \notin user /\ dropped'[x] < r
    BY <1>1, <1>5 DEF Private!LeftBehindWasCreatedBetween
  <2>1. x \notin user /\ dropped[x] < r
    BY <1>5 DEF RoomFacts, Private!LeftBehindWasCreatedBetween
  <2>2. x \in Users
    BY <1>5 DEF RoomFacts, RoomsArePairs
  <2> QED BY <1>10, <2>1, <2>2
<1>12. Private!RefusedForARoom'
  <2> SUFFICES ASSUME NEW d \in Calls, call'[d].pc = "refused"
               PROVE  \/ pair[call'[d].room] = {call'[d].user, call'[d].other}
                      \/ \E x \in pair[call'[d].room] : x \notin user /\ dropped'[x] < call'[d].room
    BY <1>1 DEF Private!RefusedForARoom
  <2>1. d # c /\ call'[d] = call[d] /\ call[d].room \in 1..made
    BY <1>2, <1>4 DEF HandlersTyped, HandlerTyped
  <2>2. pair[call[d].room] \subseteq Users
    BY <1>3, <2>1 DEF RoomFacts, Private!RoomsTypeOK, Private!Rooms
  <2> QED BY <1>10, <2>1, <2>2 DEF RoomFacts, Private!RefusedForARoom
<1>13. CreatorsLooked'
  BY <1>1, <1>2, <1>4, <1>5 DEF RoomFacts, CreatorsLooked
<1>14. DroppersDropped'
  <2> SUFFICES ASSUME NEW d \in Calls, call'[d].pc = "dropped", call'[d].user \in user,
                      NEW r \in live', call'[d].user \in member[r]
               PROVE  dropped'[call'[d].user] < r
    BY <1>1, <1>5 DEF DroppersDropped
  <2>1. call'[d].user # u
    BY <1>5
  <2>2. d # c /\ call'[d] = call[d] /\ call[d].user \in Users
    BY <1>2, <1>4, <2>1 DEF HandlersTyped, HandlerTyped
  <2> QED BY <1>5, <2>1, <2>2 DEF RoomFacts, DroppersDropped
<1> QED BY <1>6, <1>7, <1>8, <1>9, <1>11, <1>12, <1>13, <1>14 DEF RoomFacts

\* A user goes, with its memberships: its rooms left were created after the drop.
LEMMA DeleteUserSafe ==
  ASSUME RoomFacts, HandlersTyped, UNCHANGED stamp, NEW c \in Calls, Private!DeleteUser(c)
  PROVE  HandlersTyped' /\ RoomFacts'
<1> PICK u : u = call[c].user
  OBVIOUS
<1>1. /\ call[c].pc = "dropped" /\ u \in user /\ user' = user \ {u}
      /\ member' = [r \in 1..MaxRoom |-> member[r] \ {u}]
      /\ call' = [call EXCEPT ![c] = Private!Done] /\ UNCHANGED <<live, pair, looked, dropped, made>>
  BY DEF Private!DeleteUser, Private!Answers, Private!Rooms
<1>2. /\ made \in 0..MaxRoom /\ live \subseteq 1..made /\ user \subseteq Users
      /\ member \in [1..MaxRoom -> SUBSET Users] /\ dropped \in [Users -> 0..MaxRoom]
      /\ \A r \in 1..MaxRoom : member[r] \subseteq (pair[r] \cap user)
  BY DEF RoomFacts, Private!RoomsTypeOK, Private!Rooms
<1>3. Private!Done.pc = "done" /\ call'[c].pc = "done" /\ \A d \in Calls \ {c} : call'[d] = call[d]
  BY <1>1, Goes DEF Private!Done
<1>4. \A r \in live : r \in 1..MaxRoom /\ member'[r] = member[r] \ {u}
  <2>1. \A r \in live : r \in 1..MaxRoom
    BY <1>2
  <2> QED BY <1>1, <2>1
<1>5. HandlersTyped'
  <2>1. Private!Done.pc \notin RoleStates \cup {"token"}
    BY <1>3 DEF RoleStates, Granted!Steps
  <2>2. made \in Nat /\ made' = made /\ made <= made'
    BY <1>1, <1>2
  <2>3. Private!Done.pc # "create" /\ Private!Done.pc # "dropped" /\ Private!Done.pc # "refused"
    BY <1>3
  <2> QED BY <1>1, <2>1, <2>2, <2>3, GoesTyped
<1>6. Private!RoomsTypeOK'
  <2>1. \A r \in 1..MaxRoom : member'[r] \subseteq (pair'[r] \cap user')
    BY <1>1, <1>2
  <2>2. member' \in [1..MaxRoom -> SUBSET Users] /\ user' \subseteq Users
    BY <1>1, <1>2
  <2> QED BY <1>1, <2>1, <2>2 DEF RoomFacts, Private!RoomsTypeOK, Private!Rooms
<1>7. RoomsArePairs' /\ Private!OnePrivateRoom'
  BY <1>1 DEF RoomFacts, RoomsArePairs, Private!OnePrivateRoom
<1>8. Private!LeftBehindWasCreatedBetween'
  <2> SUFFICES ASSUME NEW r \in live, NEW x \in pair[r] \ member'[r]
               PROVE  x \notin user' /\ dropped[x] < r
    BY <1>1 DEF Private!LeftBehindWasCreatedBetween
  <2>1. CASE x \in member[r]
    <3>1. x = u
      BY <1>4, <2>1
    <3> QED BY <1>1, <2>1, <3>1 DEF RoomFacts, DroppersDropped
  <2>2. CASE x \notin member[r]
    BY <1>1, <2>2 DEF RoomFacts, Private!LeftBehindWasCreatedBetween
  <2> QED BY <2>1, <2>2
<1>9. Private!RefusedForARoom'
  <2> SUFFICES ASSUME NEW d \in Calls, call'[d].pc = "refused"
               PROVE  \/ pair[call'[d].room] = {call'[d].user, call'[d].other}
                      \/ \E x \in pair[call'[d].room] : x \notin user' /\ dropped[x] < call'[d].room
    BY <1>1 DEF Private!RefusedForARoom
  <2>1. d # c /\ call'[d] = call[d]
    BY <1>3
  <2> QED BY <1>1, <2>1 DEF RoomFacts, Private!RefusedForARoom
<1>10. CreatorsLooked'
  <2> SUFFICES ASSUME NEW d \in Calls, call'[d].pc = "create", {call'[d].user, call'[d].other} \subseteq user',
                      NEW r \in live, pair[r] = {call'[d].user, call'[d].other}
               PROVE  call'[d].looked < r
    BY <1>1 DEF CreatorsLooked
  <2> QED BY <1>1, <1>3 DEF RoomFacts, CreatorsLooked
<1>11. DroppersDropped'
  <2> SUFFICES ASSUME NEW d \in Calls, call'[d].pc = "dropped", call'[d].user \in user',
                      NEW r \in live, call'[d].user \in member'[r]
               PROVE  dropped[call'[d].user] < r
    BY <1>1 DEF DroppersDropped
  <2> QED BY <1>1, <1>3, <1>4 DEF RoomFacts, DroppersDropped
<1> QED BY <1>5, <1>6, <1>7, <1>8, <1>9, <1>10, <1>11 DEF RoomFacts


-----------------------------------------------------------------------------
(* The roles.                                                              *)

\* A handler goes on within changeRoles, and rows, users and roles stay.
LEMMA ChangeGoes ==
  ASSUME HandlersTyped, RoleFacts, NEW c \in Calls, NEW h, call' = [call EXCEPT ![c] = h],
         UNCHANGED <<user, role, row, made>>, stamp \in Nat, stamp' \in Nat, stamp <= stamp',
         Granted!Changing(c), h \in ChangeStates, h.pc \in Granted!Steps, h.alone = call[c].alone,
         h.pc \in {"read", "count", "deleted"} => h.add = {},
         h.pc \in {"inserted", "stamped"} /\ h.add # {} => h.add \subseteq role /\ Target \in user,
         call[c].alone /\ Target \in user =>
           /\ h.read = row
           /\ h.pc \in {"deleted", "inserted", "stamped"} => h.gone = row \ h.asked
           /\ h.pc \in {"inserted", "stamped"} => h.add = h.asked \ row
  PROVE  /\ HandlersTyped' /\ AloneIsAlone'
         /\ \A d \in Calls : Granted!Open(d)' /\ call'[d].add # {} => call'[d].add \subseteq role /\ Target \in user
<1>1. /\ call' = [d \in Calls |-> call'[d]]
      /\ call'[c] = h /\ \A d \in Calls \ {c} : call'[d] = call[d]
  BY Goes
<1>2. HandlersTyped'
  <2>1. \A d \in Calls : call'[d].pc = "token" => call'[d].stamp \in 0..stamp'
    BY <1>1 DEF HandlersTyped, HandlerTyped, Granted!Steps
  <2>2. ASSUME NEW d \in Calls
        PROVE  HandlerTyped(d)'
    <3>1. CASE d = c
      BY <1>1, <3>1 DEF Granted!Steps, HandlerTyped
    <3>2. CASE d # c
      BY <1>1, <3>2 DEF HandlersTyped, HandlerTyped
    <3> QED BY <3>1, <3>2
  <2> QED BY <1>1, <2>1, <2>2 DEF HandlersTyped, HandlerTyped, ChangeStates
<1>3. AloneIsAlone'
  <2> SUFFICES ASSUME NEW e \in Calls, call'[e].pc \in RoleStates, call'[e].alone
               PROVE  AloneHasRows(e)'
    BY DEF AloneIsAlone, AloneHasRows, RoleStates
  <2>1. CASE e = c
    <3>1. call[c].alone /\ call[c].pc \in RoleStates
      BY <1>1, <2>1 DEF Granted!Changing, RoleStates
    <3>2. \A d \in Calls \ {c} : ~Granted!Changing(d)
      BY <3>1 DEF RoleFacts, AloneIsAlone, AloneHasRows, RoleStates
    <3>3. \A d \in Calls \ {e} : ~Granted!Changing(d)'
      BY <1>1, <2>1, <3>2 DEF Granted!Changing
    <3>4. Granted!Open(e)' <=> h.pc \in {"deleted", "inserted", "stamped"}
      BY <1>1, <2>1 DEF Granted!Open
    <3>5. h.pc # "changed"
      BY DEF Granted!Steps
    <3> QED BY <1>1, <2>1, <3>1, <3>3, <3>4, <3>5 DEF AloneHasRows
  <2>2. CASE e # c
    BY <1>1, <2>2 DEF RoleFacts, AloneIsAlone, AloneHasRows, RoleStates
  <2> QED BY <2>1, <2>2
<1>4. ASSUME NEW d \in Calls, Granted!Open(d)', call'[d].add # {}
      PROVE  call'[d].add \subseteq role /\ Target \in user
  <2>1. CASE d = c
    BY <1>1, <1>4, <2>1 DEF Granted!Open
  <2>2. CASE d # c
    BY <1>1, <1>4, <2>2 DEF Granted!Open, RoleFacts, Granted!RolesTypeOK
  <2> QED BY <2>1, <2>2
<1> QED BY <1>2, <1>3, <1>4


\* What a step of the roles has to keep.
RolesKept ==
  /\ HandlersTyped' /\ RoleFacts'
  /\ \A d \in Calls : call'[d].pc \in RoomStates => call'[d] = call[d]

\* Steps of changeRoles before it writes its stamp.
LEMMA ChangeQuietly ==
  ASSUME HandlersTyped, RoleFacts, NEW c \in Calls, NEW h, call' = [call EXCEPT ![c] = h],
         UNCHANGED <<user, roleVars, made>>,
         Granted!Changing(c), h \in ChangeStates, h.pc \in {"count", "deleted", "inserted"},
         h.alone = call[c].alone,
         h.pc \in {"count", "deleted"} => h.add = {},
         h.pc = "inserted" /\ h.add # {} => h.add \subseteq role /\ Target \in user,
         call[c].alone /\ Target \in user =>
           /\ h.read = row
           /\ h.pc \in {"deleted", "inserted"} => h.gone = row \ h.asked
           /\ h.pc = "inserted" => h.add = h.asked \ row
  PROVE  RolesKept
<1>1. call'[c] = h /\ \A d \in Calls \ {c} : call'[d] = call[d]
  BY Goes
<1>2. h.pc \in Granted!Steps /\ h.pc # "stamped" /\ h.pc \notin RoomStates
  BY DEF Granted!Steps, RoomStates
<1>3. stamp \in Nat /\ stamp' = stamp /\ stamp <= stamp'
  BY DEF RoleFacts, Granted!RolesTypeOK
<1>4. /\ HandlersTyped' /\ AloneIsAlone'
      /\ \A d \in Calls : Granted!Open(d)' /\ call'[d].add # {} => call'[d].add \subseteq role /\ Target \in user
  BY <1>2, <1>3, ChangeGoes
<1>5. Granted!RolesTypeOK' /\ Granted!TokenHasRoles'
  BY <1>4 DEF RoleFacts, Granted!RolesTypeOK, Granted!TokenHasRoles
<1>6. StampedMeansBetween'
  BY <1>1, <1>2 DEF RoleFacts, StampedMeansBetween
<1> QED BY <1>1, <1>2, <1>4, <1>5, <1>6 DEF RolesKept, RoleFacts

\* A handler of the roles ends.
LEMMA RoleEnds ==
  ASSUME HandlersTyped, RoleFacts, NEW c \in Calls, call' = [call EXCEPT ![c] = Granted!Done],
         UNCHANGED <<user, roleVars, made>>, made \in Nat
  PROVE  RolesKept
<1>1. Granted!Done.pc = "done" /\ call'[c].pc = "done" /\ \A d \in Calls \ {c} : call'[d] = call[d]
  BY Goes DEF Granted!Done
<1>2. Granted!Done.pc \notin RoleStates \cup {"token"} /\ Granted!Done.pc \notin RoomStates
  BY <1>1 DEF RoleStates, RoomStates, Granted!Steps
<1>3. HandlersTyped'
  <2>1. made' = made /\ made <= made'
    OBVIOUS
  <2>2. Granted!Done.pc # "create" /\ Granted!Done.pc # "dropped" /\ Granted!Done.pc # "refused"
    BY <1>1
  <2> QED BY <1>2, <2>1, <2>2, GoesTyped
<1>4. \A d \in Calls : call'[d].pc \in RoleStates \cup RoomStates => call'[d] = call[d]
  BY <1>1, <1>2
<1>5. RoleFacts'
  BY <1>4, RolesAside
<1> QED BY <1>3, <1>4, <1>5 DEF RolesKept

\* The state of a changeRoles under way.
LEMMA ChangeState ==
  ASSUME HandlersTyped, NEW c \in Calls, Granted!Changing(c)
  PROVE  call[c] \in ChangeStates /\ call[c].pc \in RoleStates
<1> QED BY DEF HandlersTyped, HandlerTyped, Granted!Changing, RoleStates

\* changeRoles finds all roles it was asked for, or throws.
LEMMA CountSafe ==
  ASSUME HandlersTyped, RoleFacts, UNCHANGED made, made \in Nat, NEW c \in Calls, Granted!ChangeCount(c)
  PROVE  RolesKept
<1>1. call[c].pc = "read" /\ UNCHANGED <<user, roleVars>>
  BY DEF Granted!ChangeCount
<1>2. Granted!Changing(c)
  BY <1>1 DEF Granted!Changing, Granted!Steps
<1>3. call[c] \in ChangeStates
  BY <1>2, ChangeState
<1>4. CASE call[c].asked \subseteq role
  <2> PICK h : h = [call[c] EXCEPT !.pc = "count"]
    OBVIOUS
  <2>1. call' = [call EXCEPT ![c] = h]
    BY <1>4 DEF Granted!ChangeCount
  <2>2. /\ h \in ChangeStates /\ h.pc = "count" /\ h.alone = call[c].alone /\ h.read = call[c].read
        /\ h.add = {}
    BY <1>1, <1>3 DEF ChangeStates, Granted!Steps, HandlersTyped, HandlerTyped
  <2>3. call[c].alone /\ Target \in user => call[c].read = row
    BY <1>1 DEF RoleFacts, AloneIsAlone, AloneHasRows, Granted!Steps
  <2> QED BY <1>1, <1>2, <2>1, <2>2, <2>3, ChangeQuietly
<1>5. CASE ~(call[c].asked \subseteq role)
  BY <1>1, <1>5, RoleEnds DEF Granted!ChangeCount
<1> QED BY <1>4, <1>5

\* The transaction deletes the rows that were not asked for.
LEMMA DeleteSafe ==
  ASSUME HandlersTyped, RoleFacts, UNCHANGED made, NEW c \in Calls, Granted!ChangeDelete(c)
  PROVE  RolesKept
<1>1. call[c].pc = "count" /\ UNCHANGED <<user, roleVars>>
  BY DEF Granted!ChangeDelete
<1>2. Granted!Changing(c)
  BY <1>1 DEF Granted!Changing, Granted!Steps
<1>3. call[c] \in ChangeStates /\ row \subseteq role /\ role \subseteq Roles
  BY <1>2, ChangeState DEF RoleFacts, Granted!RolesTypeOK
<1> PICK h : h = [call[c] EXCEPT !.pc = "deleted", !.gone = row \ call[c].asked]
  OBVIOUS
<1>4. call' = [call EXCEPT ![c] = h]
  BY DEF Granted!ChangeDelete, Granted!Deleted, HandlersTyped, HandlerTyped
<1>5. /\ h \in ChangeStates /\ h.pc = "deleted" /\ h.alone = call[c].alone /\ h.read = call[c].read
      /\ h.gone = row \ h.asked /\ h.add = {}
  BY <1>1, <1>3 DEF ChangeStates, Granted!Steps, HandlersTyped, HandlerTyped
<1>6. call[c].alone /\ Target \in user => call[c].read = row
  BY <1>1 DEF RoleFacts, AloneIsAlone, AloneHasRows, Granted!Steps
<1> QED BY <1>1, <1>2, <1>4, <1>5, <1>6, ChangeQuietly


\* It adds those it did not read.
LEMMA InsertSafe ==
  ASSUME HandlersTyped, RoleFacts, UNCHANGED made, NEW c \in Calls, Granted!ChangeInsert(c)
  PROVE  RolesKept
<1>1. call[c].pc = "deleted" /\ UNCHANGED <<user, roleVars>>
  BY DEF Granted!ChangeInsert
<1>2. Granted!Changing(c) /\ Granted!Open(c)
  BY <1>1 DEF Granted!Changing, Granted!Open, Granted!Steps
<1>3. call[c] \in ChangeStates
  BY <1>2, ChangeState
<1> PICK h, add : add = call[c].asked \ call[c].read /\ h = [call[c] EXCEPT !.pc = "inserted", !.add = add]
  OBVIOUS
<1>4. call' = [call EXCEPT ![c] = h] /\ add \subseteq role /\ (add # {} => Target \in user)
  BY DEF Granted!ChangeInsert, Granted!Added, HandlersTyped, HandlerTyped
<1>5. /\ h \in ChangeStates /\ h.pc = "inserted" /\ h.alone = call[c].alone /\ h.read = call[c].read
      /\ h.gone = call[c].gone /\ h.asked = call[c].asked /\ h.add = add
  BY <1>3 DEF ChangeStates, Granted!Steps
<1>6. call[c].alone /\ Target \in user => call[c].read = row /\ call[c].gone = row \ call[c].asked
  BY <1>1, <1>2 DEF RoleFacts, AloneIsAlone, AloneHasRows, Granted!Steps
<1> QED BY <1>1, <1>2, <1>4, <1>5, <1>6, ChangeQuietly

\* The new stamp: no token has it yet.
LEMMA StampSafe ==
  ASSUME HandlersTyped, RoleFacts, UNCHANGED made, NEW c \in Calls, Granted!ChangeStamp(c)
  PROVE  RolesKept
<1>1. call[c].pc = "inserted" /\ stamp' = stamp + 1 /\ UNCHANGED <<user, role, row, token>>
  BY DEF Granted!ChangeStamp
<1>2. Granted!Changing(c) /\ Granted!Open(c)
  BY <1>1 DEF Granted!Changing, Granted!Open, Granted!Steps
<1>3. call[c] \in ChangeStates
  BY <1>2, ChangeState
<1> PICK h : h = [call[c] EXCEPT !.pc = "stamped"]
  OBVIOUS
<1>4. call' = [call EXCEPT ![c] = h]
  BY DEF Granted!ChangeStamp
<1>5. /\ h \in ChangeStates /\ h.pc = "stamped" /\ h.alone = call[c].alone /\ h.read = call[c].read
      /\ h.gone = call[c].gone /\ h.asked = call[c].asked /\ h.add = call[c].add
  BY <1>3 DEF ChangeStates, Granted!Steps
<1>6. call[c].alone /\ Target \in user =>
        call[c].read = row /\ call[c].gone = row \ call[c].asked /\ call[c].add = call[c].asked \ row
  BY <1>1, <1>2 DEF RoleFacts, AloneIsAlone, AloneHasRows, Granted!Steps
<1>7. call[c].add # {} => call[c].add \subseteq role /\ Target \in user
  BY <1>2 DEF RoleFacts, Granted!RolesTypeOK
<1>8. /\ stamp \in Nat /\ stamp' \in Nat /\ stamp <= stamp' /\ 0..stamp \subseteq 0..stamp'
      /\ \A t \in token : t.stamp # stamp'
  <2>1. stamp \in Nat /\ \A t \in token : t.stamp \in 0..stamp
    BY DEF RoleFacts, Granted!RolesTypeOK
  <2> QED BY <1>1, <2>1
<1>9. h.pc \in Granted!Steps /\ h.pc \notin RoomStates /\ h.pc \notin {"read", "count", "deleted"}
  BY <1>5 DEF Granted!Steps, RoomStates
<1>10. /\ HandlersTyped' /\ AloneIsAlone'
       /\ \A d \in Calls : Granted!Open(d)' /\ call'[d].add # {} => call'[d].add \subseteq role /\ Target \in user
  BY <1>1, <1>2, <1>4, <1>5, <1>6, <1>7, <1>8, <1>9, ChangeGoes
<1>11. Granted!RolesTypeOK'
  <2>1. token \subseteq [stamp : 0..stamp, roles : SUBSET Roles, between : BOOLEAN]
    BY DEF RoleFacts, Granted!RolesTypeOK
  <2>2. token \subseteq [stamp : 0..stamp', roles : SUBSET Roles, between : BOOLEAN]
    BY <1>8, <2>1
  <2> QED BY <1>1, <1>8, <1>10, <2>2 DEF RoleFacts, Granted!RolesTypeOK
<1>12. StampedMeansBetween' /\ Granted!TokenHasRoles'
  BY <1>1, <1>8 DEF StampedMeansBetween, Granted!TokenHasRoles
<1>13. \A d \in Calls : call'[d].pc \in RoomStates => call'[d] = call[d]
  BY <1>4, <1>9, Goes
<1> QED BY <1>10, <1>11, <1>12, <1>13 DEF RolesKept, RoleFacts

\* The rows are written.  Every token with the stamp was issued since.
LEMMA CommitSafe ==
  ASSUME HandlersTyped, RoleFacts, UNCHANGED made, NEW c \in Calls, Granted!ChangeCommit(c)
  PROVE  RolesKept
<1>1. /\ call[c].pc = "stamped" /\ row' = (row \ call[c].gone) \cup call[c].add
      /\ UNCHANGED <<user, role, stamp, token>>
  BY DEF Granted!ChangeCommit
<1>2. Granted!Changing(c) /\ Granted!Open(c)
  BY <1>1 DEF Granted!Changing, Granted!Open, Granted!Steps
<1>3. call[c] \in ChangeStates
  BY <1>2, ChangeState
<1> PICK h : h = [call[c] EXCEPT !.pc = "changed"]
  OBVIOUS
<1>4. call' = [call EXCEPT ![c] = h] /\ call'[c] = h /\ \A d \in Calls \ {c} : call'[d] = call[d]
  <2>1. call' = [call EXCEPT ![c] = h]
    BY DEF Granted!ChangeCommit
  <2> QED BY <2>1, Goes
<1>5. /\ h \in ChangeStates /\ h.pc = "changed" /\ h.alone = call[c].alone /\ h.asked = call[c].asked
  BY <1>3 DEF ChangeStates
<1>6. h.pc \notin Granted!Steps /\ h.pc \notin RoomStates /\ h.pc # "token"
  BY <1>5 DEF Granted!Steps, RoomStates
<1>7. HandlersTyped'
  <2>1. ASSUME NEW d \in Calls
        PROVE  HandlerTyped(d)'
    <3>1. CASE d = c
      BY <1>1, <1>4, <1>5, <3>1 DEF HandlerTyped, ChangeStates
    <3>2. CASE d # c
      BY <1>1, <1>4, <3>2 DEF HandlersTyped, HandlerTyped, ChangeStates
    <3> QED BY <3>1, <3>2
  <2>2. call' = [d \in Calls |-> call'[d]]
    BY <1>4 DEF HandlersTyped, HandlerTyped
  <2> QED BY <1>1, <2>1, <2>2 DEF HandlersTyped, HandlerTyped, ChangeStates
<1>8. row' \subseteq role /\ (row' # {} => Target \in user)
  BY <1>1, <1>2 DEF RoleFacts, Granted!RolesTypeOK
<1>9. Granted!RolesTypeOK'
  <2>1. \A d \in Calls : Granted!Open(d)' => Granted!Open(d) /\ call'[d] = call[d]
    BY <1>4, <1>5 DEF Granted!Open
  <2> QED BY <1>1, <1>8, <2>1 DEF RoleFacts, Granted!RolesTypeOK
<1>10. ASSUME call[c].alone, Target \in user PROVE row' = call[c].asked
  BY <1>1, <1>2, <1>10 DEF RoleFacts, AloneIsAlone, AloneHasRows, Granted!Steps
<1>11. AloneIsAlone'
  <2> SUFFICES ASSUME NEW e \in Calls, call'[e].pc \in RoleStates, call'[e].alone
               PROVE  AloneHasRows(e)'
    BY <1>1 DEF AloneIsAlone, AloneHasRows, RoleStates
  <2>1. CASE e = c
    <3>1. call[c].alone /\ call[c].pc \in RoleStates
      BY <1>2, <1>4, <1>5, <2>1, ChangeState
    <3>2. \A d \in Calls \ {e} : ~Granted!Changing(d)'
      BY <1>4, <2>1, <3>1 DEF RoleFacts, AloneIsAlone, AloneHasRows, Granted!Changing, RoleStates
    <3> QED BY <1>1, <1>4, <1>5, <1>6, <1>10, <2>1, <3>1, <3>2 DEF Granted!Open, AloneHasRows
  <2>2. CASE e # c
    BY <1>2, <1>4, <2>2 DEF RoleFacts, AloneIsAlone, AloneHasRows, RoleStates
  <2> QED BY <2>1, <2>2
<1>12. \A t \in token : t.stamp = stamp => t.between
  BY <1>1 DEF RoleFacts, StampedMeansBetween
<1>13. StampedMeansBetween' /\ Granted!TokenHasRoles'
  BY <1>1, <1>12 DEF StampedMeansBetween, Granted!TokenHasRoles
<1>14. \A d \in Calls : call'[d].pc \in RoomStates => call'[d] = call[d]
  BY <1>4, <1>6
<1> QED BY <1>7, <1>9, <1>11, <1>13, <1>14 DEF RolesKept, RoleFacts

\* A token is being issued.
LEMMA TokenReadSafe ==
  ASSUME HandlersTyped, RoleFacts, UNCHANGED made, made \in Nat, NEW c \in Calls, Granted!TokenRead(c)
  PROVE  RolesKept
<1> PICK h : h = [pc |-> "token", stamp |-> stamp]
  OBVIOUS
<1>1. call' = [call EXCEPT ![c] = h] /\ UNCHANGED <<user, roleVars>>
  BY DEF Granted!TokenRead
<1>2. call'[c] = h /\ \A d \in Calls \ {c} : call'[d] = call[d]
  BY <1>1, Goes
<1>3. h.pc = "token" /\ h.stamp = stamp /\ stamp \in 0..stamp /\ h.pc \notin RoleStates \cup RoomStates
  BY DEF RoleFacts, Granted!RolesTypeOK, RoleStates, RoomStates, Granted!Steps
<1>4. HandlersTyped'
  <2>1. ASSUME NEW d \in Calls
        PROVE  HandlerTyped(d)'
    <3>1. CASE d = c
      BY <1>1, <1>2, <1>3, <3>1 DEF RoleStates, HandlerTyped, Granted!Steps
    <3>2. CASE d # c
      BY <1>1, <1>2, <3>2 DEF HandlersTyped, HandlerTyped
    <3> QED BY <3>1, <3>2
  <2>2. call' = [d \in Calls |-> call'[d]]
    BY <1>1 DEF HandlersTyped, HandlerTyped
  <2> QED BY <1>1, <2>1, <2>2 DEF HandlersTyped, HandlerTyped, ChangeStates
<1>5. \A d \in Calls : call'[d].pc \in RoleStates \cup RoomStates => call'[d] = call[d]
  BY <1>2, <1>3
<1>6. RoleFacts'
  BY <1>1, <1>5, RolesAside
<1> QED BY <1>4, <1>5, <1>6 DEF RolesKept

\* It is issued, with the rows as they are.
LEMMA GenerateSafe ==
  ASSUME HandlersTyped, RoleFacts, UNCHANGED made, made \in Nat, NEW c \in Calls,
         Granted!GenerateAccessToken(c)
  PROVE  RolesKept
<1> PICK t : t = [stamp |-> call[c].stamp, roles |-> row, between |-> \E d \in Calls : call[d].pc = "stamped"]
  OBVIOUS
<1>1. /\ call[c].pc = "token" /\ token' = token \cup {t}
      /\ call' = [call EXCEPT ![c] = Granted!Done] /\ UNCHANGED <<user, role, row, stamp>>
  BY DEF Granted!GenerateAccessToken
<1>2. Granted!Done.pc = "done" /\ call'[c].pc = "done" /\ \A d \in Calls \ {c} : call'[d] = call[d]
  BY <1>1, Goes DEF Granted!Done
<1>3. Granted!Done.pc \notin RoleStates \cup {"token"} /\ Granted!Done.pc \notin RoomStates
  BY <1>2 DEF RoleStates, RoomStates, Granted!Steps
<1>4. HandlersTyped'
  <2>1. made' = made /\ made <= made'
    OBVIOUS
  <2>2. Granted!Done.pc # "create" /\ Granted!Done.pc # "dropped" /\ Granted!Done.pc # "refused"
    BY <1>2
  <2> QED BY <1>1, <1>3, <2>1, <2>2, GoesTyped
<1>5. \A d \in Calls : call'[d].pc \in RoleStates \cup RoomStates => call'[d] = call[d]
  BY <1>2, <1>3
<1>6. t \in [stamp : 0..stamp, roles : SUBSET Roles, between : BOOLEAN]
  BY <1>1 DEF HandlersTyped, HandlerTyped, RoleFacts, Granted!RolesTypeOK
<1>7. Granted!RolesTypeOK'
  <2>1. \A d \in Calls : Granted!Open(d)' => Granted!Open(d) /\ call'[d] = call[d]
    BY <1>5 DEF Granted!Open, RoleStates, Granted!Steps
  <2> QED BY <1>1, <1>6, <2>1 DEF RoleFacts, Granted!RolesTypeOK
<1>8. AloneIsAlone'
  <2>1. \A d \in Calls : Granted!Changing(d)' => Granted!Changing(d) /\ call'[d] = call[d]
    BY <1>5 DEF Granted!Changing, RoleStates
  <2>2. \A d \in Calls : Granted!Open(d)' => Granted!Open(d) /\ call'[d] = call[d]
    BY <1>5 DEF Granted!Open, RoleStates, Granted!Steps
  <2> SUFFICES ASSUME NEW e \in Calls, call'[e].pc \in RoleStates, call'[e].alone
               PROVE  AloneHasRows(e)'
    BY <1>1 DEF AloneIsAlone, AloneHasRows, RoleStates
  <2>3. call'[e] = call[e]
    BY <1>5
  <2> QED BY <1>1, <2>1, <2>2, <2>3 DEF RoleFacts, AloneIsAlone, AloneHasRows, RoleStates
<1>9. StampedMeansBetween'
  <2>1. (\E d \in Calls : call'[d].pc = "stamped") => (\E d \in Calls : call[d].pc = "stamped") /\ t.between
    BY <1>2
  <2> QED BY <1>1, <2>1 DEF RoleFacts, StampedMeansBetween
<1>10. Granted!TokenHasRoles'
  BY <1>1 DEF RoleFacts, Granted!TokenHasRoles
<1> QED BY <1>4, <1>5, <1>7, <1>8, <1>9, <1>10 DEF RolesKept, RoleFacts


\* changeRoles begins, and disturbs those that are under way.
LEMMA ReadSafe ==
  ASSUME HandlersTyped, RoleFacts, UNCHANGED made, NEW c \in Calls, NEW asked \in SUBSET Roles,
         Granted!ChangeRead(c, asked)
  PROVE  RolesKept
<1> PICK h : h = [pc |-> "read", asked |-> asked, read |-> row, gone |-> {}, add |-> {},
                  alone |-> \A e \in Calls : ~Granted!Changing(e)]
  OBVIOUS
<1>1. /\ call' = [d \in Calls |-> IF d = c THEN h ELSE Granted!Disturbed(call[d])]
      /\ UNCHANGED <<user, roleVars>>
  BY DEF Granted!ChangeRead
<1>2. /\ call'[c] = h /\ \A d \in Calls \ {c} : call'[d] = Granted!Disturbed(call[d])
      /\ call' = [d \in Calls |-> call'[d]]
  BY <1>1
<1>3. h \in ChangeStates /\ h.pc = "read" /\ h.read = row /\ h.add = {}
      /\ (h.alone => \A e \in Calls : ~Granted!Changing(e))
  BY DEF ChangeStates, Granted!Steps, RoleFacts, Granted!RolesTypeOK
<1>4. h.pc \in RoleStates /\ h.pc \notin RoomStates
  BY <1>3 DEF RoleStates, RoomStates, Granted!Steps
<1>5. ASSUME NEW d \in Calls \ {c}
      PROVE  /\ call'[d].pc = call[d].pc
             /\ call[d].pc \notin RoleStates => call'[d] = call[d]
             /\ call[d].pc \in RoleStates =>
                  call'[d] \in ChangeStates /\ call'[d].add = call[d].add /\ ~call'[d].alone
  BY <1>2, DisturbedFacts
<1>6. HandlersTyped'
  <2>1. ASSUME NEW d \in Calls PROVE HandlerTyped(d)'
    <3>1. CASE d = c
      BY <1>2, <1>3, <3>1 DEF HandlerTyped, ChangeStates
    <3>2. CASE d # c /\ call[d].pc \notin RoleStates
      BY <1>1, <1>5, <3>2 DEF HandlersTyped, HandlerTyped, ChangeStates
    <3>3. CASE d # c /\ call[d].pc \in RoleStates
      BY <1>1, <1>5, <3>3 DEF HandlersTyped, HandlerTyped, ChangeStates, RoleStates, Granted!Steps
    <3> QED BY <3>1, <3>2, <3>3
  <2> QED BY <1>2, <2>1 DEF HandlersTyped
<1>7. AloneIsAlone'
  <2> SUFFICES ASSUME NEW e \in Calls, call'[e].pc \in RoleStates, call'[e].alone PROVE AloneHasRows(e)'
    BY DEF AloneIsAlone, RoleStates
  <2>1. e = c
    BY <1>5
  <2>2. \A d \in Calls \ {c} : ~Granted!Changing(d)'
    BY <1>2, <1>3, <1>5, <2>1 DEF Granted!Changing
  <2>3. ~Granted!Open(c)' /\ call'[c].pc = "read" /\ call'[c].read = row'
    BY <1>1, <1>2, <1>3 DEF Granted!Open
  <2> QED BY <2>1, <2>2, <2>3 DEF AloneHasRows
<1>8. Granted!RolesTypeOK'
  <2>1. \A d \in Calls : Granted!Open(d)' => Granted!Open(d) /\ call'[d].add = call[d].add
    BY <1>2, <1>3, <1>5 DEF Granted!Open, RoleStates, Granted!Steps
  <2> QED BY <1>1, <2>1 DEF RoleFacts, Granted!RolesTypeOK
<1>9. StampedMeansBetween' /\ Granted!TokenHasRoles'
  <2>1. (\E d \in Calls : call'[d].pc = "stamped") => (\E d \in Calls : call[d].pc = "stamped")
    BY <1>2, <1>3, <1>5
  <2> QED BY <1>1, <2>1 DEF RoleFacts, StampedMeansBetween, Granted!TokenHasRoles
<1>10. \A d \in Calls : call'[d].pc \in RoomStates => call'[d] = call[d]
  BY <1>2, <1>4, <1>5 DEF RoleStates, RoomStates, Granted!Steps
<1> QED BY <1>6, <1>7, <1>8, <1>9, <1>10 DEF RolesKept, RoleFacts

\* A role is deleted that no transaction holds, and its row.
LEMMA DeleteRoleSafe ==
  ASSUME HandlersTyped, RoleFacts, UNCHANGED made, NEW r \in Roles, Granted!DeleteRole(r)
  PROVE  RolesKept
<1>1. /\ call' = [d \in Calls |-> Granted!Disturbed(call[d])]
      /\ \A d \in Calls : r \notin Granted!Held(d)
      /\ role' = role \ {r} /\ row' = row \ {r} /\ UNCHANGED <<user, stamp, token>>
  BY DEF Granted!DeleteRole
<1>2. ASSUME NEW d \in Calls
      PROVE  /\ call'[d].pc = call[d].pc
             /\ call[d].pc \notin RoleStates => call'[d] = call[d]
             /\ call[d].pc \in RoleStates =>
                  call'[d] \in ChangeStates /\ call'[d].add = call[d].add /\ ~call'[d].alone
  BY <1>1, DisturbedFacts
<1>3. HandlersTyped'
  <2>1. ASSUME NEW d \in Calls PROVE HandlerTyped(d)'
    <3>1. CASE call[d].pc \notin RoleStates
      BY <1>1, <1>2, <3>1 DEF HandlersTyped, HandlerTyped, ChangeStates
    <3>2. CASE call[d].pc \in RoleStates
      BY <1>1, <1>2, <3>2 DEF HandlersTyped, HandlerTyped, ChangeStates, RoleStates, Granted!Steps
    <3> QED BY <3>1, <3>2
  <2> QED BY <1>1, <2>1 DEF HandlersTyped
<1>4. AloneIsAlone'
  BY <1>2 DEF AloneIsAlone, RoleStates
<1>5. Granted!RolesTypeOK'
  <2>1. ASSUME NEW d \in Calls, Granted!Open(d)', call'[d].add # {}
        PROVE  call'[d].add \subseteq role' /\ Target \in user
    <3>1. Granted!Open(d) /\ call'[d].add = call[d].add
      BY <1>2, <2>1 DEF Granted!Open, RoleStates, Granted!Steps
    <3> QED BY <1>1, <2>1, <3>1 DEF RoleFacts, Granted!RolesTypeOK, Granted!Held
  <2> QED BY <1>1, <2>1 DEF RoleFacts, Granted!RolesTypeOK
<1>6. StampedMeansBetween'
  BY <1>1, <1>2 DEF RoleFacts, StampedMeansBetween
<1>7. Granted!TokenHasRoles'
  BY <1>1 DEF RoleFacts, Granted!TokenHasRoles
<1>8. \A d \in Calls : call'[d].pc \in RoomStates => call'[d] = call[d]
  BY <1>2 DEF RoleStates, RoomStates, Granted!Steps
<1> QED BY <1>3, <1>4, <1>5, <1>6, <1>7, <1>8 DEF RolesKept, RoleFacts

\* A user is deleted: if it is the target, nothing is being written for it.
LEMMA LoseUserSafe ==
  ASSUME RoleFacts, HandlersTyped, NEW c \in Calls, DeleteUser(c)
  PROVE  RoleFacts'
<1> PICK u : u = call[c].user
  OBVIOUS
<1>1. /\ call' = [call EXCEPT ![c] = Private!Done] /\ user' = user \ {u}
      /\ u = Target => \A d \in Calls : Granted!Held(d) = {}
      /\ row' = (IF u = Target THEN {} ELSE row) /\ UNCHANGED <<role, stamp, token>>
  BY DEF DeleteUser, Private!DeleteUser, Private!Answers, Granted!LoseUser
<1>2. Private!Done.pc = "done" /\ call'[c].pc = "done" /\ \A d \in Calls \ {c} : call'[d] = call[d]
  BY <1>1, Goes DEF Private!Done
<1>3. \A d \in Calls : call'[d].pc \in RoleStates => call'[d] = call[d]
  BY <1>2 DEF RoleStates, Granted!Steps
<1>4. CASE u # Target
  BY <1>1, <1>3, <1>4, RolesAside
<1>5. CASE u = Target
  <2>1. Target \notin user' /\ row' = {}
    BY <1>1, <1>5
  <2>2. \A d \in Calls : Granted!Open(d)' => Granted!Open(d) /\ call'[d] = call[d]
    BY <1>3 DEF Granted!Open, RoleStates, Granted!Steps
  <2>3. \A d \in Calls : Granted!Changing(d)' => Granted!Changing(d) /\ call'[d] = call[d]
    BY <1>3 DEF Granted!Changing, RoleStates
  <2>4. Granted!RolesTypeOK'
    BY <1>1, <1>5, <2>1, <2>2 DEF RoleFacts, Granted!RolesTypeOK, Granted!Held
  <2>5. AloneIsAlone'
    <3> SUFFICES ASSUME NEW e \in Calls, call'[e].pc \in RoleStates, call'[e].alone PROVE AloneHasRows(e)'
      BY DEF AloneIsAlone, RoleStates
    <3>1. call'[e] = call[e]
      BY <1>3
    <3> QED BY <2>1, <2>3, <3>1 DEF RoleFacts, AloneIsAlone, AloneHasRows, RoleStates
  <2>6. StampedMeansBetween' /\ Granted!TokenHasRoles'
    BY <1>1, <1>2, <2>1 DEF RoleFacts, StampedMeansBetween, Granted!TokenHasRoles
  <2> QED BY <2>4, <2>5, <2>6 DEF RoleFacts
<1> QED BY <1>4, <1>5

-----------------------------------------------------------------------------
(* The whole.                                                              *)

\* The initial states satisfy the invariant.
LEMMA InitRows == Init => RowsInv
<1> SUFFICES ASSUME Init PROVE RowsInv
  OBVIOUS
<1>1. /\ user = Users /\ live = {} /\ made = 0 /\ row \in SUBSET Roles /\ role = Roles
      /\ stamp = 0 /\ token = {} /\ call = [c \in Calls |-> [pc |-> "idle"]]
      /\ member = [r \in 1..MaxRoom |-> {}] /\ pair = [r \in 1..MaxRoom |-> {}]
      /\ looked = [r \in 1..MaxRoom |-> 0] /\ dropped = [u \in Users |-> 0]
  BY DEF Init, Private!Init, Private!InitRooms, Private!Rooms, Private!Idle, Granted!InitRoles
<1>2. \A c \in Calls : call[c].pc = "idle"
  BY <1>1
<1>3. HandlersTyped
  BY <1>1, <1>2 DEF HandlersTyped, HandlerTyped, Granted!Steps
<1>4. Private!RoomsTypeOK
  BY <1>1 DEF Private!RoomsTypeOK, Private!Rooms
<1>5. RoomsArePairs /\ Private!OnePrivateRoom /\ Private!LeftBehindWasCreatedBetween
  BY <1>1 DEF RoomsArePairs, Private!OnePrivateRoom, Private!LeftBehindWasCreatedBetween
<1>6. CreatorsLooked /\ DroppersDropped /\ Private!RefusedForARoom
  BY <1>2 DEF CreatorsLooked, DroppersDropped, Private!RefusedForARoom
<1>7. Granted!RolesTypeOK
  BY <1>1, <1>2 DEF Granted!RolesTypeOK, Granted!Open
<1>8. AloneIsAlone /\ StampedMeansBetween /\ Granted!TokenHasRoles
  BY <1>1, <1>2 DEF AloneIsAlone, StampedMeansBetween, Granted!TokenHasRoles, Granted!Steps
<1> QED BY <1>3, <1>4, <1>5, <1>6, <1>7, <1>8 DEF RowsInv, RoomFacts, RoleFacts

\* A step of the rooms.
LEMMA RoomStepSafe ==
  ASSUME RowsInv, NEW c \in Calls, Private!RoomStep(c), UNCHANGED roleVars
  PROVE  RowsInv'
<1>1. HandlersTyped /\ RoomFacts /\ RoleFacts /\ UNCHANGED stamp
  BY DEF RowsInv
<1>2. ASSUME NEW u \in Users, NEW v \in Users, Private!GetRoomPrivate(c, u, v) PROVE HandlersTyped' /\ RoomFacts'
  BY <1>1, <1>2, GetRoomSafe
<1>3. ASSUME NEW u \in Users, NEW v \in Users, Private!CreateRoom(c, u, v) PROVE HandlersTyped' /\ RoomFacts'
  BY <1>1, <1>3, CreateRoomSafe
<1>4. ASSUME NEW u \in Users, Private!DropRooms(c, u) PROVE HandlersTyped' /\ RoomFacts'
  BY <1>1, <1>4, DropSafe
<1>5. ASSUME Private!Create(c) PROVE HandlersTyped' /\ RoomFacts'
  BY <1>1, <1>5, CreateSafe
<1>6. ASSUME Private!Throw(c) PROVE HandlersTyped' /\ RoomFacts'
  BY <1>1, <1>6, EndsSafely DEF Private!Throw
<1>7. HandlersTyped' /\ RoomFacts'
  BY <1>2, <1>3, <1>4, <1>5, <1>6 DEF Private!RoomStep
<1>8. UNCHANGED user
  BY DEF Private!RoomStep, Private!GetRoomPrivate, Private!CreateRoom, Private!DropRooms, Private!Create,
     Private!Throw
<1>9. \E a : call' = [call EXCEPT ![c] = a] /\ a.pc \in RoomStates \cup {"done"}
  <2>1. ASSUME NEW a, Private!Answers(c, a), a.pc \in RoomStates \cup {"done"}
        PROVE  \E b : call' = [call EXCEPT ![c] = b] /\ b.pc \in RoomStates \cup {"done"}
    BY <2>1 DEF Private!Answers
  <2>2. Private!Done.pc \in RoomStates \cup {"done"}
    BY DEF Private!Done
  <2>3. ASSUME NEW u, NEW v, Private!Looking(c, u, v)
        PROVE  \E b : call' = [call EXCEPT ![c] = b] /\ b.pc \in RoomStates \cup {"done"}
    BY <2>1, <2>3 DEF Private!Looking, RoomStates
  <2>4. ASSUME NEW u \in Users, NEW v \in Users, Private!GetRoomPrivate(c, u, v)
        PROVE  \E b : call' = [call EXCEPT ![c] = b] /\ b.pc \in RoomStates \cup {"done"}
    BY <2>1, <2>2, <2>3, <2>4 DEF Private!GetRoomPrivate
  <2>5. ASSUME NEW u \in Users, NEW v \in Users, Private!CreateRoom(c, u, v)
        PROVE  \E b : call' = [call EXCEPT ![c] = b] /\ b.pc \in RoomStates \cup {"done"}
    BY <2>1, <2>3, <2>5 DEF Private!CreateRoom, RoomStates
  <2>6. ASSUME NEW u \in Users, Private!DropRooms(c, u)
        PROVE  \E b : call' = [call EXCEPT ![c] = b] /\ b.pc \in RoomStates \cup {"done"}
    BY <2>1, <2>6 DEF Private!DropRooms, RoomStates
  <2>7. Private!Create(c) \/ Private!Throw(c) => Private!Answers(c, Private!Done)
    BY DEF Private!Create, Private!Throw
  <2> QED BY <2>1, <2>2, <2>4, <2>5, <2>6, <2>7 DEF Private!RoomStep
<1>10. \A d \in Calls : call'[d].pc \in RoleStates => call'[d] = call[d]
  BY <1>1, <1>9, Goes DEF RoleStates, RoomStates, Granted!Steps
<1>11. RoleFacts'
  BY <1>1, <1>8, <1>10, RolesAside
<1> QED BY <1>7, <1>11 DEF RowsInv

\* A step of the roles.
LEMMA RoleStepSafe ==
  ASSUME RowsInv, Granted!RoleStep, UNCHANGED roomVars
  PROVE  RowsInv'
<1>1. HandlersTyped /\ RoomFacts /\ RoleFacts /\ UNCHANGED made /\ made \in Nat
  BY DEF RowsInv, RoomFacts, Private!RoomsTypeOK
<1>2. ASSUME NEW c \in Calls, Granted!ChangeStep(c) PROVE RolesKept
  <2>1. ASSUME Granted!ChangeThrow(c) PROVE RolesKept
    BY <1>1, <2>1, RoleEnds DEF Granted!ChangeThrow
  <2> QED BY <1>1, <1>2, <2>1, ReadSafe, CountSafe, DeleteSafe, InsertSafe, StampSafe, CommitSafe
          DEF Granted!ChangeStep
<1>3. ASSUME NEW c \in Calls, Granted!TokenRead(c) \/ Granted!GenerateAccessToken(c) PROVE RolesKept
  BY <1>1, <1>3, TokenReadSafe, GenerateSafe
<1>4. ASSUME NEW r \in Roles, Granted!DeleteRole(r) PROVE RolesKept
  BY <1>1, <1>4, DeleteRoleSafe
<1>5. RolesKept
  BY <1>2, <1>3, <1>4 DEF Granted!RoleStep
<1>6. UNCHANGED user
  BY DEF Granted!RoleStep, Granted!ChangeStep, Granted!ChangeRead, Granted!ChangeCount, Granted!ChangeDelete,
     Granted!ChangeInsert, Granted!ChangeStamp, Granted!ChangeCommit, Granted!ChangeThrow, Granted!TokenRead,
     Granted!GenerateAccessToken, Granted!DeleteRole
<1>7. RoomFacts'
  BY <1>1, <1>5, <1>6, RoomsAside DEF RolesKept
<1> QED BY <1>5, <1>7 DEF RowsInv, RolesKept

\* Every step keeps the invariant.
LEMMA StepRows == RowsInv /\ [Next]_vars => RowsInv'
<1> SUFFICES ASSUME RowsInv, [Next]_vars PROVE RowsInv'
  OBVIOUS
<1>1. ASSUME NEW c \in Calls, DeleteUser(c) PROVE RowsInv'
  <2>1. Private!DeleteUser(c) /\ UNCHANGED stamp
    BY <1>1 DEF DeleteUser, Granted!LoseUser
  <2>2. HandlersTyped' /\ RoomFacts'
    BY <2>1, DeleteUserSafe DEF RowsInv
  <2> QED BY <1>1, <2>2, LoseUserSafe DEF RowsInv
<1>2. ASSUME UNCHANGED vars PROVE RowsInv'
  <2>1. HandlersTyped'
    BY <1>2 DEF RowsInv, HandlersTyped, HandlerTyped, ChangeStates, vars
  <2>2. RoomFacts' /\ RoleFacts'
    BY <1>2, RoomsAside, RolesAside DEF RowsInv, vars
  <2> QED BY <2>1, <2>2 DEF RowsInv
<1> QED BY <1>1, <1>2, RoomStepSafe, RoleStepSafe DEF Next

\* The invariant holds throughout.
LEMMA RowsAlways == Spec => []RowsInv
<1> QED BY InitRows, StepRows, PTL DEF Spec

\* Rooms and roles keep their types, and their rows refer to users that exist.
THEOREM TypeCorrect == Spec => []TypeOK
<1>1. RowsInv => TypeOK
  BY DEF RowsInv, RoomFacts, RoleFacts, TypeOK
<1> QED BY <1>1, RowsAlways, PTL

\* Two private rooms of the same two users take a creator that looked before
\* the first was there.
THEOREM OneRoom == Spec => []OnePrivateRoom
<1>1. RowsInv => OnePrivateRoom
  BY DEF RowsInv, RoomFacts, OnePrivateRoom
<1> QED BY <1>1, RowsAlways, PTL

\* Only a deleteAccount that the room was created in the middle of takes a
\* member out of a private room.
THEOREM LeftBehind == Spec => []LeftBehindWasCreatedBetween
<1>1. RowsInv => LeftBehindWasCreatedBetween
  BY DEF RowsInv, RoomFacts, LeftBehindWasCreatedBetween
<1> QED BY <1>1, RowsAlways, PTL

\* createRoom refuses two users only for their room or for one left behind.
THEOREM Refused == Spec => []RefusedForARoom
<1>1. RowsInv => RefusedForARoom
  BY DEF RowsInv, RoomFacts, RefusedForARoom
<1> QED BY <1>1, RowsAlways, PTL

\* A changeRoles that nothing disturbed leaves the roles asked for.
THEOREM RolesAsked == Spec => []UndisturbedRolesAreAsked
<1>1. RowsInv => UndisturbedRolesAreAsked
  BY DEF RowsInv, RoleFacts, AloneIsAlone, AloneHasRows, UndisturbedRolesAreAsked,
     Granted!UndisturbedRolesAreAsked
<1> QED BY <1>1, RowsAlways, PTL

\* A token whose stamp counts has the user's roles, unless it was issued between
\* the two writes of a changeRoles.
THEOREM TokenRoles == Spec => []TokenHasRoles
<1>1. RowsInv => TokenHasRoles
  BY DEF RowsInv, RoleFacts, TokenHasRoles
<1> QED BY <1>1, RowsAlways, PTL

-----------------------------------------------------------------------------
(* RoleOrder: the order of the roles that users are given.                 *)

-----------------------------------------------------------------------------
(* The places.                                                             *)

\* The rows occupy the places 1 to n, one each.
NumberedTo(n) ==
  /\ \A r \in rows : sort[r] \in 1..n
  /\ \A r, x \in rows : sort[r] = sort[x] => r = x
  /\ \A k \in 1..n : \E x \in rows : sort[x] = k

Numbered == \E n \in Nat : NumberedTo(n)

\* Rows and the table of places agree.
OrderRows ==
  /\ rows \subseteq RoleIds /\ deleted \subseteq RoleIds \ rows
  /\ sort \in [RoleIds -> Nat] /\ \A r \in RoleIds : r \in rows <=> sort[r] # 0

\* On numbered rows maxSort is their number.
LEMMA MaxSortValue ==
  ASSUME OrderRows, NEW n \in Nat, NumberedTo(n)
  PROVE  MaxSort = n
<1>1. CASE rows = {}
  BY <1>1 DEF NumberedTo, MaxSort
<1>2. CASE rows # {}
  <2>1. n >= 1
    BY <1>2 DEF NumberedTo
  <2>2. PICK x \in rows : sort[x] = n
    BY <2>1 DEF NumberedTo
  <2>3. \A y \in rows : sort[y] <= n /\ sort[y] \in Nat
    BY DEF NumberedTo
  <2> DEFINE S == {sort[y] : y \in rows}
  <2>4. n \in S
    BY <2>2
  <2>5. \A m \in S : (\A y \in rows : sort[y] <= m) => m = n
    BY <2>2, <2>3
  <2>6. (CHOOSE m \in S : \A y \in rows : sort[y] <= m) = n
    <3> HIDE DEF S
    <3> QED BY <2>3, <2>4, <2>5
  <2> QED BY <1>2, <2>6 DEF MaxSort
<1> QED BY <1>1, <1>2

\* create keeps the rows numbered.
LEMMA CreateNumbered ==
  ASSUME OrderRows, Numbered, NEW r \in RoleIds, Create(r)
  PROVE  OrderRows' /\ Numbered'
<1>1. PICK n \in Nat : NumberedTo(n)
  BY DEF Numbered
<1>2. MaxSort = n
  BY <1>1, MaxSortValue
<1>3. /\ sort' \in [RoleIds -> Nat] /\ sort'[r] = n + 1
      /\ \A x \in RoleIds : x # r => sort'[x] = sort[x]
  BY <1>2 DEF Create, OrderRows
<1>4. OrderRows'
  BY <1>3 DEF Create, OrderRows
<1>5. NumberedTo(n + 1)'
  <2>1. \A x \in rows' : sort'[x] \in 1..(n + 1)
    BY <1>1, <1>3 DEF Create, NumberedTo, OrderRows
  <2>2. \A x, y \in rows' : sort'[x] = sort'[y] => x = y
    BY <1>1, <1>3 DEF Create, NumberedTo, OrderRows
  <2>3. ASSUME NEW k \in 1..(n + 1) PROVE \E x \in rows' : sort'[x] = k
    <3>1. CASE k = n + 1
      BY <1>3, <3>1 DEF Create
    <3>2. CASE k # n + 1
      <4>1. PICK x \in rows : sort[x] = k
        BY <1>1, <3>2 DEF NumberedTo
      <4> QED BY <4>1, <1>3 DEF Create, OrderRows
    <3> QED BY <3>1, <3>2
  <2> QED BY <2>1, <2>2, <2>3 DEF NumberedTo
<1> QED BY <1>4, <1>5 DEF Numbered

\* delete closes the gap it leaves.
LEMMA DeleteNumbered ==
  ASSUME OrderRows, Numbered, NEW r \in RoleIds, Delete(r)
  PROVE  OrderRows' /\ Numbered'
<1>1. PICK n \in Nat : NumberedTo(n)
  BY DEF Numbered
<1>2. r \in rows /\ sort[r] \in 1..n /\ rows' = rows \ {r}
  BY <1>1 DEF Delete, NumberedTo
<1>3. \A x \in rows' : /\ sort[x] \in 1..n /\ sort[x] # sort[r]
                       /\ sort'[x] = IF sort[x] > sort[r] THEN sort[x] - 1 ELSE sort[x]
  BY <1>1, <1>2 DEF Delete, NumberedTo, OrderRows
<1>4. \A x \in RoleIds \ rows' : sort'[x] = 0
  BY <1>2 DEF Delete, OrderRows
<1>5. \A x \in rows' : sort'[x] \in 1..(n - 1)
  BY <1>2, <1>3
<1>6. OrderRows'
  <2>1. sort' \in [RoleIds -> Nat]
    <3>1. \A x \in RoleIds : sort'[x] \in Nat
      BY <1>4, <1>5
    <3> QED BY <3>1 DEF Delete
  <2> QED BY <1>2, <1>4, <1>5, <2>1 DEF Delete, OrderRows
<1>7. \A x, y \in rows' : sort'[x] = sort'[y] => x = y
  <2> SUFFICES ASSUME NEW x \in rows', NEW y \in rows', sort'[x] = sort'[y]
               PROVE  x = y
    OBVIOUS
  <2>1. sort[x] = sort[y]
    BY <1>2, <1>3
  <2> QED BY <1>1, <1>2, <2>1 DEF NumberedTo
<1>8. ASSUME NEW k \in 1..(n - 1) PROVE \E x \in rows' : sort'[x] = k
  <2>1. CASE k < sort[r]
    <3>1. PICK x \in rows : sort[x] = k
      BY <1>1, <1>2 DEF NumberedTo
    <3>2. x \in rows'
      BY <1>2, <2>1, <3>1
    <3> QED BY <1>2, <1>3, <2>1, <3>1, <3>2
  <2>2. CASE k >= sort[r]
    <3>1. k + 1 \in 1..n
      BY <1>1
    <3>2. PICK x \in rows : sort[x] = k + 1
      BY <1>1, <3>1 DEF NumberedTo
    <3>3. x \in rows'
      BY <1>2, <2>2, <3>2
    <3> QED BY <1>2, <1>3, <2>2, <3>2, <3>3
  <2> QED BY <1>2, <2>1, <2>2
<1>9. NumberedTo(n - 1)' /\ n - 1 \in Nat
  BY <1>2, <1>5, <1>7, <1>8 DEF NumberedTo
<1> QED BY <1>6, <1>9 DEF Numbered

\* sort makes room at the new place and closes the old one.
LEMMA SortNumbered ==
  ASSUME OrderRows, Numbered, NEW r \in rows, NEW k \in 1..MaxSort, Sort(r, k)
  PROVE  OrderRows' /\ Numbered'
<1>1. PICK n \in Nat : NumberedTo(n)
  BY DEF Numbered
<1>2. MaxSort = n /\ k \in 1..n
  BY <1>1, MaxSortValue
<1>3. sort[r] \in 1..n /\ sort[r] # k /\ rows' = rows /\ deleted' = deleted /\ rows \subseteq RoleIds
  BY <1>1 DEF Sort, NumberedTo, OrderRows
<1>4. \A x \in RoleIds : sort'[x] = Shifted(r, k)[x]
  BY DEF Sort
<1>5. /\ sort'[r] = k
      /\ \A x \in rows : x # r =>
           /\ sort[x] \in 1..n /\ sort[x] # sort[r]
           /\ sort'[x] = IF sort[r] < sort[x] /\ sort[x] <= k THEN sort[x] - 1
                         ELSE IF k <= sort[x] /\ sort[x] < sort[r] THEN sort[x] + 1
                         ELSE sort[x]
  BY <1>1, <1>3, <1>4 DEF Shifted, NumberedTo
<1>6. \A x \in RoleIds \ rows : sort'[x] = 0
  BY <1>3, <1>4 DEF Shifted, OrderRows
<1>7. \A x \in rows : sort'[x] \in 1..n
  BY <1>2, <1>3, <1>5
<1>8. OrderRows'
  <2>1. \A x \in RoleIds : sort'[x] \in Nat
    BY <1>6, <1>7
  <2>2. sort' \in [RoleIds -> Nat]
    BY <2>1 DEF Sort, Shifted
  <2> QED BY <1>3, <1>6, <1>7, <2>2 DEF OrderRows
<1>9. ASSUME NEW x \in rows, NEW y \in rows, sort'[x] = sort'[y] PROVE x = y
  <2>1. CASE x = r \/ y = r
    BY <1>2, <1>3, <1>5, <1>9, <2>1
  <2>2. CASE x # r /\ y # r
    <3>1. sort[x] = sort[y]
      BY <1>2, <1>3, <1>5, <1>9, <2>2
    <3> QED BY <1>1, <3>1 DEF NumberedTo
  <2> QED BY <2>1, <2>2
<1>10. ASSUME NEW p \in 1..n PROVE \E x \in rows : sort'[x] = p
  <2> DEFINE from == IF p = k THEN sort[r]
                     ELSE IF sort[r] <= p /\ p < k THEN p + 1
                     ELSE IF k < p /\ p <= sort[r] THEN p - 1
                     ELSE p
  <2>1. from \in 1..n
    BY <1>2, <1>3
  <2>2. PICK x \in rows : sort[x] = from
    BY <1>1, <2>1 DEF NumberedTo
  <2>3. CASE x = r
    BY <1>2, <1>3, <1>5, <2>2, <2>3
  <2>4. CASE x # r
    BY <1>2, <1>3, <1>5, <2>2, <2>4
  <2> QED BY <2>3, <2>4
<1>11. NumberedTo(n)'
  BY <1>3, <1>7, <1>9, <1>10 DEF NumberedTo
<1> QED BY <1>8, <1>11 DEF Numbered

\* Every change of the list keeps it numbered.
LEMMA ChangeNumbered == OrderRows /\ Numbered /\ Change => OrderRows' /\ Numbered'
<1> SUFFICES ASSUME OrderRows, Numbered, Change PROVE OrderRows' /\ Numbered'
  OBVIOUS
<1>1. ASSUME NEW r \in RoleIds, Update(r) PROVE OrderRows' /\ Numbered'
  BY <1>1 DEF Update, OrderRows, Numbered, NumberedTo
<1> QED BY <1>1, CreateNumbered, DeleteNumbered, SortNumbered DEF Change

-----------------------------------------------------------------------------
(* The invariant.                                                          *)

Lists == [RoleIds -> Nat]
RequestStates == [pc : {"idle", "fetch", "emit"}, list : Lists]

\* An uncontested request is the only one under way, and what it broadcasts,
\* or has broadcast, is the list as it is.
ShownInv ==
  ~contested =>
    /\ \A q, p \in Requests : q # p => Idle(q) \/ Idle(p)
    /\ \A q \in Requests : request[q].pc = "emit" => request[q].list = sort
    /\ (\A q \in Requests : Idle(q)) => shown = sort

OrderInv ==
  /\ OrderRows /\ Numbered
  /\ shown \in Lists /\ contested \in BOOLEAN
  /\ request \in [Requests -> RequestStates]
  /\ ShownInv

\* The seeded list.
LEMMA OrderStarts ==
  InitOrder => OrderInv
<1> SUFFICES ASSUME InitOrder PROVE OrderInv
  OBVIOUS
<1> DEFINE n == Len(Defaults)
<1>1. n \in Nat /\ Defaults \in [1..n -> RoleIds]
  BY OrderAssumption
<1>2. \A r \in Seeded : sort[r] \in 1..n /\ Defaults[sort[r]] = r
  <2> SUFFICES ASSUME NEW r \in Seeded PROVE sort[r] \in 1..n /\ Defaults[sort[r]] = r
    OBVIOUS
  <2>1. r \in RoleIds /\ sort[r] = CHOOSE i \in 1..n : Defaults[i] = r
    BY <1>1 DEF InitOrder, Seeded
  <2>2. \E i \in 1..n : Defaults[i] = r
    BY DEF Seeded
  <2> QED BY <2>1, <2>2
<1>3. \A r \in RoleIds \ Seeded : sort[r] = 0
  BY DEF InitOrder
<1>4. \A i \in 1..n : Defaults[i] \in Seeded /\ sort[Defaults[i]] = i
  BY <1>1, <1>2, OrderAssumption DEF Seeded
<1>s. rows = Seeded
  BY DEF InitOrder
<1> HIDE DEF n
<1>5. OrderRows
  <2>1. Seeded \subseteq RoleIds
    BY <1>1 DEF Seeded
  <2>0. \A r \in Seeded : sort[r] \in Nat /\ sort[r] # 0
    <3>1. \A k \in 1..n : k \in Nat /\ k # 0
      BY <1>1
    <3> QED BY <1>2, <3>1
  <2>2. ASSUME NEW r \in RoleIds PROVE sort[r] \in Nat
    <3>1. CASE r \in Seeded
      BY <2>0, <3>1
    <3>2. CASE r \notin Seeded
      <4>1. sort[r] = 0
        BY <1>3, <3>2
      <4> QED BY <4>1
    <3> QED BY <3>1, <3>2
  <2>3. sort \in [RoleIds -> Nat]
    BY <2>2 DEF InitOrder
  <2>4. \A r \in RoleIds : r \in rows <=> sort[r] # 0
    BY <2>0, <1>3, <1>s
  <2> QED BY <2>1, <2>3, <2>4 DEF InitOrder, OrderRows
<1>6. Numbered
  <2>1. \A r, x \in rows : sort[r] = sort[x] => r = x
    BY <1>2, <1>s
  <2>2. NumberedTo(n)
    BY <1>1, <1>2, <1>4, <1>s, <2>1 DEF NumberedTo
  <2> QED BY <1>1, <2>2 DEF Numbered
<1>7. NoList \in Lists
  BY DEF NoList, Lists
<1>8. request \in [Requests -> RequestStates]
  BY <1>7 DEF InitOrder, RequestStates
<1> QED BY <1>5, <1>6, <1>8 DEF InitOrder, OrderInv, ShownInv, OrderRows, Idle, Lists

\* A request's steps keep the invariant.
LEMMA StepOrder == OrderInv /\ [NextOrder]_orderVars => OrderInv'
<1> SUFFICES ASSUME OrderInv, [NextOrder]_orderVars PROVE OrderInv'
  OBVIOUS
<1>i. /\ OrderRows /\ Numbered /\ shown \in Lists /\ contested \in BOOLEAN
      /\ request \in [Requests -> RequestStates] /\ ShownInv
  BY DEF OrderInv
<1>n. NoList \in Lists /\ sort \in Lists
  BY <1>i DEF NoList, Lists, OrderRows
<1>o. ASSUME UNCHANGED <<rows, sort, deleted>> PROVE OrderRows' /\ Numbered'
  BY <1>o, <1>i DEF OrderRows, Numbered, NumberedTo
<1>b. \A q \in Requests : Alone(q) \in BOOLEAN
  BY DEF Alone
<1>1. ASSUME NEW q \in Requests, Commit(q) PROVE OrderInv'
  <2>1. OrderRows' /\ Numbered'
    BY <1>1, <1>i, ChangeNumbered DEF Commit
  <2>2. request' \in [Requests -> RequestStates]
    BY <1>1, <1>i DEF Commit, RequestStates
  <2>3. ShownInv'
    <3>1. /\ request'[q].pc = "fetch"
          /\ \A p \in Requests \ {q} : request'[p] = request[p]
          /\ contested' = ~Alone(q)
      BY <1>1, <1>i DEF Commit, RequestStates
    <3>2. CASE Alone(q)
      BY <3>1, <3>2 DEF ShownInv, Alone, Idle
    <3>3. CASE ~Alone(q)
      BY <3>1, <3>3 DEF ShownInv
    <3> QED BY <3>2, <3>3
  <2> QED BY <1>1, <1>i, <1>b, <2>1, <2>2, <2>3 DEF Commit, OrderInv
<1>2. ASSUME NEW q \in Requests, Fetch(q) PROVE OrderInv'
  <2>1. request' \in [Requests -> RequestStates]
    BY <1>2, <1>i, <1>n DEF Fetch, RequestStates
  <2>2. ShownInv'
    <3>1. /\ request[q].pc = "fetch" /\ request'[q].pc = "emit" /\ request'[q].list = sort
          /\ \A p \in Requests \ {q} : request'[p] = request[p]
          /\ UNCHANGED <<sort, shown, contested>>
      BY <1>2, <1>i DEF Fetch
    <3> QED BY <3>1, <1>i DEF ShownInv, Idle
  <2> QED BY <1>2, <1>i, <1>o, <2>1, <2>2 DEF Fetch, OrderInv
<1>3. ASSUME NEW q \in Requests, Search(q) PROVE OrderInv'
  <2>1. request' \in [Requests -> RequestStates]
    BY <1>3, <1>i, <1>n DEF Search, RequestStates
  <2>2. ShownInv'
    <3>1. /\ request'[q].pc = "emit" /\ request'[q].list = sort
          /\ \A p \in Requests \ {q} : request'[p] = request[p]
          /\ contested' = ~Alone(q) /\ UNCHANGED <<sort, shown>>
      BY <1>3, <1>i DEF Search
    <3>2. CASE Alone(q)
      BY <3>1, <3>2 DEF ShownInv, Alone, Idle
    <3>3. CASE ~Alone(q)
      BY <3>1, <3>3 DEF ShownInv
    <3> QED BY <3>2, <3>3
  <2> QED BY <1>3, <1>i, <1>b, <1>o, <2>1, <2>2 DEF Search, OrderInv
<1>4. ASSUME NEW q \in Requests, Emit(q) PROVE OrderInv'
  <2>1. request' \in [Requests -> RequestStates] /\ shown' \in Lists
    BY <1>4, <1>i, <1>n DEF Emit, RequestStates
  <2>2. ShownInv'
    <3>1. /\ request[q].pc = "emit" /\ request'[q].pc = "idle" /\ shown' = request[q].list
          /\ \A p \in Requests \ {q} : request'[p] = request[p]
          /\ UNCHANGED <<sort, contested>>
      BY <1>4, <1>i DEF Emit
    <3> QED BY <3>1, <1>i DEF ShownInv, Idle
  <2> QED BY <1>4, <1>i, <1>o, <2>1, <2>2 DEF Emit, OrderInv
<1>5. ASSUME NEW q \in Requests, FetchFails(q) PROVE OrderInv'
  <2>1. request' \in [Requests -> RequestStates]
    BY <1>5, <1>i, <1>n DEF FetchFails, RequestStates
  <2> QED BY <1>5, <1>i, <1>o, <2>1 DEF FetchFails, OrderInv, ShownInv
<1>6. CASE UNCHANGED orderVars
  BY <1>6, <1>i, <1>o DEF orderVars, OrderInv, ShownInv, Idle
<1> QED BY <1>1, <1>2, <1>3, <1>4, <1>5, <1>6 DEF NextOrder

\* What the invariant says of the properties the runs check.
LEMMA OrderImplies == OrderInv => OrderTypeOK /\ PlacesAreDense /\ UncontestedListShown
<1> SUFFICES ASSUME OrderInv PROVE OrderTypeOK /\ PlacesAreDense /\ UncontestedListShown
  OBVIOUS
<1>1. OrderTypeOK
  BY DEF OrderInv, OrderRows, OrderTypeOK, Lists, RequestStates
<1>2. PlacesAreDense
  <2>1. PICK n \in Nat : NumberedTo(n)
    BY DEF OrderInv, Numbered
  <2> QED BY <2>1 DEF NumberedTo, PlacesAreDense
<1>3. UncontestedListShown
  BY DEF OrderInv, ShownInv, UncontestedListShown
<1> QED BY <1>1, <1>2, <1>3

\* A new role goes below all others, a deleted one leaves their order, and a
\* sort moves one role only.
LEMMA ChangeMovesOne == OrderRows /\ Numbered /\ Change => OneRoleMoves
<1> SUFFICES ASSUME OrderRows, Numbered, Change PROVE OneRoleMoves
  OBVIOUS
<1>1. PICK n \in Nat : NumberedTo(n)
  BY DEF Numbered
<1>2. \A x \in rows : sort[x] \in Nat
  BY <1>1 DEF NumberedTo
<1>3. ASSUME NEW r \in RoleIds, Create(r) PROVE OneRoleMoves
  <2>1. \A x \in rows : sort'[x] = sort[x]
    BY <1>3 DEF Create, OrderRows
  <2> QED BY <1>3, <2>1 DEF OneRoleMoves, Create
<1>4. ASSUME NEW r \in RoleIds, Update(r) PROVE OneRoleMoves
  BY <1>4 DEF OneRoleMoves, Update
<1>5. ASSUME NEW r \in RoleIds, Delete(r) PROVE OneRoleMoves
  <2>1. \A x \in rows \ {r} : /\ sort[x] # sort[r] /\ sort[x] \in Nat
                              /\ sort'[x] = IF sort[x] > sort[r] THEN sort[x] - 1 ELSE sort[x]
    BY <1>5, <1>1, <1>2 DEF Delete, NumberedTo, OrderRows
  <2>2. sort[r] \in Nat
    BY <1>5, <1>2 DEF Delete
  <2>3. \A x, y \in rows \ {r} : sort[x] < sort[y] <=> sort'[x] < sort'[y]
    BY <2>1, <2>2
  <2> QED BY <1>5, <2>3 DEF OneRoleMoves, Delete
<1>6. ASSUME NEW r \in rows, NEW k \in 1..MaxSort, Sort(r, k) PROVE OneRoleMoves
  <2>1. MaxSort = n /\ k \in 1..n /\ sort[r] \in Nat /\ r \in RoleIds
    BY <1>1, <1>2, MaxSortValue DEF OrderRows
  <2>2. \A x \in rows \ {r} :
           /\ sort[x] \in Nat /\ sort[x] # sort[r]
           /\ sort'[x] = IF sort[r] < sort[x] /\ sort[x] <= k THEN sort[x] - 1
                         ELSE IF k <= sort[x] /\ sort[x] < sort[r] THEN sort[x] + 1
                         ELSE sort[x]
    BY <1>1, <1>2, <1>6 DEF Sort, Shifted, NumberedTo, OrderRows
  <2>3. \A x, y \in rows \ {r} : sort[x] < sort[y] <=> sort'[x] < sort'[y]
    BY <2>1, <2>2
  <2> QED BY <1>6, <2>1, <2>3 DEF OneRoleMoves, Sort
<1> QED BY <1>3, <1>4, <1>5, <1>6 DEF Change

-----------------------------------------------------------------------------
(* Theorems.                                                               *)

\* The initial state and every step satisfy the invariant.
LEMMA OrderInvariant ==
  OrderSpec => []OrderInv
<1> QED BY OrderStarts, StepOrder, PTL DEF OrderSpec

\* Rows, places, requests and dashboards have their types.
THEOREM OrderTypeCorrect ==
  OrderSpec => []OrderTypeOK
<1>1. OrderInv => OrderTypeOK
  BY OrderImplies
<1> QED BY <1>1, OrderInvariant, PTL

\* However roles are created, deleted and sorted, their places are 1, 2, ...
\* without a gap and without two roles at one place.
THEOREM DensePlaces ==
  OrderSpec => []PlacesAreDense
<1>1. OrderInv => PlacesAreDense
  BY OrderImplies
<1> QED BY <1>1, OrderInvariant, PTL

\* A dashboard is left with the list as it is when the last request to start
\* found no other under way and could read the list.
THEOREM ListShown ==
  OrderSpec => []UncontestedListShown
<1>1. OrderInv => UncontestedListShown
  BY OrderImplies
<1> QED BY <1>1, OrderInvariant, PTL

\* No step moves more than one role past the others.
THEOREM OneMoves ==
  OrderSpec => OneRoleMovesAtATime
<1>1. OrderInv /\ [NextOrder]_orderVars => [OneRoleMoves]_orderVars
  <2> SUFFICES ASSUME OrderInv, NextOrder, ~UNCHANGED orderVars PROVE OneRoleMoves
    OBVIOUS
  <2>1. ASSUME NEW q \in Requests, Commit(q) PROVE OneRoleMoves
    BY <2>1, ChangeMovesOne DEF Commit, OrderInv
  <2>2. ASSUME NEW q \in Requests, Fetch(q) \/ FetchFails(q) \/ Search(q) \/ Emit(q)
       PROVE  OneRoleMoves
    <3>1. UNCHANGED <<rows, sort>>
      BY <2>2 DEF Fetch, FetchFails, Search, Emit
    <3>2. PICK m \in RoleIds : TRUE
      BY OrderAssumption
    <3> QED BY <3>1, <3>2 DEF OneRoleMoves
  <2> QED BY <2>1, <2>2 DEF NextOrder
<1> QED BY <1>1, OrderInvariant, PTL DEF OrderSpec, OneRoleMovesAtATime

-----------------------------------------------------------------------------
(* The list that places stand for.                                         *)

\* The places 1 to n are taken, by one role each.
Dense(place, n) ==
  /\ \A r \in RoleIds : place[r] \in 0..n
  /\ \A r, x \in RoleIds : place[r] = place[x] /\ place[r] # 0 => r = x
  /\ \A k \in 1..n : \E r \in RoleIds : place[r] = k

LEMMA LastPlaceOfDense ==
  ASSUME NEW place, NEW n \in Nat, Dense(place, n)
  PROVE  LastPlace(place) = n
<1> DEFINE S == {r \in RoleIds : place[r] # 0}
           f == [k \in 1..n |-> CHOOSE r \in RoleIds : place[r] = k]
<1>1. ASSUME NEW k \in 1..n PROVE f[k] \in RoleIds /\ place[f[k]] = k
  <2>1. \E r \in RoleIds : place[r] = k
    BY DEF Dense
  <2> QED BY <2>1
<1>2. \A r \in S : place[r] \in 1..n
  BY DEF Dense
<1>3. ASSUME NEW r \in S PROVE f[place[r]] = r
  <2>1. f[place[r]] \in RoleIds /\ place[f[place[r]]] = place[r]
    BY <1>1, <1>2
  <2> HIDE DEF f
  <2> QED BY <2>1 DEF Dense
<1>4. f \in [1..n -> S]
  BY <1>1
<1> HIDE DEF f, S
<1>5. f \in Injection(1..n, S)
  <2>1. \A j, k \in 1..n : f[j] = f[k] => j = k
    BY <1>1
  <2> QED BY <1>4, <2>1 DEF Injection, IsInjective
<1>6. f \in Surjection(1..n, S)
  BY <1>2, <1>3, <1>4 DEF Surjection
<1>7. ExistsBijection(1..n, S)
  BY <1>5, <1>6 DEF ExistsBijection, Bijection
<1>8. IsFiniteSet(1..n) /\ Cardinality(1..n) = n
  BY FS_Interval
<1>9. Cardinality(S) = n
  BY <1>7, <1>8, FS_Bijection
<1> QED BY <1>9 DEF LastPlace, S

\* A sequence that has each role at its place is the list.
LEMMA ListIs ==
  ASSUME NEW place, NEW n \in Nat, Dense(place, n),
         NEW s \in Seq(RoleIds), \A i \in 1..Len(s) : place[s[i]] = i,
         \A r \in RoleIds : place[r] <= Len(s)
  PROVE  ListOf(place) = s
<1>1. LastPlace(place) = n
  BY LastPlaceOfDense
<1>2. Len(s) = n
  <2>1. n <= Len(s)
    <3>1. CASE n = 0
      BY <3>1
    <3>2. CASE n # 0
      <4>1. PICK r \in RoleIds : place[r] = n
        BY <3>2 DEF Dense
      <4> QED BY <4>1
    <3> QED BY <3>1, <3>2
  <2>2. Len(s) <= n
    <3>1. CASE Len(s) = 0
      BY <3>1
    <3>2. CASE Len(s) # 0
      <4>1. s[Len(s)] \in RoleIds /\ place[s[Len(s)]] = Len(s)
        BY <3>2
      <4> QED BY <4>1 DEF Dense
    <3> QED BY <3>1, <3>2
  <2> QED BY <2>1, <2>2
<1>3. ASSUME NEW i \in 1..n PROVE (CHOOSE r \in RoleIds : place[r] = i) = s[i]
  <2>1. s[i] \in RoleIds /\ place[s[i]] = i
    BY <1>2
  <2>2. \A r \in RoleIds : place[r] = i => r = s[i]
    BY <2>1 DEF Dense
  <2> QED BY <2>1, <2>2
<1>4. ListOf(place) = [i \in 1..n |-> s[i]]
  BY <1>1, <1>3 DEF ListOf
<1>5. s = [i \in 1..n |-> s[i]]
  BY <1>2
<1> QED BY <1>4, <1>5

\* The list has each role at its place.
LEMMA ListOfDense ==
  ASSUME NEW place, NEW n \in Nat, Dense(place, n)
  PROVE  /\ ListOf(place) \in Seq(RoleIds) /\ Len(ListOf(place)) = n
         /\ \A i \in 1..n : ListOf(place)[i] \in RoleIds /\ place[ListOf(place)[i]] = i
         /\ \A r \in RoleIds : place[r] # 0 => ListOf(place)[place[r]] = r
<1>1. LastPlace(place) = n
  BY LastPlaceOfDense
<1> DEFINE at(i) == CHOOSE r \in RoleIds : place[r] = i
<1>2. ASSUME NEW i \in 1..n PROVE at(i) \in RoleIds /\ place[at(i)] = i
  <2>1. \E r \in RoleIds : place[r] = i
    BY DEF Dense
  <2> QED BY <2>1
<1>3. ListOf(place) = [i \in 1..n |-> at(i)]
  BY <1>1 DEF ListOf
<1> HIDE DEF at
<1>4. ListOf(place) \in Seq(RoleIds) /\ Len(ListOf(place)) = n
  BY <1>2, <1>3
<1>5. ASSUME NEW r \in RoleIds, place[r] # 0 PROVE ListOf(place)[place[r]] = r
  <2>1. place[r] \in 1..n
    BY <1>5 DEF Dense
  <2>2. at(place[r]) \in RoleIds /\ place[at(place[r])] = place[r]
    BY <1>2, <2>1
  <2>3. at(place[r]) = r
    BY <1>5, <2>2 DEF Dense
  <2> QED BY <1>3, <2>1, <2>3
<1> QED BY <1>2, <1>3, <1>4, <1>5

\* Numbered rows are dense places.
LEMMA RowsAreDense ==
  OrderRows /\ Numbered => \E n \in Nat : NumberedTo(n) /\ Dense(sort, n)
<1> SUFFICES ASSUME OrderRows, NEW n \in Nat, NumberedTo(n) PROVE Dense(sort, n)
  BY DEF Numbered
<1>1. \A r \in RoleIds : sort[r] \in 0..n
  <2>1. \A r \in rows : sort[r] \in 1..n
    BY DEF NumberedTo
  <2>2. \A r \in RoleIds \ rows : sort[r] = 0
    BY DEF OrderRows
  <2> QED BY <2>1, <2>2
<1>2. \A r, x \in RoleIds : sort[r] = sort[x] /\ sort[r] # 0 => r = x
  BY DEF NumberedTo, OrderRows
<1>3. \A k \in 1..n : \E r \in RoleIds : sort[r] = k
  BY DEF NumberedTo, OrderRows
<1> QED BY <1>1, <1>2, <1>3 DEF Dense

LEMMA RowsWillBeDense ==
  (OrderRows /\ Numbered => \E n \in Nat : NumberedTo(n) /\ Dense(sort, n))'
<1> QED BY RowsAreDense, PTL

\* What RemoveAt and InsertAt make of a list.
LEMMA RemovedAt ==
  ASSUME NEW s \in Seq(RoleIds), NEW i \in 1..Len(s)
  PROVE  LET t == RoleList!RemoveAt(s, i) IN
           /\ t \in Seq(RoleIds) /\ Len(t) = Len(s) - 1
           /\ \A k \in 1..Len(t) : t[k] = IF k < i THEN s[k] ELSE s[k + 1]
<1> DEFINE u == SubSeq(s, 1, i - 1)
           v == SubSeq(s, i + 1, Len(s))
<1>1. \A k \in 1..Len(s) : s[k] \in RoleIds
  OBVIOUS
<1>2. /\ u \in Seq(RoleIds) /\ Len(u) = i - 1
      /\ \A k \in 1..i - 1 : u[k] = s[k]
  BY <1>1, SubSeqProperties
<1>3. /\ v \in Seq(RoleIds) /\ Len(v) = Len(s) - i
      /\ \A k \in 1..Len(s) - i : v[k] = s[i + k]
  BY <1>1, SubSeqProperties
<1> HIDE DEF u, v
<1> DEFINE t == u \o v
<1>4. /\ t \in Seq(RoleIds) /\ Len(t) = Len(u) + Len(v)
      /\ \A k \in 1..Len(u) + Len(v) : t[k] = IF k <= Len(u) THEN u[k] ELSE v[k - Len(u)]
  BY <1>2, <1>3, ConcatProperties
<1> HIDE DEF t
<1>5. Len(t) = Len(s) - 1
  BY <1>2, <1>3, <1>4
<1>6. Len(u) = i - 1 /\ Len(u) + Len(v) = Len(s) - 1
  BY <1>2, <1>3
<1>7. \A k \in 1..Len(s) - 1 : t[k] = IF k <= i - 1 THEN u[k] ELSE v[k - (i - 1)]
  BY <1>4, <1>6
<1>8. ASSUME NEW k \in 1..Len(s) - 1, k < i PROVE t[k] = s[k]
  BY <1>2, <1>8, <1>7
<1>9. ASSUME NEW k \in 1..Len(s) - 1, k >= i PROVE t[k] = s[k + 1]
  <2>1. k - (i - 1) \in 1..Len(s) - i /\ i + (k - (i - 1)) = k + 1
    BY <1>9
  <2>2. v[k - (i - 1)] = s[k + 1]
    BY <1>3, <2>1
  <2>3. t[k] = v[k - (i - 1)]
    BY <1>9, <1>7
  <2> QED BY <2>2, <2>3
<1>10. \A k \in 1..Len(t) : t[k] = IF k < i THEN s[k] ELSE s[k + 1]
  BY <1>5, <1>8, <1>9
<1> QED BY <1>4, <1>5, <1>10 DEF t, u, v, RoleList!RemoveAt

LEMMA InsertedAt ==
  ASSUME NEW s \in Seq(RoleIds), NEW i \in 1..Len(s) + 1, NEW r \in RoleIds
  PROVE  LET t == RoleList!InsertAt(s, i, r) IN
           /\ t \in Seq(RoleIds) /\ Len(t) = Len(s) + 1
           /\ \A k \in 1..Len(t) : t[k] = IF k < i THEN s[k] ELSE IF k = i THEN r ELSE s[k - 1]
<1> DEFINE u == SubSeq(s, 1, i - 1)
           v == SubSeq(s, i, Len(s))
<1>1. \A k \in 1..Len(s) : s[k] \in RoleIds
  OBVIOUS
<1>2. /\ u \in Seq(RoleIds) /\ Len(u) = i - 1
      /\ \A k \in 1..i - 1 : u[k] = s[k]
  BY <1>1, SubSeqProperties
<1>3. /\ v \in Seq(RoleIds) /\ Len(v) = Len(s) - i + 1
      /\ \A k \in 1..Len(s) - i + 1 : v[k] = s[i + k - 1]
  BY <1>1, SubSeqProperties
<1> HIDE DEF u, v
<1> DEFINE w == u \o <<r>>
<1>4. /\ w \in Seq(RoleIds) /\ Len(w) = i
      /\ \A k \in 1..i : w[k] = IF k < i THEN s[k] ELSE r
  BY <1>2
<1> HIDE DEF w
<1> DEFINE t == w \o v
<1>5. /\ t \in Seq(RoleIds) /\ Len(t) = Len(w) + Len(v)
      /\ \A k \in 1..Len(w) + Len(v) : t[k] = IF k <= Len(w) THEN w[k] ELSE v[k - Len(w)]
  BY <1>3, <1>4, ConcatProperties
<1> HIDE DEF t
<1>6. Len(t) = Len(s) + 1
  BY <1>3, <1>4, <1>5
<1>7. ASSUME NEW k \in 1..Len(s) + 1, k <= i PROVE t[k] = IF k < i THEN s[k] ELSE r
  BY <1>3, <1>4, <1>5, <1>7
<1>8. ASSUME NEW k \in 1..Len(s) + 1, k > i PROVE t[k] = s[k - 1]
  <2>1. k - i \in 1..Len(s) - i + 1 /\ i + (k - i) - 1 = k - 1
    BY <1>8
  <2>2. v[k - i] = s[k - 1]
    BY <1>3, <2>1
  <2>3. t[k] = v[k - i]
    BY <1>3, <1>4, <1>5, <1>8
  <2> QED BY <2>2, <2>3
<1>9. \A k \in 1..Len(t) : t[k] = IF k < i THEN s[k] ELSE IF k = i THEN r ELSE s[k - 1]
  BY <1>6, <1>7, <1>8
<1> QED BY <1>5, <1>6, <1>9 DEF t, u, v, w, RoleList!InsertAt

-----------------------------------------------------------------------------
(* The changes as steps of RoleList.                                       *)

\* The n rows in the order of their places.
ListAsIs(n) ==
  /\ NumberedTo(n) /\ Dense(sort, n)
  /\ ListOf(sort) \in Seq(RoleIds) /\ Len(ListOf(sort)) = n
  /\ \A i \in 1..n : ListOf(sort)[i] \in rows /\ sort[ListOf(sort)[i]] = i
  /\ \A r \in rows : sort[r] \in 1..n /\ ListOf(sort)[sort[r]] = r

\* The list before a change and the places after it.
LEMMA ListNow ==
  ASSUME OrderRows, Numbered
  PROVE  \E n \in Nat : ListAsIs(n)
<1>1. PICK n \in Nat : NumberedTo(n) /\ Dense(sort, n)
  BY RowsAreDense
<1>2. /\ ListOf(sort) \in Seq(RoleIds) /\ Len(ListOf(sort)) = n
      /\ \A i \in 1..n : ListOf(sort)[i] \in RoleIds /\ sort[ListOf(sort)[i]] = i
      /\ \A r \in RoleIds : sort[r] # 0 => ListOf(sort)[sort[r]] = r
  BY <1>1, ListOfDense
<1>3. \A i \in 1..n : ListOf(sort)[i] \in rows
  BY <1>2 DEF OrderRows
<1>4. \A r \in rows : sort[r] \in 1..n /\ ListOf(sort)[sort[r]] = r
  BY <1>1, <1>2 DEF NumberedTo, OrderRows
<1> QED BY <1>1, <1>2, <1>3, <1>4 DEF ListAsIs

LEMMA DenseLater ==
  ASSUME OrderRows', Numbered'
  PROVE  \E m \in Nat : Dense(sort', m)
<1>1. \E m \in Nat : (NumberedTo(m) /\ Dense(sort, m))'
  BY RowsWillBeDense
<1> QED BY <1>1 DEF Dense

LEMMA CreateAppends ==
  ASSUME OrderRows, Numbered, NEW r \in RoleIds, Create(r)
  PROVE  ListOf(sort') = Append(ListOf(sort), r)
<1>0. PICK n \in Nat : ListAsIs(n)
  BY ListNow
<1>1. /\ NumberedTo(n)
      /\ ListOf(sort) \in Seq(RoleIds) /\ Len(ListOf(sort)) = n
      /\ \A i \in 1..n : ListOf(sort)[i] \in rows /\ sort[ListOf(sort)[i]] = i
  BY <1>0 DEF ListAsIs
<1>2. MaxSort = n
  BY <1>1, MaxSortValue
<1>3. /\ r \notin rows /\ sort'[r] = n + 1
      /\ \A x \in RoleIds : x # r => sort'[x] = sort[x]
  BY <1>2 DEF Create, OrderRows
<1>4. PICK m \in Nat : Dense(sort', m)
  BY CreateNumbered, DenseLater
<1> DEFINE l == ListOf(sort)
           s == Append(l, r)
<1>5. s \in Seq(RoleIds) /\ Len(s) = n + 1 /\ s[n + 1] = r /\ \A i \in 1..n : s[i] = l[i]
  BY <1>1
<1> HIDE DEF s
<1>6. ASSUME NEW i \in 1..Len(s) PROVE sort'[s[i]] = i
  <2>1. CASE i = n + 1
    BY <1>3, <1>5, <2>1
  <2>2. CASE i # n + 1
    <3>1. i \in 1..n /\ s[i] = l[i]
      BY <1>5, <2>2
    <3>2. l[i] \in rows /\ sort[l[i]] = i
      BY <1>1, <3>1
    <3> QED BY <1>3, <3>1, <3>2 DEF OrderRows
  <2> QED BY <2>1, <2>2
<1>7. ASSUME NEW x \in RoleIds PROVE sort'[x] <= Len(s)
  <2>1. sort[x] <= n /\ sort[x] \in Nat
    BY <1>1 DEF OrderRows, NumberedTo
  <2> QED BY <1>3, <1>5, <2>1
<1>8. ListOf(sort') = s
  BY <1>4, <1>5, <1>6, <1>7, ListIs
<1> QED BY <1>8 DEF s

LEMMA DeleteRemoves ==
  ASSUME OrderRows, Numbered, NEW r \in RoleIds, Delete(r)
  PROVE  \E i \in DOMAIN ListOf(sort) : ListOf(sort') = RoleList!RemoveAt(ListOf(sort), i)
<1>0. PICK n \in Nat : ListAsIs(n)
  BY ListNow
<1>1. /\ NumberedTo(n)
      /\ ListOf(sort) \in Seq(RoleIds) /\ Len(ListOf(sort)) = n
      /\ \A i \in 1..n : ListOf(sort)[i] \in rows /\ sort[ListOf(sort)[i]] = i
      /\ \A x \in rows : sort[x] \in 1..n /\ ListOf(sort)[sort[x]] = x
  BY <1>0 DEF ListAsIs
<1>2. /\ r \in rows
      /\ sort' = [x \in RoleIds |-> IF x = r THEN 0
                                    ELSE IF x \in rows /\ sort[x] > sort[r] THEN sort[x] - 1
                                    ELSE sort[x]]
  BY DEF Delete
<1>3. PICK m \in Nat : Dense(sort', m)
  BY DeleteNumbered, DenseLater
<1> DEFINE l == ListOf(sort)
           p == sort[r]
           s == RoleList!RemoveAt(l, p)
<1>4. p \in 1..n
  BY <1>1, <1>2
<1>5. /\ s \in Seq(RoleIds) /\ Len(s) = n - 1
      /\ \A i \in 1..n - 1 : s[i] = IF i < p THEN l[i] ELSE l[i + 1]
  BY <1>1, <1>4, RemovedAt
<1> HIDE DEF s, l, p
<1>6. ASSUME NEW i \in 1..Len(s) PROVE sort'[s[i]] = i
  <2> DEFINE k == IF i < p THEN i ELSE i + 1
  <2>1. k \in 1..n /\ k # p /\ s[i] = l[k]
    BY <1>4, <1>5
  <2> HIDE DEF k
  <2>2. l[k] \in rows /\ sort[l[k]] = k
    BY <1>1, <2>1 DEF l
  <2>3. l[k] # r /\ l[k] \in RoleIds
    BY <2>1, <2>2 DEF p, OrderRows
  <2>4. sort'[l[k]] = IF k > p THEN k - 1 ELSE k
    BY <1>2, <2>2, <2>3 DEF p
  <2> QED BY <1>4, <2>1, <2>4 DEF k
<1>7. ASSUME NEW x \in RoleIds PROVE sort'[x] <= Len(s)
  <2>1. CASE x \notin rows \/ x = r
    <3>1. sort'[x] = 0
      BY <1>2, <2>1 DEF OrderRows
    <3> QED BY <1>4, <1>5, <3>1
  <2>2. CASE x \in rows /\ x # r
    <3>1. sort[x] \in 1..n /\ sort[x] # p
      BY <1>1, <1>2, <2>2 DEF NumberedTo, p
    <3>2. sort'[x] = IF sort[x] > p THEN sort[x] - 1 ELSE sort[x]
      BY <1>2, <2>2 DEF p
    <3> QED BY <1>4, <1>5, <3>1, <3>2
  <2> QED BY <2>1, <2>2
<1>8. ListOf(sort') = s
  BY <1>3, <1>5, <1>6, <1>7, ListIs
<1>9. p \in DOMAIN l
  BY <1>1, <1>4 DEF l
<1> QED BY <1>8, <1>9 DEF s, l

LEMMA SortMoves ==
  ASSUME OrderRows, Numbered, NEW r \in rows, NEW k \in 1..MaxSort, Sort(r, k)
  PROVE  \E i, n \in DOMAIN ListOf(sort) :
           ListOf(sort') = RoleList!InsertAt(RoleList!RemoveAt(ListOf(sort), i), n, ListOf(sort)[i])
<1>0. PICK n \in Nat : ListAsIs(n)
  BY ListNow
<1>1. /\ NumberedTo(n)
      /\ ListOf(sort) \in Seq(RoleIds) /\ Len(ListOf(sort)) = n
      /\ \A i \in 1..n : ListOf(sort)[i] \in rows /\ sort[ListOf(sort)[i]] = i
      /\ \A x \in rows : sort[x] \in 1..n /\ ListOf(sort)[sort[x]] = x
  BY <1>0 DEF ListAsIs
<1>2. k \in 1..n
  BY <1>1, MaxSortValue
<1> DEFINE l == ListOf(sort)
           p == sort[r]
           u == RoleList!RemoveAt(l, p)
           s == RoleList!InsertAt(u, k, r)
<1>3. p \in 1..n /\ l[p] = r /\ r \in RoleIds
  BY <1>1 DEF OrderRows
<1>4. /\ u \in Seq(RoleIds) /\ Len(u) = n - 1
      /\ \A i \in 1..n - 1 : u[i] = IF i < p THEN l[i] ELSE l[i + 1]
  BY <1>1, <1>3, RemovedAt
<1> HIDE DEF u
<1>5. /\ s \in Seq(RoleIds) /\ Len(s) = n
      /\ \A i \in 1..n : s[i] = IF i < k THEN u[i] ELSE IF i = k THEN r ELSE u[i - 1]
  <2>1. k \in 1..Len(u) + 1 /\ Len(u) + 1 = n
    BY <1>2, <1>4
  <2>2. /\ s \in Seq(RoleIds) /\ Len(s) = Len(u) + 1
        /\ \A i \in 1..Len(s) : s[i] = IF i < k THEN u[i] ELSE IF i = k THEN r ELSE u[i - 1]
    BY <1>3, <1>4, <2>1, InsertedAt
  <2> HIDE DEF s
  <2> QED BY <2>1, <2>2
<1> HIDE DEF s, l, p
<1>6. /\ sort'[r] = k
      /\ \A x \in rows \ {r} : sort'[x] = IF p < sort[x] /\ sort[x] <= k THEN sort[x] - 1
                                         ELSE IF k <= sort[x] /\ sort[x] < p THEN sort[x] + 1
                                         ELSE sort[x]
      /\ \A x \in RoleIds \ rows : sort'[x] = 0
  BY DEF Sort, Shifted, OrderRows, p
<1>7. PICK m \in Nat : Dense(sort', m)
  BY SortNumbered, DenseLater
<1>8. ASSUME NEW i \in 1..n, i # k PROVE sort'[s[i]] = i
  \* where s[i] was
  <2> DEFINE j == IF i < k THEN i ELSE i - 1
             h == IF j < p THEN j ELSE j + 1
  <2>1. j \in 1..n - 1 /\ s[i] = u[j]
    BY <1>2, <1>5, <1>8
  <2>2. h \in 1..n /\ h # p /\ s[i] = l[h]
    BY <1>3, <1>4, <2>1
  <2>3. h = IF i < k /\ i < p THEN i ELSE IF i < k THEN i + 1
            ELSE IF i <= p THEN i - 1 ELSE i
    BY <1>2, <1>3, <1>8
  <2> HIDE DEF j, h
  <2>4. l[h] \in rows /\ sort[l[h]] = h
    BY <1>1, <2>2 DEF l
  <2>5. l[h] # r
    BY <2>2, <2>4 DEF p
  <2>6. sort'[l[h]] = IF p < h /\ h <= k THEN h - 1 ELSE IF k <= h /\ h < p THEN h + 1 ELSE h
    BY <1>6, <2>4, <2>5
  <2> QED BY <1>2, <1>3, <1>8, <2>2, <2>3, <2>6
<1>9. ASSUME NEW i \in 1..Len(s) PROVE sort'[s[i]] = i
  <2>1. CASE i = k
    BY <1>2, <1>5, <1>6, <2>1
  <2>2. CASE i # k
    BY <1>5, <1>8, <2>2
  <2> QED BY <2>1, <2>2
<1>10. ASSUME NEW x \in RoleIds PROVE sort'[x] <= Len(s)
  <2>1. CASE x \notin rows
    BY <1>5, <1>6, <2>1
  <2>2. CASE x = r
    BY <1>2, <1>5, <1>6, <2>2
  <2>3. CASE x \in rows \ {r}
    <3>1. sort[x] \in 1..n
      BY <1>1, <2>3
    <3> QED BY <1>2, <1>3, <1>5, <1>6, <2>3, <3>1
  <2> QED BY <2>1, <2>2, <2>3
<1>11. ListOf(sort') = s
  BY <1>5, <1>7, <1>9, <1>10, ListIs
<1>12. p \in DOMAIN l /\ k \in DOMAIN l
  BY <1>1, <1>2, <1>3 DEF l
<1> QED BY <1>3, <1>11, <1>12 DEF s, u, l

-----------------------------------------------------------------------------
(* RoleOrder implements RoleList.                                          *)

\* A table without places is the empty list.
LEMMA NoListIsEmpty ==
  ListOf(NoList) = <<>>
<1>1. PICK n \in Nat : Dense(NoList, n)
  <2>1. Dense(NoList, 0)
    BY DEF Dense, NoList
  <2> QED BY <2>1
<1> DEFINE s == <<>>
<1>2. s \in Seq(RoleIds) /\ Len(s) = 0 /\ \A r \in RoleIds : NoList[r] <= Len(s)
  BY DEF NoList
<1> HIDE DEF s
<1>3. \A i \in 1..Len(s) : NoList[s[i]] = i
  BY <1>2
<1>4. ListOf(NoList) = s
  BY <1>1, <1>2, <1>3, ListIs
<1> QED BY <1>4 DEF s

\* The seeded places are the list of defaults.
LEMMA ListStarts ==
  InitOrder => RoleList!Init
<1> SUFFICES ASSUME InitOrder PROVE RoleList!Init
  OBVIOUS
<1>1. OrderRows /\ Numbered
  BY OrderStarts DEF OrderInv
<1>2. PICK n \in Nat : Dense(sort, n)
  BY <1>1, RowsAreDense
<1>3. Defaults \in Seq(RoleIds) /\ \A i \in 1..Len(Defaults) : Defaults[i] \in Seeded /\ Defaults[i] \in RoleIds
  BY OrderAssumption DEF Seeded
<1>4. ASSUME NEW r \in Seeded PROVE sort[r] \in 1..Len(Defaults) /\ Defaults[sort[r]] = r
  <2>1. r \in RoleIds /\ sort[r] = CHOOSE i \in 1..Len(Defaults) : Defaults[i] = r
    BY <1>3 DEF InitOrder, Seeded
  <2>2. \E i \in 1..Len(Defaults) : Defaults[i] = r
    BY DEF Seeded
  <2> QED BY <2>1, <2>2
<1>5. \A i \in 1..Len(Defaults) : sort[Defaults[i]] = i
  BY <1>3, <1>4, OrderAssumption
<1>6. ASSUME NEW r \in RoleIds PROVE sort[r] <= Len(Defaults)
  <2>1. CASE r \in Seeded
    BY <1>4, <2>1
  <2>2. CASE r \notin Seeded
    BY <1>3, <2>2 DEF InitOrder
  <2> QED BY <2>1, <2>2
<1>7. ListOf(sort) = Defaults
  BY <1>2, <1>3, <1>5, <1>6, ListIs
<1>8. rows \cup deleted = {Defaults[i] : i \in DOMAIN Defaults}
  BY <1>3 DEF InitOrder, Seeded
<1>9. [q \in Requests |-> ListOf(request[q].list)] = [q \in Requests |-> <<>>]
  BY NoListIsEmpty DEF InitOrder
<1> QED BY <1>7, <1>8, <1>9 DEF InitOrder, RoleList!Init

\* What requests hold and dashboards show, in the terms of RoleList.
Copies == [q \in Requests |-> ListOf(request[q].list)]
Holders == {q \in Requests : request[q].pc = "emit"}
Seen == <<Copies, Holders, ListOf(shown)>>

\* A transaction changes the list as RoleList does, or not at all.
LEMMA ChangeImplements ==
  ASSUME OrderRows, Numbered, Change, UNCHANGED Seen
  PROVE  RoleList!Change \/ UNCHANGED RoleList!vars
<1>u. UNCHANGED <<Copies, Holders, ListOf(shown)>>
  BY DEF Seen
<1>r. rows \subseteq RoleIds
  BY DEF OrderRows
<1>1. ASSUME NEW r \in RoleIds, Create(r) PROVE RoleList!Change
  <2>1. ListOf(sort') = Append(ListOf(sort), r)
    BY <1>1, CreateAppends
  <2>2. r \notin rows \cup deleted /\ rows' \cup deleted' = (rows \cup deleted) \cup {r}
    BY <1>1 DEF Create
  <2>3. RoleList!Add(r)
    BY <2>1, <2>2 DEF RoleList!Add
  <2> QED BY <1>u, <2>3 DEF RoleList!Change, Copies, Holders
<1>2. ASSUME NEW r \in RoleIds, Update(r) PROVE UNCHANGED RoleList!vars
  BY <1>u, <1>2 DEF Update, RoleList!vars, Copies, Holders
<1>3. ASSUME NEW r \in RoleIds, Delete(r) PROVE RoleList!Change
  <2>1. PICK i \in DOMAIN ListOf(sort) : ListOf(sort') = RoleList!RemoveAt(ListOf(sort), i)
    BY <1>3, DeleteRemoves
  <2>2. rows' \cup deleted' = rows \cup deleted
    BY <1>3 DEF Delete
  <2>3. RoleList!Delete(i)
    BY <2>1, <2>2 DEF RoleList!Delete
  <2> QED BY <1>u, <2>1, <2>3 DEF RoleList!Change, Copies, Holders
<1>4. ASSUME NEW r \in rows, NEW k \in 1..MaxSort, Sort(r, k) PROVE RoleList!Change
  <2>1. PICK i \in DOMAIN ListOf(sort), n \in DOMAIN ListOf(sort) :
          ListOf(sort') = RoleList!InsertAt(RoleList!RemoveAt(ListOf(sort), i), n, ListOf(sort)[i])
    BY <1>4, SortMoves
  <2>2. rows' \cup deleted' = rows \cup deleted
    BY <1>4 DEF Sort
  <2>3. RoleList!Move(i, n)
    BY <2>1, <2>2 DEF RoleList!Move
  <2> QED BY <1>u, <2>1, <2>3 DEF RoleList!Change, Copies, Holders
<1> QED BY <1>1, <1>2, <1>3, <1>4 DEF Change

\* Committing a change shows nothing to anyone.
LEMMA CommitImplements ==
  ASSUME OrderInv, NEW q \in Requests, Commit(q)
  PROVE  RoleList!Change \/ UNCHANGED RoleList!vars
<1>1. /\ request' = [request EXCEPT ![q].pc = "fetch"] /\ request[q].pc = "idle"
      /\ Change /\ shown' = shown
  BY DEF Commit, Idle
<1>2. /\ \A p \in Requests : request'[p].list = request[p].list
      /\ \A p \in Requests : request'[p].pc = "emit" <=> request[p].pc = "emit"
  BY <1>1 DEF OrderInv, RequestStates
<1>3. UNCHANGED Seen
  BY <1>1, <1>2 DEF Seen, Copies, Holders
<1> QED BY <1>1, <1>3, ChangeImplements DEF OrderInv

\* Reading the list is RoleList's read.
LEMMA ReadImplements ==
  ASSUME OrderInv, NEW q \in Requests, Fetch(q) \/ Search(q)
  PROVE  RoleList!Read(q)
<1>1. /\ request' = [request EXCEPT ![q] = [pc |-> "emit", list |-> sort]]
      /\ UNCHANGED <<rows, sort, deleted, shown>>
  BY DEF Fetch, Search
<1>2. /\ request'[q].list = sort /\ request'[q].pc = "emit"
      /\ \A p \in Requests \ {q} : request'[p] = request[p]
  BY <1>1 DEF OrderInv
<1>3. Copies' = [Copies EXCEPT ![q] = ListOf(sort)]
  BY <1>2 DEF Copies
<1>4. Holders' = Holders \cup {q}
  BY <1>2 DEF Holders
<1> QED BY <1>1, <1>3, <1>4 DEF RoleList!Read, Copies, Holders

\* Broadcasting it is RoleList's show.
LEMMA EmitImplements ==
  ASSUME OrderInv, NEW q \in Requests, Emit(q)
  PROVE  RoleList!Show(q)
<1>1. /\ request[q].pc = "emit" /\ shown' = request[q].list
      /\ request' = [request EXCEPT ![q] = [pc |-> "idle", list |-> NoList]]
      /\ UNCHANGED <<rows, sort, deleted>>
  BY DEF Emit
<1>2. /\ request'[q].list = NoList /\ request'[q].pc = "idle"
      /\ \A p \in Requests \ {q} : request'[p] = request[p]
  BY <1>1 DEF OrderInv
<1>3. Copies' = [Copies EXCEPT ![q] = <<>>]
  BY <1>2, NoListIsEmpty DEF Copies
<1>4. q \in Holders /\ Holders' = Holders \ {q}
  BY <1>1, <1>2 DEF Holders
<1>5. ListOf(shown') = Copies[q]
  BY <1>1 DEF Copies
<1> QED BY <1>1, <1>3, <1>4, <1>5 DEF RoleList!Show, Copies, Holders

\* A request that could not read it has nothing to show.
LEMMA FailureStutters ==
  ASSUME OrderInv, NEW q \in Requests, FetchFails(q)
  PROVE  UNCHANGED RoleList!vars
<1>1. /\ request[q].pc = "fetch" /\ request'[q].pc = "idle"
      /\ \A p \in Requests : request'[p].list = request[p].list
      /\ \A p \in Requests \ {q} : request'[p] = request[p]
      /\ UNCHANGED <<rows, sort, deleted, shown>>
  BY DEF FetchFails, OrderInv, RequestStates
<1>2. UNCHANGED <<Copies, Holders>>
  BY <1>1 DEF Copies, Holders
<1> QED BY <1>1, <1>2 DEF RoleList!vars, Copies, Holders

\* Every step of the service is one of RoleList, or none.
LEMMA ListSteps ==
  OrderInv /\ [NextOrder]_orderVars => [RoleList!Next]_(RoleList!vars)
<1> SUFFICES ASSUME OrderInv, [NextOrder]_orderVars PROVE [RoleList!Next]_(RoleList!vars)
  OBVIOUS
<1>1. ASSUME NEW q \in Requests, Commit(q) PROVE RoleList!Next \/ UNCHANGED RoleList!vars
  BY <1>1, CommitImplements DEF RoleList!Next
<1>2. ASSUME NEW q \in Requests, Fetch(q) \/ Search(q) PROVE RoleList!Next
  BY <1>2, ReadImplements DEF RoleList!Next
<1>3. ASSUME NEW q \in Requests, Emit(q) PROVE RoleList!Next
  BY <1>3, EmitImplements DEF RoleList!Next
<1>4. ASSUME NEW q \in Requests, FetchFails(q) PROVE UNCHANGED RoleList!vars
  BY <1>4, FailureStutters
<1>5. CASE UNCHANGED orderVars
  BY <1>5 DEF orderVars, RoleList!vars
<1> QED BY <1>1, <1>2, <1>3, <1>4, <1>5 DEF NextOrder

\* RoleOrder implements RoleList: the shifts of a whole transaction insert, move
\* and take out one role of a list, and dashboards show a copy of it that a
\* request read.
THEOREM ListImplemented ==
  OrderSpec => ImplementsList
<1> QED BY ListSteps, ListStarts, OrderInvariant, PTL DEF OrderSpec, ImplementsList, RoleList!Spec
=============================================================================
