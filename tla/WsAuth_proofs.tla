---------------------------- MODULE WsAuth_proofs ----------------------------
(***************************************************************************)
(* Proofs about WsAuth, for every value of its constants.                  *)
(***************************************************************************)
EXTENDS WsAuth, TLAPS

-----------------------------------------------------------------------------
(* Types.                                                                  *)

\* What a socket shows after a token is a socket's state.
LEMMA ShowsType ==
  ASSUME TypeOK, NEW s \in Sockets, NEW u \in Users \cup {NoUser}, NEW e \in Int,
         NEW c \in {"new", "on", "off"}, NEW r \in {"idle", "guard", "reply"}
  PROVE  Shows(s, u, e, c, r) \in SocketStates
<1>1. socket[s] \in SocketStates
  BY DEF TypeOK
<1> QED BY <1>1 DEF Shows, SocketStates

\* A socket that never connected, or is gone with its process, is well typed.
LEMMA RestType ==
  /\ NoSocket("new") \in SocketStates /\ NoSocket("off") \in SocketStates
  /\ NoAct \in ActStates
BY DEF NoSocket, NoAct, SocketStates, ActStates, NoExpiry

\* Sums of the clock, a life and the offset are integers.
LEMMA Moments ==
  ASSUME TypeOK, NEW life \in Lives
  PROVE  /\ now + life \in Int /\ now + life # NoExpiry
         /\ (now + life) - SocketOffset \in Int
BY ParameterAssumption DEF TypeOK, NoExpiry

\* Listing a socket keeps the types of the sorted set.
LEMMA ZAddAuthType ==
  ASSUME TypeOK, NEW s \in Sockets, NEW life \in Lives, ZAddAuth(s, now + life)
  PROVE  listed' \subseteq Sockets /\ score' \in [Sockets -> Int]
<1> DEFINE at == (now + life) - SocketOffset
<1>1. at \in Int
  BY Moments
<1>2. listed' = listed \cup {s} /\ score' = [score EXCEPT ![s] = at]
  BY DEF ZAddAuth
<1>3. listed \subseteq Sockets /\ score \in [Sockets -> Int]
  BY DEF TypeOK
<1> HIDE DEF at
<1> QED BY <1>1, <1>2, <1>3

\* A new entry has the score of the newest token.
LEMMA ZAddAuthEntry ==
  ASSUME TypeOK, NEW s \in Sockets, NEW life \in Lives, ZAddAuth(s, now + life),
         due' = [due EXCEPT ![s] = (now + life) - SocketOffset]
  PROVE  /\ listed' = listed \cup {s} /\ score'[s] = due'[s]
         /\ \A x \in Sockets : x # s => score'[x] = score[x] /\ due'[x] = due[x]
<1> DEFINE at == (now + life) - SocketOffset
<1>1. /\ listed' = listed \cup {s}
      /\ score' = [score EXCEPT ![s] = at] /\ due' = [due EXCEPT ![s] = at]
  BY DEF ZAddAuth
<1>2. score \in [Sockets -> Int] /\ due \in [Sockets -> Int]
  BY DEF TypeOK
<1> HIDE DEF at
<1> QED BY <1>1, <1>2

\* Taking another user keeps the type of the message in hand.
LEMMA SwapType ==
  ASSUME TypeOK, NEW s \in Sockets, NEW u, Swap(s, u)
  PROVE  act' \in [Sockets -> ActStates]
<1>1. act[s] \in ActStates
  BY DEF TypeOK
<1>2. [act[s] EXCEPT !.swapped = @ \/ (act[s].pc # "idle" /\ act[s].checked # u)] \in ActStates
  BY <1>1 DEF ActStates
<1> QED BY <1>2 DEF Swap, TypeOK

\* The initial state is well typed.
LEMMA InitType == Init => TypeOK
BY RestType DEF Init, TypeOK

\* Every step of a handler, of the job and of the clock keeps the types.
LEMMA StepType == TypeOK /\ [Next]_vars => TypeOK'
<1> SUFFICES ASSUME TypeOK, [Next]_vars PROVE TypeOK'
  OBVIOUS
<1>o. \A s \in Sockets : socket[s] \in SocketStates /\ act[s] \in ActStates
  BY DEF TypeOK
<1>1. ASSUME NEW s \in Sockets, HandleConnection(s) PROVE TypeOK'
  <2>1. ASSUME NEW u \in Users, NEW life \in Lives,
               socket' = [socket EXCEPT ![s] = Shows(s, u, now + life, "on", "idle")],
               ZAddAuth(s, now + life),
               due' = [due EXCEPT ![s] = (now + life) - SocketOffset]
        PROVE  TypeOK'
    <3>1. Shows(s, u, now + life, "on", "idle") \in SocketStates
      BY ShowsType, Moments
    <3>2. socket' \in [Sockets -> SocketStates] /\ due' \in [Sockets -> Int]
      BY <2>1, <3>1, Moments DEF TypeOK
    <3> QED BY <1>1, <2>1, <3>2, ZAddAuthType DEF HandleConnection, TypeOK
  <2>2. CASE /\ socket' = [socket EXCEPT ![s].conn = "off"]
             /\ UNCHANGED <<listed, score, due>>
    <3>1. [socket[s] EXCEPT !.conn = "off"] \in SocketStates
      BY <1>o DEF SocketStates
    <3> QED BY <1>1, <2>2, <3>1 DEF HandleConnection, TypeOK
  <2> QED BY <1>1, <2>1, <2>2 DEF HandleConnection
<1>l. ASSUME NEW s \in Sockets, Leave(s) PROVE TypeOK'
  <2>1. [socket[s] EXCEPT !.conn = "off"] \in SocketStates
    BY <1>o DEF SocketStates
  <2> QED BY <1>l, <2>1 DEF Leave, ZRemAuth, TypeOK
<1>2. ASSUME NEW s \in Sockets, HandleDisconnect(s) \/ GuardDisconnects(s) PROVE TypeOK'
  BY <1>2, <1>l DEF HandleDisconnect, GuardDisconnects
<1>3. ASSUME Stop PROVE TypeOK'
  BY <1>3, RestType DEF Stop, TypeOK
<1>4. ASSUME NEW s \in Sockets,
             AuthenticateMessage(s) \/ AuthenticateRefused(s) \/ AuthenticateReply(s)
      PROVE  TypeOK'
  <2>1. /\ [socket[s] EXCEPT !.renew = "guard"] \in SocketStates
        /\ [socket[s] EXCEPT !.renew = "idle"] \in SocketStates
        /\ [socket[s] EXCEPT !.renew = "idle", !.asking = FALSE] \in SocketStates
    BY <1>o DEF SocketStates
  <2> QED BY <1>4, <2>1 DEF AuthenticateMessage, AuthenticateRefused, AuthenticateReply, TypeOK
<1>5. ASSUME NEW s \in Sockets, AuthenticateValid(s) PROVE TypeOK'
  <2>1. PICK u \in Users, life \in Lives :
          /\ Swap(s, u)
          /\ due' = [due EXCEPT ![s] = (now + life) - SocketOffset]
          /\ \/ /\ socket' = [socket EXCEPT ![s] =
                                Shows(s, u, now + life, socket[s].conn, "reply")]
                /\ ZAddAuth(s, now + life)
                /\ slipped' = slipped \ {s}
             \/ /\ socket' = [socket EXCEPT ![s] =
                                Shows(s, u, now + life, socket[s].conn, "idle")]
                /\ slipped' = slipped \cup {s}
                /\ UNCHANGED <<listed, score>>
    BY <1>5 DEF AuthenticateValid
  <2>2. \A r \in {"idle", "guard", "reply"} :
          Shows(s, u, now + life, socket[s].conn, r) \in SocketStates
    <3>1. socket[s].conn \in {"new", "on", "off"}
      BY <1>o DEF SocketStates
    <3> QED BY <3>1, ShowsType, Moments
  <2>3. /\ socket' \in [Sockets -> SocketStates]
        /\ due' \in [Sockets -> Int] /\ slipped' \subseteq Sockets
    BY <2>1, <2>2, Moments DEF TypeOK
  <2>4. listed' \subseteq Sockets /\ score' \in [Sockets -> Int]
    BY <2>1, ZAddAuthType DEF TypeOK
  <2>5. act' \in [Sockets -> ActStates]
    BY <2>1, SwapType
  <2> QED BY <1>5, <2>3, <2>4, <2>5 DEF AuthenticateValid, TypeOK
<1>6. ASSUME NEW s \in Sockets, AuthenticateInvalid(s) PROVE TypeOK'
  <2>1. NoExpiry \in Int
    BY DEF NoExpiry
  <2>2. Shows(s, NoUser, NoExpiry, socket[s].conn, "idle") \in SocketStates
    <3>1. socket[s].conn \in {"new", "on", "off"}
      BY <1>o DEF SocketStates
    <3> QED BY <2>1, <3>1, ShowsType
  <2> QED BY <1>6, <2>2, SwapType DEF AuthenticateInvalid, TypeOK
<1>7. ASSUME NEW s \in Sockets, ActMessage(s) PROVE TypeOK'
  <2>1. [pc |-> "guard", checked |-> socket[s].user, by |-> {}, swapped |-> FALSE] \in ActStates
    BY <1>o DEF SocketStates, ActStates
  <2> QED BY <1>7, <2>1 DEF ActMessage, TypeOK
<1>8. ASSUME NEW s \in Sockets, ActRefused(s) \/ ActWrites(s) PROVE TypeOK'
  <2>1. \A pc \in {"files", "idle"} :
          /\ [act[s] EXCEPT !.pc = pc] \in ActStates
          /\ Authenticated(s) =>
               [act[s] EXCEPT !.pc = pc, !.by = @ \cup {socket[s].user}] \in ActStates
    BY <1>o DEF SocketStates, ActStates, Authenticated
  <2> QED BY <1>8, <2>1 DEF ActRefused, ActWrites, TypeOK
<1>9. ASSUME JobRange \/ Tick \/ UNCHANGED vars PROVE TypeOK'
  BY <1>9 DEF JobRange, Tick, TypeOK, vars
<1> QED BY <1>1, <1>2, <1>3, <1>4, <1>5, <1>6, <1>7, <1>8, <1>9 DEF Next

\* Every state of the gateway is well typed.
THEOREM TypeCorrect == Spec => []TypeOK
BY InitType, StepType, PTL DEF Spec

-----------------------------------------------------------------------------
(* The sorted set.                                                         *)

\* ConnectedAreListed needs no help; LeftEntriesExplained has to know of a
\* socket that is gone that a message of it still in hand was in hand when it
\* left, and that one that never connected was never listed.
FirstConnected ==
  \A s \in Sockets : socket[s].conn = "new" => s \notin listed /\ socket[s].renew = "idle"
LateRenewals ==
  \A s \in Sockets : ~On(s) /\ socket[s].renew = "guard" => s \in loose
SetInv == /\ TypeOK /\ ConnectedAreListed /\ LeftEntriesExplained
          /\ FirstConnected /\ LateRenewals

\* Every step keeps the sorted set in agreement with the sockets.
LEMMA SetStep == SetInv /\ [Next]_vars => SetInv'
<1> SUFFICES ASSUME SetInv, [Next]_vars
             PROVE  (ConnectedAreListed /\ LeftEntriesExplained /\ FirstConnected /\ LateRenewals)'
  BY StepType DEF SetInv
<1> USE DEF SetInv, ConnectedAreListed, LeftEntriesExplained, FirstConnected, LateRenewals, On
<1>o. \A s \in Sockets : socket[s] \in SocketStates
  BY DEF TypeOK
<1>t. /\ socket \in [Sockets -> SocketStates] /\ listed \subseteq Sockets
      /\ score \in [Sockets -> Int] /\ due \in [Sockets -> Int]
  BY DEF TypeOK
<1> DEFINE Goal == (ConnectedAreListed /\ LeftEntriesExplained /\ FirstConnected /\ LateRenewals)'
<1>1. ASSUME NEW s \in Sockets, HandleConnection(s) PROVE Goal
  <2>1. ASSUME NEW u \in Users, NEW life \in Lives,
               socket' = [socket EXCEPT ![s] = Shows(s, u, now + life, "on", "idle")],
               ZAddAuth(s, now + life),
               due' = [due EXCEPT ![s] = (now + life) - SocketOffset]
        PROVE  Goal
    <3>1. /\ socket'[s].conn = "on" /\ \A x \in Sockets : x # s => socket'[x] = socket[x]
          /\ loose' = loose /\ slipped' = slipped
      BY <1>1, <2>1, <1>t, <1>o DEF HandleConnection, Shows
    <3>2. /\ listed' = listed \cup {s} /\ score'[s] = due'[s]
          /\ \A x \in Sockets : x # s => score'[x] = score[x] /\ due'[x] = due[x]
      BY <2>1, ZAddAuthEntry
    <3> QED BY <3>1, <3>2, <1>t
  <2>2. CASE /\ socket' = [socket EXCEPT ![s].conn = "off"]
             /\ UNCHANGED <<listed, score, due>>
    <3>1. /\ socket'[s].conn = "off" /\ socket'[s].renew = "idle" /\ s \notin listed
          /\ \A x \in Sockets : x # s => socket'[x] = socket[x]
          /\ loose' = loose /\ slipped' = slipped
      BY <1>1, <2>2, <1>t, <1>o DEF HandleConnection, SocketStates
    <3> QED BY <2>2, <3>1, <1>t
  <2> QED BY <1>1, <2>1, <2>2 DEF HandleConnection
<1>l. ASSUME NEW s \in Sockets, On(s), Leave(s) PROVE Goal
  BY <1>l, <1>o, <1>t DEF Leave, ZRemAuth, Authenticated, SocketStates
<1>2. ASSUME NEW s \in Sockets, HandleDisconnect(s) \/ GuardDisconnects(s) PROVE Goal
  BY <1>2, <1>l DEF HandleDisconnect, GuardDisconnects
<1>3. ASSUME Stop PROVE Goal
  <2>1. \A s \in Sockets :
          /\ socket[s].conn = "new" => socket'[s] = socket[s]
          /\ socket[s].conn # "new" => socket'[s].conn = "off" /\ socket'[s].renew = "idle"
    BY <1>3 DEF Stop, NoSocket
  <2>2. /\ UNCHANGED <<listed, score, due, slipped>>
        /\ loose \subseteq loose' /\ \A s \in Sockets : On(s) => s \in loose'
    BY <1>3 DEF Stop
  <2> QED BY <2>1, <2>2, <1>o, <1>t DEF SocketStates
<1>4. ASSUME NEW s \in Sockets,
             AuthenticateMessage(s) \/ AuthenticateRefused(s) \/ AuthenticateReply(s)
      PROVE  Goal
  <2>1. /\ socket'[s].conn = socket[s].conn
        /\ \A x \in Sockets : x # s => socket'[x] = socket[x]
        /\ UNCHANGED <<listed, score, due, slipped, loose>>
    BY <1>4, <1>t, <1>o DEF AuthenticateMessage, AuthenticateRefused, AuthenticateReply, SocketStates
  <2>2. \/ socket'[s].renew = "guard" /\ On(s)
        \/ socket'[s].renew = "idle"
    BY <1>4, <1>t, <1>o DEF AuthenticateMessage, AuthenticateRefused, AuthenticateReply,
                            Admits, SocketStates
  <2> QED BY <2>1, <2>2, <1>t
<1>5. ASSUME NEW s \in Sockets, AuthenticateValid(s) PROVE Goal
  <2>1. PICK u \in Users, life \in Lives :
          /\ due' = [due EXCEPT ![s] = (now + life) - SocketOffset]
          /\ \/ /\ socket' = [socket EXCEPT ![s] =
                                Shows(s, u, now + life, socket[s].conn, "reply")]
                /\ ZAddAuth(s, now + life)
                /\ slipped' = slipped \ {s}
             \/ /\ socket' = [socket EXCEPT ![s] =
                                Shows(s, u, now + life, socket[s].conn, "idle")]
                /\ slipped' = slipped \cup {s}
                /\ UNCHANGED <<listed, score>>
    BY <1>5 DEF AuthenticateValid
  <2>2. /\ socket'[s].conn = socket[s].conn /\ socket'[s].renew # "guard"
        /\ \A x \in Sockets : x # s => socket'[x] = socket[x]
        /\ loose' = loose
    BY <1>5, <2>1, <1>t, <1>o DEF AuthenticateValid, Shows
  <2>3. socket[s].conn # "new" /\ (On(s) \/ s \in loose)
    BY <1>5 DEF AuthenticateValid
  <2>4. CASE ZAddAuth(s, now + life) /\ slipped' = slipped \ {s}
    <3>1. /\ listed' = listed \cup {s} /\ score'[s] = due'[s]
          /\ \A x \in Sockets : x # s => score'[x] = score[x] /\ due'[x] = due[x]
      BY <2>1, <2>4, ZAddAuthEntry
    <3> QED BY <2>2, <2>3, <2>4, <3>1, <1>t
  <2>5. CASE slipped' = slipped \cup {s} /\ UNCHANGED <<listed, score>>
    BY <2>1, <2>2, <2>3, <2>5, <1>t
  <2> QED BY <2>1, <2>4, <2>5
<1>6. ASSUME NEW s \in Sockets, AuthenticateInvalid(s) PROVE Goal
  <2>1. /\ socket'[s].conn = socket[s].conn /\ socket'[s].renew = "idle"
        /\ \A x \in Sockets : x # s => socket'[x] = socket[x]
        /\ UNCHANGED <<listed, score, due, slipped, loose>>
    BY <1>6, <1>t, <1>o DEF AuthenticateInvalid, Shows
  <2> QED BY <2>1, <1>t
<1>7. ASSUME NEW s \in Sockets, ActMessage(s) \/ ActRefused(s) \/ ActWrites(s) PROVE Goal
  BY <1>7 DEF ActMessage, ActRefused, ActWrites
<1>8. ASSUME JobRange \/ Tick \/ UNCHANGED vars PROVE Goal
  BY <1>8 DEF JobRange, Tick, vars
<1> QED BY <1>1, <1>2, <1>3, <1>4, <1>5, <1>6, <1>7, <1>8 DEF Next

\* The sorted set agrees with the sockets in every state.
LEMMA SetAlways == Spec => []SetInv
<1>1. Init => SetInv
  BY InitType DEF Init, SetInv, ConnectedAreListed, LeftEntriesExplained, FirstConnected,
                  LateRenewals, On, NoSocket
<1> QED BY <1>1, SetStep, PTL DEF Spec

\* A connected socket is in the sorted set at the moment its newest valid token
\* is to be renewed, whatever becomes of its messages, unless Redis did not
\* take that token.
THEOREM EveryoneListed == Spec => []ConnectedAreListed
<1>1. SetInv => ConnectedAreListed
  BY DEF SetInv
<1> QED BY <1>1, SetAlways, PTL

\* An entry outlives its socket only if the socket had lost its user, had a
\* message before its handler, or went with its process.
THEOREM LeftExplained == Spec => []LeftEntriesExplained
<1>1. SetInv => LeftEntriesExplained
  BY DEF SetInv
<1> QED BY <1>1, SetAlways, PTL

-----------------------------------------------------------------------------
(* Messages.                                                               *)

\* While a message is in hand and its socket took no other user, the socket
\* shows the one that was checked; it is in hand of a socket that connected.
ShowsChecked ==
  \A s \in Sockets : act[s].pc # "idle" =>
    /\ socket[s].conn # "new"
    /\ ~act[s].swapped => socket[s].user = act[s].checked
ActInv == TypeOK /\ WritesForChecked /\ ShowsChecked

\* Taking another user is remembered by the message in hand.
LEMMA SwapKeeps ==
  ASSUME ActInv, NEW s \in Sockets, NEW u, Swap(s, u), socket'[s].user = u,
         socket'[s].conn = socket[s].conn,
         \A x \in Sockets : x # s => socket'[x] = socket[x]
  PROVE  (WritesForChecked /\ ShowsChecked)'
<1>1. act \in [Sockets -> ActStates]
  BY DEF ActInv, TypeOK
<1>2. /\ act'[s].pc = act[s].pc /\ act'[s].checked = act[s].checked /\ act'[s].by = act[s].by
      /\ act'[s].swapped = (act[s].swapped \/ (act[s].pc # "idle" /\ act[s].checked # u))
      /\ \A x \in Sockets : x # s => act'[x] = act[x]
  BY <1>1 DEF Swap, ActStates
<1> QED BY <1>2 DEF ActInv, WritesForChecked, ShowsChecked

\* Every step keeps the users a message writes for.
LEMMA ActStep == ActInv /\ [Next]_vars => ActInv'
<1> SUFFICES ASSUME ActInv, [Next]_vars PROVE (WritesForChecked /\ ShowsChecked)'
  BY StepType DEF ActInv
<1> USE DEF ActInv, WritesForChecked, ShowsChecked
<1>o. \A s \in Sockets : socket[s] \in SocketStates /\ act[s] \in ActStates
  BY DEF TypeOK
<1>t. socket \in [Sockets -> SocketStates] /\ act \in [Sockets -> ActStates]
  BY DEF TypeOK
<1> DEFINE Goal == (WritesForChecked /\ ShowsChecked)'
<1>k. ASSUME act' = act,
             \A s \in Sockets : act[s].pc # "idle" =>
               socket'[s].conn # "new" /\ socket'[s].user = socket[s].user
      PROVE  Goal
  BY <1>k
<1>1. ASSUME NEW s \in Sockets, HandleConnection(s) PROVE Goal
  <2>1. \A x \in Sockets : x # s => socket'[x] = socket[x]
    BY <1>1, <1>t DEF HandleConnection
  <2>2. act' = act /\ act[s].pc = "idle"
    BY <1>1 DEF HandleConnection
  <2> QED BY <2>1, <2>2, <1>k
<1>2. ASSUME NEW s \in Sockets, HandleDisconnect(s) \/ GuardDisconnects(s) PROVE Goal
  <2>1. /\ act' = act /\ socket'[s].conn = "off" /\ socket'[s].user = socket[s].user
        /\ \A x \in Sockets : x # s => socket'[x] = socket[x]
    BY <1>2, <1>t, <1>o DEF HandleDisconnect, GuardDisconnects, Leave, SocketStates
  <2> QED BY <2>1, <1>k
<1>3. ASSUME Stop PROVE Goal
  BY <1>3 DEF Stop, NoAct
<1>4. ASSUME NEW s \in Sockets,
             AuthenticateMessage(s) \/ AuthenticateRefused(s) \/ AuthenticateReply(s)
      PROVE  Goal
  <2>1. /\ act' = act
        /\ socket'[s].conn = socket[s].conn /\ socket'[s].user = socket[s].user
        /\ \A x \in Sockets : x # s => socket'[x] = socket[x]
    BY <1>4, <1>t, <1>o DEF AuthenticateMessage, AuthenticateRefused, AuthenticateReply, SocketStates
  <2> QED BY <2>1, <1>k
<1>5. ASSUME NEW s \in Sockets, AuthenticateValid(s) PROVE Goal
  <2>1. PICK u \in Users, life \in Lives :
          /\ Swap(s, u)
          /\ \E r \in {"idle", "guard", "reply"} :
               socket' = [socket EXCEPT ![s] = Shows(s, u, now + life, socket[s].conn, r)]
    BY <1>5 DEF AuthenticateValid
  <2>2. /\ socket'[s].conn = socket[s].conn /\ socket'[s].user = u
        /\ \A x \in Sockets : x # s => socket'[x] = socket[x]
    BY <2>1, <1>t DEF Shows
  <2> QED BY <2>1, <2>2, SwapKeeps
<1>6. ASSUME NEW s \in Sockets, AuthenticateInvalid(s) PROVE Goal
  <2>1. /\ socket'[s].conn = socket[s].conn /\ socket'[s].user = NoUser
        /\ \A x \in Sockets : x # s => socket'[x] = socket[x]
    BY <1>6, <1>t, <1>o DEF AuthenticateInvalid, Shows
  <2>2. Swap(s, NoUser)
    BY <1>6 DEF AuthenticateInvalid
  <2> QED BY <2>1, <2>2, SwapKeeps
<1>7. ASSUME NEW s \in Sockets, ActMessage(s) PROVE Goal
  BY <1>7, <1>t DEF ActMessage, Admits, On
<1>8. ASSUME NEW s \in Sockets, ActRefused(s) \/ ActWrites(s) PROVE Goal
  <2>1. /\ socket' = socket /\ \A x \in Sockets : x # s => act'[x] = act[x]
        /\ act'[s].checked = act[s].checked /\ act'[s].swapped = act[s].swapped
        /\ act'[s].by \subseteq act[s].by \cup {socket[s].user} /\ act[s].pc # "idle"
    BY <1>8, <1>t, <1>o DEF ActRefused, ActWrites, ActStates
  <2> QED BY <2>1
<1>9. ASSUME JobRange \/ Tick \/ UNCHANGED vars PROVE Goal
  BY <1>9 DEF JobRange, Tick, vars
<1> QED BY <1>1, <1>2, <1>3, <1>4, <1>5, <1>6, <1>7, <1>8, <1>9 DEF Next

\* Unless its socket takes another user while it is in hand, everything a
\* message writes is written for the user the guard checked.
THEOREM CheckedWrites == Spec => []WritesForChecked
<1>1. Init => ActInv
  BY InitType DEF Init, ActInv, WritesForChecked, ShowsChecked, NoAct
<1>2. ActInv => WritesForChecked
  BY DEF ActInv
<1> QED BY <1>1, <1>2, ActStep, PTL DEF Spec
=============================================================================
