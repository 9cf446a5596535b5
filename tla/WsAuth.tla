------------------------------- MODULE WsAuth -------------------------------
(***************************************************************************)
(* How the socket.io gateways keep their clients authenticated             *)
(* (WsAuthGateway, WsAuthService and the guards), for one namespace.  A    *)
(* connected socket waits in a Redis sorted set, scored by the moment its  *)
(* token should be renewed.  Every minute a job is to take the due ones    *)
(* out and ask each for a new token; its query fails every time, so what   *)
(* the code has after it is never run and is not here.                     *)
(*                                                                         *)
(* The process has one Redis connection, so its commands take effect in    *)
(* the order they are issued; what may happen in between is any other      *)
(* handler, before the code after an await runs.                           *)
(***************************************************************************)
EXTENDS Integers

CONSTANTS
  Sockets,       \* socket ids; socket.io never uses one twice
  Users,
  NoUser,        \* an undefined client.user
  SocketOffset,  \* REFRESH_TOKEN_SOCKET_OFFSET
  CronPeriod,    \* one minute in the code
  Lives,         \* how long a token may still be valid when it is sent
  MaxTime        \* bound: clock

ASSUME ParameterAssumption ==
  /\ NoUser \notin Users
  /\ SocketOffset \in Nat /\ CronPeriod \in Nat \ {0} /\ MaxTime \in Nat
  /\ Lives \subseteq Nat \ {0}

VARIABLES
  now,
  socket,  \* per id: the connection, what authenticate() left on it, and
           \* where its `authenticate' message stands (renew)
  act,     \* per id: a createMessage in hand
  listed,  \* members of the sorted set auth:<namespace>
  score,   \* their scores
  job,     \* taskAuthenticate
  due,     \* history: when the newest valid token was to be renewed
  slipped, \* history: sockets whose newest token Redis did not take
  loose    \* history: sockets that left in a way that may leave their entry

vars == <<now, socket, act, listed, score, job, due, slipped, loose>>

NoExpiry == -1

SocketStates == [conn : {"new", "on", "off"}, user : Users \cup {NoUser}, expires : Int,
                 asking : BOOLEAN, renew : {"idle", "guard", "reply"}]

\* checked: whose stamp the guard looks at; by: for whom something was written;
\* swapped (history): the socket took another user meanwhile.
ActStates == [pc : {"idle", "guard", "files"}, checked : Users \cup {NoUser},
              by : SUBSET Users, swapped : BOOLEAN]

NoAct == [pc |-> "idle", checked |-> NoUser, by |-> {}, swapped |-> FALSE]
NoSocket(c) == [conn |-> c, user |-> NoUser, expires |-> NoExpiry,
                asking |-> FALSE, renew |-> "idle"]

Init ==
  /\ now = 0
  /\ socket = [s \in Sockets |-> NoSocket("new")]
  /\ act = [s \in Sockets |-> NoAct]
  /\ listed = {} /\ score = [s \in Sockets |-> 0]
  /\ job = "idle"
  /\ due = [s \in Sockets |-> 0] /\ slipped = {} /\ loose = {}

On(s) == socket[s].conn = "on"
Authenticated(s) == socket[s].user # NoUser

-----------------------------------------------------------------------------
(* What the handlers share.                                                *)

\* socket.isExpires(): no expiry counts as expired.  The guard passes no
\* milliseconds, so any other makes an invalid date, which is before nothing.
IsExpires(s) == socket[s].expires = NoExpiry

\* Mutant: a member that is there keeps its score (NX).
ZAddAuthNX(s, e) ==
  /\ listed' = listed \cup {s}
  /\ score' = IF s \in listed THEN score ELSE [score EXCEPT ![s] = e - SocketOffset]

\* zAddAuth after a token valid until e.
ZAddAuth(s, e) ==
  /\ listed' = listed \cup {s}
  /\ score' = [score EXCEPT ![s] = e - SocketOffset]

\* Mutant: the entry goes only while the token is valid.
ZRemAuthIfValid(s) ==
  listed' = IF Authenticated(s) /\ now < socket[s].expires THEN listed \ {s} ELSE listed

\* handleDisconnect removes the entry if the principal is authenticated.
ZRemAuth(s) == listed' = IF Authenticated(s) THEN listed \ {s} ELSE listed

\* A token of u valid until e, or none (NoUser), is what the socket shows now.
Shows(s, u, e, conn, renew) ==
  [conn |-> conn, user |-> u, expires |-> e, asking |-> socket[s].asking, renew |-> renew]
Swap(s, u) ==
  act' = [act EXCEPT ![s].swapped = @ \/ (act[s].pc # "idle" /\ act[s].checked # u)]

-----------------------------------------------------------------------------
(* Connections.                                                            *)

\* handleConnection: the token is verified and the socket listed, or the
\* socket disconnected.  Nobody catches an error of Redis: see Stop.
HandleConnection(s) ==
  /\ socket[s].conn = "new"
  /\ \/ \E u \in Users, life \in Lives :
          /\ socket' = [socket EXCEPT ![s] = Shows(s, u, now + life, "on", "idle")]
          /\ ZAddAuth(s, now + life)
          /\ due' = [due EXCEPT ![s] = (now + life) - SocketOffset]
     \/ /\ socket' = [socket EXCEPT ![s].conn = "off"]
        /\ UNCHANGED <<listed, score, due>>
  /\ UNCHANGED <<now, act, job, slipped, loose>>

\* A disconnect and the handleDisconnect that follows; messages in hand run on.
Leave(s) ==
  /\ socket' = [socket EXCEPT ![s].conn = "off"]
  /\ ZRemAuth(s)
  /\ loose' = IF Authenticated(s) /\ socket[s].renew # "guard" THEN loose ELSE loose \cup {s}
  /\ UNCHANGED <<now, act, score, job, due, slipped>>

\* The client goes away.
HandleDisconnect(s) == On(s) /\ Leave(s)

\* WsJwtAuthGuard for any message: an expired socket is disconnected, and the
\* message refused because such a socket has no user either.
GuardDisconnects(s) == On(s) /\ IsExpires(s) /\ Leave(s)

\* The process stops, also on an error of Redis in handleConnection or
\* handleDisconnect; the sorted set stays.
Stop ==
  /\ socket' = [s \in Sockets |-> IF socket[s].conn = "new" THEN socket[s] ELSE NoSocket("off")]
  /\ act' = [s \in Sockets |-> NoAct]
  /\ job' = "idle"
  /\ loose' = loose \cup {s \in Sockets : On(s)}
  /\ UNCHANGED <<now, listed, score, due, slipped>>

-----------------------------------------------------------------------------
(* Messages.  A socket has one of either kind in hand at a time.           *)

\* WsJwtAuthGuard lets a message pass, and WsSecurityGuard awaits the stamp.
Admits(s) == On(s) /\ ~IsExpires(s) /\ Authenticated(s)

AuthenticateMessage(s) ==
  /\ Admits(s) /\ socket[s].renew = "idle"
  /\ socket' = [socket EXCEPT ![s].renew = "guard"]
  /\ UNCHANGED <<now, act, listed, score, job, due, slipped, loose>>

\* WsSecurityGuard refuses the message, or fails.
AuthenticateRefused(s) ==
  /\ socket[s].renew = "guard"
  /\ socket' = [socket EXCEPT ![s].renew = "idle"]
  /\ UNCHANGED <<now, act, listed, score, job, due, slipped, loose>>

\* Mutant: the user is kept in the service instead of on the socket.
AuthenticateValidShared(s) ==
  /\ socket[s].renew = "guard"
  /\ \E u \in Users, life \in Lives :
       /\ socket' = [x \in Sockets |->
                       IF x = s THEN Shows(s, u, now + life, socket[s].conn, "reply")
                       ELSE IF Authenticated(x) THEN [socket[x] EXCEPT !.user = u] ELSE socket[x]]
       /\ Swap(s, u)
       /\ ZAddAuth(s, now + life)
       /\ due' = [due EXCEPT ![s] = (now + life) - SocketOffset]
  /\ slipped' = slipped \ {s}
  /\ UNCHANGED <<now, job, loose>>

\* The handler with a valid token: the socket is listed anew, also one that
\* left meanwhile, and the answer of Redis awaited; an error ends the message.
AuthenticateValid(s) ==
  /\ socket[s].renew = "guard"
  /\ \E u \in Users, life \in Lives :
       /\ Swap(s, u)
       /\ due' = [due EXCEPT ![s] = (now + life) - SocketOffset]
       /\ \/ /\ socket' = [socket EXCEPT ![s] = Shows(s, u, now + life, socket[s].conn, "reply")]
             /\ ZAddAuth(s, now + life)
             /\ slipped' = slipped \ {s}
          \/ /\ socket' = [socket EXCEPT ![s] = Shows(s, u, now + life, socket[s].conn, "idle")]
             /\ slipped' = slipped \cup {s}
             /\ UNCHANGED <<listed, score>>
  /\ UNCHANGED <<now, job, loose>>

\* The handler with any other token forgets the user and changes nothing else.
AuthenticateInvalid(s) ==
  /\ socket[s].renew = "guard"
  /\ socket' = [socket EXCEPT ![s] = Shows(s, NoUser, NoExpiry, socket[s].conn, "idle")]
  /\ Swap(s, NoUser)
  /\ UNCHANGED <<now, listed, score, job, due, slipped, loose>>

\* Redis answered: isAuthenticating is cleared.
AuthenticateReply(s) ==
  /\ socket[s].renew = "reply"
  /\ socket' = [socket EXCEPT ![s].renew = "idle", ![s].asking = FALSE]
  /\ UNCHANGED <<now, act, listed, score, job, due, slipped, loose>>

\* createMessage: the guard checks the stamp of the user the socket shows ...
ActMessage(s) ==
  /\ Admits(s) /\ act[s].pc = "idle"
  /\ act' = [act EXCEPT ![s] = [pc |-> "guard", checked |-> socket[s].user,
                                by |-> {}, swapped |-> FALSE]]
  /\ UNCHANGED <<now, socket, listed, score, job, due, slipped, loose>>

ActRefused(s) ==
  /\ act[s].pc = "guard"
  /\ act' = [act EXCEPT ![s].pc = "idle"]
  /\ UNCHANGED <<now, socket, listed, score, job, due, slipped, loose>>

\* ... the text, if any, is written for the user it shows when the guards are
\* done, and each kind of file for the one it shows when the kind before is
\* through.  Without a user the handler throws.
ActWrites(s) ==
  /\ act[s].pc # "idle"
  /\ \/ /\ Authenticated(s)
        /\ \E pc \in {"files", "idle"} :
             act' = [act EXCEPT ![s].pc = pc, ![s].by = @ \cup {socket[s].user}]
     \/ /\ act[s].pc = "guard"
        /\ act' = [act EXCEPT ![s].pc = "files"]
     \/ act' = [act EXCEPT ![s].pc = "idle"]
  /\ UNCHANGED <<now, socket, listed, score, job, due, slipped, loose>>

-----------------------------------------------------------------------------
(* The job and the clock.                                                  *)

\* taskAuthenticate: zGetAndRemByExpires gets no milliseconds, its cutoff is an
\* invalid date, Redis refuses the range `(NaN', and the error ends the job.
JobRange ==
  /\ job = "start" /\ job' = "idle"
  /\ UNCHANGED <<now, socket, act, listed, score, due, slipped, loose>>

\* The job starts at every multiple of its period.
Tick ==
  /\ now < MaxTime /\ job = "idle"
  /\ now' = now + 1
  /\ job' = IF (now + 1) % CronPeriod = 0 THEN "start" ELSE "idle"
  /\ UNCHANGED <<socket, act, listed, score, due, slipped, loose>>

Next ==
  \/ \E s \in Sockets : \/ HandleConnection(s)
                        \/ HandleDisconnect(s)
                        \/ GuardDisconnects(s)
                        \/ AuthenticateMessage(s)
                        \/ AuthenticateRefused(s)
                        \/ AuthenticateValid(s)
                        \/ AuthenticateInvalid(s)
                        \/ AuthenticateReply(s)
                        \/ ActMessage(s)
                        \/ ActRefused(s)
                        \/ ActWrites(s)
  \/ Stop \/ JobRange \/ Tick

Spec == Init /\ [][Next]_vars

-----------------------------------------------------------------------------
(* Properties.                                                             *)

TypeOK ==
  /\ now \in Nat
  /\ socket \in [Sockets -> SocketStates]
  /\ act \in [Sockets -> ActStates]
  /\ listed \subseteq Sockets /\ score \in [Sockets -> Int]
  /\ job \in {"idle", "start"}
  /\ due \in [Sockets -> Int] /\ slipped \subseteq Sockets /\ loose \subseteq Sockets

\* Every connected socket is in the sorted set, be its token renewed, refused
\* or expired, and waits there for the renewal of the newest valid token it
\* sent, unless Redis did not take that one.
ConnectedAreListed ==
  \A s \in Sockets : On(s) => /\ s \in listed
                              /\ s \notin slipped => score[s] = due[s]

\* Nothing but a disconnect takes an entry out.  One whose socket is gone is
\* left only by a socket that had lost its user, or had an `authenticate'
\* message before its handler, when it left, or by a process that stopped.
LeftEntriesExplained ==
  \A s \in listed : On(s) \/ s \in loose

\* What createMessage writes after its awaits, it writes for the user whose
\* stamp the guard looked at, unless the socket took another one meanwhile.
WritesForChecked ==
  \A s \in Sockets : ~act[s].swapped => act[s].by \subseteq {act[s].checked}

\* README: the server asks for a new token when the remaining time reaches the
\* offset.  The job runs once a period, so the socket is asked, or gone, a
\* period later, and by the end of the next one even if the job is slow.
AskedInTime ==
  \A s \in Sockets : On(s) /\ now > due[s] + 2 * CronPeriod => socket[s].asking
=============================================================================
