---------------------------- MODULE RoomMembers -----------------------------
(***************************************************************************)
(* One group room (RoomsService, RoomsGateway): who is in it with what     *)
(* role, the messages and the moment of the last one.  A handler checks    *)
(* its caller's rights on what it read outside its transaction, writes,    *)
(* reads the room again and sends it to the members.  Each of these is a   *)
(* step, and the other handlers run in between.  A member that is removed  *)
(* keeps its row, with the role None.  Every user has a socket connected.  *)
(* Left out: sending messages to clients, what is in a message or a file,  *)
(* notifications, image and theme jobs.                                    *)
(***************************************************************************)
EXTENDS Integers, FiniteSets

CONSTANTS
  Users,
  NoUser,
  Calls,       \* handlers in flight
  MaxVersion,  \* bound: changes of the room
  MaxMessage,  \* bound: messages
  MaxWrite     \* bound: changes and messages after which no handler begins

ASSUME ParameterAssumption ==
  /\ NoUser \notin Users /\ MaxVersion \in Nat \ {0}
  /\ MaxMessage \in Nat /\ MaxWrite \in Nat

Messages == 1..MaxMessage
Chiefs == {"Administrator", "Moderator"}
Active == Chiefs \cup {"Member"}
Roles == Active \cup {"None", "absent"}   \* absent: no row

VARIABLES
  room,     \* "none", "open" or "deleted"
  role,     \* room_members.role
  version,  \* history: changes of the room so far; stands for its contents
  changed,  \* history: per user, the change that last wrote its row
  shown,    \* per user, the contents its client last received; 0 for none
  stamped,  \* messages that got their createdAt: 1..stamped, in that order
  author,   \* per message; the user that wrote it
  sent,     \* committed messages
  blank,    \* deleted ones: content null, type None
  activity, \* lastActivatedAt: a message's createdAt, or 0 for null
  crossed,  \* history: the last message stamped found another not committed
  call      \* per handler: where it stands and what it is about to write;
            \* "done" is history: it answered, and overlapped no other

vars == <<room, role, version, changed, shown, stamped, author, sent, blank,
          activity, crossed, call>>
members == <<room, role, version, changed>>
chat == <<stamped, author, sent, blank, activity, crossed>>

\* item: the message it is about; seen: the version it read; to: the receivers;
\* alone: nothing else ran since it began.
CallStates == [pc : {"idle", "rename", "write", "fetch", "emit", "delete", "upload",
                     "message", "stamped", "blank", "done"},
               op : {"none", "insert", "restore", "update", "remove"},
               user : Users \cup {NoUser}, target : Users \cup {NoUser}, role : Roles \cup {"unset"},
               item : 0..MaxMessage, seen : 0..MaxVersion, to : SUBSET Users,
               alone : BOOLEAN]

IdleCall == [pc |-> "idle", op |-> "none", user |-> NoUser, target |-> NoUser,
             role |-> "unset", item |-> 0, seen |-> 0, to |-> {}, alone |-> FALSE]

Init ==
  /\ room = "none" /\ role = [u \in Users |-> "absent"]
  /\ version = 0 /\ changed = [u \in Users |-> 0] /\ shown = [u \in Users |-> 0]
  /\ stamped = 0 /\ author = [m \in Messages |-> NoUser] /\ sent = {} /\ blank = {}
  /\ activity = 0 /\ crossed = FALSE
  /\ call = [c \in Calls |-> IdleCall]

InFlight(c) == call[c].pc \notin {"idle", "done"}

Free(c) == ~InFlight(c) /\ room = "open" /\ version + stamped < MaxWrite
MayChange(c) == Free(c) /\ version < MaxVersion

\* A handler begins; from here on nobody who overlaps it is alone.
Begun(c, handler) ==
  [d \in Calls |->
     CASE d = c -> [handler EXCEPT !.seen = version,
                                   !.alone = \A e \in Calls \ {c} : ~InFlight(e)]
       [] d # c /\ InFlight(d) -> [call[d] EXCEPT !.alone = FALSE]
       [] OTHER -> IdleCall]
\* It is over, with an answer or with an error.
Ended(c) == [call EXCEPT ![c] = IdleCall]

Receivers == {u \in Users : role[u] \in Active}

-----------------------------------------------------------------------------
(* The room.                                                               *)

\* createRoom of a group: its creator is a member, someone an administrator.
CreateRoom(c, u) ==
  /\ ~InFlight(c) /\ room = "none"
  /\ \E f \in [Users -> Active \cup {"absent"}] :
       /\ f[u] # "absent" /\ Cardinality({x \in Users : f[x] # "absent"}) >= 2
       /\ \E x \in Users : f[x] = "Administrator"
       /\ role' = f
       /\ call' = [call EXCEPT ![c] = [IdleCall EXCEPT !.pc = "emit", !.user = u, !.seen = 1,
                                        !.to = {x \in Users : f[x] # "absent"}, !.alone = TRUE]]
  /\ room' = "open" /\ version' = 1 /\ changed' = [x \in Users |-> 1]
  /\ UNCHANGED <<shown, chat>>

\* updateRoom: the name is written by the transaction that checked nothing.
UpdateRoomRead(c, u) ==
  /\ MayChange(c) /\ role[u] \in Chiefs
  /\ call' = Begun(c, [IdleCall EXCEPT !.pc = "rename", !.user = u])
  /\ UNCHANGED <<members, shown, chat>>

\* The row it returns is what it sends.
UpdateRoomWrite(c) ==
  /\ call[c].pc = "rename"
  /\ IF room = "open" /\ version < MaxVersion
     THEN /\ version' = version + 1
          /\ call' = [call EXCEPT ![c].pc = "emit", ![c].seen = version + 1, ![c].to = Receivers]
     ELSE room # "open" /\ call' = Ended(c) /\ UNCHANGED version
  /\ UNCHANGED <<room, role, changed, shown, chat>>

DeleteRoomRead(c, u) ==
  /\ Free(c) /\ role[u] = "Administrator"
  /\ call' = Begun(c, [IdleCall EXCEPT !.pc = "delete", !.user = u])
  /\ UNCHANGED <<members, shown, chat>>

\* Everything of the room goes with it; a message being written holds it up.
\* The row it deleted is what it sends, as contents 0.
DeleteRoomWrite(c) ==
  /\ call[c].pc = "delete" /\ room = "open"
  /\ \A d \in Calls : call[d].pc # "stamped"
  /\ room' = "deleted" /\ role' = [u \in Users |-> "absent"]
  /\ changed' = [u \in Users |-> 0]
  /\ sent' = {} /\ blank' = {} /\ activity' = 0
  /\ call' = [call EXCEPT ![c].pc = "emit", ![c].seen = 0, ![c].to = Receivers]
  /\ UNCHANGED <<version, shown, stamped, author, crossed>>

-----------------------------------------------------------------------------
(* Members.                                                                *)

\* createMember: someone who has no row or was removed.
CreateMemberRead(c, u, m, r) ==
  /\ MayChange(c)
  /\ role[u] \in Chiefs /\ role[m] \in {"absent", "None"}
  /\ call' = Begun(c, [IdleCall EXCEPT !.pc = "write", !.user = u, !.target = m, !.role = r,
                          !.op = IF role[m] = "absent" THEN "insert" ELSE "restore"])
  /\ UNCHANGED <<members, shown, chat>>

\* Mutant: a removed member can be changed.
UpdateMemberReadAny(c, u, m, r) ==
  /\ MayChange(c)
  /\ role[u] # "None"
  /\ r # "unset" => role[u] \in Chiefs
  /\ call' = Begun(c, [IdleCall EXCEPT !.pc = "write", !.op = "update", !.user = u,
                                       !.target = m, !.role = r])
  /\ UNCHANGED <<members, shown, chat>>

\* updateMember: a nickname, with or without a role.
UpdateMemberRead(c, u, m, r) ==
  /\ MayChange(c)
  /\ role[u] # "None" /\ role[m] # "None"
  /\ r # "unset" => role[u] \in Chiefs
  /\ ~(r = "Administrator" /\ u # m /\ role[m] = "Administrator" /\ role[u] # "Administrator")
  /\ call' = Begun(c, [IdleCall EXCEPT !.pc = "write", !.op = "update", !.user = u,
                                       !.target = m, !.role = r])
  /\ UNCHANGED <<members, shown, chat>>

\* deleteMember: oneself or someone of no higher role.
DeleteMemberRead(c, u, m) ==
  /\ MayChange(c)
  /\ role[u] # "None" /\ role[m] # "None"
  /\ ~(role[u] \in {"Moderator", "Member"} /\ role[m] = "Administrator")
  /\ ~(role[u] = "Member" /\ u # m /\ role[m] \in Chiefs)
  /\ call' = Begun(c, [IdleCall EXCEPT !.pc = "write", !.op = "remove", !.user = u,
                                       !.target = m, !.role = "None"])
  /\ UNCHANGED <<members, shown, chat>>

\* The row the write leaves: undefined fields are not written, and a new row
\* has the default role.
Written(op, old, new) ==
  CASE new # "unset" -> new
    [] op = "insert" -> "Member"
    [] OTHER -> old

\* Mutant: it sends the room as it was before the write.
MemberWriteUnread(c) ==
  LET h == call[c] IN
  /\ h.pc = "write"
  /\ room = "open" /\ version < MaxVersion
  /\ (h.op = "insert") <=> (role[h.target] = "absent")
  /\ role' = [role EXCEPT ![h.target] = Written(h.op, @, h.role)]
  /\ version' = version + 1 /\ changed' = [changed EXCEPT ![h.target] = version + 1]
  /\ call' = [call EXCEPT ![c] = [IdleCall EXCEPT !.pc = "emit", !.user = h.user,
                            !.seen = version, !.to = Receivers, !.alone = h.alone]]
  /\ UNCHANGED <<room, shown, chat>>

\* A row is inserted where there is none, updated where there is one.
MemberWrite(c) ==
  LET h == call[c] IN
  /\ h.pc = "write"
  /\ room = "open" /\ version < MaxVersion
  /\ (h.op = "insert") <=> (role[h.target] = "absent")
  /\ role' = [role EXCEPT ![h.target] = Written(h.op, @, h.role)]
  /\ version' = version + 1 /\ changed' = [changed EXCEPT ![h.target] = version + 1]
  /\ call' = [call EXCEPT ![c] = [IdleCall EXCEPT !.pc = "fetch", !.user = h.user,
                                                !.alone = h.alone]]
  /\ UNCHANGED <<room, shown, chat>>

\* getRoomById after the commit; no room then is an error of the gateway.
Fetch(c) ==
  /\ call[c].pc = "fetch" /\ room = "open"
  /\ call' = [call EXCEPT ![c].pc = "emit", ![c].seen = version, ![c].to = Receivers]
  /\ UNCHANGED <<members, shown, chat>>

\* sendToUsers: the members and the caller; sockets in no room are everyone's.
Emit(c) ==
  LET h == call[c] IN
  /\ h.pc = "emit"
  /\ shown' = [u \in Users |->
                 IF h.to = {} \/ u \in h.to \cup {h.user} THEN h.seen ELSE shown[u]]
  /\ call' = [call EXCEPT ![c] = IF h.alone THEN [IdleCall EXCEPT !.pc = "done"] ELSE IdleCall]
  /\ UNCHANGED <<members, chat>>

-----------------------------------------------------------------------------
(* Messages.                                                               *)

MessageOpen(d) == call[d].pc = "stamped"

\* Mutant: any row in the room will do.
CreateMessageReadAny(c, u) ==
  /\ Free(c) /\ stamped < MaxMessage /\ role[u] # "absent"
  /\ call' = Begun(c, [IdleCall EXCEPT !.pc = "message", !.user = u])
  /\ UNCHANGED <<members, shown, chat>>

\* createMessage: a member writes one.
CreateMessageRead(c, u) ==
  /\ Free(c) /\ stamped < MaxMessage /\ role[u] \in Active
  /\ call' = Begun(c, [IdleCall EXCEPT !.pc = "message", !.user = u])
  /\ UNCHANGED <<members, shown, chat>>

\* createMessageFiles: the files come first
CreateMessageFilesRead(c, u) ==
  /\ Free(c) /\ stamped < MaxMessage /\ role[u] \in Active
  /\ call' = Begun(c, [IdleCall EXCEPT !.pc = "upload", !.user = u])
  /\ UNCHANGED <<members, shown, chat>>

\* and must be at Dropbox, or some of them; else the handler throws.
FilesUpload(c) ==
  /\ call[c].pc = "upload"
  /\ call' = [call EXCEPT ![c].pc = "message"]
  /\ UNCHANGED <<members, shown, chat>>

\* The row gets its createdAt; nobody sees it before the commit.
Stamp(c) ==
  /\ call[c].pc = "message" /\ room = "open" /\ stamped < MaxMessage
  /\ stamped' = stamped + 1 /\ author' = [author EXCEPT ![stamped + 1] = call[c].user]
  /\ crossed' = (crossed \/ \E d \in Calls : MessageOpen(d))
  /\ call' = [call EXCEPT ![c].pc = "stamped", ![c].item = stamped + 1]
  /\ UNCHANGED <<members, shown, sent, blank, activity>>

\* Mutant: the room keeps the moment of its first message.
CommitOnce(c) ==
  LET m == call[c].item IN
  /\ call[c].pc = "stamped"
  /\ sent' = sent \cup {m} /\ activity' = IF activity = 0 THEN m ELSE activity
  /\ crossed' = (crossed /\ ~(m = stamped /\ \A d \in Calls \ {c} : ~MessageOpen(d)))
  /\ call' = Ended(c)
  /\ UNCHANGED <<members, shown, stamped, author, blank>>

\* The room's lastActivatedAt is set to it, and both are committed.
Commit(c) ==
  LET m == call[c].item IN
  /\ call[c].pc = "stamped"
  /\ sent' = sent \cup {m} /\ activity' = m
  /\ crossed' = (crossed /\ ~(m = stamped /\ \A d \in Calls \ {c} : ~MessageOpen(d)))
  /\ call' = Ended(c)
  /\ UNCHANGED <<members, shown, stamped, author, blank>>

\* deleteMessage: one's own, or as a chief; an administrator's not as a moderator.
MayBlank(u, m) ==
  /\ role[u] \in Chiefs \/ (role[u] = "Member" /\ author[m] = u)
  /\ ~(role[u] = "Moderator" /\ role[author[m]] = "Administrator")

DeleteMessageRead(c, u, m) ==
  /\ ~InFlight(c) /\ m \in sent \ blank /\ MayBlank(u, m)
  /\ call' = Begun(c, [IdleCall EXCEPT !.pc = "blank", !.user = u, !.item = m])
  /\ UNCHANGED <<members, shown, chat>>

DeleteMessageWrite(c) ==
  /\ call[c].pc = "blank" /\ call[c].item \in sent
  /\ blank' = blank \cup {call[c].item}
  /\ call' = Ended(c)
  /\ UNCHANGED <<members, shown, stamped, author, sent, activity, crossed>>

\* A handler fails before it has sent anything: a row it writes is gone, the
\* database refuses, or the process stops.  What it committed stays.
Throw(c) ==
  /\ InFlight(c)
  /\ call' = Ended(c)
  /\ UNCHANGED <<members, shown, chat>>

-----------------------------------------------------------------------------
MemberStep(c) ==
  \/ \E u, m \in Users :
       \/ \E r \in {"Moderator", "Member", "unset"} : CreateMemberRead(c, u, m, r)
       \/ \E r \in Active \cup {"unset"} : UpdateMemberRead(c, u, m, r)
       \/ DeleteMemberRead(c, u, m)
  \/ MemberWrite(c) \/ Fetch(c) \/ Emit(c) \/ Throw(c)
RoomStep(c) ==
  \/ \E u \in Users : CreateRoom(c, u) \/ UpdateRoomRead(c, u) \/ DeleteRoomRead(c, u)
  \/ UpdateRoomWrite(c) \/ DeleteRoomWrite(c)
MessageStep(c) ==
  \/ \E u \in Users : \/ CreateMessageRead(c, u) \/ CreateMessageFilesRead(c, u)
                      \/ \E m \in sent : DeleteMessageRead(c, u, m)
  \/ FilesUpload(c) \/ Stamp(c) \/ Commit(c) \/ DeleteMessageWrite(c)
Next == \E c \in Calls : MemberStep(c) \/ RoomStep(c) \/ MessageStep(c)

Spec == Init /\ [][Next]_vars

-----------------------------------------------------------------------------
(* Properties.                                                             *)

\* Rows, messages and handlers keep their types; blank messages were sent, and
\* a message is either being written or sent.
TypeOK ==
  /\ room \in {"none", "open", "deleted"} /\ role \in [Users -> Roles]
  /\ version \in 0..MaxVersion /\ changed \in [Users -> 0..version]
  /\ shown \in [Users -> 0..version]
  /\ stamped \in 0..MaxMessage /\ author \in [Messages -> Users \cup {NoUser}]
  /\ sent \subseteq 1..stamped /\ blank \subseteq sent /\ activity \in 0..stamped
  /\ crossed \in BOOLEAN /\ call \in [Calls -> CallStates]
  /\ \A c \in Calls : MessageOpen(c) => room = "open" /\ call[c].item \in (1..stamped) \ sent

\* Somebody who was removed comes back through createMember, or through an
\* updateMember that read the row before the removal: never through one that
\* read it afterwards.
RemovedStaysRemoved ==
  [][\A m \in Users : role[m] = "None" /\ role'[m] \in Active =>
       \E c \in Calls : /\ call[c].pc = "write" /\ call'[c].pc # "write"
                        /\ call[c].target = m
                        /\ call[c].op = "restore" \/ changed[m] > call[c].seen]_vars

\* A new message is its author's only if the author is in the room, or was when
\* the handler looked and has been removed since.
MessagesByMembers ==
  [][\A m \in sent' \ sent :
       \/ role[author[m]] \in Active
       \/ \E c \in Calls : MessageOpen(c) /\ call[c].item = m
                           /\ changed[author[m]] > call[c].seen]_vars

\* When a handler that overlapped no other is through, every member's client
\* shows the room as it is.
UndisturbedChangeShown ==
  \A c \in Calls : call[c].pc = "done" =>
    \A u \in Receivers : shown[u] = version

\* With no message being written lastActivatedAt is the moment of the newest
\* message, unless it was written while another was (then the slower of the
\* two may have put it back).
ActivityIsNewest ==
  ~crossed /\ (\A c \in Calls : ~MessageOpen(c)) =>
    activity \in sent \cup {0} /\ \A m \in sent : m <= activity
=============================================================================
