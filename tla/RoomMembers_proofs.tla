------------------------- MODULE RoomMembers_proofs -------------------------
(***************************************************************************)
(* The properties of RoomMembers, for any number of users, handlers,       *)
(* changes and messages.  The invariant records what a handler knows while *)
(* others run: what it read still holds or was changed since (Rights,      *)
(* Targets), its message is nobody else's (OwnMessages), and as long as it *)
(* is alone the room is as it last saw it (Alone, Fresh).                  *)
(*                                                                         *)
(* After them those of Images, of rooms and of users, for any number of    *)
(* changes and any times, and that its jobs are those of JobQueue.         *)
(***************************************************************************)
EXTENDS RoomMembers, Images, SequenceTheorems, TLAPS

\* No handler read a version that was not there yet.
SeenBefore == \A c \in Calls : call[c].seen <= version

\* Outside its life the room has no members, no messages and, before it, no handlers.
Closed ==
  /\ room # "open" => sent = {} /\ \A u \in Users : role[u] = "absent"
  /\ room = "none" => version = 0 /\ \A c \in Calls : call[c].pc = "idle"

Writing(c) == call[c].pc \in {"upload", "message", "stamped"}

\* Who is about to write a message is in the room or has been changed since.
Rights ==
  \A c \in Calls : Writing(c) /\ room = "open" =>
    /\ call[c].user \in Users
    /\ role[call[c].user] \in Active \/ changed[call[c].user] > call[c].seen

\* The row about to be written: what createMember, updateMember, deleteMember found.
Targets ==
  \A c \in Calls : call[c].pc = "write" =>
    /\ call[c].target \in Users /\ call[c].op # "none"
    /\ call[c].op = "remove" => call[c].role = "None"
    /\ call[c].op = "update" /\ room = "open" =>
         role[call[c].target] # "None" \/ changed[call[c].target] > call[c].seen

OwnMessages ==
  \A c \in Calls : MessageOpen(c) =>
    /\ author[call[c].item] = call[c].user
    /\ \A d \in Calls : MessageOpen(d) /\ call[d].item = call[c].item => c = d

\* Without a crossing, the message being written is the last one stamped.
Newest ==
  /\ activity \in sent \cup {0}
  /\ ~crossed => /\ \A c \in Calls : MessageOpen(c) => call[c].item = stamped
                 /\ \A m \in sent : m <= activity

Alone ==
  \A c, d \in Calls : InFlight(c) /\ call[c].alone /\ InFlight(d) => c = d

\* What a handler that is alone is about to send is the room as it is.
Fresh ==
  \A c \in Calls : call[c].pc = "emit" /\ call[c].alone /\ room = "open" =>
    call[c].to = Receivers /\ call[c].seen = version

\* After one that was, no other handler runs, and the members have it.
Answered ==
  \A c \in Calls : call[c].pc = "done" =>
    /\ \A d \in Calls : ~InFlight(d)
    /\ \A u \in Receivers : shown[u] = version

IInv ==
  /\ TypeOK /\ SeenBefore /\ Closed /\ Rights /\ Targets
  /\ OwnMessages /\ Newest /\ Alone /\ Fresh /\ Answered

LEMMA IdleIsState == IdleCall \in CallStates /\ IdleCall.pc = "idle"
  BY ParameterAssumption DEF IdleCall, CallStates, Roles

LEMMA InitInv == Init => IInv
<1> SUFFICES ASSUME Init PROVE IInv
  OBVIOUS
<1>1. TypeOK
  <2>1. call \in [Calls -> CallStates] /\ \A c \in Calls : ~MessageOpen(c)
    BY IdleIsState DEF Init, MessageOpen
  <2>2. role \in [Users -> Roles] /\ author \in [Messages -> Users \cup {NoUser}]
    BY DEF Init, Roles
  <2>3. /\ version = 0 /\ stamped = 0 /\ sent = {} /\ blank = {} /\ activity = 0
        /\ changed = [u \in Users |-> 0] /\ shown = [u \in Users |-> 0]
        /\ crossed = FALSE /\ room = "none"
    BY DEF Init
  <2>4. changed \in [Users -> 0..version] /\ shown \in [Users -> 0..version]
    BY <2>3
  <2>5. version \in 0..MaxVersion /\ stamped \in 0..MaxMessage
    BY <2>3, ParameterAssumption
  <2>6. sent \subseteq 1..stamped /\ blank \subseteq sent
    BY <2>3
  <2>7. activity \in 0..stamped
    BY <2>3
  <2>9. crossed \in BOOLEAN
    BY <2>3
  <2>8. room \in {"none", "open", "deleted"}
    BY <2>3
  <2> QED
    BY <2>1, <2>2, <2>4, <2>5, <2>6, <2>7, <2>8, <2>9 DEF TypeOK
<1>2. \A c \in Calls : call[c].pc = "idle" /\ call[c].seen = 0
  BY DEF Init, IdleCall
<1>3. SeenBefore /\ Closed /\ Rights /\ Targets /\ OwnMessages /\ Newest /\ Alone /\ Fresh
      /\ Answered
  BY <1>2 DEF Init, SeenBefore, Closed, Rights, Targets, OwnMessages, Newest, Alone, Fresh,
              Answered, Writing, MessageOpen, InFlight
<1> QED
  BY <1>1, <1>3 DEF IInv

-----------------------------------------------------------------------------
(* A handler begins.                                                       *)

\* What a call knows apart from whether it is alone.
SameBut(d) ==
  /\ call'[d].pc = call[d].pc /\ call'[d].op = call[d].op /\ call'[d].user = call[d].user
  /\ call'[d].target = call[d].target /\ call'[d].role = call[d].role
  /\ call'[d].item = call[d].item /\ call'[d].seen = call[d].seen /\ call'[d].to = call[d].to

\* The members do not change, and the handlers about to write are as they were.
LEMMA TargetsKept ==
  ASSUME Targets, UNCHANGED <<room, role, changed>>,
         \A d \in Calls : call'[d].pc = "write" => call[d].pc = "write" /\ call'[d] = call[d]
  PROVE  Targets'
<1> SUFFICES ASSUME NEW d \in Calls, call'[d].pc = "write"
             PROVE  /\ call'[d].target \in Users /\ call'[d].op # "none"
                    /\ call'[d].op = "remove" => call'[d].role = "None"
                    /\ call'[d].op = "update" /\ room' = "open" =>
                         role'[call'[d].target] # "None" \/ changed'[call'[d].target] > call'[d].seen
  BY DEF Targets
<1>1. call[d].pc = "write" /\ call'[d] = call[d]
  OBVIOUS
<1> QED
  BY <1>1 DEF Targets

\* Nothing is sent, and the handlers about to commit a message are as they were.
LEMMA MessagesKept ==
  ASSUME OwnMessages, Newest, UNCHANGED <<stamped, author, sent, activity, crossed>>,
         \A d \in Calls : MessageOpen(d)' => MessageOpen(d) /\ call'[d] = call[d]
  PROVE  OwnMessages' /\ Newest'
<1>1. OwnMessages'
  BY DEF OwnMessages
<1>2. Newest'
  BY DEF Newest
<1> QED
  BY <1>1, <1>2

LEMMA BegunCalls ==
  ASSUME TypeOK, NEW c \in Calls, NEW h \in CallStates, call' = Begun(c, h)
  PROVE  /\ call' \in [Calls -> CallStates]
         /\ call'[c].pc = h.pc /\ call'[c].op = h.op /\ call'[c].user = h.user
         /\ call'[c].target = h.target /\ call'[c].role = h.role /\ call'[c].item = h.item
         /\ call'[c].seen = version
         /\ call'[c].alone => \A d \in Calls \ {c} : ~InFlight(d)
         /\ \A d \in Calls \ {c} :
              \/ InFlight(d) /\ SameBut(d) /\ call'[d].alone = FALSE
              \/ ~InFlight(d) /\ call'[d] = IdleCall
<1> DEFINE others == \A e \in Calls \ {c} : ~InFlight(e)
           mine == [h EXCEPT !.seen = version, !.alone = others]
<1>1. version \in 0..MaxVersion /\ call \in [Calls -> CallStates]
  BY DEF TypeOK
<1>2. /\ mine \in CallStates /\ mine.pc = h.pc /\ mine.op = h.op /\ mine.user = h.user
      /\ mine.target = h.target /\ mine.role = h.role /\ mine.item = h.item
      /\ mine.seen = version /\ mine.alone = others
  BY <1>1 DEF CallStates
<1>3. \A d \in Calls : [call[d] EXCEPT !.alone = FALSE] \in CallStates
  BY <1>1 DEF CallStates
<1>4. call'[c] = mine
  BY DEF Begun
<1>5. ASSUME NEW d \in Calls \ {c}
      PROVE  /\ call'[d] \in CallStates
             /\ \/ InFlight(d) /\ SameBut(d) /\ call'[d].alone = FALSE
                \/ ~InFlight(d) /\ call'[d] = IdleCall
  <2>1. CASE InFlight(d)
    <3>1. call'[d] = [call[d] EXCEPT !.alone = FALSE]
      BY <2>1 DEF Begun
    <3>2. call[d] \in CallStates
      BY <1>1
    <3> QED
      BY <2>1, <3>1, <3>2, <1>3 DEF SameBut, CallStates
  <2>2. CASE ~InFlight(d)
    BY <2>2, IdleIsState DEF Begun
  <2> QED
    BY <2>1, <2>2
<1>6. DOMAIN call' = Calls /\ call' = [d \in Calls |-> call'[d]]
  BY DEF Begun
<1>7. \A d \in Calls : call'[d] \in CallStates
  BY <1>2, <1>4, <1>5
<1> HIDE DEF mine
<1>8. call' \in [Calls -> CallStates]
  BY <1>6, <1>7
<1> QED
  BY <1>2, <1>4, <1>5, <1>8

\* What a handler that begins must have read.
Entitled(h) ==
  /\ h.pc \in {"rename", "write", "delete", "upload", "message", "blank"}
  /\ h.pc \in {"upload", "message"} => h.user \in Users /\ role[h.user] \in Active
  /\ h.pc = "write" => /\ h.target \in Users /\ h.op # "none"
                       /\ h.op = "remove" => h.role = "None"
                       /\ h.op = "update" => role[h.target] # "None"

LEMMA BeginKeeps ==
  ASSUME IInv, NEW c \in Calls, NEW h \in CallStates, ~InFlight(c), room = "open",
         Entitled(h), call' = Begun(c, h), UNCHANGED <<members, shown, chat>>
  PROVE  IInv'
<1>1. /\ call' \in [Calls -> CallStates]
      /\ call'[c].pc = h.pc /\ call'[c].op = h.op /\ call'[c].user = h.user
      /\ call'[c].target = h.target /\ call'[c].role = h.role /\ call'[c].item = h.item
      /\ call'[c].seen = version
      /\ call'[c].alone => \A d \in Calls \ {c} : ~InFlight(d)
      /\ \A d \in Calls \ {c} :
           \/ InFlight(d) /\ SameBut(d) /\ call'[d].alone = FALSE
           \/ ~InFlight(d) /\ call'[d] = IdleCall
  BY BegunCalls DEF IInv
<1>2. /\ UNCHANGED <<room, role, version, changed, shown, stamped, author, sent, blank,
                      activity, crossed>>
      /\ UNCHANGED Receivers
  BY DEF members, chat, Receivers
<1>3. IdleCall.pc = "idle" /\ IdleCall.seen = 0
  BY DEF IdleCall
<1>4. \A d \in Calls : (MessageOpen(d)' <=> MessageOpen(d) /\ d # c)
                       /\ (MessageOpen(d)' => SameBut(d))
  BY <1>1, <1>3 DEF MessageOpen, SameBut, InFlight, Entitled
<1>5. \A d \in Calls \ {c} : InFlight(d)' => InFlight(d) /\ SameBut(d) /\ call'[d].alone = FALSE
  BY <1>1, <1>3 DEF InFlight
<1>6. \A d \in Calls : ~MessageOpen(d) \/ d # c
  BY DEF MessageOpen, InFlight
<1>a. TypeOK'
  BY <1>1, <1>2, <1>4 DEF IInv, TypeOK, SameBut
<1>b. SeenBefore'
  <2> SUFFICES ASSUME NEW d \in Calls PROVE call'[d].seen <= version
    BY <1>2 DEF SeenBefore
  <2> version \in Nat /\ 0 <= version
    BY DEF IInv, TypeOK
  <2> QED
    BY <1>1, <1>3 DEF IInv, SeenBefore, SameBut
<1>c. Closed'
  BY <1>2 DEF IInv, Closed
<1>d. Rights'
  <2> SUFFICES ASSUME NEW d \in Calls, Writing(d)'
               PROVE  /\ call'[d].user \in Users
                      /\ role[call'[d].user] \in Active \/ changed[call'[d].user] > call'[d].seen
    BY <1>2 DEF Rights
  <2>1. CASE d = c
    BY <2>1, <1>1 DEF Entitled, Writing
  <2>2. CASE d # c
    <3>1. SameBut(d) /\ Writing(d)
      BY <2>2, <1>5 DEF Writing, InFlight, SameBut
    <3> QED
      BY <3>1 DEF IInv, Rights, SameBut
  <2> QED
    BY <2>1, <2>2
<1>e. Targets'
  <2> SUFFICES ASSUME NEW d \in Calls, call'[d].pc = "write"
               PROVE  /\ call'[d].target \in Users /\ call'[d].op # "none"
                      /\ call'[d].op = "remove" => call'[d].role = "None"
                      /\ call'[d].op = "update" =>
                           role[call'[d].target] # "None"
                           \/ changed[call'[d].target] > call'[d].seen
    BY <1>2 DEF Targets
  <2>1. CASE d = c
    BY <2>1, <1>1 DEF Entitled
  <2>2. CASE d # c
    <3>1. SameBut(d) /\ call[d].pc = "write"
      BY <2>2, <1>5 DEF InFlight, SameBut
    <3> QED
      BY <3>1 DEF IInv, Targets, SameBut
  <2> QED
    BY <2>1, <2>2
<1>f. OwnMessages'
  BY <1>2, <1>4 DEF IInv, OwnMessages, SameBut
<1>g. Newest'
  BY <1>2, <1>4 DEF IInv, Newest, SameBut
<1>h. Alone'
  BY <1>1, <1>5 DEF IInv, Alone
<1>i. Fresh'
  <2> SUFFICES ASSUME NEW d \in Calls, call'[d].pc = "emit", call'[d].alone PROVE FALSE
    BY <1>2 DEF Fresh
  <2> QED
    BY <1>1, <1>5 DEF Entitled, InFlight
<1>j. Answered'
  <2> SUFFICES ASSUME NEW d \in Calls, call'[d].pc = "done" PROVE FALSE
    BY DEF Answered
  <2> QED
    BY <1>1, <1>3 DEF Entitled, InFlight, SameBut
<1> QED
  BY <1>a, <1>b, <1>c, <1>d, <1>e, <1>f, <1>g, <1>h, <1>i, <1>j DEF IInv

\* Each handler that begins is entitled to.
LEMMA ReadsKeep ==
  ASSUME IInv, NEW c \in Calls, NEW u \in Users,
         \/ UpdateRoomRead(c, u) \/ DeleteRoomRead(c, u) \/ CreateMessageRead(c, u)
         \/ CreateMessageFilesRead(c, u)
         \/ \E m \in Users : DeleteMemberRead(c, u, m)
         \/ \E m \in Users, r \in {"Moderator", "Member", "unset"} : CreateMemberRead(c, u, m, r)
         \/ \E m \in Users, r \in Active \cup {"unset"} : UpdateMemberRead(c, u, m, r)
         \/ \E m \in sent : DeleteMessageRead(c, u, m)
  PROVE  IInv'
<1> USE IdleIsState DEF MayChange, Free
<1>1. CASE UpdateRoomRead(c, u)
  <2> DEFINE h == [IdleCall EXCEPT !.pc = "rename", !.user = u]
  <2>1. h \in CallStates /\ Entitled(h)
    BY DEF IdleCall, CallStates, Entitled
  <2> HIDE DEF h
  <2> QED
    BY <1>1, <2>1, BeginKeeps DEF UpdateRoomRead, h
<1>2. CASE DeleteRoomRead(c, u)
  <2> DEFINE h == [IdleCall EXCEPT !.pc = "delete", !.user = u]
  <2>1. h \in CallStates /\ Entitled(h)
    BY DEF IdleCall, CallStates, Entitled
  <2> QED
    BY <1>2, <2>1, BeginKeeps DEF DeleteRoomRead
<1>3. CASE CreateMessageRead(c, u)
  <2> DEFINE h == [IdleCall EXCEPT !.pc = "message", !.user = u]
  <2>1. h \in CallStates /\ Entitled(h)
    BY <1>3 DEF IdleCall, CallStates, Entitled, CreateMessageRead
  <2> QED
    BY <1>3, <2>1, BeginKeeps DEF CreateMessageRead
<1>8. CASE CreateMessageFilesRead(c, u)
  <2> DEFINE h == [IdleCall EXCEPT !.pc = "upload", !.user = u]
  <2>1. h \in CallStates /\ Entitled(h)
    BY <1>8 DEF IdleCall, CallStates, Entitled, CreateMessageFilesRead
  <2> QED
    BY <1>8, <2>1, BeginKeeps DEF CreateMessageFilesRead
<1>4. CASE \E m \in Users : DeleteMemberRead(c, u, m)
  <2> PICK m \in Users : DeleteMemberRead(c, u, m)
    BY <1>4
  <2> DEFINE h == [IdleCall EXCEPT !.pc = "write", !.op = "remove", !.user = u,
                                   !.target = m, !.role = "None"]
  <2>1. h \in CallStates /\ Entitled(h)
    BY DEF IdleCall, CallStates, Entitled, Roles
  <2> QED
    BY <2>1, BeginKeeps DEF DeleteMemberRead
<1>5. CASE \E m \in Users, r \in {"Moderator", "Member", "unset"} : CreateMemberRead(c, u, m, r)
  <2> PICK m \in Users, r \in {"Moderator", "Member", "unset"} : CreateMemberRead(c, u, m, r)
    BY <1>5
  <2> DEFINE o == IF role[m] = "absent" THEN "insert" ELSE "restore"
             h == [IdleCall EXCEPT !.pc = "write", !.user = u, !.target = m, !.role = r, !.op = o]
  <2>1. o \in {"insert", "restore"} /\ r \in Roles \cup {"unset"}
    BY DEF Roles, Active, Chiefs
  <2> HIDE DEF o
  <2>2. h \in CallStates /\ Entitled(h)
    BY <2>1 DEF IdleCall, CallStates, Entitled
  <2> QED
    BY <2>2, BeginKeeps DEF CreateMemberRead, o
<1>6. CASE \E m \in Users, r \in Active \cup {"unset"} : UpdateMemberRead(c, u, m, r)
  <2> PICK m \in Users, r \in Active \cup {"unset"} : UpdateMemberRead(c, u, m, r)
    BY <1>6
  <2> DEFINE h == [IdleCall EXCEPT !.pc = "write", !.op = "update", !.user = u,
                                   !.target = m, !.role = r]
  <2>1. h \in CallStates /\ Entitled(h)
    BY DEF IdleCall, CallStates, Entitled, Roles, UpdateMemberRead
  <2> QED
    BY <2>1, BeginKeeps DEF UpdateMemberRead
<1>7. CASE \E m \in sent : DeleteMessageRead(c, u, m)
  <2> PICK m \in sent : DeleteMessageRead(c, u, m)
    BY <1>7
  <2> DEFINE h == [IdleCall EXCEPT !.pc = "blank", !.user = u, !.item = m]
  <2>1. m \in 0..MaxMessage
    BY ParameterAssumption DEF IInv, TypeOK
  <2>2. h \in CallStates /\ Entitled(h)
    BY <2>1 DEF IdleCall, CallStates, Entitled
  <2>3. room = "open"
    BY DEF IInv, Closed
  <2> QED
    BY <2>2, <2>3, BeginKeeps DEF DeleteMessageRead
<1> QED
  BY <1>1, <1>2, <1>3, <1>4, <1>5, <1>6, <1>7, <1>8

-----------------------------------------------------------------------------
(* A handler goes on.                                                      *)

\* A step of one handler that ends it, and changes no member and no contents.
LEMMA EndedCalls ==
  ASSUME TypeOK, NEW c \in Calls, call' = Ended(c)
  PROVE  /\ call' \in [Calls -> CallStates] /\ call'[c].pc = "idle" /\ call'[c].seen = 0
         /\ \A d \in Calls \ {c} : call'[d] = call[d]
  BY IdleIsState DEF TypeOK, Ended, IdleCall

LEMMA EndKeeps ==
  ASSUME IInv, NEW c \in Calls, call' = Ended(c), UNCHANGED <<members, shown>>
  PROVE  SeenBefore' /\ Rights' /\ Targets' /\ Alone' /\ Fresh' /\ Answered'
<1>1. /\ call'[c].pc = "idle" /\ call'[c].seen = 0
      /\ \A d \in Calls \ {c} : call'[d] = call[d]
  BY EndedCalls DEF IInv
<1>2. /\ UNCHANGED <<room, role, version, changed, shown>> /\ UNCHANGED Receivers
  BY DEF members, Receivers
<1>3. version >= 0
  BY DEF IInv, TypeOK
<1>a. SeenBefore'
  BY <1>1, <1>2, <1>3 DEF IInv, SeenBefore
<1>b. Rights' /\ Targets'
  BY <1>1, <1>2 DEF IInv, Rights, Targets, Writing
<1>c. Alone' /\ Fresh'
  BY <1>1, <1>2 DEF IInv, Alone, Fresh, InFlight
<1>d. Answered'
  BY <1>1, <1>2 DEF IInv, Answered, InFlight
<1> QED
  BY <1>a, <1>b, <1>c, <1>d

LEMMA ThrowKeeps == ASSUME IInv, NEW c \in Calls, Throw(c) PROVE IInv'
<1>1. /\ call' \in [Calls -> CallStates] /\ call'[c].pc = "idle"
      /\ \A d \in Calls \ {c} : call'[d] = call[d]
  BY EndedCalls DEF IInv, Throw
<1>2. UNCHANGED <<room, role, version, changed, shown, stamped, author, sent, blank, activity,
                  crossed>>
  BY DEF Throw, members, chat
<1>3. \A d \in Calls : MessageOpen(d)' => MessageOpen(d) /\ call'[d] = call[d]
  BY <1>1 DEF MessageOpen
<1>a. TypeOK'
  BY <1>1, <1>2, <1>3 DEF IInv, TypeOK
<1>b. Closed'
  BY <1>1, <1>2 DEF IInv, Closed
<1>c. OwnMessages' /\ Newest'
  BY <1>2, <1>3 DEF IInv, OwnMessages, Newest
<1> QED
  BY <1>a, <1>b, <1>c, EndKeeps DEF IInv, Throw

LEMMA CommitKeeps == ASSUME IInv, NEW c \in Calls, Commit(c) PROVE IInv'
<1> DEFINE m == call[c].item
<1>1. /\ call' \in [Calls -> CallStates] /\ call'[c].pc = "idle"
      /\ \A d \in Calls \ {c} : call'[d] = call[d]
  BY EndedCalls DEF IInv, Commit
<1>2. /\ UNCHANGED <<room, role, version, changed, shown, stamped, author, blank>>
      /\ sent' = sent \cup {m} /\ activity' = m /\ MessageOpen(c)
      /\ crossed' = (crossed /\ ~(m = stamped /\ \A d \in Calls \ {c} : ~MessageOpen(d)))
  BY DEF Commit, members, MessageOpen
<1>3. \A d \in Calls : MessageOpen(d)' => MessageOpen(d) /\ call'[d] = call[d] /\ d # c
  BY <1>1 DEF MessageOpen
<1>4. room = "open" /\ m \in (1..stamped) \ sent /\ stamped \in Nat /\ sent \subseteq 1..stamped
  BY <1>2 DEF IInv, TypeOK
<1>5. \A d \in Calls : MessageOpen(d)' => call[d].item # m
  BY <1>2, <1>3 DEF IInv, OwnMessages
<1>a. TypeOK'
  <2>1. \A d \in Calls : MessageOpen(d)' =>
          room' = "open" /\ call'[d].item \in (1..stamped') \ sent'
    BY <1>2, <1>3, <1>5 DEF IInv, TypeOK
  <2>2. activity' \in 0..stamped' /\ sent' \subseteq 1..stamped' /\ blank' \subseteq sent'
    <3>1. m \in 0..stamped /\ m \in 1..stamped
      BY <1>4
    <3>2. blank \subseteq sent
      BY DEF IInv, TypeOK
    <3> QED
      BY <3>1, <3>2, <1>2, <1>4
  <2>3. crossed' \in BOOLEAN
    <3>1. CASE m = stamped /\ \A d \in Calls \ {c} : ~MessageOpen(d)
      BY <3>1, <1>2
    <3>2. CASE ~(m = stamped /\ \A d \in Calls \ {c} : ~MessageOpen(d))
      BY <3>2, <1>2 DEF IInv, TypeOK
    <3> QED
      BY <3>1, <3>2
  <2> QED
    BY <1>1, <1>2, <2>1, <2>2, <2>3 DEF IInv, TypeOK
<1>b. Closed'
  BY <1>2, <1>4 DEF Closed
<1>c. OwnMessages'
  BY <1>2, <1>3 DEF IInv, OwnMessages
<1>d. Newest'
  <2>1. CASE m = stamped
    <3>1. \A n \in sent' : n <= activity'
      BY <2>1, <1>2, <1>4
    <3>2. ASSUME ~crossed', NEW d \in Calls, MessageOpen(d)' PROVE call'[d].item = stamped'
      <4>1. d \in Calls \ {c} /\ MessageOpen(d)
        BY <3>2, <1>3
      <4>2. ~crossed
        BY <3>2, <2>1, <4>1, <1>2
      <4> QED
        BY <4>1, <4>2, <1>2, <1>3, <3>2 DEF IInv, Newest
    <3> QED
      BY <3>1, <3>2, <1>2 DEF Newest
  <2>2. CASE m # stamped
    <3>1. crossed
      BY <2>2, <1>2 DEF IInv, Newest
    <3> QED
      BY <3>1, <2>2, <1>2 DEF Newest
  <2> QED
    BY <2>1, <2>2
<1> QED
  BY <1>a, <1>b, <1>c, <1>d, EndKeeps DEF IInv, Commit

LEMMA BlankKeeps == ASSUME IInv, NEW c \in Calls, DeleteMessageWrite(c) PROVE IInv'
<1>1. /\ call' \in [Calls -> CallStates] /\ call'[c].pc = "idle"
      /\ \A d \in Calls \ {c} : call'[d] = call[d]
  BY EndedCalls DEF IInv, DeleteMessageWrite
<1>2. /\ UNCHANGED <<room, role, version, changed, shown, stamped, author, sent, activity, crossed>>
      /\ blank' = blank \cup {call[c].item} /\ call[c].item \in sent
  BY DEF DeleteMessageWrite, members
<1>3. \A d \in Calls : MessageOpen(d)' => MessageOpen(d) /\ call'[d] = call[d]
  BY <1>1 DEF MessageOpen
<1>a. TypeOK'
  BY <1>1, <1>2, <1>3 DEF IInv, TypeOK
<1>b. Closed'
  BY <1>1, <1>2 DEF IInv, Closed
<1>c. OwnMessages' /\ Newest'
  BY <1>2, <1>3 DEF IInv, OwnMessages, Newest
<1> QED
  BY <1>a, <1>b, <1>c, EndKeeps DEF IInv, DeleteMessageWrite

LEMMA UploadKeeps == ASSUME IInv, NEW c \in Calls, FilesUpload(c) PROVE IInv'
<1>1. /\ call[c].pc = "upload" /\ call' = [call EXCEPT ![c].pc = "message"]
      /\ UNCHANGED <<room, role, version, changed, shown, stamped, author, sent, blank, activity,
                     crossed>>
      /\ UNCHANGED Receivers
  BY DEF FilesUpload, members, chat, Receivers
<1>2. call \in [Calls -> CallStates] /\ call[c] \in CallStates
  BY DEF IInv, TypeOK
<1>3. [call[c] EXCEPT !.pc = "message"] \in CallStates
  BY <1>2 DEF CallStates
<1>4. /\ call' \in [Calls -> CallStates] /\ \A d \in Calls \ {c} : call'[d] = call[d]
      /\ call'[c] = [call[c] EXCEPT !.pc = "message"]
  BY <1>1, <1>2, <1>3
<1>5. /\ call'[c].pc = "message" /\ call'[c].user = call[c].user
      /\ call'[c].seen = call[c].seen /\ call'[c].alone = call[c].alone
  BY <1>2, <1>4 DEF CallStates
<1>6. \A d \in Calls : /\ MessageOpen(d)' => MessageOpen(d) /\ call'[d] = call[d]
                       /\ (InFlight(d)' <=> InFlight(d)) /\ (Writing(d)' <=> Writing(d))
                       /\ call'[d].alone = call[d].alone
                       /\ call'[d].seen = call[d].seen /\ call'[d].user = call[d].user
  BY <1>1, <1>4, <1>5 DEF MessageOpen, InFlight, Writing
<1>7. \A d \in Calls : call'[d].pc \in {"write", "emit", "done"} => call'[d] = call[d]
  BY <1>4, <1>5
<1>a. TypeOK' /\ SeenBefore' /\ Closed'
  <2>1. TypeOK'
    BY <1>1, <1>4, <1>6 DEF IInv, TypeOK
  <2>2. SeenBefore' /\ Closed'
    BY <1>1, <1>6 DEF IInv, SeenBefore, Closed, InFlight
  <2> QED
    BY <2>1, <2>2
<1>b. Rights' /\ OwnMessages' /\ Newest'
  BY <1>1, <1>6 DEF IInv, Rights, OwnMessages, Newest
<1>c. Targets'
  BY <1>1, <1>7 DEF IInv, Targets
<1>d. Alone' /\ Fresh' /\ Answered'
  BY <1>1, <1>6, <1>7 DEF IInv, Alone, Fresh, Answered
<1> QED
  BY <1>a, <1>b, <1>c, <1>d DEF IInv

LEMMA StampKeeps == ASSUME IInv, NEW c \in Calls, Stamp(c) PROVE IInv'
<1> DEFINE m == stamped + 1
<1>1. /\ call[c].pc = "message" /\ room = "open" /\ stamped < MaxMessage
      /\ stamped' = m /\ author' = [author EXCEPT ![m] = call[c].user]
      /\ crossed' = (crossed \/ \E d \in Calls : MessageOpen(d))
      /\ call' = [call EXCEPT ![c].pc = "stamped", ![c].item = m]
      /\ UNCHANGED <<room, role, version, changed, shown, sent, blank, activity>>
      /\ UNCHANGED Receivers
  BY DEF Stamp, members, Receivers
<1>2. stamped \in Nat /\ m \in Messages /\ m \in 0..MaxMessage /\ m \notin 1..stamped
  BY <1>1, ParameterAssumption DEF IInv, TypeOK, Messages
<1>3. /\ call'[c] = [call[c] EXCEPT !.pc = "stamped", !.item = m]
      /\ \A d \in Calls \ {c} : call'[d] = call[d]
  BY <1>1 DEF IInv, TypeOK
<1>4. /\ call'[c].pc = "stamped" /\ call'[c].item = m /\ call'[c].user = call[c].user
      /\ call'[c].seen = call[c].seen /\ call'[c].alone = call[c].alone
      /\ call' \in [Calls -> CallStates]
  <2>1. call \in [Calls -> CallStates] /\ call[c] \in CallStates
    BY DEF IInv, TypeOK
  <2>2. [call[c] EXCEPT !.pc = "stamped", !.item = m] \in CallStates
    BY <2>1, <1>2 DEF CallStates
  <2>3. call' \in [Calls -> CallStates]
    BY <1>1, <1>3, <2>1, <2>2
  <2> QED
    BY <1>3, <2>1, <2>3 DEF CallStates
<1>5. call[c].user \in Users
  BY <1>1 DEF IInv, Rights, Writing
<1>6. author' \in [Messages -> Users \cup {NoUser}] /\ author'[m] = call[c].user
      /\ \A n \in Messages \ {m} : author'[n] = author[n]
  BY <1>1, <1>2, <1>5 DEF IInv, TypeOK
<1>7. \A d \in Calls \ {c} : MessageOpen(d) =>
        call[d].item \in 1..stamped /\ call[d].item \in Messages /\ call[d].item # m
  <2> SUFFICES ASSUME NEW d \in Calls \ {c}, MessageOpen(d)
               PROVE  call[d].item \in 1..stamped
    BY <1>2, ParameterAssumption DEF IInv, TypeOK, Messages
  <2> QED
    BY DEF IInv, TypeOK
<1>8. \A d \in Calls : (MessageOpen(d)' <=> MessageOpen(d) \/ d = c)
  BY <1>1, <1>3, <1>4 DEF MessageOpen
<1>9. \A d \in Calls : (InFlight(d)' <=> InFlight(d)) /\ call'[d].alone = call[d].alone
                       /\ (call'[d].pc = "emit" => d # c) /\ (call'[d].pc = "done" => d # c)
                       /\ (call'[d].pc = "write" => d # c)
                       /\ call'[d].seen = call[d].seen /\ call'[d].user = call[d].user
                       /\ (Writing(d)' <=> Writing(d))
  BY <1>1, <1>3, <1>4 DEF InFlight, Writing
<1>a. TypeOK'
  <2>1. \A d \in Calls : MessageOpen(d)' =>
          room' = "open" /\ call'[d].item \in (1..stamped') \ sent'
    <3> SUFFICES ASSUME NEW d \in Calls, MessageOpen(d)'
                 PROVE  call'[d].item \in (1..m) \ sent
      BY <1>1
    <3>1. CASE d = c
      BY <3>1, <1>2, <1>4 DEF IInv, TypeOK
    <3>2. CASE d # c
      BY <3>2, <1>2, <1>3, <1>7, <1>8 DEF IInv, TypeOK
    <3> QED
      BY <3>1, <3>2
  <2>2. stamped' \in 0..MaxMessage /\ sent' \subseteq 1..stamped' /\ activity' \in 0..stamped'
    BY <1>1, <1>2 DEF IInv, TypeOK
  <2>3. crossed' \in BOOLEAN
    BY <1>1 DEF IInv, TypeOK
  <2> QED
    BY <1>1, <1>4, <1>6, <2>1, <2>2, <2>3 DEF IInv, TypeOK
<1>b. SeenBefore' /\ Closed' /\ Rights'
  <2>1. SeenBefore'
    BY <1>1, <1>9 DEF IInv, SeenBefore
  <2>2. Closed'
    BY <1>1, <1>9 DEF IInv, Closed
  <2>3. Rights'
    BY <1>1, <1>9 DEF IInv, Rights
  <2> QED
    BY <2>1, <2>2, <2>3
<1>c. Targets' /\ Alone' /\ Fresh'
  <2>1. Targets'
    <3>1. \A d \in Calls : call'[d].pc = "write" => call[d].pc = "write" /\ call'[d] = call[d]
      BY <1>3, <1>9
    <3> QED
      BY <1>1, <3>1, TargetsKept DEF IInv
  <2>2. Alone'
    BY <1>9 DEF IInv, Alone
  <2>3. Fresh'
    <3>1. \A d \in Calls : call'[d].pc = "emit" => call[d].pc = "emit" /\ call'[d] = call[d]
      BY <1>3, <1>9
    <3> QED
      BY <1>1, <3>1 DEF IInv, Fresh
  <2> QED
    BY <2>1, <2>2, <2>3
<1>d. Answered'
  BY <1>1, <1>3, <1>9 DEF IInv, Answered
<1>e. OwnMessages'
  <2> SUFFICES ASSUME NEW d \in Calls, MessageOpen(d)'
               PROVE  /\ author'[call'[d].item] = call'[d].user
                      /\ \A e \in Calls : MessageOpen(e)' /\ call'[e].item = call'[d].item => d = e
    BY DEF OwnMessages
  <2>1. CASE d = c
    BY <2>1, <1>3, <1>4, <1>6, <1>7, <1>8
  <2>2. CASE d # c
    <3>1. MessageOpen(d) /\ call'[d] = call[d]
      BY <2>2, <1>3, <1>8
    <3>2. author'[call'[d].item] = call'[d].user
      BY <3>1, <2>2, <1>6, <1>7 DEF IInv, OwnMessages
    <3>3. ASSUME NEW e \in Calls, MessageOpen(e)', call'[e].item = call'[d].item PROVE d = e
      <4>1. e # c
        BY <3>1, <3>3, <2>2, <1>4, <1>7
      <4> QED
        BY <4>1, <3>1, <3>3, <1>3, <1>8 DEF IInv, OwnMessages
    <3> QED
      BY <3>2, <3>3
  <2> QED
    BY <2>1, <2>2
<1>f. Newest'
  <2>1. activity' \in sent' \cup {0} /\ (~crossed' => ~crossed /\ \A d \in Calls : ~MessageOpen(d))
    BY <1>1 DEF IInv, Newest
  <2>2. ASSUME ~crossed' PROVE \A d \in Calls : MessageOpen(d)' => call'[d].item = stamped'
    BY <2>1, <2>2, <1>1, <1>4, <1>8
  <2>3. ASSUME ~crossed' PROVE \A n \in sent' : n <= activity'
    BY <2>1, <2>3, <1>1 DEF IInv, Newest
  <2> QED
    BY <2>1, <2>2, <2>3 DEF Newest
<1> QED
  BY <1>a, <1>b, <1>c, <1>d, <1>e, <1>f DEF IInv

\* A step of one handler that writes no message and no row, and leaves it in flight.
LEMMA FetchKeeps == ASSUME IInv, NEW c \in Calls, Fetch(c) PROVE IInv'
<1>1. /\ call[c].pc = "fetch" /\ room = "open"
      /\ call' = [call EXCEPT ![c].pc = "emit", ![c].seen = version, ![c].to = Receivers]
      /\ UNCHANGED <<room, role, version, changed, shown, stamped, author, sent, blank, activity,
                     crossed>>
      /\ UNCHANGED Receivers
  BY DEF Fetch, members, chat, Receivers
<1>2. call \in [Calls -> CallStates] /\ version \in 0..MaxVersion /\ version \in Nat
  BY ParameterAssumption DEF IInv, TypeOK
<1>3. /\ call'[c] = [call[c] EXCEPT !.pc = "emit", !.seen = version, !.to = Receivers]
      /\ \A d \in Calls \ {c} : call'[d] = call[d]
  BY <1>1, <1>2
<1>4. /\ call'[c].pc = "emit" /\ call'[c].seen = version /\ call'[c].to = Receivers
      /\ call'[c].alone = call[c].alone /\ call' \in [Calls -> CallStates]
  <2>1. call[c] \in CallStates /\ Receivers \in SUBSET Users
    BY <1>2 DEF Receivers
  <2>2. [call[c] EXCEPT !.pc = "emit", !.seen = version, !.to = Receivers] \in CallStates
    BY <2>1, <1>2 DEF CallStates
  <2>3. call' \in [Calls -> CallStates]
    BY <1>1, <1>2, <1>3, <2>2
  <2> QED
    BY <1>3, <2>1, <2>3 DEF CallStates
<1>5. \A d \in Calls : /\ InFlight(d)' <=> InFlight(d)
                       /\ call'[d].alone = call[d].alone
                       /\ Writing(d)' => d # c
                       /\ call'[d].pc = "write" => d # c
                       /\ call'[d].pc = "done" => d # c
                       /\ MessageOpen(d)' <=> MessageOpen(d) /\ d # c
  BY <1>1, <1>3, <1>4 DEF InFlight, Writing, MessageOpen
<1>a. TypeOK' /\ SeenBefore' /\ Closed'
  BY <1>1, <1>2, <1>3, <1>4, <1>5 DEF IInv, TypeOK, SeenBefore, Closed
<1>b. Rights' /\ Targets'
  <2>1. \A d \in Calls : call'[d].pc = "write" => call[d].pc = "write" /\ call'[d] = call[d]
    BY <1>3, <1>5
  <2>2. \A d \in Calls : Writing(d)' => Writing(d) /\ call'[d] = call[d]
    BY <1>3, <1>5 DEF Writing
  <2>3. Rights'
    BY <1>1, <2>2 DEF IInv, Rights
  <2>4. Targets'
    BY <1>1, <2>1, TargetsKept DEF IInv
  <2> QED
    BY <2>3, <2>4
<1>6. \A d \in Calls : MessageOpen(d)' => MessageOpen(d) /\ call'[d] = call[d]
  BY <1>3, <1>5
<1>c. OwnMessages' /\ Newest'
  BY <1>1, <1>6, MessagesKept DEF IInv, chat
<1>d. Alone' /\ Fresh'
  BY <1>1, <1>3, <1>4, <1>5 DEF IInv, Alone, Fresh
<1>e. Answered'
  BY <1>1, <1>3, <1>5 DEF IInv, Answered
<1> QED
  BY <1>a, <1>b, <1>c, <1>d, <1>e DEF IInv

LEMMA EmitKeeps == ASSUME IInv, NEW c \in Calls, Emit(c) PROVE IInv'
<1> DEFINE h == call[c]
           after == IF h.alone THEN [IdleCall EXCEPT !.pc = "done"] ELSE IdleCall
<1>1. /\ h.pc = "emit" /\ call' = [call EXCEPT ![c] = after]
      /\ shown' = [u \in Users |-> IF h.to = {} \/ u \in h.to \cup {h.user} THEN h.seen ELSE shown[u]]
      /\ UNCHANGED <<room, role, version, changed, stamped, author, sent, blank, activity, crossed>>
      /\ UNCHANGED Receivers
  BY DEF Emit, members, chat, Receivers
<1>2. /\ call \in [Calls -> CallStates] /\ h \in CallStates /\ version \in 0..MaxVersion
      /\ h.seen \in 0..version /\ shown \in [Users -> 0..version]
  BY DEF IInv, TypeOK, SeenBefore, CallStates
<1>3. /\ after \in CallStates /\ after.seen = 0 /\ after.pc \in {"done", "idle"}
      /\ after.pc = "done" => h.alone
  BY IdleIsState DEF IdleCall, CallStates
<1>4. call'[c] = after /\ (\A d \in Calls \ {c} : call'[d] = call[d])
      /\ call' \in [Calls -> CallStates]
  BY <1>1, <1>2, <1>3
<1> HIDE DEF after
<1>5. \A d \in Calls : /\ InFlight(d)' <=> InFlight(d) /\ d # c
                       /\ Writing(d)' => Writing(d) /\ d # c
                       /\ MessageOpen(d)' => MessageOpen(d) /\ d # c
  BY <1>1, <1>3, <1>4 DEF InFlight, Writing, MessageOpen
<1>6. shown' \in [Users -> 0..version]
  BY <1>1, <1>2
<1>7. \A d \in Calls : MessageOpen(d)' => MessageOpen(d) /\ call'[d] = call[d]
  BY <1>4, <1>5
<1>a. TypeOK'
  BY <1>1, <1>4, <1>6, <1>7 DEF IInv, TypeOK
<1>b. SeenBefore' /\ Closed'
  <2>1. room # "none"
    BY <1>1 DEF IInv, Closed
  <2>2. SeenBefore'
    BY <1>1, <1>2, <1>3, <1>4 DEF IInv, SeenBefore
  <2> QED
    BY <1>1, <2>1, <2>2 DEF IInv, Closed
<1>c. Rights' /\ Targets'
  BY <1>1, <1>3, <1>4, <1>5 DEF IInv, Rights, Targets
<1>d. OwnMessages' /\ Newest'
  BY <1>1, <1>7 DEF IInv, OwnMessages, Newest
<1>e. Alone' /\ Fresh'
  BY <1>1, <1>3, <1>4, <1>5 DEF IInv, Alone, Fresh
<1>f. Answered'
  <2> SUFFICES ASSUME NEW d \in Calls, call'[d].pc = "done"
               PROVE  /\ \A e \in Calls : ~InFlight(e)'
                      /\ \A u \in Receivers : shown'[u] = version
    BY <1>1 DEF Answered
  <2>1. d = c
    BY <1>1, <1>4 DEF IInv, Answered, InFlight
  <2>2. h.alone /\ InFlight(c)
    BY <2>1, <1>1, <1>3, <1>4 DEF InFlight
  <2>3. \A e \in Calls : ~InFlight(e)'
    BY <2>2, <1>5 DEF IInv, Alone
  <2>4. CASE room = "open"
    <3>1. h.to = Receivers /\ h.seen = version
      BY <2>2, <2>4, <1>1 DEF IInv, Fresh
    <3> QED
      BY <2>3, <3>1, <1>1 DEF Receivers
  <2>5. CASE room # "open"
    <3>1. Receivers = {}
      BY <2>5 DEF IInv, Closed, Receivers, Active, Chiefs
    <3> QED
      BY <2>3, <3>1
  <2> QED
    BY <2>4, <2>5
<1> QED
  BY <1>a, <1>b, <1>c, <1>d, <1>e, <1>f DEF IInv

-----------------------------------------------------------------------------
(* A handler writes.                                                       *)

\* A write in an open room: the versions read before are older.
LEMMA RenameKeeps == ASSUME IInv, NEW c \in Calls, UpdateRoomWrite(c) PROVE IInv'
<1>1. CASE ~(room = "open" /\ version < MaxVersion)
  <2>1. call' = Ended(c) /\ InFlight(c) /\ UNCHANGED <<members, shown, chat>>
    BY <1>1 DEF UpdateRoomWrite, InFlight, members
  <2> QED
    BY <2>1, ThrowKeeps DEF Throw
<1>2. CASE room = "open" /\ version < MaxVersion
  <2>1. /\ call[c].pc = "rename" /\ version' = version + 1
        /\ call' = [call EXCEPT ![c].pc = "emit", ![c].seen = version + 1, ![c].to = Receivers]
        /\ UNCHANGED <<room, role, changed, shown, stamped, author, sent, blank, activity, crossed>>
        /\ UNCHANGED Receivers
    BY <1>2 DEF UpdateRoomWrite, chat, Receivers
  <2>2. /\ call \in [Calls -> CallStates] /\ version \in Nat
        /\ version + 1 \in 0..MaxVersion /\ 0..version \subseteq 0..(version + 1)
    BY <1>2, ParameterAssumption DEF IInv, TypeOK
  <2>3. /\ call'[c] = [call[c] EXCEPT !.pc = "emit", !.seen = version + 1, !.to = Receivers]
        /\ \A d \in Calls \ {c} : call'[d] = call[d]
    BY <2>1, <2>2
  <2>4. /\ call'[c].pc = "emit" /\ call'[c].seen = version + 1 /\ call'[c].to = Receivers
        /\ call'[c].alone = call[c].alone /\ call' \in [Calls -> CallStates]
    <3>1. call[c] \in CallStates /\ Receivers \in SUBSET Users
      BY <2>2 DEF Receivers
    <3>2. [call[c] EXCEPT !.pc = "emit", !.seen = version + 1, !.to = Receivers] \in CallStates
      BY <3>1, <2>2 DEF CallStates
    <3>3. call' \in [Calls -> CallStates]
      BY <2>1, <2>2, <2>3, <3>2
    <3> QED
      BY <2>3, <3>1, <3>3 DEF CallStates
  <2>5. \A d \in Calls : /\ InFlight(d)' <=> InFlight(d)
                         /\ call'[d].alone = call[d].alone
                         /\ Writing(d)' => d # c
                         /\ call'[d].pc = "write" => d # c
    BY <2>1, <2>3, <2>4 DEF InFlight, Writing
  <2>6. \A d \in Calls : MessageOpen(d)' => MessageOpen(d) /\ call'[d] = call[d]
    BY <2>3, <2>4 DEF MessageOpen
  <2>a. TypeOK'
    <3>1. changed' \in [Users -> 0..version'] /\ shown' \in [Users -> 0..version']
      BY <2>1, <2>2 DEF IInv, TypeOK
    <3> QED
      BY <3>1, <2>1, <2>2, <2>4, <2>6 DEF IInv, TypeOK
  <2>b. SeenBefore' /\ Closed'
    <3>1. \A d \in Calls : call[d].seen \in Nat /\ call[d].seen <= version
      BY <2>2, ParameterAssumption DEF IInv, SeenBefore, CallStates
    <3>2. SeenBefore'
      BY <3>1, <2>1, <2>2, <2>3, <2>4 DEF SeenBefore
    <3> QED
      BY <3>2, <2>1, <1>2 DEF Closed
  <2>c. Rights' /\ Targets'
    <3>a. \A d \in Calls : Writing(d)' => Writing(d) /\ call'[d] = call[d]
      BY <2>3, <2>5 DEF Writing
    <3>1. Rights'
      BY <2>1, <3>a DEF IInv, Rights
    <3>2. \A d \in Calls : call'[d].pc = "write" => call[d].pc = "write" /\ call'[d] = call[d]
      BY <2>3, <2>5
    <3>3. Targets'
      BY <2>1, <3>2, TargetsKept DEF IInv
    <3> QED
      BY <3>1, <3>3
  <2>d. OwnMessages' /\ Newest'
    BY <2>1, <2>6, MessagesKept DEF IInv, chat
  <2>e. Alone'
    BY <2>5 DEF IInv, Alone
  <2>f. Fresh'
    BY <2>1, <2>3, <2>4, <2>5 DEF IInv, Fresh, Alone, InFlight
  <2>g. Answered'
    BY <2>1, <2>3, <2>4, <2>5 DEF IInv, Answered, InFlight
  <2> QED
    BY <2>a, <2>b, <2>c, <2>d, <2>e, <2>f, <2>g DEF IInv
<1> QED
  BY <1>1, <1>2

LEMMA MemberWriteKeeps == ASSUME IInv, NEW c \in Calls, MemberWrite(c) PROVE IInv'
<1> DEFINE h == call[c]
           t == h.target
           new == Written(h.op, role[t], h.role)
           after == [IdleCall EXCEPT !.pc = "fetch", !.user = h.user, !.alone = h.alone]
<1>1. /\ h.pc = "write" /\ room = "open" /\ version < MaxVersion
      /\ (h.op = "insert") <=> (role[t] = "absent")
      /\ role' = [role EXCEPT ![t] = new]
      /\ version' = version + 1 /\ changed' = [changed EXCEPT ![t] = version + 1]
      /\ call' = [call EXCEPT ![c] = after]
      /\ UNCHANGED <<room, shown, stamped, author, sent, blank, activity, crossed>>
  BY DEF MemberWrite, chat
<1>2. /\ call \in [Calls -> CallStates] /\ h \in CallStates /\ t \in Users
      /\ h.role \in Roles \cup {"unset"} /\ h.user \in Users \cup {NoUser} /\ h.alone \in BOOLEAN
  <2>1. call \in [Calls -> CallStates] /\ h \in CallStates
    BY DEF IInv, TypeOK
  <2>2. t \in Users
    BY <1>1 DEF IInv, Targets
  <2> QED
    BY <2>1, <2>2 DEF CallStates
<1>3. /\ version \in Nat /\ version + 1 \in 0..MaxVersion /\ version \in 0..(version + 1)
      /\ \A n \in 0..version : n \in 0..(version + 1) /\ n < version + 1
  BY <1>1, ParameterAssumption DEF IInv, TypeOK
<1>4. new \in Roles
  BY <1>2 DEF Written, IInv, TypeOK, Roles, Active
<1>5. /\ after \in CallStates /\ after.pc = "fetch" /\ after.seen = 0 /\ after.alone = h.alone
  BY <1>2, IdleIsState DEF IdleCall, CallStates
<1>6. call'[c] = after /\ (\A d \in Calls \ {c} : call'[d] = call[d])
      /\ call' \in [Calls -> CallStates]
  BY <1>1, <1>2, <1>5
<1> HIDE DEF after, new
<1>7. /\ role' \in [Users -> Roles] /\ changed' \in [Users -> 0..(version + 1)]
      /\ changed'[t] = version + 1 /\ role'[t] = new
      /\ \A u \in Users \ {t} : role'[u] = role[u] /\ changed'[u] = changed[u]
      /\ shown' \in [Users -> 0..(version + 1)]
  BY <1>1, <1>2, <1>3, <1>4 DEF IInv, TypeOK
<1>8. \A d \in Calls : /\ InFlight(d)' <=> InFlight(d)
                       /\ call'[d].alone = call[d].alone
                       /\ Writing(d)' => d # c
                       /\ call'[d].pc \in {"write", "emit", "done"} => d # c
  BY <1>1, <1>5, <1>6 DEF InFlight, Writing
<1>9. \A d \in Calls : MessageOpen(d)' => MessageOpen(d) /\ call'[d] = call[d]
  BY <1>5, <1>6 DEF MessageOpen
<1>10. \A d \in Calls : call[d].seen \in 0..version /\ call[d].seen < version + 1
  BY <1>2, <1>3 DEF IInv, SeenBefore, CallStates
<1>11. \A u \in Users, d \in Calls : changed[u] > call[d].seen => changed'[u] > call[d].seen
  BY <1>3, <1>7, <1>10
<1>a. TypeOK'
  BY <1>1, <1>3, <1>6, <1>7, <1>9 DEF IInv, TypeOK
<1>b. SeenBefore' /\ Closed'
  <2>1. SeenBefore'
    BY <1>1, <1>3, <1>5, <1>6, <1>10 DEF SeenBefore
  <2> QED
    BY <2>1, <1>1 DEF Closed
<1>c. Rights'
  <2> SUFFICES ASSUME NEW d \in Calls, Writing(d)'
               PROVE  /\ call'[d].user \in Users
                      /\ role'[call'[d].user] \in Active \/ changed'[call'[d].user] > call'[d].seen
    BY DEF Rights
  <2>1. Writing(d) /\ call'[d] = call[d]
    BY <1>6, <1>8 DEF Writing
  <2>2. /\ call[d].user \in Users
        /\ role[call[d].user] \in Active \/ changed[call[d].user] > call[d].seen
    BY <2>1, <1>1 DEF IInv, Rights
  <2>3. CASE call[d].user = t
    BY <2>1, <2>2, <2>3, <1>7, <1>10
  <2>4. CASE call[d].user # t
    BY <2>1, <2>2, <2>4, <1>7
  <2> QED
    BY <2>3, <2>4
<1>d. Targets'
  <2> SUFFICES ASSUME NEW d \in Calls, call'[d].pc = "write"
               PROVE  /\ call'[d].target \in Users /\ call'[d].op # "none"
                      /\ call'[d].op = "remove" => call'[d].role = "None"
                      /\ call'[d].op = "update" =>
                           role'[call'[d].target] # "None"
                           \/ changed'[call'[d].target] > call'[d].seen
    BY DEF Targets
  <2>1. call[d].pc = "write" /\ call'[d] = call[d]
    BY <1>6, <1>8
  <2>2. /\ call[d].target \in Users /\ call[d].op # "none"
        /\ call[d].op = "remove" => call[d].role = "None"
        /\ call[d].op = "update" =>
             role[call[d].target] # "None" \/ changed[call[d].target] > call[d].seen
    BY <2>1, <1>1 DEF IInv, Targets
  <2>3. CASE call[d].target = t
    BY <2>1, <2>2, <2>3, <1>7, <1>10
  <2>4. CASE call[d].target # t
    BY <2>1, <2>2, <2>4, <1>7
  <2> QED
    BY <2>3, <2>4
<1>e. OwnMessages' /\ Newest'
  BY <1>1, <1>9 DEF IInv, OwnMessages, Newest
<1>f. Alone'
  BY <1>8 DEF IInv, Alone
<1>g. Fresh'
  BY <1>1, <1>6, <1>8 DEF IInv, Fresh, Alone, InFlight
<1>h. Answered'
  BY <1>1, <1>6, <1>8 DEF IInv, Answered, InFlight
<1> QED
  BY <1>a, <1>b, <1>c, <1>d, <1>e, <1>f, <1>g, <1>h DEF IInv

LEMMA CreateRoomKeeps == ASSUME IInv, NEW c \in Calls, NEW u \in Users, CreateRoom(c, u) PROVE IInv'
<1> PICK f \in [Users -> Active \cup {"absent"}] :
      /\ role' = f
      /\ call' = [call EXCEPT ![c] = [IdleCall EXCEPT !.pc = "emit", !.user = u, !.seen = 1,
                                        !.to = {x \in Users : f[x] # "absent"}, !.alone = TRUE]]
  BY DEF CreateRoom
<1> DEFINE after == [IdleCall EXCEPT !.pc = "emit", !.user = u, !.seen = 1,
                                     !.to = {x \in Users : f[x] # "absent"}, !.alone = TRUE]
<1>1. /\ room = "none" /\ room' = "open" /\ version' = 1 /\ changed' = [x \in Users |-> 1]
      /\ UNCHANGED <<shown, stamped, author, sent, blank, activity, crossed>>
  BY DEF CreateRoom, chat
<1>2. call \in [Calls -> CallStates] /\ 1 \in 0..MaxVersion
  BY ParameterAssumption DEF IInv, TypeOK
<1>3. Receivers' = {x \in Users : f[x] # "absent"} /\ role' \in [Users -> Roles]
  BY DEF Receivers, Active, Chiefs, Roles
<1>4. /\ after \in CallStates /\ after.pc = "emit" /\ after.seen = 1 /\ after.alone = TRUE
      /\ after.to = {x \in Users : f[x] # "absent"}
  BY <1>2, IdleIsState DEF IdleCall, CallStates
<1>5. call'[c] = after /\ (\A d \in Calls \ {c} : call'[d] = call[d])
      /\ call' \in [Calls -> CallStates]
  BY <1>2, <1>4
<1> HIDE DEF after
<1>6. sent = {} /\ \A d \in Calls \ {c} : call'[d].pc = "idle"
  BY <1>1, <1>5 DEF IInv, Closed
<1>7. \A d \in Calls : call'[d].pc # "idle" => d = c /\ call'[d].pc = "emit"
  BY <1>4, <1>5, <1>6
<1>8. \A d \in Calls : ~MessageOpen(d)'
  BY <1>7 DEF MessageOpen
<1>9. version = 0 /\ shown \in [Users -> 0..version] /\ shown \in [Users -> 0..1]
  BY <1>1 DEF IInv, Closed, TypeOK
<1>a. TypeOK'
  BY <1>1, <1>2, <1>3, <1>5, <1>8, <1>9 DEF IInv, TypeOK
<1>b. SeenBefore' /\ Closed'
  <2>1. \A d \in Calls : call'[d].seen <= 1
    <3>1. \A d \in Calls : call[d].seen \in Nat
      BY <1>2, ParameterAssumption DEF CallStates
    <3>2. \A d \in Calls : call[d].seen <= 0
      BY <1>9 DEF IInv, SeenBefore
    <3>3. call'[c].seen = 1
      BY <1>4, <1>5
    <3>4. \A d \in Calls \ {c} : call'[d].seen = call[d].seen
      BY <1>5
    <3> QED
      BY <3>1, <3>2, <3>3, <3>4
  <2> QED
    BY <2>1, <1>1 DEF SeenBefore, Closed
<1>c. Rights' /\ Targets'
  BY <1>7 DEF Rights, Targets, Writing
<1>d. OwnMessages' /\ Newest'
  BY <1>1, <1>6, <1>8 DEF IInv, OwnMessages, Newest
<1>e. Alone'
  BY <1>7 DEF Alone, InFlight
<1>f. Fresh'
  BY <1>1, <1>3, <1>4, <1>5, <1>7 DEF Fresh
<1>g. Answered'
  BY <1>7 DEF Answered
<1> QED
  BY <1>a, <1>b, <1>c, <1>d, <1>e, <1>f, <1>g DEF IInv

LEMMA DeleteRoomKeeps == ASSUME IInv, NEW c \in Calls, DeleteRoomWrite(c) PROVE IInv'
<1>1. /\ call[c].pc = "delete" /\ room = "open" /\ \A d \in Calls : ~MessageOpen(d)
      /\ room' = "deleted" /\ role' = [u \in Users |-> "absent"]
      /\ changed' = [u \in Users |-> 0] /\ sent' = {} /\ blank' = {} /\ activity' = 0
      /\ call' = [call EXCEPT ![c].pc = "emit", ![c].seen = 0, ![c].to = Receivers]
      /\ UNCHANGED <<version, shown, stamped, author, crossed>>
  BY DEF DeleteRoomWrite, MessageOpen
<1>2. /\ call \in [Calls -> CallStates] /\ version \in Nat
      /\ stamped \in Nat /\ 0 \in 0..MaxVersion
  BY ParameterAssumption DEF IInv, TypeOK
<1>3. /\ call'[c] = [call[c] EXCEPT !.pc = "emit", !.seen = 0, !.to = Receivers]
      /\ \A d \in Calls \ {c} : call'[d] = call[d]
  BY <1>1, <1>2
<1>4. /\ call'[c].pc = "emit" /\ call'[c].seen = 0 /\ call'[c].alone = call[c].alone
      /\ call' \in [Calls -> CallStates]
  <2>1. call[c] \in CallStates /\ Receivers \in SUBSET Users
    BY <1>2 DEF Receivers
  <2>2. [call[c] EXCEPT !.pc = "emit", !.seen = 0, !.to = Receivers] \in CallStates
    BY <2>1, <1>2 DEF CallStates
  <2>3. call' \in [Calls -> CallStates]
    BY <1>1, <1>2, <1>3, <2>2
  <2> QED
    BY <1>3, <2>1, <2>3 DEF CallStates
<1>5. \A d \in Calls : /\ InFlight(d)' <=> InFlight(d)
                       /\ call'[d].alone = call[d].alone
                       /\ ~MessageOpen(d)'
                       /\ call'[d].pc = "write" => call[d].pc = "write" /\ call'[d] = call[d]
                       /\ call'[d].pc = "done" => d # c
  BY <1>1, <1>3, <1>4 DEF InFlight, MessageOpen
<1>6. Receivers' = {}
  BY <1>1 DEF Receivers, Active, Chiefs
<1>a. TypeOK'
  <2>1. role' \in [Users -> Roles] /\ changed' \in [Users -> 0..version']
    BY <1>1, <1>2 DEF Roles
  <2>2. sent' \subseteq 1..stamped' /\ blank' \subseteq sent'
    BY <1>1
  <2>3. activity' \in 0..stamped'
    BY <1>1, <1>2
  <2>4. room' \in {"none", "open", "deleted"}
    BY <1>1
  <2> QED
    BY <1>1, <1>4, <1>5, <2>1, <2>2, <2>3, <2>4 DEF IInv, TypeOK
<1>b. SeenBefore' /\ Closed'
  <2>1. SeenBefore'
    BY <1>1, <1>2, <1>3, <1>4 DEF IInv, SeenBefore
  <2> QED
    BY <2>1, <1>1 DEF Closed
<1>c. Rights' /\ Targets'
  BY <1>1, <1>5 DEF IInv, Rights, Targets
<1>d. OwnMessages'
  BY <1>5 DEF OwnMessages
<1>e. Newest'
  BY <1>1, <1>5 DEF Newest
<1>f. Alone' /\ Fresh'
  BY <1>1, <1>5 DEF IInv, Alone, Fresh
<1>g. Answered'
  <2> SUFFICES ASSUME NEW d \in Calls, call'[d].pc = "done" PROVE FALSE
    BY DEF Answered
  <2>1. call[d].pc = "done"
    BY <1>3, <1>5
  <2> QED
    BY <2>1, <1>1 DEF IInv, Answered, InFlight
<1> QED
  BY <1>a, <1>b, <1>c, <1>d, <1>e, <1>f, <1>g DEF IInv

-----------------------------------------------------------------------------
(* The invariant holds, and what follows from it.                          *)

LEMMA StepInv == IInv /\ [Next]_vars => IInv'
<1> SUFFICES ASSUME IInv, [Next]_vars PROVE IInv'
  OBVIOUS
<1>1. CASE Next
  <2> PICK c \in Calls : MemberStep(c) \/ RoomStep(c) \/ MessageStep(c)
    BY <1>1 DEF Next
  <2>1. CASE MemberStep(c)
    BY <2>1, ReadsKeep, MemberWriteKeeps, FetchKeeps, EmitKeeps, ThrowKeeps DEF MemberStep
  <2>2. CASE RoomStep(c)
    BY <2>2, CreateRoomKeeps, ReadsKeep, RenameKeeps, DeleteRoomKeeps DEF RoomStep
  <2>3. CASE MessageStep(c)
    BY <2>3, ReadsKeep, UploadKeeps, StampKeeps, CommitKeeps, BlankKeeps DEF MessageStep
  <2> QED
    BY <2>1, <2>2, <2>3
<1>2. CASE UNCHANGED vars
  <2>1. /\ UNCHANGED <<room, role, version, changed, shown, stamped, author, sent, blank,
                        activity, crossed, call>>
        /\ UNCHANGED Receivers
    BY <1>2 DEF vars, Receivers
  <2>2. TypeOK' /\ SeenBefore' /\ Closed'
    BY <2>1 DEF IInv, TypeOK, SeenBefore, Closed, MessageOpen
  <2>3. Rights' /\ Targets' /\ OwnMessages' /\ Newest'
    BY <2>1 DEF IInv, Rights, Targets, OwnMessages, Newest, MessageOpen, Writing
  <2>4. Alone' /\ Fresh' /\ Answered'
    BY <2>1 DEF IInv, Alone, Fresh, Answered, InFlight
  <2> QED
    BY <2>2, <2>3, <2>4 DEF IInv
<1> QED
  BY <1>1, <1>2

LEMMA Invariance == Spec => []IInv
  BY InitInv, StepInv, PTL DEF Spec

\* Rows, messages and handlers keep their types, whoever writes in between.
THEOREM TypeCorrect == Spec => []TypeOK
  BY Invariance, PTL DEF IInv

\* A handler that ran alone leaves every member's client with the room as it is.
THEOREM ChangeShown == Spec => []UndisturbedChangeShown
<1>1. IInv => UndisturbedChangeShown
  BY DEF IInv, Answered, UndisturbedChangeShown
<1> QED
  BY <1>1, Invariance, PTL

\* lastActivatedAt is the newest message's moment, unless two were being written
\* at once.
THEOREM ActivityNewest == Spec => []ActivityIsNewest
<1>1. IInv => ActivityIsNewest
  BY DEF IInv, Newest, ActivityIsNewest
<1> QED
  BY <1>1, Invariance, PTL

\* Only MemberWrite takes a member from None to a role.
LEMMA ComesBack ==
  ASSUME IInv, [Next]_vars, NEW m \in Users, role[m] = "None", role'[m] \in Active
  PROVE  \E c \in Calls : /\ call[c].pc = "write" /\ call'[c].pc # "write"
                          /\ call[c].target = m
                          /\ call[c].op = "restore" \/ changed[m] > call[c].seen
<1>1. role' # role /\ room # "none" /\ role'[m] # "absent"
  BY DEF IInv, Closed, Active, Chiefs
<1>2. PICK c \in Calls : MemberWrite(c)
  <2>1. PICK c \in Calls : MemberStep(c) \/ RoomStep(c) \/ MessageStep(c)
    BY <1>1 DEF Next, vars
  <2>2. CASE MemberStep(c)
    BY <2>2, <1>1 DEF MemberStep, CreateMemberRead, UpdateMemberRead, DeleteMemberRead, Fetch,
                      Emit, Throw, members
  <2>3. CASE RoomStep(c)
    BY <2>3, <1>1 DEF RoomStep, CreateRoom, UpdateRoomRead, UpdateRoomWrite, DeleteRoomRead,
                      DeleteRoomWrite, members
  <2>4. CASE MessageStep(c)
    BY <2>4, <1>1 DEF MessageStep, CreateMessageRead, CreateMessageFilesRead, FilesUpload,
                      DeleteMessageRead, Stamp, Commit,
                      DeleteMessageWrite, members
  <2> QED
    BY <2>1, <2>2, <2>3, <2>4
<1> DEFINE h == call[c]
<1>3. /\ h.pc = "write" /\ room = "open"
      /\ (h.op = "insert") <=> (role[h.target] = "absent")
      /\ role' = [role EXCEPT ![h.target] = Written(h.op, @, h.role)]
      /\ call' = [call EXCEPT ![c] = [IdleCall EXCEPT !.pc = "fetch", !.user = h.user,
                                                      !.alone = h.alone]]
  BY <1>2 DEF MemberWrite
<1>4. h \in CallStates /\ h.op # "none" /\ h.target \in Users
      /\ (h.op = "remove" => h.role = "None")
      /\ (h.op = "update" => role[h.target] # "None" \/ changed[h.target] > h.seen)
  BY <1>3 DEF IInv, TypeOK, Targets
<1>5. h.target = m /\ role'[m] = Written(h.op, role[m], h.role)
  <2>1. role'[m] # role[m]
    BY DEF Active, Chiefs
  <2>2. role \in [Users -> Roles]
    BY DEF IInv, TypeOK
  <2>3. h.target = m
    BY <2>1, <2>2, <1>3
  <2> QED
    BY <2>2, <2>3, <1>3
<1>6. h.op # "insert" /\ h.op # "remove"
  BY <1>3, <1>4, <1>5 DEF Written, Active, Chiefs
<1>7. h.op = "restore" \/ changed[m] > h.seen
  BY <1>4, <1>5, <1>6 DEF CallStates
<1>8. call'[c].pc # "write"
  BY <1>3 DEF IInv, TypeOK, IdleCall
<1> QED
  BY <1>3, <1>5, <1>7, <1>8

\* A removed member comes back only through createMember or through a handler
\* that read its row before the removal.
THEOREM RemovedStays == Spec => RemovedStaysRemoved
<1>1. IInv /\ [Next]_vars =>
        [\A m \in Users : role[m] = "None" /\ role'[m] \in Active =>
           \E c \in Calls : /\ call[c].pc = "write" /\ call'[c].pc # "write"
                            /\ call[c].target = m
                            /\ call[c].op = "restore" \/ changed[m] > call[c].seen]_vars
  BY ComesBack
<1> QED
  BY <1>1, Invariance, PTL DEF Spec, RemovedStaysRemoved

\* Only Commit sends a message.
LEMMA SentByMember ==
  ASSUME IInv, [Next]_vars, NEW m \in sent' \ sent
  PROVE  \/ role[author[m]] \in Active
         \/ \E c \in Calls : MessageOpen(c) /\ call[c].item = m
                             /\ changed[author[m]] > call[c].seen
<1>1. PICK c \in Calls : Commit(c)
  <2>1. PICK c \in Calls : MemberStep(c) \/ RoomStep(c) \/ MessageStep(c)
    BY DEF Next, vars
  <2>2. CASE MemberStep(c)
    BY <2>2 DEF MemberStep, CreateMemberRead, UpdateMemberRead, DeleteMemberRead, Fetch,
                Emit, Throw, MemberWrite, chat
  <2>3. CASE RoomStep(c)
    BY <2>3 DEF RoomStep, CreateRoom, UpdateRoomRead, UpdateRoomWrite, DeleteRoomRead,
                DeleteRoomWrite, chat
  <2>4. CASE MessageStep(c)
    BY <2>4 DEF MessageStep, CreateMessageRead, CreateMessageFilesRead, FilesUpload,
                DeleteMessageRead, Stamp, DeleteMessageWrite, chat
  <2> QED
    BY <2>1, <2>2, <2>3, <2>4
<1>2. MessageOpen(c) /\ call[c].item = m
  BY <1>1 DEF Commit, MessageOpen
<1>3. room = "open" /\ author[m] = call[c].user
  BY <1>2 DEF IInv, TypeOK, OwnMessages
<1>4. role[author[m]] \in Active \/ changed[author[m]] > call[c].seen
  BY <1>2, <1>3 DEF IInv, Rights, Writing, MessageOpen
<1> QED
  BY <1>2, <1>4

\* A new message is a member's, or of one who was removed while it was written.
THEOREM MessagesOfMembers == Spec => MessagesByMembers
<1>1. IInv /\ [Next]_vars =>
        [\A m \in sent' \ sent :
           \/ role[author[m]] \in Active
           \/ \E c \in Calls : MessageOpen(c) /\ call[c].item = m
                               /\ changed[author[m]] > call[c].seen]_vars
  BY SentByMember
<1> QED
  BY <1>1, Invariance, PTL DEF Spec, MessagesByMembers
-----------------------------------------------------------------------------
(* Images, of rooms and of users: what a queue holds.                     *)

\* Members of a queue, each there once.
Listed(q, k) == \E i \in DOMAIN q : q[i] = k
Distinct(q) == \A i, k \in DOMAIN q : q[i] = q[k] => i = k

LEMMA Prepended ==
  ASSUME NEW S, NEW q \in Seq(S), Distinct(q), NEW j \in S, ~Listed(q, j)
  PROVE  /\ <<j>> \o q \in Seq(S) /\ Distinct(<<j>> \o q)
         /\ \A k \in S : Listed(<<j>> \o q, k) <=> (k = j \/ Listed(q, k))
<1>1. PICK p : p = <<j>> \o q
  OBVIOUS
<1>2. /\ <<j>> \in Seq(S) /\ Len(<<j>>) = 1 /\ <<j>>[1] = j /\ Len(q) \in Nat
  OBVIOUS
<1>3. /\ p \in Seq(S) /\ Len(p) = 1 + Len(q)
      /\ \A i \in 1..(1 + Len(q)) : p[i] = IF i <= 1 THEN <<j>>[i] ELSE q[i - 1]
  BY <1>1, <1>2, ConcatProperties
<1>4. DOMAIN q = 1..Len(q) /\ DOMAIN p = 1..(1 + Len(q))
  BY <1>3
<1>5. p[1] = j /\ 1 \in DOMAIN p /\ \A i \in DOMAIN q : i + 1 \in DOMAIN p /\ p[i + 1] = q[i]
  BY <1>2, <1>3, <1>4
<1>6. \A i \in DOMAIN p : i \in Nat /\ (i = 1 \/ (i - 1 \in DOMAIN q /\ p[i] = q[i - 1]))
  BY <1>2, <1>3, <1>4
<1>7. ASSUME NEW k \in S PROVE Listed(p, k) <=> (k = j \/ Listed(q, k))
  <2>1. ASSUME NEW i \in DOMAIN p, p[i] = k PROVE k = j \/ Listed(q, k)
    BY <1>5, <1>6, <2>1 DEF Listed
  <2>2. ASSUME k = j \/ Listed(q, k) PROVE Listed(p, k)
    BY <1>5, <2>2 DEF Listed
  <2> QED BY <2>1, <2>2 DEF Listed
<1>8. ASSUME NEW i \in DOMAIN p, NEW k \in DOMAIN p, p[i] = p[k] PROVE i = k
  <2>1. \A m \in DOMAIN q : q[m] # j
    BY DEF Listed
  <2>2. i # 1 /\ k # 1 => i - 1 = k - 1
    BY <1>6, <1>8 DEF Distinct
  <2> QED BY <1>5, <1>6, <1>8, <2>1, <2>2
<1> QED BY <1>1, <1>3, <1>7, <1>8 DEF Distinct

LEMMA Appended ==
  ASSUME NEW S, NEW q \in Seq(S), Distinct(q), NEW j \in S, ~Listed(q, j)
  PROVE  /\ Append(q, j) \in Seq(S) /\ Distinct(Append(q, j))
         /\ \A k \in S : Listed(Append(q, j), k) <=> (k = j \/ Listed(q, k))
<1>1. PICK p : p = Append(q, j)
  OBVIOUS
<1>2. PICK n : n = Len(q) + 1
  OBVIOUS
<1>3. /\ p \in Seq(S) /\ DOMAIN p = 1..n /\ n \in DOMAIN p /\ p[n] = j
      /\ \A i \in DOMAIN q : i \in DOMAIN p /\ p[i] = q[i]
  BY <1>1, <1>2
<1>4. \A i \in DOMAIN p : i = n \/ i \in DOMAIN q
  BY <1>1, <1>2
<1>5. ASSUME NEW k \in S PROVE Listed(p, k) <=> (k = j \/ Listed(q, k))
  BY <1>3, <1>4 DEF Listed
<1>6. ASSUME NEW i \in DOMAIN p, NEW k \in DOMAIN p, p[i] = p[k] PROVE i = k
  BY <1>3, <1>4, <1>6 DEF Distinct, Listed
<1> QED BY <1>1, <1>3, <1>5, <1>6 DEF Distinct

LEMMA Taken ==
  ASSUME NEW S, NEW q \in Seq(S), Distinct(q), q # <<>>
  PROVE  /\ Head(q) \in S /\ Listed(q, Head(q))
         /\ Tail(q) \in Seq(S) /\ Distinct(Tail(q))
         /\ \A k \in S : Listed(Tail(q), k) <=> (k # Head(q) /\ Listed(q, k))
<1>1. PICK p, j : p = Tail(q) /\ j = Head(q)
  OBVIOUS
<1>2. Len(q) \in Nat /\ DOMAIN q = 1..Len(q) /\ 1 \in DOMAIN q /\ q[1] = j /\ j \in S
  BY <1>1
<1>3. /\ p \in Seq(S) /\ Len(p) = Len(q) - 1
      /\ \A i \in 1..Len(p) : p[i] = q[i + 1]
  BY <1>1, HeadTailProperties
<1>4. DOMAIN p = 1..(Len(q) - 1)
  BY <1>3
<1>5. \A i \in DOMAIN p : /\ i \in Nat /\ i + 1 \in DOMAIN q /\ i + 1 # 1
                          /\ p[i] = q[i + 1]
  BY <1>2, <1>3, <1>4
<1>6. \A i \in DOMAIN q : i # 1 => i - 1 \in DOMAIN p /\ p[i - 1] = q[i]
  BY <1>2, <1>3, <1>4
<1>7. ASSUME NEW k \in S PROVE Listed(p, k) <=> (k # j /\ Listed(q, k))
  <2>1. ASSUME NEW i \in DOMAIN p, p[i] = k PROVE k # j /\ Listed(q, k)
    <3>1. k # j
      BY <1>2, <1>5, <2>1 DEF Distinct
    <3> QED BY <1>5, <2>1, <3>1 DEF Listed
  <2>2. ASSUME k # j, NEW i \in DOMAIN q, q[i] = k PROVE Listed(p, k)
    BY <1>2, <1>6, <2>2 DEF Listed
  <2> QED BY <2>1, <2>2 DEF Listed
<1>8. ASSUME NEW i \in DOMAIN p, NEW k \in DOMAIN p, p[i] = p[k] PROVE i = k
  <2>1. i + 1 = k + 1
    BY <1>5, <1>8 DEF Distinct
  <2> QED BY <1>5, <2>1
<1> QED BY <1>1, <1>2, <1>3, <1>7, <1>8 DEF Distinct, Listed

-----------------------------------------------------------------------------
(* The inductive strengthening.                                            *)

ImageJobs ==
  [pc : Running \cup {"idle", "waiting", "stalled", "over"}, kind : {"update", "delete"},
   path : Paths \cup {None}, snap : Paths \cup {None}, temp : BOOLEAN, runs : 0..2, alone : BOOLEAN]
Links == [path : Paths \cup {None}, until : Nat, crossed : BOOLEAN]
Reads == [path : Paths \cup {None}, since : 0..MaxTime, crossed : BOOLEAN]

\* A change in itself.
ChangeFits(h) ==
  /\ h.pc = "waiting" => h.runs < 2
  /\ h.pc \in {"upload", "del", "unlink", "update"} => h.kind = "update"
  /\ h.pc \in {"remove", "clear"} => h.kind = "delete"
  /\ h.pc \notin {"idle", "over"} /\ h.kind = "update" => h.path \in Paths

ChangesInv == \A j \in Jobs : ChangeFits(job[j])

\* A change that overlaps no other, or no removal, finds the file it uploaded, and
\* as long as clean holds only a removal that is to empty the row takes the row's.
FilesInv ==
  /\ \A j \in Open : job[j].alone => Open = {j}
  /\ clean => \A j \in Removals : job[j].alone /\ job[j].pc # "stalled"
  /\ \A j \in Jobs : job[j].pc \in {"del", "unlink", "update"} /\ (job[j].alone \/ clean) =>
                       job[j].path \in files
  /\ clean /\ row \in Paths /\ (\A j \in Jobs : job[j].pc # "clear") => row \in files

\* Whoever fetches a link to another row than the row's does it across a
\* change, and the row had that row since it was read.
Fetching(g) == getter[g].path # None
Fetched(g) ==
  /\ getter[g].since <= now /\ now <= getter[g].since + Latency
  /\ Open # {} => getter[g].crossed
  /\ ~getter[g].crossed => getter[g].path = row \/ row = "gone"
  /\ getter[g].path # row => getter[g].since <= left[getter[g].path]
GettersInv == \A g \in Getters : Fetching(g) => Fetched(g)

\* After its del, a change finds no link but those fetched across it.
CacheInv ==
  cache.path # None =>
    /\ cache.until <= now + CacheTime
    /\ ~cache.crossed => cache.path = row \/ row = "gone"
    /\ (\E j \in Jobs : job[j].pc \in {"unlink", "update"}) => cache.crossed
    /\ cache.path # row => cache.until <= left[cache.path] + Latency + CacheTime

ImageTypes ==
  /\ owner \in {"room", "user"} /\ row \in Paths \cup {None, "gone"}
  /\ files \subseteq Paths
  /\ job \in [Jobs -> ImageJobs]
  /\ cache \in Links /\ getter \in [Getters -> Reads]
  /\ left \in [Paths -> 0..MaxTime]
  /\ clean \in BOOLEAN /\ now \in 0..MaxTime /\ crashes \in 0..MaxCrash

WaitingInv ==
  /\ queue \in Seq(Jobs) /\ Distinct(queue)
  /\ \A j \in Jobs : (job[j].pc = "waiting") <=> Listed(queue, j)

ImageInv == ImageTypes /\ WaitingInv /\ ChangesInv /\ FilesInv /\ GettersInv /\ CacheInv

LEMMA ImageNumbers ==
  /\ CacheTime \in Nat /\ Latency \in Nat /\ MaxTime \in Nat /\ MaxCrash \in Nat
  /\ None \notin Paths /\ "gone" \notin Paths /\ None # "gone"
<1> QED BY ImageAssumption

LEMMA BlankJob ==
  /\ NoJob \in ImageJobs /\ NoJob.kind = "update" /\ NoJob.runs = 0
  /\ ChangeFits(NoJob) /\ ChangeFits([NoJob EXCEPT !.pc = "over"])
  /\ [NoJob EXCEPT !.pc = "over"] \in ImageJobs
  /\ NoLink \in Links /\ NoLink.path = None
  /\ NoGetter \in Reads /\ NoGetter.path = None
<1>1. 0 \in 0..MaxTime
  BY ImageNumbers
<1>2. NoJob \in ImageJobs /\ [NoJob EXCEPT !.pc = "over"] \in ImageJobs
  <2>1. NoJob \in ImageJobs
    BY DEF NoJob, ImageJobs
  <2> QED BY <2>1 DEF ImageJobs
<1>3. ChangeFits(NoJob) /\ ChangeFits([NoJob EXCEPT !.pc = "over"])
  BY DEF NoJob, ChangeFits
<1>4. NoLink \in Links /\ NoLink.path = None
  BY DEF NoLink, Links
<1>5. NoGetter \in Reads /\ NoGetter.path = None
  BY <1>1 DEF NoGetter, Reads
<1>6. NoJob.kind = "update" /\ NoJob.runs = 0
  BY DEF NoJob
<1> QED BY <1>2, <1>3, <1>4, <1>5, <1>6

LEMMA ImageStarts ==
  InitImage => ImageInv
<1> SUFFICES ASSUME InitImage PROVE ImageInv
  OBVIOUS
<1>1. \A j \in Jobs : job[j] = NoJob /\ job[j].pc = "idle"
  BY DEF InitImage, NoJob
<1>2. ImageTypes
  BY BlankJob, ImageNumbers DEF InitImage, ImageTypes
<1>3. WaitingInv
  BY <1>1 DEF InitImage, WaitingInv, Distinct, Listed
<1>4. Open = {}
  BY <1>1 DEF Open, Running
<1>5. FilesInv
  BY <1>1, <1>4, ImageNumbers DEF InitImage, FilesInv, Removals
<1>6. ChangesInv /\ GettersInv /\ CacheInv
  BY <1>1, BlankJob DEF InitImage, ChangesInv, GettersInv, Fetching, CacheInv
<1> QED BY <1>2, <1>3, <1>5, <1>6 DEF ImageInv

-----------------------------------------------------------------------------
(* Steps of one job.                                                       *)

\* A job at work that goes on working: what that leaves alone.
LEMMA JobMoved ==
  ASSUME ImageInv, NEW j \in Jobs, NEW h \in ImageJobs,
         job' = [job EXCEPT ![j] = h],
         job[j].pc \in Running, h.pc \in Running, h.kind = job[j].kind,
         h.path = job[j].path,
         h.alone = job[j].alone,
         h.pc \in {"upload", "del", "unlink", "update"} => h.kind = "update",
         h.pc \in {"remove", "clear"} => h.kind = "delete",
         queue' = queue
  PROVE  /\ job' \in [Jobs -> ImageJobs] /\ job'[j] = h
         /\ \A k \in Jobs \ {j} : job'[k] = job[k]
         /\ WaitingInv' /\ ChangesInv' /\ Open' = Open /\ j \in Open
         /\ \A k \in Open' : job'[k].alone => Open' = {k}
         /\ clean => \A k \in Removals' : job'[k].alone /\ job'[k].pc # "stalled"
<1>1. ImageTypes /\ WaitingInv /\ ChangesInv /\ FilesInv
  BY DEF ImageInv
<1>2. /\ job' \in [Jobs -> ImageJobs] /\ job'[j] = h
      /\ \A k \in Jobs \ {j} : job'[k] = job[k]
  BY <1>1 DEF ImageTypes
<1>3. Open' = Open /\ j \in Open
  BY <1>2 DEF Open
<1>4. WaitingInv'
  BY <1>1, <1>2 DEF WaitingInv, Running
<1>5. ChangesInv'
  <2>1. ChangeFits(h)
    BY <1>1 DEF ChangesInv, ChangeFits, Running
  <2> QED BY <1>1, <1>2, <2>1 DEF ChangesInv
<1>6. \A k \in Open' : job'[k].alone => Open' = {k}
  <2>1. \A k \in Jobs : job'[k].alone = job[k].alone
    BY <1>2
  <2> QED BY <1>1, <1>3, <2>1 DEF FilesInv, Open
<1>7. clean => \A k \in Removals' : job'[k].alone /\ job'[k].pc # "stalled"
  <2>1. \A k \in Jobs : job'[k].alone = job[k].alone /\ job'[k].kind = job[k].kind
    BY <1>2
  <2>2. \A k \in Jobs : job'[k].pc = "stalled" => job[k].pc = "stalled"
    BY <1>2 DEF Running
  <2>3. Removals' = Removals /\ \A k \in Removals' : k \in Jobs
    BY <1>3, <2>1 DEF Removals, Open
  <2> QED BY <1>1, <2>1, <2>2, <2>3 DEF FilesInv
<1> QED BY <1>2, <1>3, <1>4, <1>5, <1>6, <1>7

\* A step of updateImage that takes no file.
LEMMA FilesMoved ==
  ASSUME FilesInv, NEW j \in Jobs, job[j].pc # "clear", job'[j].pc \in Running,
         job'[j].alone = job[j].alone, job'[j].path = job[j].path,
         job'[j].pc \in {"del", "unlink", "update"} =>
           job[j].pc \in {"del", "unlink", "update"} \/ job[j].path \in files',
         \A k \in Jobs \ {j} : job'[k] = job[k],
         Open' = Open, j \in Open,
         \A k \in Open' : job'[k].alone => Open' = {k},
         clean => \A k \in Removals' : job'[k].alone /\ job'[k].pc # "stalled",
         files \subseteq files', UNCHANGED <<row, clean>>
  PROVE  FilesInv'
<1>1. clean' => \A k \in Removals' : job'[k].alone /\ job'[k].pc # "stalled"
  OBVIOUS
<1>2. \A k \in Jobs : job'[k].pc \in {"del", "unlink", "update"} /\ (job'[k].alone \/ clean') =>
                        job'[k].path \in files'
  BY DEF FilesInv
<1>3. clean' /\ row' \in Paths /\ (\A k \in Jobs : job'[k].pc # "clear") =>
        row' \in files'
  BY DEF FilesInv
<1> QED BY <1>1, <1>2, <1>3 DEF FilesInv

LEMMA UploadImageKeeps ==
  ASSUME ImageInv, NEW j \in Jobs, Upload(j)
  PROVE  ImageInv'
<1>1. ImageTypes /\ ChangesInv /\ FilesInv /\ GettersInv /\ CacheInv
  BY DEF ImageInv
<1> DEFINE h == [job[j] EXCEPT !.pc = "del"]
<1>2. /\ job[j].pc = "upload" /\ job' = [job EXCEPT ![j] = h]
      /\ files' = files \cup {job[j].path}
      /\ UNCHANGED <<owner, row, queue, cache, getter, clean, left, now, crashes>>
  BY <1>1 DEF Upload, Goto, ImageTypes, clock
<1>3. job[j] \in ImageJobs /\ job[j].kind = "update" /\ job[j].path \in Paths
  BY <1>1, <1>2 DEF ImageTypes, ChangesInv, ChangeFits
<1>4. /\ h \in ImageJobs /\ h.pc = "del" /\ h.kind = job[j].kind /\ h.path = job[j].path
      /\ h.alone = job[j].alone
  BY <1>3 DEF ImageJobs, Running
<1> HIDE DEF h
<1>5. /\ job' \in [Jobs -> ImageJobs] /\ job'[j] = h
      /\ \A k \in Jobs \ {j} : job'[k] = job[k]
      /\ WaitingInv' /\ ChangesInv' /\ Open' = Open /\ j \in Open
      /\ \A k \in Open' : job'[k].alone => Open' = {k}
      /\ clean => \A k \in Removals' : job'[k].alone /\ job'[k].pc # "stalled"
  BY <1>2, <1>3, <1>4, JobMoved DEF Running
<1>6. ImageTypes'
  BY <1>1, <1>2, <1>3, <1>5 DEF ImageTypes
<1>7. FilesInv'
  BY <1>1, <1>2, <1>4, <1>5, FilesMoved DEF Running
<1>8. GettersInv'
  BY <1>1, <1>2, <1>5 DEF GettersInv, Fetching, Fetched
<1>9. CacheInv'
  <2>1. (\E k \in Jobs : job'[k].pc \in {"unlink", "update"}) =>
          \E k \in Jobs : job[k].pc \in {"unlink", "update"}
    BY <1>4, <1>5
  <2> QED BY <1>1, <1>2, <2>1 DEF CacheInv
<1> QED BY <1>5, <1>6, <1>7, <1>8, <1>9 DEF ImageInv

LEMMA DelKeeps ==
  ASSUME ImageInv, NEW j \in Jobs, Del(j)
  PROVE  ImageInv'
<1>1. ImageTypes /\ ChangesInv /\ FilesInv /\ GettersInv /\ CacheInv
  BY DEF ImageInv
<1>2. PICK pc \in {"unlink", "update"} :
        /\ job[j].pc = "del" /\ job' = [job EXCEPT ![j] = [job[j] EXCEPT !.pc = pc]]
        /\ cache' = NoLink
        /\ UNCHANGED <<owner, row, files, queue, getter, clean, left, now, crashes>>
  BY <1>1 DEF Del, Goto, ImageTypes, clock
<1> DEFINE h == [job[j] EXCEPT !.pc = pc]
<1>3. job[j] \in ImageJobs /\ job[j].kind = "update"
  BY <1>1, <1>2 DEF ImageTypes, ChangesInv, ChangeFits
<1>4. /\ h \in ImageJobs /\ h.pc = pc /\ h.kind = job[j].kind /\ h.path = job[j].path
      /\ h.alone = job[j].alone
  BY <1>3 DEF ImageJobs, Running
<1> HIDE DEF h
<1>5. /\ job' \in [Jobs -> ImageJobs] /\ job'[j] = h
      /\ \A k \in Jobs \ {j} : job'[k] = job[k]
      /\ WaitingInv' /\ ChangesInv' /\ Open' = Open /\ j \in Open
      /\ \A k \in Open' : job'[k].alone => Open' = {k}
      /\ clean => \A k \in Removals' : job'[k].alone /\ job'[k].pc # "stalled"
  <2>1. job' = [job EXCEPT ![j] = h] /\ queue' = queue
    BY <1>2 DEF h
  <2>2. job[j].pc \in Running /\ h.pc \in Running /\ h.pc \notin {"remove", "clear"}
    BY <1>2, <1>4 DEF Running
  <2> QED BY <1>3, <1>4, <2>1, <2>2, JobMoved
<1>6. ImageTypes'
  BY <1>1, <1>2, <1>5, BlankJob DEF ImageTypes
<1>7. FilesInv'
  BY <1>1, <1>2, <1>4, <1>5, FilesMoved DEF Running
<1>8. GettersInv'
  BY <1>1, <1>2, <1>5 DEF GettersInv, Fetching, Fetched
<1>9. CacheInv'
  BY <1>2, BlankJob DEF CacheInv
<1> QED BY <1>5, <1>6, <1>7, <1>8, <1>9 DEF ImageInv

LEMMA UnlinkKeeps ==
  ASSUME ImageInv, NEW j \in Jobs, Unlink(j)
  PROVE  ImageInv'
<1>1. ImageTypes /\ ChangesInv /\ FilesInv /\ GettersInv /\ CacheInv
  BY DEF ImageInv
<1> DEFINE h == [job[j] EXCEPT !.pc = "update", !.temp = FALSE]
<1>2. /\ job[j].pc = "unlink" /\ job' = [job EXCEPT ![j] = h]
      /\ UNCHANGED <<owner, row, files, queue, cache, getter, clean, left, now, crashes>>
  BY <1>1 DEF Unlink, ImageTypes, clock
<1>3. job[j] \in ImageJobs /\ job[j].kind = "update"
  BY <1>1, <1>2 DEF ImageTypes, ChangesInv, ChangeFits
<1>4. /\ h \in ImageJobs /\ h.pc = "update" /\ h.kind = job[j].kind /\ h.path = job[j].path
      /\ h.alone = job[j].alone
  BY <1>3 DEF ImageJobs, Running
<1> HIDE DEF h
<1>5. /\ job' \in [Jobs -> ImageJobs] /\ job'[j] = h
      /\ \A k \in Jobs \ {j} : job'[k] = job[k]
      /\ WaitingInv' /\ ChangesInv' /\ Open' = Open /\ j \in Open
      /\ \A k \in Open' : job'[k].alone => Open' = {k}
      /\ clean => \A k \in Removals' : job'[k].alone /\ job'[k].pc # "stalled"
  BY <1>2, <1>3, <1>4, JobMoved DEF Running
<1>6. ImageTypes'
  BY <1>1, <1>2, <1>5 DEF ImageTypes
<1>7. FilesInv'
  BY <1>1, <1>2, <1>4, <1>5, FilesMoved DEF Running
<1>8. GettersInv'
  BY <1>1, <1>2, <1>5 DEF GettersInv, Fetching, Fetched
<1>9. CacheInv'
  BY <1>1, <1>2, <1>5 DEF CacheInv
<1> QED BY <1>5, <1>6, <1>7, <1>8, <1>9 DEF ImageInv

\* The row leaves its row, while a change is under way or for good.
LEMMA RowLeft ==
  ASSUME ImageInv, NEW p \in Paths \cup {None, "gone"},
         SetRow(p), Open' = Open,
         Open # {} \/ p = "gone", UNCHANGED <<getter, now>>
  PROVE  /\ row' = p /\ left' \in [Paths -> 0..MaxTime] /\ GettersInv'
         /\ cache.path # None =>
              /\ cache.until <= now + CacheTime
              /\ cache.path # row' => cache.until <= left'[cache.path] + Latency + CacheTime
<1>1. ImageTypes /\ GettersInv /\ CacheInv
  BY DEF ImageInv
<1>2. row' = p /\ left' = [q \in Paths |-> IF q = row /\ q # p THEN now ELSE left[q]]
  BY DEF SetRow
<1>3. left' \in [Paths -> 0..MaxTime]
  BY <1>1, <1>2 DEF ImageTypes
<1>4. \A q \in Paths : /\ row' # q /\ row = q => left'[q] = now
                       /\ row # q => left'[q] = left[q]
  BY <1>2
<1>5. GettersInv'
  <2> SUFFICES ASSUME NEW g \in Getters, Fetching(g) PROVE Fetched(g)'
    BY DEF GettersInv, Fetching
  <2>1. Fetched(g) /\ (getter[g].crossed \/ p = "gone")
    BY <1>1 DEF GettersInv, Fetched
  <2>2. getter[g].path \in Paths
    BY <1>1 DEF ImageTypes, Reads, Fetching
  <2>3. getter[g].path # row' => getter[g].since <= left'[getter[g].path]
    <3>1. CASE getter[g].path = row
      BY <1>4, <2>1, <2>2, <3>1 DEF Fetched
    <3>2. CASE getter[g].path # row
      BY <1>4, <2>1, <2>2, <3>2 DEF Fetched
    <3> QED BY <3>1, <3>2
  <2> QED BY <1>2, <2>1, <2>3 DEF Fetched
<1>6. ASSUME cache.path # None
      PROVE  /\ cache.until <= now + CacheTime
             /\ cache.path # row' => cache.until <= left'[cache.path] + Latency + CacheTime
  <2>1. cache.until <= now + CacheTime
    BY <1>1, <1>6 DEF CacheInv
  <2>2. cache.path \in Paths /\ cache.until \in Nat /\ now \in Nat
    BY <1>1, <1>6, ImageNumbers DEF ImageTypes, Links
  <2>3. ASSUME cache.path # row' PROVE cache.until <= left'[cache.path] + Latency + CacheTime
    <3>1. CASE cache.path = row
      BY <1>4, <2>1, <2>2, <2>3, <3>1, ImageNumbers
    <3>2. CASE cache.path # row
      BY <1>1, <1>4, <1>6, <2>2, <3>2 DEF CacheInv
    <3> QED BY <3>1, <3>2
  <2> QED BY <2>1, <2>3
<1> QED BY <1>2, <1>3, <1>5, <1>6

LEMMA UpdateKeeps ==
  ASSUME ImageInv, NEW j \in Jobs, Update(j)
  PROVE  ImageInv'
<1>1. ImageTypes /\ ChangesInv /\ FilesInv /\ GettersInv /\ CacheInv
  BY DEF ImageInv
<1> DEFINE h == [job[j] EXCEPT !.pc = "applied"]
<1>2. /\ job[j].pc = "update" /\ row # "gone" /\ SetRow(job[j].path)
      /\ job' = [job EXCEPT ![j] = h] /\ clean' = (clean \/ job[j].alone)
      /\ UNCHANGED <<owner, files, queue, cache, getter, now, crashes>>
  BY <1>1 DEF Update, Goto, ImageTypes
<1>3. job[j] \in ImageJobs /\ job[j].kind = "update" /\ job[j].path \in Paths
  BY <1>1, <1>2 DEF ImageTypes, ChangesInv, ChangeFits
<1>4. /\ h \in ImageJobs /\ h.pc = "applied" /\ h.kind = job[j].kind /\ h.path = job[j].path
      /\ h.alone = job[j].alone
  BY <1>3 DEF ImageJobs, Running
<1> HIDE DEF h
<1>5. /\ job' \in [Jobs -> ImageJobs] /\ job'[j] = h
      /\ \A k \in Jobs \ {j} : job'[k] = job[k]
      /\ WaitingInv' /\ ChangesInv' /\ Open' = Open /\ j \in Open
      /\ \A k \in Open' : job'[k].alone => Open' = {k}
      /\ clean => \A k \in Removals' : job'[k].alone /\ job'[k].pc # "stalled"
  BY <1>2, <1>3, <1>4, JobMoved DEF Running
<1>6. /\ row' = job[j].path /\ left' \in [Paths -> 0..MaxTime] /\ GettersInv'
      /\ cache.path # None =>
           /\ cache.until <= now + CacheTime
           /\ cache.path # row' => cache.until <= left'[cache.path] + Latency + CacheTime
  BY <1>2, <1>3, <1>5, RowLeft
<1>7. ImageTypes'
  <2>1. clean' \in BOOLEAN
    BY <1>2
  <2> QED BY <1>1, <1>2, <1>3, <1>5, <1>6, <2>1 DEF ImageTypes
<1>8. FilesInv'
  <2>1. job[j].alone => Open' = {j}
    BY <1>1, <1>5 DEF FilesInv
  <2>2. job[j].alone => Removals' = {}
    BY <1>3, <1>4, <1>5, <2>1 DEF Removals
  <2>3. clean' => \A k \in Removals' : job'[k].alone /\ job'[k].pc # "stalled"
    BY <1>2, <1>5, <2>2
  <2>4. \A k \in Jobs : job'[k].pc \in {"del", "unlink", "update"} /\ (job'[k].alone \/ clean') =>
                          job'[k].path \in files'
    <3> SUFFICES ASSUME NEW k \in Jobs, job'[k].pc \in {"del", "unlink", "update"},
                        job'[k].alone \/ clean'
                 PROVE  job'[k].path \in files'
      OBVIOUS
    <3>1. k # j /\ job'[k] = job[k] /\ k \in Open'
      BY <1>4, <1>5 DEF Open, Running
    <3>2. job[k].alone \/ clean
      BY <1>2, <2>1, <3>1
    <3> QED BY <1>1, <1>2, <3>1, <3>2 DEF FilesInv
  <2>5. clean' => row' \in files'
    BY <1>1, <1>2, <1>6 DEF FilesInv
  <2> QED BY <1>5, <2>3, <2>4, <2>5 DEF FilesInv
<1>9. CacheInv'
  <2>1. cache.path # None => cache.crossed
    BY <1>1, <1>2 DEF CacheInv
  <2> QED BY <1>2, <1>6, <2>1 DEF CacheInv
<1> QED BY <1>5, <1>6, <1>7, <1>8, <1>9 DEF ImageInv

LEMMA RemoveKeeps ==
  ASSUME ImageInv, NEW j \in Jobs, Remove(j)
  PROVE  ImageInv'
<1>1. ImageTypes /\ ChangesInv /\ FilesInv /\ GettersInv /\ CacheInv
  BY DEF ImageInv
<1> DEFINE h == [job[j] EXCEPT !.pc = "clear"]
<1>2. /\ job[j].pc = "remove" /\ files' = files \ {job[j].snap}
      /\ job' = [job EXCEPT ![j] = h]
      /\ UNCHANGED <<owner, row, queue, cache, getter, clean, left, now, crashes>>
  BY <1>1 DEF Remove, Goto, ImageTypes, clock
<1>3. job[j] \in ImageJobs /\ job[j].kind = "delete"
  BY <1>1, <1>2 DEF ImageTypes, ChangesInv, ChangeFits
<1>4. /\ h \in ImageJobs /\ h.pc = "clear" /\ h.kind = job[j].kind /\ h.path = job[j].path
      /\ h.alone = job[j].alone
  BY <1>3 DEF ImageJobs, Running
<1> HIDE DEF h
<1>5. /\ job' \in [Jobs -> ImageJobs] /\ job'[j] = h
      /\ \A k \in Jobs \ {j} : job'[k] = job[k]
      /\ WaitingInv' /\ ChangesInv' /\ Open' = Open /\ j \in Open
      /\ \A k \in Open' : job'[k].alone => Open' = {k}
      /\ clean => \A k \in Removals' : job'[k].alone /\ job'[k].pc # "stalled"
  BY <1>2, <1>3, <1>4, JobMoved DEF Running
<1>6. ImageTypes'
  BY <1>1, <1>2, <1>5 DEF ImageTypes
<1>7. FilesInv'
  <2>1. clean' => \A k \in Removals' : job'[k].alone /\ job'[k].pc # "stalled"
    BY <1>2, <1>5
  <2>2. clean => Open' = {j}
    BY <1>3, <1>4, <1>5, <2>1, <1>2 DEF Removals
  <2>3. \A k \in Jobs : ~(/\ job'[k].pc \in {"del", "unlink", "update"}
                          /\ job'[k].alone \/ clean')
    BY <1>2, <1>4, <1>5, <2>2 DEF Open, Running
  <2> QED BY <1>4, <1>5, <2>1, <2>3 DEF FilesInv
<1>8. GettersInv'
  BY <1>1, <1>2, <1>5 DEF GettersInv, Fetching, Fetched
<1>9. CacheInv'
  <2>1. (\E k \in Jobs : job'[k].pc \in {"unlink", "update"}) =>
          \E k \in Jobs : job[k].pc \in {"unlink", "update"}
    BY <1>4, <1>5
  <2> QED BY <1>1, <1>2, <2>1 DEF CacheInv
<1> QED BY <1>5, <1>6, <1>7, <1>8, <1>9 DEF ImageInv

LEMMA ClearKeeps ==
  ASSUME ImageInv, NEW j \in Jobs, Clear(j)
  PROVE  ImageInv'
<1>1. ImageTypes /\ ChangesInv /\ FilesInv /\ GettersInv /\ CacheInv
  BY DEF ImageInv
<1> DEFINE h == [job[j] EXCEPT !.pc = "applied"]
<1>2. /\ job[j].pc = "clear" /\ row # "gone" /\ SetRow(None)
      /\ cache' = [cache EXCEPT !.crossed = (cache.path # None)]
      /\ job' = [job EXCEPT ![j] = h]
      /\ UNCHANGED <<owner, files, queue, getter, clean, now, crashes>>
  BY <1>1 DEF Clear, Emptied, Goto, ImageTypes
<1>3. job[j] \in ImageJobs /\ job[j].kind = "delete" /\ cache \in Links
  BY <1>1, <1>2 DEF ImageTypes, ChangesInv, ChangeFits
<1>4. /\ h \in ImageJobs /\ h.pc = "applied" /\ h.kind = job[j].kind /\ h.path = job[j].path
      /\ h.alone = job[j].alone
  BY <1>3 DEF ImageJobs, Running
<1> HIDE DEF h
<1>5. /\ job' \in [Jobs -> ImageJobs] /\ job'[j] = h
      /\ \A k \in Jobs \ {j} : job'[k] = job[k]
      /\ WaitingInv' /\ ChangesInv' /\ Open' = Open /\ j \in Open
      /\ \A k \in Open' : job'[k].alone => Open' = {k}
      /\ clean => \A k \in Removals' : job'[k].alone /\ job'[k].pc # "stalled"
  BY <1>2, <1>3, <1>4, JobMoved DEF Running
<1>6. /\ row' = None /\ left' \in [Paths -> 0..MaxTime] /\ GettersInv'
      /\ cache.path # None =>
           /\ cache.until <= now + CacheTime
           /\ cache.path # row' => cache.until <= left'[cache.path] + Latency + CacheTime
  BY <1>2, <1>5, RowLeft
<1>7. cache' \in Links /\ cache'.path = cache.path /\ cache'.until = cache.until
      /\ (cache'.crossed <=> cache.path # None)
  BY <1>2, <1>3 DEF Links
<1>8. ImageTypes'
  BY <1>1, <1>2, <1>5, <1>6, <1>7 DEF ImageTypes
<1>9. FilesInv'
  <2>1. clean' => \A k \in Removals' : job'[k].alone /\ job'[k].pc # "stalled"
    BY <1>2, <1>5
  <2>2. \A k \in Jobs : job'[k].pc \in {"del", "unlink", "update"} /\ (job'[k].alone \/ clean') =>
                          job'[k].path \in files'
    BY <1>1, <1>2, <1>4, <1>5 DEF FilesInv
  <2> QED BY <1>5, <1>6, <2>1, <2>2, ImageNumbers DEF FilesInv
<1>10. CacheInv'
  BY <1>2, <1>6, <1>7 DEF CacheInv
<1> QED BY <1>5, <1>6, <1>8, <1>9, <1>10 DEF ImageInv

\* A job is added, is queued again, or is over; it may be over with its file at
\* Dropbox or no longer there.
LEMMA JobLeaves ==
  ASSUME ImageInv, NEW j \in Jobs, NEW h \in ImageJobs,
         job' = [job EXCEPT ![j] = h],
         h.pc \in {"over", "waiting"}, ChangeFits(h),
         files' \subseteq Paths, files \subseteq files' \/ j \in Open,
         clean' \in BOOLEAN, clean' => clean /\ files \subseteq files' /\ job[j].pc # "clear",
         UNCHANGED <<owner, row, cache, getter, left, now, crashes>>, WaitingInv'
  PROVE  ImageInv'
<1>1. ImageTypes /\ ChangesInv /\ FilesInv /\ GettersInv /\ CacheInv
  BY DEF ImageInv
<1>2. /\ job' \in [Jobs -> ImageJobs] /\ job'[j] = h
      /\ \A k \in Jobs \ {j} : job'[k] = job[k]
  BY <1>1 DEF ImageTypes
<1>3. Open' = Open \ {j}
  BY <1>2 DEF Open, Running
<1>4. ImageTypes' /\ ChangesInv'
  BY <1>1, <1>2 DEF ImageTypes, ChangesInv
<1>5. FilesInv'
  <2>1. \A k \in Open' : job'[k].alone => Open' = {k}
    BY <1>1, <1>2, <1>3 DEF FilesInv, Open
  <2>2. clean' => \A k \in Removals' : job'[k].alone /\ job'[k].pc # "stalled"
    <3>1. \A k \in Removals' : k \in Removals /\ job'[k] = job[k]
      BY <1>2, <1>3 DEF Removals, Open
    <3> QED BY <1>1, <3>1 DEF FilesInv
  <2>3. \A k \in Jobs : job'[k].pc \in {"del", "unlink", "update"} /\ (job'[k].alone \/ clean') =>
                          job'[k].path \in files'
    <3> SUFFICES ASSUME NEW k \in Jobs, job'[k].pc \in {"del", "unlink", "update"},
                        job'[k].alone \/ clean'
                 PROVE  job'[k].path \in files'
      OBVIOUS
    <3>1. k # j /\ job'[k] = job[k] /\ k \in Open
      BY <1>2, <1>3 DEF Open, Running
    <3>2. job[k].path \in files
      BY <1>1, <3>1 DEF FilesInv
    <3>3. files \subseteq files'
      BY <1>1, <3>1 DEF FilesInv
    <3> QED BY <3>1, <3>2, <3>3
  <2>4. clean' /\ row' \in Paths /\ (\A k \in Jobs : job'[k].pc # "clear") =>
        row' \in files'
    <3>1. clean' /\ (\A k \in Jobs : job'[k].pc # "clear") => \A k \in Jobs : job[k].pc # "clear"
      BY <1>2
    <3> QED BY <1>1, <3>1 DEF FilesInv
  <2> QED BY <2>1, <2>2, <2>3, <2>4 DEF FilesInv
<1>6. GettersInv'
  BY <1>1, <1>3 DEF GettersInv, Fetching, Fetched
<1>7. CacheInv'
  <2>1. (\E k \in Jobs : job'[k].pc \in {"unlink", "update"}) =>
          \E k \in Jobs : job[k].pc \in {"unlink", "update"}
    BY <1>2
  <2> QED BY <1>1, <2>1 DEF CacheInv
<1> QED BY <1>4, <1>5, <1>6, <1>7 DEF ImageInv

LEMMA EndImageKeeps ==
  ASSUME ImageInv, NEW j \in Jobs, Complete(j) \/ Fail(j)
  PROVE  ImageInv'
<1> DEFINE h == [NoJob EXCEPT !.pc = "over"]
<1>1. ImageTypes /\ WaitingInv
  BY DEF ImageInv
<1>2. /\ job[j].pc \in Running /\ job' = [job EXCEPT ![j] = h]
      /\ UNCHANGED <<owner, row, queue, cache, getter, left, now, crashes>>
  BY DEF Complete, Fail, Running, clock
<1>5. /\ files' \subseteq Paths /\ clean' \in BOOLEAN
      /\ clean' => clean /\ files \subseteq files' /\ job[j].pc # "clear"
  <2>1. CASE Complete(j)
    BY <1>1, <2>1 DEF Complete, ImageTypes
  <2>2. CASE Fail(j)
    <3>1. clean' = (clean /\ files \subseteq files' /\ job[j].pc # "clear")
      BY <2>2 DEF Fail
    <3>2. job[j].pc = "upload" => job[j].path \in Paths
      BY DEF ImageInv, ChangesInv, ChangeFits
    <3>3. files' \subseteq Paths
      BY <1>1, <2>2, <3>2 DEF Fail, ImageTypes
    <3> QED BY <3>1, <3>3
  <2> QED BY <2>1, <2>2
<1>6. j \in Open
  BY <1>2 DEF Open
<1>3. h \in ImageJobs /\ ChangeFits(h) /\ h.pc = "over"
  BY BlankJob DEF NoJob
<1> HIDE DEF h
<1>4. WaitingInv'
  BY <1>1, <1>2, <1>3 DEF WaitingInv, ImageTypes, Running
<1> QED BY <1>2, <1>3, <1>4, <1>5, <1>6, JobLeaves

LEMMA ImageRequeueKeeps ==
  ASSUME ImageInv, NEW j \in Jobs, Requeue(j)
  PROVE  ImageInv'
<1>1. ImageTypes /\ WaitingInv /\ ChangesInv
  BY DEF ImageInv
<1>2. /\ job[j].pc = "stalled" /\ files \subseteq Paths /\ clean \in BOOLEAN
      /\ UNCHANGED <<owner, row, files, cache, getter, clean, left, now, crashes>>
  BY <1>1 DEF Requeue, clock, ImageTypes
<1>3. CASE job[j].runs < 2
  <2> DEFINE h == [job[j] EXCEPT !.pc = "waiting"]
  <2>1. queue' = <<j>> \o queue /\ job' = [job EXCEPT ![j] = h]
    BY <1>1, <1>3 DEF Requeue, Goto, ImageTypes
  <2>2. job[j] \in ImageJobs /\ ChangeFits(job[j])
    BY <1>1 DEF ImageTypes, ChangesInv
  <2>3. h \in ImageJobs /\ h.pc = "waiting" /\ ChangeFits(h)
    BY <1>2, <1>3, <2>2 DEF ImageJobs, ChangeFits
  <2> HIDE DEF h
  <2>4. WaitingInv'
    <3>1. queue \in Seq(Jobs) /\ Distinct(queue) /\ ~Listed(queue, j)
      BY <1>1, <1>2 DEF WaitingInv
    <3>2. /\ queue' \in Seq(Jobs) /\ Distinct(queue')
          /\ \A k \in Jobs : Listed(queue', k) <=> (k = j \/ Listed(queue, k))
      BY <2>1, <3>1, Prepended
    <3>3. \A k \in Jobs : (job'[k].pc = "waiting") <=> (k = j \/ job[k].pc = "waiting")
      BY <1>1, <2>1, <2>3 DEF ImageTypes
    <3>4. \A k \in Jobs : (job'[k].pc = "waiting") <=> Listed(queue', k)
      BY <1>1, <3>2, <3>3 DEF WaitingInv
    <3> QED BY <3>2, <3>4 DEF WaitingInv, Distinct, Listed
  <2> QED BY <1>2, <2>1, <2>3, <2>4, JobLeaves
<1>4. CASE ~(job[j].runs < 2)
  <2> DEFINE h == [NoJob EXCEPT !.pc = "over"]
  <2>1. queue' = queue /\ job' = [job EXCEPT ![j] = h]
    BY <1>4 DEF Requeue
  <2>2. h \in ImageJobs /\ ChangeFits(h) /\ h.pc = "over"
    BY BlankJob DEF NoJob
  <2> HIDE DEF h
  <2>3. WaitingInv'
    BY <1>1, <1>2, <2>1, <2>2 DEF WaitingInv, ImageTypes
  <2> QED BY <1>2, <2>1, <2>2, <2>3, JobLeaves
<1> QED BY <1>3, <1>4

LEMMA ImageAddKeeps ==
  ASSUME ImageInv, NEW j \in Jobs, NEW h \in ImageJobs,
         Add(j, h), h.runs < 2,
         h.kind = "update" => h.path \in Paths
  PROVE  ImageInv'
<1> DEFINE g == [h EXCEPT !.pc = "waiting"]
<1>1. ImageTypes /\ WaitingInv
  BY DEF ImageInv
<1>2. /\ job[j].pc = "idle" /\ queue' = Append(queue, j) /\ job' = [job EXCEPT ![j] = g]
      /\ files \subseteq Paths /\ clean \in BOOLEAN
      /\ UNCHANGED <<owner, row, files, cache, getter, clean, left, now, crashes>>
  BY <1>1 DEF Add, clock, ImageTypes
<1>3. g \in ImageJobs /\ g.pc = "waiting" /\ ChangeFits(g)
  BY DEF ImageJobs, ChangeFits
<1> HIDE DEF g
<1>4. WaitingInv'
  <2>1. queue \in Seq(Jobs) /\ Distinct(queue) /\ ~Listed(queue, j)
    BY <1>1, <1>2 DEF WaitingInv
  <2>2. /\ queue' \in Seq(Jobs) /\ Distinct(queue')
        /\ \A k \in Jobs : Listed(queue', k) <=> (k = j \/ Listed(queue, k))
    BY <1>2, <2>1, Appended
  <2>3. \A k \in Jobs : (job'[k].pc = "waiting") <=> (k = j \/ job[k].pc = "waiting")
    BY <1>1, <1>2, <1>3 DEF ImageTypes
  <2>4. \A k \in Jobs : (job'[k].pc = "waiting") <=> Listed(queue', k)
    BY <1>1, <2>2, <2>3 DEF WaitingInv
  <2> QED BY <2>2, <2>4 DEF WaitingInv, Distinct, Listed
<1> QED BY <1>2, <1>3, <1>4, JobLeaves

\* A job begins: no other has been alone since, and what is fetched is fetched
\* across it.
LEMMA BegunJob ==
  ASSUME ImageInv, NEW j \in Jobs, NEW h \in ImageJobs,
         Started(j, h), h.runs < 2,
         h.pc \in {"upload", "remove"}, job[j].pc \in {"idle", "waiting"}
  PROVE  /\ job' \in [Jobs -> ImageJobs] /\ getter' \in [Getters -> Reads]
         /\ job'[j].pc = h.pc /\ job'[j].kind = h.kind /\ job'[j].path = h.path
         /\ (job'[j].alone <=> Open = {})
         /\ \A k \in Jobs \ {j} :
              /\ job'[k].pc = job[k].pc /\ job'[k].kind = job[k].kind
              /\ job'[k].path = job[k].path /\ ~job'[k].alone
              /\ (ChangeFits(job[k]) => ChangeFits(job'[k]))
         /\ (clean' <=> clean /\ (Open = {} \/ (h.kind = "update" /\ Removals = {})))
         /\ clean' \in BOOLEAN
         /\ \A g \in Getters : /\ getter'[g].path = getter[g].path
                               /\ getter'[g].since = getter[g].since
                               /\ (getter'[g].crossed <=> Fetching(g))
<1>1. ImageTypes
  BY DEF ImageInv
<1>2. Open \ {j} = Open
  BY DEF Open, Running
<1>3. PICK alone \in BOOLEAN : alone = (Open = {})
  OBVIOUS
<1>13. PICK runs \in 0..2 : runs = h.runs + 1
  BY DEF ImageJobs
<1> DEFINE n == [h EXCEPT !.runs = runs, !.alone = alone]
           m(k) == [job[k] EXCEPT !.alone = FALSE]
<1>4. job' = [k \in Jobs |-> IF k = j THEN n ELSE m(k)]
  BY <1>2, <1>3, <1>13 DEF Started
<1>5. n \in ImageJobs /\ n.pc = h.pc /\ n.kind = h.kind /\ n.path = h.path /\ n.alone = alone
  BY DEF ImageJobs
<1>6. ASSUME NEW k \in Jobs
      PROVE  /\ m(k) \in ImageJobs /\ m(k).pc = job[k].pc /\ ~m(k).alone
             /\ m(k).kind = job[k].kind /\ m(k).path = job[k].path /\ m(k).runs = job[k].runs
  BY <1>1 DEF ImageTypes, ImageJobs
<1>7. ASSUME NEW k \in Jobs, ChangeFits(job[k]) PROVE ChangeFits(m(k))
  <2> HIDE DEF m
  <2> QED BY <1>6, <1>7 DEF ChangeFits
<1>8. ASSUME NEW g \in Getters
      PROVE  /\ getter'[g] \in Reads
             /\ getter'[g].path = getter[g].path /\ getter'[g].since = getter[g].since
             /\ (getter'[g].crossed <=> Fetching(g))
  <2>1. PICK across \in BOOLEAN : across = Fetching(g)
    BY DEF Fetching
  <2>2. getter[g] \in Reads /\ getter'[g] = [getter[g] EXCEPT !.crossed = across]
    BY <1>1, <2>1 DEF ImageTypes, Started, Fetching
  <2> QED BY <2>1, <2>2 DEF Reads
<1>9. getter' \in [Getters -> Reads]
  <2>1. getter' = [g \in Getters |-> getter'[g]]
    BY DEF Started
  <2> QED BY <1>8, <2>1
<1> HIDE DEF n, m
<1>10. job' \in [Jobs -> ImageJobs]
  BY <1>4, <1>5, <1>6
<1>11. job'[j] = n /\ \A k \in Jobs \ {j} : job'[k] = m(k)
  BY <1>4
<1>12. /\ (clean' <=> clean /\ (Open = {} \/ (h.kind = "update" /\ Removals = {})))
       /\ clean' \in BOOLEAN
  BY <1>2 DEF Started
<1> QED BY <1>3, <1>5, <1>6, <1>7, <1>8, <1>9, <1>10, <1>11, <1>12

LEMMA BegunKeeps ==
  ASSUME ImageInv, NEW j \in Jobs, NEW h \in ImageJobs,
         Started(j, h), h.runs < 2,
         \/ h.pc = "upload" /\ h.kind = "update" /\ h.path \in Paths
         \/ h.pc = "remove" /\ h.kind = "delete",
         job[j].pc \in {"idle", "waiting"},
         UNCHANGED <<owner, row, files, cache, left, now, crashes>>, WaitingInv'
  PROVE  ImageInv'
<1>1. ImageTypes /\ ChangesInv /\ FilesInv /\ GettersInv /\ CacheInv
  BY DEF ImageInv
<1>2. /\ job' \in [Jobs -> ImageJobs] /\ getter' \in [Getters -> Reads]
      /\ job'[j].pc = h.pc /\ job'[j].kind = h.kind /\ job'[j].path = h.path
      /\ (job'[j].alone <=> Open = {})
      /\ \A k \in Jobs \ {j} :
           /\ job'[k].pc = job[k].pc /\ job'[k].kind = job[k].kind
           /\ job'[k].path = job[k].path /\ ~job'[k].alone
           /\ (ChangeFits(job[k]) => ChangeFits(job'[k]))
      /\ (clean' <=> clean /\ (Open = {} \/ (h.kind = "update" /\ Removals = {})))
      /\ clean' \in BOOLEAN
      /\ \A g \in Getters : /\ getter'[g].path = getter[g].path
                            /\ getter'[g].since = getter[g].since
                            /\ (getter'[g].crossed <=> Fetching(g))
  BY BegunJob
<1>3. Open' = Open \cup {j}
  BY <1>2 DEF Open, Running
<1>4. ImageTypes'
  BY <1>1, <1>2 DEF ImageTypes
<1>5. ChangesInv'
  <2>1. ChangeFits(job'[j])
    BY <1>2 DEF ChangeFits
  <2> QED BY <1>1, <1>2, <2>1 DEF ChangesInv
<1>6. FilesInv'
  <2>1. \A k \in Open' : job'[k].alone => Open' = {k}
    BY <1>2, <1>3 DEF Open
  <2>2. clean' => \A k \in Removals' : job'[k].alone /\ job'[k].pc # "stalled"
    <3>1. CASE Open = {}
      BY <1>2, <1>3, <3>1 DEF Removals
    <3>2. CASE h.kind = "update" /\ Removals = {}
      <4>1. Removals' = {}
        BY <1>2, <1>3, <3>2 DEF Removals, Open
      <4> QED BY <4>1
    <3> QED BY <1>2, <3>1, <3>2
  <2>3. \A k \in Jobs : job'[k].pc \in {"del", "unlink", "update"} /\ (job'[k].alone \/ clean') =>
                          job'[k].path \in files'
    BY <1>1, <1>2 DEF FilesInv
  <2>4. clean' /\ row' \in Paths /\ (\A k \in Jobs : job'[k].pc # "clear") =>
        row' \in files'
    BY <1>1, <1>2 DEF FilesInv
  <2> QED BY <2>1, <2>2, <2>3, <2>4 DEF FilesInv
<1>7. GettersInv'
  <2> SUFFICES ASSUME NEW g \in Getters, Fetching(g)' PROVE Fetched(g)'
    BY DEF GettersInv
  <2>1. Fetching(g) /\ Fetched(g)
    BY <1>1, <1>2 DEF GettersInv, Fetching
  <2> QED BY <1>2, <2>1 DEF Fetched
<1>8. CacheInv'
  <2>1. (\E k \in Jobs : job'[k].pc \in {"unlink", "update"}) =>
          \E k \in Jobs : job[k].pc \in {"unlink", "update"}
    BY <1>2
  <2> QED BY <1>1, <2>1 DEF CacheInv
<1> QED BY <1>4, <1>5, <1>6, <1>7, <1>8 DEF ImageInv

LEMMA UpdateUserKeeps ==
  ASSUME ImageInv, NEW j \in Jobs, NEW p \in Paths,
         UpdateUserImage(j, p)
  PROVE  ImageInv'
<1> DEFINE h == [NoJob EXCEPT !.pc = "upload", !.path = p, !.temp = TRUE]
<1>1. ImageTypes /\ WaitingInv
  BY DEF ImageInv
<1>2. /\ job[j].pc = "idle" /\ Started(j, h)
      /\ UNCHANGED <<owner, row, files, queue, cache, left, now, crashes>>
  BY DEF UpdateUserImage, clock
<1>3. h \in ImageJobs /\ h.pc = "upload" /\ h.kind = "update" /\ h.path = p /\ h.runs = 0
  BY BlankJob DEF ImageJobs, Running
<1> HIDE DEF h
<1>4. WaitingInv'
  <2>1. \A k \in Jobs : (job'[k].pc = "waiting") <=> (job[k].pc = "waiting")
    BY <1>2, <1>3, BegunJob
  <2> QED BY <1>1, <1>2, <2>1 DEF WaitingInv, Listed, Distinct
<1> QED BY <1>2, <1>3, <1>4, BegunKeeps

LEMMA ImageBeginKeeps ==
  ASSUME ImageInv, NEW j \in Jobs, Begin(j)
  PROVE  ImageInv'
<1> DEFINE pc == IF job[j].kind = "update" THEN "upload" ELSE "remove"
           h == [job[j] EXCEPT !.pc = pc]
<1>1. ImageTypes /\ WaitingInv /\ ChangesInv
  BY DEF ImageInv
<1>2. /\ queue # <<>> /\ Head(queue) = j /\ queue' = Tail(queue) /\ Started(j, h)
      /\ UNCHANGED <<owner, row, files, cache, left, now, crashes>>
  BY DEF Begin, clock
<1>3. /\ Listed(queue, j) /\ Tail(queue) \in Seq(Jobs) /\ Distinct(Tail(queue))
      /\ \A k \in Jobs : Listed(Tail(queue), k) <=> (k # j /\ Listed(queue, k))
  BY <1>1, <1>2, Taken DEF WaitingInv
<1>4. job[j] \in ImageJobs /\ ChangeFits(job[j]) /\ job[j].pc = "waiting"
  BY <1>1, <1>3 DEF ImageTypes, WaitingInv, ChangesInv
<1>5. h \in ImageJobs /\ h.pc = pc /\ h.kind = job[j].kind /\ h.path = job[j].path
      /\ h.runs = job[j].runs
  BY <1>4 DEF ImageJobs, Running
<1>6. /\ h.runs < 2
      /\ \/ h.pc = "upload" /\ h.kind = "update" /\ h.path \in Paths
         \/ h.pc = "remove" /\ h.kind = "delete"
  <2>1. job[j].kind \in {"update", "delete"}
    BY <1>4 DEF ImageJobs
  <2> QED BY <1>4, <1>5, <2>1 DEF ChangeFits
<1> HIDE DEF h
<1>7. WaitingInv'
  <2>1. \A k \in Jobs : (job'[k].pc = "waiting") <=> (k # j /\ job[k].pc = "waiting")
    BY <1>2, <1>4, <1>5, <1>6, BegunJob
  <2>2. \A k \in Jobs : (job'[k].pc = "waiting") <=> Listed(queue', k)
    BY <1>1, <1>2, <1>3, <2>1 DEF WaitingInv
  <2>3. queue' \in Seq(Jobs) /\ Distinct(queue')
    BY <1>2, <1>3
  <2> QED BY <2>2, <2>3 DEF WaitingInv, Distinct, Listed
<1> QED BY <1>2, <1>4, <1>5, <1>6, <1>7, BegunKeeps

LEMMA RoomKeeps ==
  ASSUME ImageInv, NEW j \in Jobs,
         (\E p \in Paths : UpdateRoomImage(j, p)) \/ DeleteRoomImage(j)
  PROVE  ImageInv'
<1>1. ASSUME NEW p \in Paths, UpdateRoomImage(j, p) PROVE ImageInv'
  <2> DEFINE h == [NoJob EXCEPT !.path = p, !.temp = TRUE]
  <2>1. h \in ImageJobs /\ h.runs = 0 /\ h.path \in Paths
    BY BlankJob DEF ImageJobs
  <2>2. Add(j, h)
    BY <1>1 DEF UpdateRoomImage
  <2> HIDE DEF h
  <2> QED BY <2>1, <2>2, ImageAddKeeps
<1>2. ASSUME DeleteRoomImage(j) PROVE ImageInv'
  <2> DEFINE h == [NoJob EXCEPT !.kind = "delete", !.snap = row]
  <2>1. row \in Paths \cup {None}
    BY <1>2 DEF DeleteRoomImage, ImageInv, ImageTypes
  <2>2. h \in ImageJobs /\ h.runs = 0 /\ h.kind = "delete"
    BY <2>1, BlankJob DEF ImageJobs
  <2>3. Add(j, h)
    BY <1>2 DEF DeleteRoomImage
  <2> HIDE DEF h
  <2> QED BY <2>2, <2>3, ImageAddKeeps
<1> QED BY <1>1, <1>2

-----------------------------------------------------------------------------
(* Links, and the rest.                                                    *)

LEMMA ReadKeeps ==
  ASSUME ImageInv, NEW g \in Getters, ReadPath(g)
  PROVE  ImageInv'
<1>1. ImageTypes /\ WaitingInv /\ ChangesInv /\ FilesInv /\ GettersInv /\ CacheInv
  BY DEF ImageInv
<1>2. PICK across \in BOOLEAN : across = (Open # {})
  OBVIOUS
<1> DEFINE n == [path |-> row, since |-> now, crossed |-> across]
<1>3. /\ row \in Paths /\ getter' = [getter EXCEPT ![g] = n]
      /\ UNCHANGED <<owner, row, files, queue, job, cache, clean, left, now, crashes>>
  BY <1>2 DEF ReadPath, clock
<1>4. n \in Reads /\ n.path = row /\ n.since = now /\ n.crossed = across
  BY <1>1, <1>3 DEF ImageTypes, Reads
<1> HIDE DEF n
<1>5. ImageTypes' /\ getter'[g] = n /\ \A k \in Getters \ {g} : getter'[k] = getter[k]
  BY <1>1, <1>3, <1>4 DEF ImageTypes
<1>6. Open' = Open /\ WaitingInv' /\ ChangesInv'
  BY <1>1, <1>3 DEF Open, WaitingInv, Listed, Distinct, ChangesInv
<1>7. FilesInv'
  BY <1>1, <1>3, <1>6 DEF FilesInv, Removals
<1>8. GettersInv'
  <2> SUFFICES ASSUME NEW k \in Getters, Fetching(k)' PROVE Fetched(k)'
    BY DEF GettersInv
  <2>1. CASE k = g
    <3>1. now \in Nat /\ now <= now + Latency
      BY <1>1, ImageNumbers DEF ImageTypes
    <3>2. /\ getter'[k].path = row' /\ getter'[k].since = now'
          /\ (getter'[k].crossed <=> Open' # {})
      BY <1>2, <1>3, <1>4, <1>5, <1>6, <2>1
    <3> QED BY <1>3, <3>1, <3>2 DEF Fetched
  <2>2. CASE k # g
    BY <1>1, <1>3, <1>5, <1>6, <2>2 DEF GettersInv, Fetching, Fetched
  <2> QED BY <2>1, <2>2
<1>9. CacheInv'
  BY <1>1, <1>3 DEF CacheInv
<1> QED BY <1>5, <1>6, <1>7, <1>8, <1>9 DEF ImageInv

LEMMA WrapKeeps ==
  ASSUME ImageInv, NEW g \in Getters, Wrap(g)
  PROVE  ImageInv'
<1>1. ImageTypes /\ WaitingInv /\ ChangesInv /\ FilesInv /\ GettersInv /\ CacheInv
  BY DEF ImageInv
<1>2. /\ Fetching(g) /\ getter' = [getter EXCEPT ![g] = NoGetter]
      /\ UNCHANGED <<owner, row, files, queue, job, clean, left, now, crashes>>
  BY DEF Wrap, Fetching, clock
<1>3. Fetched(g) /\ getter[g] \in Reads /\ getter[g].path \in Paths
  BY <1>1, <1>2 DEF ImageTypes, GettersInv, Reads, Fetching
<1> DEFINE n == [path |-> getter[g].path, until |-> now + CacheTime, crossed |-> getter[g].crossed]
<1>4. cache' = cache \/ cache' = n
  BY DEF Wrap, Ttl
<1>5. /\ n \in Links /\ n.path = getter[g].path /\ n.until = now + CacheTime
      /\ n.crossed = getter[g].crossed
  <2>1. now + CacheTime \in Nat
    BY <1>1, ImageNumbers DEF ImageTypes
  <2> QED BY <1>3, <2>1 DEF Links, Reads
<1> HIDE DEF n
<1>6. /\ ImageTypes' /\ getter'[g] = NoGetter
      /\ \A k \in Getters \ {g} : getter'[k] = getter[k]
  BY <1>1, <1>2, <1>4, <1>5, BlankJob DEF ImageTypes
<1>7. Open' = Open /\ WaitingInv' /\ ChangesInv'
  BY <1>1, <1>2 DEF Open, WaitingInv, Listed, Distinct, ChangesInv
<1>8. FilesInv'
  BY <1>1, <1>2, <1>7 DEF FilesInv, Removals
<1>9. GettersInv'
  <2> SUFFICES ASSUME NEW k \in Getters, Fetching(k)' PROVE Fetched(k)'
    BY DEF GettersInv
  <2>1. k # g
    BY <1>6, BlankJob DEF Fetching
  <2> QED BY <1>1, <1>2, <1>6, <1>7, <2>1 DEF GettersInv, Fetching, Fetched
<1>10. CASE cache' = cache
  <2> QED BY <1>1, <1>2, <1>6, <1>7, <1>8, <1>9, <1>10 DEF CacheInv, ImageInv
<1>11. CASE cache' = n
  <2>1. (\E j \in Jobs : job[j].pc \in {"unlink", "update"}) => getter[g].crossed
    BY <1>3 DEF Fetched, Open, Running
  <2>2. getter[g].path # row => now + CacheTime <= left[getter[g].path] + Latency + CacheTime
    <3>1. /\ getter[g].since \in Nat /\ now \in Nat /\ left[getter[g].path] \in Nat
          /\ now <= getter[g].since + Latency
      BY <1>1, <1>3 DEF ImageTypes, Reads, Fetched
    <3> QED BY <1>3, <3>1, ImageNumbers DEF Fetched
  <2>3. now + CacheTime <= now + CacheTime
    BY <1>1, ImageNumbers DEF ImageTypes
  <2>4. CacheInv'
    BY <1>2, <1>3, <1>5, <1>11, <2>1, <2>2, <2>3 DEF CacheInv, Fetched
  <2> QED BY <1>6, <1>7, <1>8, <1>9, <2>4 DEF ImageInv
<1> QED BY <1>4, <1>10, <1>11

LEMMA DeleteOwnerKeeps ==
  ASSUME ImageInv, DeleteOwner
  PROVE  ImageInv'
<1>1. ImageTypes /\ WaitingInv /\ ChangesInv /\ FilesInv /\ GettersInv /\ CacheInv
  BY DEF ImageInv
<1>2. /\ SetRow("gone")
      /\ UNCHANGED <<owner, files, queue, job, cache, getter, clean, now, crashes>>
  BY DEF DeleteOwner
<1>3. Open' = Open /\ WaitingInv' /\ ChangesInv'
  BY <1>1, <1>2 DEF Open, WaitingInv, Listed, Distinct, ChangesInv
<1>4. /\ row' = "gone" /\ left' \in [Paths -> 0..MaxTime] /\ GettersInv'
      /\ cache.path # None =>
           /\ cache.until <= now + CacheTime
           /\ cache.path # row' => cache.until <= left'[cache.path] + Latency + CacheTime
  BY <1>2, <1>3, RowLeft
<1>5. ImageTypes'
  BY <1>1, <1>2, <1>4 DEF ImageTypes
<1>6. FilesInv'
  BY <1>1, <1>2, <1>3, <1>4, ImageNumbers DEF FilesInv, Removals
<1>7. CacheInv'
  BY <1>1, <1>2, <1>4 DEF CacheInv
<1> QED BY <1>3, <1>4, <1>5, <1>6, <1>7 DEF ImageInv

LEMMA ImageCrashKeeps ==
  ASSUME ImageInv, Crash
  PROVE  ImageInv'
<1>1. ImageTypes /\ WaitingInv /\ ChangesInv /\ FilesInv /\ GettersInv /\ CacheInv
  BY DEF ImageInv
<1>2. /\ crashes < MaxCrash /\ crashes' = crashes + 1 /\ clean' = (clean /\ Removals = {})
      /\ cache' = NoLink /\ getter' = [g \in Getters |-> NoGetter]
      /\ UNCHANGED <<owner, row, files, queue, left, now>>
  BY DEF Crash, clock
<1> DEFINE m(k) == [job[k] EXCEPT !.pc = "stalled"]
           over == [NoJob EXCEPT !.pc = "over"]
<1>3. over \in ImageJobs /\ over.pc = "over" /\ ChangeFits(over)
  BY BlankJob DEF ImageJobs
<1>4. ASSUME NEW k \in Jobs
      PROVE  /\ m(k) \in ImageJobs /\ m(k).pc = "stalled" /\ m(k).kind = job[k].kind
             /\ m(k).path = job[k].path /\ m(k).alone = job[k].alone
  BY <1>1 DEF ImageTypes, ImageJobs
<1>5. ASSUME NEW k \in Jobs
      PROVE  \/ job[k].pc \notin Running /\ job'[k] = job[k]
             \/ job[k].pc \in Running /\ (job'[k] = m(k) \/ job'[k] = over)
  BY <1>1 DEF ImageTypes, Crash
<1> HIDE DEF m, over
<1>6. ASSUME NEW k \in Jobs
      PROVE  /\ job'[k] \in ImageJobs /\ ChangeFits(job'[k]) /\ job'[k].pc \notin Running
             /\ (job'[k].pc = "waiting") <=> (job[k].pc = "waiting")
             /\ k \in Open' => /\ k \in Open /\ job'[k].alone = job[k].alone
                               /\ job'[k].kind = job[k].kind
  <2>1. CASE job[k].pc \notin Running /\ job'[k] = job[k]
    BY <1>1, <2>1 DEF ImageTypes, ChangesInv, Open
  <2>2. CASE job[k].pc \in Running /\ job'[k] = m(k)
    <3>1. ChangeFits(m(k))
      BY <1>1, <1>4, <2>2 DEF ChangesInv, ChangeFits, Running
    <3> QED BY <1>4, <2>2, <3>1 DEF Open, Running
  <2>3. CASE job[k].pc \in Running /\ job'[k] = over
    BY <1>3, <2>3 DEF Open, Running
  <2> QED BY <1>5, <2>1, <2>2, <2>3
<1>7. job' \in [Jobs -> ImageJobs] /\ getter' \in [Getters -> Reads]
  <2> DEFINE e(k) == CASE job[k].pc \notin Running -> job[k]
                       [] job[k].pc \in Running /\ owner = "room" ->
                            [job[k] EXCEPT !.pc = "stalled"]
                       [] job[k].pc \in Running /\ owner = "user" ->
                            [NoJob EXCEPT !.pc = "over"]
  <2>1. job' = [k \in Jobs |-> e(k)]
    BY DEF Crash
  <2> HIDE DEF e
  <2>2. \A k \in Jobs : e(k) \in ImageJobs
    BY <1>6, <2>1
  <2> QED BY <1>2, <2>1, <2>2, BlankJob
<1>8. ImageTypes'
  BY <1>1, <1>2, <1>7, BlankJob, ImageNumbers DEF ImageTypes
<1>9. WaitingInv' /\ ChangesInv'
  BY <1>1, <1>2, <1>6 DEF WaitingInv, Listed, Distinct, ChangesInv
<1>10. FilesInv'
  <2>1. Open' \subseteq Open /\ \A k \in Open' : k \in Jobs
    BY <1>6 DEF Open
  <2>2. \A k \in Open' : job'[k].alone => Open' = {k}
    BY <1>1, <1>6, <2>1 DEF FilesInv
  <2>3. clean' => \A k \in Removals' : job'[k].alone /\ job'[k].pc # "stalled"
    <3>1. Removals' \subseteq Removals
      BY <1>6, <2>1 DEF Removals
    <3> QED BY <1>2, <3>1
  <2>4. \A k \in Jobs : job'[k].pc \notin {"del", "unlink", "update"}
    BY <1>6 DEF Running
  <2>5. clean' => clean /\ \A k \in Jobs : job[k].pc # "clear"
    BY <1>1, <1>2 DEF Removals, Open, Running, ChangesInv, ChangeFits
  <2>6. clean' /\ row' \in Paths => row' \in files'
    BY <1>1, <1>2, <2>5 DEF FilesInv
  <2> QED BY <2>2, <2>3, <2>4, <2>6 DEF FilesInv
<1>11. GettersInv' /\ CacheInv'
  BY <1>2, BlankJob DEF GettersInv, Fetching, CacheInv
<1> QED BY <1>8, <1>9, <1>10, <1>11 DEF ImageInv

LEMMA TickKeeps ==
  ASSUME ImageInv, Tick
  PROVE  ImageInv'
<1>1. ImageTypes /\ WaitingInv /\ ChangesInv /\ FilesInv /\ GettersInv /\ CacheInv
  BY DEF ImageInv
<1>2. /\ now < MaxTime /\ now' = now + 1
      /\ \A g \in Getters : Fetching(g) => now < getter[g].since + Latency
      /\ UNCHANGED <<owner, row, files, queue, job, cache, getter, left, clean, crashes>>
  BY DEF Tick, Fetching
<1>3. ImageTypes'
  BY <1>1, <1>2, ImageNumbers DEF ImageTypes
<1>4. Open' = Open /\ WaitingInv' /\ ChangesInv'
  BY <1>1, <1>2 DEF Open, WaitingInv, Listed, Distinct, ChangesInv
<1>5. FilesInv'
  BY <1>1, <1>2, <1>4 DEF FilesInv, Removals
<1>6. GettersInv'
  <2> SUFFICES ASSUME NEW g \in Getters, Fetching(g) PROVE Fetched(g)'
    BY <1>2 DEF GettersInv, Fetching
  <2>1. Fetched(g) /\ getter[g].since \in Nat /\ now \in Nat /\ now < getter[g].since + Latency
    BY <1>1, <1>2 DEF GettersInv, ImageTypes, Reads
  <2>2. getter[g].since <= now' /\ now' <= getter[g].since + Latency
    BY <1>2, <2>1, ImageNumbers DEF Fetched
  <2> QED BY <1>2, <1>4, <2>1, <2>2 DEF Fetched
<1>7. CacheInv'
  <2>1. cache.path # None => cache.until <= now' + CacheTime
    BY <1>1, <1>2, ImageNumbers DEF CacheInv, ImageTypes, Links
  <2> QED BY <1>1, <1>2, <2>1 DEF CacheInv
<1> QED BY <1>3, <1>4, <1>5, <1>6, <1>7 DEF ImageInv

LEMMA StepImage ==
  ImageInv /\ [NextImage]_imageVars => ImageInv'
<1> SUFFICES ASSUME ImageInv, [NextImage]_imageVars PROVE ImageInv'
  OBVIOUS
<1>1. CASE \E j \in Jobs, p \in Paths : UpdateUserImage(j, p) \/ UpdateRoomImage(j, p)
  BY <1>1, UpdateUserKeeps, RoomKeeps
<1>2. CASE \E j \in Jobs : DeleteRoomImage(j) \/ Begin(j)
  BY <1>2, RoomKeeps, ImageBeginKeeps
<1>3. CASE \E j \in Jobs : Upload(j) \/ Del(j) \/ Unlink(j) \/ Update(j)
  BY <1>3, UploadImageKeeps, DelKeeps, UnlinkKeeps, UpdateKeeps
<1>4. CASE \E j \in Jobs : Remove(j) \/ Clear(j)
  BY <1>4, RemoveKeeps, ClearKeeps
<1>5. CASE \E j \in Jobs : Complete(j) \/ Fail(j) \/ Requeue(j)
  BY <1>5, EndImageKeeps, ImageRequeueKeeps
<1>6. CASE \E g \in Getters : ReadRoomPath(g) \/ ReadUserPath(g) \/ Wrap(g)
  BY <1>6, ReadKeeps, WrapKeeps DEF ReadRoomPath, ReadUserPath
<1>7. CASE DeleteOwner \/ Crash \/ Tick
  BY <1>7, DeleteOwnerKeeps, ImageCrashKeeps, TickKeeps
<1>8. CASE UNCHANGED imageVars
  <2>1. UNCHANGED <<owner, row, files, queue, job, cache, getter, left, clean, now, crashes>>
    BY <1>8 DEF imageVars
  <2>2. Open' = Open /\ ImageTypes' /\ WaitingInv' /\ ChangesInv'
    BY <2>1 DEF ImageInv, ImageTypes, Open, WaitingInv, Listed, Distinct, ChangesInv
  <2>3. FilesInv' /\ GettersInv' /\ CacheInv'
    BY <2>1, <2>2 DEF ImageInv, FilesInv, Removals, GettersInv, Fetching, Fetched, CacheInv
  <2> QED BY <2>2, <2>3 DEF ImageInv
<1> QED BY <1>1, <1>2, <1>3, <1>4, <1>5, <1>6, <1>7, <1>8 DEF NextImage

LEMMA ImageInvariance ==
  ImageSpec => []ImageInv
<1> QED BY ImageStarts, StepImage, PTL DEF ImageSpec

-----------------------------------------------------------------------------
(* The theorems.                                                           *)

\* Types of Images; a job that waits is in its queue, once, whoever is added,
\* taken or found stalled.
THEOREM ImageTypeCorrect ==
  ImageSpec => []ImageTypeOK
<1>1. ImageInv => ImageTypeOK
  BY DEF ImageInv, ImageTypes, WaitingInv, ImageJobs, Links, Reads, Listed, Distinct, ImageTypeOK
<1> QED BY <1>1, ImageInvariance, PTL

\* RowNamesFile: RoomsConsumer and AuthService upload before they write the row,
\* so that with no change under way the row names a file that is there, whatever
\* overlapped, failed or was cut off, unless it was a removal: removeImage deletes
\* the file before it clears the row.
THEOREM FileNamed ==
  ImageSpec => []RowNamesFile
<1>1. ImageInv => RowNamesFile
  <2> SUFFICES ASSUME ImageInv, clean, Open = {}, row \in Paths PROVE row \in files
    BY DEF RowNamesFile
  <2>1. \A j \in Jobs : job[j].pc # "clear"
    BY DEF Open, Running
  <2> QED BY <2>1 DEF ImageInv, FilesInv
<1> QED BY <1>1, ImageInvariance, PTL

\* LinkIsFresh: getImageLink's cache gives a link to another row than the row's
\* only where wrap overlapped a change or the row was removed, and only until
\* its time is over.
THEOREM LinkFresh ==
  ImageSpec => []LinkIsFresh
<1>1. ImageInv => LinkIsFresh
  <2> SUFFICES ASSUME ImageInv, Cached, row # "gone", cache.path # row
               PROVE  cache.crossed /\ now < left[cache.path] + Latency + CacheTime
    BY DEF LinkIsFresh
  <2>1. CacheInv /\ cache.path # None /\ now < cache.until
    BY DEF ImageInv, Cached
  <2>2. cache.crossed /\ cache.until <= left[cache.path] + Latency + CacheTime
    BY <2>1 DEF CacheInv
  <2>3. cache.path \in Paths /\ cache.until \in Nat /\ now \in Nat /\ left[cache.path] \in Nat
    BY <2>1 DEF ImageInv, ImageTypes, Links
  <2> QED BY <2>1, <2>2, <2>3, ImageNumbers
<1> QED BY <1>1, ImageInvariance, PTL

-----------------------------------------------------------------------------
(* The jobs of images as those of JobQueue.                                *)

\* A job that was started counts it; a user's image has no queue.
Counted(h) ==
  /\ h.pc \in Running \cup {"stalled"} => h.runs # 0
  /\ owner = "user" => h.pc \notin {"waiting", "stalled"} /\ (h.pc \in Running => h.runs = 1)
CountedInv == \A j \in Jobs : Counted(job[j])

InHand == Queued(Running)
CutOff == Queued({"stalled"})
Retries == {j \in Jobs : Retried(j)}
Through == Queued({"over"})
JobPlaces == <<queue, InHand, CutOff, Retries, Through>>

\* A step that starts no job.
LEMMA CountKept ==
  ASSUME CountedInv, owner' = owner,
         \A k \in Jobs :
           \/ job'[k].pc \in {"idle", "over"}
           \/ /\ job'[k].runs = job[k].runs
              /\ \/ job'[k].pc = job[k].pc
                 \/ job'[k].pc \in Running /\ job[k].pc \in Running
                 \/ owner = "room" /\ job'[k].pc = "stalled" /\ job[k].pc \in Running
                 \/ owner = "room" /\ job'[k].pc = "waiting"
  PROVE  CountedInv'
<1> SUFFICES ASSUME NEW k \in Jobs PROVE Counted(job[k])'
  BY DEF CountedInv
<1> QED BY DEF CountedInv, Counted, Running

LEMMA CountStarts == InitImage => CountedInv
<1> QED BY DEF InitImage, CountedInv, Counted, NoJob, Running

\* A job that begins.
LEMMA CountBegun ==
  ASSUME ImageInv, CountedInv, NEW j \in Jobs, NEW h \in ImageJobs, Started(j, h),
         owner' = owner, h.runs < 2, owner = "user" => h.runs = 0
  PROVE  /\ job'[j].pc = h.pc /\ job'[j].runs = h.runs + 1
         /\ \A k \in Jobs \ {j} : job'[k].pc = job[k].pc /\ job'[k].runs = job[k].runs
         /\ h.pc \in Running => CountedInv'
<1>1. \A k \in Jobs : job[k] \in ImageJobs
  BY DEF ImageInv, ImageTypes
<1>2. /\ job'[j].pc = h.pc /\ job'[j].runs = h.runs + 1
      /\ \A k \in Jobs \ {j} : job'[k].pc = job[k].pc /\ job'[k].runs = job[k].runs
  BY <1>1 DEF Started, ImageJobs
<1>3. h.runs \in 0..1
  BY DEF ImageJobs
<1>4. ASSUME h.pc \in Running, NEW k \in Jobs PROVE Counted(job[k])'
  BY <1>2, <1>3, <1>4 DEF CountedInv, Counted, Running
<1> QED BY <1>2, <1>4 DEF CountedInv

LEMMA CrashPlaces ==
  ASSUME ImageInv, Crash, NEW k \in Jobs
  PROVE  \/ job[k].pc \notin Running /\ job'[k] = job[k]
         \/ /\ job[k].pc \in Running /\ owner = "room" /\ job'[k].pc = "stalled"
            /\ job'[k].runs = job[k].runs
         \/ job[k].pc \in Running /\ owner = "user" /\ job'[k].pc = "over"
<1>1. job[k] \in ImageJobs /\ owner \in {"room", "user"}
  BY DEF ImageInv, ImageTypes
<1>2. job'[k] = CASE job[k].pc \notin Running -> job[k]
                  [] job[k].pc \in Running /\ owner = "room" -> [job[k] EXCEPT !.pc = "stalled"]
                  [] job[k].pc \in Running /\ owner = "user" -> [NoJob EXCEPT !.pc = "over"]
  BY DEF Crash
<1>3. CASE job[k].pc \notin Running
  BY <1>2, <1>3
<1>4. CASE job[k].pc \in Running /\ owner = "room"
  <2>1. job'[k] = [job[k] EXCEPT !.pc = "stalled"]
    BY <1>2, <1>4
  <2> QED BY <1>1, <1>4, <2>1 DEF ImageJobs
<1>5. CASE job[k].pc \in Running /\ owner = "user"
  <2>1. job'[k] = [NoJob EXCEPT !.pc = "over"]
    BY <1>2, <1>5
  <2> QED BY <1>5, <2>1 DEF NoJob
<1> QED BY <1>1, <1>3, <1>4, <1>5

\* The steps in the middle of a change, and those that change no job.
LEMMA WorkPlaces ==
  ASSUME ImageInv, NEW j \in Jobs,
         Upload(j) \/ Del(j) \/ Unlink(j) \/ Update(j) \/ Remove(j) \/ Clear(j)
  PROVE  /\ job[j].pc \in Running /\ job'[j].pc \in Running /\ job'[j].runs = job[j].runs
         /\ \A k \in Jobs \ {j} : job'[k] = job[k]
         /\ queue' = queue /\ owner' = owner
<1>1. job[j] \in ImageJobs /\ job \in [Jobs -> ImageJobs]
  BY DEF ImageInv, ImageTypes
<1>2. CASE Unlink(j)
  BY <1>1, <1>2 DEF Unlink, Running, ImageJobs
<1>3. CASE Upload(j) \/ Del(j) \/ Update(j) \/ Remove(j) \/ Clear(j)
  <2>1. PICK pc \in Running : job' = [job EXCEPT ![j].pc = pc]
    BY <1>3 DEF Upload, Del, Update, Remove, Clear, Goto, Running
  <2>2. job[j].pc \in Running /\ queue' = queue /\ owner' = owner
    BY <1>3 DEF Upload, Del, Update, Remove, Clear, Running
  <2> QED BY <1>1, <2>1, <2>2 DEF ImageJobs
<1> QED BY <1>2, <1>3

\* A change that is over.
LEMMA OverPlaces ==
  ASSUME ImageInv, NEW j \in Jobs, job' = [job EXCEPT ![j] = [NoJob EXCEPT !.pc = "over"]]
  PROVE  job'[j].pc = "over" /\ \A k \in Jobs \ {j} : job'[k] = job[k]
<1> QED BY DEF ImageInv, ImageTypes, NoJob

\* A job that is added.
LEMMA AddPlaces ==
  ASSUME ImageInv, NEW j \in Jobs,
         (\E p \in Paths : UpdateRoomImage(j, p)) \/ DeleteRoomImage(j)
  PROVE  /\ job[j].pc = "idle" /\ job'[j].pc = "waiting" /\ job'[j].runs = 0
         /\ \A k \in Jobs \ {j} : job'[k] = job[k]
         /\ queue' = Append(queue, j) /\ owner = "room" /\ owner' = owner
<1>1. PICK h : h.runs = 0 /\ Add(j, h) /\ h \in ImageJobs
  <2>1. ASSUME NEW p \in Paths, UpdateRoomImage(j, p)
        PROVE  \E h : h.runs = 0 /\ Add(j, h) /\ h \in ImageJobs
    <3> DEFINE h == [NoJob EXCEPT !.path = p, !.temp = TRUE]
    <3>1. h.runs = 0 /\ h \in ImageJobs
      BY BlankJob DEF NoJob, ImageJobs
    <3>2. Add(j, h)
      BY <2>1 DEF UpdateRoomImage
    <3> QED BY <3>1, <3>2
  <2>2. ASSUME DeleteRoomImage(j) PROVE \E h : h.runs = 0 /\ Add(j, h) /\ h \in ImageJobs
    <3>1. row \in Paths \cup {None}
      BY <2>2 DEF DeleteRoomImage, ImageInv, ImageTypes
    <3> DEFINE h == [NoJob EXCEPT !.kind = "delete", !.snap = row]
    <3>2. h.runs = 0 /\ h \in ImageJobs
      BY <3>1, BlankJob DEF NoJob, ImageJobs
    <3>3. Add(j, h)
      BY <2>2 DEF DeleteRoomImage
    <3> QED BY <3>2, <3>3
  <2> QED BY <2>1, <2>2
<1>2. [h EXCEPT !.pc = "waiting"].pc = "waiting" /\ [h EXCEPT !.pc = "waiting"].runs = 0
  BY <1>1 DEF ImageJobs
<1> QED BY <1>1, <1>2 DEF Add, ImageInv, ImageTypes

\* A user's jobs never wait.
LEMMA HeadWaits ==
  ASSUME ImageInv, NEW j \in Jobs, Begin(j)
  PROVE  job[j].pc = "waiting" /\ job[j] \in ImageJobs /\ job[j].runs \in 0..1
<1>1. Listed(queue, j)
  <2>1. queue \in Seq(Jobs) /\ queue # <<>> /\ Head(queue) = j
    BY DEF Begin, ImageInv, WaitingInv
  <2>2. 1 \in DOMAIN queue /\ queue[1] = j
    BY <2>1
  <2> QED BY <2>2 DEF Listed
<1> QED BY <1>1 DEF ImageInv, WaitingInv, ImageTypes, ImageJobs, ChangesInv, ChangeFits

LEMMA BeginPlaces ==
  ASSUME ImageInv, CountedInv, NEW j \in Jobs, Begin(j)
  PROVE  /\ job[j].pc = "waiting" /\ job'[j].pc \in Running
         /\ job[j].runs \in 0..1 /\ job'[j].runs = job[j].runs + 1
         /\ \A k \in Jobs \ {j} : job'[k].pc = job[k].pc /\ job'[k].runs = job[k].runs
         /\ queue # <<>> /\ Head(queue) = j /\ queue' = Tail(queue)
         /\ owner = "room" /\ owner' = owner /\ CountedInv'
<1>1. job[j].pc = "waiting" /\ job[j] \in ImageJobs /\ job[j].runs \in 0..1
  BY HeadWaits
<1>2. owner = "room"
  BY <1>1 DEF CountedInv, Counted, ImageInv, ImageTypes
<1> DEFINE h == [job[j] EXCEPT !.pc = IF job[j].kind = "update" THEN "upload" ELSE "remove"]
<1>3. h \in ImageJobs /\ h.runs = job[j].runs /\ h.pc \in Running
  BY <1>1 DEF ImageJobs, Running
<1>4. /\ Started(j, h) /\ queue # <<>> /\ Head(queue) = j /\ queue' = Tail(queue)
      /\ owner' = owner
  BY DEF Begin
<1> HIDE DEF h
<1>5. /\ job'[j].pc = h.pc /\ job'[j].runs = h.runs + 1 /\ CountedInv'
      /\ \A k \in Jobs \ {j} : job'[k].pc = job[k].pc /\ job'[k].runs = job[k].runs
  BY <1>1, <1>2, <1>3, <1>4, CountBegun
<1> QED BY <1>1, <1>2, <1>3, <1>4, <1>5

LEMMA RequeuePlaces ==
  ASSUME ImageInv, CountedInv, NEW j \in Jobs, Requeue(j)
  PROVE  /\ job[j].pc = "stalled" /\ job[j].runs \in 1..2 /\ owner = "room" /\ owner' = owner
         /\ \A k \in Jobs \ {j} : job'[k] = job[k]
         /\ IF job[j].runs = 1
            THEN queue' = <<j>> \o queue /\ job'[j].pc = "waiting" /\ job'[j].runs = 1
            ELSE queue' = queue /\ job'[j].pc = "over"
<1>1. job[j] \in ImageJobs /\ job \in [Jobs -> ImageJobs] /\ owner \in {"room", "user"}
  BY DEF ImageInv, ImageTypes
<1>2. job[j].pc = "stalled" /\ owner' = owner
  BY DEF Requeue
<1>3. owner = "room" /\ job[j].runs \in 1..2
  BY <1>1, <1>2 DEF CountedInv, Counted, ImageJobs
<1>4. CASE job[j].runs = 1
  <2>1. queue' = <<j>> \o queue /\ job' = [job EXCEPT ![j].pc = "waiting"]
    BY <1>4 DEF Requeue, Goto
  <2> QED BY <1>1, <1>2, <1>3, <1>4, <2>1 DEF ImageJobs
<1>5. CASE job[j].runs # 1
  <2>1. queue' = queue /\ job' = [job EXCEPT ![j] = [NoJob EXCEPT !.pc = "over"]]
    BY <1>3, <1>5 DEF Requeue
  <2> QED BY <1>2, <1>3, <1>5, <2>1, OverPlaces
<1> QED BY <1>4, <1>5

LEMMA StepCounts ==
  ImageInv /\ CountedInv /\ [NextImage]_imageVars => CountedInv'
<1> SUFFICES ASSUME ImageInv, CountedInv, [NextImage]_imageVars PROVE CountedInv'
  OBVIOUS
<1>1. ASSUME NEW j \in Jobs, NEW p \in Paths, UpdateUserImage(j, p) PROVE CountedInv'
  <2> DEFINE h == [NoJob EXCEPT !.pc = "upload", !.path = p, !.temp = TRUE]
  <2>1. h \in ImageJobs /\ h.runs = 0 /\ h.pc \in Running
    BY BlankJob DEF NoJob, ImageJobs, Running
  <2>2. Started(j, h) /\ owner' = owner
    BY <1>1 DEF UpdateUserImage
  <2> HIDE DEF h
  <2> QED BY <2>1, <2>2, CountBegun
<1>2. ASSUME NEW j \in Jobs, (\E p \in Paths : UpdateRoomImage(j, p)) \/ DeleteRoomImage(j)
      PROVE  CountedInv'
  <2>1. /\ job'[j].pc = "waiting" /\ owner = "room" /\ owner' = owner
        /\ \A k \in Jobs \ {j} : job'[k] = job[k]
    BY <1>2, AddPlaces
  <2> QED BY <2>1 DEF CountedInv, Counted, Running
<1>3. ASSUME NEW j \in Jobs, Begin(j) PROVE CountedInv'
  BY <1>3, BeginPlaces
<1>4. ASSUME NEW j \in Jobs,
             Upload(j) \/ Del(j) \/ Unlink(j) \/ Update(j) \/ Remove(j) \/ Clear(j)
      PROVE  CountedInv'
  <2>1. /\ job[j].pc \in Running /\ job'[j].pc \in Running /\ job'[j].runs = job[j].runs
        /\ \A k \in Jobs \ {j} : job'[k] = job[k]
        /\ owner' = owner
    BY <1>4, WorkPlaces
  <2> QED BY <2>1, CountKept
<1>5. ASSUME NEW j \in Jobs, Complete(j) \/ Fail(j) PROVE CountedInv'
  <2>1. job' = [job EXCEPT ![j] = [NoJob EXCEPT !.pc = "over"]] /\ owner' = owner
    BY <1>5 DEF Complete, Fail
  <2>2. job'[j].pc = "over" /\ \A k \in Jobs \ {j} : job'[k] = job[k]
    BY <2>1, OverPlaces
  <2> QED BY <2>1, <2>2, CountKept
<1>6. ASSUME NEW j \in Jobs, Requeue(j) PROVE CountedInv'
  <2>1. /\ owner = "room" /\ owner' = owner /\ \A k \in Jobs \ {j} : job'[k] = job[k]
        /\ job'[j].pc \in {"waiting", "over"}
    BY <1>6, RequeuePlaces
  <2> QED BY <2>1 DEF CountedInv, Counted, Running
<1>7. ASSUME Crash PROVE CountedInv'
  <2>1. owner' = owner
    BY <1>7 DEF Crash
  <2> QED BY <1>7, <2>1, CrashPlaces, CountKept
<1>8. ASSUME UNCHANGED <<owner, job>> PROVE CountedInv'
  BY <1>8 DEF CountedInv, Counted
<1>9. ASSUME NEW g \in Getters, ReadRoomPath(g) \/ ReadUserPath(g) \/ Wrap(g)
      PROVE  UNCHANGED <<owner, job>>
  BY <1>9 DEF ReadRoomPath, ReadUserPath, ReadPath, Wrap
<1>10. ASSUME DeleteOwner \/ Tick \/ UNCHANGED imageVars PROVE UNCHANGED <<owner, job>>
  BY <1>10 DEF DeleteOwner, Tick, imageVars
<1> QED BY <1>1, <1>2, <1>3, <1>4, <1>5, <1>6, <1>7, <1>8, <1>9, <1>10 DEF NextImage

\* The queue knows nothing of a user's image.
NoneQueued ==
  queue = <<>> /\ InHand = {} /\ CutOff = {} /\ Retries = {} /\ Through = {}

LEMMA UserHasNone == ImageInv /\ CountedInv /\ owner = "user" => NoneQueued
<1> SUFFICES ASSUME ImageInv, CountedInv, owner = "user" PROVE NoneQueued
  OBVIOUS
<1>1. queue = <<>>
  <2>1. queue \in Seq(Jobs) /\ \A k \in Jobs : ~Listed(queue, k)
    BY DEF ImageInv, WaitingInv, CountedInv, Counted
  <2>2. SUFFICES ASSUME queue # <<>> PROVE FALSE
    OBVIOUS
  <2>3. 1 \in DOMAIN queue /\ queue[1] \in Jobs
    BY <2>1, <2>2
  <2> QED BY <2>1, <2>3 DEF Listed
<1>2. \A k \in Jobs : ~Retried(k)
  BY DEF Retried, CountedInv, Counted
<1> QED BY <1>1, <1>2 DEF NoneQueued, InHand, CutOff, Retries, Through, Queued

LEMMA UserWillHaveNone == (ImageInv /\ CountedInv /\ owner = "user" => NoneQueued)'
<1> QED BY UserHasNone, PTL

\* Where the others are while one job of a room goes on.
LEMMA RoomPlaces ==
  ASSUME owner = "room", owner' = "room", NEW j \in Jobs,
         \A k \in Jobs \ {j} : job'[k].pc = job[k].pc /\ job'[k].runs = job[k].runs
  PROVE  /\ InHand' = IF job'[j].pc \in Running THEN InHand \cup {j} ELSE InHand \ {j}
         /\ CutOff' = IF job'[j].pc = "stalled" THEN CutOff \cup {j} ELSE CutOff \ {j}
         /\ Retries' = IF Retried(j)' THEN Retries \cup {j} ELSE Retries \ {j}
         /\ Through' = IF job'[j].pc = "over" THEN Through \cup {j} ELSE Through \ {j}
<1>1. InHand' = IF job'[j].pc \in Running THEN InHand \cup {j} ELSE InHand \ {j}
  BY DEF InHand, Queued
<1>2. CutOff' = IF job'[j].pc = "stalled" THEN CutOff \cup {j} ELSE CutOff \ {j}
  BY DEF CutOff, Queued
<1>3. Retries' = IF Retried(j)' THEN Retries \cup {j} ELSE Retries \ {j}
  BY DEF Retries, Retried
<1>4. Through' = IF job'[j].pc = "over" THEN Through \cup {j} ELSE Through \ {j}
  BY DEF Through, Queued
<1> QED BY <1>1, <1>2, <1>3, <1>4

\* Where one job is.
LEMMA PlaceOf ==
  ASSUME owner = "room", NEW j \in Jobs
  PROVE  /\ j \in InHand <=> job[j].pc \in Running
         /\ j \in CutOff <=> job[j].pc = "stalled"
         /\ j \in Retries <=> Retried(j)
         /\ j \in Through <=> job[j].pc = "over"
<1> QED BY DEF InHand, CutOff, Retries, Through, Queued

LEMMA ImageAdds ==
  ASSUME ImageInv, NEW j \in Jobs,
         (\E p \in Paths : UpdateRoomImage(j, p)) \/ DeleteRoomImage(j)
  PROVE  Abstract!Add(j)
<1>1. /\ job[j].pc = "idle" /\ job'[j].pc = "waiting" /\ job'[j].runs = 0
      /\ \A k \in Jobs \ {j} : job'[k] = job[k]
      /\ queue' = Append(queue, j) /\ owner = "room" /\ owner' = owner
  BY AddPlaces
<1>2. j \notin InHand \cup CutOff \cup Retries \cup Through
  BY <1>1, PlaceOf DEF Retried, Running
<1>3. /\ InHand' = InHand \ {j} /\ CutOff' = CutOff \ {j}
      /\ Retries' = Retries \ {j} /\ Through' = Through \ {j}
  BY <1>1, RoomPlaces DEF Retried, Running
<1>4. InHand' = InHand /\ CutOff' = CutOff /\ Retries' = Retries /\ Through' = Through
  BY <1>2, <1>3
<1>5. ~Abstract!Waiting(j)
  BY <1>1 DEF ImageInv, WaitingInv, Listed, Abstract!Waiting
<1> QED BY <1>1, <1>2, <1>4, <1>5 DEF Abstract!Add, InHand, CutOff, Retries, Through

LEMMA ImageTakes ==
  ASSUME ImageInv, CountedInv, NEW j \in Jobs, Begin(j)
  PROVE  Abstract!Take
<1>1. /\ job[j].pc = "waiting" /\ job'[j].pc \in Running
      /\ job[j].runs \in 0..1 /\ job'[j].runs = job[j].runs + 1
      /\ \A k \in Jobs \ {j} : job'[k].pc = job[k].pc /\ job'[k].runs = job[k].runs
      /\ queue # <<>> /\ Head(queue) = j /\ queue' = Tail(queue)
      /\ owner = "room" /\ owner' = owner
  BY BeginPlaces
<1>2. Retried(j)' <=> Retried(j)
  BY <1>1 DEF Retried, Running
<1>3. j \notin CutOff \cup Through /\ (j \in Retries <=> Retried(j))
  BY <1>1, PlaceOf
<1>4. /\ InHand' = InHand \cup {j} /\ CutOff' = CutOff \ {j} /\ Through' = Through \ {j}
      /\ Retries' = IF Retried(j)' THEN Retries \cup {j} ELSE Retries \ {j}
  BY <1>1, RoomPlaces DEF Running
<1>5. CutOff' = CutOff /\ Retries' = Retries /\ Through' = Through
  BY <1>2, <1>3, <1>4
<1> QED BY <1>1, <1>4, <1>5 DEF Abstract!Take, InHand, CutOff, Retries, Through

\* A job of a room that is marked completed or failed.
LEMMA ImageEnds ==
  ASSUME ImageInv, NEW j \in Jobs, Complete(j) \/ Fail(j), owner = "room"
  PROVE  Abstract!End(j)
<1>1. /\ job[j].pc \in Running /\ queue' = queue /\ owner' = owner
      /\ job' = [job EXCEPT ![j] = [NoJob EXCEPT !.pc = "over"]]
  BY DEF Complete, Fail, Running
<1>2. job'[j].pc = "over" /\ \A k \in Jobs \ {j} : job'[k] = job[k]
  BY <1>1, OverPlaces
<1>3. j \in InHand /\ j \notin CutOff
  BY <1>1, PlaceOf DEF Running
<1>4. /\ InHand' = InHand \ {j} /\ CutOff' = CutOff \ {j}
      /\ Retries' = Retries \ {j} /\ Through' = Through \cup {j}
  BY <1>1, <1>2, RoomPlaces DEF Retried, Running
<1>5. CutOff' = CutOff
  BY <1>3, <1>4
<1> QED BY <1>1, <1>3, <1>4, <1>5 DEF Abstract!End, InHand, CutOff, Retries, Through

LEMMA ImageRetries ==
  ASSUME ImageInv, CountedInv, NEW j \in Jobs, Requeue(j)
  PROVE  Abstract!Retry(j) \/ Abstract!GiveUp(j)
<1>1. /\ job[j].pc = "stalled" /\ job[j].runs \in 1..2 /\ owner = "room" /\ owner' = owner
      /\ \A k \in Jobs \ {j} : job'[k] = job[k]
      /\ IF job[j].runs = 1
         THEN queue' = <<j>> \o queue /\ job'[j].pc = "waiting" /\ job'[j].runs = 1
         ELSE queue' = queue /\ job'[j].pc = "over"
  BY RequeuePlaces
<1>2. j \in CutOff /\ j \notin InHand \cup Through /\ (j \in Retries <=> job[j].runs = 2)
  BY <1>1, PlaceOf DEF Retried, Running
<1>3. CASE job[j].runs = 1
  <2>1. /\ InHand' = InHand \ {j} /\ CutOff' = CutOff \ {j}
        /\ Retries' = Retries \cup {j} /\ Through' = Through \ {j}
    BY <1>1, <1>3, RoomPlaces DEF Retried, Running
  <2>2. InHand' = InHand /\ Through' = Through /\ j \notin Retries
    BY <1>2, <1>3, <2>1
  <2> QED BY <1>1, <1>2, <1>3, <2>1, <2>2
       DEF Abstract!Retry, InHand, CutOff, Retries, Through
<1>4. CASE job[j].runs = 2
  <2>1. /\ InHand' = InHand \ {j} /\ CutOff' = CutOff \ {j}
        /\ Retries' = Retries \ {j} /\ Through' = Through \cup {j}
    BY <1>1, <1>4, RoomPlaces DEF Retried, Running
  <2>2. InHand' = InHand /\ j \in Retries
    BY <1>2, <1>4, <2>1
  <2> QED BY <1>1, <1>2, <1>4, <2>1, <2>2
       DEF Abstract!GiveUp, InHand, CutOff, Retries, Through
<1> QED BY <1>1, <1>3, <1>4

LEMMA ImageStops ==
  ASSUME ImageInv, Crash, owner = "room"
  PROVE  Abstract!Stop
<1>1. owner' = "room" /\ queue' = queue
  BY DEF Crash
<1>2. ASSUME NEW k \in Jobs
      PROVE  \/ job[k].pc \notin Running /\ job'[k] = job[k]
             \/ job[k].pc \in Running /\ job'[k].pc = "stalled" /\ job'[k].runs = job[k].runs
  BY CrashPlaces
<1>3. InHand' = {}
  BY <1>1, <1>2 DEF InHand, Queued, Running
<1>4. CutOff' = CutOff \cup InHand
  BY <1>1, <1>2 DEF CutOff, InHand, Queued, Running
<1>5. Retries' = Retries
  BY <1>2 DEF Retries, Retried, Running
<1>6. Through' = Through
  BY <1>1, <1>2 DEF Through, Queued, Running
<1> QED BY <1>1, <1>3, <1>4, <1>5, <1>6
     DEF Abstract!Stop, InHand, CutOff, Retries, Through

\* The steps in the middle of a change.
LEMMA WorkStutters ==
  ASSUME ImageInv, NEW j \in Jobs, owner = "room",
         Upload(j) \/ Del(j) \/ Unlink(j) \/ Update(j) \/ Remove(j) \/ Clear(j)
  PROVE  UNCHANGED JobPlaces
<1>1. /\ job[j].pc \in Running /\ job'[j].pc \in Running /\ job'[j].runs = job[j].runs
      /\ \A k \in Jobs \ {j} : job'[k] = job[k]
      /\ queue' = queue /\ owner' = owner
  BY WorkPlaces
<1>2. Retried(j)' <=> Retried(j)
  BY <1>1 DEF Retried, Running
<1>3. j \in InHand /\ j \notin CutOff \cup Through /\ (j \in Retries <=> Retried(j))
  BY <1>1, PlaceOf DEF Running
<1>4. /\ InHand' = InHand \cup {j} /\ CutOff' = CutOff \ {j} /\ Through' = Through \ {j}
      /\ Retries' = IF Retried(j)' THEN Retries \cup {j} ELSE Retries \ {j}
  BY <1>1, RoomPlaces DEF Running
<1> QED BY <1>1, <1>2, <1>3, <1>4 DEF JobPlaces

LEMMA ImageQueueStarts == InitImage => Abstract!Init
<1> SUFFICES ASSUME InitImage PROVE Abstract!Init
  OBVIOUS
<1>1. queue = <<>> /\ \A k \in Jobs : job[k].pc = "idle"
  BY DEF InitImage, NoJob
<1>2. InHand = {} /\ CutOff = {} /\ Retries = {} /\ Through = {}
  BY <1>1 DEF InHand, CutOff, Retries, Through, Queued, Retried, Running
<1> QED BY <1>1, <1>2 DEF Abstract!Init, InHand, CutOff, Retries, Through

LEMMA ImageQueueSteps ==
  ImageInv /\ CountedInv /\ [NextImage]_imageVars => [Abstract!Next]_JobPlaces
<1> SUFFICES ASSUME ImageInv, CountedInv, [NextImage]_imageVars
             PROVE  [Abstract!Next]_JobPlaces
  OBVIOUS
<1>1. owner \in {"room", "user"} /\ owner' = owner /\ ImageInv' /\ CountedInv'
  <2>1. owner' = owner
    BY DEF NextImage, UpdateUserImage, UpdateRoomImage, DeleteRoomImage, Add, Begin, Upload, Del,
           Unlink, Update, Remove, Clear, Complete, Fail, Requeue, ReadRoomPath, ReadUserPath,
           ReadPath, Wrap, DeleteOwner, Crash, Tick, imageVars
  <2> QED BY <2>1, StepImage, StepCounts DEF ImageInv, ImageTypes
<1>2. CASE owner = "user"
  <2>1. NoneQueued /\ NoneQueued'
    BY <1>1, <1>2, UserHasNone, UserWillHaveNone
  <2> QED BY <2>1 DEF NoneQueued, JobPlaces
<1>3. CASE owner = "room"
  <2>1. ASSUME NEW j \in Jobs, NEW p \in Paths, UpdateUserImage(j, p) PROVE FALSE
    BY <1>3, <2>1 DEF UpdateUserImage
  <2>2. ASSUME NEW j \in Jobs, (\E p \in Paths : UpdateRoomImage(j, p)) \/ DeleteRoomImage(j)
        PROVE  Abstract!Next
    BY <2>2, ImageAdds DEF Abstract!Next
  <2>3. ASSUME NEW j \in Jobs, Begin(j) PROVE Abstract!Next
    BY <2>3, ImageTakes DEF Abstract!Next
  <2>4. ASSUME NEW j \in Jobs, Complete(j) \/ Fail(j) PROVE Abstract!Next
    BY <1>3, <2>4, ImageEnds DEF Abstract!Next
  <2>5. ASSUME NEW j \in Jobs, Requeue(j) PROVE Abstract!Next
    BY <2>5, ImageRetries DEF Abstract!Next
  <2>6. ASSUME Crash PROVE Abstract!Next
    BY <1>3, <2>6, ImageStops DEF Abstract!Next
  <2>7. ASSUME UNCHANGED <<owner, queue, job>> PROVE UNCHANGED JobPlaces
    BY <2>7 DEF JobPlaces, InHand, CutOff, Retries, Through, Queued, Retried
  <2>8. ASSUME NEW g \in Getters, ReadRoomPath(g) \/ ReadUserPath(g) \/ Wrap(g)
        PROVE  UNCHANGED <<owner, queue, job>>
    BY <2>8 DEF ReadRoomPath, ReadUserPath, ReadPath, Wrap
  <2>9. ASSUME DeleteOwner \/ Tick \/ UNCHANGED imageVars PROVE UNCHANGED <<owner, queue, job>>
    BY <2>9 DEF DeleteOwner, Tick, imageVars
  <2> QED BY <1>3, <2>1, <2>2, <2>3, <2>4, <2>5, <2>6, <2>7, <2>8, <2>9, WorkStutters
       DEF NextImage
<1> QED BY <1>1, <1>2, <1>3

LEMMA CountInvariance == ImageSpec => []CountedInv
<1> QED BY CountStarts, StepCounts, ImageInvariance, PTL DEF ImageSpec

\* Images implements JobQueue: the jobs of RoomsConsumer are not lost, not run
\* twice at once, and again only where a stop cut them off; a user's image, which
\* AuthService changes itself, is never on the queue.
THEOREM ImageQueueImplemented == ImageSpec => ImplementsQueue
<1>1. ImageInv /\ CountedInv /\ [NextImage]_imageVars => [Abstract!Next]_(Abstract!vars)
  BY ImageQueueSteps DEF Abstract!vars, JobPlaces, InHand, CutOff, Retries, Through
<1> QED BY <1>1, ImageQueueStarts, ImageInvariance, CountInvariance, PTL
     DEF ImageSpec, ImplementsQueue, Abstract!Spec
=============================================================================
