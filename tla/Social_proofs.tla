---------------------------- MODULE Social_proofs ----------------------------
(***************************************************************************)
(* Rows, reposts and the graph of Social, for any number of users,         *)
(* whinnies and calls.  A row is written once and then only removed, so    *)
(* what a handler found of the rows that had been there (Known) still      *)
(* holds when it writes: they are as they were or gone.  The graph is as   *)
(* the rows once the calls under way are through, for they do not share an *)
(* item unless both create it (GraphInv).                                  *)
(*                                                                         *)
(* After them those of Paging, for any rows, pages and moves.              *)
(***************************************************************************)
EXTENDS Social, Paging, FiniteSetTheorems, TLAPS

\* What is known of a row apart from its type.
Rows ==
  \A w \in Whinnies :
    /\ ~Live(w) => whinny[w].source = None /\ whinny[w].type = "Owner"
    /\ whinny[w].type = "Repost" => whinny[w].user \in Users /\ whinny[w].source \in Whinnies
    /\ whinny[w].known \subseteq Used

Shape(h) ==
  /\ h.user \in Users
  /\ h.kind = "create" /\ h.source = None => h.type = "Owner"
  /\ h.kind = "create" /\ h.pc = "mirror" => h.whinny \in Whinnies
  /\ h.kind \in {"delete", "react", "unreact"} => h.whinny \in Whinnies
  /\ h.kind \in {"follow", "unfollow"} => h.other \in Users

Shaped == \A c \in Calls : call[c].pc \in {"write", "mirror"} => Shape(call[c])

\* The row is another repost of what the handler is about to repost.
Again(h, w) == whinny[w].type = "Repost" /\ whinny[w].user = h.user /\ whinny[w].source = h.source

\* What a handler found: its source and its target are no reposts, and nothing
\* that had been there is the repost it is about to write.
Found(h) ==
  /\ h.kind = "create" =>
       /\ h.known \subseteq Used
       /\ h.source # None => h.source \in Used /\ whinny[h.source].type # "Repost"
       /\ h.type = "Repost" => \A w \in h.known : ~Again(h, w)
  /\ h.kind = "react" => h.whinny \in Used /\ whinny[h.whinny].type # "Repost"

Known == \A c \in Calls : call[c].pc = "write" => Found(call[c])

IInv == TypeOK /\ Rows /\ Shaped /\ Known /\ RepostsAreChecked

CallRecords == [pc : {"idle", "write", "mirror", "over"},
                kind : {"create", "delete", "react", "unreact", "follow", "unfollow"},
                user : Users \cup {None}, whinny : Whinnies \cup {None}, type : Types,
                source : Whinnies \cup {None}, known : SUBSET Whinnies,
                other : Users \cup {None}, row : Calls \cup {None}]

RowRecords == [at : {"unused", "live", "gone"}, type : Types,
               user : Users \cup {None}, source : Whinnies \cup {None}, known : SUBSET Whinnies]

LEMMA NoCallIsRecord == NoCall \in CallRecords /\ NoCall.pc = "idle"
  BY DEF NoCall, CallRecords, Types

LEMMA Typed ==
  ASSUME TypeOK
  PROVE  call \in [Calls -> CallRecords] /\ whinny \in [Whinnies -> RowRecords]
  BY DEF TypeOK, CallRecords, RowRecords

\* What a call is about is an item.
LEMMA TouchesItems ==
  ASSUME NEW h \in CallRecords, Shape(h), h.kind = "create" => h.whinny \in Whinnies
  PROVE  Owns(h) \subseteq Items /\ Touches(h) \subseteq Items
<1>1. \A u \in Users, w \in Whinnies : Reposted(u, w) \in Items /\ Reacted(u, w) \in Items
  <2> SUFFICES ASSUME NEW u \in Users, NEW w \in Whinnies
               PROVE  Reposted(u, w) \in Items /\ Reacted(u, w) \in Items
    OBVIOUS
  <2>1. Reposted(u, w) \in EdgesAt(w) /\ Reacted(u, w) \in EdgesAt(w)
    BY DEF EdgesAt
  <2> QED
    BY <2>1 DEF Items
<1>2. \A w \in Whinnies : Node(w) \in Items /\ EdgesAt(w) \subseteq Items
  BY DEF Items
<1>3. \A u, v \in Users : Follows(u, v) \in Items
  <2> SUFFICES ASSUME NEW u \in Users, NEW v \in Users PROVE Follows(u, v) \in Items
    OBVIOUS
  <2>1. PICK e \in Users \X Users : e[1] = u /\ e[2] = v
    <3>1. <<u, v>> \in Users \X Users
      OBVIOUS
    <3> QED
      BY <3>1
  <2>2. Follows(u, v) = Follows(e[1], e[2])
    BY <2>1 DEF Follows
  <2>3. Follows(u, v) \in Followings
    BY <2>2 DEF Followings
  <2> QED
    BY <2>3 DEF Items
<1>4. Owns(h) \subseteq Items
  <2>1. CASE h.kind = "create" /\ h.type = "Repost"
    <3>1. Owns(h) = {Reposted(h.user, h.source)}
      BY <2>1 DEF Owns
    <3>2. h.source \in Whinnies
      BY <2>1 DEF Shape, CallRecords
    <3> QED
      BY <3>1, <3>2, <1>1 DEF Shape
  <2>2. CASE h.kind = "delete" \/ (h.kind = "create" /\ h.type # "Repost")
    <3>1. Owns(h) = {Node(h.whinny)} \cup EdgesAt(h.whinny)
      BY <2>2 DEF Owns
    <3>2. h.whinny \in Whinnies
      BY <2>2 DEF Shape
    <3> QED
      BY <3>1, <3>2, <1>2
  <2>3. CASE h.kind \in {"react", "unreact"}
    <3>1. Owns(h) = {Reacted(h.user, h.whinny)}
      BY <2>3 DEF Owns
    <3> QED
      BY <3>1, <2>3, <1>1 DEF Shape
  <2>4. CASE h.kind \in {"follow", "unfollow"}
    <3>1. Owns(h) = {Follows(h.user, h.other)}
      BY <2>4 DEF Owns
    <3> QED
      BY <3>1, <2>4, <1>3 DEF Shape
  <2> QED
    BY <2>1, <2>2, <2>3, <2>4 DEF CallRecords
<1>5. h.source # None => Node(h.source) \in Items
  BY <1>2 DEF CallRecords
<1> QED
  BY <1>4, <1>5 DEF Touches

LEMMA SwappedItems ==
  ASSUME NEW h \in CallRecords, Shape(h), h.kind = "create" => h.whinny \in Whinnies
  PROVE  Swapped(h) \subseteq Items
  BY TouchesItems DEF Swapped

-----------------------------------------------------------------------------
LEMMA InitInv == Init => IInv
<1> SUFFICES ASSUME Init PROVE IInv
  OBVIOUS
<1>1. PICK made \in [Whinnies -> Users \cup {None}] :
        /\ whinny = [w \in Whinnies |-> IF made[w] = None THEN Unused
                                        ELSE [Unused EXCEPT !.at = "live", !.user = made[w]]]
        /\ graph = {Node(w) : w \in {x \in Whinnies : made[x] # None}}
  BY DEF Init
<1>2. /\ reactions = {} /\ mixed = {} /\ call = [c \in Calls |-> NoCall]
      /\ follow = [e \in Users \X Users |-> None]
  BY DEF Init
<1>3. \A w \in Whinnies : /\ whinny[w] \in RowRecords
                          /\ whinny[w].type = "Owner" /\ whinny[w].source = None
                          /\ whinny[w].known = {}
  BY <1>1 DEF Unused, RowRecords, Types
<1>4. whinny \in [Whinnies -> RowRecords]
  BY <1>1, <1>3
<1>5. call \in [Calls -> CallRecords] /\ \A c \in Calls : call[c].pc = "idle"
  BY <1>2, NoCallIsRecord
<1>6. graph \subseteq Items
  BY <1>1 DEF Items
<1>7. TypeOK
  BY <1>2, <1>3, <1>4, <1>5, <1>6 DEF TypeOK, RowRecords, CallRecords
<1>8. Rows /\ RepostsAreChecked
  BY <1>2, <1>3 DEF Rows, RepostsAreChecked
<1>9. Shaped /\ Known
  BY <1>5 DEF Shaped, Known
<1> QED
  BY <1>7, <1>8, <1>9 DEF IInv
-----------------------------------------------------------------------------
\* A step that leaves the rows of whinnies alone, and sets one handler to h.
LEMMA Settles ==
  ASSUME IInv, NEW c \in Calls, NEW h \in CallRecords,
         h.pc \in {"write", "mirror"} => Shape(h), h.pc = "write" => Found(h),
         call' = [call EXCEPT ![c] = h], UNCHANGED whinny,
         reactions' \subseteq Users \X Whinnies,
         \A r \in reactions' : Live(r[2]) /\ whinny[r[2]].type # "Repost",
         follow' \in [Users \X Users -> Calls \cup {None}],
         graph' \subseteq Items, mixed' \subseteq Items
  PROVE  IInv'
<1>1. call \in [Calls -> CallRecords] /\ whinny \in [Whinnies -> RowRecords]
  BY Typed DEF IInv
<1>2. call' \in [Calls -> CallRecords] /\ whinny' \in [Whinnies -> RowRecords]
  BY <1>1
<1>3. \A d \in Calls : call'[d] = IF d = c THEN h ELSE call[d]
  BY <1>1
<1>4. \A w \in Whinnies : Live(w)' = Live(w)
  BY DEF Live
<1>5. \A w \in Whinnies : whinny[w].source # None => Live(whinny[w].source)
  BY DEF IInv, TypeOK
<1>6. TypeOK'
  <2>1. \A w \in Whinnies : (whinny[w].source # None => Live(whinny[w].source))'
    BY <1>5 DEF Live
  <2>2. \A r \in reactions' : Live(r[2])'
    BY DEF Live
  <2> QED
    BY <1>2, <2>1, <2>2 DEF TypeOK, CallRecords, RowRecords
<1>7. Rows'
  BY DEF IInv, Rows, Live, Used
<1>8. Shaped'
  BY <1>3 DEF IInv, Shaped, Shape
<1>9. Known'
  <2>1. \A g : Found(g)' = Found(g)
    BY DEF Found, Used, Again
  <2> QED
    BY <1>3, <2>1 DEF IInv, Known, Found, Used, Again
<1>10. RepostsAreChecked'
  BY DEF IInv, RepostsAreChecked
<1> QED
  BY <1>6, <1>7, <1>8, <1>9, <1>10 DEF IInv

\* The rows that had been there: as they were, or as a row that is gone.
Aged == \A w \in Used : w \in Used' /\ \/ whinny'[w] = whinny[w]
                                       \/ whinny'[w].type = "Owner" /\ whinny'[w].source = None

\* The record of a handler that is over.
LEMMA OverRecord ==
  [NoCall EXCEPT !.pc = "over"] \in CallRecords /\ [NoCall EXCEPT !.pc = "over"].pc = "over"
  BY DEF NoCall, CallRecords, Types

\* What IInv says of a state when nothing but calls and the graph change.
LEMMA Standing ==
  ASSUME IInv
  PROVE  /\ reactions \subseteq Users \X Whinnies
         /\ \A r \in reactions : Live(r[2]) /\ whinny[r[2]].type # "Repost"
         /\ follow \in [Users \X Users -> Calls \cup {None}]
         /\ graph \subseteq Items /\ mixed \subseteq Items
  BY DEF IInv, TypeOK, RepostsAreChecked

\* The end of a handler.
LEMMA OverInv ==
  ASSUME IInv, NEW c \in Calls, call' = [call EXCEPT ![c] = [NoCall EXCEPT !.pc = "over"]],
         UNCHANGED <<whinny, reactions, follow>>, graph' \subseteq Items, mixed' \subseteq Items
  PROVE  IInv'
<1> DEFINE h == [NoCall EXCEPT !.pc = "over"]
<1>1. h \in CallRecords /\ h.pc = "over"
  BY OverRecord
<1>2. call' = [call EXCEPT ![c] = h]
  OBVIOUS
<1> HIDE DEF h
<1> QED
  BY <1>1, <1>2, Settles, Standing

LEMMA ThrowInv == ASSUME IInv, NEW c \in Calls, Throw(c) PROVE IInv'
<1>1. /\ call' = [call EXCEPT ![c] = [NoCall EXCEPT !.pc = "over"]]
      /\ UNCHANGED <<whinny, reactions, follow, graph, mixed>>
  BY DEF Throw
<1> QED
  BY <1>1, OverInv, Standing

LEMMA MirrorInv == ASSUME IInv, NEW c \in Calls, Mirror(c) PROVE IInv'
<1>1. /\ call' = [call EXCEPT ![c] = [NoCall EXCEPT !.pc = "over"]]
      /\ UNCHANGED <<whinny, reactions, follow, mixed>>
      /\ call[c].pc = "mirror" /\ graph' \in Mirrored(call[c])
  BY DEF Mirror
<1>2. call[c] \in CallRecords /\ Shape(call[c])
  BY <1>1, Typed DEF IInv, Shaped
<1>3. Owns(call[c]) \subseteq Items /\ Touches(call[c]) \subseteq Items
  BY <1>1, <1>2, TouchesItems DEF Shape
<1>4. graph' \subseteq Items
  BY <1>1, <1>2, <1>3, Standing DEF Mirrored, CallRecords
<1> QED
  BY <1>1, <1>4, OverInv, Standing

LEMMA MirrorFailsInv == ASSUME IInv, NEW c \in Calls, MirrorFails(c) PROVE IInv'
<1>1. /\ call' = [call EXCEPT ![c] = [NoCall EXCEPT !.pc = "over"]]
      /\ UNCHANGED <<whinny, reactions, follow, graph>>
      /\ call[c].pc = "mirror" /\ mixed' = mixed \cup Owns(call[c])
  BY DEF MirrorFails
<1>2. call[c] \in CallRecords /\ Shape(call[c])
  BY <1>1, Typed DEF IInv, Shaped
<1>3. Owns(call[c]) \subseteq Items
  BY <1>1, <1>2, TouchesItems DEF Shape
<1> QED
  BY <1>1, <1>3, OverInv, Standing


-----------------------------------------------------------------------------
(* The handlers' reads.                                                    *)

LEMMA CreateReadInv ==
  ASSUME IInv, NEW c \in Calls, NEW u \in Users, NEW t \in Types, NEW s \in Whinnies \cup {None},
         CreateRead(c, u, t, s)
  PROVE  IInv'
<1> DEFINE h == [NoCall EXCEPT !.pc = "write", !.user = u, !.type = t, !.source = s, !.known = Used]
<1>1. /\ call' = [call EXCEPT ![c] = h]
      /\ UNCHANGED <<whinny, reactions, follow, graph, mixed>>
      /\ s = None => t = "Owner"
      /\ Sourced(u, t, s)
  BY DEF CreateRead
<1>2. /\ h.pc = "write" /\ h.kind = "create" /\ h.user = u /\ h.type = t
      /\ h.source = s /\ h.known = Used /\ h.whinny = None
  BY DEF NoCall
<1>3. h \in CallRecords
  BY DEF NoCall, CallRecords, Types, Used
<1> HIDE DEF h
<1>4. Shape(h)
  BY <1>1, <1>2 DEF Shape
<1>5. Found(h)
  <2>1. s # None => s \in Used /\ whinny[s].type # "Repost"
    BY <1>1 DEF Sourced, Live, Used
  <2>2. ASSUME t = "Repost", NEW w \in Used PROVE ~Again(h, w)
    <3>1. s \in Whinnies
      BY <1>1, <2>2
    <3>2. w \in Whinnies /\ (whinny[w].type = "Repost" => Live(w))
      BY <2>2 DEF IInv, Rows, Used
    <3> QED
      BY <1>1, <1>2, <2>2, <3>1, <3>2, NoneIsNothing DEF Sourced, Again
  <2> QED
    BY <1>2, <2>1, <2>2 DEF Found
<1> QED
  BY <1>1, <1>2, <1>3, <1>4, <1>5, Settles, Standing

LEMMA DeleteReadInv ==
  ASSUME IInv, NEW c \in Calls, NEW u \in Users, NEW w \in Whinnies, DeleteRead(c, u, w)
  PROVE  IInv'
<1> DEFINE h == [NoCall EXCEPT !.pc = "write", !.kind = "delete", !.user = u, !.whinny = w]
<1>1. /\ call' = [call EXCEPT ![c] = h]
      /\ UNCHANGED <<whinny, reactions, follow, graph, mixed>>
  BY DEF DeleteRead
<1>2. h.pc = "write" /\ h.kind = "delete" /\ h.user = u /\ h.whinny = w
  BY DEF NoCall
<1>3. h \in CallRecords
  BY DEF NoCall, CallRecords, Types
<1> HIDE DEF h
<1>4. Shape(h) /\ Found(h)
  BY <1>2 DEF Shape, Found
<1> QED
  BY <1>1, <1>2, <1>3, <1>4, Settles, Standing

LEMMA ReactReadInv ==
  ASSUME IInv, NEW c \in Calls, NEW u \in Users, NEW w \in Whinnies,
         NEW k \in {"react", "unreact"}, ReactRead(c, u, w, k)
  PROVE  IInv'
<1> DEFINE h == [NoCall EXCEPT !.pc = "write", !.kind = k, !.user = u, !.whinny = w]
<1>1. /\ call' = [call EXCEPT ![c] = h]
      /\ UNCHANGED <<whinny, reactions, follow, graph, mixed>>
      /\ Live(w) /\ whinny[w].type # "Repost"
  BY DEF ReactRead
<1>2. h.pc = "write" /\ h.kind = k /\ h.user = u /\ h.whinny = w
  BY DEF NoCall
<1>3. h \in CallRecords
  BY DEF NoCall, CallRecords, Types
<1> HIDE DEF h
<1>4. Shape(h) /\ Found(h)
  BY <1>1, <1>2 DEF Shape, Found, Live, Used
<1> QED
  BY <1>1, <1>2, <1>3, <1>4, Settles, Standing

LEMMA FollowReadInv ==
  ASSUME IInv, NEW c \in Calls, NEW u \in Users, NEW v \in Users,
         NEW k \in {"follow", "unfollow"}, FollowRead(c, u, v, k)
  PROVE  IInv'
<1> DEFINE h == [NoCall EXCEPT !.pc = "write", !.kind = k, !.user = u, !.other = v,
                               !.row = follow[<<u, v>>]]
<1>1. /\ call' = [call EXCEPT ![c] = h]
      /\ UNCHANGED <<whinny, reactions, follow, graph, mixed>>
  BY DEF FollowRead
<1>2. h.pc = "write" /\ h.kind = k /\ h.user = u /\ h.other = v
  BY DEF NoCall
<1>3. follow[<<u, v>>] \in Calls \cup {None}
  BY Standing
<1>4. h \in CallRecords
  BY <1>3 DEF NoCall, CallRecords, Types
<1> HIDE DEF h
<1>5. Shape(h) /\ Found(h)
  BY <1>2 DEF Shape, Found
<1> QED
  BY <1>1, <1>2, <1>4, <1>5, Settles, Standing

-----------------------------------------------------------------------------
(* The writes that leave the rows of whinnies alone.                       *)

\* A handler whose write is done: the record it has, and what may be swapped.
LEMMA Writer ==
  ASSUME IInv, NEW c \in Calls, call[c].pc = "write", NEW h, h = [call[c] EXCEPT !.pc = "mirror"]
  PROVE  /\ h \in CallRecords /\ h.pc = "mirror" /\ call[c] \in CallRecords
         /\ Shape(call[c]) /\ Found(call[c])
         /\ call[c].kind # "create" => Shape(h) /\ Swapped(call[c]) \subseteq Items
<1>1. call[c] \in CallRecords /\ Shape(call[c]) /\ Found(call[c])
  BY Typed DEF IInv, Shaped, Known
<1>2. h \in CallRecords /\ h.pc = "mirror" /\ (call[c].kind # "create" => Shape(h))
  BY <1>1 DEF CallRecords, Shape
<1> QED
  BY <1>1, <1>2, SwappedItems

LEMMA ReactWriteInv == ASSUME IInv, NEW c \in Calls, ReactWrite(c) PROVE IInv'
<1> DEFINE h == [call[c] EXCEPT !.pc = "mirror"]
           r == <<call[c].user, call[c].whinny>>
<1>1. /\ call' = [call EXCEPT ![c] = h] /\ UNCHANGED <<whinny, follow, graph>>
      /\ call[c].pc = "write" /\ mixed' = mixed \cup Swapped(call[c])
      /\ \/ /\ call[c].kind = "react" /\ Live(call[c].whinny)
            /\ reactions' = reactions \cup {r}
         \/ /\ call[c].kind = "unreact"
            /\ reactions' = reactions \ {r}
  BY DEF ReactWrite, Done
<1>2. /\ h \in CallRecords /\ h.pc = "mirror" /\ Shape(call[c]) /\ Found(call[c])
      /\ Shape(h) /\ Swapped(call[c]) \subseteq Items
  BY <1>1, Writer
<1> HIDE DEF h
<1>3. r \in Users \X Whinnies
  BY <1>1, <1>2 DEF Shape
<1>4. call[c].kind = "react" => Live(r[2]) /\ whinny[r[2]].type # "Repost"
  BY <1>1, <1>2 DEF Found
<1>5. reactions' \subseteq Users \X Whinnies
  BY <1>1, <1>3, Standing
<1>6. \A q \in reactions' : Live(q[2]) /\ whinny[q[2]].type # "Repost"
  <2> HIDE DEF r
  <2> QED
    BY <1>1, <1>4, Standing
<1>7. mixed' \subseteq Items
  BY <1>1, <1>2, Standing
<1> QED
  BY <1>1, <1>2, <1>5, <1>6, <1>7, Settles, Standing

LEMMA FollowWriteInv == ASSUME IInv, NEW c \in Calls, FollowWrite(c) PROVE IInv'
<1> DEFINE h == [call[c] EXCEPT !.pc = "mirror"]
           e == <<call[c].user, call[c].other>>
<1>1. /\ call' = [call EXCEPT ![c] = h] /\ UNCHANGED <<whinny, reactions, graph>>
      /\ call[c].pc = "write" /\ mixed' = mixed \cup Swapped(call[c])
      /\ \/ call[c].kind = "follow" /\ follow' = [follow EXCEPT ![e] = c]
         \/ call[c].kind = "unfollow" /\ follow' = [follow EXCEPT ![e] = None]
  BY DEF FollowWrite, Done
<1>2. h \in CallRecords /\ h.pc = "mirror" /\ Shape(h) /\ Swapped(call[c]) \subseteq Items
  BY <1>1, Writer
<1> HIDE DEF h, e
<1>3. follow' \in [Users \X Users -> Calls \cup {None}]
  BY <1>1, Standing
<1>4. mixed' \subseteq Items
  BY <1>1, <1>2, Standing
<1> QED
  BY <1>1, <1>2, <1>3, <1>4, Settles, Standing

-----------------------------------------------------------------------------
(* The writes that change the rows of whinnies.                            *)

\* A step that ages the rows, and puts one handler's write behind it.
LEMMA KnownInv ==
  ASSUME IInv, Aged, NEW c \in Calls, NEW h \in CallRecords, h.pc = "mirror", Shape(h),
         call' = [call EXCEPT ![c] = h]
  PROVE  Shaped' /\ Known' /\ call' \in [Calls -> CallRecords]
<1>1. call \in [Calls -> CallRecords]
  BY Typed DEF IInv
<1>2. call' \in [Calls -> CallRecords] /\ \A d \in Calls : call'[d] = IF d = c THEN h ELSE call[d]
  BY <1>1
<1>3. Shaped'
  BY <1>2 DEF IInv, Shaped, Shape
<1>4. Known'
  <2> SUFFICES ASSUME NEW d \in Calls, call'[d].pc = "write" PROVE Found(call[d])'
    BY DEF Known
  <2>1. d # c /\ call'[d] = call[d]
    BY <1>2
  <2>2. Found(call[d])
    BY <2>1 DEF IInv, Known
  <2> DEFINE g == call[d]
  <2>3. Found(g) /\ g = call'[d]
    BY <2>1, <2>2
  <2> HIDE DEF g
  <2>4. /\ g.kind = "create" =>
             /\ g.known \subseteq Used'
             /\ g.source # None => g.source \in Used' /\ whinny'[g.source].type # "Repost"
             /\ g.type = "Repost" => \A w \in g.known :
                  ~(/\ whinny'[w].type = "Repost" /\ whinny'[w].user = g.user
                    /\ whinny'[w].source = g.source)
        /\ g.kind = "react" => g.whinny \in Used' /\ whinny'[g.whinny].type # "Repost"
    BY <2>3 DEF Aged, Found, Again
  <2> QED
    BY <2>3, <2>4 DEF Found, Again
<1> QED
  BY <1>2, <1>3, <1>4

LEMMA CreateWriteInv ==
  ASSUME IInv, NEW c \in Calls, NEW n \in Whinnies, CreateWrite(c, n) PROVE IInv'
<1> DEFINE p == call[c]
           s == SourceOf(p)
           h == [[p EXCEPT !.whinny = n, !.source = s] EXCEPT !.pc = "mirror"]
           g == [p EXCEPT !.whinny = n, !.source = s]
           row == [at |-> "live", type |-> p.type, user |-> p.user, source |-> s, known |-> p.known]
<1>1. /\ p.pc = "write" /\ p.kind = "create" /\ whinny[n].at = "unused"
      /\ s # None => Live(s)
      /\ call' = [call EXCEPT ![c] = h]
      /\ mixed' = mixed \cup Swapped(g)
      /\ UNCHANGED <<reactions, follow, graph>>
  BY DEF CreateWrite, Done, SourceOf
<1>2. p \in CallRecords /\ Shape(p) /\ Found(p)
  BY <1>1, Writer
<1>3. /\ s \in Whinnies \cup {None} /\ (s = None <=> p.type = "Owner")
      /\ p.type # "Owner" => s = p.source
  BY <1>1, <1>2, NoneIsNothing DEF SourceOf, Shape, CallRecords
<1>4. whinny' = [whinny EXCEPT ![n] = row]
  BY <1>1, <1>2 DEF CreateWrite, SourceOf, CallRecords
<1> HIDE DEF s
<1>5. /\ h \in CallRecords /\ h.pc = "mirror" /\ Shape(h)
      /\ g \in CallRecords /\ Shape(g) /\ g.whinny = n
  BY <1>1, <1>2, <1>3 DEF CallRecords, Shape
<1>6. row \in RowRecords /\ row.at = "live" /\ row.type = p.type /\ row.user = p.user
      /\ row.source = s /\ row.known = p.known
  BY <1>2, <1>3 DEF CallRecords, RowRecords
<1> HIDE DEF g, h, row
<1>7. whinny \in [Whinnies -> RowRecords]
  BY Typed DEF IInv
<1>8. /\ whinny' \in [Whinnies -> RowRecords]
      /\ \A w \in Whinnies : whinny'[w] = IF w = n THEN row ELSE whinny[w]
  BY <1>4, <1>6, <1>7
<1>9. \A w \in Whinnies : Live(w) => w # n /\ Live(w)'
  BY <1>1, <1>8 DEF Live
<1>10. Used' = Used \cup {n} /\ n \notin Used
  BY <1>1, <1>6, <1>8 DEF Used
<1>11. Aged
  BY <1>8, <1>10 DEF Aged, Used
<1>12. Shaped' /\ Known' /\ call' \in [Calls -> CallRecords]
  BY <1>1, <1>5, <1>11, KnownInv
<1>13. mixed' \subseteq Items
  BY <1>1, <1>5, SwappedItems, Standing
<1>14. \A w \in Whinnies : whinny'[w].source # None => whinny'[w].source \in Whinnies /\ Live(whinny[w].source)'
  <2> SUFFICES ASSUME NEW w \in Whinnies, whinny'[w].source # None
               PROVE  whinny'[w].source \in Whinnies /\ whinny'[whinny'[w].source].at = "live"
    BY DEF Live
  <2>1. CASE w = n
    BY <2>1, <1>1, <1>3, <1>6, <1>8, <1>9 DEF Live
  <2>2. CASE w # n
    <3>1. whinny[w].source \in Whinnies /\ Live(whinny[w].source)
      BY <2>2, <1>7, <1>8 DEF IInv, TypeOK, RowRecords
    <3> QED
      BY <3>1, <2>2, <1>8, <1>9 DEF Live
  <2> QED
    BY <2>1, <2>2
<1>15. TypeOK'
  <2>1. \A w \in Whinnies : (whinny[w].source # None => Live(whinny[w].source))'
    BY <1>14
  <2>2. \A r \in reactions' : Live(r[2])'
    BY <1>1, <1>9, Standing
  <2> QED
    BY <1>1, <1>8, <1>12, <1>13, <2>1, <2>2, Standing DEF TypeOK, CallRecords, RowRecords
<1>16. Rows'
  <2> SUFFICES ASSUME NEW w \in Whinnies
               PROVE  /\ whinny'[w].at # "live" => whinny'[w].source = None /\ whinny'[w].type = "Owner"
                      /\ whinny'[w].type = "Repost" => whinny'[w].user \in Users /\ whinny'[w].source \in Whinnies
                      /\ whinny'[w].known \subseteq Used'
    BY DEF Rows, Live
  <2>1. CASE w = n
    BY <2>1, <1>1, <1>2, <1>3, <1>6, <1>8, <1>10 DEF Shape, Found
  <2>2. CASE w # n
    BY <2>2, <1>8, <1>10 DEF IInv, Rows, Live
  <2> QED
    BY <2>1, <2>2
<1>17. RepostsAreChecked'
  <2>1. ASSUME NEW w \in Whinnies, whinny'[w].source # None
        PROVE  whinny'[whinny'[w].source].type # "Repost"
    <3>1. CASE w = n
      BY <3>1, <2>1, <1>1, <1>2, <1>3, <1>6, <1>8, <1>9 DEF Found
    <3>2. CASE w # n
      <4>1. whinny[w].source \in Whinnies /\ Live(whinny[w].source)
        BY <3>2, <2>1, <1>7, <1>8 DEF IInv, TypeOK, RowRecords
      <4>2. whinny[whinny[w].source].type # "Repost"
        BY <3>2, <2>1, <1>8 DEF IInv, RepostsAreChecked
      <4> QED
        BY <3>2, <4>1, <4>2, <1>8, <1>9
    <3> QED
      BY <3>1, <3>2
  <2>2. ASSUME NEW r \in reactions' PROVE whinny'[r[2]].type # "Repost"
    BY <2>2, <1>1, <1>8, <1>9, Standing
  <2>3. ASSUME NEW w \in Whinnies, NEW x \in Whinnies, w # x,
               whinny'[w].type = "Repost", whinny'[x].type = "Repost",
               whinny'[w].user = whinny'[x].user, whinny'[w].source = whinny'[x].source
        PROVE  w \notin whinny'[x].known /\ x \notin whinny'[w].known
    <3>1. ASSUME NEW y \in Whinnies, y # n, whinny'[y].type = "Repost", p.type = "Repost",
                 whinny'[y].user = p.user, whinny'[y].source = s
          PROVE  y \notin p.known /\ n \notin whinny'[y].known
      <4>1. whinny'[y] = whinny[y] /\ Again(p, y)
        BY <3>1, <1>3, <1>8 DEF Again
      <4>2. whinny[y].known \subseteq Used
        BY DEF IInv, Rows
      <4> QED
        BY <3>1, <4>1, <4>2, <1>1, <1>2, <1>10 DEF Found
    <3>2. CASE w = n
      BY <3>1, <3>2, <2>3, <1>6, <1>8
    <3>3. CASE x = n
      BY <3>1, <3>3, <2>3, <1>6, <1>8
    <3>4. CASE w # n /\ x # n
      BY <3>4, <2>3, <1>8 DEF IInv, RepostsAreChecked
    <3> QED
      BY <3>2, <3>3, <3>4
  <2> QED
    BY <2>1, <2>2, <2>3 DEF RepostsAreChecked
<1> QED
  BY <1>12, <1>15, <1>16, <1>17 DEF IInv

\* A whinny goes with itself, and with its source.
LEMMA Threads ==
  ASSUME NEW w \in Whinnies
  PROVE  /\ w \in Thread(w) /\ Thread(w) \subseteq Whinnies
         /\ \A y \in Whinnies : whinny[y].source \in Thread(w) => y \in Thread(w)
<1>1. w \in Thread(w) /\ Thread(w) \subseteq Whinnies
  BY DEF Thread
<1>2. ASSUME NEW y \in Whinnies, whinny[y].source \in Thread(w) PROVE y \in Thread(w)
  BY <1>2 DEF Thread
<1> QED
  BY <1>1, <1>2

LEMMA KeptItems == ASSUME IInv, NEW w \in Whinnies PROVE Kept(w) \subseteq Items
<1>1. \A x \in Whinnies : Node(x) \in Items /\ EdgesAt(x) \subseteq Items
  BY DEF Items
<1>2. whinny[w].type = "Repost" => Reposted(whinny[w].user, whinny[w].source) \in Items
  <2> SUFFICES ASSUME whinny[w].type = "Repost"
               PROVE  Reposted(whinny[w].user, whinny[w].source) \in Items
    OBVIOUS
  <2>1. whinny[w].user \in Users /\ whinny[w].source \in Whinnies
    BY DEF IInv, Rows
  <2>2. Reposted(whinny[w].user, whinny[w].source) \in EdgesAt(whinny[w].source)
    BY <2>1 DEF EdgesAt
  <2> QED
    BY <1>1, <2>1, <2>2
<1>3. UNION {{Node(x)} \cup EdgesAt(x) : x \in Thread(w) \ {w}} \subseteq Items
  BY <1>1, Threads
<1> QED
  BY <1>2, <1>3 DEF Kept

LEMMA DeleteWriteInv == ASSUME IInv, NEW c \in Calls, DeleteWrite(c) PROVE IInv'
<1> DEFINE p == call[c]
           h == [p EXCEPT !.pc = "mirror"]
           T == Thread(p.whinny)
           gone == [Unused EXCEPT !.at = "gone"]
<1>1. /\ p.pc = "write" /\ p.kind = "delete"
      /\ whinny' = [w \in Whinnies |-> IF w \in T THEN gone ELSE whinny[w]]
      /\ reactions' = {r \in reactions : r[2] \notin T}
      /\ call' = [call EXCEPT ![c] = h]
      /\ mixed' = mixed \cup Swapped(p) \cup Kept(p.whinny)
      /\ UNCHANGED <<follow, graph>>
  BY DEF DeleteWrite, Done
<1>2. /\ h \in CallRecords /\ h.pc = "mirror" /\ Shape(p) /\ Shape(h)
      /\ Swapped(p) \subseteq Items
  BY <1>1, Writer
<1>3. p.whinny \in Whinnies
  BY <1>1, <1>2 DEF Shape
<1>4. gone \in RowRecords /\ gone.at = "gone" /\ gone.type = "Owner" /\ gone.source = None /\ gone.known = {}
  BY DEF Unused, RowRecords, Types
<1>5. /\ T \subseteq Whinnies
      /\ \A y \in Whinnies : whinny[y].source \in T => y \in T
  BY <1>3, Threads
<1>6. Kept(p.whinny) \subseteq Items
  BY <1>3, KeptItems
<1> HIDE DEF h, gone, T
<1>7. whinny \in [Whinnies -> RowRecords]
  BY Typed DEF IInv
<1>8. /\ whinny' \in [Whinnies -> RowRecords]
      /\ \A w \in Whinnies : whinny'[w] = IF w \in T THEN gone ELSE whinny[w]
  BY <1>1, <1>4, <1>7
<1>9. Used \subseteq Used'
  BY <1>4, <1>8 DEF Used
<1>10. Aged
  BY <1>4, <1>8, <1>9 DEF Aged, Used
<1>11. Shaped' /\ Known' /\ call' \in [Calls -> CallRecords]
  BY <1>1, <1>2, <1>10, KnownInv
<1>12. mixed' \subseteq Items
  BY <1>1, <1>2, <1>6, Standing
\* What still has a source is as it was, and so is its source.
<1>13. ASSUME NEW w \in Whinnies, whinny'[w].source # None
       PROVE  /\ whinny'[w] = whinny[w] /\ whinny[w].source \in Whinnies
              /\ whinny[whinny[w].source].at = "live"
              /\ whinny'[whinny[w].source] = whinny[whinny[w].source]
  <2>1. w \notin T /\ whinny'[w] = whinny[w]
    BY <1>4, <1>8, <1>13
  <2>2. whinny[w].source \in Whinnies /\ whinny[whinny[w].source].at = "live"
    BY <1>7, <1>13, <2>1 DEF IInv, TypeOK, Live, RowRecords
  <2>3. whinny[w].source \notin T
    BY <1>5, <2>1
  <2> QED
    BY <1>8, <2>1, <2>2, <2>3
<1>14. \A r \in reactions' : /\ r \in reactions /\ r[2] \in Whinnies
                             /\ whinny'[r[2]] = whinny[r[2]]
  BY <1>1, <1>8, Standing
<1>15. TypeOK'
  <2>1. \A w \in Whinnies : (whinny[w].source # None => Live(whinny[w].source))'
    BY <1>13 DEF Live
  <2>2. \A r \in reactions' : Live(r[2])'
    BY <1>14, Standing DEF Live
  <2>3. reactions' \subseteq Users \X Whinnies
    BY <1>1, Standing
  <2> QED
    BY <1>1, <1>8, <1>11, <1>12, <2>1, <2>2, <2>3, Standing DEF TypeOK, CallRecords, RowRecords
<1>16. Rows'
  <2> SUFFICES ASSUME NEW w \in Whinnies
               PROVE  /\ whinny'[w].at # "live" => whinny'[w].source = None /\ whinny'[w].type = "Owner"
                      /\ whinny'[w].type = "Repost" => whinny'[w].user \in Users /\ whinny'[w].source \in Whinnies
                      /\ whinny'[w].known \subseteq Used'
    BY DEF Rows, Live
  <2>1. CASE w \in T
    BY <2>1, <1>4, <1>8
  <2>2. CASE w \notin T
    BY <2>2, <1>8, <1>9 DEF IInv, Rows, Live
  <2> QED
    BY <2>1, <2>2
<1>17. RepostsAreChecked'
  <2>1. \A w \in Whinnies : whinny'[w].source # None => whinny'[whinny'[w].source].type # "Repost"
    BY <1>13 DEF IInv, RepostsAreChecked
  <2>2. \A r \in reactions' : whinny'[r[2]].type # "Repost"
    BY <1>14, Standing
  <2>3. \A w \in Whinnies : whinny'[w].type = "Repost" => whinny'[w] = whinny[w]
    BY <1>4, <1>8
  <2> QED
    BY <2>1, <2>2, <2>3 DEF IInv, RepostsAreChecked
<1> QED
  BY <1>11, <1>15, <1>16, <1>17 DEF IInv

-----------------------------------------------------------------------------
LEMMA NextInv == IInv /\ [Next]_vars => IInv'
<1> SUFFICES ASSUME IInv, [Next]_vars PROVE IInv'
  OBVIOUS
<1>1. CASE UNCHANGED vars
  <2>1. UNCHANGED <<whinny, reactions, follow, graph, call, mixed>>
    BY <1>1 DEF vars
  <2>2. TypeOK'
    BY <2>1 DEF IInv, TypeOK, Live
  <2>3. Rows' /\ Shaped' /\ Known' /\ RepostsAreChecked'
    BY <2>1 DEF IInv, Rows, Shaped, Shape, Known, Found, Again, Used, Live, RepostsAreChecked
  <2> QED
    BY <2>2, <2>3 DEF IInv
<1>2. CASE Next
  <2> PICK c \in Calls :
      \/ \E u \in Users, t \in Types, s \in Whinnies \cup {None} : CreateRead(c, u, t, s)
      \/ \E w \in Whinnies : CreateWrite(c, w)
      \/ \E u \in Users, w \in Whinnies : DeleteRead(c, u, w)
      \/ \E u \in Users, w \in Whinnies, k \in {"react", "unreact"} : ReactRead(c, u, w, k)
      \/ \E u, v \in Users, k \in {"follow", "unfollow"} : FollowRead(c, u, v, k)
      \/ DeleteWrite(c) \/ ReactWrite(c) \/ FollowWrite(c)
      \/ Throw(c) \/ Mirror(c) \/ MirrorFails(c)
    BY <1>2 DEF Next
  <2>1. CASE \E u \in Users, t \in Types, s \in Whinnies \cup {None} : CreateRead(c, u, t, s)
    BY <2>1, CreateReadInv
  <2>2. CASE \E w \in Whinnies : CreateWrite(c, w)
    BY <2>2, CreateWriteInv
  <2>3. CASE \E u \in Users, w \in Whinnies : DeleteRead(c, u, w)
    BY <2>3, DeleteReadInv
  <2>4. CASE \E u \in Users, w \in Whinnies, k \in {"react", "unreact"} : ReactRead(c, u, w, k)
    BY <2>4, ReactReadInv
  <2>5. CASE \E u, v \in Users, k \in {"follow", "unfollow"} : FollowRead(c, u, v, k)
    BY <2>5, FollowReadInv
  <2>6. CASE DeleteWrite(c) \/ ReactWrite(c) \/ FollowWrite(c)
    BY <2>6, DeleteWriteInv, ReactWriteInv, FollowWriteInv
  <2>7. CASE Throw(c) \/ Mirror(c) \/ MirrorFails(c)
    BY <2>7, ThrowInv, MirrorInv, MirrorFailsInv
  <2> QED
    BY <2>1, <2>2, <2>3, <2>4, <2>5, <2>6, <2>7
<1> QED
  BY <1>1, <1>2

LEMMA Invariant == Spec => []IInv
  BY InitInv, NextInv, PTL DEF Spec

\* Types, and that a row's source and a reaction's target are rows (the foreign
\* keys, and the cascade along Whinny.source).
THEOREM TypeCorrect == Spec => []TypeOK
<1>1. IInv => TypeOK
  BY DEF IInv
<1> QED
  BY <1>1, Invariant, PTL

\* Reposts are leaves, and only two requests that overlapped can have made the
\* same repost twice (whinnies.service, create and react).
THEOREM RepostsChecked == Spec => []RepostsAreChecked
<1>1. IInv => RepostsAreChecked
  BY DEF IInv
<1> QED
  BY <1>1, Invariant, PTL
-----------------------------------------------------------------------------
(* The graph.                                                              *)

\* What a call adds to the graph, and what it takes away.
Adds(h) ==
  CASE h.kind = "create" -> Touches(h) \ EdgesAt(h.whinny)
    [] h.kind \in {"react", "follow"} -> Owns(h)
    [] h.kind \in {"delete", "unreact", "unfollow"} -> {}
Removes(h) == IF h.kind \in {"delete", "unreact", "unfollow"} THEN Owns(h) ELSE {}

\* Of what is not mixed: only creates share it, what a call under way adds has a
\* row, what it takes has none, and what no call is about is right.
Shared(i) == \A c, d \in Pending :
               c # d /\ i \in Touches(call[c]) /\ i \in Touches(call[d])
               => call[c].kind = "create" /\ call[d].kind = "create"
Adding(i) == \A c \in Pending : i \in Adds(call[c]) => InRows(i)
Removing(i) == \A c \in Pending : i \in Removes(call[c]) => ~InRows(i)
Quiet(i) == (\A c \in Pending : i \notin Adds(call[c]) \cup Removes(call[c]))
            => ((i \in graph) <=> InRows(i))

\* A whinny has its node, or the call that makes it is under way, or is lost.
HasNode(w) ==
  \/ Node(w) \in graph
  \/ \E c \in Pending : /\ call[c].kind = "create" /\ call[c].type # "Repost"
                        /\ call[c].whinny = w
  \/ {Node(w)} \cup EdgesAt(w) \subseteq mixed

Mirrors == \A i \in Items \ mixed : Shared(i) /\ Adding(i) /\ Removing(i) /\ Quiet(i)
Nodes == \A w \in Whinnies : Live(w) /\ whinny[w].type # "Repost" => HasNode(w)
Deleted == \A c \in Pending : call[c].kind = "delete" => whinny[call[c].whinny].at = "gone"

GraphInv == Mirrors /\ Nodes /\ Deleted

LEMMA InitGraph == Init => GraphInv
<1> SUFFICES ASSUME Init PROVE GraphInv
  OBVIOUS
<1>1. PICK made \in [Whinnies -> Users \cup {None}] :
        /\ whinny = [w \in Whinnies |-> IF made[w] = None THEN Unused
                                        ELSE [Unused EXCEPT !.at = "live", !.user = made[w]]]
        /\ graph = {Node(w) : w \in {x \in Whinnies : made[x] # None}}
  BY DEF Init
<1>2. /\ reactions = {} /\ call = [c \in Calls |-> NoCall]
      /\ follow = [e \in Users \X Users |-> None]
  BY DEF Init
<1>3. Pending = {}
  BY <1>2 DEF Pending, NoCall
<1>4. \A w \in Whinnies : whinny[w].type = "Owner" /\ (Live(w) <=> made[w] # None)
  BY <1>1 DEF Unused, Live
<1>5. \A i : InRows(i) <=> i \in graph
  BY <1>1, <1>2, <1>4 DEF InRows
<1>6. Mirrors /\ Deleted
  BY <1>3, <1>5 DEF Mirrors, Shared, Adding, Removing, Quiet, Deleted
<1>7. Nodes
  BY <1>1, <1>4 DEF Nodes, HasNode
<1> QED
  BY <1>6, <1>7 DEF GraphInv

\* What a call adds or takes is what it touches, and it does but one of them.
LEMMA Portions ==
  ASSUME NEW h \in CallRecords
  PROVE  /\ Adds(h) \subseteq Touches(h) /\ Removes(h) \subseteq Touches(h)
         /\ Owns(h) \subseteq Touches(h)
         /\ h.kind = "create" => Removes(h) = {}
         /\ h.kind \in {"react", "follow"} => Adds(h) = Owns(h) /\ Removes(h) = {}
         /\ h.kind \in {"delete", "unreact", "unfollow"} => Removes(h) = Owns(h) /\ Adds(h) = {}
<1>1. h.kind \in {"create", "delete", "react", "unreact", "follow", "unfollow"}
  BY DEF CallRecords
<1>2. Owns(h) \subseteq Touches(h)
  BY DEF Touches
<1>3. CASE h.kind = "create"
  BY <1>2, <1>3 DEF Adds, Removes
<1>4. CASE h.kind \in {"react", "follow"}
  BY <1>2, <1>4 DEF Adds, Removes
<1>5. CASE h.kind \in {"delete", "unreact", "unfollow"}
  BY <1>2, <1>5 DEF Adds, Removes
<1> QED
  BY <1>1, <1>2, <1>3, <1>4, <1>5

\* A step that leaves rows and graph alone, of a handler with no call under way.
LEMMA AsideGraph ==
  ASSUME IInv, GraphInv, NEW c \in Calls, NEW h \in CallRecords, call[c].pc # "mirror",
         h.pc # "mirror", call' = [call EXCEPT ![c] = h],
         UNCHANGED <<whinny, reactions, follow, graph, mixed>>
  PROVE  GraphInv'
<1>1. call \in [Calls -> CallRecords]
  BY Typed DEF IInv
<1>2. \A d \in Calls : call'[d] = IF d = c THEN h ELSE call[d]
  BY <1>1
<1>3. Pending' = Pending /\ \A d \in Pending : call'[d] = call[d]
  BY <1>2 DEF Pending
<1>4. \A i : InRows(i)' <=> InRows(i)
  BY DEF InRows, Live
<1>5. Mirrors'
  BY <1>3, <1>4 DEF GraphInv, Mirrors, Shared, Adding, Removing, Quiet
<1>6. Nodes'
  <2> SUFFICES ASSUME NEW w \in Whinnies, Live(w), whinny[w].type # "Repost" PROVE HasNode(w)'
    BY DEF Nodes, Live
  <2>1. HasNode(w)
    BY DEF GraphInv, Nodes
  <2> QED
    BY <2>1, <1>3 DEF HasNode
<1>7. Deleted'
  BY <1>3 DEF GraphInv, Deleted
<1> QED
  BY <1>5, <1>6, <1>7 DEF GraphInv

\* A write: what it changes of the rows its call is about, or it is mixed.
LEMMA WriteMirrors ==
  ASSUME IInv, GraphInv, NEW c \in Calls, NEW g \in CallRecords, NEW h \in CallRecords,
         call[c].pc # "mirror", h.pc = "mirror", h.kind = g.kind, Touches(h) = Touches(g),
         call' = [call EXCEPT ![c] = h], graph' = graph,
         mixed \cup Swapped(g) \subseteq mixed',
         \A i \in Items \ mixed' : /\ i \in Adds(h) => InRows(i)'
                                   /\ i \in Removes(h) => ~InRows(i)'
                                   /\ i \in Adds(h) \cup Removes(h) \/ (InRows(i)' <=> InRows(i))
  PROVE  Mirrors'
<1>1. call \in [Calls -> CallRecords]
  BY Typed DEF IInv
<1>2. \A d \in Calls : call'[d] = IF d = c THEN h ELSE call[d]
  BY <1>1
<1>3. Pending' = Pending \cup {c} /\ c \notin Pending /\ Pending \subseteq Calls
  BY <1>2 DEF Pending
<1> SUFFICES ASSUME NEW i \in Items \ mixed' PROVE (Shared(i) /\ Adding(i) /\ Removing(i) /\ Quiet(i))'
  BY DEF Mirrors
<1>4. Shared(i) /\ Adding(i) /\ Removing(i) /\ Quiet(i)
  BY DEF GraphInv, Mirrors
<1>5. \A d \in Pending : /\ call'[d] = call[d] /\ call[d] \in CallRecords
                         /\ Adds(call[d]) \subseteq Touches(call[d])
                         /\ Removes(call[d]) \subseteq Touches(call[d])
                         /\ call[d].kind = "create" => Removes(call[d]) = {}
  BY <1>1, <1>2, <1>3, Portions
<1>6. /\ Adds(h) \subseteq Touches(h) /\ Removes(h) \subseteq Touches(h)
      /\ h.kind = "create" => Removes(h) = {}
  BY Portions
<1>7. ASSUME NEW d \in Pending, i \in Touches(call[d]), i \in Touches(h)
      PROVE  h.kind = "create" /\ call[d].kind = "create"
  BY <1>7 DEF Swapped
<1>8. Shared(i)'
  BY <1>2, <1>3, <1>4, <1>5, <1>7 DEF Shared
<1>9. Adding(i)'
  <2> SUFFICES ASSUME NEW d \in Pending', i \in Adds(call'[d]) PROVE InRows(i)'
    BY DEF Adding
  <2>1. CASE d = c
    BY <2>1, <1>2
  <2>2. CASE d # c
    <3>1. d \in Pending /\ i \in Adds(call[d]) /\ InRows(i)
      BY <2>2, <1>3, <1>4, <1>5 DEF Adding
    <3> QED
      BY <3>1, <1>5, <1>6, <1>7
  <2> QED
    BY <2>1, <2>2
<1>10. Removing(i)'
  <2> SUFFICES ASSUME NEW d \in Pending', i \in Removes(call'[d]) PROVE ~InRows(i)'
    BY DEF Removing
  <2>1. CASE d = c
    BY <2>1, <1>2
  <2>2. CASE d # c
    <3>1. d \in Pending /\ i \in Removes(call[d]) /\ ~InRows(i)
      BY <2>2, <1>3, <1>4, <1>5 DEF Removing
    <3> QED
      BY <3>1, <1>5, <1>6, <1>7
  <2> QED
    BY <2>1, <2>2
<1>11. Quiet(i)'
  <2> SUFFICES ASSUME \A d \in Pending' : i \notin Adds(call'[d]) \cup Removes(call'[d])
               PROVE  i \in graph <=> InRows(i)'
    BY DEF Quiet
  <2>1. i \notin Adds(h) \cup Removes(h)
    BY <1>2, <1>3
  <2>2. \A d \in Pending : i \notin Adds(call[d]) \cup Removes(call[d])
    BY <1>3, <1>5
  <2> QED
    BY <2>1, <2>2, <1>4 DEF Quiet
<1> QED
  BY <1>8, <1>9, <1>10, <1>11

-----------------------------------------------------------------------------
(* Reads, throws and writes, for the graph.                                *)

LEMMA ReadsGraph ==
  ASSUME IInv, GraphInv, NEW c \in Calls,
         \/ \E u \in Users, t \in Types, s \in Whinnies \cup {None} : CreateRead(c, u, t, s)
         \/ \E u \in Users, w \in Whinnies : DeleteRead(c, u, w)
         \/ \E u \in Users, w \in Whinnies, k \in {"react", "unreact"} : ReactRead(c, u, w, k)
         \/ \E u, v \in Users, k \in {"follow", "unfollow"} : FollowRead(c, u, v, k)
         \/ Throw(c)
  PROVE  GraphInv'
<1>1. ASSUME NEW u \in Users, NEW t \in Types, NEW s \in Whinnies \cup {None}, CreateRead(c, u, t, s)
      PROVE  GraphInv'
  <2> DEFINE h == [NoCall EXCEPT !.pc = "write", !.user = u, !.type = t, !.source = s, !.known = Used]
  <2>1. /\ call' = [call EXCEPT ![c] = h] /\ call[c].pc = "idle"
        /\ UNCHANGED <<whinny, reactions, follow, graph, mixed>>
    BY <1>1 DEF CreateRead
  <2>2. h \in CallRecords /\ h.pc = "write"
    BY DEF NoCall, CallRecords, Types, Used
  <2> HIDE DEF h
  <2> QED
    BY <2>1, <2>2, AsideGraph
<1>2. ASSUME NEW u \in Users, NEW w \in Whinnies, DeleteRead(c, u, w) PROVE GraphInv'
  <2> DEFINE h == [NoCall EXCEPT !.pc = "write", !.kind = "delete", !.user = u, !.whinny = w]
  <2>1. /\ call' = [call EXCEPT ![c] = h] /\ call[c].pc = "idle"
        /\ UNCHANGED <<whinny, reactions, follow, graph, mixed>>
    BY <1>2 DEF DeleteRead
  <2>2. h \in CallRecords /\ h.pc = "write"
    BY DEF NoCall, CallRecords, Types
  <2> HIDE DEF h
  <2> QED
    BY <2>1, <2>2, AsideGraph
<1>3. ASSUME NEW u \in Users, NEW w \in Whinnies, NEW k \in {"react", "unreact"}, ReactRead(c, u, w, k)
      PROVE  GraphInv'
  <2> DEFINE h == [NoCall EXCEPT !.pc = "write", !.kind = k, !.user = u, !.whinny = w]
  <2>1. /\ call' = [call EXCEPT ![c] = h] /\ call[c].pc = "idle"
        /\ UNCHANGED <<whinny, reactions, follow, graph, mixed>>
    BY <1>3 DEF ReactRead
  <2>2. h \in CallRecords /\ h.pc = "write"
    BY DEF NoCall, CallRecords, Types
  <2> HIDE DEF h
  <2> QED
    BY <2>1, <2>2, AsideGraph
<1>4. ASSUME NEW u \in Users, NEW v \in Users, NEW k \in {"follow", "unfollow"}, FollowRead(c, u, v, k)
      PROVE  GraphInv'
  <2> DEFINE h == [NoCall EXCEPT !.pc = "write", !.kind = k, !.user = u, !.other = v,
                                 !.row = follow[<<u, v>>]]
  <2>1. /\ call' = [call EXCEPT ![c] = h] /\ call[c].pc = "idle"
        /\ UNCHANGED <<whinny, reactions, follow, graph, mixed>>
    BY <1>4 DEF FollowRead
  <2>2. follow[<<u, v>>] \in Calls \cup {None}
    BY Standing
  <2>3. h \in CallRecords /\ h.pc = "write"
    BY <2>2 DEF NoCall, CallRecords, Types
  <2> HIDE DEF h
  <2> QED
    BY <2>1, <2>3, AsideGraph
<1>5. ASSUME Throw(c) PROVE GraphInv'
  <2> DEFINE h == [NoCall EXCEPT !.pc = "over"]
  <2>1. /\ call' = [call EXCEPT ![c] = h] /\ call[c].pc = "write"
        /\ UNCHANGED <<whinny, reactions, follow, graph, mixed>>
    BY <1>5 DEF Throw
  <2>2. h \in CallRecords /\ h.pc = "over"
    BY OverRecord
  <2> HIDE DEF h
  <2> QED
    BY <2>1, <2>2, AsideGraph
<1> QED
  BY <1>1, <1>2, <1>3, <1>4, <1>5

\* The names of the graph's items are distinct.
LEMMA Names ==
  /\ \A a, u, w : Node(a) # Reposted(u, w) /\ Node(a) # Reacted(u, w) /\ Node(a) # Follows(u, w)
  /\ \A a, b, u, w : /\ Reposted(u, w) # Reacted(a, b) /\ Reposted(u, w) # Follows(a, b)
                     /\ Reacted(u, w) # Follows(a, b)
  /\ \A u, w : Node(u) = Node(w) => u = w
  /\ \A a, b, u, w : /\ Reposted(u, w) = Reposted(a, b) => u = a /\ w = b
                     /\ Reacted(u, w) = Reacted(a, b) => u = a /\ w = b
                     /\ Follows(u, w) = Follows(a, b) => u = a /\ w = b
  BY DEF Node, Reposted, Reacted, Follows

\* With its write done, a call is about what it was about.
LEMMA SameCall ==
  ASSUME NEW p \in CallRecords, NEW h, h = [p EXCEPT !.pc = "mirror"]
  PROVE  /\ h.kind = p.kind /\ h.user = p.user /\ h.whinny = p.whinny /\ h.type = p.type
         /\ h.other = p.other /\ h.source = p.source
         /\ Touches(h) = Touches(p) /\ Owns(h) = Owns(p)
<1>1. /\ h.kind = p.kind /\ h.user = p.user /\ h.whinny = p.whinny /\ h.type = p.type
      /\ h.other = p.other /\ h.source = p.source
  BY DEF CallRecords
<1>2. Owns(h) = Owns(p)
  BY <1>1 DEF Owns
<1> QED
  BY <1>1, <1>2 DEF Touches

\* A write that makes no whinny: nodes that were there, or on their way, are still.
LEMMA NodesStay ==
  ASSUME IInv, GraphInv, NEW c \in Calls, call[c].pc = "write", NEW h \in CallRecords,
         h.pc = "mirror", call' = [call EXCEPT ![c] = h],
         graph' = graph, mixed \subseteq mixed', NEW w \in Whinnies, HasNode(w)
  PROVE  HasNode(w)'
<1>1. call \in [Calls -> CallRecords]
  BY Typed DEF IInv
<1>2. \A d \in Pending : d \in Pending' /\ call'[d] = call[d]
  BY <1>1 DEF Pending
<1> QED
  BY <1>2 DEF HasNode

LEMMA ReactWriteGraph == ASSUME IInv, GraphInv, NEW c \in Calls, ReactWrite(c) PROVE GraphInv'
<1> DEFINE p == call[c]
           h == [p EXCEPT !.pc = "mirror"]
           r == <<p.user, p.whinny>>
<1>1. /\ call' = [call EXCEPT ![c] = h] /\ UNCHANGED <<whinny, follow, graph>>
      /\ p.pc = "write" /\ mixed' = mixed \cup Swapped(p)
      /\ \/ p.kind = "react" /\ reactions' = reactions \cup {r}
         \/ p.kind = "unreact" /\ reactions' = reactions \ {r}
  BY DEF ReactWrite, Done
<1>2. h \in CallRecords /\ h.pc = "mirror" /\ p \in CallRecords /\ Shape(p)
  BY <1>1, Writer
<1>3. h.kind = p.kind /\ Touches(h) = Touches(p) /\ Owns(h) = Owns(p)
  BY <1>2, SameCall
<1>4. Owns(p) = {Reacted(p.user, p.whinny)}
  BY <1>1 DEF Owns
<1> HIDE DEF h
<1>5. reactions \subseteq Users \X Whinnies /\ r[1] = p.user /\ r[2] = p.whinny
  BY Standing
<1>6. \A q \in reactions : Reacted(q[1], q[2]) = Reacted(p.user, p.whinny) => q = r
  <2> SUFFICES ASSUME NEW q \in reactions, Reacted(q[1], q[2]) = Reacted(p.user, p.whinny)
               PROVE  q = r
    OBVIOUS
  <2>1. q[1] = p.user /\ q[2] = p.whinny
    BY Names
  <2>2. q = <<q[1], q[2]>>
    BY <1>5
  <2> QED
    BY <2>1, <2>2
<1> HIDE DEF r
<1>7. Mirrors'
  <2>1. ASSUME p.kind = "react", reactions' = reactions \cup {r}, NEW i
        PROVE  InRows(i)' <=> (InRows(i) \/ i = Reacted(p.user, p.whinny))
    BY <1>1, <1>5, <2>1 DEF InRows, Live
  <2>2. ASSUME p.kind = "unreact", reactions' = reactions \ {r}, NEW i
        PROVE  /\ i # Reacted(p.user, p.whinny) => (InRows(i)' <=> InRows(i))
               /\ i = Reacted(p.user, p.whinny) => ~InRows(i)'
    <3>1. i # Reacted(p.user, p.whinny) => (InRows(i)' <=> InRows(i))
      BY <1>1, <1>5, <2>2 DEF InRows, Live
    <3>2. ASSUME i = Reacted(p.user, p.whinny) PROVE ~InRows(i)'
      <4>1. \A q \in reactions' : i # Reacted(q[1], q[2])
        BY <1>6, <2>2, <3>2
      <4>2. /\ \A w : i # Node(w)
            /\ \A u, w : i # Reposted(u, w) /\ i # Follows(u, w)
        BY <3>2, Names
      <4> QED
        BY <4>1, <4>2 DEF InRows
    <3> QED
      BY <3>1, <3>2
  <2>3. \A i \in Items \ mixed' : /\ i \in Adds(h) => InRows(i)'
                                  /\ i \in Removes(h) => ~InRows(i)'
                                  /\ i \in Adds(h) \cup Removes(h) \/ (InRows(i)' <=> InRows(i))
    BY <1>1, <1>2, <1>3, <1>4, <2>1, <2>2, Portions
  <2> QED
    BY <1>1, <1>2, <1>3, <2>3, WriteMirrors
<1>8. Nodes'
  <2> SUFFICES ASSUME NEW w \in Whinnies, Live(w), whinny[w].type # "Repost" PROVE HasNode(w)'
    BY <1>1 DEF Nodes, Live
  <2> QED
    BY <1>1, <1>2, NodesStay DEF GraphInv, Nodes
<1>9. Deleted'
  <2>1. \A d \in Pending' : d \in Pending \/ d = c
    BY <1>1, Typed DEF Pending, IInv
  <2>2. \A d \in Calls : call'[d] = IF d = c THEN h ELSE call[d]
    BY <1>1, Typed DEF IInv
  <2> QED
    BY <1>1, <1>3, <2>1, <2>2 DEF Deleted, GraphInv
<1> QED
  BY <1>7, <1>8, <1>9 DEF GraphInv

LEMMA FollowWriteGraph == ASSUME IInv, GraphInv, NEW c \in Calls, FollowWrite(c) PROVE GraphInv'
<1> DEFINE p == call[c]
           h == [p EXCEPT !.pc = "mirror"]
           e == <<p.user, p.other>>
<1>1. /\ call' = [call EXCEPT ![c] = h] /\ UNCHANGED <<whinny, reactions, graph>>
      /\ p.pc = "write" /\ mixed' = mixed \cup Swapped(p)
      /\ \/ p.kind = "follow" /\ follow' = [follow EXCEPT ![e] = c]
         \/ p.kind = "unfollow" /\ follow' = [follow EXCEPT ![e] = None]
  BY DEF FollowWrite, Done
<1>2. h \in CallRecords /\ h.pc = "mirror" /\ p \in CallRecords /\ Shape(p)
  BY <1>1, Writer
<1>3. h.kind = p.kind /\ Touches(h) = Touches(p) /\ Owns(h) = Owns(p)
  BY <1>2, SameCall
<1>4. Owns(p) = {Follows(p.user, p.other)}
  BY <1>1 DEF Owns
<1> HIDE DEF h
<1>5. follow \in [Users \X Users -> Calls \cup {None}] /\ e \in Users \X Users /\ c # None
      /\ e[1] = p.user /\ e[2] = p.other
  BY <1>1, <1>2, Standing, NoneIsNothing DEF Shape
<1>6. \A f \in Users \X Users : Follows(f[1], f[2]) = Follows(p.user, p.other) => f = e
  <2> SUFFICES ASSUME NEW f \in Users \X Users, Follows(f[1], f[2]) = Follows(p.user, p.other)
               PROVE  f = e
    OBVIOUS
  <2>1. f[1] = p.user /\ f[2] = p.other
    BY Names
  <2> QED
    BY <2>1
<1> HIDE DEF e
<1>7. Mirrors'
  <2> PICK n : n = Follows(p.user, p.other)
    OBVIOUS
  <2>1. ASSUME NEW i, i # n PROVE InRows(i)' <=> InRows(i)
    <3>1. \A f \in Users \X Users : i = Follows(f[1], f[2]) => follow'[f] = follow[f]
      BY <1>1, <1>5, <2>1
    <3> QED
      BY <1>1, <3>1 DEF InRows, Live
  <2>2. p.kind = "follow" => InRows(n)'
    <3> SUFFICES ASSUME p.kind = "follow" PROVE InRows(n)'
      OBVIOUS
    <3>1. follow'[e] # None
      BY <1>1, <1>5
    <3>2. e \in Users \X Users /\ n = Follows(e[1], e[2])
      BY <1>5
    <3> QED
      BY <3>1, <3>2 DEF InRows
  <2>3. p.kind = "unfollow" => ~InRows(n)'
    <3>1. p.kind = "unfollow" => follow'[e] = None
      BY <1>1, <1>5
    <3>2. \A f \in Users \X Users : n = Follows(f[1], f[2]) => f = e
      BY <1>6
    <3>3. /\ \A w : n # Node(w)
          /\ \A u, w : n # Reposted(u, w) /\ n # Reacted(u, w)
      BY Names
    <3> QED
      BY <3>1, <3>2, <3>3 DEF InRows
  <2>4. Owns(h) = {n}
    BY <1>3, <1>4
  <2>5. \A i \in Items \ mixed' : /\ i \in Adds(h) => InRows(i)'
                                  /\ i \in Removes(h) => ~InRows(i)'
                                  /\ i \in Adds(h) \cup Removes(h) \/ (InRows(i)' <=> InRows(i))
    BY <1>1, <1>2, <1>3, <2>1, <2>2, <2>3, <2>4, Portions
  <2> QED
    BY <1>1, <1>2, <1>3, <2>5, WriteMirrors
<1>8. Nodes'
  <2> SUFFICES ASSUME NEW w \in Whinnies, Live(w), whinny[w].type # "Repost" PROVE HasNode(w)'
    BY <1>1 DEF Nodes, Live
  <2> QED
    BY <1>1, <1>2, NodesStay DEF GraphInv, Nodes
<1>9. Deleted'
  <2>1. \A d \in Pending' : d \in Pending \/ d = c
    BY <1>1, Typed DEF Pending, IInv
  <2>2. \A d \in Calls : call'[d] = IF d = c THEN h ELSE call[d]
    BY <1>1, Typed DEF IInv
  <2> QED
    BY <1>1, <1>3, <2>1, <2>2 DEF Deleted, GraphInv
<1> QED
  BY <1>7, <1>8, <1>9 DEF GraphInv

LEMMA CreateWriteGraph ==
  ASSUME IInv, GraphInv, NEW c \in Calls, NEW n \in Whinnies, CreateWrite(c, n) PROVE GraphInv'
<1> DEFINE p == call[c]
           s == SourceOf(p)
           g == [p EXCEPT !.whinny = n, !.source = s]
           h == [g EXCEPT !.pc = "mirror"]
           row == [at |-> "live", type |-> p.type, user |-> p.user, source |-> s, known |-> p.known]
<1>1. /\ p.pc = "write" /\ p.kind = "create" /\ whinny[n].at = "unused"
      /\ s # None => Live(s)
      /\ call' = [call EXCEPT ![c] = h]
      /\ mixed' = mixed \cup Swapped(g)
      /\ UNCHANGED <<reactions, follow, graph>>
  BY DEF CreateWrite, Done, SourceOf
<1>2. p \in CallRecords /\ Shape(p) /\ Found(p)
  BY <1>1, Writer
<1>3. /\ s \in Whinnies \cup {None} /\ (s = None <=> p.type = "Owner")
      /\ p.type # "Owner" => s = p.source
  BY <1>1, <1>2, NoneIsNothing DEF SourceOf, Shape, CallRecords
<1>4. whinny' = [whinny EXCEPT ![n] = row]
  BY <1>1, <1>2 DEF CreateWrite, SourceOf, CallRecords
<1> HIDE DEF s
<1>5. /\ g \in CallRecords /\ g.kind = "create" /\ g.whinny = n /\ g.source = s
      /\ g.type = p.type /\ g.user = p.user
  BY <1>1, <1>2, <1>3 DEF CallRecords
<1> HIDE DEF g
<1>6. h \in CallRecords /\ h.pc = "mirror"
  BY <1>5 DEF CallRecords
<1>7. /\ h.kind = "create" /\ h.whinny = n /\ h.source = s /\ h.type = p.type /\ h.user = p.user
      /\ Touches(h) = Touches(g) /\ Owns(h) = Owns(g)
  BY <1>5, SameCall
<1>8. row.at = "live" /\ row.type = p.type /\ row.user = p.user /\ row.source = s
  OBVIOUS
<1> HIDE DEF h, row
<1>9. \A w \in Whinnies : whinny'[w] = IF w = n THEN row ELSE whinny[w]
  BY <1>4, Typed DEF IInv
<1>10. \A w \in Whinnies : w # n => whinny'[w] = whinny[w] /\ (Live(w)' <=> Live(w))
  BY <1>9 DEF Live
<1>11. ~Live(n) /\ Live(n)' /\ whinny'[n].type = p.type /\ whinny'[n].user = p.user
       /\ whinny'[n].source = s
  BY <1>1, <1>8, <1>9 DEF Live
<1>12. s # None => s \in Whinnies /\ s # n /\ Live(s) /\ whinny[s].type # "Repost"
  BY <1>1, <1>2, <1>3, <1>11 DEF Found
<1>13. CASE p.type = "Repost"
  <2>1. Owns(h) = {Reposted(p.user, s)} /\ s # None
    BY <1>3, <1>7, <1>13 DEF Owns
  <2>2. Adds(h) = {Reposted(p.user, s), Node(s)}
    <3>1. Adds(h) = {Reposted(p.user, s), Node(s)} \ EdgesAt(n)
      BY <1>7, <2>1 DEF Adds, Touches
    <3>2. Reposted(p.user, s) \notin EdgesAt(n) /\ Node(s) \notin EdgesAt(n)
      BY <1>12, <2>1, Names DEF EdgesAt
    <3> QED
      BY <3>1, <3>2
  <2>3. ASSUME NEW i PROVE InRows(i)' <=> (InRows(i) \/ i = Reposted(p.user, s))
    <3>1. (\E w \in Whinnies : i = Node(w) /\ Live(w) /\ whinny[w].type # "Repost")'
          <=> (\E w \in Whinnies : i = Node(w) /\ Live(w) /\ whinny[w].type # "Repost")
      BY <1>10, <1>11, <1>13
    <3>2. (\E w \in Whinnies : /\ Live(w) /\ whinny[w].type = "Repost"
                               /\ i = Reposted(whinny[w].user, whinny[w].source))'
          <=> \/ \E w \in Whinnies : /\ Live(w) /\ whinny[w].type = "Repost"
                                     /\ i = Reposted(whinny[w].user, whinny[w].source)
              \/ i = Reposted(p.user, s)
      BY <1>10, <1>11, <1>13
    <3> QED
      BY <1>1, <3>1, <3>2 DEF InRows
  <2>4. InRows(Node(s))
    BY <1>12, <2>1 DEF InRows
  <2>5. \A i \in Items \ mixed' : /\ i \in Adds(h) => InRows(i)'
                                  /\ i \in Removes(h) => ~InRows(i)'
                                  /\ i \in Adds(h) \cup Removes(h) \/ (InRows(i)' <=> InRows(i))
    BY <1>6, <1>7, <2>2, <2>3, <2>4, Portions
  <2>6. Mirrors'
    BY <1>1, <1>5, <1>6, <1>7, <2>5, WriteMirrors
  <2> QED
    <3>1. Nodes'
      <4> SUFFICES ASSUME NEW w \in Whinnies, Live(w)', whinny'[w].type # "Repost" PROVE HasNode(w)'
        BY DEF Nodes
      <4>1. w # n /\ HasNode(w)
        BY <1>10, <1>11, <1>13 DEF GraphInv, Nodes
      <4> QED
        BY <1>1, <1>6, <4>1, NodesStay
    <3>2. Deleted'
      <4>1. \A d \in Calls : call'[d] = IF d = c THEN h ELSE call[d]
        BY <1>1, Typed DEF IInv
      <4>2. \A d \in Pending' : d # c => d \in Pending
        BY <4>1 DEF Pending
      <4>3. \A d \in Pending : call[d].kind = "delete" => call[d].whinny \in Whinnies
        BY DEF Pending, IInv, Shaped, Shape
      <4> QED
        BY <1>1, <1>7, <1>9, <4>1, <4>2, <4>3 DEF Deleted, GraphInv
    <3> QED
      BY <2>6, <3>1, <3>2 DEF GraphInv
<1>14. CASE p.type # "Repost"
  <2>1. Owns(h) = {Node(n)} \cup EdgesAt(n)
    BY <1>7, <1>14 DEF Owns
  <2>2. Adds(h) = {Node(n)} \cup (IF s # None THEN {Node(s)} ELSE {})
    <3>1. Adds(h) = (({Node(n)} \cup EdgesAt(n)) \cup (IF s # None THEN {Node(s)} ELSE {})) \ EdgesAt(n)
      BY <1>7, <2>1 DEF Adds, Touches
    <3>2. \A w : Node(w) \notin EdgesAt(n)
      BY Names DEF EdgesAt
    <3> QED
      BY <3>1, <3>2
  <2>3. ASSUME NEW i PROVE InRows(i)' <=> (InRows(i) \/ i = Node(n))
    <3>1. (\E w \in Whinnies : i = Node(w) /\ Live(w) /\ whinny[w].type # "Repost")'
          <=> \/ \E w \in Whinnies : i = Node(w) /\ Live(w) /\ whinny[w].type # "Repost"
              \/ i = Node(n)
      BY <1>10, <1>11, <1>14
    <3>2. (\E w \in Whinnies : /\ Live(w) /\ whinny[w].type = "Repost"
                               /\ i = Reposted(whinny[w].user, whinny[w].source))'
          <=> \E w \in Whinnies : /\ Live(w) /\ whinny[w].type = "Repost"
                                  /\ i = Reposted(whinny[w].user, whinny[w].source)
      BY <1>10, <1>11, <1>14
    <3> QED
      BY <1>1, <3>1, <3>2 DEF InRows
  <2>4. s # None => InRows(Node(s))
    BY <1>12 DEF InRows
  <2>5. \A i \in Items \ mixed' : /\ i \in Adds(h) => InRows(i)'
                                  /\ i \in Removes(h) => ~InRows(i)'
                                  /\ i \in Adds(h) \cup Removes(h) \/ (InRows(i)' <=> InRows(i))
    BY <1>6, <1>7, <2>2, <2>3, <2>4, Portions
  <2>6. Mirrors'
    BY <1>1, <1>5, <1>6, <1>7, <2>5, WriteMirrors
  <2>7. \A d \in Calls : call'[d] = IF d = c THEN h ELSE call[d]
    BY <1>1, Typed DEF IInv
  <2>8. Nodes'
    <3> SUFFICES ASSUME NEW w \in Whinnies, Live(w)', whinny'[w].type # "Repost" PROVE HasNode(w)'
      BY DEF Nodes
    <3>1. CASE w = n
      BY <1>6, <1>7, <1>14, <2>7, <3>1 DEF HasNode, Pending
    <3>2. CASE w # n
      <4>1. HasNode(w)
        BY <1>10, <3>2 DEF GraphInv, Nodes
      <4> QED
        BY <1>1, <1>6, <4>1, NodesStay
    <3> QED
      BY <3>1, <3>2
  <2>9. Deleted'
    <3>1. \A d \in Pending' : d # c => d \in Pending
      BY <2>7 DEF Pending
    <3>2. \A d \in Pending : call[d].kind = "delete" => call[d].whinny \in Whinnies
      BY DEF Pending, IInv, Shaped, Shape
    <3> QED
      BY <1>1, <1>7, <1>9, <2>7, <3>1, <3>2 DEF Deleted, GraphInv
  <2> QED
    BY <2>6, <2>8, <2>9 DEF GraphInv
<1> QED
  BY <1>13, <1>14

\* What goes with a whinny, apart from it, goes because its source does.
LEMMA Cascades ==
  ASSUME NEW w \in Whinnies, NEW x \in Thread(w), x # w
  PROVE  x \in Whinnies /\ whinny[x].source \in Thread(w)
<1>1. x \in Whinnies
  BY DEF Thread
<1> SUFFICES ASSUME whinny[x].source \notin Thread(w) PROVE FALSE
  BY <1>1
<1> DEFINE S == Thread(w) \ {x}
<1>2. S \in SUBSET Whinnies /\ w \in S
  BY Threads
<1>3. \A y \in Whinnies : whinny[y].source \in S => y \in S
  BY Threads
<1>4. x \in S
  BY <1>2, <1>3 DEF Thread
<1> QED
  BY <1>4

LEMMA DeleteWriteGraph == ASSUME IInv, GraphInv, NEW c \in Calls, DeleteWrite(c) PROVE GraphInv'
<1> DEFINE p == call[c]
           h == [p EXCEPT !.pc = "mirror"]
           o == p.whinny
           T == Thread(o)
           gone == [Unused EXCEPT !.at = "gone"]
<1>1. /\ p.pc = "write" /\ p.kind = "delete"
      /\ whinny' = [w \in Whinnies |-> IF w \in T THEN gone ELSE whinny[w]]
      /\ reactions' = {r \in reactions : r[2] \notin T}
      /\ call' = [call EXCEPT ![c] = h]
      /\ mixed' = mixed \cup Swapped(p) \cup Kept(o)
      /\ UNCHANGED <<follow, graph>>
  BY DEF DeleteWrite, Done
<1>2. h \in CallRecords /\ h.pc = "mirror" /\ p \in CallRecords /\ Shape(p)
  BY <1>1, Writer
<1>3. o \in Whinnies
  BY <1>1, <1>2 DEF Shape
<1>4. /\ h.kind = "delete" /\ h.whinny = o /\ Touches(h) = Touches(p)
      /\ Owns(h) = {Node(o)} \cup EdgesAt(o)
  BY <1>1, <1>2, SameCall DEF Owns
<1>5. gone.at = "gone"
  BY DEF Unused
<1>6. /\ T \subseteq Whinnies /\ o \in T
      /\ \A y \in Whinnies : whinny[y].source \in T => y \in T
      /\ \A x \in T : x # o => whinny[x].source \in T
  BY <1>3, Threads, Cascades
<1>7. /\ \A x \in T : x # o => Node(x) \in mixed' /\ EdgesAt(x) \subseteq mixed'
      /\ whinny[o].type = "Repost" => Reposted(whinny[o].user, whinny[o].source) \in mixed'
  BY <1>1 DEF Kept
<1> HIDE DEF h, gone, T, o
<1>8. \A w \in Whinnies : /\ w \in T => ~Live(w)' /\ whinny'[w].at = "gone"
                          /\ w \notin T => whinny'[w] = whinny[w] /\ (Live(w)' <=> Live(w))
  BY <1>1, <1>5 DEF Live
<1>9. \A d \in Calls : call'[d] = IF d = c THEN h ELSE call[d]
  BY <1>1, Typed DEF IInv
<1>10. reactions \subseteq Users \X Whinnies
  BY Standing
\* Rows only go, and those that do are the call's, or mixed.
<1>11. ASSUME NEW i \in Items \ mixed', i \notin Owns(h) PROVE InRows(i)' <=> InRows(i)
  <2>1. \A x \in T : i # Node(x) /\ i \notin EdgesAt(x)
    BY <1>4, <1>7, <1>11
  <2>2. \A w \in Whinnies : i = Node(w) => w \notin T
    BY <2>1
  <2>3. ASSUME NEW w \in Whinnies, whinny[w].type = "Repost",
               i = Reposted(whinny[w].user, whinny[w].source)
        PROVE  w \notin T
    <3>1. whinny[w].user \in Users
      BY <2>3 DEF IInv, Rows
    <3>2. CASE w = o
      BY <3>2, <2>3, <1>7
    <3>3. CASE w # o /\ w \in T
      BY <3>1, <3>3, <2>1, <2>3, <1>6 DEF EdgesAt
    <3> QED
      BY <3>2, <3>3
  <2>4. \A r \in reactions : i = Reacted(r[1], r[2]) => r[2] \notin T
    BY <2>1, <1>10 DEF EdgesAt
  <2>5. (\E w \in Whinnies : i = Node(w) /\ Live(w) /\ whinny[w].type # "Repost")'
        <=> (\E w \in Whinnies : i = Node(w) /\ Live(w) /\ whinny[w].type # "Repost")
    BY <1>8, <2>2
  <2>6. (\E w \in Whinnies : /\ Live(w) /\ whinny[w].type = "Repost"
                             /\ i = Reposted(whinny[w].user, whinny[w].source))'
        <=> \E w \in Whinnies : /\ Live(w) /\ whinny[w].type = "Repost"
                                /\ i = Reposted(whinny[w].user, whinny[w].source)
    BY <1>8, <2>3
  <2>7. (\E r \in reactions' : i = Reacted(r[1], r[2])) <=> \E r \in reactions : i = Reacted(r[1], r[2])
    BY <1>1, <2>4
  <2> QED
    BY <1>1, <2>5, <2>6, <2>7 DEF InRows
<1>12. ASSUME NEW i \in Owns(h) PROVE ~InRows(i)'
  <2>1. \A w \in Whinnies : Live(w)' => w \notin T /\ whinny'[w] = whinny[w] /\ whinny[w].source # o
    BY <1>6, <1>8
  <2>2. \A r \in reactions' : r[2] # o
    BY <1>1, <1>6
  <2>3. CASE i = Node(o)
    <3>1. \A w \in Whinnies : i = Node(w) => w = o
      BY <2>3, Names
    <3>2. \A u, w : i # Reposted(u, w) /\ i # Reacted(u, w) /\ i # Follows(u, w)
      BY <2>3, Names
    <3> QED
      BY <1>6, <2>1, <3>1, <3>2 DEF InRows
  <2>4. ASSUME NEW u \in Users, i = Reposted(u, o) PROVE ~InRows(i)'
    <3>1. /\ \A w : i # Node(w)
          /\ \A v, w : i # Reacted(v, w) /\ i # Follows(v, w)
      BY <2>4, Names
    <3>2. \A w \in Whinnies : i = Reposted(whinny[w].user, whinny[w].source) => whinny[w].source = o
      BY <2>4 DEF Reposted
    <3> QED
      BY <2>1, <3>1, <3>2 DEF InRows
  <2>5. ASSUME NEW u \in Users, i = Reacted(u, o) PROVE ~InRows(i)'
    <3>1. /\ \A w : i # Node(w)
          /\ \A v, w : i # Reposted(v, w) /\ i # Follows(v, w)
      BY <2>5, Names
    <3>2. \A r : i = Reacted(r[1], r[2]) => r[2] = o
      BY <2>5 DEF Reacted
    <3> QED
      BY <2>2, <3>1, <3>2 DEF InRows
  <2> QED
    BY <1>4, <2>3, <2>4, <2>5 DEF EdgesAt
<1>13. Mirrors'
  <2>1. Adds(h) = {} /\ Removes(h) = Owns(h)
    BY <1>2, <1>4, Portions
  <2>2. \A i \in Items \ mixed' : /\ i \in Adds(h) => InRows(i)'
                                  /\ i \in Removes(h) => ~InRows(i)'
                                  /\ i \in Adds(h) \cup Removes(h) \/ (InRows(i)' <=> InRows(i))
    BY <1>11, <1>12, <2>1
  <2> QED
    BY <1>1, <1>2, <1>4, <2>2, WriteMirrors
<1>14. Nodes'
  <2> SUFFICES ASSUME NEW w \in Whinnies, Live(w)', whinny'[w].type # "Repost" PROVE HasNode(w)'
    BY DEF Nodes
  <2>1. HasNode(w)
    BY <1>8 DEF GraphInv, Nodes
  <2> QED
    BY <1>1, <1>2, <2>1, NodesStay
<1>15. Deleted'
  <2>1. \A d \in Pending' : d # c => d \in Pending
    BY <1>9 DEF Pending
  <2>2. \A d \in Pending : call[d].kind = "delete" => call[d].whinny \in Whinnies
    BY DEF Pending, IInv, Shaped, Shape
  <2>3. Pending' \subseteq Calls
    BY DEF Pending
  <2> SUFFICES ASSUME NEW d \in Pending', call'[d].kind = "delete" PROVE whinny'[call'[d].whinny].at = "gone"
    BY DEF Deleted
  <2>4. CASE d = c
    BY <1>3, <1>4, <1>6, <1>8, <1>9, <2>3, <2>4
  <2>5. CASE d # c
    <3>1. call'[d] = call[d] /\ call[d].whinny \in Whinnies /\ whinny[call[d].whinny].at = "gone"
      BY <1>9, <2>1, <2>2, <2>3, <2>5 DEF Deleted, GraphInv
    <3> QED
      BY <1>8, <3>1
  <2> QED
    BY <2>4, <2>5
<1> QED
  BY <1>13, <1>14, <1>15 DEF GraphInv

-----------------------------------------------------------------------------
(* The calls to the graph.                                                 *)

\* The end of a call: one fewer under way, the rows as they were.
LEMMA Ends ==
  ASSUME IInv, NEW c \in Pending, UNCHANGED <<whinny, reactions, follow>>,
         call' = [call EXCEPT ![c] = [NoCall EXCEPT !.pc = "over"]]
  PROVE  /\ Pending' = Pending \ {c} /\ \A d \in Pending' : call'[d] = call[d]
         /\ \A i : InRows(i)' <=> InRows(i)
<1>1. call \in [Calls -> CallRecords] /\ c \in Calls
  BY Typed DEF IInv, Pending
<1>2. \A d \in Calls : call'[d] = IF d = c THEN [NoCall EXCEPT !.pc = "over"] ELSE call[d]
  BY <1>1
<1>3. [NoCall EXCEPT !.pc = "over"].pc = "over"
  BY OverRecord
<1>4. Pending' = Pending \ {c} /\ \A d \in Pending' : call'[d] = call[d]
  BY <1>2, <1>3 DEF Pending
<1>5. \A i : InRows(i)' <=> InRows(i)
  BY DEF InRows, Live
<1> QED
  BY <1>4, <1>5

\* An item that a call adds or takes has, once the call is through, what its rows say.
LEMMA MirrorSettles ==
  ASSUME IInv, GraphInv, NEW c \in Pending, graph' \in Mirrored(call[c]), NEW i \in Items \ mixed
  PROVE  /\ i \in Adds(call[c]) \cup Removes(call[c]) => (i \in graph' <=> InRows(i))
         /\ i \notin Adds(call[c]) \cup Removes(call[c]) => (i \in graph' <=> i \in graph)
<1> DEFINE h == call[c]
<1>1. h \in CallRecords /\ Shape(h) /\ h.pc = "mirror"
  BY Typed DEF Pending, IInv, Shaped
<1>2. /\ i \in Adds(h) => InRows(i)
      /\ i \in Removes(h) => ~InRows(i)
      /\ \A d \in Pending : c # d /\ i \in Touches(h) /\ i \in Touches(call[d]) => h.kind = "create"
  BY DEF GraphInv, Mirrors, Adding, Removing, Shared
<1>3. h.kind \in {"create", "delete", "react", "unreact", "follow", "unfollow"}
  BY <1>1 DEF CallRecords
<1>4. /\ Owns(h) \subseteq Touches(h)
      /\ h.kind = "create" => Removes(h) = {}
      /\ h.kind \in {"react", "follow"} => Adds(h) = Owns(h) /\ Removes(h) = {}
      /\ h.kind \in {"delete", "unreact", "unfollow"} => Removes(h) = Owns(h) /\ Adds(h) = {}
  BY <1>1, Portions
<1> HIDE DEF h
<1>5. CASE h.kind = "create"
  <2>1. graph' = graph \cup Adds(h)
    BY <1>5 DEF Mirrored, Adds, h
  <2> QED
    BY <1>2, <1>4, <1>5, <2>1 DEF h
<1>6. CASE h.kind \in {"delete", "unreact", "unfollow"}
  <2>1. graph' = graph \ Owns(h)
    BY <1>6 DEF Mirrored, h
  <2> QED
    BY <1>2, <1>4, <1>6, <2>1 DEF h
<1>7. CASE h.kind = "follow"
  <2>1. graph' = graph \cup Owns(h)
    BY <1>7 DEF Mirrored, h
  <2> QED
    BY <1>2, <1>4, <1>7, <2>1 DEF h
\* A reaction whose whinny has no node: its create is lost, or under way with it.
<1>8. CASE h.kind = "react"
  <2>1. Owns(h) = {Reacted(h.user, h.whinny)}
    BY <1>8 DEF Owns
  <2>2. h.user \in Users /\ h.whinny \in Whinnies
    BY <1>1, <1>8 DEF Shape
  <2>3. ASSUME i \in Owns(h) PROVE Node(h.whinny) \in graph
    <3>1. i = Reacted(h.user, h.whinny) /\ InRows(i)
      BY <1>2, <1>4, <1>8, <2>1, <2>3
    <3>2. PICK r \in reactions : i = Reacted(r[1], r[2])
      BY <3>1, Names DEF InRows
    <3>3. r[2] = h.whinny
      BY <3>1, <3>2 DEF Reacted
    <3>4. Live(h.whinny) /\ whinny[h.whinny].type # "Repost"
      BY <3>2, <3>3, Standing
    <3>5. HasNode(h.whinny)
      BY <2>2, <3>4 DEF GraphInv, Nodes
    <3>6. i \in EdgesAt(h.whinny)
      BY <2>2, <3>1 DEF EdgesAt
    <3>7. ASSUME NEW d \in Pending, call[d].kind = "create", call[d].type # "Repost",
                 call[d].whinny = h.whinny
          PROVE  FALSE
      <4>1. i \in Touches(call[d]) /\ d # c
        BY <1>8, <3>6, <3>7 DEF Touches, Owns, h
      <4>2. i \in Touches(h)
        BY <1>4, <2>3
      <4> QED
        BY <1>2, <1>8, <4>1, <4>2
    <3> QED
      BY <3>5, <3>6, <3>7 DEF HasNode
  <2>4. graph' = graph \cup Owns(h) \/ (graph' = graph /\ Node(h.whinny) \notin graph)
    BY <1>8 DEF Mirrored, h
  <2> QED
    BY <1>2, <1>4, <1>8, <2>3, <2>4 DEF h
<1> QED
  BY <1>3, <1>5, <1>6, <1>7, <1>8

\* One call fewer, and what the rest is about stays right.
LEMMA FewerMirrors ==
  ASSUME IInv, GraphInv, NEW c \in Pending, UNCHANGED <<whinny, reactions, follow>>,
         call' = [call EXCEPT ![c] = [NoCall EXCEPT !.pc = "over"]], mixed \subseteq mixed',
         \A i \in Items \ mixed' :
           (\A d \in Pending \ {c} : i \notin Adds(call[d]) \cup Removes(call[d]))
           => (i \in graph' <=> InRows(i))
  PROVE  Mirrors' /\ Deleted'
<1>1. /\ Pending' = Pending \ {c} /\ \A d \in Pending' : call'[d] = call[d]
      /\ \A i : InRows(i)' <=> InRows(i)
  BY Ends
<1>2. Mirrors'
  <2> SUFFICES ASSUME NEW i \in Items \ mixed'
               PROVE  (Shared(i) /\ Adding(i) /\ Removing(i) /\ Quiet(i))'
    BY DEF Mirrors
  <2>1. Shared(i) /\ Adding(i) /\ Removing(i)
    BY DEF GraphInv, Mirrors
  <2>2. Shared(i)'
    BY <1>1, <2>1 DEF Shared
  <2>3. Adding(i)' /\ Removing(i)'
    BY <1>1, <2>1 DEF Adding, Removing
  <2>4. Quiet(i)'
    BY <1>1 DEF Quiet
  <2> QED
    BY <2>2, <2>3, <2>4
<1>3. Deleted'
  BY <1>1 DEF GraphInv, Deleted
<1> QED
  BY <1>2, <1>3

LEMMA MirrorGraph == ASSUME IInv, GraphInv, NEW c \in Calls, Mirror(c) PROVE GraphInv'
<1>1. /\ c \in Pending /\ graph' \in Mirrored(call[c])
      /\ call' = [call EXCEPT ![c] = [NoCall EXCEPT !.pc = "over"]]
      /\ UNCHANGED <<whinny, reactions, follow, mixed>>
  BY DEF Mirror, Pending
<1>2. Mirrors' /\ Deleted'
  <2>1. ASSUME NEW i \in Items \ mixed',
               \A d \in Pending \ {c} : i \notin Adds(call[d]) \cup Removes(call[d])
        PROVE  i \in graph' <=> InRows(i)
    <3>1. CASE i \in Adds(call[c]) \cup Removes(call[c])
      BY <1>1, <3>1, MirrorSettles
    <3>2. CASE i \notin Adds(call[c]) \cup Removes(call[c])
      <4>1. i \in graph <=> InRows(i)
        BY <1>1, <2>1, <3>2 DEF GraphInv, Mirrors, Quiet
      <4> QED
        BY <1>1, <3>2, <4>1, MirrorSettles
    <3> QED
      BY <3>1, <3>2
  <2> QED
    BY <1>1, <2>1, FewerMirrors
<1>3. Nodes'
  <2> SUFFICES ASSUME NEW w \in Whinnies, Live(w), whinny[w].type # "Repost" PROVE HasNode(w)'
    BY <1>1 DEF Nodes, Live
  <2>1. HasNode(w)
    BY DEF GraphInv, Nodes
  <2>2. Pending' = Pending \ {c} /\ \A d \in Pending' : call'[d] = call[d]
    BY <1>1, Ends
  <2> DEFINE h == call[c]
  <2>3. h \in CallRecords /\ Shape(h) /\ h.pc = "mirror"
    BY <1>1, Typed DEF Pending, IInv, Shaped
  <2>4. CASE Node(w) \in graph
    <3>1. Node(w) \in Owns(h) => h.kind # "delete"
      <4> SUFFICES ASSUME h.kind = "delete", Node(w) \in Owns(h) PROVE FALSE
        OBVIOUS
      <4>1. Node(w) \in {Node(h.whinny)} \cup EdgesAt(h.whinny)
        BY DEF Owns
      <4>2. h.whinny = w
        BY <4>1, Names DEF EdgesAt
      <4> QED
        BY <1>1, <4>2 DEF GraphInv, Deleted, Live
    <3>2. h.kind \in {"unreact", "unfollow"} => Node(w) \notin Owns(h)
      BY Names DEF Owns
    <3>3. Node(w) \in graph'
      BY <1>1, <2>3, <2>4, <3>1, <3>2 DEF Mirrored, CallRecords
    <3> QED
      BY <3>3 DEF HasNode
  <2>5. ASSUME h.kind = "create", h.type # "Repost", h.whinny = w PROVE Node(w) \in graph'
    <3>1. Node(w) \in Touches(h) \ EdgesAt(w)
      BY <2>5, Names DEF Touches, Owns, EdgesAt
    <3> QED
      BY <1>1, <2>5, <3>1 DEF Mirrored
  <2>6. CASE \E d \in Pending : /\ call[d].kind = "create" /\ call[d].type # "Repost"
                                /\ call[d].whinny = w
    <3>1. PICK d \in Pending : /\ call[d].kind = "create" /\ call[d].type # "Repost"
                               /\ call[d].whinny = w
      BY <2>6
    <3>2. CASE d = c
      BY <2>5, <3>1, <3>2 DEF HasNode
    <3>3. CASE d # c
      BY <2>2, <3>1, <3>3 DEF HasNode
    <3> QED
      BY <3>2, <3>3
  <2>7. CASE {Node(w)} \cup EdgesAt(w) \subseteq mixed
    BY <1>1, <2>7 DEF HasNode
  <2> QED
    BY <2>1, <2>4, <2>6, <2>7 DEF HasNode
<1> QED
  BY <1>2, <1>3 DEF GraphInv

LEMMA MirrorFailsGraph == ASSUME IInv, GraphInv, NEW c \in Calls, MirrorFails(c) PROVE GraphInv'
<1>1. /\ c \in Pending /\ mixed' = mixed \cup Owns(call[c])
      /\ call' = [call EXCEPT ![c] = [NoCall EXCEPT !.pc = "over"]]
      /\ UNCHANGED <<whinny, reactions, follow, graph>>
  BY DEF MirrorFails, Pending
<1> DEFINE h == call[c]
<1>2. h \in CallRecords /\ Shape(h) /\ h.pc = "mirror"
  BY <1>1, Typed DEF Pending, IInv, Shaped
\* What is not its own, the source's node, is there or on its way.
<1>3. Mirrors' /\ Deleted'
  <2>1. ASSUME NEW i \in Items \ mixed',
               \A d \in Pending \ {c} : i \notin Adds(call[d]) \cup Removes(call[d])
        PROVE  i \in graph' <=> InRows(i)
    <3>1. i \notin mixed /\ i \notin Owns(h)
      BY <1>1
    <3>2. CASE i \notin Adds(h) \cup Removes(h)
      BY <1>1, <2>1, <3>2 DEF GraphInv, Mirrors, Quiet
    <3>3. CASE i \in Adds(h) \cup Removes(h)
      <4>1. h.kind = "create" /\ h.source # None /\ i = Node(h.source) /\ i \in Adds(h)
        BY <1>2, <3>1, <3>3, Portions DEF Touches, CallRecords
      <4>2. InRows(i)
        BY <1>1, <3>1, <4>1 DEF GraphInv, Mirrors, Adding
      <4>3. PICK w \in Whinnies : i = Node(w) /\ Live(w) /\ whinny[w].type # "Repost"
        BY <4>1, <4>2, Names DEF InRows
      <4>4. HasNode(w)
        BY <4>3 DEF GraphInv, Nodes
      <4>5. ASSUME NEW d \in Pending, call[d].kind = "create", call[d].type # "Repost",
                   call[d].whinny = w
            PROVE  i \in Owns(call[d]) /\ i \in Adds(call[d])
        BY <4>3, <4>5, Names DEF Adds, Touches, Owns, EdgesAt
      <4>6. i \in graph
        BY <2>1, <3>1, <4>3, <4>4, <4>5 DEF HasNode
      <4> QED
        BY <1>1, <4>2, <4>6
    <3> QED
      BY <3>2, <3>3
  <2> QED
    BY <1>1, <2>1, FewerMirrors
<1>4. Nodes'
  <2> SUFFICES ASSUME NEW w \in Whinnies, Live(w), whinny[w].type # "Repost" PROVE HasNode(w)'
    BY <1>1 DEF Nodes, Live
  <2>1. HasNode(w)
    BY DEF GraphInv, Nodes
  <2>2. Pending' = Pending \ {c} /\ \A d \in Pending' : call'[d] = call[d]
    BY <1>1, Ends
  <2>3. CASE \E d \in Pending : /\ call[d].kind = "create" /\ call[d].type # "Repost"
                                /\ call[d].whinny = w
    <3>1. PICK d \in Pending : /\ call[d].kind = "create" /\ call[d].type # "Repost"
                               /\ call[d].whinny = w
      BY <2>3
    <3>2. CASE d = c
      <4>1. Owns(h) = {Node(w)} \cup EdgesAt(w)
        BY <3>1, <3>2 DEF Owns
      <4> QED
        BY <1>1, <4>1 DEF HasNode
    <3>3. CASE d # c
      BY <2>2, <3>1, <3>3 DEF HasNode
    <3> QED
      BY <3>2, <3>3
  <2>4. CASE Node(w) \in graph \/ {Node(w)} \cup EdgesAt(w) \subseteq mixed
    BY <1>1, <2>4 DEF HasNode
  <2> QED
    BY <2>1, <2>3, <2>4 DEF HasNode
<1> QED
  BY <1>3, <1>4 DEF GraphInv

-----------------------------------------------------------------------------
LEMMA NextGraph == IInv /\ GraphInv /\ [Next]_vars => GraphInv'
<1> SUFFICES ASSUME IInv, GraphInv, [Next]_vars PROVE GraphInv'
  OBVIOUS
<1>1. CASE UNCHANGED vars
  <2>1. UNCHANGED <<whinny, reactions, follow, graph, call, mixed>>
    BY <1>1 DEF vars
  <2>2. Pending' = Pending /\ (\A i : InRows(i)' <=> InRows(i))
    BY <2>1 DEF Pending, InRows, Live
  <2>3. Mirrors' /\ Deleted'
    BY <2>1, <2>2 DEF GraphInv, Mirrors, Shared, Adding, Removing, Quiet, Deleted
  <2>4. Nodes'
    BY <2>1, <2>2 DEF GraphInv, Nodes, HasNode, Live
  <2> QED
    BY <2>3, <2>4 DEF GraphInv
<1>2. CASE Next
  <2> PICK c \in Calls :
      \/ \E u \in Users, t \in Types, s \in Whinnies \cup {None} : CreateRead(c, u, t, s)
      \/ \E w \in Whinnies : CreateWrite(c, w)
      \/ \E u \in Users, w \in Whinnies : DeleteRead(c, u, w)
      \/ \E u \in Users, w \in Whinnies, k \in {"react", "unreact"} : ReactRead(c, u, w, k)
      \/ \E u, v \in Users, k \in {"follow", "unfollow"} : FollowRead(c, u, v, k)
      \/ DeleteWrite(c) \/ ReactWrite(c) \/ FollowWrite(c)
      \/ Throw(c) \/ Mirror(c) \/ MirrorFails(c)
    BY <1>2 DEF Next
  <2>1. CASE \/ \E u \in Users, t \in Types, s \in Whinnies \cup {None} : CreateRead(c, u, t, s)
             \/ \E u \in Users, w \in Whinnies : DeleteRead(c, u, w)
             \/ \E u \in Users, w \in Whinnies, k \in {"react", "unreact"} : ReactRead(c, u, w, k)
             \/ \E u, v \in Users, k \in {"follow", "unfollow"} : FollowRead(c, u, v, k)
             \/ Throw(c)
    BY <2>1, ReadsGraph
  <2>2. CASE \E w \in Whinnies : CreateWrite(c, w)
    BY <2>2, CreateWriteGraph
  <2>3. CASE DeleteWrite(c) \/ ReactWrite(c) \/ FollowWrite(c)
    BY <2>3, DeleteWriteGraph, ReactWriteGraph, FollowWriteGraph
  <2>4. CASE Mirror(c) \/ MirrorFails(c)
    BY <2>4, MirrorGraph, MirrorFailsGraph
  <2> QED
    BY <2>1, <2>2, <2>3, <2>4
<1> QED
  BY <1>1, <1>2

\* What the graph has of a row is right once no call about it is under way, unless
\* a call failed, two could be swapped, or the row went along with another
\* (silentCall in whinnies.service and profile-users.service).
THEOREM GraphCorrect == Spec => []GraphAgrees
<1>1. IInv /\ GraphInv => GraphAgrees
  <2> SUFFICES ASSUME IInv, GraphInv, NEW i \in Items \ mixed,
                      \A c \in Pending : i \notin Touches(call[c])
               PROVE  i \in graph <=> InRows(i)
    BY DEF GraphAgrees
  <2>1. \A c \in Pending : call[c] \in CallRecords
    BY Typed DEF Pending, IInv
  <2>2. \A c \in Pending : i \notin Adds(call[c]) \cup Removes(call[c])
    BY <2>1, Portions
  <2> QED
    BY <2>2 DEF GraphInv, Mirrors, Quiet
<1>2. Init => IInv /\ GraphInv
  BY InitInv, InitGraph
<1>3. IInv /\ GraphInv /\ [Next]_vars => IInv' /\ GraphInv'
  BY NextInv, NextGraph
<1> QED
  BY <1>1, <1>2, <1>3, PTL DEF Spec
-----------------------------------------------------------------------------
(* Paging: the lists of whinnies, of relationships and of the rest, read   *)
(* page after page.                                                        *)

-----------------------------------------------------------------------------
(* The first rows of a set.                                                *)

\* Rows are finitely many.
LEMMA IdsFinite ==
  ASSUME NEW S \in SUBSET Ids
  PROVE  IsFiniteSet(S) /\ Cardinality(S) \in Nat
<1>1. IsFiniteSet(Ids)
  BY PagingAssumption, FS_Interval DEF Ids
<1>2. IsFiniteSet(S)
  BY <1>1, FS_Subset
<1> QED BY <1>2, FS_CardinalityType

\* A page that is not full is all there is.
LEMMA NotFull ==
  ASSUME NEW n \in Nat, NEW S, NEW B \in FirstOf(n, S), Cardinality(B) < n
  PROVE  B = S
BY DEF FirstOf

\* The first n, and then the first m of the rest, are the first n and what m gave.
LEMMA FirstThenFirst ==
  ASSUME NEW S \in SUBSET Ids, NEW n \in Nat, NEW m \in Nat,
         NEW B \in FirstOf(n, S), NEW P \in FirstOf(m, S \ B)
  PROVE  B \cup P \in FirstOf(n + Cardinality(P), S) /\ Cardinality(P) \in Nat
<1>1. B \subseteq S /\ P \subseteq S \ B
  BY DEF FirstOf
<1>2. /\ IsFiniteSet(B) /\ Cardinality(B) \in Nat
      /\ IsFiniteSet(P) /\ Cardinality(P) \in Nat
  BY <1>1, IdsFinite
<1>3. Cardinality(B \cup P) = Cardinality(B) + Cardinality(P)
  <2>1. B \cap P = {}
    BY <1>1
  <2>2. Cardinality(B \cup P) = Cardinality(B) + Cardinality(P) - Cardinality({})
    BY <1>2, <2>1, FS_Union
  <2> QED BY <1>2, <2>2, FS_EmptySet
<1>4. \A r \in B \cup P : ahead[r] \cap S \subseteq B \cup P
  <2>1. ASSUME NEW r \in B PROVE ahead[r] \cap S \subseteq B
    BY DEF FirstOf
  <2>2. ASSUME NEW r \in P PROVE ahead[r] \cap (S \ B) \subseteq P
    BY DEF FirstOf
  <2> QED BY <2>1, <2>2
<1>5. CASE Cardinality(B) = n
  <2>1. Cardinality(B \cup P) = n + Cardinality(P)
    BY <1>3, <1>5
  <2> QED BY <1>1, <1>2, <1>4, <2>1 DEF FirstOf
<1>6. CASE B = S /\ Cardinality(B) < n
  <2>1. P = {} /\ B \cup P = S
    BY <1>1, <1>6
  <2>2. Cardinality(B \cup P) < n + Cardinality(P)
    BY <1>2, <1>3, <1>6
  <2> QED BY <1>1, <1>2, <1>4, <2>1, <2>2 DEF FirstOf
<1> QED BY <1>5, <1>6 DEF FirstOf

\* A first part of one row holds no row that has another of the set ahead of it.
LEMMA FirstHead ==
  ASSUME NEW S \in SUBSET Ids, NEW B \in FirstOf(1, S), NEW c \in S, NEW r \in S,
         c \in ahead[r], c # r
  PROVE  r \notin B
<1> SUFFICES ASSUME r \in B PROVE FALSE
  OBVIOUS
<1>1. c \in B /\ B \subseteq S
  BY DEF FirstOf
<1>2. IsFiniteSet(B) /\ Cardinality(B) \in Nat
  BY <1>1, IdsFinite
<1>3. Cardinality(B) <= 1
  BY <1>2 DEF FirstOf
<1>4. {c, r} \subseteq B /\ Cardinality({c, r}) = 2
  <2>1. Cardinality({c}) = 1 /\ IsFiniteSet({c})
    BY FS_Singleton
  <2>2. Cardinality({c} \cup {r}) = 2
    <3>1. r \notin {c}
      OBVIOUS
    <3>2. Cardinality({c} \cup {r}) = Cardinality({c}) + 1
      BY <2>1, <3>1, FS_AddElement
    <3> QED BY <2>1, <3>2
  <2>3. {c} \cup {r} = {c, r}
    OBVIOUS
  <2> QED BY <1>1, <2>2, <2>3
<1>5. Cardinality({c, r}) <= Cardinality(B)
  BY <1>2, <1>4, FS_Subset
<1> QED BY <1>2, <1>3, <1>4, <1>5

\* And it is not empty if the set is not.
LEMMA FirstOne ==
  ASSUME NEW S \in SUBSET Ids, NEW B \in FirstOf(1, S), S # {}
  PROVE  B # {}
<1> SUFFICES ASSUME B = {} PROVE FALSE
  OBVIOUS
<1>1. Cardinality(B) = 0
  BY FS_EmptySet
<1> QED BY <1>1 DEF FirstOf

-----------------------------------------------------------------------------
(* The order.                                                              *)

\* An order of the rows in R, by who is ahead in a, in which several may share a
\* place; and one in which none do.
Weak(R, a) ==
  /\ a \in [Ids -> SUBSET R] /\ \A r \in Ids \ R : a[r] = {}
  /\ \A r \in R : \A x \in a[r] : r \notin a[x] /\ \A y \in R : x \in a[y] \/ y \in a[r]
NoneShare(R, a) == \A r, x \in R : x = r \/ x \in a[r] \/ r \in a[x]

LEMMA WeakIsOrder ==
  ASSUME NEW R \in SUBSET Ids, NEW a, Weak(R, a)
  PROVE  /\ \A r \in R : r \notin a[r]
         /\ \A r \in R : \A x \in a[r] : x \in R /\ a[x] \subseteq a[r]
BY DEF Weak

LEMMA TypesAreWeak ==
  PagingTypeOK => /\ rows \subseteq Ids /\ Weak(rows, ahead)
                  /\ list = "reactions" => NoneShare(rows, ahead)
  BY PagingAssumption DEF PagingTypeOK, Weak, NoneShare, Ids

\* What is behind a gap has all of the gap ahead of it, and the rows that r is to
\* share its place with.
LEMMA GapFits ==
  ASSUME rows \subseteq Ids, Weak(rows, ahead), NEW r \in Ids, NEW S \in Gaps(r), NEW T \in Sharing(r, S)
  PROVE  /\ S \subseteq rows \ {r} /\ T \subseteq rows \ (S \cup {r})
         /\ \A t \in T : ahead[t] \ {r} = S
         /\ \A y \in rows \ (S \cup T \cup {r}) : S \cup T \subseteq ahead[y]
         /\ \A x \in S : ahead[x] \ {r} \subseteq S
         /\ list = "reactions" => T = {}
<1>1. /\ S \subseteq rows \ {r} /\ T \subseteq rows \ (S \cup {r})
      /\ \A t \in T : ahead[t] \ {r} = S
      /\ T # {} => T = {x \in rows \ (S \cup {r}) : ahead[x] \ {r} = S}
      /\ list = "reactions" => T = {}
  BY DEF Gaps, Sharing, Weak
<1>2. ASSUME NEW y \in rows \ (S \cup {r}) PROVE S \subseteq ahead[y]
  <2>1. CASE S = rows \ {r}
    BY <1>2, <2>1
  <2>2. ASSUME NEW x \in rows \ {r}, S = ahead[x] \ {r} PROVE S \subseteq ahead[y]
    <3>1. y \notin ahead[x]
      BY <1>2, <2>2
    <3> QED BY <1>2, <2>2, <3>1 DEF Weak
  <2> QED BY <2>1, <2>2 DEF Gaps
<1>3. ASSUME NEW y \in rows \ (S \cup T \cup {r}), NEW t \in T PROVE t \in ahead[y]
  <2>1. ahead[y] \ {r} # S /\ S \subseteq ahead[y]
    BY <1>1, <1>2, <1>3
  <2>2. PICK z \in ahead[y] : z \notin S /\ z # r
    BY <1>1, <2>1
  <2>3. z \notin ahead[t] /\ t \in rows
    BY <1>1, <2>2
  <2> QED BY <1>3, <2>2, <2>3 DEF Weak
<1>4. ASSUME NEW x \in S PROVE ahead[x] \ {r} \subseteq S
  <2>1. CASE S = rows \ {r}
    BY <1>1, <2>1 DEF Weak
  <2>2. ASSUME NEW y \in rows \ {r}, S = ahead[y] \ {r} PROVE ahead[x] \ {r} \subseteq S
    BY <1>4, <2>2, WeakIsOrder
  <2> QED BY <2>1, <2>2 DEF Gaps
<1> QED BY <1>1, <1>2, <1>3, <1>4

\* A row put into a gap of the order is in it, and the others are as they were.
LEMMA PlacedWeak ==
  ASSUME rows \subseteq Ids, Weak(rows, ahead), NEW r \in Ids, NEW S \in Gaps(r), NEW T \in Sharing(r, S)
  PROVE  /\ Weak(rows \cup {r}, Placed(r, S, T))
         /\ \A x, y \in rows \ {r} : y \in Placed(r, S, T)[x] <=> y \in ahead[x]
         /\ list = "reactions" /\ NoneShare(rows, ahead) =>
              NoneShare(rows \cup {r}, Placed(r, S, T))
<1> DEFINE a == Placed(r, S, T)
           R == rows \cup {r}
<1>1. /\ S \subseteq rows \ {r} /\ T \subseteq rows \ (S \cup {r})
      /\ \A t \in T : ahead[t] \ {r} = S
      /\ \A y \in rows \ (S \cup T \cup {r}) : S \cup T \subseteq ahead[y]
      /\ \A x \in S : ahead[x] \ {r} \subseteq S
      /\ list = "reactions" => T = {}
  BY GapFits
<1>2. a[r] = S
  BY DEF Placed
<1>3. \A x \in Ids \ {r} :
        a[x] = IF x \in rows \ (S \cup T) THEN ahead[x] \cup {r} ELSE ahead[x] \ {r}
  BY DEF Placed
<1>4. a \in [Ids -> SUBSET R]
  BY <1>1, <1>2, <1>3 DEF Placed, Weak
<1>5. \A x \in rows \ {r} : /\ r \in a[x] <=> x \notin S \cup T
                            /\ \A y \in rows \ {r} : y \in a[x] <=> y \in ahead[x]
  BY <1>3
<1>6. \A x \in Ids \ R : a[x] = {}
  BY <1>3 DEF Weak
<1> HIDE DEF a
<1>7. ASSUME NEW y \in R, NEW x \in a[y] PROVE y \notin a[x]
  <2>1. x \in R
    BY <1>4, <1>7
  <2>2. CASE y = r
    BY <1>1, <1>2, <1>5, <1>7, <2>2
  <2>3. CASE x = r /\ y # r
    BY <1>1, <1>2, <1>5, <1>7, <2>3
  <2>4. CASE x # r /\ y # r
    BY <1>5, <1>7, <2>1, <2>4 DEF Weak
  <2> QED BY <2>2, <2>3, <2>4
<1>8. ASSUME NEW y \in R, NEW x \in a[y], NEW z \in R PROVE x \in a[z] \/ z \in a[y]
  <2>1. x \in R
    BY <1>4, <1>8
  <2>2. CASE y = r
    <3>1. x \in S /\ x \in rows \ {r}
      BY <1>1, <1>2, <1>8, <2>2
    <3>2. CASE z = r
      BY <1>2, <3>1, <3>2
    <3>3. CASE z \in S
      BY <1>2, <2>2, <3>3
    <3>4. CASE z \notin S /\ z # r
      BY <1>1, <1>5, <3>1, <3>4
    <3> QED BY <3>2, <3>3, <3>4
  <2>3. CASE x = r /\ y # r
    <3>1. y \in rows \ (S \cup T \cup {r})
      BY <1>5, <1>8, <2>3
    <3>2. CASE z = r
      BY <1>8, <2>3, <3>2
    <3>3. CASE z # r /\ z \in S \cup T
      BY <1>1, <1>5, <3>1, <3>3
    <3>4. CASE z # r /\ z \notin S \cup T
      BY <1>5, <2>3, <3>4
    <3> QED BY <3>2, <3>3, <3>4
  <2>4. CASE x # r /\ y # r /\ z = r
    <3>1. x \in ahead[y] /\ x \in rows \ {r} /\ y \in rows \ {r}
      BY <1>5, <1>8, <2>1, <2>4
    <3>2. CASE x \in S
      BY <1>2, <2>4, <3>2
    <3>3. CASE x \notin S
      <4>1. y \notin S \cup T
        BY <1>1, <3>1, <3>3
      <4> QED BY <1>5, <2>4, <3>1, <4>1
    <3> QED BY <3>2, <3>3
  <2>5. CASE x # r /\ y # r /\ z # r
    <3>1. x \in rows \ {r} /\ y \in rows \ {r} /\ z \in rows \ {r}
      BY <2>1, <2>5
    <3> QED BY <1>5, <1>8, <3>1 DEF Weak
  <2> QED BY <2>2, <2>3, <2>4, <2>5
<1>9. Weak(R, a)
  BY <1>4, <1>6, <1>7, <1>8 DEF Weak
<1>10. ASSUME list = "reactions", NoneShare(rows, ahead) PROVE NoneShare(R, a)
  <2>1. ASSUME NEW x \in rows \ {r} PROVE x \in a[r] \/ r \in a[x]
    BY <1>1, <1>2, <1>5, <1>10, <2>1
  <2>2. ASSUME NEW x \in rows \ {r}, NEW y \in rows \ {r}, x # y PROVE x \in a[y] \/ y \in a[x]
    BY <1>5, <1>10, <2>2 DEF NoneShare
  <2> QED BY <2>1, <2>2 DEF NoneShare
<1> QED BY <1>5, <1>9, <1>10 DEF a

LEMMA DeletedWeak ==
  ASSUME rows \subseteq Ids, Weak(rows, ahead), NEW r \in rows
  PROVE  Weak(rows \ {r}, [x \in Ids |-> IF x = r THEN {} ELSE ahead[x] \ {r}])
BY DEF Weak

-----------------------------------------------------------------------------
(* The inductive strengthening.                                            *)

\* A row whose place the room search does not keep.
Astray(r) == list = "found" /\ (r \in moved \/ "moved" \in upset)

\* What a cursor stands for: what was shown is not behind it, and what was there
\* all the time and was not shown is; but for rows of its moment, at some time.
CursorInv ==
  list \in ByCursor =>
    /\ cursor = NoRow => shown = {}
    /\ cursor \in rows => \A r \in shown \cap rows :
         r \in ahead[cursor] \cup {cursor} \cup tied \/ Astray(r)
    /\ cursor # NoRow /\ "left" \notin upset =>
         /\ cursor \in match
         /\ \A r \in kept \ shown : cursor \in ahead[r] \/ r \in tied \/ Astray(r)

\* What an offset stands for: the rows before it were shown, and the rows that
\* were shown are before it; but for rows of the moment where it once was.
OffsetInv ==
  list \in ByOffset => \A before \in FirstOf(count, match) :
    /\ "pulled" \notin upset => before \ shown \subseteq tied
    /\ "pushed" \notin upset => (shown \cap match) \ before \subseteq tied

PagingInv ==
  /\ PagingTypeOK /\ Torn \subseteq tied
  /\ CursorInv /\ OffsetInv /\ NothingTwice /\ NothingMissed

\* Two first parts of the list differ in rows that were tied.
LEMMA TornApart ==
  list \in ByOffset /\ Torn \subseteq tied /\ match \subseteq rows =>
    \A A, B \in FirstOf(count, match) : A \ B \subseteq tied
BY DEF Torn, FirstOf

\* No row is before the first page.
LEMMA NothingShown ==
  ASSUME NEW S, IsFiniteSet(S), NEW before \in FirstOf(0, S)
  PROVE  before = {}
<1>1. before \subseteq S
  BY DEF FirstOf
<1>2. IsFiniteSet(before)
  BY <1>1, FS_Subset
<1>3. Cardinality(before) \in Nat
  BY <1>2, FS_CardinalityType
<1>4. Cardinality(before) = 0
  BY <1>3 DEF FirstOf
<1> QED BY <1>2, <1>4, FS_EmptySet

LEMMA PagingStarts == InitPaging => PagingInv
<1> SUFFICES ASSUME InitPaging PROVE PagingInv
  OBVIOUS
<1>1. Start \in Nat /\ MaxRow \in Nat /\ Start <= MaxRow /\ MaxMove \in Nat /\ 0 \in 0..MaxMove
  BY PagingAssumption
<1>2. rows \subseteq Ids /\ rows \subseteq 1..created /\ created \in 0..MaxRow /\ rows = 1..Start
  BY <1>1 DEF InitPaging, Ids
<1>3. PICK steps \in SUBSET rows :
        /\ list = "reactions" => steps = rows
        /\ ahead = [r \in Ids |->
                     {x \in rows : r \in rows /\ \E s \in steps : x < s /\ s <= r}]
  BY DEF InitPaging
<1>4. /\ ahead \in [Ids -> SUBSET rows] /\ \A r \in Ids \ rows : ahead[r] = {}
      /\ \A r, x \in rows : x \in ahead[r] <=> \E s \in steps : x < s /\ s <= r
  BY <1>2, <1>3
<1>5. \A r \in rows : \A x \in ahead[r] :
        r \notin ahead[x] /\ \A y \in rows : x \in ahead[y] \/ y \in ahead[r]
  <2> SUFFICES ASSUME NEW r \in rows, NEW x \in ahead[r], NEW y \in rows
               PROVE  r \notin ahead[x] /\ (x \in ahead[y] \/ y \in ahead[r])
    OBVIOUS
  <2>1. x \in rows /\ r \in Nat /\ x \in Nat /\ y \in Nat
    BY <1>1, <1>2, <1>4
  <2>2. PICK s \in steps : x < s /\ s <= r
    BY <1>4, <2>1
  <2>3. s \in Nat /\ x < r
    BY <1>1, <1>2, <2>1, <2>2
  <2>4. r \notin ahead[x]
    <3> SUFFICES ASSUME NEW t \in steps, r < t, t <= x PROVE FALSE
      BY <1>4, <2>1
    <3>1. t \in Nat
      BY <1>1, <1>2
    <3> QED BY <2>1, <2>3, <3>1
  <2>5. CASE s <= y
    BY <1>4, <2>1, <2>2, <2>5
  <2>6. CASE ~(s <= y)
    <3>1. y < s
      BY <2>1, <2>3, <2>6
    <3> QED BY <1>4, <2>1, <2>2, <3>1
  <2> QED BY <2>4, <2>5, <2>6
<1>6. list = "reactions" => \A r, x \in rows : x = r \/ x \in ahead[r] \/ r \in ahead[x]
  <2> SUFFICES ASSUME list = "reactions", NEW r \in rows, NEW x \in rows, x # r
               PROVE  x \in ahead[r] \/ r \in ahead[x]
    OBVIOUS
  <2>1. r \in Nat /\ x \in Nat /\ steps = rows
    BY <1>1, <1>2, <1>3
  <2>2. x < r \/ r < x
    BY <2>1
  <2>3. r <= r /\ x <= x
    BY <2>1
  <2> QED BY <1>4, <2>1, <2>2, <2>3
<1>7. PagingTypeOK
  BY <1>1, <1>2, <1>4, <1>5, <1>6 DEF InitPaging, PagingTypeOK
<1>8. CursorInv
  BY <1>2, PagingAssumption DEF InitPaging, CursorInv, NoRow, Ids
<1>9. \A before \in FirstOf(count, match) : before = {}
  <2>1. IsFiniteSet(match) /\ count = 0
    BY <1>2, IdsFinite DEF InitPaging
  <2> QED BY <2>1, NothingShown
<1>10. OffsetInv
  BY <1>9 DEF InitPaging, OffsetInv
<1>11. Torn = {}
  <2>1. cursor \notin rows
    BY <1>2 DEF InitPaging, NoRow
  <2> QED BY <1>9, <2>1 DEF Torn
<1> QED BY <1>7, <1>8, <1>10, <1>11 DEF InitPaging, PagingInv, NothingTwice, NothingMissed

-----------------------------------------------------------------------------
(* Pages.                                                                  *)

\* A page of rows that match, whatever it was selected from.
Shown(page) ==
  /\ ~ended
  /\ shown' = shown \cup page /\ twice' = twice \cup (shown \cap page)
  /\ count' = IF list \in ByOffset THEN count + Cardinality(page) ELSE 0
  /\ (page = {} /\ cursor' = cursor) \/ cursor' \in LastOf(page)
  /\ ended' = (Cardinality(page) < Take)
  /\ UNCHANGED <<list, rowVars, upset>>
  /\ tied' = tied \cup Torn'

LEMMA PageShown ==
  ASSUME NEW S, NEW n, Show(S, n)
  PROVE  \E before \in FirstOf(n, S) : \E page \in FirstOf(Take, S \ before) : Shown(page)
BY DEF Show, Shown

\* What every page keeps.
LEMMA ShownTypes ==
  ASSUME PagingInv, NEW page \in SUBSET match, Shown(page)
  PROVE  PagingTypeOK' /\ Torn' \subseteq tied' /\ tied \subseteq tied'
<1>1. Cardinality(page) \in Nat
  <2>1. page \in SUBSET Ids
    BY PagingAssumption DEF PagingInv, PagingTypeOK, Ids
  <2> QED BY <2>1, IdsFinite
<1>2. UNCHANGED <<list, rows, ahead, match, created, kept, moved, moves, upset>>
  BY DEF Shown, rowVars
<1>3. shown' \subseteq 1..created /\ twice' \subseteq shown' /\ count' \in Nat /\ ended' \in BOOLEAN
  BY <1>1 DEF Shown, PagingInv, PagingTypeOK
<1>4. cursor' \in shown' \cup {NoRow}
  BY DEF Shown, LastOf, PagingInv, PagingTypeOK
<1>5. tied' = tied \cup Torn'
  BY DEF Shown
<1>6. Torn' \subseteq rows
  BY <1>2 DEF Torn
<1>7. tied' \subseteq Ids
  BY <1>5, <1>6, TypesAreWeak DEF PagingInv, PagingTypeOK
<1>8. PagingTypeOK'
  BY <1>2, <1>3, <1>4, <1>7 DEF PagingInv, PagingTypeOK
<1> QED BY <1>5, <1>8

LEMMA RestKeeps ==
  ASSUME PagingInv, list \in ByIds, RestPage
  PROVE  PagingInv'
<1>0. PICK before \in FirstOf(0, match \ shown) :
        \E page \in FirstOf(Take, (match \ shown) \ before) : Shown(page)
  BY PageShown DEF RestPage
<1>1. PICK page \in FirstOf(Take, (match \ shown) \ before) : Shown(page)
  BY <1>0
<1>2. page \subseteq match \ shown
  BY DEF FirstOf
<1>3. PagingTypeOK' /\ Torn' \subseteq tied' /\ tied \subseteq tied'
  BY <1>1, <1>2, ShownTypes
<1>4. list' = list /\ kept' = kept /\ match' = match /\ upset' = upset /\ moved' = moved
  BY <1>1 DEF Shown, rowVars
<1>5. list \notin ByCursor /\ list \notin ByOffset /\ list # "found"
  BY DEF ByIds, ByCursor, ByOffset
<1>6. NothingTwice'
  BY <1>1, <1>2, <1>3, <1>4 DEF NothingTwice, PagingInv, Shown
<1>7. before = {}
  <2>1. match \ shown \in SUBSET Ids
    BY PagingAssumption DEF PagingInv, PagingTypeOK, Ids
  <2> QED BY <2>1, IdsFinite, NothingShown
<1>8. ended' => match \subseteq shown'
  BY <1>1, <1>7, NotFull, PagingAssumption DEF Shown
<1>9. NothingMissed'
  BY <1>4, <1>8 DEF NothingMissed, PagingInv, PagingTypeOK
<1> QED BY <1>3, <1>4, <1>5, <1>6, <1>9 DEF PagingInv, CursorInv, OffsetInv

LEMMA OffsetKeeps ==
  ASSUME PagingInv, list \in ByOffset, OffsetPage
  PROVE  PagingInv'
<1>0. PICK before \in FirstOf(count, match) :
        \E page \in FirstOf(Take, match \ before) : Shown(page)
  BY PageShown DEF OffsetPage
<1>1. PICK page \in FirstOf(Take, match \ before) : Shown(page)
  BY <1>0
<1>2. page \subseteq match \ before /\ before \subseteq match
  BY DEF FirstOf
<1>3. PagingTypeOK' /\ Torn' \subseteq tied' /\ tied \subseteq tied'
  BY <1>1, <1>2, ShownTypes
<1>4. /\ UNCHANGED <<list, rows, ahead, match, kept, moved, upset>>
      /\ count' = count + Cardinality(page) /\ shown' = shown \cup page
  BY <1>1 DEF Shown, rowVars
<1>5. list \notin ByCursor /\ list # "found"
  BY DEF ByCursor, ByOffset
<1>6. match \in SUBSET Ids /\ match \subseteq rows /\ count \in Nat
  BY TypesAreWeak DEF PagingInv, PagingTypeOK
<1>7. before \cup page \in FirstOf(count', match) /\ count' \in Nat
  BY <1>4, <1>6, FirstThenFirst, PagingAssumption
<1>8. FirstOf(count, match)' = FirstOf(count', match)
  BY <1>4 DEF FirstOf
\* Another first part may differ from what was read, in tied rows.
<1>9. \A other \in FirstOf(count, match)' :
        /\ other \ (before \cup page) \subseteq tied'
        /\ (before \cup page) \ other \subseteq tied'
  <2>1. (list \in ByOffset /\ Torn \subseteq tied /\ match \subseteq rows =>
           \A A, B \in FirstOf(count, match) : A \ B \subseteq tied)'
    BY TornApart, PTL
  <2>2. \A A, B \in FirstOf(count, match)' : A \ B \subseteq tied'
    BY <1>3, <1>4, <1>6, <2>1
  <2> QED BY <1>7, <1>8, <2>2
<1>10. /\ "pulled" \notin upset => before \ shown \subseteq tied
       /\ "pushed" \notin upset => (shown \cap match) \ before \subseteq tied
  BY DEF PagingInv, OffsetInv
<1>11. OffsetInv'
  <2> SUFFICES ASSUME NEW other \in FirstOf(count, match)'
               PROVE  /\ "pulled" \notin upset => other \ shown' \subseteq tied'
                      /\ "pushed" \notin upset => (shown' \cap match) \ other \subseteq tied'
    BY <1>4 DEF OffsetInv
  <2> QED BY <1>2, <1>3, <1>4, <1>9, <1>10
<1>12. NothingTwice'
  <2>1. CASE "pushed" \in upset
    BY <1>4, <2>1 DEF NothingTwice
  <2>2. CASE "pushed" \notin upset
    <3>1. shown \cap page \subseteq tied
      BY <1>2, <1>10, <2>2
    <3> QED BY <1>1, <1>3, <1>4, <1>5, <2>2, <3>1 DEF NothingTwice, PagingInv, Shown
  <2> QED BY <2>1, <2>2
<1>13. NothingMissed'
  <2>1. ended' => page = match \ before
    BY <1>1, NotFull, PagingAssumption DEF Shown
  <2>2. kept \subseteq match
    BY DEF PagingInv, PagingTypeOK
  <2> QED BY <1>3, <1>4, <1>10, <2>1, <2>2 DEF NothingMissed
<1> QED BY <1>3, <1>4, <1>5, <1>11, <1>12, <1>13 DEF PagingInv, CursorInv

\* Where a cursor is, the rest is behind it or has its moment, and nothing else is
\* behind it; but for the cursor, which is skipped unless it shares its moment.
LEMMA FromPlace ==
  ASSUME PagingInv, list \in ByCursor, cursor # NoRow, NEW rest \in From(cursor),
         NEW before \in FirstOf(1, rest)
  PROVE  /\ rest # {} => cursor \in rows
         /\ \A r \in rest : r = cursor \/ cursor \in ahead[r] \/ r \in Ties(cursor)
         /\ cursor \in rest \ before => cursor \in tied
         /\ cursor \in rows /\ Ties(cursor) # {} => Ties(cursor) \cup {cursor} \subseteq tied
         /\ cursor \in match => \A r \in Behind(cursor) : r \in rest \ before
<1>1. match \subseteq rows /\ rows \subseteq Ids /\ Weak(rows, ahead) /\ Torn \subseteq tied
  BY TypesAreWeak DEF PagingInv, PagingTypeOK
<1>2. rest \subseteq match /\ rest \in SUBSET Ids /\ before \subseteq rest
  BY <1>1 DEF From, FirstOf
<1>3. cursor \in rows /\ Ties(cursor) # {} => Ties(cursor) \cup {cursor} \subseteq tied
  BY <1>1 DEF Torn, Ties
<1>4. rest # {} => cursor \in rows
  BY <1>1 DEF From
<1>5. \A r \in rest : r = cursor \/ cursor \in ahead[r] \/ r \in Ties(cursor)
  BY <1>4 DEF From, Behind
<1>6. ASSUME cursor \in rest \ before PROVE cursor \in tied
  <2>1. CASE Ties(cursor) # {}
    BY <1>3, <1>4, <1>6, <2>1
  <2>2. CASE Ties(cursor) = {}
    <3>1. PICK b \in before : TRUE
      BY <1>2, <1>6, FirstOne
    <3>2. b \in rest /\ b # cursor /\ cursor \in ahead[b]
      BY <1>2, <1>5, <1>6, <2>2, <3>1
    <3> QED BY <1>2, <1>6, <3>1, <3>2, FirstHead
  <2> QED BY <2>1, <2>2
<1>7. ASSUME cursor \in match, NEW r \in Behind(cursor) PROVE r \in rest \ before
  <2>1. cursor \in rows /\ r \in match /\ cursor \in ahead[r]
    BY <1>1, <1>7 DEF Behind
  <2>2. cursor # r
    BY <1>1, <2>1, WeakIsOrder
  <2>3. cursor \in rest /\ r \in rest
    BY <1>7, <2>1 DEF From
  <2> QED BY <1>2, <2>1, <2>2, <2>3, FirstHead
<1> QED BY <1>3, <1>4, <1>5, <1>6, <1>7

LEMMA CursorKeeps ==
  ASSUME PagingInv, list \in ByCursor, CursorPage
  PROVE  PagingInv'
<1>a. PICK rest \in From(cursor) : Show(rest, Skip(cursor))
  BY DEF CursorPage
<1>0. PICK before \in FirstOf(Skip(cursor), rest) :
        \E page \in FirstOf(Take, rest \ before) : Shown(page)
  BY <1>a, PageShown
<1>1. PICK page \in FirstOf(Take, rest \ before) : Shown(page)
  BY <1>0
<1>2. page \subseteq rest \ before /\ before \subseteq rest /\ rest \subseteq match
  BY DEF FirstOf, From
<1>3. PagingTypeOK' /\ Torn' \subseteq tied' /\ tied \subseteq tied'
  BY <1>1, <1>2, ShownTypes
<1>4. /\ UNCHANGED <<list, rows, ahead, match, kept, moved, upset>>
      /\ shown' = shown \cup page /\ twice' = twice \cup (shown \cap page)
      /\ (page = {} /\ cursor' = cursor) \/ cursor' \in LastOf(page)
  BY <1>1 DEF Shown, rowVars
<1>5. list \notin ByOffset /\ list \notin ByIds
  BY DEF ByCursor, ByOffset, ByIds
<1>6. /\ match \subseteq rows /\ kept \subseteq match /\ rows \subseteq Ids /\ Weak(rows, ahead)
      /\ NoRow \notin rows
  BY TypesAreWeak, PagingAssumption DEF PagingInv, PagingTypeOK, NoRow, Ids
\* Nothing is left out on the first page, and then what FromPlace says.
<1>7. cursor = NoRow => before = {} /\ rest = match /\ shown = {}
  <2> SUFFICES ASSUME cursor = NoRow PROVE before = {}
    BY <1>6 DEF From, PagingInv, CursorInv
  <2>1. before \in FirstOf(0, rest)
    BY DEF Skip
  <2>2. IsFiniteSet(rest)
    BY <1>2, <1>6, IdsFinite
  <2> QED BY <2>1, <2>2, NothingShown
<1>8. cursor # NoRow =>
        /\ rest # {} => cursor \in rows
        /\ \A r \in rest : r = cursor \/ cursor \in ahead[r] \/ r \in Ties(cursor)
        /\ cursor \in rest \ before => cursor \in tied
        /\ cursor \in rows /\ Ties(cursor) # {} => Ties(cursor) \cup {cursor} \subseteq tied
        /\ cursor \in match => \A r \in Behind(cursor) : r \in rest \ before
  <2> SUFFICES ASSUME cursor # NoRow PROVE before \in FirstOf(1, rest)
    BY FromPlace
  <2> QED BY DEF Skip
<1>9. \A r : Astray(r)' <=> Astray(r)
  BY <1>4 DEF Astray
\* The page goes on after what was shown.
<1>10. ASSUME NEW r \in shown \cap page PROVE r \in tied \/ Astray(r)
  <2>1. cursor # NoRow /\ r \in rest \ before /\ r \in rows
    BY <1>2, <1>6, <1>7, <1>10
  <2>2. cursor \in rows /\ (r = cursor \/ cursor \in ahead[r] \/ r \in Ties(cursor))
    BY <1>8, <2>1
  <2>3. r \in ahead[cursor] \cup {cursor} \cup tied \/ Astray(r)
    BY <1>10, <2>1, <2>2 DEF PagingInv, CursorInv
  <2>4. r \in Ties(cursor) \/ r = cursor => r \in tied
    BY <1>8, <2>1, <2>2
  <2>5. ~(r \in ahead[cursor] /\ cursor \in ahead[r])
    BY <1>6, <2>1, <2>2 DEF Weak
  <2> QED BY <2>2, <2>3, <2>4, <2>5
<1>11. NothingTwice'
  <2>1. \A r \in twice' : r \in tied \/ Astray(r)
    BY <1>4, <1>5, <1>10 DEF NothingTwice, Astray, PagingInv
  <2> QED BY <1>3, <1>4, <2>1 DEF NothingTwice, Astray
\* The rows that are to be shown are on the page or behind it.
<1>12. ASSUME cursor # NoRow => "left" \notin upset,
              NEW r \in kept \ shown, r \notin tied, ~Astray(r)
       PROVE  r \in rest \ before
  <2>1. CASE cursor = NoRow
    BY <1>6, <1>7, <1>12, <2>1
  <2>2. CASE cursor # NoRow
    <3>1. cursor \in match /\ cursor \in ahead[r]
      BY <1>12, <2>2 DEF PagingInv, CursorInv
    <3>2. r \in Behind(cursor)
      BY <1>6, <3>1 DEF Behind
    <3> QED BY <1>8, <2>2, <3>1, <3>2
  <2> QED BY <2>1, <2>2
<1>13. NothingMissed'
  <2> SUFFICES ASSUME ended', NEW r \in kept \ shown', "left" \notin upset,
                      r \notin tied, ~Astray(r)
               PROVE  FALSE
    BY <1>3, <1>4 DEF NothingMissed, Astray
  <2>1. page = rest \ before
    BY <1>1, NotFull, PagingAssumption DEF Shown
  <2>2. r \in kept \ shown
    BY <1>4
  <2> QED BY <1>4, <1>12, <2>1, <2>2
<1>14. CursorInv'
  <2>1. CASE page = {}
    <3>1. cursor' = cursor /\ shown' = shown
      BY <1>4, <2>1 DEF LastOf
    <3> QED BY <1>3, <1>4, <1>9, <3>1 DEF PagingInv, CursorInv
  <2>2. CASE page # {}
    <3>1. /\ cursor' \in page /\ cursor' # NoRow /\ cursor' \in match /\ cursor' \in rows
          /\ \A x \in page : cursor' \notin ahead[x]
      BY <1>2, <1>4, <1>6, <2>2 DEF LastOf
\* A row that shares the moment of the new cursor is tied.
    <3>2. ASSUME NEW r \in match, r # cursor', r \notin ahead[cursor'], cursor' \notin ahead[r]
          PROVE  r \in tied' /\ cursor' \in tied'
      <4>1. r \in Ties(cursor)'
        BY <1>4, <3>2 DEF Ties
      <4>2. r \in rows' /\ cursor' \in rows' /\ list' \in ByCursor
        BY <1>4, <1>6, <3>1
      <4>3. r \in Torn' /\ cursor' \in Torn'
        BY <4>1, <4>2 DEF Torn
      <4> QED BY <1>3, <4>3
    <3>3. ASSUME NEW r \in shown' \cap rows, ~Astray(r), r \notin tied'
          PROVE  r \in ahead[cursor'] \cup {cursor'}
      <4>1. CASE r \in page
        BY <1>2, <3>1, <3>2, <3>3, <4>1
      <4>2. CASE r \notin page
        <5>1. r \in shown /\ cursor # NoRow /\ r \notin tied
          BY <1>3, <1>4, <1>7, <3>3, <4>2
        <5>2. /\ cursor \in rows
              /\ cursor' = cursor \/ cursor \in ahead[cursor'] \/ cursor' \in Ties(cursor)
          BY <1>2, <1>8, <3>1, <5>1
        <5>3. r \in ahead[cursor] \cup {cursor}
          BY <3>3, <5>1, <5>2 DEF PagingInv, CursorInv
        <5>4. cursor' \in Ties(cursor) => r # cursor /\ cursor' \notin ahead[cursor]
          BY <1>8, <5>1, <5>2 DEF Ties
        <5> QED BY <1>6, <3>1, <5>2, <5>3, <5>4, WeakIsOrder DEF Weak
      <4> QED BY <4>1, <4>2
    <3>4. ASSUME "left" \notin upset, NEW r \in kept \ shown', ~Astray(r), r \notin tied'
          PROVE  cursor' \in ahead[r]
      <4>1. r \in kept \ shown /\ r \notin tied /\ r \notin page /\ r \in match
        BY <1>3, <1>4, <1>6, <3>4
      <4>2. r \in rest \ before
        BY <1>12, <3>4, <4>1
      <4>3. r \notin ahead[cursor']
        BY <3>1, <4>1, <4>2 DEF FirstOf
      <4> QED BY <3>1, <3>2, <3>4, <4>1, <4>3
    <3> QED BY <1>4, <1>9, <3>1, <3>3, <3>4 DEF CursorInv
  <2> QED BY <2>1, <2>2
<1> QED BY <1>3, <1>4, <1>5, <1>11, <1>13, <1>14 DEF PagingInv, OffsetInv

-----------------------------------------------------------------------------
(* What happens to the rows.                                               *)

\* The place where the client goes on is as it was, or is upset.
LEMMA OffsetWatched ==
  ASSUME PagingInv, (match \subseteq rows)', NEW left, NEW moving, Watched(left, moving),
         UNCHANGED <<list, clientVars>>, match' \cap shown \subseteq match
  PROVE  OffsetInv'
<1> SUFFICES ASSUME list \in ByOffset, NEW other \in FirstOf(count, match)'
             PROVE  /\ "pulled" \notin upset' => other \ shown \subseteq tied'
                    /\ "pushed" \notin upset' => (shown \cap match') \ other \subseteq tied'
  BY DEF OffsetInv, clientVars
<1>1. PICK before \in FirstOf(count, match), after \in FirstOf(count, match)' :
        /\ upset \subseteq upset'
        /\ ~(after \subseteq before) => "pulled" \in upset'
        /\ ~(before \cap match' \subseteq after) => "pushed" \in upset'
  BY DEF Watched
<1>2. tied \subseteq tied' /\ Torn' \subseteq tied'
  BY DEF Watched
<1>3. other \ after \subseteq tied' /\ after \ other \subseteq tied'
  <2>1. (list \in ByOffset /\ Torn \subseteq tied /\ match \subseteq rows =>
           \A A, B \in FirstOf(count, match) : A \ B \subseteq tied)'
    BY TornApart, PTL
  <2>2. \A A, B \in FirstOf(count, match)' : A \ B \subseteq tied'
    BY <1>2, <2>1
  <2> QED BY <2>2
<1>4. /\ "pulled" \notin upset => before \ shown \subseteq tied
      /\ "pushed" \notin upset => (shown \cap match) \ before \subseteq tied
  BY DEF PagingInv, OffsetInv
<1> QED BY <1>1, <1>2, <1>3, <1>4

\* What was upset or tied stays so.
LEMMA UpsetGrows ==
  ASSUME PagingInv, NEW left, NEW moving, Watched(left, moving), rows' \subseteq Ids
  PROVE  /\ upset \subseteq upset' /\ upset' \subseteq {"pulled", "pushed", "left", "moved"}
         /\ list \in ByCursor /\ cursor \in left => "left" \in upset'
         /\ list \in ByCursor /\ cursor \in moving => "moved" \in upset'
         /\ tied \subseteq tied' /\ Torn' \subseteq tied' /\ tied' \subseteq Ids
<1>1. upset \subseteq {"pulled", "pushed", "left", "moved"} /\ tied \subseteq Ids
  BY DEF PagingInv, PagingTypeOK
<1>2. tied' = tied \cup Torn' /\ Torn' \subseteq rows'
  BY DEF Watched, Torn
<1> QED BY <1>1, <1>2 DEF Watched

\* What remains to be shown of a step that changes rows.
LEMMA RowsChanged ==
  ASSUME PagingInv, ~ended, PagingTypeOK', CursorInv', moved \subseteq moved',
         NEW left, NEW moving, Watched(left, moving),
         UNCHANGED <<list, clientVars>>, match' \cap shown \subseteq match
  PROVE  PagingInv'
<1>1. (PagingTypeOK => rows \subseteq Ids /\ match \subseteq rows)'
  <2>1. PagingTypeOK => rows \subseteq Ids /\ match \subseteq rows
    BY TypesAreWeak DEF PagingTypeOK
  <2> QED BY PagingAssumption DEF PagingTypeOK, Ids
<1>2. OffsetInv'
  BY <1>1, OffsetWatched
<1>3. upset \subseteq upset' /\ tied \subseteq tied' /\ Torn' \subseteq tied'
  BY <1>1, UpsetGrows
<1>4. NothingTwice' /\ NothingMissed'
  BY <1>3 DEF NothingTwice, NothingMissed, PagingInv, clientVars
<1> QED BY <1>2, <1>3, <1>4 DEF PagingInv

LEMMA InsertKeeps ==
  ASSUME PagingInv, ~ended, NEW r \in Ids, NEW S \in Gaps(r), NEW T \in Sharing(r, S),
         Insert(r, S, T)
  PROVE  PagingInv'
<1>1. /\ r = created + 1 /\ created' = created + 1 /\ created \in 0..MaxRow /\ created < MaxRow
      /\ ahead' = Placed(r, S, T) /\ rows' = rows \cup {r} /\ match' = match \cup {r}
      /\ UNCHANGED <<list, kept, moved, moves, clientVars>> /\ Watched({}, {})
  BY DEF Insert, PagingInv, PagingTypeOK
<1>2. /\ created' \in 0..MaxRow /\ rows' \subseteq 1..created' /\ 1..created \subseteq 1..created'
      /\ r \notin 1..created
  BY <1>1, PagingAssumption DEF PagingInv, PagingTypeOK
<1>3. /\ rows \subseteq Ids /\ Weak(rows, ahead)
      /\ list = "reactions" => NoneShare(rows, ahead)
  BY TypesAreWeak DEF PagingInv
<1>4. /\ Weak(rows', ahead') /\ (list = "reactions" => NoneShare(rows', ahead'))
      /\ \A x, y \in rows \ {r} : y \in ahead'[x] <=> y \in ahead[x]
  BY <1>1, <1>3, PlacedWeak
<1>5. /\ upset \subseteq upset' /\ upset' \subseteq {"pulled", "pushed", "left", "moved"}
      /\ tied \subseteq tied' /\ tied' \subseteq Ids
  BY <1>1, <1>3, UpsetGrows
<1>6. PagingTypeOK'
  BY <1>1, <1>2, <1>4, <1>5 DEF PagingInv, PagingTypeOK, Weak, NoneShare, clientVars
<1>7. /\ shown \subseteq 1..created /\ cursor \in shown \cup {NoRow} /\ kept \subseteq match /\ match \subseteq rows
      /\ rows \subseteq 1..created
  BY DEF PagingInv, PagingTypeOK
<1>8. r \notin rows /\ r \notin shown /\ cursor # r /\ r \notin kept
  BY <1>1, <1>2, <1>7, PagingAssumption DEF NoRow
<1>9. \A x \in rows : ahead[x] \subseteq ahead'[x]
  BY <1>3, <1>4, <1>8 DEF Weak
<1>10. \A x : Astray(x) => Astray(x)'
  BY <1>1, <1>5 DEF Astray
<1>11. CursorInv'
  BY <1>1, <1>5, <1>7, <1>8, <1>9, <1>10 DEF PagingInv, CursorInv, clientVars
<1> QED BY <1>1, <1>6, <1>8, <1>11, RowsChanged

\* Rows leave the list, with the table's rows or without.
LEMMA LeftKeeps ==
  ASSUME PagingInv, ~ended, NEW left \in SUBSET rows, Watched(left, {}),
         match' = match \ left, kept' = kept \ left, rows' \subseteq rows,
         \A x \in rows' : ahead'[x] = ahead[x] \cap rows',
         UNCHANGED <<list, moved, clientVars>>, PagingTypeOK'
  PROVE  PagingInv'
<1>1. /\ upset \subseteq upset' /\ tied \subseteq tied'
      /\ list \in ByCursor /\ cursor \in left => "left" \in upset'
  BY TypesAreWeak, UpsetGrows DEF PagingInv
<1>2. \A x : Astray(x) => Astray(x)'
  BY <1>1 DEF Astray
<1>3. CursorInv'
  BY <1>1, <1>2 DEF PagingInv, CursorInv, clientVars, PagingTypeOK
<1> QED BY <1>3, RowsChanged

LEMMA DeleteKeeps ==
  ASSUME PagingInv, ~ended, NEW r \in rows, Delete(r)
  PROVE  PagingInv'
<1>1. /\ rows' = rows \ {r} /\ match' = match \ {r} /\ kept' = kept \ {r}
      /\ ahead' = [x \in Ids |-> IF x = r THEN {} ELSE ahead[x] \ {r}]
      /\ UNCHANGED <<list, created, moved, moves, clientVars>> /\ Watched({r}, {})
  BY DEF Delete
<1>2. /\ rows \subseteq Ids /\ Weak(rows, ahead)
      /\ list = "reactions" => NoneShare(rows, ahead)
  BY TypesAreWeak DEF PagingInv
<1>3. Weak(rows', ahead') /\ (list = "reactions" => NoneShare(rows', ahead'))
  BY <1>1, <1>2, DeletedWeak DEF NoneShare
<1>4. upset' \subseteq {"pulled", "pushed", "left", "moved"} /\ tied' \subseteq Ids
  BY <1>1, <1>2, UpsetGrows
<1>5. PagingTypeOK'
  BY <1>1, <1>2, <1>3, <1>4 DEF PagingInv, PagingTypeOK, Weak, NoneShare, clientVars
<1>6. \A x \in rows' : ahead'[x] = ahead[x] \cap rows'
  BY <1>1, <1>2 DEF Weak
<1> QED BY <1>1, <1>5, <1>6, LeftKeeps

LEMMA HideKeeps ==
  ASSUME PagingInv, ~ended, NEW left \in SUBSET rows, Watched(left, {}),
         match' = match \ left, kept' = kept \ left,
         UNCHANGED <<list, rows, ahead, created, moved, moves, clientVars>>
  PROVE  PagingInv'
<1>1. rows \subseteq Ids /\ Weak(rows, ahead)
  BY TypesAreWeak DEF PagingInv
<1>2. upset' \subseteq {"pulled", "pushed", "left", "moved"} /\ tied' \subseteq Ids
  BY <1>1, UpsetGrows
<1>3. PagingTypeOK'
  BY <1>2 DEF PagingInv, PagingTypeOK, clientVars
<1>4. \A x \in rows' : ahead'[x] = ahead[x] \cap rows'
  BY <1>1 DEF Weak
<1> QED BY <1>3, <1>4, LeftKeeps

LEMMA MoveKeeps ==
  ASSUME PagingInv, ~ended, NEW r \in rows, NEW S \in Gaps(r), NEW T \in Sharing(r, S),
         Move(r, S, T)
  PROVE  PagingInv'
<1>1. /\ list \in {"rooms", "found", "users"}
      /\ moves < MaxMove /\ moves' = moves + 1 /\ moved' = moved \cup {r}
      /\ ahead' = Placed(r, S, T)
      /\ UNCHANGED <<list, rows, match, created, kept, clientVars>> /\ Watched({}, {r})
  BY DEF Move
<1>2. rows \subseteq Ids /\ Weak(rows, ahead) /\ rows \cup {r} = rows /\ r \in Ids
  BY TypesAreWeak DEF PagingInv
<1>3. Weak(rows', ahead') /\ \A x, y \in rows \ {r} : y \in ahead'[x] <=> y \in ahead[x]
  BY <1>1, <1>2, PlacedWeak
<1>4. /\ upset \subseteq upset' /\ upset' \subseteq {"pulled", "pushed", "left", "moved"}
      /\ tied \subseteq tied' /\ tied' \subseteq Ids
      /\ list \in ByCursor /\ cursor = r => "moved" \in upset'
  BY <1>1, <1>2, UpsetGrows
<1>5. PagingTypeOK'
  <2>1. moves' \in 0..MaxMove
    BY <1>1, PagingAssumption DEF PagingInv, PagingTypeOK
  <2> QED BY <1>1, <1>2, <1>3, <1>4, <2>1 DEF PagingInv, PagingTypeOK, Weak, clientVars
<1>6. CursorInv'
  <2> SUFFICES ASSUME list \in ByCursor PROVE CursorInv'
    BY <1>1 DEF CursorInv
  <2>1. list = "found" /\ list' = "found"
    BY <1>1 DEF ByCursor
  <2>2. \A x : Astray(x) => Astray(x)'
    BY <1>1, <1>4 DEF Astray
  <2>3. kept \subseteq rows /\ match \subseteq rows
    BY DEF PagingInv, PagingTypeOK
  <2>4. CASE cursor = r
    <3>1. \A x : Astray(x)'
      BY <1>4, <2>1, <2>4 DEF Astray
    <3> QED BY <1>1, <1>4, <3>1 DEF PagingInv, CursorInv, clientVars
  <2>5. CASE cursor # r
    <3>1. Astray(r)'
      BY <1>1, <2>1 DEF Astray
    <3> QED BY <1>1, <1>3, <1>4, <2>2, <2>3, <2>5, <3>1 DEF PagingInv, CursorInv, clientVars
  <2> QED BY <2>4, <2>5
<1> QED BY <1>1, <1>5, <1>6, RowsChanged

-----------------------------------------------------------------------------
(* The theorems.                                                           *)

LEMMA StepPaging == PagingInv /\ [NextPaging]_pagingVars => PagingInv'
<1> SUFFICES ASSUME PagingInv, [NextPaging]_pagingVars PROVE PagingInv'
  OBVIOUS
<1>1. CASE Page
  <2>1. \/ list \in ByIds /\ RestPage
        \/ list \in ByOffset /\ OffsetPage
        \/ list \in ByCursor /\ CursorPage
    BY <1>1 DEF Page, GetRooms, GetNotifications, GetMessages, GetAll, GetReactions,
                SearchRelationships, SearchAdvanced, FindAll, ByIds, ByOffset, ByCursor
  <2> QED BY <2>1, RestKeeps, OffsetKeeps, CursorKeeps
<1>2. ASSUME ~ended, NEW r \in Ids, NEW S \in Gaps(r), NEW T \in Sharing(r, S), Insert(r, S, T)
      PROVE  PagingInv'
  BY <1>2, InsertKeeps
<1>3. ASSUME ~ended, NEW r \in rows, Delete(r) PROVE PagingInv'
  BY <1>3, DeleteKeeps
<1>4. ASSUME ~ended, NEW r \in rows, Hide(r) PROVE PagingInv'
  <2>1. {r} \in SUBSET rows
    OBVIOUS
  <2> QED BY <1>4, <2>1, HideKeeps DEF Hide
<1>5. ASSUME ~ended, NEW r \in rows, NEW S \in Gaps(r), NEW T \in Sharing(r, S), Move(r, S, T)
      PROVE  PagingInv'
  BY <1>5, MoveKeeps
<1>6. CASE ~ended /\ HideAll
  <2>1. match \in SUBSET rows /\ match \ match = {} /\ kept \ match = {}
    BY DEF PagingInv, PagingTypeOK
  <2> QED BY <1>6, <2>1, HideKeeps DEF HideAll
<1>7. CASE UNCHANGED pagingVars
  <2>1. /\ UNCHANGED <<list, rows, ahead, match, created, kept, moved, moves, upset, tied>>
        /\ UNCHANGED clientVars
    BY <1>7 DEF pagingVars, rowVars, historyVars
  <2>2. FirstOf(count, match)' = FirstOf(count, match)
    BY <2>1 DEF FirstOf, clientVars
  <2>3. PagingTypeOK' /\ CursorInv' /\ NothingTwice' /\ NothingMissed'
    BY <2>1 DEF PagingInv, PagingTypeOK, CursorInv, Astray, NothingTwice, NothingMissed, clientVars
  <2>4. OffsetInv'
    BY <2>1, <2>2 DEF PagingInv, OffsetInv, clientVars
  <2>5. Torn' \subseteq tied'
    BY <2>1, <2>2 DEF PagingInv, Torn, Ties, clientVars
  <2> QED BY <2>3, <2>4, <2>5 DEF PagingInv
<1> QED BY <1>1, <1>2, <1>3, <1>4, <1>5, <1>6, <1>7 DEF NextPaging, RowStep

LEMMA PagingInvariance == PagingSpec => []PagingInv
<1> QED BY PagingStarts, StepPaging, PTL DEF PagingSpec

\* Whatever is inserted, deleted, hidden or moved, the rows keep an order, the
\* reactions one in which none share a place, and the client's cursor is one of
\* the rows it was shown.
THEOREM PagingTypeCorrect == PagingSpec => []PagingTypeOK
<1>1. PagingInv => PagingTypeOK
  BY DEF PagingInv
<1> QED BY <1>1, PagingInvariance, PTL

\* NothingTwice: makePaginationCursor, makePaginationOffset and the ids to leave
\* out show no row again, whatever the rows do between two pages, unless it or the
\* room a search goes on after moved, a row before the offset came behind it, or
\* the row has the moment of one the client went on after.
THEOREM ShownOnce == PagingSpec => []NothingTwice
<1>1. PagingInv => NothingTwice
  BY DEF PagingInv
<1> QED BY <1>1, PagingInvariance, PTL

\* NothingMissed: who reads a list to its end was shown all that stayed in it,
\* unless the cursor left it, it or the room a search goes on after moved, a row
\* came before the offset, or it has the moment of one the client went on after.
THEOREM ShownAll == PagingSpec => []NothingMissed
<1>1. PagingInv => NothingMissed
  BY DEF PagingInv
<1> QED BY <1>1, PagingInvariance, PTL
=============================================================================
