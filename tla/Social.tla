-------------------------------- MODULE Social --------------------------------
(***************************************************************************)
(* Whinnies, the reactions to them and who follows whom: the services      *)
(* whose rows are mirrored into a graph database.  A handler reads and     *)
(* checks, writes, and then starts a call to the graph for which nobody    *)
(* waits (silentCall): calls may arrive in any order or not at all.        *)
(*                                                                         *)
(* The graph module is external.  An upsert makes what it names, a delete  *)
(* takes what it names and the edges at it.  Left out: contents, counts,   *)
(* a handler that throws at its first read, the deletion of users.         *)
(***************************************************************************)
EXTENDS FiniteSets

CONSTANTS Users, Whinnies, Calls, None

ASSUME NoneIsNothing == None \notin Whinnies \cup Calls

VARIABLES
  whinny,     \* rows, with the whinnies that had been when it was checked
  reactions,  \* rows: who reacted to what
  follow,     \* rows: per follower and followee, which call made it
  graph,      \* nodes and edges of the graph
  call,       \* handlers, until their call to the graph is through
  mixed       \* history: what the graph may have wrong

vars == <<whinny, reactions, follow, graph, call, mixed>>

Types == {"Owner", "Quote", "Repost", "Comment"}
Unused == [at |-> "unused", type |-> "Owner", user |-> None, source |-> None, known |-> {}]
NoCall == [pc |-> "idle", kind |-> "create", user |-> None, whinny |-> None, type |-> "Owner",
           source |-> None, known |-> {}, other |-> None, row |-> None]

Live(w) == whinny[w].at = "live"
Used == {w \in Whinnies : whinny[w].at # "unused"}

Node(w) == <<"whinny", w>>
Reposted(u, w) == <<"repost", u, w>>
Reacted(u, w) == <<"react", u, w>>
Follows(u, v) == <<"follow", u, v>>
EdgesAt(w) == {Reposted(u, w) : u \in Users} \cup {Reacted(u, w) : u \in Users}
Followings == {Follows(e[1], e[2]) : e \in Users \X Users}
Items == {Node(w) : w \in Whinnies} \cup (UNION {EdgesAt(w) : w \in Whinnies}) \cup Followings

\* Some whinnies are there already, and mirrored.
Init ==
  /\ \E made \in [Whinnies -> Users \cup {None}] :
       /\ whinny = [w \in Whinnies |-> IF made[w] = None THEN Unused
                                       ELSE [Unused EXCEPT !.at = "live", !.user = made[w]]]
       /\ graph = {Node(w) : w \in {x \in Whinnies : made[x] # None}}
  /\ reactions = {} /\ follow = [e \in Users \X Users |-> None]
  /\ call = [c \in Calls |-> NoCall] /\ mixed = {}

-----------------------------------------------------------------------------
(* What a call to the graph is about.                                      *)

Owns(h) ==
  CASE h.kind = "create" /\ h.type = "Repost" -> {Reposted(h.user, h.source)}
    [] h.kind = "delete" \/ (h.kind = "create" /\ h.type # "Repost") -> {Node(h.whinny)} \cup EdgesAt(h.whinny)
    [] h.kind \in {"react", "unreact"} -> {Reacted(h.user, h.whinny)}
    [] h.kind \in {"follow", "unfollow"} -> {Follows(h.user, h.other)}

\* The new whinny's source is upserted as well.
Touches(h) == Owns(h) \cup (IF h.kind = "create" /\ h.source # None THEN {Node(h.source)} ELSE {})

Pending == {c \in Calls : call[c].pc = "mirror"}

\* Two calls to the graph that may be swapped, and do not both create.
Swapped(h) ==
  UNION {Touches(h) \cap Touches(call[d]) :
           d \in {d \in Pending : ~(h.kind = "create" /\ call[d].kind = "create")}}

\* The handler's write is done; its call to the graph is under way.
Done(c, h) ==
  /\ call' = [call EXCEPT ![c] = [h EXCEPT !.pc = "mirror"]]
  /\ UNCHANGED graph

-----------------------------------------------------------------------------
(* WhinniesService.create, delete.                                         *)

Sourced(u, t, s) ==
  s # None => /\ Live(s) /\ whinny[s].type # "Repost"
              /\ t = "Repost" => ~\E w \in Whinnies : /\ Live(w) /\ whinny[w].type = "Repost"
                                                      /\ whinny[w].user = u /\ whinny[w].source = s

\* Mutant: only the type of the source is looked at.
CreateReadUncounted(c, u, t, s) ==
  /\ call[c].pc = "idle"
  /\ s = None => t = "Owner"
  /\ s # None => Live(s) /\ whinny[s].type # "Repost"
  /\ call' = [call EXCEPT ![c] = [NoCall EXCEPT !.pc = "write", !.user = u, !.type = t,
                                                !.source = s, !.known = Used]]
  /\ UNCHANGED <<whinny, reactions, follow, graph, mixed>>

\* The source is read and checked, also that of an Owner if one is given.
CreateRead(c, u, t, s) ==
  /\ call[c].pc = "idle"
  /\ s = None => t = "Owner"
  /\ Sourced(u, t, s)
  /\ call' = [call EXCEPT ![c] = [NoCall EXCEPT !.pc = "write", !.user = u, !.type = t,
                                                !.source = s, !.known = Used]]
  /\ UNCHANGED <<whinny, reactions, follow, graph, mixed>>

\* The source a row gets.
SourceOf(h) == IF h.type = "Owner" THEN None ELSE h.source

CreateWrite(c, w) ==
  LET h == [call[c] EXCEPT !.whinny = w, !.source = SourceOf(call[c])]
  IN /\ call[c].pc = "write" /\ call[c].kind = "create"
     /\ whinny[w].at = "unused"
     /\ h.source # None => Live(h.source)
     /\ whinny' = [whinny EXCEPT ![w] = [at |-> "live", type |-> h.type, user |-> h.user,
                                         source |-> h.source, known |-> h.known]]
     /\ Done(c, h)
     /\ mixed' = mixed \cup Swapped(h)
     /\ UNCHANGED <<reactions, follow>>

DeleteRead(c, u, w) ==
  /\ call[c].pc = "idle"
  /\ Live(w) /\ whinny[w].user = u
  /\ call' = [call EXCEPT ![c] = [NoCall EXCEPT !.pc = "write", !.kind = "delete",
                                                !.user = u, !.whinny = w]]
  /\ UNCHANGED <<whinny, reactions, follow, graph, mixed>>

\* onDelete: Cascade: a whinny and all that has it as its source, and so on.
Thread(w) ==
  {x \in Whinnies : \A S \in SUBSET Whinnies :
     w \in S /\ (\A y \in Whinnies : whinny[y].source \in S => y \in S) => x \in S}

\* What the graph keeps: what went with the whinny, and a repost, which it does
\* not know by the id of its row.
Kept(w) ==
  (IF whinny[w].type = "Repost" THEN {Reposted(whinny[w].user, whinny[w].source)} ELSE {})
  \cup UNION {{Node(x)} \cup EdgesAt(x) : x \in Thread(w) \ {w}}

DeleteWrite(c) ==
  LET h == call[c]
  IN /\ h.pc = "write" /\ h.kind = "delete"
     /\ Live(h.whinny)
     /\ whinny' = [w \in Whinnies |-> IF w \in Thread(h.whinny)
                                      THEN [Unused EXCEPT !.at = "gone"] ELSE whinny[w]]
     /\ reactions' = {r \in reactions : r[2] \notin Thread(h.whinny)}
     /\ Done(c, h)
     /\ mixed' = mixed \cup Swapped(h) \cup Kept(h.whinny)
     /\ UNCHANGED follow

-----------------------------------------------------------------------------
(* WhinniesService.react.                                                  *)

ReactRead(c, u, w, kind) ==
  /\ call[c].pc = "idle"
  /\ Live(w) /\ whinny[w].type # "Repost"
  /\ call' = [call EXCEPT ![c] = [NoCall EXCEPT !.pc = "write", !.kind = kind,
                                                !.user = u, !.whinny = w]]
  /\ UNCHANGED <<whinny, reactions, follow, graph, mixed>>

\* whinnyReaction.create, or deleteMany, which finds no fault.
ReactWrite(c) ==
  LET h == call[c]
      r == <<h.user, h.whinny>>
  IN /\ h.pc = "write"
     /\ \/ /\ h.kind = "react" /\ Live(h.whinny) /\ r \notin reactions
           /\ reactions' = reactions \cup {r}
        \/ /\ h.kind = "unreact"
           /\ reactions' = reactions \ {r}
     /\ Done(c, h)
     /\ mixed' = mixed \cup Swapped(h)
     /\ UNCHANGED <<whinny, follow>>

-----------------------------------------------------------------------------
(* ProfileUsersService.changeRelationship.                                 *)

FollowRead(c, u, v, kind) ==
  /\ call[c].pc = "idle"
  /\ u # v
  /\ (kind = "follow") <=> (follow[<<u, v>>] = None)
  /\ call' = [call EXCEPT ![c] = [NoCall EXCEPT !.pc = "write", !.kind = kind, !.user = u,
                                                !.other = v, !.row = follow[<<u, v>>]]]
  /\ UNCHANGED <<whinny, reactions, follow, graph, mixed>>

\* relationship.create, or delete of the row that was read.
FollowWrite(c) ==
  LET h == call[c]
  IN /\ h.pc = "write"
     /\ \/ /\ h.kind = "follow" /\ follow[<<h.user, h.other>>] = None
           /\ follow' = [follow EXCEPT ![<<h.user, h.other>>] = c]
        \/ /\ h.kind = "unfollow" /\ follow[<<h.user, h.other>>] = h.row
           /\ follow' = [follow EXCEPT ![<<h.user, h.other>>] = None]
     /\ Done(c, h)
     /\ mixed' = mixed \cup Swapped(h)
     /\ UNCHANGED <<whinny, reactions>>

-----------------------------------------------------------------------------
(* The end of a handler.                                                   *)

\* The row to refer to is gone, the row to delete is, or the row to create is there.
Throw(c) ==
  LET h == call[c]
  IN /\ h.pc = "write"
     /\ CASE h.kind = "create" -> SourceOf(h) # None /\ ~Live(SourceOf(h))
          [] h.kind = "delete" -> ~Live(h.whinny)
          [] h.kind = "react" -> ~Live(h.whinny) \/ <<h.user, h.whinny>> \in reactions
          [] h.kind = "unreact" -> FALSE
          [] h.kind = "follow" -> follow[<<h.user, h.other>>] # None
          [] h.kind = "unfollow" -> follow[<<h.user, h.other>>] # h.row
     /\ call' = [call EXCEPT ![c] = [NoCall EXCEPT !.pc = "over"]]
     /\ UNCHANGED <<whinny, reactions, follow, graph, mixed>>

\* Mutant: the graph is not told of what is no longer followed.
MirroredAdded(h) ==
  CASE h.kind = "create" -> {graph \cup (Touches(h) \ EdgesAt(h.whinny))}
    [] h.kind \in {"react", "follow"} -> {graph \cup Owns(h)}
    [] h.kind = "delete" -> {graph \ Owns(h)}
    [] h.kind \in {"unreact", "unfollow"} -> {graph}

\* The graph afterwards; it may not take a reaction to a whinny that it lacks.
Mirrored(h) ==
  CASE h.kind = "create" -> {graph \cup (Touches(h) \ EdgesAt(h.whinny))}
    [] h.kind = "react" -> {graph \cup Owns(h)} \cup (IF Node(h.whinny) \in graph THEN {} ELSE {graph})
    [] h.kind = "follow" -> {graph \cup Owns(h)}
    [] h.kind \in {"delete", "unreact", "unfollow"} -> {graph \ Owns(h)}

\* silentCall gets through
Mirror(c) ==
  /\ call[c].pc = "mirror"
  /\ graph' \in Mirrored(call[c])
  /\ call' = [call EXCEPT ![c] = [NoCall EXCEPT !.pc = "over"]]
  /\ UNCHANGED <<whinny, reactions, follow, mixed>>

\* or it does not, and nobody hears of it.
MirrorFails(c) ==
  /\ call[c].pc = "mirror"
  /\ mixed' = mixed \cup Owns(call[c])
  /\ call' = [call EXCEPT ![c] = [NoCall EXCEPT !.pc = "over"]]
  /\ UNCHANGED <<whinny, reactions, follow, graph>>

Next ==
  \E c \in Calls :
    \/ \E u \in Users, t \in Types, s \in Whinnies \cup {None} : CreateRead(c, u, t, s)
    \/ \E w \in Whinnies : CreateWrite(c, w)
    \/ \E u \in Users, w \in Whinnies : DeleteRead(c, u, w)
    \/ \E u \in Users, w \in Whinnies, k \in {"react", "unreact"} : ReactRead(c, u, w, k)
    \/ \E u, v \in Users, k \in {"follow", "unfollow"} : FollowRead(c, u, v, k)
    \/ DeleteWrite(c) \/ ReactWrite(c) \/ FollowWrite(c)
    \/ Throw(c) \/ Mirror(c) \/ MirrorFails(c)

Spec == Init /\ [][Next]_vars

-----------------------------------------------------------------------------
(* Properties.                                                             *)

\* Types, and the rows that rows refer to are there.
TypeOK ==
  /\ whinny \in [Whinnies -> [at : {"unused", "live", "gone"}, type : Types,
                              user : Users \cup {None}, source : Whinnies \cup {None},
                              known : SUBSET Whinnies]]
  /\ reactions \subseteq Users \X Whinnies
  /\ follow \in [Users \X Users -> Calls \cup {None}]
  /\ graph \subseteq Items /\ mixed \subseteq Items
  /\ call \in [Calls -> [pc : {"idle", "write", "mirror", "over"},
                         kind : {"create", "delete", "react", "unreact", "follow", "unfollow"},
                         user : Users \cup {None}, whinny : Whinnies \cup {None}, type : Types,
                         source : Whinnies \cup {None}, known : SUBSET Whinnies,
                         other : Users \cup {None}, row : Calls \cup {None}]]
  /\ \A w \in Whinnies : whinny[w].source # None => Live(whinny[w].source)
  /\ \A r \in reactions : Live(r[2])

\* Reposts are leaves: nothing has one as its source, nobody reacts to one.  And
\* a user reposts a whinny once, unless neither request could see the other's row.
RepostsAreChecked ==
  /\ \A w \in Whinnies : whinny[w].source # None => whinny[whinny[w].source].type # "Repost"
  /\ \A r \in reactions : whinny[r[2]].type # "Repost"
  /\ \A w, x \in Whinnies :
       /\ w # x /\ whinny[w].type = "Repost" /\ whinny[x].type = "Repost"
       /\ whinny[w].user = whinny[x].user /\ whinny[w].source = whinny[x].source
       => w \notin whinny[x].known /\ x \notin whinny[w].known

\* Rows, as the graph would have them.
InRows(i) ==
  \/ \E w \in Whinnies : i = Node(w) /\ Live(w) /\ whinny[w].type # "Repost"
  \/ \E w \in Whinnies : /\ Live(w) /\ whinny[w].type = "Repost"
                         /\ i = Reposted(whinny[w].user, whinny[w].source)
  \/ \E r \in reactions : i = Reacted(r[1], r[2])
  \/ \E e \in Users \X Users : i = Follows(e[1], e[2]) /\ follow[e] # None

\* What the graph has of a row is right once no call about it is under way, unless
\* one failed, two could be swapped, or the row went along with another.
GraphAgrees ==
  \A i \in Items \ mixed :
    (\A c \in Pending : i \notin Touches(call[c])) => ((i \in graph) <=> InRows(i))
=============================================================================
