-------------------------------- MODULE Paging --------------------------------
(***************************************************************************)
(* Reading a list page after page while its rows change.  Three ways: ids  *)
(* to leave out (rooms, notifications), a cursor (messages, whinnies,      *)
(* reactions, relationships, the room search), an offset (users).  A page  *)
(* is one query; between two of them any handler may add, take away, hide  *)
(* or reorder rows.  The client is the one the parameters are made for: it *)
(* passes on what it was shown, and stops at a page that is not full.      *)
(* Left out: what a row holds, other filters, pages that are refused.      *)
(*                                                                         *)
(* Of the values a list is ordered by only the order is kept: which rows   *)
(* are ahead of which.  But for the reactions they are moments, which      *)
(* several rows may share (rooms without a message have none); nothing     *)
(* orders those, and two queries may give them in different orders.        *)
(***************************************************************************)
EXTENDS Integers, FiniteSets

CONSTANTS
  Start,    \* rows at the beginning
  MaxRow,   \* bound: rows, those created while the client reads included
  Take,     \* rows of a full page
  MaxMove   \* bound: how often a row changes its place

ASSUME PagingAssumption ==
  MaxRow \in Nat /\ Start \in 0..MaxRow /\ Take \in Nat \ {0} /\ MaxMove \in Nat

NoRow == 0
Ids == 1..MaxRow

VARIABLES
  list,     \* which one is read
  rows,     \* the rows of the table
  ahead,    \* per row, those ahead of it in the order of the list
  match,    \* those that satisfy its conditions
  created,  \* rows created so far
  shown,    \* what the client was shown
  twice,    \* history: what it was shown again
  count,    \* how many rows it was shown, where that is what it goes on after
  cursor,   \* the row it goes on after
  ended,    \* it got a page that was not full
  kept,     \* history: rows that were in the list all the time
  moved,    \* history: rows that changed their place
  moves,    \* and how often any did
  upset,    \* history: what happened to the place where the client goes on
  tied      \* history: rows it may not find where they were, with the rows unchanged

rowVars == <<rows, ahead, match, created, kept, moved, moves>>
clientVars == <<shown, twice, count, cursor, ended>>
historyVars == <<upset, tied>>
pagingVars == <<list, rowVars, clientVars, historyVars>>

ByIds == {"rooms", "notifications"}
ByCursor == {"messages", "whinnies", "reactions", "relationships", "found"}
ByOffset == {"users"}
Lists == ByIds \cup ByCursor \cup ByOffset

InitPaging ==
  /\ list \in Lists
  /\ created = Start /\ rows = 1..Start
  /\ \E steps \in SUBSET rows :
       /\ list = "reactions" => steps = rows
       /\ ahead = [r \in Ids |->
                    {x \in rows : r \in rows /\ \E s \in steps : x < s /\ s <= r}]
  /\ match = rows /\ kept = rows
  /\ shown = {} /\ twice = {} /\ count = 0 /\ cursor = NoRow /\ ended = FALSE
  /\ moved = {} /\ moves = 0 /\ upset = {} /\ tied = {}

-----------------------------------------------------------------------------
(* Pages.                                                                  *)

\* The first n of the rows in S, all if there are fewer; which they are is open
\* where the n-th has the moment of the next.
FirstOf(n, S) ==
  {page \in SUBSET S :
    /\ \A r \in page : ahead[r] \cap S \subseteq page
    /\ Cardinality(page) = n \/ (page = S /\ Cardinality(page) < n)}

LastOf(page) == {r \in page : \A x \in page : r \notin ahead[x]}

\* Mutant: the row the client names is not skipped.
SkipNone(c) == 0

\* Mutant: a row is skipped on the first page too.
SkipAlways(c) == 1

\* makePaginationCursor: the row the client names is left out.
Skip(c) == IF c = NoRow THEN 0 ELSE 1

\* Rows of the list that have the moment of r, and those behind it.
Ties(r) == {x \in match \ {r} : x \notin ahead[r] /\ r \notin ahead[x]}
Behind(r) == {x \in match : r \in ahead[x]}

\* What a cursor query may select from: the rows from the place of c on, those of
\* its moment included or not.  If c does not satisfy the conditions it may be
\* nothing; if c is gone it is.
From(c) ==
  {S \in SUBSET match :
    \/ c = NoRow /\ S = match
    \/ c \in rows /\ S \subseteq Behind(c) \cup Ties(c) \cup {c}
                 /\ Behind(c) \cup (match \cap {c}) \subseteq S
    \/ c # NoRow /\ c \notin match /\ S = {}}

\* The rows that the next query may put on either side of where the client goes on.
Torn ==
  {r \in rows :
    \/ list \in ByOffset /\ \E A, B \in FirstOf(count, match) : r \in A \ B
    \/ /\ list \in ByCursor /\ cursor \in rows /\ Ties(cursor) # {}
       /\ r \in Ties(cursor) \cup {cursor}}

\* A full page of S after the first n.
Show(S, n) ==
  \E before \in FirstOf(n, S) : \E page \in FirstOf(Take, S \ before) :
    /\ ~ended
    /\ shown' = shown \cup page /\ twice' = twice \cup (shown \cap page)
    /\ count' = IF list \in ByOffset THEN count + Cardinality(page) ELSE 0
    /\ (page = {} /\ cursor' = cursor) \/ cursor' \in LastOf(page)
    /\ ended' = (Cardinality(page) < Take)
    /\ UNCHANGED <<list, rowVars, upset>>
    /\ tied' = tied \cup Torn'

CursorPage == \E S \in From(cursor) : Show(S, Skip(cursor))

\* makePaginationOffset: the client skips as many rows as it was shown.
OffsetPage == Show(match, count)

\* The ids the client was shown are left out.
RestPage == Show(match \ shown, 0)

\* The newest activity first.
GetRooms == list = "rooms" /\ RestPage

\* The newest first, those of the caller.
GetNotifications == list = "notifications" /\ RestPage

\* The newest first, if the caller is a member.
GetMessages == list = "messages" /\ CursorPage

\* The newest first: comments of a whinny, or what a user wrote.
GetAll == list = "whinnies" /\ CursorPage

\* By id, for want of another order.
GetReactions == list = "reactions" /\ CursorPage

\* The newest first: following, followers, or followers the caller follows.
SearchRelationships == list = "relationships" /\ CursorPage

\* The newest activity first, private and group rooms each with a cursor of
\* their own.  The answer is sorted the other way round; the client goes on
\* after the oldest activity.
SearchAdvanced == list = "found" /\ CursorPage

\* In the order asked for.
FindAll == list = "users" /\ OffsetPage

Page ==
  \/ GetRooms \/ GetNotifications \/ GetMessages \/ GetAll \/ GetReactions
  \/ SearchRelationships \/ SearchAdvanced \/ FindAll

-----------------------------------------------------------------------------
(* What other handlers do to the rows.                                     *)

\* upset: "pulled", a row not shown yet is now before the offset; "pushed", one
\* before it is no longer; or the cursor has "left" the list, or has "moved".
Watched(left, moving) ==
  /\ \E before \in FirstOf(count, match), after \in FirstOf(count, match)' :
       upset' = upset \cup {w \in {"pulled", "pushed", "left", "moved"} :
         \/ w = "pulled" /\ list \in ByOffset /\ ~(after \subseteq before)
         \/ w = "pushed" /\ list \in ByOffset /\ ~(before \cap match' \subseteq after)
         \/ w = "left" /\ list \in ByCursor /\ cursor \in left
         \/ w = "moved" /\ list \in ByCursor /\ cursor \in moving}
  /\ tied' = tied \cup Torn'

\* Rows that r could be put behind, all of them and no other; and those it then
\* shares its moment with, none or the ones right behind S.
Gaps(r) == {ahead[x] \ {r} : x \in rows \ {r}} \cup {rows \ {r}}
Sharing(r, S) ==
  {T \in {{}, {x \in rows \ (S \cup {r}) : ahead[x] \ {r} = S}} : list = "reactions" => T = {}}

Placed(r, S, T) ==
  [x \in Ids |-> IF x = r THEN S
                 ELSE IF x \in rows \ (S \cup T) THEN ahead[x] \cup {r}
                 ELSE ahead[x] \ {r}]

\* Its moment is taken before it is committed, so it may come behind others.
Insert(r, S, T) ==
  /\ created < MaxRow /\ created' = created + 1 /\ r = created'
  /\ ahead' = Placed(r, S, T)
  /\ rows' = rows \cup {r} /\ match' = match \cup {r}
  /\ UNCHANGED <<list, kept, moved, moves, clientVars>>
  /\ Watched({}, {})

\* Deleted, alone or with its account.
Delete(r) ==
  /\ rows' = rows \ {r}
  /\ ahead' = [x \in Ids |-> IF x = r THEN {} ELSE ahead[x] \ {r}]
  /\ match' = match \ {r} /\ kept' = kept \ {r}
  /\ UNCHANGED <<list, created, moved, moves, clientVars>>
  /\ Watched({r}, {})

\* Still there, but no longer in the list: the caller leaves a room, the name of
\* a room or of a user no longer matches, the caller unfollows a follower.
Hide(r) ==
  /\ list \in {"rooms", "found", "relationships", "users"} /\ r \in match
  /\ match' = match \ {r} /\ kept' = kept \ {r}
  /\ UNCHANGED <<list, rows, ahead, created, moved, moves, clientVars>>
  /\ Watched({r}, {})

\* The caller of getMessages leaves the room.
HideAll ==
  /\ list = "messages" /\ match # {}
  /\ match' = {} /\ kept' = {}
  /\ UNCHANGED <<list, rows, ahead, created, moved, moves, clientVars>>
  /\ Watched(match, {})

\* A message gives its room a new activity, the newest but for those of messages
\* sent at the same time; a search has the rooms without any ahead of it.  An
\* updated user may go anywhere.
Move(r, S, T) ==
  /\ list \in {"rooms", "found", "users"}
  /\ moves < MaxMove /\ moves' = moves + 1
  /\ ahead' = Placed(r, S, T)
  /\ moved' = moved \cup {r}
  /\ UNCHANGED <<list, rows, match, created, kept, clientVars>>
  /\ Watched({}, {r})

RowStep ==
  \/ \E r \in Ids : \E S \in Gaps(r) : \E T \in Sharing(r, S) : Insert(r, S, T)
  \/ \E r \in rows : Delete(r) \/ Hide(r)
  \/ \E r \in rows : \E S \in Gaps(r) : \E T \in Sharing(r, S) : Move(r, S, T)
  \/ HideAll

NextPaging == Page \/ (~ended /\ RowStep)

PagingSpec == InitPaging /\ [][NextPaging]_pagingVars

-----------------------------------------------------------------------------
(* Properties.                                                             *)

\* Types; the rows have an order, in which several may share a place, but for the
\* reactions; and what the client knows of are rows that were there.
PagingTypeOK ==
  /\ list \in Lists /\ created \in 0..MaxRow /\ rows \subseteq 1..created
  /\ match \subseteq rows /\ kept \subseteq match
  /\ ahead \in [Ids -> SUBSET rows] /\ \A r \in Ids \ rows : ahead[r] = {}
  /\ \A r \in rows : \A x \in ahead[r] :
       r \notin ahead[x] /\ \A y \in rows : x \in ahead[y] \/ y \in ahead[r]
  /\ list = "reactions" => \A r, x \in rows : x = r \/ x \in ahead[r] \/ r \in ahead[x]
  /\ shown \subseteq 1..created /\ twice \subseteq shown /\ count \in Nat
  /\ cursor \in shown \cup {NoRow} /\ ended \in BOOLEAN
  /\ moved \subseteq Ids /\ moves \in 0..MaxMove
  /\ upset \subseteq {"pulled", "pushed", "left", "moved"} /\ tied \subseteq Ids

\* The client is shown a row twice only if it moved during the room search, or the
\* cursor did; if a row before the offset came behind it; or if the row has the
\* moment of the one where the client goes on, and the next query gave the two in
\* another order.
NothingTwice ==
  \A r \in twice :
    \/ r \in tied
    \/ list = "found" /\ (r \in moved \/ "moved" \in upset)
    \/ list \in ByOffset /\ "pushed" \in upset

\* When the client has come to the end it was shown every row that was there all
\* the time.  Not so by a cursor, if the cursor left the list: a deleted one ends
\* it at once, a hidden one too or it takes the row behind it along; nor in the
\* room search if the room or the cursor moved; nor by an offset that a row was
\* pulled across; nor for a row of the moment where the client once went on.
NothingMissed ==
  ended => \A r \in kept \ shown :
    \/ r \in tied
    \/ list \in ByCursor /\ "left" \in upset
    \/ list = "found" /\ (r \in moved \/ "moved" \in upset)
    \/ list \in ByOffset /\ "pulled" \in upset
=============================================================================
