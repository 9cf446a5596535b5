--------------------------- MODULE RefreshTokens ----------------------------
(***************************************************************************)
(* Refresh tokens (AuthService): a login creates one, a refresh replaces   *)
(* it by a new one and revokes it, a logout revokes it.  refreshToken and  *)
(* revoke open a transaction, but only their first read runs in it: the    *)
(* writes go through this.prisma, on other connections, and are committed  *)
(* one by one whatever becomes of the transaction.                         *)
(*                                                                         *)
(* Tokens are numbered in the order they are created; each lives equally   *)
(* long, so they expire in that order too.  The tokens that descend from   *)
(* one login are its family.  A call that names no token, or another       *)
(* user's, is refused and changes nothing; it has no step here.            *)
(***************************************************************************)
EXTENDS Integers

CONSTANTS
  Calls,     \* refreshToken and revoke calls in flight
  MaxToken   \* bound: tokens

ASSUME ParameterAssumption == MaxToken \in Nat \ {0}

Tokens == 1..MaxToken

VARIABLES
  created,   \* rows there are: tokens 1..created
  expired,   \* tokens 1..expired have expired
  revoked,   \* rows with `revoked' set
  heir,      \* replaceByToken; 0 for null
  root,      \* history: the first token of the family; 0 before creation
  held,      \* tokens whose value reached a client
  call,      \* per call: where it stands, its token and the token it created
  contested, \* history: families with two calls on one token at a time, or
             \* with a refresh that stopped between its two writes
  ended,     \* history: families one of whose tokens was logged out
  lost       \* history: families that lost the answer to a refresh

vars == <<created, expired, revoked, heir, root, held, call, contested, ended, lost>>
rows == <<created, expired, revoked, heir, root>>

IdleCall == [pc |-> "idle", token |-> 0, child |-> 0]
CallStates == [pc : {"idle", "create", "revoke", "answer", "logout"},
               token : 0..MaxToken, child : 0..MaxToken]

Init ==
  /\ created = 0 /\ expired = 0 /\ revoked = {}
  /\ heir = [t \in Tokens |-> 0] /\ root = [t \in Tokens |-> 0]
  /\ held = {}
  /\ call = [c \in Calls |-> IdleCall]
  /\ contested = {} /\ ended = {} /\ lost = {}

Family(r) == {t \in Tokens : root[t] = r}
InFlight(c) == call[c].pc # "idle"
\* The families with a call under way.
Busy == {root[call[c].token] : c \in {c \in Calls : InFlight(c)}}

-----------------------------------------------------------------------------
(* generateRefreshToken: one row more.                                     *)

NewToken(r) ==
  /\ created < MaxToken
  /\ created' = created + 1
  /\ root' = [root EXCEPT ![created + 1] = r]

\* login: the new token is the first of its family.
Login ==
  /\ NewToken(created + 1)
  /\ held' = held \cup {created + 1}
  /\ UNCHANGED <<expired, revoked, heir, call, contested, ended, lost>>

-----------------------------------------------------------------------------
(* refreshToken and revoke.                                                *)

\* Mutant: only the expiry is looked at.
UsableUntilExpiry(t) == t > expired

\* What both look at: the token is neither revoked nor expired.
Usable(t) == t \notin revoked /\ t > expired

\* Another call that passed the same check has not finished.
Overlaps(t) == \E d \in Calls : InFlight(d) /\ call[d].token = t
Noted(t) == IF Overlaps(t) THEN contested \cup {root[t]} ELSE contested

\* Mutant: the old token is revoked before the new one is created.
RefreshReadRevoking(c) ==
  /\ ~InFlight(c)
  /\ \E t \in held :
       /\ Usable(t)
       /\ call' = [call EXCEPT ![c] = [pc |-> "create", token |-> t, child |-> 0]]
       /\ revoked' = revoked \cup {t}
       /\ contested' = Noted(t)
  /\ UNCHANGED <<created, expired, heir, root, held, ended, lost>>

\* The transaction's read and the checks on it.
RefreshRead(c) ==
  /\ ~InFlight(c)
  /\ \E t \in held :
       /\ Usable(t)
       /\ call' = [call EXCEPT ![c] = [pc |-> "create", token |-> t, child |-> 0]]
       /\ contested' = Noted(t)
  /\ UNCHANGED <<rows, held, ended, lost>>

RefreshCreate(c) ==
  /\ call[c].pc = "create"
  /\ NewToken(root[call[c].token])
  /\ call' = [call EXCEPT ![c].pc = "revoke", ![c].child = created + 1]
  /\ UNCHANGED <<expired, revoked, heir, held, contested, ended, lost>>

\* Mutant: nothing is revoked.
RefreshRevokeSkipped(c) ==
  /\ call[c].pc = "revoke"
  /\ heir' = [heir EXCEPT ![call[c].token] = call[c].child]
  /\ call' = [call EXCEPT ![c].pc = "answer"]
  /\ UNCHANGED <<created, expired, root, revoked, held, contested, ended, lost>>

\* revokeRefreshToken, with the new token as the heir.
RefreshRevoke(c) ==
  /\ call[c].pc = "revoke"
  /\ revoked' = revoked \cup {call[c].token}
  /\ heir' = [heir EXCEPT ![call[c].token] = call[c].child]
  /\ call' = [call EXCEPT ![c].pc = "answer"]
  /\ UNCHANGED <<created, expired, root, held, contested, ended, lost>>

\* The transaction ends and the client learns the new token.
RefreshAnswer(c) ==
  /\ call[c].pc = "answer"
  /\ held' = held \cup {call[c].child}
  /\ call' = [call EXCEPT ![c] = IdleCall]
  /\ UNCHANGED <<rows, contested, ended, lost>>

\* The transaction fails to commit, or the answer does not arrive.
RefreshAnswerLost(c) ==
  /\ call[c].pc = "answer"
  /\ lost' = lost \cup {root[call[c].token]}
  /\ call' = [call EXCEPT ![c] = IdleCall]
  /\ UNCHANGED <<rows, held, contested, ended>>

LogoutRead(c) ==
  /\ ~InFlight(c)
  /\ \E t \in held :
       /\ Usable(t)
       /\ call' = [call EXCEPT ![c] = [pc |-> "logout", token |-> t, child |-> 0]]
       /\ contested' = Noted(t)
  /\ UNCHANGED <<rows, held, ended, lost>>

\* revokeRefreshToken without an heir leaves replaceByToken as it is.
LogoutRevoke(c) ==
  /\ call[c].pc = "logout"
  /\ revoked' = revoked \cup {call[c].token}
  /\ ended' = ended \cup {root[call[c].token]}
  /\ call' = [call EXCEPT ![c] = IdleCall]
  /\ UNCHANGED <<created, expired, root, heir, held, contested, lost>>

\* A write fails and the call throws; what it wrote before stays.
Throw(c) ==
  /\ call[c].pc \in {"create", "revoke", "logout"}
  /\ contested' = IF call[c].pc = "revoke" THEN contested \cup {root[call[c].token]}
                  ELSE contested
  /\ call' = [call EXCEPT ![c] = IdleCall]
  /\ UNCHANGED <<rows, held, ended, lost>>

-----------------------------------------------------------------------------
(* The world.                                                              *)

\* The next token in line expires.
Expire ==
  /\ expired < created
  /\ expired' = expired + 1
  /\ UNCHANGED <<created, revoked, heir, root, held, call, contested, ended, lost>>

\* The process stops and is started again: calls are gone, rows stay.
Crash ==
  /\ \E c \in Calls : InFlight(c)
  /\ call' = [c \in Calls |-> IdleCall]
  /\ contested' = contested \cup
       {root[call[c].token] : c \in {c \in Calls : call[c].pc = "revoke"}}
  /\ lost' = lost \cup
       {root[call[c].token] : c \in {c \in Calls : call[c].pc = "answer"}}
  /\ UNCHANGED <<rows, held, ended>>

Next ==
  \/ Login \/ Expire \/ Crash
  \/ \E c \in Calls : \/ RefreshRead(c) \/ RefreshCreate(c) \/ RefreshRevoke(c)
                      \/ RefreshAnswer(c) \/ RefreshAnswerLost(c)
                      \/ LogoutRead(c) \/ LogoutRevoke(c) \/ Throw(c)

Spec == Init /\ [][Next]_vars

-----------------------------------------------------------------------------
(* Properties.                                                             *)

TypeOK ==
  /\ created \in 0..MaxToken /\ expired \in 0..created
  /\ revoked \subseteq 1..created /\ held \subseteq 1..created
  /\ heir \in [Tokens -> 0..MaxToken] /\ root \in [Tokens -> 0..MaxToken]
  /\ \A t \in Tokens : root[t] <= t /\ (root[t] # 0 <=> t <= created)
  /\ call \in [Calls -> CallStates]
  /\ \A c \in Calls : /\ InFlight(c) => call[c].token \in 1..created
                      /\ call[c].pc \in {"revoke", "answer"} => call[c].child \in 1..created
  /\ contested \subseteq Tokens /\ ended \subseteq Tokens /\ lost \subseteq Tokens

\* A family has one token to go on with: two that are not revoked take two
\* calls that overlapped on one token, or a refresh that stopped half-way.
OneLiveToken ==
  \A r \in Tokens \ (contested \cup Busy) :
    \A t, u \in Family(r) \ revoked : t = u

\* A logout ends the family, with the same exceptions: no token of it is left.
LogoutEndsFamily ==
  \A r \in ended \ (contested \cup Busy) : Family(r) \subseteq revoked

\* Following replaceByToken from the login reaches every token of the family.
LineageIsRecorded ==
  \A r \in Tokens \ (contested \cup Busy) :
    \A u \in Family(r) : u # r => \E t \in Family(r) : t < u /\ heir[t] = u

\* Whoever lost no answer and did not log out still holds a token that was not
\* revoked, or is about to receive it, whatever overlapped or stopped.
SessionSurvives ==
  \A r \in Tokens \ (ended \cup lost) : root[r] = r =>
    \E t \in Family(r) \ revoked :
      t \in held \/ \E c \in Calls : call[c].pc = "answer" /\ call[c].child = t


-----------------------------------------------------------------------------
(* The sessions behind the tokens.                                         *)

Phase(r) ==
  IF Family(r) = {} THEN "none" ELSE
  IF r \in contested THEN "torn" ELSE
  IF r \in ended THEN "over" ELSE "open"

\* The oldest token that was not revoked: while a refresh is between its two
\* writes the new token is there and has reached nobody.
Live(r) ==
  IF r \in contested THEN {}
  ELSE {t \in Family(r) \ revoked : \A u \in Family(r) \ revoked : t <= u}

Sessions == INSTANCE Sessions WITH
  phase <- [r \in Tokens |-> Phase(r)],
  live <- [r \in Tokens |-> Live(r)]

\* Each login is a session: one token to go on with, replaced by younger ones in
\* one step whatever lies between the writes of a refresh, gone after a logout.
ImplementsSessions == Sessions!Spec
=============================================================================
