--------------------------- MODULE Accounts_proofs ---------------------------
(***************************************************************************)
(* Tokens, providers and confirmed addresses of Accounts, for any number   *)
(* of users, calls and tokens.  A token row is never forgotten and never   *)
(* active again (Steady), so what a call found of it still holds later; a  *)
(* call finds the login it created unless it was told otherwise (Linked);  *)
(* and what could still confirm an address was meant for it (Fits).        *)
(***************************************************************************)
EXTENDS Accounts, SequenceTheorems, TLAPS

-----------------------------------------------------------------------------
(* The inductive strengthening.                                            *)

\* A token: a call that was answered has left nothing out, and it is there while
\* its user is.
TokenOK(t) ==
  /\ tokens[t].answered => /\ tokens[t].state # "active"
                           /\ tokens[t].type = "ResetPassword" => tokens[t].stamped
  /\ tokens[t].state = "gone" => tokens[t].type # "ResetPassword"
  /\ row[tokens[t].user].state # "new"
  /\ tokens[t].state # "gone" <=> Live(tokens[t].user)

\* What a call holds: its user, its token and its profile.
Shape(h) ==
  /\ h.pc \in {"write", "issue"} => h.user \in Users /\ row[h.user].state # "new"
  /\ h.pc = "issue" => h.op \in {"verify", "forgot"}
  /\ h.pc = "write" => h.op = "verify"
  /\ h.pc \in {"count", "effect", "findToken", "revoke", "revoked", "ok"} => h.op \in DOMAIN TypeOf
  /\ h.pc = "count" => h.op = "link"
  /\ h.effect => /\ h.op \in DOMAIN TypeOf
                 /\ h.pc \in {"findToken", "revoke", "revoked", "findUser", "ok", "error"}
  /\ h.op \in DOMAIN TypeOf => h.token \in DOMAIN tokens
  /\ h.op = "link" \/ h.pc \in {"count", "findUser", "create"} => h.profile \in Profiles
  /\ h.pc = "findUser" => h.op \in {"link", "login"}
  /\ h.pc \in {"findToken", "revoke", "revoked"} => h.effect
  /\ h.pc = "findUser" /\ h.op = "link" => h.effect
  /\ h.pc \in {"findToken", "revoke", "revoked"} /\ h.op = "reset" => h.stamp # "none"
  /\ h.stamp # "none" => h.op = "reset"

\* What a call has done of what its token is for.
Spent(h) ==
  /\ h.pc \in {"revoked", "ok"} \/ (h.pc = "findUser" /\ h.op = "link")
     => tokens[h.token].state # "active"
  /\ h.op \in DOMAIN TypeOf /\ tokens[h.token].state # "gone" =>
       /\ tokens[h.token].type = TypeOf[h.op]
       /\ h.stamp = "done" => tokens[h.token].stamped
  /\ ~h.late

\* A link call finds the login it created, unless that was taken away.
Linked(h) ==
  h.op = "link" /\ ~h.unlinked =>
    /\ h.pc \in {"findToken", "revoke", "findUser"} => <<tokens[h.token].user, h.profile>> \in logins
    /\ h.pc = "ok" => h.user = tokens[h.token].user

Good(h) == Shape(h) /\ Spent(h) /\ Linked(h)

\* The address u has, if it matters.
Stands(u) == u \notin mixed /\ Live(u)

\* What could still confirm an address was meant for the one that stands.
TokenFits(t) ==
  Active(t, "VerifyEmail") /\ Stands(tokens[t].user) => tokens[t].to = row[tokens[t].user].email
CallFits(h) ==
  /\ h.pc = "issue" /\ h.op = "verify" /\ Stands(h.user) => h.email = row[h.user].email
  /\ h.pc = "effect" /\ h.op = "confirm" /\ Stands(tokens[h.token].user)
     => tokens[h.token].to = row[tokens[h.token].user].email

TokensInv == \A t \in DOMAIN tokens : TokenOK(t) /\ TokenFits(t)
CallsInv == \A c \in Calls : Good(call[c]) /\ CallFits(call[c])
ConfirmedInv == \A u \in Users : row[u].confirmed => Live(u) /\ (u \in mixed \/ u \in proved)

IInv == TypeOK /\ TokensInv /\ CallsInv /\ ConfirmedInv

-----------------------------------------------------------------------------
(* Steps in general.                                                       *)

\* Token rows stay, keep their user and what was done by them, and are active or
\* whole only if they were.
Steady ==
  \A t \in DOMAIN tokens :
    /\ t \in DOMAIN tokens' /\ tokens'[t].user = tokens[t].user
    /\ tokens'[t].state = "active" => tokens[t].state = "active"
    /\ tokens'[t].state # "gone" => /\ tokens[t].state # "gone" /\ tokens'[t].to = tokens[t].to
                                    /\ tokens'[t].type = tokens[t].type
                                    /\ tokens[t].stamped => tokens'[t].stamped

\* A user who was created stays so, or goes.
Aged == \A u \in Users : row[u].state # "new" => row'[u].state \in {row[u].state, "gone"}

\* An address that stands is the one that stood.
SameMail ==
  \A u \in Users : row[u].state # "new" /\ Stands(u)' => Stands(u) /\ row'[u].email = row[u].email

LEMMA Ops ==
  /\ DOMAIN TypeOf = {"confirm", "reset", "link"}
  /\ TypeOf["confirm"] = "VerifyEmail" /\ TypeOf["reset"] = "ResetPassword"
  /\ TypeOf["link"] = "LinkProviderLogin"
  BY DEF TypeOf

LEMMA TokensTyped ==
  ASSUME TypeOK
  PROVE  /\ Len(tokens) \in Nat /\ DOMAIN tokens = 1..Len(tokens)
         /\ \A t \in DOMAIN tokens : tokens[t] \in TokenRows
  BY DEF TypeOK

\* The field of a token row is written.
LEMMA TokenSet ==
  ASSUME TypeOK, NEW t \in DOMAIN tokens, NEW r \in TokenRows, tokens' = [tokens EXCEPT ![t] = r],
         r.user = tokens[t].user, r.type = tokens[t].type, r.to = tokens[t].to,
         r.state = "gone" <=> tokens[t].state = "gone",
         r.state = "active" => tokens[t].state = "active",
         tokens[t].stamped => r.stamped
  PROVE  /\ tokens' \in Seq(TokenRows) /\ DOMAIN tokens' = DOMAIN tokens
         /\ \A s \in DOMAIN tokens : tokens'[s] = IF s = t THEN r ELSE tokens[s]
         /\ Steady
<1>1. tokens \in Seq(TokenRows) /\ t \in 1..Len(tokens) /\ DOMAIN tokens = 1..Len(tokens)
  BY TokensTyped DEF TypeOK
<1>2. tokens' \in Seq(TokenRows) /\ DOMAIN tokens' = DOMAIN tokens
  BY <1>1, ExceptSeq
<1>3. \A s \in DOMAIN tokens : tokens'[s] = IF s = t THEN r ELSE tokens[s]
  BY <1>1
<1> QED
  BY <1>2, <1>3 DEF Steady

\* A token is created.
LEMMA TokenAdd ==
  ASSUME TypeOK, NEW r \in TokenRows, tokens' = Append(tokens, r)
  PROVE  /\ tokens' \in Seq(TokenRows) /\ DOMAIN tokens' = DOMAIN tokens \cup {Len(tokens) + 1}
         /\ \A s \in DOMAIN tokens : tokens'[s] = tokens[s]
         /\ tokens'[Len(tokens) + 1] = r /\ Len(tokens) + 1 \notin DOMAIN tokens
         /\ Steady
<1>1. /\ tokens \in Seq(TokenRows) /\ DOMAIN tokens = 1..Len(tokens) /\ Len(tokens) \in Nat
  BY TokensTyped DEF TypeOK
<1>2. tokens' \in Seq(TokenRows) /\ Len(tokens') = Len(tokens) + 1
  BY <1>1
<1>3. DOMAIN tokens' = 1..(Len(tokens) + 1)
  BY <1>2
<1>4. /\ \A s \in DOMAIN tokens : tokens'[s] = tokens[s]
      /\ tokens'[Len(tokens) + 1] = r /\ Len(tokens) + 1 \notin DOMAIN tokens
  BY <1>1
<1>5. DOMAIN tokens' = DOMAIN tokens \cup {Len(tokens) + 1}
  BY <1>1, <1>3
<1> QED
  BY <1>2, <1>4, <1>5 DEF Steady

LEMMA SameSteady ==
  ASSUME IInv, UNCHANGED tokens,
         \A u \in Users : (Live(u)' <=> Live(u)) /\ (row[u].state # "new" => row'[u].state # "new")
  PROVE  Steady /\ CallStates' = CallStates /\ \A t \in DOMAIN tokens' : TokenOK(t)'
<1>1. Steady /\ CallStates' = CallStates
  BY DEF Steady, CallStates
<1>2. ASSUME NEW t \in DOMAIN tokens' PROVE TokenOK(t)'
  <2>1. t \in DOMAIN tokens /\ TokenOK(t) /\ tokens[t].user \in Users
    BY TokensTyped DEF IInv, TokensInv, TokenRows
  <2> QED
    BY <2>1 DEF TokenOK
<1> QED
  BY <1>1, <1>2

LEMMA NoCallGood ==
  NoCall \in CallStates /\ Good(NoCall) /\ CallFits(NoCall) /\ ~NoCall.effect /\ NoCall.pc = "idle"
  BY Ops DEF NoCall, CallStates, Good, Shape, Spent, Linked, CallFits

\* What a call holds stays good while tokens are steady, users age and logins stay.
LEMMA GoodStays ==
  ASSUME TypeOK, Steady, Aged, logins \subseteq logins', NEW h, Good(h)
  PROVE  Good(h)'
<1>1. Shape(h)'
  BY DEF Good, Shape, Steady, Aged
<1>2. Spent(h)'
  BY Ops DEF Good, Shape, Spent, Steady, Active
<1>3. Linked(h)'
  BY Ops DEF Good, Shape, Linked, Steady
<1> QED
  BY <1>1, <1>2, <1>3 DEF Good

LEMMA FitsStay ==
  ASSUME TypeOK, TokensInv, Steady, SameMail, \A t \in DOMAIN tokens' : TokenOK(t)',
         NEW h, Good(h), CallFits(h)
  PROVE  CallFits(h)'
<1>1. h.pc = "issue" /\ h.op = "verify" /\ Stands(h.user)' => h.email = row'[h.user].email
  BY DEF Good, Shape, CallFits, SameMail
<1>2. ASSUME h.pc = "effect", h.op = "confirm", Stands(tokens[h.token].user)'
      PROVE  tokens'[h.token].to = row'[tokens'[h.token].user].email
  <2>1. h.token \in DOMAIN tokens /\ h.token \in DOMAIN tokens'
    BY <1>2, Ops DEF Good, Shape, Steady
  <2>2. PICK u : u = tokens[h.token].user
    OBVIOUS
  <2>3. u \in Users /\ row[u].state # "new" /\ tokens'[h.token].user = u
    BY <2>1, <2>2, TokensTyped DEF TokensInv, TokenOK, Steady, TokenRows
  <2>4. Stands(u)'
    BY <1>2, <2>3 DEF Stands, Live
  <2>5. tokens'[h.token].state # "gone"
    BY <2>1, <2>3, <2>4 DEF TokenOK, Stands
  <2>6. Stands(u) /\ row'[u].email = row[u].email
    BY <2>3, <2>4 DEF SameMail
  <2>7. tokens[h.token].to = row[u].email
    BY <1>2, <2>2, <2>6 DEF CallFits
  <2> QED
    BY <2>1, <2>3, <2>5, <2>6, <2>7 DEF Steady
<1> QED
  BY <1>1, <1>2 DEF CallFits

\* The tokens that were there still fit.
LEMMA TokensStay ==
  ASSUME TypeOK, TokensInv, Steady, SameMail, \A t \in DOMAIN tokens' : TokenOK(t)',
         \A t \in DOMAIN tokens' \ DOMAIN tokens : TokenFits(t)'
  PROVE  TokensInv'
<1> SUFFICES ASSUME NEW t \in DOMAIN tokens, t \in DOMAIN tokens', Active(t, "VerifyEmail")',
                    Stands(tokens[t].user)'
             PROVE  tokens'[t].to = row'[tokens'[t].user].email
  BY DEF TokensInv, TokenFits
<1>1. PICK u : u = tokens[t].user
  OBVIOUS
<1>2. u \in Users /\ row[u].state # "new" /\ tokens'[t].user = u
  BY <1>1, TokensTyped DEF TokensInv, TokenOK, Steady, TokenRows
<1>3. Stands(u) /\ row'[u].email = row[u].email
  BY <1>2 DEF SameMail
<1>4. Active(t, "VerifyEmail") /\ tokens'[t].to = tokens[t].to
  BY DEF Active, Steady
<1> QED
  BY <1>1, <1>2, <1>3, <1>4 DEF TokensInv, TokenFits

\* One call moves.
LEMMA OneCall ==
  ASSUME IInv, Steady, Aged, SameMail, logins \subseteq logins',
         \A t \in DOMAIN tokens' : TokenOK(t)',
         NEW c \in Calls, NEW h, h \in CallStates', Good(h)', CallFits(h)',
         call' = [call EXCEPT ![c] = h]
  PROVE  CallsInv' /\ call' \in [Calls -> CallStates']
<1>1. call \in [Calls -> CallStates] /\ TypeOK /\ TokensInv
  BY DEF IInv, TypeOK
<1>2. CallStates \subseteq CallStates'
  BY DEF Steady, CallStates
<1>3. \A d \in Calls : call'[d] = IF d = c THEN h ELSE call[d]
  BY <1>1
<1>4. call' \in [Calls -> CallStates']
  BY <1>1, <1>2
<1>5. CallsInv'
  <2> SUFFICES ASSUME NEW d \in Calls, NEW g, g = call'[d] PROVE Good(g)' /\ CallFits(g)'
    BY DEF CallsInv
  <2>1. CASE d = c
    BY <2>1, <1>3
  <2>2. CASE d # c
    <3>1. Good(g) /\ CallFits(g)
      BY <2>2, <1>3 DEF IInv, CallsInv
    <3> QED
      BY <3>1, <1>1, GoodStays, FitsStay
  <2> QED
    BY <2>1, <2>2
<1> QED
  BY <1>4, <1>5

\* No call moves.
LEMMA NoCallMoves ==
  ASSUME IInv, Steady, Aged, SameMail, logins \subseteq logins',
         \A t \in DOMAIN tokens' : TokenOK(t)', UNCHANGED call
  PROVE  CallsInv' /\ call' \in [Calls -> CallStates']
<1>1. call \in [Calls -> CallStates] /\ TypeOK /\ TokensInv
  BY DEF IInv, TypeOK
<1>2. CallStates \subseteq CallStates'
  BY DEF Steady, CallStates
<1>3. CallsInv'
  <2> SUFFICES ASSUME NEW d \in Calls, NEW g, g = call'[d] PROVE Good(g)' /\ CallFits(g)'
    BY DEF CallsInv
  <2>1. Good(g) /\ CallFits(g)
    BY DEF IInv, CallsInv
  <2> QED
    BY <2>1, <1>1, GoodStays, FitsStay
<1> QED
  BY <1>1, <1>2, <1>3

\* Rows, logins and history are left alone.
LEMMA LeftAlone ==
  ASSUME IInv, UNCHANGED <<row, logins, mixed, proved>>
  PROVE  /\ Aged /\ SameMail /\ logins \subseteq logins' /\ ConfirmedInv'
         /\ TokensInv' /\ CallsInv' /\ call' \in [Calls -> CallStates'] /\ tokens' \in Seq(TokenRows)
            => IInv'
<1>1. Aged /\ SameMail /\ logins \subseteq logins' /\ ConfirmedInv'
  BY DEF Aged, SameMail, Stands, Live, ConfirmedInv, IInv
<1>2. call' \in [Calls -> CallStates'] /\ tokens' \in Seq(TokenRows) => TypeOK'
  BY DEF IInv, TypeOK, Live
<1> QED
  BY <1>1, <1>2 DEF IInv

LEMMA Answering ==
  ASSUME IInv, UNCHANGED <<row, logins, mixed, proved>>, Steady, tokens' \in Seq(TokenRows),
         \A t \in DOMAIN tokens' : TokenOK(t)',
         \A t \in DOMAIN tokens' \ DOMAIN tokens : TokenFits(t)',
         NEW c \in Calls, NEW h, h \in CallStates', Good(h)', CallFits(h)',
         call' = [call EXCEPT ![c] = h]
  PROVE  IInv'
<1>1. TypeOK /\ TokensInv
  BY DEF IInv
<1>2. Aged /\ SameMail /\ logins \subseteq logins'
  BY LeftAlone
<1>3. TokensInv'
  BY <1>1, <1>2, TokensStay
<1>4. CallsInv' /\ call' \in [Calls -> CallStates']
  BY <1>2, OneCall
<1> QED
  BY <1>3, <1>4, LeftAlone

\* Only a call moves.
LEMMA Moving ==
  ASSUME IInv, UNCHANGED <<row, tokens, logins, mixed, proved>>, NEW c \in Calls,
         NEW h \in CallStates, Good(h), CallFits(h), call' = [call EXCEPT ![c] = h]
  PROVE  IInv'
<1>1. TypeOK /\ TokensInv /\ tokens \in Seq(TokenRows)
  BY DEF IInv, TypeOK
<1>2. Steady
  BY DEF Steady
<1>3. \A t \in DOMAIN tokens' : TokenOK(t)'
  BY <1>1 DEF TokensInv, TokenOK, Live
<1>4. h \in CallStates'
  BY DEF CallStates
<1>5. Aged /\ SameMail /\ logins \subseteq logins'
  BY LeftAlone
<1>6. Good(h)' /\ CallFits(h)'
  BY <1>1, <1>2, <1>3, <1>5, GoodStays, FitsStay
<1> QED
  BY <1>1, <1>2, <1>3, <1>4, <1>6, Answering

\* What a handler that throws leaves behind.
Thrown(g) == IF g.stamp = "todo" THEN [g EXCEPT !.pc = "error"] ELSE NoCall

LEMMA ThrownGood ==
  ASSUME NEW g \in CallStates, Good(g)
  PROVE  Thrown(g) \in CallStates /\ Good(Thrown(g)) /\ CallFits(Thrown(g))
<1>1. CASE g.stamp # "todo"
  BY <1>1, NoCallGood DEF Thrown
<1>2. CASE g.stamp = "todo"
  <2> DEFINE h == [g EXCEPT !.pc = "error"]
  <2>1. /\ h \in CallStates /\ h.pc = "error" /\ h.op = g.op /\ h.token = g.token
        /\ h.effect = g.effect /\ h.profile = g.profile /\ h.late = g.late /\ h.stamp = g.stamp
    BY <1>2 DEF CallStates
  <2> HIDE DEF h
  <2>2. Good(h) /\ CallFits(h)
    BY <1>2, <2>1 DEF Good, Shape, Spent, Linked, CallFits
  <2> QED
    BY <1>2, <2>1, <2>2 DEF Thrown, h
<1> QED
  BY <1>1, <1>2

LEMMA Throwing ==
  ASSUME IInv, UNCHANGED <<row, tokens, logins, mixed, proved>>, NEW c \in Calls, Throw(c)
  PROVE  IInv'
<1>1. call[c] \in CallStates /\ Good(call[c])
  BY DEF IInv, TypeOK, CallsInv
<1>2. call' = [call EXCEPT ![c] = Thrown(call[c])]
  BY DEF Throw, Thrown
<1> DEFINE h == Thrown(call[c])
<1>3. h \in CallStates /\ Good(h) /\ CallFits(h)
  BY <1>1, ThrownGood
<1> HIDE DEF h
<1> QED
  BY <1>2, <1>3, Moving DEF h

-----------------------------------------------------------------------------
LEMMA InitInv == Init => IInv
<1> SUFFICES ASSUME Init PROVE IInv
  OBVIOUS
<1>1. /\ tokens = <<>> /\ logins = {} /\ mixed = {} /\ proved = {}
      /\ row = [u \in Users |-> [state |-> "new", email |-> None, confirmed |-> FALSE]]
  BY DEF Init
<1>2. /\ tokens \in Seq(TokenRows) /\ DOMAIN tokens = {}
  BY <1>1
<1>3. call \in [Calls -> CallStates] /\ \A c \in Calls : call[c] = NoCall
  BY NoCallGood DEF Init
<1>4. TypeOK
  BY <1>1, <1>2, <1>3 DEF TypeOK
<1>5. TokensInv /\ CallsInv /\ ConfirmedInv
  BY <1>1, <1>2, <1>3, NoCallGood DEF TokensInv, CallsInv, ConfirmedInv
<1> QED
  BY <1>4, <1>5 DEF IInv

-----------------------------------------------------------------------------
(* Handlers that begin, and steps that only move a call.                   *)

\* What is known of a call, and of the token it holds.
LEMMA Holding ==
  ASSUME IInv, NEW c \in Calls
  PROVE  /\ call[c] \in CallStates /\ Good(call[c]) /\ CallFits(call[c])
         /\ call[c].op \in DOMAIN TypeOf =>
              /\ call[c].token \in DOMAIN tokens /\ tokens[call[c].token] \in TokenRows
              /\ TokenOK(call[c].token) /\ TokenFits(call[c].token)
  BY TokensTyped DEF IInv, TypeOK, CallsInv, TokensInv, Good, Shape

LEMMA IssuersBegin ==
  ASSUME IInv, NEW c \in Calls, NEW u \in Users,
         \/ RequestVerifyEmail(c, u) \/ ForgotPassword(c, u)
         \/ \E e \in Emails : UpdateEmailRead(c, u, e)
  PROVE  IInv'
<1>1. row[u].email \in Emails \cup {None} /\ u # None
  BY ParameterAssumption DEF IInv, TypeOK
<1>2. ASSUME NEW pc \in {"issue", "write"}, NEW e \in Emails \cup {None},
             call' = [call EXCEPT ![c] = [NoCall EXCEPT !.pc = pc, !.op = "verify", !.user = u, !.email = e]],
             UNCHANGED <<row, tokens, logins, history>>, Live(u),
             pc = "issue" => e = row[u].email
      PROVE  IInv'
  <2> DEFINE h == [NoCall EXCEPT !.pc = pc, !.op = "verify", !.user = u, !.email = e]
  <2>1. /\ h.pc = pc /\ h.op = "verify" /\ h.user = u /\ h.email = e /\ ~h.effect /\ h.stamp = "none"
        /\ ~h.late
    BY DEF NoCall
  <2>2. h \in CallStates
    BY DEF NoCall, CallStates
  <2> HIDE DEF h
  <2>3. Good(h) /\ CallFits(h)
    BY <1>2, <2>1, Ops DEF Good, Shape, Spent, Linked, CallFits, Live
  <2>4. call' = [call EXCEPT ![c] = h] /\ UNCHANGED <<row, tokens, logins, mixed, proved>>
    BY <1>2 DEF h, history
  <2> QED
    BY <2>2, <2>3, <2>4, Moving
<1>3. CASE RequestVerifyEmail(c, u)
  BY <1>1, <1>2, <1>3 DEF RequestVerifyEmail
<1>4. CASE ForgotPassword(c, u)
  <2> DEFINE h == [NoCall EXCEPT !.pc = "issue", !.op = "forgot", !.user = u]
  <2>1. /\ h.pc = "issue" /\ h.op = "forgot" /\ h.user = u /\ ~h.effect /\ h.stamp = "none"
        /\ ~h.late
    BY DEF NoCall
  <2>2. h \in CallStates
    BY DEF NoCall, CallStates
  <2>3. call' = [call EXCEPT ![c] = h] /\ UNCHANGED <<row, tokens, logins, mixed, proved>> /\ Live(u)
    BY <1>4 DEF ForgotPassword, history
  <2> HIDE DEF h
  <2>4. Good(h) /\ CallFits(h)
    BY <2>1, <2>3, Ops DEF Good, Shape, Spent, Linked, CallFits, Live
  <2> QED
    BY <2>2, <2>3, <2>4, Moving
<1>5. ASSUME NEW e \in Emails, UpdateEmailRead(c, u, e) PROVE IInv'
  BY <1>2, <1>5 DEF UpdateEmailRead
<1> QED
  BY <1>3, <1>4, <1>5

\* A token that can be presented was never used up: the call is not late.
LEMMA GetTokenActiveInv ==
  ASSUME IInv, NEW c \in Calls, NEW op \in DOMAIN TypeOf, NEW t \in DOMAIN tokens,
         NEW p \in Profiles \cup {None}, GetTokenActive(c, op, t, p)
  PROVE  IInv'
<1> DEFINE h == [NoCall EXCEPT !.pc = IF op = "link" THEN "count" ELSE "effect",
                               !.op = op, !.token = t, !.profile = p,
                               !.late = tokens[t].answered]
<1>1. /\ call' = [call EXCEPT ![c] = h] /\ UNCHANGED <<row, tokens, logins, mixed, proved>>
      /\ Active(t, TypeOf[op]) /\ (op = "link" <=> p # None)
  BY DEF GetTokenActive, history
<1>2. /\ h.pc = IF op = "link" THEN "count" ELSE "effect"
      /\ h.op = op /\ h.token = t /\ h.profile = p /\ h.late = tokens[t].answered /\ ~h.effect
      /\ h.stamp = "none"
  BY DEF NoCall
<1>3. TokenOK(t) /\ TokenFits(t) /\ tokens[t] \in TokenRows
  BY TokensTyped DEF IInv, TokensInv
<1>4. tokens[t].answered = FALSE
  BY <1>1, <1>3 DEF TokenOK, TokenRows, Active
<1>5. h \in CallStates
  BY <1>4 DEF NoCall, CallStates
<1> HIDE DEF h
<1>6. Good(h)
  BY <1>1, <1>2, <1>4, Ops DEF Good, Shape, Spent, Linked, Active
<1>7. CallFits(h)
  BY <1>1, <1>2, <1>3, Ops DEF CallFits, TokenFits
<1> QED
  BY <1>1, <1>5, <1>6, <1>7, Moving

LEMMA LoginInv == ASSUME IInv, NEW c \in Calls, NEW p \in Profiles, Login(c, p) PROVE IInv'
<1> DEFINE h == [NoCall EXCEPT !.pc = "findUser", !.op = "login", !.profile = p]
<1>1. call' = [call EXCEPT ![c] = h] /\ UNCHANGED <<row, tokens, logins, mixed, proved>>
  BY DEF Login, history
<1>2. /\ h.pc = "findUser" /\ h.op = "login" /\ h.profile = p /\ ~h.effect /\ h.stamp = "none"
      /\ ~h.late
  BY DEF NoCall
<1>3. h \in CallStates
  BY DEF NoCall, CallStates
<1> HIDE DEF h
<1>4. Good(h) /\ CallFits(h)
  BY <1>2, Ops DEF Good, Shape, Spent, Linked, CallFits
<1> QED
  BY <1>1, <1>3, <1>4, Moving

LEMMA EndInv == ASSUME IInv, NEW c \in Calls, End(c) PROVE IInv'
  BY Moving, NoCallGood DEF End, Done, history

LEMMA FailInv == ASSUME IInv, NEW c \in Calls, Fail(c) PROVE IInv'
  BY Throwing DEF Fail, history

\* A call goes on, and holds what it held.
LEMMA Going ==
  ASSUME IInv, UNCHANGED <<row, tokens, logins, mixed, proved>>, NEW c \in Calls,
         NEW pc \in {"effect", "revoke"}, Goto(c, pc),
         call[c].pc = IF pc = "effect" THEN "count" ELSE "findToken"
  PROVE  IInv'
<1> DEFINE g == call[c]
           h == [g EXCEPT !.pc = pc]
<1>1. g \in CallStates /\ Good(g)
  BY Holding
<1>2. call' = [call EXCEPT ![c] = h]
  BY DEF Goto
<1>3. /\ h \in CallStates /\ h.pc = pc /\ h.op = g.op /\ h.token = g.token /\ h.user = g.user
      /\ h.profile = g.profile /\ h.effect = g.effect /\ h.stamp = g.stamp /\ h.late = g.late
      /\ h.unlinked = g.unlinked /\ g.pc \in {"count", "findToken"} /\ (g.pc = "count" <=> pc = "effect")
  BY <1>1 DEF CallStates
<1> HIDE DEF h
<1>4. Good(h) /\ CallFits(h)
  BY <1>1, <1>3, Ops DEF Good, Shape, Spent, Linked, CallFits
<1> QED
  BY <1>2, <1>3, <1>4, Moving

LEMMA CountDuplicateInv == ASSUME IInv, NEW c \in Calls, CountDuplicate(c) PROVE IInv'
<1>1. call[c].pc = "count" /\ UNCHANGED <<row, tokens, logins, mixed, proved>>
  BY DEF CountDuplicate, history
<1>2. ~call[c].effect
  BY <1>1, Holding DEF Good, Shape
<1>3. CASE Throw(c)
  BY <1>1, <1>2, <1>3, Throwing
<1>4. CASE Goto(c, "effect")
  BY <1>1, <1>4, Going
<1> QED
  BY <1>3, <1>4 DEF CountDuplicate

LEMMA FindTokenInv == ASSUME IInv, NEW c \in Calls, FindToken(c) PROVE IInv'
<1>1. call[c].pc = "findToken" /\ UNCHANGED <<row, tokens, logins, mixed, proved>>
  BY DEF FindToken, history
<1>2. CASE Throw(c)
  BY <1>1, <1>2, Throwing
<1>3. CASE Goto(c, "revoke")
  BY <1>1, <1>3, Going
<1> QED
  BY <1>2, <1>3 DEF FindToken

\* A call takes effect.
LEMMA Effected ==
  ASSUME IInv, UNCHANGED tokens, NEW c \in Calls, call[c].pc = "effect", TakesEffect(c)
  PROVE  \E h \in CallStates :
           /\ call' = [call EXCEPT ![c] = h]
           /\ h.pc = "findToken" /\ h.op = call[c].op /\ h.token = call[c].token
           /\ h.profile = call[c].profile /\ h.unlinked = call[c].unlinked
           /\ Shape(h)' /\ Spent(h)' /\ CallFits(h)'
<1> DEFINE g == call[c]
           t == g.token
           s == IF g.op = "reset" THEN "todo" ELSE "none"
           h == [g EXCEPT !.pc = "findToken", !.effect = TRUE, !.stamp = s]
<1>1. call' = [call EXCEPT ![c] = h]
  BY DEF TakesEffect
<1>2. g \in CallStates /\ Good(g) /\ g.op \in DOMAIN TypeOf /\ t \in DOMAIN tokens
  BY Holding DEF Good, Shape
<1>3. s \in {"none", "todo"} /\ (g.op = "reset" => s = "todo") /\ (g.op # "reset" => s = "none")
  OBVIOUS
<1> HIDE DEF s
<1>4. /\ h \in CallStates /\ h.pc = "findToken" /\ h.op = g.op /\ h.token = t /\ h.effect
      /\ h.profile = g.profile /\ h.stamp = s /\ h.late = g.late /\ h.unlinked = g.unlinked
  BY <1>2, <1>3 DEF CallStates
<1> HIDE DEF h
<1>5. PICK k \in CallStates : k = h
  BY <1>4
<1>6. Shape(k)' /\ Spent(k)' /\ CallFits(k)'
  BY <1>2, <1>3, <1>4, <1>5, Ops DEF Good, Shape, Spent, CallFits
<1>7. /\ call' = [call EXCEPT ![c] = k]
      /\ k.pc = "findToken" /\ k.op = call[c].op /\ k.token = call[c].token
      /\ k.profile = call[c].profile /\ k.unlinked = call[c].unlinked
  BY <1>1, <1>4, <1>5
<1> QED
  BY <1>6, <1>7

LEMMA ResetPasswordInv == ASSUME IInv, NEW c \in Calls, ResetPassword(c) PROVE IInv'
<1>1. /\ call[c].pc = "effect" /\ call[c].op = "reset"
      /\ UNCHANGED <<row, tokens, logins, mixed, proved>>
      /\ TakesEffect(c) \/ Throw(c)
  BY DEF ResetPassword, history
<1>2. CASE Throw(c)
  BY <1>1, <1>2, Throwing
<1>3. CASE TakesEffect(c)
  <2>1. PICK h \in CallStates :
          /\ call' = [call EXCEPT ![c] = h]
          /\ h.pc = "findToken" /\ h.op = call[c].op /\ h.token = call[c].token
          /\ h.profile = call[c].profile /\ h.unlinked = call[c].unlinked
          /\ Shape(h)' /\ Spent(h)' /\ CallFits(h)'
    BY <1>1, <1>3, Effected
  <2>2. Steady /\ CallStates' = CallStates /\ \A t \in DOMAIN tokens' : TokenOK(t)'
    BY <1>1, <2>1, SameSteady DEF Live
  <2>3. Linked(h)'
    BY <1>1, <2>1 DEF Linked
  <2>4. tokens' \in Seq(TokenRows) /\ DOMAIN tokens' = DOMAIN tokens
    BY <1>1 DEF IInv, TypeOK
  <2> QED
    BY <1>1, <2>1, <2>2, <2>3, <2>4, Answering DEF Good
<1> QED
  BY <1>1, <1>2, <1>3

-----------------------------------------------------------------------------
(* Steps that write a token.                                               *)

\* A token is written by a call that is through with it.
LEMMA Writing ==
  ASSUME IInv, UNCHANGED <<row, logins, mixed, proved>>,
         NEW t \in DOMAIN tokens, NEW r \in TokenRows, tokens' = [tokens EXCEPT ![t] = r],
         r.user = tokens[t].user, r.type = tokens[t].type, r.to = tokens[t].to,
         r.state = "gone" <=> tokens[t].state = "gone",
         r.state = "active" => tokens[t].state = "active",
         r.answered => r.state # "active" /\ (r.type = "ResetPassword" => r.stamped),
         tokens[t].stamped => r.stamped
  PROVE  /\ tokens' \in Seq(TokenRows) /\ DOMAIN tokens' = DOMAIN tokens /\ Steady
         /\ tokens'[t] = r
         /\ \A s \in DOMAIN tokens' : TokenOK(s)'
         /\ \A s \in DOMAIN tokens' \ DOMAIN tokens : TokenFits(s)'
         /\ Aged /\ logins \subseteq logins' /\ CallStates \subseteq CallStates'
<1>1. TypeOK
  BY DEF IInv
<1>2. /\ tokens' \in Seq(TokenRows) /\ DOMAIN tokens' = DOMAIN tokens /\ Steady
      /\ \A s \in DOMAIN tokens : tokens'[s] = IF s = t THEN r ELSE tokens[s]
  BY <1>1, TokenSet
<1>3. \A s \in DOMAIN tokens' : TokenOK(s)'
  BY <1>2 DEF IInv, TokensInv, TokenOK, Live
<1>4. Aged /\ logins \subseteq logins'
  BY LeftAlone
<1>5. CallStates \subseteq CallStates'
  BY <1>2 DEF CallStates
<1> QED
  BY <1>2, <1>3, <1>4, <1>5

LEMMA ExpireInv == ASSUME IInv, NEW t \in DOMAIN tokens, Expire(t) PROVE IInv'
<1> DEFINE r == [tokens[t] EXCEPT !.state = "expired"]
<1>1. /\ tokens[t].state = "active" /\ tokens' = [tokens EXCEPT ![t] = r]
      /\ UNCHANGED <<row, logins, call, mixed, proved>>
  BY DEF Expire, history
<1>2. TypeOK /\ TokensInv /\ tokens[t] \in TokenRows
  BY TokensTyped DEF IInv
<1>3. /\ r \in TokenRows /\ r.user = tokens[t].user /\ r.type = tokens[t].type
      /\ r.to = tokens[t].to /\ r.state = "expired"
      /\ r.stamped = tokens[t].stamped /\ r.answered = tokens[t].answered
      /\ (r.answered /\ r.type = "ResetPassword" => r.stamped)
  BY <1>1, <1>2 DEF TokenRows, TokensInv, TokenOK
<1> HIDE DEF r
<1>4. /\ tokens' \in Seq(TokenRows) /\ Steady
      /\ \A s \in DOMAIN tokens' : TokenOK(s)'
      /\ \A s \in DOMAIN tokens' \ DOMAIN tokens : TokenFits(s)'
  BY <1>1, <1>3, Writing
<1>5. Aged /\ SameMail /\ logins \subseteq logins'
  BY <1>1, LeftAlone
<1>6. TokensInv'
  BY <1>2, <1>4, <1>5, TokensStay
<1>7. CallsInv' /\ call' \in [Calls -> CallStates']
  BY <1>1, <1>4, <1>5, NoCallMoves
<1> QED
  BY <1>1, <1>4, <1>6, <1>7, LeftAlone

\* A call is answered without an error, and is gone.
LEMMA AnsweredInv ==
  ASSUME IInv, UNCHANGED <<row, logins, mixed, proved>>, NEW c \in Calls, Done(c),
         NEW t \in DOMAIN tokens, NEW r \in TokenRows, tokens' = [tokens EXCEPT ![t] = r],
         r.user = tokens[t].user, r.type = tokens[t].type, r.to = tokens[t].to,
         r.state = "gone" <=> tokens[t].state = "gone", r.state # "active",
         r.answered /\ r.type = "ResetPassword" => r.stamped,
         tokens[t].stamped => r.stamped
  PROVE  IInv'
<1>1. /\ tokens' \in Seq(TokenRows) /\ Steady
      /\ \A s \in DOMAIN tokens' : TokenOK(s)'
      /\ \A s \in DOMAIN tokens' \ DOMAIN tokens : TokenFits(s)'
      /\ Aged /\ logins \subseteq logins' /\ CallStates \subseteq CallStates'
  BY Writing
<1>2. TypeOK /\ TokensInv /\ SameMail
  BY LeftAlone DEF IInv
<1>3. PICK h : h = NoCall
  OBVIOUS
<1>4. h \in CallStates' /\ Good(h)' /\ CallFits(h)'
  BY <1>1, <1>2, <1>3, NoCallGood, GoodStays, FitsStay
<1>5. call' = [call EXCEPT ![c] = h]
  BY <1>3 DEF Done
<1> QED
  BY <1>1, <1>4, <1>5, Answering

LEMMA StampInv == ASSUME IInv, NEW c \in Calls, Stamp(c) PROVE IInv'
<1> DEFINE g == call[c]
           t == g.token
<1>1. /\ g.stamp = "todo" /\ g \in CallStates /\ Good(g) /\ CallFits(g)
      /\ UNCHANGED <<row, logins, mixed, proved>>
  BY Holding DEF Stamp, history
<1>2. g.op = "reset" /\ g.op \in DOMAIN TypeOf
  BY <1>1, Ops DEF Good, Shape
<1>3. t \in DOMAIN tokens /\ tokens[t] \in TokenRows /\ TokenOK(t)
  BY <1>2, Holding
<1>4. PICK done \in BOOLEAN :
        /\ done => Live(tokens[t].user)
        /\ tokens' = IF done
                     THEN [tokens EXCEPT ![t].stamped = TRUE, ![t].answered = @ \/ g.pc = "revoked"]
                     ELSE tokens
        /\ IF g.pc \in {"revoked", "error"} THEN Done(c)
           ELSE call' = [call EXCEPT ![c].stamp = IF done THEN "done" ELSE "failed"]
  BY DEF Stamp
<1> DEFINE s == IF done THEN "done" ELSE "failed"
           h == [g EXCEPT !.stamp = s]
<1>5. s \in {"done", "failed"} /\ (done <=> s = "done")
  OBVIOUS
<1> HIDE DEF s
<1>6. /\ h \in CallStates /\ h.pc = g.pc /\ h.op = g.op /\ h.token = g.token
      /\ h.profile = g.profile /\ h.effect = g.effect /\ h.late = g.late /\ h.user = g.user
      /\ h.email = g.email /\ h.stamp = s /\ h.unlinked = g.unlinked
  BY <1>1, <1>5 DEF CallStates
<1>7. CASE ~done
  <2>1. UNCHANGED tokens
    BY <1>4, <1>7
  <2>2. CASE g.pc \in {"revoked", "error"}
    BY <1>1, <1>4, <2>1, <2>2, Moving, NoCallGood DEF Done
  <2>3. CASE g.pc \notin {"revoked", "error"}
    <3>1. call' = [call EXCEPT ![c] = h]
      BY <1>4, <2>3 DEF s
    <3> HIDE DEF h
    <3>2. Good(h) /\ CallFits(h)
      BY <1>1, <1>5, <1>6, <1>7, <2>3, Ops DEF Good, Shape, Spent, Linked, CallFits
    <3> QED
      BY <1>1, <1>6, <2>1, <3>1, <3>2, Moving
  <2> QED
    BY <2>2, <2>3
<1>8. CASE done
  <2> DEFINE r == [tokens[t] EXCEPT !.stamped = TRUE, !.answered = @ \/ g.pc = "revoked"]
  <2>1. tokens' = [tokens EXCEPT ![t] = r]
    BY <1>4, <1>8
  <2>2. (tokens[t].answered \/ g.pc = "revoked") \in BOOLEAN
    OBVIOUS
  <2>3. /\ r \in TokenRows /\ r.user = tokens[t].user /\ r.type = tokens[t].type
        /\ r.to = tokens[t].to /\ r.state = tokens[t].state
        /\ r.stamped /\ r.answered = (tokens[t].answered \/ g.pc = "revoked")
    BY <1>3, <2>2 DEF TokenRows
  <2>4. g.pc = "revoked" => tokens[t].state # "active"
    BY <1>1 DEF Good, Spent
  <2>5. r.answered => r.state # "active"
    BY <1>3, <2>3, <2>4 DEF TokenOK
  <2> HIDE DEF r
  <2>6. /\ tokens' \in Seq(TokenRows) /\ Steady /\ tokens'[t] = r /\ DOMAIN tokens' = DOMAIN tokens
        /\ \A q \in DOMAIN tokens' : TokenOK(q)'
        /\ \A q \in DOMAIN tokens' \ DOMAIN tokens : TokenFits(q)'
        /\ Aged /\ logins \subseteq logins' /\ CallStates \subseteq CallStates'
    <3> HIDE DEF t
    <3> QED
      BY <1>1, <1>3, <2>1, <2>3, <2>5, Writing
  <2>7. TypeOK /\ TokensInv /\ SameMail
    BY <1>1, LeftAlone DEF IInv
  <2>8. CASE g.pc \in {"revoked", "error"}
    <3>1. PICK k : k = NoCall
      OBVIOUS
    <3>2. k \in CallStates' /\ Good(k)' /\ CallFits(k)'
      BY <2>6, <2>7, <3>1, NoCallGood, GoodStays, FitsStay
    <3>3. call' = [call EXCEPT ![c] = k]
      BY <1>4, <2>8, <3>1 DEF Done
    <3> QED
      BY <1>1, <2>6, <3>2, <3>3, Answering
  <2>9. CASE g.pc \notin {"revoked", "error"}
    <3>1. call' = [call EXCEPT ![c] = h]
      BY <1>4, <2>9 DEF s
    <3> HIDE DEF h
    <3>2. PICK k : k = h
      OBVIOUS
    <3>3. Shape(k)' /\ CallFits(k)' /\ Linked(k)'
      BY <1>1, <1>2, <1>3, <1>5, <1>6, <2>6, <2>9, <3>2, Ops DEF Good, Shape, CallFits, Linked
    <3>4. Spent(k)'
      BY <1>1, <1>2, <1>3, <1>6, <2>3, <2>6, <2>9, <3>2, Ops DEF Good, Spent
    <3>5. k \in CallStates'
      BY <1>6, <2>6, <3>2
    <3> QED
      BY <1>1, <2>6, <3>1, <3>2, <3>3, <3>4, <3>5, Answering DEF Good
  <2> QED
    BY <2>8, <2>9
<1> QED
  BY <1>7, <1>8

LEMMA RevokeTokenInv == ASSUME IInv, NEW c \in Calls, RevokeToken(c) PROVE IInv'
<1> DEFINE g == call[c]
           t == g.token
           whole == Whole(g)
           r == [Revoked(tokens[t]) EXCEPT !.answered = @ \/ whole]
<1>1. g.pc = "revoke" /\ UNCHANGED <<row, logins, mixed, proved>>
  BY DEF RevokeToken, history
<1>2. g \in CallStates /\ Good(g) /\ g.op \in DOMAIN TypeOf /\ g.effect
  BY <1>1, Holding DEF Good, Shape
<1>3. t \in DOMAIN tokens /\ tokens[t] \in TokenRows /\ TokenOK(t)
  BY <1>2, Holding
<1>4. CASE tokens[t].state = "gone"
  <2>1. Throw(c) /\ UNCHANGED tokens
    BY <1>4 DEF RevokeToken
  <2> QED
    BY <1>1, <1>4, <2>1, Throwing
<1>5. CASE tokens[t].state # "gone"
  <2>1. tokens' = [tokens EXCEPT ![t] = r]
    BY <1>5 DEF RevokeToken
  <2>2. \/ whole /\ Done(c)
        \/ g.op = "link" /\ Goto(c, "findUser")
        \/ g.stamp = "todo" /\ Goto(c, "revoked")
        \/ g.stamp = "failed" /\ Throw(c)
    BY <1>5 DEF RevokeToken
  <2>3. (tokens[t].answered \/ whole) \in BOOLEAN
    OBVIOUS
  <2>4. /\ tokens[t].type = TypeOf[g.op]
        /\ g.stamp = "done" => tokens[t].stamped
        /\ g.op = "reset" => g.stamp # "none"
    BY <1>1, <1>2, <1>5 DEF Good, Shape, Spent
  <2>5. whole /\ tokens[t].type = "ResetPassword" => tokens[t].stamped
    BY <1>2, <2>4, Ops DEF Whole
  <2> HIDE DEF whole
  <2>6. /\ r \in TokenRows /\ r.user = tokens[t].user /\ r.type = tokens[t].type
        /\ r.to = tokens[t].to /\ r.state = "revoked" /\ r.stamped = tokens[t].stamped
        /\ r.answered = (tokens[t].answered \/ whole)
    BY <1>3, <2>3, <2>4 DEF TokenRows, Revoked
  <2>7. r.answered /\ r.type = "ResetPassword" => r.stamped
    BY <1>3, <2>5, <2>6 DEF TokenOK
  <2> HIDE DEF r
  <2>8. CASE Done(c)
    <3> HIDE DEF t
    <3> QED
      BY <1>1, <1>3, <1>5, <2>1, <2>6, <2>7, <2>8, AnsweredInv
  <2>9. ASSUME NEW h \in CallStates, h.op = g.op, h.token = t, h.profile = g.profile,
               h.late = g.late, h.effect = g.effect, h.stamp = g.stamp, h.unlinked = g.unlinked,
               \/ h.pc = "findUser" /\ g.op = "link"
               \/ h.pc = "revoked" /\ g.stamp = "todo",
               call' = [call EXCEPT ![c] = h]
        PROVE  IInv'
    <3>1. /\ tokens' \in Seq(TokenRows) /\ Steady /\ tokens'[t] = r /\ DOMAIN tokens' = DOMAIN tokens
          /\ \A s \in DOMAIN tokens' : TokenOK(s)'
          /\ \A s \in DOMAIN tokens' \ DOMAIN tokens : TokenFits(s)'
          /\ Aged /\ logins \subseteq logins' /\ CallStates \subseteq CallStates'
      <4> HIDE DEF t
      <4> QED
        BY <1>1, <1>3, <1>5, <2>1, <2>6, <2>7, Writing
    <3>2. Shape(h)'
      BY <1>2, <1>3, <2>9, <3>1, Ops DEF Good, Shape
    <3>3. Spent(h)'
      BY <1>2, <2>4, <2>6, <2>9, <3>1 DEF Good, Spent
    <3>4. Linked(h)'
      BY <1>1, <1>2, <1>3, <2>6, <2>9, <3>1, Ops DEF Good, Shape, Linked
    <3>5. CallFits(h)'
      BY <2>9 DEF CallFits
    <3> QED
      BY <1>1, <2>9, <3>1, <3>2, <3>3, <3>4, <3>5, Answering DEF Good
  <2>10. CASE g.op = "link" /\ Goto(c, "findUser")
    <3> DEFINE h == [g EXCEPT !.pc = "findUser"]
    <3>1. /\ h \in CallStates /\ h.op = g.op /\ h.token = t /\ h.profile = g.profile
          /\ h.late = g.late /\ h.effect = g.effect /\ h.stamp = g.stamp /\ h.unlinked = g.unlinked
          /\ h.pc = "findUser" /\ call' = [call EXCEPT ![c] = h]
      BY <1>2, <2>10 DEF CallStates, Goto
    <3> HIDE DEF h
    <3> QED
      BY <2>9, <2>10, <3>1
  <2>11. CASE g.stamp = "todo" /\ Goto(c, "revoked")
    <3> DEFINE h == [g EXCEPT !.pc = "revoked"]
    <3>1. /\ h \in CallStates /\ h.op = g.op /\ h.token = t /\ h.profile = g.profile
          /\ h.late = g.late /\ h.effect = g.effect /\ h.stamp = g.stamp /\ h.unlinked = g.unlinked
          /\ h.pc = "revoked" /\ call' = [call EXCEPT ![c] = h]
      BY <1>2, <2>11 DEF CallStates, Goto
    <3> HIDE DEF h
    <3> QED
      BY <2>9, <2>11, <3>1
  <2>12. g.stamp = "failed" /\ Throw(c) => Done(c)
    BY DEF Throw, Done
  <2> QED
    BY <2>2, <2>8, <2>10, <2>11, <2>12
<1> QED
  BY <1>4, <1>5

\* Of the accounts with the profile there is one, and it is the one that was linked.
LEMMA FindByProviderInv == ASSUME IInv, NEW c \in Calls, FindByProvider(c) PROVE IInv'
<1> DEFINE g == call[c]
           t == g.token
           r == [tokens[t] EXCEPT !.answered = TRUE]
<1>1. g.pc = "findUser" /\ UNCHANGED <<row, logins, mixed, proved>>
  BY DEF FindByProvider, history
<1>2. g \in CallStates /\ Good(g) /\ g.profile \in Profiles /\ g.op \in {"link", "login"}
  BY <1>1, Holding DEF Good, Shape
<1>3. g.op = "link" => /\ t \in DOMAIN tokens /\ tokens[t] \in TokenRows /\ TokenOK(t)
                       /\ tokens[t].state # "active" /\ g.effect
                       /\ tokens[t].type # "ResetPassword"
  BY <1>1, <1>2, Ops, Holding DEF Good, Shape, Spent, TokenOK
<1>4. g.op = "login" => ~g.effect
  BY <1>2, Ops DEF Good, Shape
<1>5. CASE g.op = "link" /\ Throw(c) /\ UNCHANGED tokens
  BY <1>1, <1>5, Throwing
<1>6. CASE g.op # "link" /\ Goto(c, "create") /\ UNCHANGED tokens
  <2> DEFINE h == [g EXCEPT !.pc = "create"]
  <2>1. /\ h \in CallStates /\ h.pc = "create" /\ h.op = g.op /\ h.profile = g.profile
        /\ h.effect = g.effect /\ h.stamp = g.stamp /\ h.late = g.late
        /\ call' = [call EXCEPT ![c] = h]
    BY <1>2, <1>6 DEF CallStates, Goto
  <2> HIDE DEF h
  <2>2. Good(h) /\ CallFits(h)
    BY <1>2, <1>4, <1>6, <2>1, Ops DEF Good, Shape, Spent, Linked, CallFits
  <2> QED
    BY <1>1, <1>6, <2>1, <2>2, Moving
<1>7. CASE Done(c) /\ UNCHANGED tokens
  BY <1>1, <1>7, Moving, NoCallGood DEF Done
<1>8. ASSUME NEW u \in Users, <<u, g.profile>> \in logins, g.op = "link",
             call' = [call EXCEPT ![c].pc = "ok", ![c].user = u],
             tokens' = [tokens EXCEPT ![t].answered = TRUE]
      PROVE  IInv'
  <2> PICK h : h = [g EXCEPT !.pc = "ok", !.user = u]
    OBVIOUS
  <2>0. /\ t \in DOMAIN tokens /\ tokens[t] \in TokenRows /\ tokens[t].state # "active"
        /\ tokens[t].type # "ResetPassword" /\ TokenOK(t)
    BY <1>3, <1>8
  <2>1. tokens' = [tokens EXCEPT ![t] = r] /\ call' = [call EXCEPT ![c] = h]
    BY <1>8
  <2>2. /\ r \in TokenRows /\ r.user = tokens[t].user /\ r.type = tokens[t].type
        /\ r.to = tokens[t].to /\ r.state = tokens[t].state
        /\ r.stamped = tokens[t].stamped
    BY <2>0 DEF TokenRows, TokenOK
  <2>3. /\ h \in CallStates /\ h.pc = "ok" /\ h.op = "link" /\ h.token = t /\ h.user = u
        /\ h.profile = g.profile /\ h.late = g.late /\ h.effect = g.effect /\ h.stamp = g.stamp
        /\ h.unlinked = g.unlinked
    BY <1>2, <1>8 DEF CallStates
  <2> HIDE DEF r
  <2>4. /\ tokens' \in Seq(TokenRows) /\ Steady /\ tokens'[t] = r /\ DOMAIN tokens' = DOMAIN tokens
        /\ \A s \in DOMAIN tokens' : TokenOK(s)'
        /\ \A s \in DOMAIN tokens' \ DOMAIN tokens : TokenFits(s)'
        /\ CallStates \subseteq CallStates'
    <3> HIDE DEF t
    <3> QED
      BY <1>1, <2>0, <2>1, <2>2, Writing
  <2>5. Shape(h)'
    BY <1>2, <1>3, <1>8, <2>3, <2>4, Ops DEF Good, Shape
  <2>6. Spent(h)'
    BY <1>2, <1>3, <1>8, <2>2, <2>3, <2>4 DEF Good, Spent, Active
  <2>7. Linked(h)'
    <3> SUFFICES ASSUME ~h.unlinked PROVE u = tokens'[t].user
      BY <2>3 DEF Linked
    <3>1. <<tokens[t].user, g.profile>> \in logins
      BY <1>1, <1>2, <1>8, <2>3 DEF Good, Linked
    <3>2. <<u, g.profile>> = <<tokens[t].user, g.profile>>
      BY <1>8, <3>1 DEF IInv, TypeOK
    <3> QED
      BY <2>2, <2>4, <3>2
  <2>8. CallFits(h)'
    BY <2>3 DEF CallFits
  <2> QED
    BY <1>1, <2>1, <2>3, <2>4, <2>5, <2>6, <2>7, <2>8, Answering DEF Good
<1> QED
  BY <1>5, <1>6, <1>7, <1>8 DEF FindByProvider
-----------------------------------------------------------------------------
(* Steps that create a token.                                              *)

\* A token of a user who is there fits, if it is mailed to the address that stands.
LEMMA Creating ==
  ASSUME IInv, UNCHANGED <<row, logins, mixed, proved>>, NEW u \in Users, Live(u),
         NEW type \in Types, NEW to \in Emails \cup {None}, GenerateToken(u, type, to),
         type = "VerifyEmail" /\ Stands(u) => to = row[u].email
  PROVE  /\ tokens' \in Seq(TokenRows) /\ Steady
         /\ \A s \in DOMAIN tokens' : TokenOK(s)'
         /\ \A s \in DOMAIN tokens' \ DOMAIN tokens : TokenFits(s)'
<1> DEFINE r == [user |-> u, type |-> type, to |-> to, state |-> "active",
                  stamped |-> FALSE, answered |-> FALSE]
<1>1. r \in TokenRows /\ r.user = u /\ r.type = type /\ r.to = to /\ r.state = "active" /\ ~r.answered
  BY DEF TokenRows
<1>2. tokens' = Append(tokens, r)
  BY DEF GenerateToken
<1> HIDE DEF r
<1>3. /\ tokens' \in Seq(TokenRows) /\ DOMAIN tokens' = DOMAIN tokens \cup {Len(tokens) + 1}
      /\ \A s \in DOMAIN tokens : tokens'[s] = tokens[s]
      /\ tokens'[Len(tokens) + 1] = r
      /\ Steady
  BY <1>1, <1>2, TokenAdd DEF IInv
<1>4. ASSUME NEW s \in DOMAIN tokens' PROVE TokenOK(s)'
  <2>1. CASE s \in DOMAIN tokens
    BY <1>3, <2>1 DEF IInv, TokensInv, TokenOK, Live
  <2>2. CASE s = Len(tokens) + 1
    <3>1. tokens'[s] = r
      BY <1>3, <2>2
    <3> QED
      BY <1>1, <3>1 DEF TokenOK, Live
  <2> QED
    BY <1>3, <2>1, <2>2
<1>5. ASSUME NEW s \in DOMAIN tokens' \ DOMAIN tokens PROVE TokenFits(s)'
  <2>1. tokens'[s] = r
    BY <1>3, <1>5
  <2> QED
    BY <1>1, <2>1 DEF TokenFits, Stands, Live, Active
<1> QED
  BY <1>3, <1>4, <1>5

LEMMA LinkTokenInv == ASSUME IInv, NEW u \in Users, LinkToken(u) PROVE IInv'
<1>1. /\ Live(u) /\ GenerateToken(u, "LinkProviderLogin", None)
      /\ UNCHANGED <<row, logins, call, mixed, proved>>
  BY DEF LinkToken, history
<1>2. /\ tokens' \in Seq(TokenRows) /\ Steady
      /\ \A s \in DOMAIN tokens' : TokenOK(s)'
      /\ \A s \in DOMAIN tokens' \ DOMAIN tokens : TokenFits(s)'
  BY <1>1, Creating DEF Types
<1>3. Aged /\ SameMail /\ logins \subseteq logins' /\ TypeOK /\ TokensInv
  BY <1>1, LeftAlone DEF IInv
<1>4. TokensInv'
  BY <1>2, <1>3, TokensStay
<1>5. CallsInv' /\ call' \in [Calls -> CallStates']
  BY <1>1, <1>2, <1>3, NoCallMoves
<1> QED
  BY <1>1, <1>2, <1>4, <1>5, LeftAlone

LEMMA IssueInv == ASSUME IInv, NEW c \in Calls, Issue(c) PROVE IInv'
<1> DEFINE g == call[c]
           type == IF g.op = "forgot" THEN "ResetPassword" ELSE "VerifyEmail"
<1>1. g.pc = "issue" /\ Done(c) /\ UNCHANGED <<row, logins, mixed, proved>>
  BY DEF Issue, history
<1>2. /\ g \in CallStates /\ CallFits(g) /\ g.user \in Users /\ g.op \in {"verify", "forgot"}
      /\ g.email \in Emails \cup {None}
  BY <1>1, Holding DEF Good, Shape, CallStates
<1>3. CASE ~Live(g.user)
  BY <1>1, <1>3, Moving, NoCallGood DEF Issue, Done
<1>4. CASE Live(g.user)
  <2>1. GenerateToken(g.user, type, g.email)
    BY <1>4 DEF Issue
  <2>2. type \in Types /\ (type = "VerifyEmail" /\ Stands(g.user) => g.email = row[g.user].email)
    BY <1>1, <1>2 DEF Types, CallFits
  <2> HIDE DEF type
  <2>3. /\ tokens' \in Seq(TokenRows) /\ Steady
        /\ \A s \in DOMAIN tokens' : TokenOK(s)'
        /\ \A s \in DOMAIN tokens' \ DOMAIN tokens : TokenFits(s)'
    BY <1>1, <1>2, <1>4, <2>1, <2>2, Creating
  <2>4. Aged /\ SameMail /\ logins \subseteq logins' /\ TypeOK /\ TokensInv
    BY <1>1, LeftAlone DEF IInv
  <2>5. CallStates \subseteq CallStates'
    BY <2>3 DEF CallStates, Steady
  <2>6. PICK h : h = NoCall
    OBVIOUS
  <2>7. h \in CallStates' /\ Good(h)' /\ CallFits(h)'
    BY <2>3, <2>4, <2>5, <2>6, NoCallGood, GoodStays, FitsStay
  <2>8. call' = [call EXCEPT ![c] = h]
    BY <1>1, <2>6 DEF Done
  <2> QED
    BY <1>1, <2>3, <2>7, <2>8, Answering
<1> QED
  BY <1>3, <1>4

-----------------------------------------------------------------------------
(* Steps that write a user's row.                                          *)

\* The row of a user is written, tokens and the user's mail are as they were.
LEMMA RowSet ==
  ASSUME IInv, UNCHANGED tokens, UNCHANGED mixed, NEW u \in Users,
         NEW r \in [state : {"new", "live", "gone"}, email : Emails \cup {None}, confirmed : BOOLEAN],
         row' = [row EXCEPT ![u] = r],
         \/ row[u].state = "new" /\ r.state = "live"
         \/ row[u].state = r.state /\ row[u].email = r.email
  PROVE  /\ Steady /\ Aged /\ SameMail
         /\ \A s \in DOMAIN tokens' : TokenOK(s)'
         /\ TokensInv' /\ CallStates' = CallStates
         /\ row' \in [Users -> [state : {"new", "live", "gone"}, email : Emails \cup {None},
                                confirmed : BOOLEAN]]
         /\ \A v \in Users : row'[v] = IF v = u THEN r ELSE row[v]
         /\ \A v \in Users : Live(v) => Live(v)'
<1>1. TypeOK /\ TokensInv
  BY DEF IInv
<1>2. /\ row' \in [Users -> [state : {"new", "live", "gone"}, email : Emails \cup {None},
                                confirmed : BOOLEAN]]
      /\ \A v \in Users : row'[v] = IF v = u THEN r ELSE row[v]
  BY <1>1 DEF TypeOK
<1>3. Steady /\ Aged /\ SameMail
  <2>1. Steady
    BY DEF Steady
  <2>2. Aged
    BY <1>2 DEF Aged
  <2>3. SameMail
    BY <1>2 DEF SameMail, Stands, Live
  <2> QED
    BY <2>1, <2>2, <2>3
<1>4. \A s \in DOMAIN tokens' : TokenOK(s)'
  <2> SUFFICES ASSUME NEW s \in DOMAIN tokens', s \in DOMAIN tokens, tokens[s].user \in Users,
                      TokenOK(s)
               PROVE  TokenOK(s)'
    BY <1>1, TokensTyped DEF TokenRows, TokensInv
  <2>1. \/ row'[tokens[s].user].state = row[tokens[s].user].state
        \/ row[tokens[s].user].state = "new"
    BY <1>2
  <2> QED
    BY <2>1 DEF TokenOK, Live
<1>5. TokensInv'
  BY <1>1, <1>3, <1>4, TokensStay
<1>6. CallStates' = CallStates
  BY DEF CallStates
<1>7. \A v \in Users : Live(v) => Live(v)'
  BY <1>2 DEF Live
<1> QED
  BY <1>2, <1>3, <1>4, <1>5, <1>6, <1>7

LEMMA RegisterInv ==
  ASSUME IInv, NEW c \in Calls, NEW u \in Users, NEW e \in Emails \cup {None}, Register(c, u, e)
  PROVE  IInv'
<1> DEFINE r == [state |-> "live", email |-> e, confirmed |-> FALSE]
           h == [NoCall EXCEPT !.pc = "issue", !.op = "verify", !.user = u, !.email = e]
<1>1. /\ row[u].state = "new" /\ row' = [row EXCEPT ![u] = r]
      /\ UNCHANGED call \/ call' = [call EXCEPT ![c] = h]
      /\ UNCHANGED <<tokens, logins, mixed, proved>>
  BY DEF Register, history
<1>2. r \in [state : {"new", "live", "gone"}, email : Emails \cup {None}, confirmed : BOOLEAN]
      /\ r.state = "live" /\ r.email = e /\ ~r.confirmed
  OBVIOUS
<1>3. /\ h.pc = "issue" /\ h.op = "verify" /\ h.user = u /\ h.email = e /\ ~h.effect
      /\ h.stamp = "none" /\ ~h.late
  BY DEF NoCall
<1>4. h \in CallStates
  BY DEF NoCall, CallStates
<1> HIDE DEF r, h
<1>5. /\ Steady /\ Aged /\ SameMail /\ \A s \in DOMAIN tokens' : TokenOK(s)'
      /\ TokensInv' /\ CallStates' = CallStates
      /\ row' \in [Users -> [state : {"new", "live", "gone"}, email : Emails \cup {None},
                             confirmed : BOOLEAN]]
      /\ \A v \in Users : row'[v] = IF v = u THEN r ELSE row[v]
      /\ \A v \in Users : Live(v) => Live(v)'
  BY <1>1, <1>2, RowSet DEF IInv
<1>6. CallsInv' /\ call' \in [Calls -> CallStates']
  <2>1. CASE UNCHANGED call
    BY <1>1, <1>5, <2>1, NoCallMoves
  <2>2. CASE call' = [call EXCEPT ![c] = h]
    <3>1. PICK g : g = h
      OBVIOUS
    <3>2. Good(g)' /\ CallFits(g)'
      BY <1>2, <1>3, <1>5, <3>1, Ops DEF Good, Shape, Spent, Linked, CallFits
    <3> QED
      BY <1>1, <1>4, <1>5, <2>2, <3>1, <3>2, OneCall
  <2> QED
    BY <1>1, <2>1, <2>2
<1>7. TypeOK'
  BY <1>1, <1>5, <1>6 DEF IInv, TypeOK
<1>8. ConfirmedInv'
  BY <1>1, <1>2, <1>5 DEF IInv, ConfirmedInv
<1> QED
  BY <1>5, <1>6, <1>7, <1>8 DEF IInv

\* What confirms the address that stands was mailed to it.
LEMMA ConfirmEmailInv == ASSUME IInv, NEW c \in Calls, ConfirmEmail(c) PROVE IInv'
<1> DEFINE g == call[c]
           t == g.token
           u == tokens[t].user
           r == [row[u] EXCEPT !.confirmed = TRUE]
<1>1. g.pc = "effect" /\ g.op = "confirm" /\ UNCHANGED <<tokens, logins, mixed>>
  BY DEF ConfirmEmail
<1>2. g \in CallStates /\ Good(g) /\ CallFits(g)
  BY <1>1, Holding
<1>3. t \in DOMAIN tokens /\ u \in Users
  BY <1>1, Ops, Holding DEF TokenRows
<1>4. CASE ~Live(u)
  <2>1. Throw(c) /\ UNCHANGED <<row, proved>>
    BY <1>4 DEF ConfirmEmail
  <2> QED
    BY <1>1, <2>1, Throwing
<1>5. CASE Live(u)
  <2>1. /\ row' = [row EXCEPT ![u] = r] /\ TakesEffect(c)
        /\ proved' = IF tokens[t].to = row[u].email THEN proved \cup {u} ELSE proved
    BY <1>5 DEF ConfirmEmail
  <2>2. row[u] \in [state : {"new", "live", "gone"}, email : Emails \cup {None}, confirmed : BOOLEAN]
    BY <1>3 DEF IInv, TypeOK
  <2>3. /\ r \in [state : {"new", "live", "gone"}, email : Emails \cup {None}, confirmed : BOOLEAN]
        /\ r.state = row[u].state /\ r.email = row[u].email /\ r.confirmed
    BY <2>2
  <2>4. PICK h \in CallStates :
          /\ call' = [call EXCEPT ![c] = h]
          /\ h.pc = "findToken" /\ h.op = call[c].op /\ h.token = call[c].token
          /\ h.profile = call[c].profile /\ h.unlinked = call[c].unlinked
          /\ Shape(h)' /\ Spent(h)' /\ CallFits(h)'
    BY <1>1, <2>1, Effected
  <2>5. Stands(u) => tokens[t].to = row[u].email
    BY <1>1, <1>2 DEF CallFits
  <2> HIDE DEF r, u
  <2>6. /\ Steady /\ Aged /\ SameMail /\ \A s \in DOMAIN tokens' : TokenOK(s)'
        /\ TokensInv' /\ CallStates' = CallStates
        /\ row' \in [Users -> [state : {"new", "live", "gone"}, email : Emails \cup {None},
                               confirmed : BOOLEAN]]
        /\ \A v \in Users : row'[v] = IF v = u THEN r ELSE row[v]
        /\ \A v \in Users : Live(v) => Live(v)'
    BY <1>1, <1>3, <2>1, <2>3, <2>4, RowSet
  <2>7. Good(h)'
    BY <1>1, <2>4 DEF Good, Linked
  <2>8. CallsInv' /\ call' \in [Calls -> CallStates']
    BY <1>1, <2>4, <2>6, <2>7, OneCall
  <2>9. proved' \subseteq Users
    BY <1>3, <2>1 DEF IInv, TypeOK
  <2>10. TypeOK'
    BY <1>1, <2>4, <2>6, <2>8, <2>9 DEF IInv, TypeOK
  <2>11. ConfirmedInv'
    <3> SUFFICES ASSUME NEW v \in Users, row'[v].confirmed PROVE Live(v)' /\ (v \in mixed \/ v \in proved')
      BY <1>1 DEF ConfirmedInv
    <3>1. CASE v = u
      BY <1>5, <2>1, <2>5, <2>6, <3>1 DEF Stands
    <3>2. CASE v # u
      BY <2>1, <2>6, <3>2 DEF IInv, ConfirmedInv
    <3> QED
      BY <3>1, <3>2
  <2> QED
    BY <2>6, <2>8, <2>10, <2>11 DEF IInv
<1> QED
  BY <1>4, <1>5

\* Nothing that was meant for an earlier address is left, or the user is mixed.
LEMMA UpdateEmailWriteInv == ASSUME IInv, NEW c \in Calls, UpdateEmailWrite(c) PROVE IInv'
<1> DEFINE g == call[c]
           u == g.user
           e == g.email
           r == NewEmail(row[u], e)
           h == [g EXCEPT !.pc = "issue"]
<1>1. g.pc = "write" /\ UNCHANGED <<tokens, logins>>
  BY DEF UpdateEmailWrite
<1>2. /\ g \in CallStates /\ Good(g) /\ ~g.effect /\ g.op = "verify" /\ u \in Users
      /\ e \in Emails \cup {None} /\ g.stamp = "none"
  BY <1>1, Holding, Ops DEF Good, Shape, CallStates
<1>3. CASE ~Live(u)
  <2>1. Throw(c) /\ UNCHANGED <<row, mixed, proved>>
    BY <1>3 DEF UpdateEmailWrite, history
  <2> QED
    BY <1>1, <1>2, <2>1, Throwing
<1>4. CASE Live(u)
  <2>1. /\ row' = [row EXCEPT ![u] = r] /\ call' = [call EXCEPT ![c] = h]
        /\ mixed' = IF Outdated(u, e) THEN mixed \cup {u} ELSE mixed
        /\ proved' = proved \ {u}
    BY <1>4 DEF UpdateEmailWrite, Goto
  <2>2. row[u] \in [state : {"new", "live", "gone"}, email : Emails \cup {None}, confirmed : BOOLEAN]
    BY <1>2 DEF IInv, TypeOK
  <2>3. /\ r \in [state : {"new", "live", "gone"}, email : Emails \cup {None}, confirmed : BOOLEAN]
        /\ r.state = "live" /\ r.email = e /\ ~r.confirmed
    BY <1>2, <1>4, <2>2 DEF NewEmail, Live
  <2>4. /\ h \in CallStates /\ h.pc = "issue" /\ h.op = "verify" /\ h.user = u /\ h.email = e
        /\ ~h.effect /\ h.late = g.late /\ h.profile = g.profile /\ h.stamp = "none"
    BY <1>1, <1>2 DEF CallStates
  <2> HIDE DEF r, h
  <2>5. PICK k : k = h
    OBVIOUS
  <2>6. PICK v : v = u
    OBVIOUS
  <2>7. TypeOK /\ TokensInv /\ CallsInv
    BY DEF IInv
  <2>8. /\ row' \in [Users -> [state : {"new", "live", "gone"}, email : Emails \cup {None},
                               confirmed : BOOLEAN]]
        /\ \A w \in Users : row'[w] = IF w = v THEN r ELSE row[w]
    BY <2>1, <2>3, <2>6 DEF IInv, TypeOK
  <2>9. Steady /\ Aged /\ CallStates' = CallStates /\ (\A w \in Users : Live(w)' <=> Live(w))
    BY <1>1, <1>4, <2>3, <2>6, <2>8 DEF Steady, Aged, Live, CallStates
  <2>10. \A w \in Users \ {v} : (Stands(w)' <=> Stands(w)) /\ row'[w] = row[w]
    BY <2>1, <2>6, <2>8, <2>9 DEF Stands
  <2>11. Stands(v)' => ~Outdated(v, e) /\ row'[v].email = e
    BY <1>2, <2>1, <2>3, <2>6, <2>8 DEF Stands
  <2>12. \A d \in Calls : call'[d] = IF d = c THEN k ELSE call[d]
    BY <1>2, <2>1, <2>5, <2>7 DEF TypeOK
  <2>13. call' \in [Calls -> CallStates']
    BY <2>1, <2>4, <2>7, <2>9 DEF TypeOK
  <2>14. ASSUME NEW s \in DOMAIN tokens' PROVE TokenOK(s)' /\ TokenFits(s)'
    <3>1. s \in DOMAIN tokens /\ tokens'[s] = tokens[s] /\ tokens[s].user \in Users
          /\ s \in 1..Len(tokens) /\ TokenOK(s) /\ TokenFits(s)
      BY <1>1, <2>7, TokensTyped DEF TokenRows, TokensInv
    <3>2. TokenOK(s)'
      BY <1>1, <2>3, <2>8, <2>9, <3>1 DEF TokenOK
    <3>3. TokenFits(s)'
      <4> SUFFICES ASSUME Active(s, "VerifyEmail"), Stands(tokens[s].user)'
                   PROVE  tokens[s].to = row'[tokens[s].user].email
        BY <1>1, <3>1 DEF TokenFits, Active
      <4> PICK w \in Users : w = tokens[s].user
        BY <3>1
      <4>1. Stands(w)'
        BY <1>1 DEF Stands, Live
      <4>2. CASE w = v
        BY <2>11, <3>1, <4>1, <4>2 DEF Outdated
      <4>3. CASE w # v
        BY <2>10, <3>1, <4>1, <4>3 DEF TokenFits
      <4> QED
        BY <4>2, <4>3
    <3> QED
      BY <3>2, <3>3
  <2>15. ASSUME NEW d \in Calls, NEW q, q = call'[d] PROVE Good(q)' /\ CallFits(q)'
    <3>1. CASE d = c
      <4>1. q = k
        BY <2>12, <2>15, <3>1
      <4>2. Good(q)'
        BY <1>2, <2>3, <2>4, <2>5, <2>6, <2>8, <4>1, Ops DEF Good, Shape, Spent, Linked
      <4>3. CallFits(q)'
        BY <1>2, <2>3, <2>4, <2>5, <2>6, <2>8, <4>1 DEF CallFits
      <4> QED
        BY <4>2, <4>3
    <3>2. CASE d # c
      <4>1. q = call[d] /\ Good(q) /\ CallFits(q)
        BY <2>7, <2>12, <2>15, <3>2 DEF CallsInv
      <4>2. Good(q)'
        BY <1>1, <2>7, <2>9, <4>1, GoodStays
      <4>3. q.pc = "issue" /\ q.op = "verify" /\ Stands(q.user)' => q.email = row'[q.user].email
        <5> SUFFICES ASSUME q.pc = "issue", q.op = "verify", Stands(q.user)'
                     PROVE  q.email = row'[q.user].email
          OBVIOUS
        <5>1. q.user \in Users
          BY <4>1 DEF Good, Shape
        <5>2. CASE q.user = v
          <6>1. ~Outdated(v, e) /\ row'[v].email = e
            BY <2>11, <5>2 DEF Stands
          <6> QED
            BY <4>1, <5>2, <6>1 DEF Outdated
        <5>3. CASE q.user # v
          BY <2>10, <4>1, <5>1, <5>3 DEF CallFits
        <5> QED
          BY <5>2, <5>3
      <4>4. q.pc = "effect" /\ q.op = "confirm" /\ Stands(tokens[q.token].user)'
            => tokens[q.token].to = row'[tokens[q.token].user].email
        <5> SUFFICES ASSUME q.pc = "effect", q.op = "confirm", Stands(tokens[q.token].user)'
                     PROVE  tokens[q.token].to = row'[tokens[q.token].user].email
          OBVIOUS
        <5>1. PICK w : w = tokens[q.token].user
          OBVIOUS
        <5>2. w \in Users /\ Stands(w)'
          BY <1>1, <4>1, <5>1, Ops, Holding DEF TokenRows, Stands, Live
        <5>3. CASE w = v
          <6>1. ~Outdated(v, e) /\ row'[v].email = e
            BY <2>11, <5>2, <5>3
          <6> QED
            BY <4>1, <5>1, <5>3, <6>1 DEF Outdated
        <5>4. CASE w # v
          BY <2>10, <4>1, <5>1, <5>2, <5>4 DEF CallFits
        <5> QED
          BY <5>3, <5>4
      <4>5. CallFits(q)'
        BY <1>1, <4>3, <4>4 DEF CallFits
      <4> QED
        BY <4>2, <4>5
    <3> QED
      BY <3>1, <3>2
  <2>16. mixed' \subseteq Users /\ proved' \subseteq Users
    BY <1>2, <2>1, <2>7 DEF TypeOK
  <2>17. \A l \in logins : Live(l[1])'
    BY <2>7, <2>9 DEF TypeOK
  <2>18. TypeOK'
    BY <1>1, <2>7, <2>8, <2>13, <2>16, <2>17 DEF TypeOK
  <2>19. ConfirmedInv'
    BY <2>1, <2>3, <2>6, <2>8, <2>9 DEF IInv, ConfirmedInv
  <2>20. TokensInv' /\ CallsInv'
    BY <2>14, <2>15 DEF TokensInv, CallsInv
  <2> QED
    BY <2>18, <2>19, <2>20 DEF IInv
<1> QED
  BY <1>3, <1>4

-----------------------------------------------------------------------------
(* Steps that write logins.                                                *)

LEMMA LinkProviderInv == ASSUME IInv, NEW c \in Calls, LinkProvider(c) PROVE IInv'
<1> DEFINE g == call[c]
           t == g.token
           u == tokens[t].user
           p == g.profile
<1>1. g.pc = "effect" /\ g.op = "link" /\ UNCHANGED <<row, tokens, mixed, proved>>
  BY DEF LinkProvider, history
<1>2. g \in CallStates /\ Good(g) /\ p \in Profiles
  BY <1>1, Holding DEF Good, Shape
<1>3. t \in DOMAIN tokens /\ u \in Users
  BY <1>1, Ops, Holding DEF TokenRows
<1>4. CASE ~MayLink(u, p)
  <2>1. Throw(c) /\ UNCHANGED logins
    BY <1>4 DEF LinkProvider
  <2> QED
    BY <1>1, <2>1, Throwing
<1>5. CASE MayLink(u, p)
  <2>1. logins' = logins \cup {<<u, p>>} /\ TakesEffect(c)
    BY <1>5 DEF LinkProvider
  <2>2. PICK h \in CallStates :
          /\ call' = [call EXCEPT ![c] = h]
          /\ h.pc = "findToken" /\ h.op = call[c].op /\ h.token = call[c].token
          /\ h.profile = call[c].profile /\ h.unlinked = call[c].unlinked
          /\ Shape(h)' /\ Spent(h)' /\ CallFits(h)'
    BY <1>1, <2>1, Effected
  <2>4. TypeOK /\ TokensInv
    BY DEF IInv
  <2>5. Steady /\ CallStates' = CallStates /\ \A s \in DOMAIN tokens' : TokenOK(s)'
    BY <1>1, <2>2, SameSteady DEF Live
  <2>6. Aged /\ SameMail /\ logins \subseteq logins'
    BY <1>1, <2>1 DEF Aged, SameMail, Stands, Live
  <2>7. TokensInv'
    BY <1>1, <2>4, <2>5, <2>6, TokensStay
  <2>8. Good(h)'
    <3>1. Linked(h)'
      BY <1>1, <2>1, <2>2 DEF Linked
    <3> QED
      BY <2>2, <3>1 DEF Good
  <2>9. CallsInv' /\ call' \in [Calls -> CallStates']
    BY <2>2, <2>5, <2>6, <2>8, OneCall
  <2>10. /\ logins' \subseteq Users \X Profiles /\ \A l \in logins' : Live(l[1])
         /\ \A k1, l \in logins' : k1[2] = l[2] => k1 = l
    <3> HIDE DEF u, p
    <3>1. \A l \in logins : l \in Users \X Profiles /\ l = <<l[1], l[2]>> /\ l[2] # p
      BY <1>5, <2>4 DEF TypeOK, MayLink
    <3> QED
      BY <1>2, <1>3, <1>5, <2>1, <2>4, <3>1 DEF TypeOK, MayLink
  <2>11. TypeOK'
    BY <1>1, <2>2, <2>4, <2>9, <2>10 DEF TypeOK, Live
  <2>12. ConfirmedInv'
    BY <1>1 DEF IInv, ConfirmedInv, Live
  <2> QED
    BY <2>7, <2>9, <2>11, <2>12 DEF IInv
<1> QED
  BY <1>4, <1>5

LEMMA CreateUserInv == ASSUME IInv, NEW c \in Calls, CreateUser(c) PROVE IInv'
<1> DEFINE g == call[c]
           p == g.profile
<1>1. g.pc = "create" /\ UNCHANGED <<tokens, mixed>>
  BY DEF CreateUser
<1>2. g \in CallStates /\ Good(g) /\ ~g.effect /\ p \in Profiles
  BY <1>1, Holding DEF Good, Shape
<1>3. CASE \E u \in Users : <<u, p>> \in logins
  <2>1. Throw(c) /\ UNCHANGED <<row, logins, proved>>
    BY <1>3 DEF CreateUser
  <2> QED
    BY <1>1, <1>2, <2>1, Throwing
<1>4. CASE ~\E u \in Users : <<u, p>> \in logins
  <2>1. PICK u \in Users, e \in Emails \cup {None}, verified \in BOOLEAN :
          /\ row[u].state = "new"
          /\ row' = [row EXCEPT ![u] = [state |-> "live", email |-> e, confirmed |-> verified]]
          /\ logins' = logins \cup {<<u, p>>}
          /\ proved' = IF verified THEN proved \cup {u} ELSE proved
          /\ Done(c)
    BY <1>4 DEF CreateUser
  <2> DEFINE r == [state |-> "live", email |-> e, confirmed |-> verified]
  <2>2. /\ r \in [state : {"new", "live", "gone"}, email : Emails \cup {None}, confirmed : BOOLEAN]
        /\ r.state = "live" /\ r.confirmed = verified
    OBVIOUS
  <2>3. row' = [row EXCEPT ![u] = r]
    BY <2>1
  <2> HIDE DEF r
  <2>4. TypeOK /\ logins \subseteq logins'
    BY <2>1 DEF IInv
  <2>5. /\ Steady /\ Aged /\ SameMail /\ \A s \in DOMAIN tokens' : TokenOK(s)'
        /\ TokensInv' /\ CallStates' = CallStates
        /\ row' \in [Users -> [state : {"new", "live", "gone"}, email : Emails \cup {None},
                               confirmed : BOOLEAN]]
        /\ \A v \in Users : row'[v] = IF v = u THEN r ELSE row[v]
        /\ \A v \in Users : Live(v) => Live(v)'
    BY <1>1, <2>1, <2>2, <2>3, RowSet DEF IInv
  <2>6. PICK k : k = NoCall
    OBVIOUS
  <2>7. k \in CallStates' /\ Good(k)' /\ CallFits(k)'
    BY <2>4, <2>5, <2>6, NoCallGood, GoodStays, FitsStay DEF IInv
  <2>8. CallsInv' /\ call' \in [Calls -> CallStates']
    BY <2>1, <2>4, <2>5, <2>6, <2>7, OneCall DEF Done
  <2>9. Live(u)'
    BY <2>2, <2>5 DEF Live
  <2>10. /\ logins' \subseteq Users \X Profiles /\ \A l \in logins' : Live(l[1])'
         /\ \A k1, l \in logins' : k1[2] = l[2] => k1 = l
    <3> HIDE DEF p
    <3>1. \A l \in logins : l \in Users \X Profiles /\ l = <<l[1], l[2]>> /\ l[2] # p
      <4> SUFFICES ASSUME NEW l \in logins
                   PROVE  l \in Users \X Profiles /\ l = <<l[1], l[2]>> /\ l[2] # p
        OBVIOUS
      <4>1. l \in Users \X Profiles /\ l = <<l[1], l[2]>> /\ l[1] \in Users
        BY <2>4 DEF TypeOK
      <4>2. l[2] # p
        BY <1>4, <4>1
      <4> QED
        BY <4>1, <4>2
    <3>2. \A l \in logins : Live(l[1])'
      BY <2>4, <2>5, <3>1 DEF TypeOK
    <3> QED
      BY <1>2, <2>1, <2>4, <2>9, <3>1, <3>2 DEF TypeOK
  <2>11. proved' \subseteq Users
    BY <2>1, <2>4 DEF TypeOK
  <2>12. TypeOK'
    BY <1>1, <2>4, <2>5, <2>8, <2>10, <2>11 DEF TypeOK
  <2>13. ConfirmedInv'
    BY <1>1, <2>1, <2>2, <2>5, <2>9 DEF IInv, ConfirmedInv
  <2> QED
    BY <2>5, <2>8, <2>12, <2>13 DEF IInv
<1> QED
  BY <1>3, <1>4

\* Logins with the profiles ps are taken away, and the calls with one are told.
LEMMA Unlinking ==
  ASSUME TypeOK, Steady, Aged, NEW ps, \A l \in logins \ logins' : l[2] \in ps,
         NEW g \in CallStates, Good(g), NEW h,
         h = IF g.effect /\ g.profile \in ps THEN [g EXCEPT !.unlinked = TRUE] ELSE g
  PROVE  /\ h \in CallStates' /\ Good(h)' /\ (CallFits(g)' => CallFits(h)')
<1>1. /\ h \in CallStates /\ h.pc = g.pc /\ h.op = g.op /\ h.user = g.user /\ h.email = g.email
      /\ h.token = g.token /\ h.profile = g.profile /\ h.late = g.late /\ h.effect = g.effect
      /\ h.stamp = g.stamp /\ h.unlinked = (g.unlinked \/ (g.effect /\ g.profile \in ps))
  <2>1. CASE g.effect /\ g.profile \in ps
    <3>1. h = [g EXCEPT !.unlinked = TRUE]
      BY <2>1
    <3>2. /\ h \in CallStates /\ h.pc = g.pc /\ h.op = g.op /\ h.user = g.user /\ h.email = g.email
          /\ h.token = g.token /\ h.profile = g.profile /\ h.late = g.late /\ h.effect = g.effect
          /\ h.stamp = g.stamp /\ h.unlinked = TRUE
      BY <3>1 DEF CallStates
    <3> QED
      BY <2>1, <3>2
  <2>2. CASE ~(g.effect /\ g.profile \in ps)
    BY <2>2 DEF CallStates
  <2> QED
    BY <2>1, <2>2
<1>2. CallStates \subseteq CallStates'
  BY DEF Steady, CallStates
<1>3. Shape(h)' /\ Spent(h)'
  BY <1>1, Ops DEF Good, Shape, Spent, Steady, Aged, Active
<1>4. Linked(h)'
  <2> SUFFICES ASSUME h.op = "link", ~h.unlinked
               PROVE  /\ h.pc \in {"findToken", "revoke", "findUser"}
                         => <<tokens'[h.token].user, h.profile>> \in logins'
                      /\ h.pc = "ok" => h.user = tokens'[h.token].user
    BY DEF Linked
  <2>1. /\ ~g.unlinked
        /\ g.pc \in {"findToken", "revoke", "findUser"} => g.effect /\ g.profile \notin ps
    BY <1>1 DEF Good, Shape
  <2>2. h.token \in DOMAIN tokens /\ tokens'[h.token].user = tokens[h.token].user
    BY <1>1, Ops DEF Good, Shape, Steady
  <2>3. g.profile \notin ps => \A v : <<v, g.profile>> \in logins => <<v, g.profile>> \in logins'
    OBVIOUS
  <2> QED
    BY <1>1, <2>1, <2>2, <2>3 DEF Good, Linked
<1>5. CallFits(g)' => CallFits(h)'
  BY <1>1 DEF CallFits
<1> QED
  BY <1>1, <1>2, <1>3, <1>4, <1>5 DEF Good

LEMMA UnlinkProviderInv ==
  ASSUME IInv, NEW u \in Users, NEW p \in Profiles, UnlinkProvider(u, p) PROVE IInv'
<1>1. /\ logins' = logins \ {<<u, p>>} /\ call' = Unlinked({p})
      /\ UNCHANGED <<row, tokens, mixed, proved>>
  BY DEF UnlinkProvider, history
<1>2. TypeOK /\ TokensInv
  BY DEF IInv
<1>3. Steady /\ Aged /\ SameMail
  BY <1>1 DEF Steady, Aged, SameMail, Stands, Live
<1>4. \A s \in DOMAIN tokens' : TokenOK(s)'
  BY <1>1, <1>2 DEF TokensInv, TokenOK, Live
<1>5. TokensInv'
  BY <1>1, <1>2, <1>3, <1>4, TokensStay
<1>6. \A l \in logins \ logins' : l[2] \in {p}
  BY <1>1
<1>7. ASSUME NEW d \in Calls, NEW h, h = call'[d] PROVE h \in CallStates' /\ Good(h)' /\ CallFits(h)'
  <2>1. PICK g : g = call[d]
    OBVIOUS
  <2>2. h = IF g.effect /\ g.profile \in {p} THEN [g EXCEPT !.unlinked = TRUE] ELSE g
    BY <1>1, <1>7, <2>1 DEF Unlinked
  <2>3. g \in CallStates /\ Good(g) /\ CallFits(g)
    BY <2>1, Holding
  <2>4. CallFits(g)'
    BY <1>2, <1>3, <1>4, <2>3, FitsStay
  <2> QED
    BY <1>2, <1>3, <1>6, <2>2, <2>3, <2>4, Unlinking
<1>8. CallsInv' /\ call' \in [Calls -> CallStates']
  BY <1>1, <1>7 DEF CallsInv, Unlinked
<1>9. TypeOK'
  BY <1>1, <1>2, <1>8 DEF TypeOK, Live
<1>10. ConfirmedInv'
  BY <1>1 DEF IInv, ConfirmedInv, Live
<1> QED
  BY <1>5, <1>8, <1>9, <1>10 DEF IInv

LEMMA DeleteAccountInv == ASSUME IInv, NEW u \in Users, DeleteAccount(u) PROVE IInv'
<1> DEFINE r == [state |-> "gone", email |-> None, confirmed |-> FALSE]
<1>1. PICK ps : ps = {p \in Profiles : <<u, p>> \in logins}
  OBVIOUS
<1>2. /\ Live(u) /\ row' = [row EXCEPT ![u] = r]
      /\ tokens' = [t \in DOMAIN tokens |-> IF tokens[t].user = u THEN GoneToken(u) ELSE tokens[t]]
      /\ logins' = {l \in logins : l[1] # u} /\ call' = Unlinked(ps)
      /\ mixed' = mixed \ {u} /\ proved' = proved \ {u}
  BY <1>1 DEF DeleteAccount
<1>3. /\ r \in [state : {"new", "live", "gone"}, email : Emails \cup {None}, confirmed : BOOLEAN]
      /\ r.state = "gone" /\ ~r.confirmed
  OBVIOUS
<1> HIDE DEF r
<1>4. TypeOK /\ TokensInv /\ CallsInv
  BY DEF IInv
<1>5. /\ row' \in [Users -> [state : {"new", "live", "gone"}, email : Emails \cup {None},
                             confirmed : BOOLEAN]]
      /\ \A v \in Users : row'[v] = IF v = u THEN r ELSE row[v]
  BY <1>2, <1>3, <1>4 DEF TypeOK
<1>6. GoneToken(u) \in TokenRows /\ GoneToken(u).user = u /\ GoneToken(u).state = "gone"
      /\ GoneToken(u).answered = FALSE /\ GoneToken(u).type = "VerifyEmail"
  BY DEF GoneToken, TokenRows, Types
<1>7. \A t \in DOMAIN tokens : tokens'[t] = IF tokens[t].user = u THEN GoneToken(u) ELSE tokens[t]
  BY <1>2
<1>8. DOMAIN tokens' = DOMAIN tokens /\ tokens' \in Seq(TokenRows)
  <2>1. DOMAIN tokens' = DOMAIN tokens
    BY <1>2
  <2>2. /\ Len(tokens) \in Nat /\ DOMAIN tokens = 1..Len(tokens)
        /\ \A t \in DOMAIN tokens : tokens'[t] \in TokenRows
    BY <1>4, <1>6, <1>7, TokensTyped
  <2>3. tokens' \in [1..Len(tokens) -> TokenRows]
    BY <1>2, <2>1, <2>2
  <2>4. [1..Len(tokens) -> TokenRows] \in {[1..n -> TokenRows] : n \in Nat}
    BY <2>2
  <2>5. tokens' \in UNION {[1..n -> TokenRows] : n \in Nat}
    BY <2>3, <2>4
  <2> QED
    BY <2>1, <2>5, SeqDef
<1>9. Steady
  BY <1>6, <1>7, <1>8 DEF Steady
<1>10. Aged
  BY <1>3, <1>5 DEF Aged
<1>11. SameMail
  BY <1>2, <1>3, <1>5 DEF SameMail, Stands, Live
<1>12. \A s \in DOMAIN tokens' : TokenOK(s)'
  <2> SUFFICES ASSUME NEW s \in DOMAIN tokens
               PROVE  /\ tokens'[s].answered => /\ tokens'[s].state # "active"
                                                /\ tokens'[s].type = "ResetPassword" => tokens'[s].stamped
                      /\ tokens'[s].state = "gone" => tokens'[s].type # "ResetPassword"
                      /\ row'[tokens'[s].user].state # "new"
                      /\ tokens'[s].state # "gone" <=> row'[tokens'[s].user].state = "live"
    BY <1>8 DEF TokenOK, Live
  <2>1. tokens[s].user \in Users /\ TokenOK(s)
    BY <1>4, TokensTyped DEF TokenRows, TokensInv
  <2>2. CASE tokens[s].user = u
    BY <1>3, <1>5, <1>6, <1>7, <2>2
  <2>3. CASE tokens[s].user # u
    BY <1>5, <1>7, <2>1, <2>3 DEF TokenOK, Live
  <2> QED
    BY <2>2, <2>3
<1>13. TokensInv'
  BY <1>4, <1>9, <1>11, <1>12, <1>8, TokensStay
<1>14. \A l \in logins \ logins' : l[2] \in ps
  <2> SUFFICES ASSUME NEW l \in logins, l \notin logins' PROVE l[2] \in ps
    OBVIOUS
  <2>1. l[1] = u /\ l \in Users \X Profiles /\ l = <<l[1], l[2]>>
    BY <1>2, <1>4 DEF TypeOK
  <2>2. <<u, l[2]>> \in logins /\ l[2] \in Profiles
    BY <2>1
  <2> QED
    BY <1>1, <2>2
<1>15. ASSUME NEW d \in Calls, NEW h, h = call'[d] PROVE h \in CallStates' /\ Good(h)' /\ CallFits(h)'
  <2>1. PICK g : g = call[d]
    OBVIOUS
  <2>2. h = IF g.effect /\ g.profile \in ps THEN [g EXCEPT !.unlinked = TRUE] ELSE g
    BY <1>2, <1>15, <2>1 DEF Unlinked
  <2>3. g \in CallStates /\ Good(g) /\ CallFits(g)
    BY <2>1, Holding
  <2>4. CallFits(g)'
    BY <1>4, <1>9, <1>11, <1>12, <2>3, FitsStay
  <2> QED
    BY <1>4, <1>9, <1>10, <1>14, <2>2, <2>3, <2>4, Unlinking
<1>16. CallsInv' /\ call' \in [Calls -> CallStates']
  BY <1>2, <1>15 DEF CallsInv, Unlinked
<1>17. /\ \A l \in logins' : l \in logins /\ l[1] # u /\ l[1] \in Users /\ Live(l[1])
       /\ mixed' \subseteq Users /\ proved' \subseteq Users
  BY <1>2, <1>4 DEF TypeOK
<1>18. \A l \in logins' : Live(l[1])'
  BY <1>5, <1>17 DEF Live
<1>19. TypeOK'
  BY <1>4, <1>5, <1>8, <1>16, <1>17, <1>18 DEF TypeOK
<1>20. ConfirmedInv'
  BY <1>2, <1>3, <1>5 DEF IInv, ConfirmedInv, Live
<1> QED
  BY <1>13, <1>16, <1>19, <1>20 DEF IInv

LEMMA CrashInv == ASSUME IInv, Crash PROVE IInv'
<1>1. call' = [c \in Calls |-> NoCall] /\ UNCHANGED <<row, tokens, logins, mixed, proved>>
  BY DEF Crash, history
<1>2. TypeOK /\ TokensInv
  BY DEF IInv
<1>3. Steady /\ Aged /\ SameMail /\ logins \subseteq logins'
  BY <1>1, LeftAlone DEF Steady
<1>4. TokensInv'
  BY <1>1, <1>2 DEF TokensInv, TokenOK, TokenFits, Live, Stands, Active
<1>5. PICK k : k = NoCall
  OBVIOUS
<1>6. Good(k)' /\ CallFits(k)' /\ k \in CallStates'
  BY <1>2, <1>3, <1>4, <1>5, NoCallGood, GoodStays, FitsStay DEF TokensInv, CallStates, Steady
<1>7. CallsInv' /\ call' \in [Calls -> CallStates']
  BY <1>1, <1>5, <1>6 DEF CallsInv
<1>8. tokens' \in Seq(TokenRows)
  BY <1>1, <1>2 DEF TypeOK
<1> QED
  BY <1>1, <1>4, <1>7, <1>8, LeftAlone

-----------------------------------------------------------------------------
LEMMA HandleInv == ASSUME IInv, NEW c \in Calls, Handle(c) PROVE IInv'
<1>1. CASE UpdateEmailWrite(c) \/ Issue(c) \/ ConfirmEmail(c) \/ ResetPassword(c) \/ Stamp(c)
  BY <1>1, UpdateEmailWriteInv, IssueInv, ConfirmEmailInv, ResetPasswordInv, StampInv
<1>2. CASE CountDuplicate(c) \/ LinkProvider(c) \/ FindToken(c) \/ RevokeToken(c)
  BY <1>2, CountDuplicateInv, LinkProviderInv, FindTokenInv, RevokeTokenInv
<1>3. CASE FindByProvider(c) \/ CreateUser(c) \/ End(c) \/ Fail(c)
  BY <1>3, FindByProviderInv, CreateUserInv, EndInv, FailInv
<1> QED
  BY <1>1, <1>2, <1>3 DEF Handle

LEMMA NextInv == IInv /\ [Next]_vars => IInv'
<1> SUFFICES ASSUME IInv, [Next]_vars PROVE IInv'
  OBVIOUS
<1>1. CASE UNCHANGED vars
  <2>1. UNCHANGED <<row, tokens, logins, call, mixed, proved>>
    BY <1>1 DEF vars
  <2>2. TypeOK'
    BY <2>1 DEF IInv, TypeOK, CallStates, Live
  <2>3. TokensInv' /\ ConfirmedInv'
    BY <2>1 DEF IInv, TokensInv, TokenOK, TokenFits, ConfirmedInv, Live, Stands, Active
  <2>4. CallsInv'
    BY <2>1 DEF IInv, CallsInv, Good, Shape, Spent, Linked, CallFits, Live, Stands, Active
  <2> QED
    BY <2>2, <2>3, <2>4 DEF IInv
<1>2. CASE \E c \in Calls : Handle(c)
  BY <1>2, HandleInv
<1>3. ASSUME NEW c \in Calls, NEW u \in Users,
             \/ RequestVerifyEmail(c, u)
             \/ ForgotPassword(c, u)
             \/ \E e \in Emails \cup {None} : Register(c, u, e)
             \/ \E e \in Emails : UpdateEmailRead(c, u, e)
      PROVE  IInv'
  BY <1>3, IssuersBegin, RegisterInv
<1>4. CASE \E c \in Calls, t \in DOMAIN tokens, p \in Profiles \cup {None} :
             \E op \in DOMAIN TypeOf : GetTokenActive(c, op, t, p)
  BY <1>4, GetTokenActiveInv
<1>5. CASE \E c \in Calls, p \in Profiles : Login(c, p)
  BY <1>5, LoginInv
<1>6. CASE \E t \in DOMAIN tokens : Expire(t)
  BY <1>6, ExpireInv
<1>7. CASE \E u \in Users : LinkToken(u) \/ DeleteAccount(u)
  BY <1>7, LinkTokenInv, DeleteAccountInv
<1>8. CASE \E u \in Users, p \in Profiles : UnlinkProvider(u, p)
  BY <1>8, UnlinkProviderInv
<1>9. CASE Crash
  BY <1>9, CrashInv
<1> QED
  BY <1>1, <1>2, <1>3, <1>4, <1>5, <1>6, <1>7, <1>8, <1>9 DEF Next

LEMMA Invariant == Spec => []IInv
  BY InitInv, NextInv, PTL DEF Spec

\* Types, and the foreign keys and unique keys of the rows (schema.prisma).
THEOREM TypeCorrect == Spec => []TypeOK
<1>1. IInv => TypeOK
  BY DEF IInv
<1> QED
  BY <1>1, Invariant, PTL

\* Once a call that presented a token was answered, no call that begins later
\* takes effect by it (getTokenActive, revokeToken).
THEOREM UsedUpForGood == Spec => []SpentStaysSpent
<1>1. IInv => SpentStaysSpent
  BY DEF IInv, CallsInv, Good, Spent, SpentStaysSpent
<1> QED
  BY <1>1, Invariant, PTL

\* Whichever statement fails: a token is not revoked before it took effect, and a
\* call that is answered without an error has left nothing out (confirmEmail,
\* resetPassword with its Promise.all, linkProvider, revokeToken).
THEOREM AllOrAnError == Spec => []WholeOrError
<1>1. IInv => WholeOrError
  BY DEF IInv, TokensInv, TokenOK, WholeOrError
<1> QED
  BY <1>1, Invariant, PTL

\* A link is answered with the account of its token, unless the profile was
\* unlinked meanwhile (linkProvider, findByProvider).
THEOREM LinkedToTheOwner == Spec => []LinkedToOwner
<1>1. IInv => LinkedToOwner
  BY DEF IInv, CallsInv, Good, Linked, LinkedToOwner
<1> QED
  BY <1>1, Invariant, PTL

\* An address that stands as confirmed was spoken for by a token mailed to it, or
\* by the provider, unless something meant for an earlier address was about when
\* it was set (updateEmail, confirmEmail).
THEOREM ConfirmedByMail == Spec => []ConfirmedWasMailed
<1>1. IInv => ConfirmedWasMailed
  BY DEF IInv, ConfirmedInv, ConfirmedWasMailed
<1> QED
  BY <1>1, Invariant, PTL
==============================================================================
