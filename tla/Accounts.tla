------------------------------ MODULE Accounts ------------------------------
(***************************************************************************)
(* Accounts: e-mail addresses, the tokens that confirm them, reset a       *)
(* password or link an OAuth provider (VerificationTokensService), and the *)
(* handlers of AuthService and OauthService that create and use them.      *)
(* None of them runs in a transaction: a token is looked at, takes effect  *)
(* and is revoked in separate statements, and any of these may fail.       *)
(*                                                                         *)
(* Passwords, the stamp a reset renews (SecurityStamps) and the tokens a   *)
(* login answers with (RefreshTokens) are left out.  A request the code    *)
(* refuses before it writes anything, for what it reads first, has no      *)
(* step, unless it presents a token.  A token may be presented as soon as  *)
(* its row is there.                                                       *)
(***************************************************************************)
EXTENDS Sequences, Naturals, FiniteSets

CONSTANTS
  Users,      \* ids of accounts, those not created yet included
  Emails,     \* addresses
  Profiles,   \* accounts at the OAuth providers
  ProviderOf, \* the provider of a profile
  Calls,      \* handlers in flight
  MaxToken,   \* bound: rows of verification_tokens
  None        \* null

ASSUME ParameterAssumption ==
  /\ None \notin Users \cup Emails
  /\ MaxToken \in Nat

VARIABLES
  row,    \* per user: whether there is a row, email and emailConfirmed
  tokens, \* VerificationToken rows in the order they were created
  logins, \* UserLogins: pairs of a user and a profile
  call,   \* per call: where it stands
  mixed,  \* history: users whose address changed while a token or a call
          \* for an earlier address was still alive
  proved  \* history: users whose address, since it was set, was spoken for by
          \* the provider or by a token mailed to it

vars == <<row, tokens, logins, call, mixed, proved>>
history == <<mixed, proved>>

Types == {"VerifyEmail", "ResetPassword", "LinkProviderLogin"}
\* `to' is the address a VerifyEmail token was mailed to.  History: whether a stamp
\* was renewed after it took effect, and whether a call that presented it was
\* answered without an error.
TokenRows == [user : Users, type : Types, to : Emails \cup {None},
              state : {"active", "revoked", "expired", "gone"},
              stamped : BOOLEAN, answered : BOOLEAN]

NoCall == [pc |-> "idle", op |-> "none", user |-> None, email |-> None,
           token |-> 0, profile |-> None, late |-> FALSE, effect |-> FALSE,
           stamp |-> "none", unlinked |-> FALSE]

Init ==
  /\ row = [u \in Users |-> [state |-> "new", email |-> None, confirmed |-> FALSE]]
  /\ tokens = <<>>
  /\ logins = {}
  /\ call = [c \in Calls |-> NoCall]
  /\ mixed = {} /\ proved = {}

Live(u) == row[u].state = "live"
Goto(c, pc) == call' = [call EXCEPT ![c].pc = pc]
Free(c) == call[c].pc = "idle"
\* The handler answers and is gone.
Done(c) == call' = [call EXCEPT ![c] = NoCall]
\* It throws; the renewal of a stamp, which nobody waits for any more, goes on.
Throw(c) == call' = [call EXCEPT ![c] = IF @.stamp = "todo" THEN [@ EXCEPT !.pc = "error"] ELSE NoCall]

\* The statement a handler is at fails, and nothing is written.
Fail(c) ==
  /\ call[c].pc \in {"write", "issue", "count", "effect", "findToken", "revoke", "findUser", "create"}
  /\ Throw(c)
  /\ UNCHANGED <<row, tokens, logins, history>>

-----------------------------------------------------------------------------
(* VerificationTokensService.                                              *)

Issuing == {c \in Calls : call[c].pc \in {"write", "issue"}}
\* Bound: no handler that will create a token begins when there would be too many.
MayIssue == Len(tokens) + Cardinality(Issuing) < MaxToken

GenerateToken(u, type, to) ==
  tokens' = Append(tokens, [user |-> u, type |-> type, to |-> to,
                            state |-> "active", stamped |-> FALSE, answered |-> FALSE])

\* What getTokenActive and revokeToken ask of the row they find.
Active(t, type) == tokens[t].type = type /\ tokens[t].state = "active"

\* `expires' is reached.
Expire(t) ==
  /\ tokens[t].state = "active"
  /\ tokens' = [tokens EXCEPT ![t].state = "expired"]
  /\ UNCHANGED <<row, logins, call, history>>

-----------------------------------------------------------------------------
(* Handlers that create tokens.                                            *)

\* register: the row, then sendConfirmEmail when an address was given.
Register(c, u, e) ==
  /\ Free(c) /\ row[u].state = "new"
  /\ row' = [row EXCEPT ![u] = [state |-> "live", email |-> e, confirmed |-> FALSE]]
  /\ IF e = None THEN UNCHANGED call
     ELSE /\ MayIssue
          /\ call' = [call EXCEPT ![c] = [NoCall EXCEPT !.pc = "issue", !.op = "verify",
                                                        !.user = u, !.email = e]]
  /\ UNCHANGED <<tokens, logins, history>>

\* requestVerifyEmail reads the row.
RequestVerifyEmail(c, u) ==
  /\ Free(c) /\ Live(u) /\ MayIssue
  /\ row[u].email # None /\ ~row[u].confirmed
  /\ call' = [call EXCEPT ![c] = [NoCall EXCEPT !.pc = "issue", !.op = "verify",
                                                !.user = u, !.email = row[u].email]]
  /\ UNCHANGED <<row, tokens, logins, history>>

\* forgotPassword reads the row.
ForgotPassword(c, u) ==
  /\ Free(c) /\ Live(u) /\ MayIssue
  /\ row[u].confirmed
  /\ call' = [call EXCEPT ![c] = [NoCall EXCEPT !.pc = "issue", !.op = "forgot", !.user = u]]
  /\ UNCHANGED <<row, tokens, logins, history>>

\* updateEmail reads the row: another address than before.
UpdateEmailRead(c, u, e) ==
  /\ Free(c) /\ Live(u) /\ MayIssue
  /\ e # row[u].email
  /\ call' = [call EXCEPT ![c] = [NoCall EXCEPT !.pc = "write", !.op = "verify",
                                                !.user = u, !.email = e]]
  /\ UNCHANGED <<row, tokens, logins, history>>

\* A token, or a handler about to create or use one, that was meant for another
\* address of u than e.
Outdated(u, e) ==
  \/ \E t \in 1..Len(tokens) :
       tokens[t].user = u /\ Active(t, "VerifyEmail") /\ tokens[t].to # e
  \/ \E d \in Calls :
       \/ call[d].pc = "issue" /\ call[d].op = "verify"
          /\ call[d].user = u /\ call[d].email # e
       \/ call[d].pc = "effect" /\ call[d].op = "confirm"
          /\ tokens[call[d].token].user = u /\ tokens[call[d].token].to # e

\* Mutant: the address stays confirmed.
NewEmailConfirmed(r, e) == [r EXCEPT !.email = e]
NewEmail(r, e) == [r EXCEPT !.email = e, !.confirmed = FALSE]

\* updateEmail writes; the row may have gone, and then update throws.
UpdateEmailWrite(c) ==
  LET u == call[c].user  e == call[c].email IN
  /\ call[c].pc = "write"
  /\ IF Live(u)
     THEN /\ row' = [row EXCEPT ![u] = NewEmail(@, e)]
          /\ mixed' = IF Outdated(u, e) THEN mixed \cup {u} ELSE mixed
          /\ proved' = proved \ {u}
          /\ Goto(c, "issue")
     ELSE Throw(c) /\ UNCHANGED <<row, history>>
  /\ UNCHANGED <<tokens, logins>>

\* sendConfirmEmail and forgotPassword create the token and mail it; the foreign
\* key refuses a token of a user who is gone.
Issue(c) ==
  /\ call[c].pc = "issue"
  /\ IF Live(call[c].user)
     THEN GenerateToken(call[c].user,
            IF call[c].op = "forgot" THEN "ResetPassword" ELSE "VerifyEmail", call[c].email)
     ELSE UNCHANGED tokens
  /\ Done(c)
  /\ UNCHANGED <<row, logins, history>>

\* OauthService.generateToken.
LinkToken(u) ==
  /\ Live(u) /\ MayIssue
  /\ GenerateToken(u, "LinkProviderLogin", None)
  /\ UNCHANGED <<row, logins, call, history>>

-----------------------------------------------------------------------------
(* Handlers that present a token.                                          *)

TypeOf == [confirm |-> "VerifyEmail", reset |-> "ResetPassword", link |-> "LinkProviderLogin"]

\* confirmEmail, resetPassword or a login with a provider is called with a token,
\* and getTokenActive finds it.
GetTokenActive(c, op, t, p) ==
  /\ Free(c)
  /\ op = "link" <=> p # None
  /\ Active(t, TypeOf[op])
  /\ call' = [call EXCEPT ![c] = [NoCall EXCEPT !.pc = IF op = "link" THEN "count" ELSE "effect",
                                                !.op = op, !.token = t, !.profile = p,
                                                !.late = tokens[t].answered]]
  /\ UNCHANGED <<row, tokens, logins, history>>

\* The statement that the token is for has gone through; revokeToken is next, and
\* a reset renews the stamp at the same time.
TakesEffect(c) ==
  call' = [call EXCEPT ![c].pc = "findToken", ![c].effect = TRUE,
                       ![c].stamp = IF call[c].op = "reset" THEN "todo" ELSE "none"]

\* confirmEmail sets emailConfirmed; update throws when the user is gone.
ConfirmEmail(c) ==
  LET t == call[c].token  u == tokens[t].user IN
  /\ call[c].pc = "effect" /\ call[c].op = "confirm"
  /\ IF Live(u)
     THEN /\ row' = [row EXCEPT ![u].confirmed = TRUE]
          /\ proved' = IF tokens[t].to = row[u].email THEN proved \cup {u} ELSE proved
          /\ TakesEffect(c)
     ELSE Throw(c) /\ UNCHANGED <<row, proved>>
  /\ UNCHANGED <<tokens, logins, mixed>>

\* resetPassword writes the password.
ResetPassword(c) ==
  /\ call[c].pc = "effect" /\ call[c].op = "reset"
  /\ IF Live(tokens[call[c].token].user) THEN TakesEffect(c) ELSE Throw(c)
  /\ UNCHANGED <<row, tokens, logins, history>>

\* updateSecurityStamp goes through or fails; it does when the user is gone.
\* Promise.all answers when the token is revoked too; it rejects at the first
\* failure of the two, and the other one runs on.
Stamp(c) ==
  LET t == call[c].token IN
  /\ call[c].stamp = "todo"
  /\ \E done \in BOOLEAN :
       /\ done => Live(tokens[t].user)
       /\ tokens' = IF done
                    THEN [tokens EXCEPT ![t].stamped = TRUE,
                                        ![t].answered = @ \/ call[c].pc = "revoked"]
                    ELSE tokens
       /\ IF call[c].pc \in {"revoked", "error"} THEN Done(c)
          ELSE call' = [call EXCEPT ![c].stamp = IF done THEN "done" ELSE "failed"]
  /\ UNCHANGED <<row, logins, history>>

\* linkProvider counts the logins with this profile.
CountDuplicate(c) ==
  /\ call[c].pc = "count"
  /\ IF \E u \in Users : <<u, call[c].profile>> \in logins
     THEN Throw(c) ELSE Goto(c, "effect")
  /\ UNCHANGED <<row, tokens, logins, history>>

\* Mutant: without the unique keys.
MayLinkUnkeyed(u, p) == Live(u)

\* The unique keys of user_logins, and its foreign key.
MayLink(u, p) ==
  /\ Live(u)
  /\ \A v \in Users : <<v, p>> \notin logins
  /\ \A q \in Profiles : ProviderOf[q] = ProviderOf[p] => <<u, q>> \notin logins

\* linkProvider creates the login.
LinkProvider(c) ==
  LET u == tokens[call[c].token].user  p == call[c].profile IN
  /\ call[c].pc = "effect" /\ call[c].op = "link"
  /\ IF MayLink(u, p)
     THEN logins' = logins \cup {<<u, p>>} /\ TakesEffect(c)
     ELSE Throw(c) /\ UNCHANGED logins
  /\ UNCHANGED <<row, tokens, history>>

-----------------------------------------------------------------------------
(* revokeToken, and the end of the handlers.                               *)

\* revokeToken looks for the token once more.
FindToken(c) ==
  /\ call[c].pc = "findToken"
  /\ IF Active(call[c].token, TypeOf[call[c].op])
     THEN Goto(c, "revoke") ELSE Throw(c)
  /\ UNCHANGED <<row, tokens, logins, history>>

\* Mutant: nothing is written.
RevokedNever(r) == r
Revoked(r) == [r EXCEPT !.state = "revoked"]

\* Mutant: allSettled instead of all: a failed renewal of the stamp is not told.
WholeSettled(g) == g.op # "link" /\ g.stamp # "todo"

\* With the token revoked the call has done all it was to do.
Whole(g) == g.op # "link" /\ g.stamp \in {"none", "done"}

\* revokeToken sets `revoked', and throws when the row is gone.  A link goes on to
\* findByProvider, and a reset waits for its stamp.
RevokeToken(c) ==
  LET t == call[c].token IN
  /\ call[c].pc = "revoke"
  /\ IF tokens[t].state # "gone"
     THEN /\ tokens' = [tokens EXCEPT ![t] = [Revoked(tokens[t]) EXCEPT
                                                !.answered = @ \/ Whole(call[c])]]
          /\ \/ Whole(call[c]) /\ Done(c)
             \/ call[c].op = "link" /\ Goto(c, "findUser")
             \/ call[c].stamp = "todo" /\ Goto(c, "revoked")
             \/ call[c].stamp = "failed" /\ Throw(c)
     ELSE Throw(c) /\ UNCHANGED tokens
  /\ UNCHANGED <<row, logins, history>>

\* A link has been answered.
End(c) ==
  /\ call[c].pc = "ok"
  /\ Done(c)
  /\ UNCHANGED <<row, tokens, logins, history>>

-----------------------------------------------------------------------------
(* OAuth logins.                                                           *)

\* validateGoogleProvider and validateGithubProvider without a token.
Login(c, p) ==
  /\ Free(c)
  /\ call' = [call EXCEPT ![c] = [NoCall EXCEPT !.pc = "findUser", !.op = "login",
                                                !.profile = p]]
  /\ UNCHANGED <<row, tokens, logins, history>>

\* findByProvider.
FindByProvider(c) ==
  LET holders == {u \in Users : <<u, call[c].profile>> \in logins} IN
  /\ call[c].pc = "findUser"
  /\ \/ /\ holders = {}
        /\ IF call[c].op = "link" THEN Throw(c) ELSE Goto(c, "create")
        /\ UNCHANGED tokens
     \/ /\ holders # {} /\ call[c].op = "login"
        /\ Done(c) /\ UNCHANGED tokens
     \/ \E u \in holders :
        /\ call[c].op = "link"
        /\ call' = [call EXCEPT ![c].pc = "ok", ![c].user = u]
        /\ tokens' = [tokens EXCEPT ![call[c].token].answered = TRUE]
  /\ UNCHANGED <<row, logins, history>>

\* An account with its login in one statement; GitHub tells no address.
CreateUser(c) ==
  /\ call[c].pc = "create"
  /\ IF \E u \in Users : <<u, call[c].profile>> \in logins
     THEN Throw(c) /\ UNCHANGED <<row, logins, proved>>
     ELSE \E u \in Users, e \in Emails \cup {None}, verified \in BOOLEAN :
       /\ row[u].state = "new" /\ (e = None => ~verified)
       /\ row' = [row EXCEPT ![u] = [state |-> "live", email |-> e, confirmed |-> verified]]
       /\ logins' = logins \cup {<<u, call[c].profile>>}
       /\ proved' = IF verified THEN proved \cup {u} ELSE proved
       /\ Done(c)
  /\ UNCHANGED <<tokens, mixed>>

\* The calls that have created a login and lost one with one of the profiles ps.
Unlinked(ps) == [c \in Calls |->
  IF call[c].effect /\ call[c].profile \in ps THEN [call[c] EXCEPT !.unlinked = TRUE] ELSE call[c]]

UnlinkProvider(u, p) ==
  /\ <<u, p>> \in logins
  /\ logins' = logins \ {<<u, p>>}
  /\ call' = Unlinked({p})
  /\ UNCHANGED <<row, tokens, history>>

\* What is left of a token whose row is gone.
GoneToken(u) == [user |-> u, type |-> "VerifyEmail", to |-> None,
              state |-> "gone", stamped |-> FALSE, answered |-> FALSE]

\* deleteAccount: the row, and by cascade what refers to it.
DeleteAccount(u) ==
  LET ps == {p \in Profiles : <<u, p>> \in logins} IN
  /\ Live(u)
  /\ row' = [row EXCEPT ![u] = [state |-> "gone", email |-> None, confirmed |-> FALSE]]
  /\ tokens' = [t \in DOMAIN tokens |->
                  IF tokens[t].user = u THEN GoneToken(u) ELSE tokens[t]]
  /\ logins' = {l \in logins : l[1] # u}
  /\ call' = Unlinked(ps)
  /\ mixed' = mixed \ {u}
  /\ proved' = proved \ {u}

\* The process stops; its handlers answer nobody any more.
Crash ==
  /\ \E c \in Calls : ~Free(c)
  /\ call' = [c \in Calls |-> NoCall]
  /\ UNCHANGED <<row, tokens, logins, history>>

Handle(c) ==
  \/ UpdateEmailWrite(c) \/ Issue(c)
  \/ ConfirmEmail(c) \/ ResetPassword(c) \/ Stamp(c)
  \/ CountDuplicate(c) \/ LinkProvider(c)
  \/ FindToken(c) \/ RevokeToken(c)
  \/ FindByProvider(c) \/ CreateUser(c)
  \/ End(c) \/ Fail(c)

Next ==
  \/ \E c \in Calls : Handle(c)
  \/ \E c \in Calls, u \in Users :
       \/ RequestVerifyEmail(c, u)
       \/ ForgotPassword(c, u)
       \/ \E e \in Emails \cup {None} : Register(c, u, e)
       \/ \E e \in Emails : UpdateEmailRead(c, u, e)
  \/ \E c \in Calls, t \in DOMAIN tokens, p \in Profiles \cup {None} :
       \E op \in DOMAIN TypeOf : GetTokenActive(c, op, t, p)
  \/ \E c \in Calls, p \in Profiles : Login(c, p)
  \/ \E t \in DOMAIN tokens : Expire(t)
  \/ \E u \in Users : LinkToken(u) \/ DeleteAccount(u)
  \/ \E u \in Users, p \in Profiles : UnlinkProvider(u, p)
  \/ Crash

Spec == Init /\ [][Next]_vars

-----------------------------------------------------------------------------
(* Properties.                                                             *)

CallStates == [
  pc : {"idle", "write", "issue", "count", "effect", "findToken", "revoke",
        "revoked", "findUser", "create", "ok", "error"},
  op : {"none", "verify", "forgot", "login"} \cup DOMAIN TypeOf,
  user : Users \cup {None}, email : Emails \cup {None}, token : {0} \cup DOMAIN tokens,
  profile : Profiles \cup {None}, late : BOOLEAN, effect : BOOLEAN,
  stamp : {"none", "todo", "done", "failed"}, unlinked : BOOLEAN]

\* Types, and what the foreign keys and the unique keys promise: the rows of a
\* user go with the user, and a profile is linked to one user.
TypeOK ==
  /\ row \in [Users -> [state : {"new", "live", "gone"}, email : Emails \cup {None},
                        confirmed : BOOLEAN]]
  /\ tokens \in Seq(TokenRows)
  /\ logins \subseteq Users \X Profiles
  /\ call \in [Calls -> CallStates]
  /\ mixed \subseteq Users /\ proved \subseteq Users
  /\ \A l \in logins : Live(l[1])
  /\ \A k, l \in logins : k[2] = l[2] => k = l

\* A token is used up: once a call that presented it was answered without an
\* error, no call that begins later takes effect by it.  (Two calls that overlap
\* may both take effect, for it is revoked last.)
SpentStaysSpent == \A c \in Calls : call[c].late => ~call[c].effect

\* Whichever statement fails, and wherever the process stops: a call that is
\* answered without an error has left nothing out: its token is used up, and a
\* reset has renewed the stamp after it wrote the password.  (After an error the
\* token may do again.)
WholeOrError ==
  \A t \in DOMAIN tokens :
    tokens[t].answered =>
      /\ tokens[t].state # "active"
      /\ tokens[t].type = "ResetPassword" => tokens[t].stamped

\* A provider is linked to the account that asked for it: the call is answered
\* with the account of the token, unless the profile was unlinked meanwhile.
LinkedToOwner ==
  \A c \in Calls :
    call[c].op = "link" /\ call[c].pc = "ok" =>
      call[c].user = tokens[call[c].token].user \/ call[c].unlinked

\* An address that stands as confirmed was confirmed by a link mailed to it, or
\* by the provider; only a link or a handler from before a change of address
\* can confirm the new address instead.
ConfirmedWasMailed ==
  \A u \in Users \ mixed : row[u].confirmed => u \in proved
=============================================================================
