------------------------ MODULE RefreshTokens_proofs ------------------------
(***************************************************************************)
(* Proofs about RefreshTokens, for every value of its constants.           *)
(***************************************************************************)
EXTENDS RefreshTokens, TLAPS

-----------------------------------------------------------------------------
(* The inductive strengthening.                                            *)

Token(c) == call[c].token
Child(c) == call[c].child
Made(c) == call[c].pc \in {"revoke", "answer"}
InHand(r) == \E c \in Calls : InFlight(c) /\ root[Token(c)] = r

\* A call works on a token some client holds; the token it creates is nobody's
\* and no other call's until the answer.
ChildrenAreFresh ==
  /\ \A c \in Calls : InFlight(c) => Token(c) \in held
  /\ \A c \in Calls : Made(c) =>
       /\ Child(c) \in 1..created /\ Child(c) \notin held \cup revoked
       /\ root[Child(c)] = root[Token(c)] /\ Token(c) < Child(c)
  /\ \A c, d \in Calls : Made(c) /\ Made(d) /\ Child(c) = Child(d) => c = d

\* An uncontested family is in the hands of one call, which has all that is
\* left of it: its token until it is revoked, and its child.
HandsAreFull ==
  /\ \A c, d \in Calls :
       InFlight(c) /\ InFlight(d) /\ root[Token(c)] = root[Token(d)] =>
         c = d \/ root[Token(c)] \in contested
  /\ \A c \in Calls : InFlight(c) /\ root[Token(c)] \notin contested =>
       /\ \A t \in Family(root[Token(c)]) \ revoked : t = Token(c) \/ (Made(c) /\ t = Child(c))
       /\ call[c].pc = "answer" => Token(c) \in revoked
       /\ Token(c) \in revoked => call[c].pc = "answer"

\* Once ended, an uncontested family is in no one's hands and has nothing left.
EndedIsOver ==
  /\ ended \subseteq 1..created
  /\ \A r \in ended \ contested : Family(r) \subseteq revoked /\ ~InHand(r)

\* A token that may still be replaced has no heir yet.
HeirsAreFree ==
  /\ \A t \in Tokens : heir[t] # 0 => t <= created
  /\ \A t \in (1..created) \ revoked : root[t] \notin contested => heir[t] = 0

\* A token of an uncontested family is recorded, or about to be.
LineageInHand ==
  \A r \in Tokens \ contested : \A u \in Family(r) : u # r =>
    \/ \E t \in Family(r) : t < u /\ heir[t] = u
    \/ \E c \in Calls : call[c].pc = "revoke" /\ Child(c) = u

\* OneLiveToken, token by token.
OneLiveInHand ==
  \A t, u \in Tokens \ revoked :
    root[t] = root[u] /\ root[t] \in Tokens \ contested /\ ~InHand(root[t]) => t = u

FamilyFacts ==
  /\ ChildrenAreFresh /\ HandsAreFull /\ OneLiveInHand
  /\ EndedIsOver /\ HeirsAreFree /\ LineageInHand /\ SessionSurvives

FamilyInv == TypeOK /\ FamilyFacts

-----------------------------------------------------------------------------
(* Types.                                                                  *)

USE ParameterAssumption DEF rows

\* The initial state is well typed.
LEMMA InitType == Init => TypeOK
<1> SUFFICES ASSUME Init PROVE TypeOK
  OBVIOUS
<1>1. IdleCall \in CallStates
  BY DEF IdleCall, CallStates
<1> QED BY <1>1 DEF Init, TypeOK, Tokens, InFlight, IdleCall

\* One row more, in any family there is or in a new one.
LEMMA NewTokenType ==
  ASSUME TypeOK, NEW r \in 1..(created + 1), NewToken(r)
  PROVE  /\ created' \in 1..MaxToken /\ created' = created + 1 /\ created + 1 \in Tokens
         /\ created \in Nat
         /\ root' \in [Tokens -> 0..MaxToken]
         /\ \A t \in Tokens : root'[t] <= t /\ (root'[t] # 0 <=> t <= created')
         /\ root'[created + 1] = r
         /\ \A t \in Tokens : t # created + 1 => root'[t] = root[t]
<1>1. created \in Nat /\ created + 1 \in Tokens /\ created' = created + 1
  BY DEF TypeOK, NewToken, Tokens
<1>2. r \in 0..MaxToken /\ r # 0 /\ r <= created + 1
  BY <1>1 DEF Tokens
<1>3. root' \in [Tokens -> 0..MaxToken] /\ root'[created + 1] = r
  BY <1>1, <1>2 DEF TypeOK, NewToken
<1>4. \A t \in Tokens : t # created + 1 => root'[t] = root[t]
  BY <1>1 DEF TypeOK, NewToken
<1>5. ASSUME NEW t \in Tokens PROVE root'[t] <= t /\ (root'[t] # 0 <=> t <= created')
  <2>1. CASE t = created + 1
    BY <1>1, <1>2, <1>3, <2>1
  <2>2. CASE t # created + 1
    <3>1. root[t] <= t /\ (root[t] # 0 <=> t <= created) /\ t \in Nat
      BY DEF TypeOK, Tokens
    <3> QED BY <1>1, <1>4, <2>2, <3>1
  <2> QED BY <2>1, <2>2
<1>6. created' \in 1..MaxToken
  BY <1>1 DEF Tokens
<1> QED BY <1>1, <1>3, <1>4, <1>5, <1>6

\* A token a call works on has a family.
LEMMA RootType ==
  ASSUME TypeOK, NEW t \in 1..created
  PROVE  t \in Tokens /\ root[t] \in 1..created /\ root[t] \in Tokens /\ root[t] \in 1..(created + 1)
<1>1. created \in Nat /\ created <= MaxToken /\ t \in Nat /\ t <= MaxToken
  BY DEF TypeOK
<1>2. t \in Tokens
  BY <1>1 DEF Tokens
<1>3. root[t] \in Nat /\ root[t] <= t /\ root[t] # 0
  BY <1>1, <1>2 DEF TypeOK
<1> QED BY <1>1, <1>2, <1>3 DEF Tokens

\* Every step keeps the types.
LEMMA StepType == TypeOK /\ [Next]_vars => TypeOK'
<1> SUFFICES ASSUME TypeOK, [Next]_vars PROVE TypeOK'
  OBVIOUS
<1>i. IdleCall \in CallStates /\ IdleCall.pc = "idle"
  BY DEF IdleCall, CallStates
<1>n. created \in Nat /\ created <= MaxToken
  BY DEF TypeOK
<1>c. \A c \in Calls : /\ call[c] \in CallStates
                       /\ InFlight(c) => /\ call[c].token \in 1..created
                                         /\ root[call[c].token] \in Tokens
                                         /\ root[call[c].token] \in 1..(created + 1)
                       /\ Made(c) => call[c].child \in 1..created
  BY RootType DEF TypeOK, Made
<1>1. CASE Login
  <2>1. NewToken(created + 1) /\ created + 1 \in 1..(created + 1)
    BY <1>1, <1>n DEF Login
  <2>2. /\ created' = created + 1 /\ created' \in 1..MaxToken
        /\ root' \in [Tokens -> 0..MaxToken]
        /\ \A t \in Tokens : root'[t] <= t /\ (root'[t] # 0 <=> t <= created')
    BY <2>1, NewTokenType
  <2>3. revoked' \subseteq 1..created' /\ held' \subseteq 1..created' /\ expired' \in 0..created'
    BY <1>1, <1>n, <2>2 DEF Login, TypeOK
  <2>4. \A c \in Calls : /\ InFlight(c)' => call'[c].token \in 1..created'
                         /\ Made(c)' => call'[c].child \in 1..created'
    BY <1>1, <1>n, <1>c, <2>2 DEF Login, InFlight, Made
  <2> QED BY <1>1, <1>n, <2>2, <2>3, <2>4 DEF Login, TypeOK, Made
<1>2. CASE Expire
  <2>1. expired' \in 0..created'
    BY <1>2, <1>n DEF Expire, TypeOK
  <2> QED BY <1>2, <2>1 DEF Expire, TypeOK, InFlight
<1>3. CASE Crash
  <2>1. /\ {root[call[c].token] : c \in {c \in Calls : call[c].pc = "revoke"}} \subseteq Tokens
        /\ {root[call[c].token] : c \in {c \in Calls : call[c].pc = "answer"}} \subseteq Tokens
    BY <1>c DEF InFlight
  <2>2. contested' \subseteq Tokens /\ lost' \subseteq Tokens
    BY <1>3, <2>1 DEF Crash, TypeOK
  <2>3. call' \in [Calls -> CallStates] /\ \A c \in Calls : ~InFlight(c)' /\ ~Made(c)'
    BY <1>3, <1>i DEF Crash, InFlight, Made
  <2> QED BY <1>3, <2>2, <2>3 DEF Crash, TypeOK, Made
<1>4. ASSUME NEW c \in Calls, RefreshRead(c) \/ LogoutRead(c) PROVE TypeOK'
  <2>1. PICK t \in held, pc \in {"create", "logout"} :
           /\ call' = [call EXCEPT ![c] = [pc |-> pc, token |-> t, child |-> 0]]
           /\ contested' = Noted(t)
    BY <1>4 DEF RefreshRead, LogoutRead
  <2>2. t \in 1..created /\ t \in 0..MaxToken /\ root[t] \in Tokens
    BY <1>n, RootType DEF TypeOK
  <2>3. call' \in [Calls -> CallStates]
    BY <2>1, <2>2 DEF TypeOK, CallStates
  <2>4. contested' \subseteq Tokens
    BY <2>1, <2>2 DEF Noted, TypeOK
  <2>5. UNCHANGED <<created, expired, revoked, heir, root, held, ended, lost>>
    BY <1>4 DEF RefreshRead, LogoutRead
  <2>6. \A d \in Calls : /\ InFlight(d)' => call'[d].token \in 1..created'
                         /\ Made(d)' => call'[d].child \in 1..created'
    BY <2>1, <2>2, <2>5 DEF TypeOK, InFlight, Made
  <2> QED BY <2>3, <2>4, <2>5, <2>6 DEF TypeOK, Made
<1>5. ASSUME NEW c \in Calls, RefreshCreate(c) PROVE TypeOK'
  <2>1. InFlight(c) /\ NewToken(root[call[c].token]) /\ root[call[c].token] \in 1..(created + 1)
    BY <1>5, <1>c DEF RefreshCreate, InFlight
  <2>2. /\ created' = created + 1 /\ created' \in 1..MaxToken
        /\ root' \in [Tokens -> 0..MaxToken]
        /\ \A t \in Tokens : root'[t] <= t /\ (root'[t] # 0 <=> t <= created')
    BY <2>1, NewTokenType
  <2>3. revoked' \subseteq 1..created' /\ held' \subseteq 1..created' /\ expired' \in 0..created'
    BY <1>5, <1>n, <2>2 DEF RefreshCreate, TypeOK
  <2>4. created + 1 \in 0..MaxToken
    BY <1>n, <2>2
  <2>5. call' \in [Calls -> CallStates]
    BY <1>5, <2>4 DEF RefreshCreate, TypeOK, CallStates
  <2>6. \A d \in Calls : /\ call'[d].token = call[d].token /\ (InFlight(d)' => InFlight(d))
                         /\ Made(d)' => d = c \/ (Made(d) /\ call'[d].child = call[d].child)
    BY <1>5, <2>1 DEF RefreshCreate, InFlight, Made, TypeOK, CallStates
  <2>8. call'[c].child = created + 1
    BY <1>5 DEF RefreshCreate, TypeOK, CallStates
  <2>7. \A d \in Calls : /\ InFlight(d)' => call'[d].token \in 1..created'
                         /\ Made(d)' => call'[d].child \in 1..created'
    BY <1>n, <1>c, <2>2, <2>6, <2>8
  <2> QED BY <1>5, <2>2, <2>3, <2>5, <2>7 DEF RefreshCreate, TypeOK, Made
<1>6. ASSUME NEW c \in Calls, RefreshRevoke(c) PROVE TypeOK'
  <2>1. call[c].token \in 1..created /\ call[c].child \in 0..MaxToken
    BY <1>6, <1>c DEF RefreshRevoke, InFlight, CallStates
  <2>2. revoked' \subseteq 1..created /\ heir' \in [Tokens -> 0..MaxToken]
    BY <1>6, <2>1 DEF RefreshRevoke, TypeOK
  <2>3. call' \in [Calls -> CallStates]
    BY <1>6 DEF RefreshRevoke, TypeOK, CallStates
  <2>4. \A d \in Calls : /\ InFlight(d)' => call'[d].token \in 1..created
                         /\ Made(d)' => call'[d].child \in 1..created
    BY <1>6, <1>c, <2>1 DEF RefreshRevoke, InFlight, Made, TypeOK, CallStates
  <2> QED BY <1>6, <2>2, <2>3, <2>4 DEF RefreshRevoke, TypeOK, Made
<1>7. ASSUME NEW c \in Calls, call' = [call EXCEPT ![c] = IdleCall]
      PROVE  call' \in [Calls -> CallStates]
             /\ \A d \in Calls : /\ InFlight(d)' => call'[d].token \in 1..created
                                 /\ Made(d)' => call'[d].child \in 1..created
  BY <1>7, <1>i, <1>c DEF TypeOK, InFlight, Made
<1>8. ASSUME NEW c \in Calls, RefreshAnswer(c) PROVE TypeOK'
  <2>1. held' \subseteq 1..created
    BY <1>8, <1>c DEF RefreshAnswer, Made, TypeOK
  <2> QED BY <1>8, <1>7, <2>1 DEF RefreshAnswer, TypeOK, Made
<1>9. ASSUME NEW c \in Calls, RefreshAnswerLost(c) PROVE TypeOK'
  <2>1. lost' \subseteq Tokens
    BY <1>9, <1>c DEF RefreshAnswerLost, InFlight, TypeOK
  <2> QED BY <1>9, <1>7, <2>1 DEF RefreshAnswerLost, TypeOK, Made
<1>10. ASSUME NEW c \in Calls, LogoutRevoke(c) PROVE TypeOK'
  <2>1. ended' \subseteq Tokens /\ revoked' \subseteq 1..created
    BY <1>10, <1>c DEF LogoutRevoke, InFlight, TypeOK
  <2> QED BY <1>10, <1>7, <2>1 DEF LogoutRevoke, TypeOK, Made
<1>11. ASSUME NEW c \in Calls, Throw(c) PROVE TypeOK'
  <2>1. contested' \subseteq Tokens
    BY <1>11, <1>c DEF Throw, InFlight, TypeOK
  <2> QED BY <1>11, <1>7, <2>1 DEF Throw, TypeOK, Made
<1>12. CASE UNCHANGED vars
  BY <1>12 DEF vars, TypeOK, InFlight
<1> QED BY <1>1, <1>2, <1>3, <1>4, <1>5, <1>6, <1>8, <1>9, <1>10, <1>11, <1>12 DEF Next

\* Rows, calls and what clients hold have their types.
THEOREM TypeCorrect == Spec => []TypeOK
<1> QED BY InitType, StepType, PTL DEF Spec

-----------------------------------------------------------------------------
(* Families, step by step.                                                 *)

\* What types say of tokens and calls.
LEMMA TypeFacts ==
  ASSUME TypeOK
  PROVE  /\ created \in Nat /\ created <= MaxToken
         /\ revoked \subseteq 1..created /\ held \subseteq 1..created
         /\ \A t \in 1..created : t \in Tokens /\ root[t] \in 1..created /\ root[t] \in Tokens
         /\ \A t \in Tokens : /\ t \in Nat /\ root[t] \in Nat /\ heir[t] \in Nat
                              /\ root[t] # 0 <=> t \in 1..created
                              /\ root[t] <= created
         /\ \A c \in Calls : /\ call[c] \in CallStates
                             /\ InFlight(c) => Token(c) \in 1..created
                             /\ Made(c) => InFlight(c) /\ Child(c) \in 1..created
<1>1. created \in Nat /\ created <= MaxToken
  BY DEF TypeOK
<1>2. \A t \in 1..created : t \in Tokens /\ root[t] \in 1..created /\ root[t] \in Tokens
  BY RootType
<1>3. ASSUME NEW t \in Tokens
      PROVE  /\ t \in Nat /\ root[t] \in Nat /\ heir[t] \in Nat
             /\ root[t] # 0 <=> t \in 1..created
             /\ root[t] <= created
  BY <1>1 DEF TypeOK, Tokens
<1>4. \A c \in Calls : /\ call[c] \in CallStates
                       /\ InFlight(c) => Token(c) \in 1..created
                       /\ Made(c) => InFlight(c) /\ Child(c) \in 1..created
  BY DEF TypeOK, Token, Child, Made, InFlight
<1> QED BY <1>1, <1>2, <1>3, <1>4 DEF TypeOK

\* A login starts a family of its own.
LEMMA LoginSafe == ASSUME FamilyInv, Login PROVE FamilyFacts'
<1> DEFINE n == created + 1
<1>t. TypeOK /\ FamilyFacts
  BY DEF FamilyInv
<1>1. /\ created \in Nat
      /\ revoked \subseteq 1..created /\ held \subseteq 1..created
      /\ \A t \in 1..created : t \in Tokens /\ root[t] \in 1..created
      /\ \A t \in Tokens : root[t] <= created /\ root[t] \in Nat /\ t \in Nat
      /\ \A c \in Calls : /\ InFlight(c) => Token(c) \in 1..created
                          /\ Made(c) => InFlight(c) /\ Child(c) \in 1..created
  BY <1>t, TypeFacts
<1>2. NewToken(n) /\ n \in 1..(created + 1)
  BY <1>1 DEF Login
<1>3. /\ n \in Tokens /\ created' = n /\ root'[n] = n
      /\ \A t \in Tokens : t # n => root'[t] = root[t]
  BY <1>t, <1>2, NewTokenType
<1>4. /\ held' = held \cup {n}
      /\ UNCHANGED <<revoked, heir, call, contested, ended, lost>>
  BY DEF Login
<1>5. n \notin held \cup revoked /\ \A t \in 1..created : t # n
  BY <1>1
<1>6. \A c \in Calls : InFlight(c) => root'[Token(c)] = root[Token(c)] /\ root[Token(c)] # n
  BY <1>1, <1>3, <1>5
<1>7. \A t \in Tokens : (root'[t] = n <=> t = n) /\ (root'[t] # n => root'[t] = root[t])
  BY <1>1, <1>3
<1>8. UNCHANGED <<call>> /\ \A c \in Calls : /\ InFlight(c)' <=> InFlight(c)
                                             /\ Made(c)' <=> Made(c)
                                             /\ Token(c)' = Token(c) /\ Child(c)' = Child(c)
  BY <1>4 DEF InFlight, Made, Token, Child
<1>9. \A r : r # n => (InHand(r)' <=> InHand(r))
  BY <1>6, <1>8 DEF InHand
<1>10. \A r \in Tokens : r # n => Family(r)' = Family(r)
  <2>1. root[n] \notin Tokens
    BY <1>t, <1>3, <1>5, TypeFacts DEF Tokens
  <2> QED BY <1>7, <2>1 DEF Family
<1> HIDE DEF n
<1>11. ChildrenAreFresh'
  <2>1. \A c \in Calls : Made(c) => root'[Child(c)] = root[Child(c)] /\ Child(c) # n
    BY <1>1, <1>3, <1>5
  <2>2. \A c \in Calls : Made(c) => Child(c) \in 1..created'
    BY <1>1, <1>3 DEF n
  <2> QED BY <1>t, <1>4, <1>6, <1>8, <1>1, <2>1, <2>2 DEF FamilyFacts, ChildrenAreFresh
<1>12. HandsAreFull'
  BY <1>t, <1>4, <1>6, <1>7, <1>8 DEF FamilyFacts, HandsAreFull, Family
<1>13. OneLiveInHand'
  BY <1>t, <1>4, <1>7, <1>9 DEF FamilyFacts, OneLiveInHand
<1>14. EndedIsOver'
  <2>1. n \notin ended /\ ended \subseteq 1..created'
    BY <1>t, <1>1, <1>3, <1>5 DEF FamilyFacts, EndedIsOver, n
  <2> QED BY <1>t, <1>4, <1>7, <1>9, <2>1 DEF FamilyFacts, EndedIsOver, Family
<1>15. HeirsAreFree'
  <2>1. \A t \in Tokens : heir[t] # 0 => t <= created'
    BY <1>t, <1>1, <1>3 DEF FamilyFacts, HeirsAreFree, n
  <2>2. heir[n] = 0
    BY <1>t, <1>1, <1>3 DEF FamilyFacts, HeirsAreFree, n
  <2>3. ASSUME NEW t \in (1..created') \ revoked', root'[t] \notin contested'
        PROVE  heir'[t] = 0
    <3>1. t = n \/ t \in (1..created) \ revoked
      BY <2>3, <1>1, <1>3, <1>4 DEF n
    <3> QED BY <1>t, <1>1, <1>3, <1>4, <1>5, <2>2, <2>3, <3>1 DEF FamilyFacts, HeirsAreFree
  <2> QED BY <1>4, <2>1, <2>3 DEF HeirsAreFree
<1>16. LineageInHand'
  <2> SUFFICES ASSUME NEW r \in Tokens \ contested, NEW u \in Family(r)', u # r
               PROVE  \/ \E t \in Family(r)' : t < u /\ heir[t] = u
                      \/ \E c \in Calls : call[c].pc = "revoke" /\ Child(c) = u
    BY <1>4, <1>8 DEF LineageInHand
  <2>1. r # n
    BY <1>7 DEF Family
  <2>2. Family(r)' = Family(r)
    BY <1>10, <2>1
  <2> QED BY <1>t, <2>2 DEF FamilyFacts, LineageInHand
<1>17. SessionSurvives'
  <2> SUFFICES ASSUME NEW r \in Tokens \ (ended \cup lost), root'[r] = r
               PROVE  \E t \in Family(r)' \ revoked :
                        t \in held' \/ \E c \in Calls : call[c].pc = "answer" /\ Child(c) = t
    BY <1>4 DEF SessionSurvives, Child
  <2>1. CASE r = n
    BY <1>3, <1>4, <1>5, <2>1 DEF Family
  <2>2. CASE r # n
    <3>1. Family(r)' = Family(r) /\ root[r] = r
      BY <1>7, <1>10, <2>2
    <3>2. \E t \in Family(r) \ revoked :
            t \in held \/ \E c \in Calls : call[c].pc = "answer" /\ call[c].child = t
      BY <1>t, <3>1 DEF FamilyFacts, SessionSurvives
    <3> QED BY <1>4, <3>1, <3>2 DEF Child
  <2> QED BY <2>1, <2>2
<1> QED BY <1>11, <1>12, <1>13, <1>14, <1>15, <1>16, <1>17 DEF FamilyFacts

\* A call takes a token in hand.
LEMMA ReadSafe ==
  ASSUME FamilyInv, NEW c \in Calls, ~InFlight(c), NEW k \in held, Usable(k),
         NEW pc \in {"create", "logout"},
         call' = [call EXCEPT ![c] = [pc |-> pc, token |-> k, child |-> 0]],
         contested' = Noted(k), UNCHANGED <<rows, held, ended, lost>>
  PROVE  FamilyFacts'
<1>t. TypeOK /\ FamilyFacts
  BY DEF FamilyInv
<1>1. /\ held \subseteq 1..created
      /\ \A t \in 1..created : t \in Tokens /\ root[t] \in 1..created /\ root[t] \in Tokens
      /\ \A d \in Calls : /\ InFlight(d) => Token(d) \in 1..created
                          /\ Made(d) => InFlight(d) /\ Child(d) \in 1..created
  BY <1>t, TypeFacts
<1>2. /\ InFlight(c)' /\ ~Made(c)' /\ Token(c)' = k /\ call'[c].pc = pc
      /\ \A d \in Calls : d # c => /\ InFlight(d)' <=> InFlight(d)
                                   /\ Made(d)' <=> Made(d)
                                   /\ Token(d)' = Token(d) /\ Child(d)' = Child(d)
                                   /\ call'[d] = call[d]
  BY <1>t DEF TypeOK, InFlight, Made, Token, Child
<1>3. k \in Tokens /\ k \notin revoked /\ root[k] \in Tokens /\ contested \subseteq contested'
  BY <1>1 DEF Usable, Noted
<1>4. ASSUME root[k] \notin contested' PROVE ~InHand(root[k])
  <2> SUFFICES ASSUME NEW d \in Calls, InFlight(d), root[Token(d)] = root[k]
               PROVE  FALSE
    BY DEF InHand
  <2>1. root[k] \notin contested /\ Token(d) # k
    BY <1>4 DEF Noted, Overlaps, Token
  <2>2. k \in Family(root[Token(d)]) \ revoked
    BY <1>3 DEF Family
  <2>3. Made(d) /\ k = Child(d)
    BY <1>t, <2>1, <2>2 DEF FamilyFacts, HandsAreFull
  <2> QED BY <1>t, <2>3 DEF FamilyFacts, ChildrenAreFresh
<1>5. \A r : InHand(r)' <=> InHand(r) \/ r = root[k]
  BY <1>2 DEF InHand
<1>6. ChildrenAreFresh'
  BY <1>t, <1>2 DEF FamilyFacts, ChildrenAreFresh
<1>7. HandsAreFull'
  <2>1. ASSUME root[k] \notin contested', NEW t \in Family(root[k]) \ revoked
        PROVE  t = k
    BY <1>t, <1>3, <1>4, <2>1 DEF FamilyFacts, OneLiveInHand, Family
  <2>2. \A d \in Calls : InFlight(d) /\ root[Token(d)] = root[k] => root[k] \in contested'
    BY <1>4 DEF InHand
  <2>3. \A d \in Calls : InFlight(d)' /\ d # c => InFlight(d) /\ call'[d].pc = call[d].pc
    BY <1>2
  <2> QED BY <1>t, <1>2, <1>3, <2>1, <2>2, <2>3 DEF FamilyFacts, HandsAreFull, Family
<1>8. OneLiveInHand'
  BY <1>t, <1>3, <1>5 DEF FamilyFacts, OneLiveInHand
<1>9. EndedIsOver'
  <2>1. root[k] \in ended => root[k] \in contested
    BY <1>t, <1>3 DEF FamilyFacts, EndedIsOver, Family
  <2> QED BY <1>t, <1>3, <1>5, <2>1 DEF FamilyFacts, EndedIsOver, Family
<1>10. HeirsAreFree'
  BY <1>t, <1>3 DEF FamilyFacts, HeirsAreFree
<1>11. LineageInHand'
  <2>1. \A d \in Calls : call[d].pc = "revoke" => d # c /\ call'[d] = call[d] /\ Child(d)' = Child(d)
    BY <1>2 DEF InFlight
  <2> QED BY <1>t, <1>3, <2>1 DEF FamilyFacts, LineageInHand, Family
<1>12. SessionSurvives'
  <2>1. \A d \in Calls : call[d].pc = "answer" => d # c /\ call'[d] = call[d]
    BY <1>2 DEF InFlight
  <2> QED BY <1>t, <2>1 DEF FamilyFacts, SessionSurvives, Family
<1> QED BY <1>6, <1>7, <1>8, <1>9, <1>10, <1>11, <1>12 DEF FamilyFacts

\* The child joins the family of the call's token.
LEMMA CreateSafe == ASSUME FamilyInv, NEW c \in Calls, RefreshCreate(c) PROVE FamilyFacts'
<1> DEFINE n == created + 1
           k == Token(c)
<1>t. TypeOK /\ FamilyFacts
  BY DEF FamilyInv
<1>1. /\ created \in Nat
      /\ revoked \subseteq 1..created /\ held \subseteq 1..created
      /\ \A t \in 1..created : t \in Tokens /\ root[t] \in 1..created /\ root[t] \in Tokens
      /\ \A t \in Tokens : root[t] <= created /\ root[t] \in Nat /\ t \in Nat
      /\ \A d \in Calls : /\ call[d] \in CallStates
                          /\ InFlight(d) => Token(d) \in 1..created
                          /\ Made(d) => InFlight(d) /\ Child(d) \in 1..created
  BY <1>t, TypeFacts
<1>2. InFlight(c) /\ ~Made(c) /\ k \in 1..created /\ NewToken(root[k])
      /\ root[k] \in 1..(created + 1)
  BY <1>1 DEF RefreshCreate, InFlight, Made, Token
<1>3. /\ n \in Tokens /\ created' = n /\ root'[n] = root[k]
      /\ \A t \in Tokens : t # n => root'[t] = root[t]
  BY <1>t, <1>2, NewTokenType
<1>4. UNCHANGED <<expired, revoked, heir, held, contested, ended, lost>>
  BY DEF RefreshCreate
<1>5. n \notin held \cup revoked /\ \A t \in 1..created : t # n
  BY <1>1
<1>6. /\ call'[c].pc = "revoke" /\ call'[c].child = n /\ call'[c].token = call[c].token
      /\ \A d \in Calls : d # c => call'[d] = call[d]
  BY <1>t, <1>1 DEF RefreshCreate, TypeOK, CallStates
<1>7. /\ Made(c)' /\ call'[c].child = n
      /\ \A d \in Calls : /\ InFlight(d)' <=> InFlight(d)
                          /\ Token(d)' = Token(d)
                          /\ d # c => (Made(d)' <=> Made(d)) /\ Child(d)' = Child(d)
  BY <1>2, <1>6 DEF InFlight, Made, Token, Child
<1>8. \A d \in Calls : InFlight(d) => root'[Token(d)] = root[Token(d)]
  BY <1>1, <1>3, <1>5
<1>9. \A r : InHand(r)' <=> InHand(r)
  BY <1>7, <1>8 DEF InHand
<1>10. InHand(root[k]) /\ k \in held /\ root[n] \notin Tokens
  <2>1. root[n] = 0
    BY <1>t, <1>3, <1>5, TypeFacts
  <2> QED BY <1>t, <1>2, <2>1 DEF InHand, FamilyFacts, ChildrenAreFresh, Tokens
<1>11. \A d \in Calls \ {c} : InFlight(d) /\ root[Token(d)] = root[k] => root[k] \in contested
  BY <1>t, <1>2 DEF FamilyFacts, HandsAreFull
<1>12. \A r \in Tokens : /\ r # root[k] => Family(r)' = Family(r)
                         /\ Family(r)' \subseteq Family(r) \cup {n}
                         /\ Family(r) \subseteq Family(r)'
  BY <1>3, <1>10 DEF Family
<1> HIDE DEF n
<1>13. ChildrenAreFresh'
  <2>1. \A d \in Calls : Made(d) => root'[Child(d)] = root[Child(d)] /\ Child(d) # n
    BY <1>1, <1>3, <1>5
  <2>2. \A d \in Calls : Made(d) => Child(d) \in 1..created'
    BY <1>1, <1>3 DEF n
  <2>3. n \in 1..created' /\ k < n /\ n \notin held' \cup revoked'
    BY <1>1, <1>2, <1>3, <1>4, <1>5 DEF n
  <2>4. \A d \in Calls : InFlight(d)' => Token(d)' \in held'
    BY <1>t, <1>4, <1>7 DEF FamilyFacts, ChildrenAreFresh
  <2>5. ASSUME NEW d \in Calls, Made(d)'
        PROVE  /\ Child(d)' \in 1..created' /\ Child(d)' \notin held' \cup revoked'
               /\ root'[Child(d)'] = root'[Token(d)'] /\ Token(d)' < Child(d)'
    <3>1. CASE d = c
      <4>1. Child(d)' = n /\ Token(d)' = k
        BY <3>1, <1>7 DEF Child
      <4> QED BY <4>1, <2>3, <1>2, <1>3, <1>8
    <3>2. CASE d # c
      <4>1. Made(d) /\ Child(d)' = Child(d) /\ Token(d)' = Token(d)
        BY <2>5, <3>2, <1>7
      <4> QED BY <4>1, <2>1, <2>2, <1>t, <1>1, <1>4, <1>8 DEF FamilyFacts, ChildrenAreFresh
    <3> QED BY <3>1, <3>2
  <2>6. ASSUME NEW d \in Calls, NEW e \in Calls, Made(d)', Made(e)', Child(d)' = Child(e)'
        PROVE  d = e
    <3>1. Child(c)' = n
      BY <1>7 DEF Child
    <3> QED BY <2>6, <3>1, <2>1, <1>t, <1>7 DEF FamilyFacts, ChildrenAreFresh
  <2> QED BY <2>4, <2>5, <2>6 DEF ChildrenAreFresh
<1>14. HandsAreFull'
  <2>1. ASSUME NEW d \in Calls, NEW e \in Calls, InFlight(d)', InFlight(e)',
               root'[Token(d)'] = root'[Token(e)'], root'[Token(d)'] \notin contested'
        PROVE  d = e
    BY <2>1, <1>t, <1>4, <1>7, <1>8 DEF FamilyFacts, HandsAreFull
  <2>2. ASSUME NEW d \in Calls, InFlight(d)', root'[Token(d)'] \notin contested'
        PROVE  /\ \A t \in Family(root[Token(d)])' \ revoked' :
                    t = Token(d)' \/ (Made(d)' /\ t = Child(d)')
               /\ call'[d].pc = "answer" => Token(d)' \in revoked'
               /\ Token(d)' \in revoked' => call'[d].pc = "answer"
    <3>1. /\ InFlight(d) /\ root'[Token(d)'] = root[Token(d)] /\ Token(d)' = Token(d)
          /\ root[Token(d)] \notin contested /\ root[Token(d)] \in Tokens
      BY <2>2, <1>1, <1>4, <1>7, <1>8
    <3>2. /\ \A t \in Family(root[Token(d)]) \ revoked :
               t = Token(d) \/ (Made(d) /\ t = Child(d))
          /\ call[d].pc = "answer" => Token(d) \in revoked
          /\ Token(d) \in revoked => call[d].pc = "answer"
      BY <1>t, <3>1 DEF FamilyFacts, HandsAreFull
    <3>3. {t \in Tokens : root'[t] = root[Token(d)]} = Family(root[Token(d)])'
      BY <3>1 DEF Family
    <3>4. CASE d = c
      <4>1. \A t \in Family(root[Token(d)])' : t = n \/ t \in Family(root[Token(d)])
        BY <3>1, <3>3, <1>3 DEF Family
      <4>2. Child(d)' = n /\ Made(d)' /\ ~Made(d) /\ call[d].pc # "answer"
        BY <3>4, <1>2, <1>7 DEF Child, Made
      <4> QED BY <3>1, <3>2, <3>4, <4>1, <4>2, <1>4, <1>6
    <3>5. CASE d # c
      <4>1. root[Token(d)] # root[k]
        BY <3>1, <3>5, <1>11
      <4>2. \A t \in Family(root[Token(d)])' : t \in Family(root[Token(d)])
        BY <3>3, <4>1, <1>3 DEF Family
      <4> QED BY <3>1, <3>2, <3>5, <4>2, <1>4, <1>6, <1>7
    <3> QED BY <3>4, <3>5
  <2> QED BY <2>1, <2>2 DEF HandsAreFull
<1>15. OneLiveInHand'
  <2> SUFFICES ASSUME NEW t \in Tokens \ revoked, NEW u \in Tokens \ revoked,
                      root'[t] = root'[u], root'[t] \in Tokens \ contested, ~InHand(root'[t])
               PROVE  t = u
    <3>1. \A r : InHand(r)' <=> InHand(r)
      BY <1>9
    <3> QED BY <3>1, <1>4 DEF OneLiveInHand
  <2>1. t # n /\ u # n
    BY <1>3, <1>10
  <2> QED BY <2>1, <1>t, <1>3 DEF FamilyFacts, OneLiveInHand
<1>16. EndedIsOver'
  <2>1. ended' \subseteq 1..created'
    BY <1>t, <1>1, <1>3, <1>4 DEF FamilyFacts, EndedIsOver, n
  <2>2. \A r \in ended \ contested : r # root[k] /\ r \in Tokens /\ ~InHand(r)
    BY <1>t, <1>1, <1>10 DEF FamilyFacts, EndedIsOver
  <2> QED BY <2>1, <2>2, <1>t, <1>4, <1>9, <1>12 DEF FamilyFacts, EndedIsOver
<1>17. HeirsAreFree'
  <2>1. \A t \in Tokens : heir[t] # 0 => t <= created'
    BY <1>t, <1>1, <1>3 DEF FamilyFacts, HeirsAreFree, n
  <2>2. heir[n] = 0
    BY <1>t, <1>1, <1>3 DEF FamilyFacts, HeirsAreFree, n
  <2>3. ASSUME NEW t \in (1..created') \ revoked', root'[t] \notin contested'
        PROVE  heir'[t] = 0
    <3>1. t = n \/ t \in (1..created) \ revoked
      BY <2>3, <1>1, <1>3, <1>4 DEF n
    <3> QED BY <1>t, <1>1, <1>3, <1>4, <1>5, <2>2, <2>3, <3>1 DEF FamilyFacts, HeirsAreFree
  <2> QED BY <1>4, <2>1, <2>3 DEF HeirsAreFree
<1>18. LineageInHand'
  <2> SUFFICES ASSUME NEW r \in Tokens \ contested, NEW u \in Family(r)', u # r
               PROVE  \/ \E t \in Family(r)' : t < u /\ heir[t] = u
                      \/ \E d \in Calls : call'[d].pc = "revoke" /\ call'[d].child = u
    BY <1>4 DEF LineageInHand, Child
  <2>1. CASE u = n
    BY <1>6, <2>1
  <2>2. CASE u # n
    <3>1. u \in Family(r)
      BY <1>12, <2>2
    <3>2. CASE \E t \in Family(r) : t < u /\ heir[t] = u
      BY <1>12, <3>2
    <3>3. CASE \E d \in Calls : call[d].pc = "revoke" /\ Child(d) = u
      BY <1>2, <1>6, <3>3 DEF Made, Child
    <3> QED BY <1>t, <3>1, <3>2, <3>3 DEF FamilyFacts, LineageInHand
  <2> QED BY <2>1, <2>2
<1>19. SessionSurvives'
  <2> SUFFICES ASSUME NEW r \in Tokens \ (ended \cup lost), root'[r] = r
               PROVE  \E t \in Family(r)' \ revoked :
                        t \in held \/ \E d \in Calls : call'[d].pc = "answer" /\ call'[d].child = t
    BY <1>4 DEF SessionSurvives
  <2>1. root[r] = r
    BY <1>1, <1>2, <1>3, <1>5
  <2>2. PICK t \in Family(r) \ revoked :
          t \in held \/ \E d \in Calls : call[d].pc = "answer" /\ call[d].child = t
    BY <1>t, <2>1 DEF FamilyFacts, SessionSurvives
  <2>3. \A d \in Calls : call[d].pc = "answer" => call'[d] = call[d]
    BY <1>2, <1>6 DEF Made
  <2> QED BY <1>12, <2>2, <2>3
<1> QED BY <1>13, <1>14, <1>15, <1>16, <1>17, <1>18, <1>19 DEF FamilyFacts

\* The token is revoked and the child, which no one has yet, takes its place.
LEMMA RevokeSafe == ASSUME FamilyInv, NEW c \in Calls, RefreshRevoke(c) PROVE FamilyFacts'
<1> DEFINE k == Token(c)
           n == Child(c)
<1>t. TypeOK /\ FamilyFacts
  BY DEF FamilyInv
<1>1. /\ created \in Nat
      /\ revoked \subseteq 1..created /\ held \subseteq 1..created
      /\ \A t \in 1..created : t \in Tokens /\ root[t] \in 1..created /\ root[t] \in Tokens
      /\ \A d \in Calls : /\ call[d] \in CallStates
                          /\ InFlight(d) => Token(d) \in 1..created
                          /\ Made(d) => InFlight(d) /\ Child(d) \in 1..created
  BY <1>t, TypeFacts
<1>2. /\ call[c].pc = "revoke" /\ Made(c) /\ InFlight(c)
      /\ revoked' = revoked \cup {k}
      /\ UNCHANGED <<created, expired, root, held, contested, ended, lost>>
  BY <1>1 DEF RefreshRevoke, Made, InFlight, Token
<1>3. /\ k \in 1..created /\ n \in 1..created /\ n # k /\ k \in Tokens /\ n \in Tokens
      /\ k \in held /\ n \notin held \cup revoked /\ root[n] = root[k] /\ k < n
  BY <1>t, <1>1, <1>2 DEF FamilyFacts, ChildrenAreFresh
<1>4. heir'[k] = n /\ \A t \in Tokens : t # k => heir'[t] = heir[t]
  BY <1>t, <1>3 DEF RefreshRevoke, TypeOK, Token, Child
<1>5. /\ call'[c].pc = "answer" /\ call'[c].child = call[c].child
      /\ call'[c].token = call[c].token
      /\ \A d \in Calls : d # c => call'[d] = call[d]
  BY <1>t, <1>1 DEF RefreshRevoke, TypeOK, CallStates
<1>6. /\ \A d \in Calls : /\ InFlight(d)' <=> InFlight(d)
                          /\ Made(d)' <=> Made(d)
                          /\ Token(d)' = Token(d) /\ Child(d)' = Child(d)
  BY <1>2, <1>5 DEF InFlight, Made, Token, Child
<1>7. \A r : (InHand(r)' <=> InHand(r)) /\ Family(r)' = Family(r)
  BY <1>2, <1>6 DEF InHand, Family
<1>8. \A d \in Calls \ {c} : InFlight(d) /\ root[Token(d)] = root[k] => root[k] \in contested
  BY <1>t, <1>2 DEF FamilyFacts, HandsAreFull
<1> HIDE DEF k, n
<1>9. ChildrenAreFresh'
  <2>1. \A d \in Calls : Made(d) => Child(d) # k
    BY <1>t, <1>3 DEF FamilyFacts, ChildrenAreFresh
  <2> QED BY <2>1, <1>t, <1>2, <1>6 DEF FamilyFacts, ChildrenAreFresh
<1>10. HandsAreFull'
  <2>2. Token(c) \in revoked'
    BY <1>2 DEF k
  <2>3. revoked \subseteq revoked'
    BY <1>2
  <2>4. \A d \in Calls : InFlight(d) /\ root[Token(d)] \notin contested => d = c \/ Token(d) # k
    BY <1>8
  <2>5. \A d \in Calls \ {c} : call'[d].pc = call[d].pc /\ revoked' = revoked \cup {k}
    BY <1>2, <1>5
  <2>6. ASSUME NEW d \in Calls, NEW e \in Calls, InFlight(d)', InFlight(e)',
               root'[Token(d)'] = root'[Token(e)'], root'[Token(d)'] \notin contested'
        PROVE  d = e
    BY <2>6, <1>t, <1>2, <1>6 DEF FamilyFacts, HandsAreFull
  <2>7. ASSUME NEW d \in Calls, InFlight(d)', root'[Token(d)'] \notin contested'
        PROVE  /\ \A t \in Family(root[Token(d)])' \ revoked' :
                    t = Token(d)' \/ (Made(d)' /\ t = Child(d)')
               /\ call'[d].pc = "answer" => Token(d)' \in revoked'
               /\ Token(d)' \in revoked' => call'[d].pc = "answer"
    <3>1. InFlight(d) /\ Token(d)' = Token(d) /\ root[Token(d)] \notin contested
      BY <2>7, <1>2, <1>6
    <3>2. /\ \A t \in Family(root[Token(d)]) \ revoked :
               t = Token(d) \/ (Made(d) /\ t = Child(d))
          /\ call[d].pc = "answer" => Token(d) \in revoked
          /\ Token(d) \in revoked => call[d].pc = "answer"
      BY <1>t, <3>1 DEF FamilyFacts, HandsAreFull
    <3>3. Family(root[Token(d)])' = Family(root[Token(d)])
      BY <1>2, <3>1 DEF Family
    <3>4. \A t \in Family(root[Token(d)])' \ revoked' :
            t = Token(d)' \/ (Made(d)' /\ t = Child(d)')
      BY <2>3, <3>1, <3>2, <3>3, <1>6
    <3>5. CASE d = c
      BY <2>2, <3>1, <3>4, <3>5, <1>5
    <3>6. CASE d # c
      BY <2>4, <2>5, <3>1, <3>2, <3>4, <3>6
    <3> QED BY <3>5, <3>6
  <2> QED BY <2>6, <2>7 DEF HandsAreFull
<1>11. OneLiveInHand'
  BY <1>t, <1>2, <1>7 DEF FamilyFacts, OneLiveInHand
<1>12. EndedIsOver'
  BY <1>t, <1>2, <1>7 DEF FamilyFacts, EndedIsOver
<1>13. HeirsAreFree'
  BY <1>t, <1>1, <1>2, <1>3, <1>4 DEF FamilyFacts, HeirsAreFree
<1>14. LineageInHand'
  <2> SUFFICES ASSUME NEW r \in Tokens \ contested, NEW u \in Family(r), u # r
               PROVE  \/ \E t \in Family(r) : t < u /\ heir'[t] = u
                      \/ \E d \in Calls : call'[d].pc = "revoke" /\ Child(d)' = u
    BY <1>2, <1>7 DEF LineageInHand
  <2>1. ASSUME NEW t \in Family(r), t < u, heir[t] = u
        PROVE  heir'[t] = u
    <3>1. t # k
      <4> SUFFICES ASSUME t = k PROVE FALSE
        OBVIOUS
      <4>1. root[k] = r /\ root[k] \notin contested /\ u \in Tokens /\ u # 0
        BY DEF Family, Tokens
      <4>2. k \notin revoked
        BY <1>t, <1>2, <4>1 DEF FamilyFacts, HandsAreFull, k
      <4>3. heir[k] = 0
        BY <1>t, <1>3, <4>1, <4>2 DEF FamilyFacts, HeirsAreFree
      <4> QED BY <2>1, <4>1, <4>3
    <3> QED BY <2>1, <3>1, <1>4 DEF Family
  <2>2. ASSUME NEW d \in Calls, call[d].pc = "revoke", Child(d) = u
        PROVE  \/ \E t \in Family(r) : t < u /\ heir'[t] = u
               \/ \E e \in Calls : call'[e].pc = "revoke" /\ Child(e)' = u
    <3>1. CASE d = c
      <4>1. u = n /\ k \in Family(r)
        BY <2>2, <3>1, <1>3 DEF Family, n
      <4> QED BY <4>1, <1>3, <1>4
    <3>2. CASE d # c
      BY <2>2, <3>2, <1>5, <1>6
    <3> QED BY <3>1, <3>2
  <2> QED BY <2>1, <2>2, <1>t DEF FamilyFacts, LineageInHand
<1>15. SessionSurvives'
  <2> SUFFICES ASSUME NEW r \in Tokens \ (ended \cup lost), root[r] = r
               PROVE  \E t \in Family(r) \ revoked' :
                        t \in held \/ \E d \in Calls : call'[d].pc = "answer" /\ call'[d].child = t
    BY <1>2, <1>7 DEF SessionSurvives
  <2>1. PICK t \in Family(r) \ revoked :
          t \in held \/ \E d \in Calls : call[d].pc = "answer" /\ call[d].child = t
    BY <1>t DEF FamilyFacts, SessionSurvives
  <2>2. CASE t = k
    <3>1. n \in Family(r) \ revoked'
      BY <2>1, <2>2, <1>2, <1>3 DEF Family
    <3> QED BY <3>1, <1>5 DEF n, Child
  <2>3. CASE t # k
    <3>1. \A d \in Calls : call[d].pc = "answer" => call'[d] = call[d]
      BY <1>2, <1>5
    <3> QED BY <2>1, <2>3, <3>1, <1>2
  <2> QED BY <2>2, <2>3
<1> QED BY <1>9, <1>10, <1>11, <1>12, <1>13, <1>14, <1>15 DEF FamilyFacts


\* A call that ends leaves every other call as it was.
LEMMA CallEnds ==
  ASSUME TypeOK, NEW c \in Calls, call' = [call EXCEPT ![c] = IdleCall], root' = root
  PROVE  /\ ~InFlight(c)' /\ ~Made(c)' /\ call'[c].pc = "idle"
         /\ \A d \in Calls : d # c => /\ InFlight(d)' <=> InFlight(d)
                                      /\ Made(d)' <=> Made(d)
                                      /\ Token(d)' = Token(d) /\ Child(d)' = Child(d)
                                      /\ call'[d] = call[d]
         /\ \A r : Family(r)' = Family(r) /\ (InHand(r)' => InHand(r))
         /\ \A r : r # root[Token(c)] => (InHand(r) => InHand(r)')
<1>1. /\ ~InFlight(c)' /\ ~Made(c)' /\ call'[c].pc = "idle"
      /\ \A d \in Calls : d # c => /\ InFlight(d)' <=> InFlight(d)
                                   /\ Made(d)' <=> Made(d)
                                   /\ Token(d)' = Token(d) /\ Child(d)' = Child(d)
                                   /\ call'[d] = call[d]
  BY DEF TypeOK, InFlight, Made, Token, Child, IdleCall
<1>2. \A r : InHand(r)' => InHand(r)
  BY <1>1 DEF InHand
<1>3. \A r : r # root[Token(c)] => (InHand(r) => InHand(r)')
  BY <1>1 DEF InHand
<1>4. \A r : Family(r)' = Family(r)
  BY DEF Family
<1> QED BY <1>1, <1>2, <1>3, <1>4

\* The child reaches the client, or the answer is lost.
LEMMA AnswerSafe ==
  ASSUME FamilyInv, NEW c \in Calls, RefreshAnswer(c) \/ RefreshAnswerLost(c)
  PROVE  FamilyFacts'
<1> DEFINE k == Token(c)
           n == Child(c)
<1>t. TypeOK /\ FamilyFacts
  BY DEF FamilyInv
<1>1. \A d \in Calls : /\ InFlight(d) => Token(d) \in 1..created /\ root[Token(d)] \in Tokens
                       /\ Made(d) => InFlight(d) /\ Child(d) \in 1..created /\ Child(d) \in Tokens
  BY <1>t, TypeFacts
<1>2. /\ call[c].pc = "answer" /\ Made(c) /\ InFlight(c)
      /\ call' = [call EXCEPT ![c] = IdleCall]
      /\ UNCHANGED <<created, expired, revoked, heir, root, contested, ended>>
  BY DEF RefreshAnswer, RefreshAnswerLost, Made, InFlight
<1>3. /\ held \subseteq held' /\ held' \subseteq held \cup {n}
      /\ n \in held' \/ root[k] \in lost'
      /\ lost \subseteq lost'
  BY DEF RefreshAnswer, RefreshAnswerLost, Token, Child
<1>4. /\ ~InFlight(c)' /\ ~Made(c)' /\ call'[c].pc = "idle"
      /\ \A d \in Calls : d # c => /\ InFlight(d)' <=> InFlight(d)
                                   /\ Made(d)' <=> Made(d)
                                   /\ Token(d)' = Token(d) /\ Child(d)' = Child(d)
                                   /\ call'[d] = call[d]
      /\ \A r : Family(r)' = Family(r) /\ (InHand(r)' => InHand(r))
      /\ \A r : r # root[k] => (InHand(r) => InHand(r)')
  BY <1>t, <1>2, CallEnds
<1>5. root[n] = root[k] /\ \A d \in Calls : Made(d) /\ d # c => Child(d) # n
  BY <1>t, <1>2 DEF FamilyFacts, ChildrenAreFresh
<1>6. root[k] \notin contested => \A t \in Family(root[k]) \ revoked : t = n
  BY <1>t, <1>2 DEF FamilyFacts, HandsAreFull
<1> HIDE DEF k, n
<1>7. ChildrenAreFresh'
  BY <1>t, <1>2, <1>3, <1>4, <1>5 DEF FamilyFacts, ChildrenAreFresh
<1>8. HandsAreFull'
  BY <1>t, <1>2, <1>4 DEF FamilyFacts, HandsAreFull
<1>9. OneLiveInHand'
  <2> SUFFICES ASSUME NEW t \in Tokens \ revoked, NEW u \in Tokens \ revoked,
                      root[t] = root[u], root[t] \in Tokens \ contested, ~InHand(root[t])'
               PROVE  t = u
    BY <1>2 DEF OneLiveInHand, InHand
  <2>1. CASE root[t] = root[k]
    BY <1>6, <2>1 DEF Family
  <2>2. CASE root[t] # root[k]
    BY <1>t, <1>2, <1>4, <2>2 DEF FamilyFacts, OneLiveInHand
  <2> QED BY <2>1, <2>2
<1>10. EndedIsOver'
  BY <1>t, <1>2, <1>4 DEF FamilyFacts, EndedIsOver
<1>11. HeirsAreFree'
  BY <1>t, <1>2 DEF FamilyFacts, HeirsAreFree
<1>12. LineageInHand'
  <2>1. \A d \in Calls : call[d].pc = "revoke" => call'[d].pc = "revoke" /\ Child(d)' = Child(d)
    BY <1>2, <1>4
  <2> QED BY <1>t, <1>2, <1>4, <2>1 DEF FamilyFacts, LineageInHand
<1>13. SessionSurvives'
  <2> SUFFICES ASSUME NEW r \in Tokens \ (ended \cup lost'), root[r] = r
               PROVE  \E t \in Family(r) \ revoked :
                        t \in held' \/ \E d \in Calls : call'[d].pc = "answer" /\ call'[d].child = t
    BY <1>2, <1>4 DEF SessionSurvives
  <2>1. PICK t \in Family(r) \ revoked :
          t \in held \/ \E d \in Calls : call[d].pc = "answer" /\ call[d].child = t
    BY <1>t, <1>3 DEF FamilyFacts, SessionSurvives
  <2>2. CASE t \in held
    BY <1>3, <2>2
  <2>3. ASSUME NEW d \in Calls, call[d].pc = "answer", call[d].child = t
        PROVE  t \in held' \/ \E e \in Calls : call'[e].pc = "answer" /\ call'[e].child = t
    <3>1. CASE d = c
      <4>1. t = n /\ root[n] = r
        BY <2>3, <3>1 DEF n, Child, Family
      <4> QED BY <4>1, <1>3, <1>5
    <3>2. CASE d # c
      BY <1>4, <2>3, <3>2
    <3> QED BY <3>1, <3>2
  <2> QED BY <2>1, <2>2, <2>3
<1> QED BY <1>7, <1>8, <1>9, <1>10, <1>11, <1>12, <1>13 DEF FamilyFacts

\* An uncontested family ends with the token that is logged out.
LEMMA LogoutSafe == ASSUME FamilyInv, NEW c \in Calls, LogoutRevoke(c) PROVE FamilyFacts'
<1> DEFINE k == Token(c)
<1>t. TypeOK /\ FamilyFacts
  BY DEF FamilyInv
<1>1. \A d \in Calls : /\ InFlight(d) => /\ Token(d) \in 1..created
                                         /\ root[Token(d)] \in Tokens
                                         /\ root[Token(d)] \in 1..created
                       /\ Made(d) => InFlight(d) /\ Child(d) \in 1..created
  BY <1>t, TypeFacts
<1>2. /\ call[c].pc = "logout" /\ ~Made(c) /\ InFlight(c)
      /\ call' = [call EXCEPT ![c] = IdleCall]
      /\ revoked' = revoked \cup {k} /\ ended' = ended \cup {root[k]}
      /\ UNCHANGED <<created, expired, heir, root, held, contested, lost>>
  BY DEF LogoutRevoke, Made, InFlight, Token
<1>3. /\ ~InFlight(c)' /\ ~Made(c)' /\ call'[c].pc = "idle"
      /\ \A d \in Calls : d # c => /\ InFlight(d)' <=> InFlight(d)
                                   /\ Made(d)' <=> Made(d)
                                   /\ Token(d)' = Token(d) /\ Child(d)' = Child(d)
                                   /\ call'[d] = call[d]
      /\ \A r : Family(r)' = Family(r) /\ (InHand(r)' => InHand(r))
      /\ \A r : r # root[k] => (InHand(r) => InHand(r)')
  BY <1>t, <1>2, CallEnds
<1>4. k \in held /\ root[k] \in 1..created /\ root[k] \in Tokens
  BY <1>t, <1>1, <1>2 DEF FamilyFacts, ChildrenAreFresh
<1>5. root[k] \notin contested =>
        /\ Family(root[k]) \subseteq revoked'
        /\ \A d \in Calls : d # c /\ InFlight(d) => root[Token(d)] # root[k]
  BY <1>t, <1>2 DEF FamilyFacts, HandsAreFull
<1> HIDE DEF k
<1>6. ChildrenAreFresh'
  BY <1>t, <1>2, <1>3, <1>4 DEF FamilyFacts, ChildrenAreFresh
<1>7. HandsAreFull'
  <2>1. ASSUME NEW d \in Calls, d # c, InFlight(d), root[Token(d)] \notin contested
        PROVE  Token(d) # k
    BY <1>5, <2>1
  <2> QED BY <2>1, <1>t, <1>2, <1>3 DEF FamilyFacts, HandsAreFull
<1>8. OneLiveInHand'
  <2> SUFFICES ASSUME NEW t \in Tokens \ revoked', NEW u \in Tokens \ revoked',
                      root[t] = root[u], root[t] \in Tokens \ contested, ~InHand(root[t])'
               PROVE  t = u
    BY <1>2 DEF OneLiveInHand, InHand
  <2>1. CASE root[t] = root[k]
    BY <1>5, <2>1 DEF Family
  <2>2. CASE root[t] # root[k]
    BY <1>t, <1>2, <1>3, <2>2 DEF FamilyFacts, OneLiveInHand
  <2> QED BY <2>1, <2>2
<1>9. EndedIsOver'
  <2>1. ended' \subseteq 1..created'
    BY <1>t, <1>2, <1>4 DEF FamilyFacts, EndedIsOver
  <2>2. ASSUME NEW r \in ended' \ contested'
        PROVE  Family(r)' \subseteq revoked' /\ ~InHand(r)'
    <3>1. CASE r = root[k]
      <4>1. \A d \in Calls : InFlight(d)' => d # c /\ InFlight(d) /\ Token(d)' = Token(d)
        BY <1>3
      <4>2. ~InHand(r)'
        BY <1>2, <1>5, <2>2, <3>1, <4>1 DEF InHand
      <4> QED BY <1>2, <1>3, <1>5, <2>2, <3>1, <4>2
    <3>2. CASE r # root[k]
      BY <1>t, <1>2, <1>3, <2>2, <3>2 DEF FamilyFacts, EndedIsOver
    <3> QED BY <3>1, <3>2
  <2> QED BY <2>1, <2>2 DEF EndedIsOver
<1>10. HeirsAreFree'
  BY <1>t, <1>2 DEF FamilyFacts, HeirsAreFree
<1>11. LineageInHand'
  <2>1. \A d \in Calls : call[d].pc = "revoke" => call'[d].pc = "revoke" /\ Child(d)' = Child(d)
    BY <1>2, <1>3
  <2> QED BY <1>t, <1>2, <1>3, <2>1 DEF FamilyFacts, LineageInHand
<1>12. SessionSurvives'
  <2> SUFFICES ASSUME NEW r \in Tokens \ (ended' \cup lost), root[r] = r
               PROVE  \E t \in Family(r) \ revoked' :
                        t \in held \/ \E d \in Calls : call'[d].pc = "answer" /\ call'[d].child = t
    BY <1>2, <1>3 DEF SessionSurvives
  <2>1. PICK t \in Family(r) \ revoked :
          t \in held \/ \E d \in Calls : call[d].pc = "answer" /\ call[d].child = t
    BY <1>t, <1>2 DEF FamilyFacts, SessionSurvives
  <2>2. t # k
    BY <1>2, <2>1 DEF Family
  <2>3. \A d \in Calls : call[d].pc = "answer" => call'[d] = call[d]
    BY <1>2, <1>3
  <2> QED BY <1>2, <2>1, <2>2, <2>3
<1> QED BY <1>6, <1>7, <1>8, <1>9, <1>10, <1>11, <1>12 DEF FamilyFacts


\* A call that throws leaves its family as it found it, or contested.
LEMMA ThrowSafe == ASSUME FamilyInv, NEW c \in Calls, Throw(c) PROVE FamilyFacts'
<1> DEFINE k == Token(c)
<1>t. TypeOK /\ FamilyFacts
  BY DEF FamilyInv
<1>1. \A d \in Calls : Made(d) => InFlight(d)
  BY <1>t, TypeFacts
<1>2. /\ InFlight(c) /\ call[c].pc # "answer"
      /\ call' = [call EXCEPT ![c] = IdleCall]
      /\ contested \subseteq contested'
      /\ call[c].pc = "revoke" => root[k] \in contested'
      /\ UNCHANGED <<created, expired, revoked, heir, root, held, ended, lost>>
  BY DEF Throw, InFlight, Token
<1>3. /\ ~InFlight(c)' /\ ~Made(c)' /\ call'[c].pc = "idle"
      /\ \A d \in Calls : d # c => /\ InFlight(d)' <=> InFlight(d)
                                   /\ Made(d)' <=> Made(d)
                                   /\ Token(d)' = Token(d) /\ Child(d)' = Child(d)
                                   /\ call'[d] = call[d]
      /\ \A r : Family(r)' = Family(r) /\ (InHand(r)' => InHand(r))
      /\ \A r : r # root[k] => (InHand(r) => InHand(r)')
  BY <1>t, <1>2, CallEnds
<1>4. root[k] \notin contested' => \A t \in Family(root[k]) \ revoked : t = k
  BY <1>t, <1>2 DEF FamilyFacts, HandsAreFull, Made
<1>5. call[c].pc = "revoke" => root[Child(c)] = root[k]
  BY <1>t DEF FamilyFacts, ChildrenAreFresh, Made
<1> HIDE DEF k
<1>6. ChildrenAreFresh'
  BY <1>t, <1>2, <1>3 DEF FamilyFacts, ChildrenAreFresh
<1>7. HandsAreFull'
  BY <1>t, <1>2, <1>3 DEF FamilyFacts, HandsAreFull
<1>8. OneLiveInHand'
  <2> SUFFICES ASSUME NEW t \in Tokens \ revoked, NEW u \in Tokens \ revoked,
                      root[t] = root[u], root[t] \in Tokens \ contested', ~InHand(root[t])'
               PROVE  t = u
    BY <1>2 DEF OneLiveInHand, InHand
  <2>1. CASE root[t] = root[k]
    BY <1>4, <2>1 DEF Family
  <2>2. CASE root[t] # root[k]
    BY <1>t, <1>2, <1>3, <2>2 DEF FamilyFacts, OneLiveInHand
  <2> QED BY <2>1, <2>2
<1>9. EndedIsOver'
  BY <1>t, <1>2, <1>3 DEF FamilyFacts, EndedIsOver
<1>10. HeirsAreFree'
  BY <1>t, <1>2 DEF FamilyFacts, HeirsAreFree
<1>11. LineageInHand'
  <2> SUFFICES ASSUME NEW r \in Tokens \ contested', NEW u \in Family(r), u # r
               PROVE  \/ \E t \in Family(r) : t < u /\ heir[t] = u
                      \/ \E d \in Calls : call'[d].pc = "revoke" /\ Child(d)' = u
    BY <1>2, <1>3 DEF LineageInHand
  <2>1. call[c].pc = "revoke" => Child(c) # u
    BY <1>2, <1>5 DEF Family
  <2> QED BY <1>t, <1>2, <1>3, <2>1 DEF FamilyFacts, LineageInHand
<1>12. SessionSurvives'
  <2>1. \A d \in Calls : call[d].pc = "answer" => call'[d] = call[d]
    BY <1>2, <1>3
  <2> QED BY <1>t, <1>2, <1>3, <2>1 DEF FamilyFacts, SessionSurvives
<1> QED BY <1>6, <1>7, <1>8, <1>9, <1>10, <1>11, <1>12 DEF FamilyFacts

\* After a stop every call is gone; a family cut between two writes counts as
\* contested, one whose answer was on its way as lost.
LEMMA CrashSafe == ASSUME FamilyInv, Crash PROVE FamilyFacts'
<1>t. TypeOK /\ FamilyFacts
  BY DEF FamilyInv
<1>1. \A d \in Calls : /\ InFlight(d) => Token(d) \in 1..created /\ root[Token(d)] \in Tokens
                       /\ Made(d) => InFlight(d) /\ Child(d) \in Tokens
  BY <1>t, TypeFacts
<1>2. /\ UNCHANGED <<created, expired, revoked, heir, root, held, ended>>
      /\ contested \subseteq contested' /\ lost \subseteq lost'
      /\ \A d \in Calls : call[d].pc = "revoke" => root[Token(d)] \in contested'
      /\ \A d \in Calls : call[d].pc = "answer" => root[Token(d)] \in lost'
  BY DEF Crash, Token
<1>3. \A d \in Calls : ~InFlight(d)' /\ ~Made(d)' /\ call'[d].pc = "idle"
  BY DEF Crash, InFlight, Made, IdleCall
<1>4. \A r : ~InHand(r)'
  BY <1>3 DEF InHand
<1>5. \A r : Family(r)' = Family(r)
  BY <1>2 DEF Family
<1>6. \A d \in Calls : Made(d) => root[Child(d)] = root[Token(d)]
  BY <1>t DEF FamilyFacts, ChildrenAreFresh
<1>7. ChildrenAreFresh'
  BY <1>3 DEF ChildrenAreFresh
<1>8. HandsAreFull'
  BY <1>3 DEF HandsAreFull
<1>9. OneLiveInHand'
  <2> SUFFICES ASSUME NEW t \in Tokens \ revoked, NEW u \in Tokens \ revoked,
                      root[t] = root[u], root[t] \in Tokens \ contested'
               PROVE  t = u
    BY <1>2 DEF OneLiveInHand
  <2>1. CASE ~InHand(root[t])
    BY <1>t, <1>2, <2>1 DEF FamilyFacts, OneLiveInHand
  <2>2. ASSUME NEW d \in Calls, InFlight(d), root[Token(d)] = root[t]
        PROVE  t = u
    <3>1. root[Token(d)] \notin contested /\ call[d].pc # "revoke"
      BY <1>2, <2>2
    <3>2. t \in Family(root[Token(d)]) \ revoked /\ u \in Family(root[Token(d)]) \ revoked
      BY <2>2 DEF Family
    <3>3. CASE call[d].pc = "answer"
      BY <1>t, <2>2, <3>1, <3>2, <3>3 DEF FamilyFacts, HandsAreFull
    <3>4. CASE call[d].pc # "answer"
      BY <1>t, <2>2, <3>1, <3>2, <3>4 DEF FamilyFacts, HandsAreFull, Made
    <3> QED BY <3>3, <3>4
  <2> QED BY <2>1, <2>2 DEF InHand
<1>10. EndedIsOver'
  BY <1>t, <1>2, <1>4, <1>5 DEF FamilyFacts, EndedIsOver
<1>11. HeirsAreFree'
  BY <1>t, <1>2 DEF FamilyFacts, HeirsAreFree
<1>12. LineageInHand'
  <2> SUFFICES ASSUME NEW r \in Tokens \ contested', NEW u \in Family(r), u # r
               PROVE  \E t \in Family(r) : t < u /\ heir[t] = u
    BY <1>2, <1>5 DEF LineageInHand
  <2>1. \A d \in Calls : call[d].pc = "revoke" => Child(d) # u
    BY <1>2, <1>6 DEF Family, Made
  <2> QED BY <1>t, <1>2, <2>1 DEF FamilyFacts, LineageInHand
<1>13. SessionSurvives'
  <2> SUFFICES ASSUME NEW r \in Tokens \ (ended \cup lost'), root[r] = r
               PROVE  \E t \in Family(r) \ revoked : t \in held
    BY <1>2, <1>5 DEF SessionSurvives
  <2>1. PICK t \in Family(r) \ revoked :
          t \in held \/ \E d \in Calls : call[d].pc = "answer" /\ call[d].child = t
    BY <1>t, <1>2 DEF FamilyFacts, SessionSurvives
  <2>2. ASSUME NEW d \in Calls, call[d].pc = "answer", call[d].child = t
        PROVE  FALSE
    BY <1>2, <1>6, <2>1, <2>2 DEF Made, Child, Family
  <2> QED BY <2>1, <2>2
<1> QED BY <1>7, <1>8, <1>9, <1>10, <1>11, <1>12, <1>13 DEF FamilyFacts

\* Expiry, and a step of nobody, move nothing these facts are about.
LEMMA ExpireSafe ==
  ASSUME FamilyInv, UNCHANGED <<created, revoked, heir, root, held, call, contested, ended, lost>>
  PROVE  FamilyFacts'
<1>t. FamilyFacts
  BY DEF FamilyInv
<1>1. \A d \in Calls : /\ InFlight(d)' <=> InFlight(d)
                       /\ Made(d)' <=> Made(d)
                       /\ Token(d)' = Token(d) /\ Child(d)' = Child(d)
  BY DEF InFlight, Made, Token, Child
<1>2. \A r : (InHand(r)' <=> InHand(r)) /\ Family(r)' = Family(r)
  BY <1>1 DEF InHand, Family
<1>3. ChildrenAreFresh' /\ HeirsAreFree'
  BY <1>t, <1>1 DEF FamilyFacts, ChildrenAreFresh, HeirsAreFree
<1>4. HandsAreFull'
  BY <1>t, <1>1, <1>2 DEF FamilyFacts, HandsAreFull
<1>5. OneLiveInHand'
  BY <1>t, <1>2 DEF FamilyFacts, OneLiveInHand
<1>6. EndedIsOver'
  BY <1>t, <1>2 DEF FamilyFacts, EndedIsOver
<1>7. LineageInHand'
  BY <1>t, <1>1, <1>2 DEF FamilyFacts, LineageInHand
<1>8. SessionSurvives'
  BY <1>t, <1>2 DEF FamilyFacts, SessionSurvives
<1> QED BY <1>3, <1>4, <1>5, <1>6, <1>7, <1>8 DEF FamilyFacts

-----------------------------------------------------------------------------
(* The theorems.                                                           *)

\* The initial state.
LEMMA InitFamily == Init => FamilyInv
<1> SUFFICES ASSUME Init PROVE FamilyInv
  OBVIOUS
<1>1. TypeOK
  BY InitType
<1>2. /\ created = 0 /\ revoked = {} /\ held = {} /\ ended = {} /\ contested = {}
      /\ \A t \in Tokens : root[t] = 0 /\ heir[t] = 0 /\ root[t] \notin Tokens
      /\ \A c \in Calls : call[c].pc = "idle"
  BY DEF Init, IdleCall, Tokens
<1>3. ChildrenAreFresh /\ HandsAreFull /\ OneLiveInHand
  BY <1>2 DEF ChildrenAreFresh, HandsAreFull, OneLiveInHand, InFlight, Made
<1>4. EndedIsOver /\ HeirsAreFree
  BY <1>2 DEF EndedIsOver, HeirsAreFree
<1>5. LineageInHand
  BY <1>2 DEF LineageInHand, Family
<1>6. SessionSurvives
  BY <1>2 DEF SessionSurvives
<1> QED BY <1>1, <1>3, <1>4, <1>5, <1>6 DEF FamilyInv, FamilyFacts

\* Every step keeps the invariant.
LEMMA StepFamily == FamilyInv /\ [Next]_vars => FamilyInv'
<1> SUFFICES ASSUME FamilyInv, [Next]_vars PROVE FamilyInv'
  OBVIOUS
<1>1. TypeOK'
  BY StepType DEF FamilyInv
<1>2. ASSUME Login PROVE FamilyFacts'
  BY <1>2, LoginSafe
<1>3. ASSUME Expire PROVE FamilyFacts'
  BY <1>3, ExpireSafe DEF Expire
<1>4. ASSUME Crash PROVE FamilyFacts'
  BY <1>4, CrashSafe
<1>5. ASSUME NEW c \in Calls, RefreshRead(c) PROVE FamilyFacts'
  <2>1. PICK t \in held : /\ Usable(t)
                          /\ call' = [call EXCEPT ![c] = [pc |-> "create", token |-> t, child |-> 0]]
                          /\ contested' = Noted(t)
    BY <1>5 DEF RefreshRead
  <2>2. ~InFlight(c) /\ UNCHANGED <<rows, held, ended, lost>>
    BY <1>5 DEF RefreshRead
  <2>3. "create" \in {"create", "logout"}
    OBVIOUS
  <2> QED BY <2>1, <2>2, <2>3, ReadSafe
<1>6. ASSUME NEW c \in Calls, LogoutRead(c) PROVE FamilyFacts'
  <2>1. PICK t \in held : /\ Usable(t)
                          /\ call' = [call EXCEPT ![c] = [pc |-> "logout", token |-> t, child |-> 0]]
                          /\ contested' = Noted(t)
    BY <1>6 DEF LogoutRead
  <2>2. ~InFlight(c) /\ UNCHANGED <<rows, held, ended, lost>>
    BY <1>6 DEF LogoutRead
  <2>3. "logout" \in {"create", "logout"}
    OBVIOUS
  <2> QED BY <2>1, <2>2, <2>3, ReadSafe
<1>7. ASSUME NEW c \in Calls, RefreshCreate(c) PROVE FamilyFacts'
  BY <1>7, CreateSafe
<1>8. ASSUME NEW c \in Calls, RefreshRevoke(c) PROVE FamilyFacts'
  BY <1>8, RevokeSafe
<1>9. ASSUME NEW c \in Calls, RefreshAnswer(c) \/ RefreshAnswerLost(c) PROVE FamilyFacts'
  BY <1>9, AnswerSafe
<1>10. ASSUME NEW c \in Calls, LogoutRevoke(c) PROVE FamilyFacts'
  BY <1>10, LogoutSafe
<1>13. ASSUME NEW c \in Calls, Throw(c) PROVE FamilyFacts'
  BY <1>13, ThrowSafe
<1>11. ASSUME UNCHANGED vars PROVE FamilyFacts'
  BY <1>11, ExpireSafe DEF vars
<1>12. FamilyFacts'
  BY <1>2, <1>3, <1>4, <1>5, <1>6, <1>7, <1>8, <1>9, <1>10, <1>11, <1>13 DEF Next
<1> QED BY <1>1, <1>12 DEF FamilyInv

\* The invariant holds throughout.
LEMMA FamilyAlways == Spec => []FamilyInv
<1> QED BY InitFamily, StepFamily, PTL DEF Spec

\* No call under way is another word for: in no call's hands.
LEMMA BusyInHand == \A r : r \in Busy <=> InHand(r)
<1> QED BY DEF Busy, InHand, Token

\* What the invariant says of families with no call under way.
LEMMA FamilyProperties ==
  FamilyInv => OneLiveToken /\ LogoutEndsFamily /\ LineageIsRecorded /\ SessionSurvives
<1> SUFFICES ASSUME FamilyInv
             PROVE  OneLiveToken /\ LogoutEndsFamily /\ LineageIsRecorded /\ SessionSurvives
  OBVIOUS
<1>1. OneLiveToken
  BY BusyInHand DEF OneLiveToken, FamilyInv, FamilyFacts, OneLiveInHand, Family
<1>2. LogoutEndsFamily
  BY DEF LogoutEndsFamily, FamilyInv, FamilyFacts, EndedIsOver
<1>3. LineageIsRecorded
  <2> SUFFICES ASSUME NEW r \in Tokens \ (contested \cup Busy), NEW u \in Family(r), u # r
               PROVE  \E t \in Family(r) : t < u /\ heir[t] = u
    BY DEF LineageIsRecorded
  <2>1. ASSUME NEW c \in Calls, call[c].pc = "revoke", Child(c) = u PROVE FALSE
    <3>1. Made(c) /\ InFlight(c)
      BY <2>1 DEF Made, InFlight
    <3>2. root[Token(c)] = r
      BY <2>1, <3>1 DEF FamilyInv, FamilyFacts, ChildrenAreFresh, Family
    <3> QED BY <3>1, <3>2, BusyInHand DEF InHand
  <2> QED BY <2>1 DEF FamilyInv, FamilyFacts, LineageInHand
<1>4. SessionSurvives
  BY DEF FamilyInv, FamilyFacts
<1> QED BY <1>1, <1>2, <1>3, <1>4

\* Two tokens of one family that are not revoked take two overlapping calls on
\* one token or a stop between the two writes of a refresh.
THEOREM OneLive == Spec => []OneLiveToken
<1>1. FamilyInv => OneLiveToken
  BY FamilyProperties
<1> QED BY <1>1, FamilyAlways, PTL

\* Under the same exceptions a logout leaves no token of the family.
THEOREM LogoutEnds == Spec => []LogoutEndsFamily
<1>1. FamilyInv => LogoutEndsFamily
  BY FamilyProperties
<1> QED BY <1>1, FamilyAlways, PTL

\* Under the same exceptions replaceByToken links every token to its login.
THEOREM LineageRecorded == Spec => []LineageIsRecorded
<1>1. FamilyInv => LineageIsRecorded
  BY FamilyProperties
<1> QED BY <1>1, FamilyAlways, PTL

\* A client that lost no answer and did not log out keeps a token that was not
\* revoked, whatever overlaps or stops.
THEOREM SessionLives == Spec => []SessionSurvives
<1>1. FamilyInv => SessionSurvives
  BY FamilyProperties
<1> QED BY <1>1, FamilyAlways, PTL

-----------------------------------------------------------------------------
(* The invariant: that of the families, and no family is contested before  *)
(* it is there.                                                            *)

USE ParameterAssumption

ContestedExist == contested \subseteq 1..created

SessionInv == FamilyInv /\ ContestedExist

\* A call under way works on a token that is there, and so is its login's.
LEMMA RootExists ==
  ASSUME TypeOK, NEW t \in 1..created
  PROVE  root[t] \in 1..created /\ root[t] \in Tokens /\ t \in Tokens /\ t \in Family(root[t])
<1> QED BY DEF TypeOK, Tokens, Family

\* Only a family with a token gets contested, and tokens are not taken away.
LEMMA ContestedStep ==
  ASSUME TypeOK, ContestedExist, [Next]_vars
  PROVE  ContestedExist'
<1>1. created' \in Nat /\ created <= created' /\ created \in Nat
  <2>1. created \in Nat
    BY DEF TypeOK
  <2>2. created' = created \/ created' = created + 1
    BY DEF Next, vars, rows, Login, NewToken, Expire, Crash, RefreshRead, RefreshCreate, RefreshRevoke,
       RefreshAnswer, RefreshAnswerLost, LogoutRead, LogoutRevoke, Throw
  <2> QED BY <2>1, <2>2
<1>2. \A c \in Calls : InFlight(c) => root[call[c].token] \in 1..created
  BY RootExists DEF TypeOK
<1>3. \A t \in held : root[t] \in 1..created
  BY RootExists DEF TypeOK
<1>4. contested' \subseteq contested \cup (1..created)
  <2>1. CASE Crash
    BY <2>1, <1>2 DEF Crash, InFlight
  <2>2. ASSUME NEW c \in Calls, RefreshRead(c) \/ LogoutRead(c)
        PROVE  contested' \subseteq contested \cup (1..created)
    BY <2>2, <1>3 DEF RefreshRead, LogoutRead, Noted
  <2>3. ASSUME NEW c \in Calls, Throw(c)
        PROVE  contested' \subseteq contested \cup (1..created)
    BY <2>3, <1>2 DEF Throw, InFlight
  <2>4. ASSUME UNCHANGED contested PROVE contested' \subseteq contested \cup (1..created)
    BY <2>4
  <2> QED BY <2>1, <2>2, <2>3, <2>4 DEF Next, vars, Login, Expire, RefreshCreate, RefreshRevoke,
             RefreshAnswer, RefreshAnswerLost, LogoutRevoke
<1> QED BY <1>1, <1>4 DEF ContestedExist

\* The invariant holds throughout.
LEMMA SessionAlways == Spec => []SessionInv
<1>1. Init => SessionInv
  BY InitFamily DEF SessionInv, ContestedExist, Init
<1>2. SessionInv /\ [Next]_vars => SessionInv'
  BY StepFamily, ContestedStep DEF SessionInv, FamilyInv
<1> QED BY <1>1, <1>2, PTL DEF Spec

-----------------------------------------------------------------------------
(* Steps, session by session.                                              *)

Phases == {"none", "open", "over", "torn"}

Same(r) == Phase(r)' = Phase(r) /\ Live(r)' = Live(r)
Torn(r) == Phase(r) = "open" /\ Phase(r)' = "torn" /\ Live(r)' = {}

\* Nothing happens to any session.
LEMMA AllSame == (\A r \in Tokens : Same(r)) => UNCHANGED Sessions!vars
<1> QED BY DEF Same, Sessions!vars

\* Some are torn and the others stay.
LEMMA SomeTorn == (\A r \in Tokens : Same(r) \/ Torn(r)) => Sessions!Next
<1> SUFFICES ASSUME \A r \in Tokens : Same(r) \/ Torn(r) PROVE Sessions!Tear
  BY DEF Sessions!Next
<1>1. \A r \in Tokens : Phase(r)' \in Phases /\ Live(r)' \subseteq Tokens
  BY DEF Phase, Live, Phases, Family
<1> QED BY <1>1 DEF Sessions!Tear, Same, Torn, Phases

\* What a session is depends on these.
LEMMA Untouched ==
  UNCHANGED <<revoked, root, contested, ended>> => \A r \in Tokens : Same(r)
<1> QED BY DEF Same, Phase, Live, Family

\* More families are contested, all of them open: they are torn.
LEMMA GetsContested ==
  ASSUME SessionInv, UNCHANGED <<revoked, root, ended>>, contested \subseteq contested',
         \A r \in contested' \ contested : Family(r) # {} /\ r \notin ended
  PROVE  \A r \in Tokens : Same(r) \/ Torn(r)
<1> QED BY DEF Same, Torn, Phase, Live, Family

\* A family in somebody's hands is open or contested.
LEMMA InHandIsOpen ==
  ASSUME SessionInv, NEW c \in Calls, InFlight(c)
  PROVE  /\ Token(c) \in 1..created /\ Token(c) \in Tokens
         /\ root[Token(c)] \in Tokens /\ Token(c) \in Family(root[Token(c)])
         /\ root[Token(c)] \in ended => root[Token(c)] \in contested
<1>1. Token(c) \in 1..created
  BY DEF SessionInv, FamilyInv, TypeOK, Token
<1>2. InHand(root[Token(c)])
  BY DEF InHand
<1> QED BY <1>1, <1>2, RootExists DEF SessionInv, FamilyInv, FamilyFacts, EndedIsOver

-----------------------------------------------------------------------------
(* The steps.                                                              *)

\* A login opens a session.
LEMMA LoginOpens == ASSUME SessionInv, Login PROVE Sessions!Next
<1> PICK n : n = created + 1
  OBVIOUS
<1>1. n \in Tokens /\ root \in [Tokens -> 0..MaxToken] /\ root[n] = 0
  BY DEF SessionInv, FamilyInv, TypeOK, Login, NewToken, Tokens
<1>2. root' = [root EXCEPT ![n] = n] /\ UNCHANGED <<revoked, contested, ended>>
  BY DEF Login, NewToken
<1>3. Family(n) = {} /\ n \notin contested \cup ended \cup revoked
  BY <1>1 DEF SessionInv, FamilyInv, TypeOK, Tokens, Family, ContestedExist, FamilyFacts, EndedIsOver
<1>4. Family(n)' = {n}
  BY <1>1, <1>2, <1>3 DEF Family
<1>5. \A r \in Tokens \ {n} : Same(r)
  <2> SUFFICES ASSUME NEW r \in Tokens \ {n} PROVE Same(r)
    OBVIOUS
  <2>1. 0 \notin Tokens
    BY DEF Tokens
  <2>2. Family(r)' = Family(r)
    BY <1>1, <1>2, <2>1 DEF Family
  <2> QED BY <1>2, <2>2 DEF Same, Phase, Live
<1>6. Phase(n) = "none" /\ Phase(n)' = "open"
  BY <1>2, <1>3, <1>4 DEF Phase
<1>7. Live(n)' = {n}
  BY <1>1, <1>2, <1>3, <1>4 DEF Live, Tokens
<1>8. Sessions!Open(n)
  BY <1>1, <1>5, <1>6, <1>7 DEF Sessions!Open, Same
<1> QED BY <1>1, <1>8 DEF Sessions!Next

\* Reading a token another call works on tears its session.
LEMMA ReadTears ==
  ASSUME SessionInv, NEW t \in held, contested' = Noted(t), UNCHANGED <<rows, ended>>
  PROVE  Sessions!Next
<1>1. UNCHANGED <<revoked, root>>
  BY DEF rows
<1>2. ASSUME NEW r \in contested' \ contested PROVE Family(r) # {} /\ r \notin ended
  <2>1. PICK d \in Calls : InFlight(d) /\ Token(d) = t /\ r = root[t]
    BY <1>2 DEF Noted, Overlaps, Token
  <2> QED BY <2>1, <1>2, InHandIsOpen
<1>3. contested \subseteq contested'
  BY DEF Noted
<1> QED BY <1>1, <1>2, <1>3, GetsContested, SomeTorn

\* The row a refresh adds is younger than the token it goes on with.
LEMMA CreateStays ==
  ASSUME SessionInv, NEW c \in Calls, RefreshCreate(c)
  PROVE  \A r \in Tokens : Same(r)
<1> PICK n, f : n = created + 1 /\ f = root[Token(c)]
  OBVIOUS
<1>1. InFlight(c) /\ ~Made(c)
  BY DEF RefreshCreate, InFlight, Made
<1>2. /\ n \in Tokens /\ root \in [Tokens -> 0..MaxToken] /\ root[n] = 0 /\ n \notin revoked
      /\ revoked \subseteq 1..created /\ created \in Nat
  BY DEF SessionInv, FamilyInv, TypeOK, RefreshCreate, NewToken, Tokens
<1>3. root' = [root EXCEPT ![n] = f] /\ UNCHANGED <<revoked, contested, ended>>
  BY DEF RefreshCreate, NewToken, Token
<1>4. f \in Tokens /\ Token(c) \in Family(f) /\ Token(c) \in 1..created
  BY <1>1, InHandIsOpen
<1>5. Family(f)' = Family(f) \cup {n}
  BY <1>2, <1>3, <1>4 DEF Family
<1>6. \A r \in Tokens \ {f} : Same(r)
  <2> SUFFICES ASSUME NEW r \in Tokens \ {f} PROVE Same(r)
    OBVIOUS
  <2>1. 0 \notin Tokens
    BY DEF Tokens
  <2>2. Family(r)' = Family(r)
    BY <1>2, <1>3, <2>1 DEF Family
  <2> QED BY <1>3, <2>2 DEF Same, Phase, Live
<1>7. Phase(f)' = Phase(f)
  BY <1>3, <1>4, <1>5 DEF Phase
<1>8. ASSUME f \notin contested PROVE Live(f)' = Live(f)
  <2>1. Token(c) \notin revoked
    BY <1>1, <1>8 DEF SessionInv, FamilyInv, FamilyFacts, HandsAreFull, RefreshCreate
  <2>2. (Family(f) \ revoked)' = (Family(f) \ revoked) \cup {n}
    BY <1>2, <1>3, <1>5
  <2>3. \A t \in Family(f) : t \in Nat /\ (root[t] # 0 => t < n)
    BY <1>2 DEF SessionInv, FamilyInv, TypeOK, Family, Tokens
  <2>4. \A t \in Family(f) : t < n /\ t <= n /\ ~(n <= t)
    BY <2>3, <1>2, <1>4 DEF Family, Tokens
  <2>5. n <= n
    BY <1>2
  <2> QED BY <1>3, <1>4, <1>8, <2>1, <2>2, <2>4, <2>5 DEF Live
<1>9. ASSUME f \in contested PROVE Live(f)' = Live(f)
  BY <1>3, <1>9 DEF Live
<1> QED BY <1>6, <1>7, <1>8, <1>9 DEF Same

\* The second write of a refresh puts the new token in the old one's place.
LEMMA RevokeRotates ==
  ASSUME SessionInv, NEW c \in Calls, RefreshRevoke(c)
  PROVE  Sessions!Next \/ UNCHANGED Sessions!vars
<1> PICK t, u, f : t = Token(c) /\ u = Child(c) /\ f = root[t]
  OBVIOUS
<1>1. InFlight(c) /\ Made(c)
  BY DEF RefreshRevoke, InFlight, Made
<1>2. revoked' = revoked \cup {t} /\ UNCHANGED <<root, contested, ended>>
  BY DEF RefreshRevoke, Token
<1>3. /\ t \in Tokens /\ f \in Tokens /\ t \in Family(f)
      /\ f \in ended => f \in contested
  BY <1>1, InHandIsOpen
<1>4. \A r \in Tokens : Phase(r)' = Phase(r)
  BY <1>2 DEF Phase, Family
<1>5. \A r \in Tokens \ {f} : Live(r)' = Live(r)
  <2> SUFFICES ASSUME NEW r \in Tokens \ {f} PROVE Live(r)' = Live(r)
    OBVIOUS
  <2>1. (Family(r) \ revoked)' = Family(r) \ revoked
    BY <1>2, <1>3 DEF Family
  <2> QED BY <1>2, <2>1 DEF Live
<1>6. CASE f \in contested
  <2>1. Live(f)' = Live(f)
    BY <1>2, <1>6 DEF Live
  <2> QED BY <1>4, <1>5, <2>1, AllSame DEF Same
<1>7. CASE f \notin contested
  <2>1. /\ u \in 1..created /\ u \notin revoked /\ root[u] = f /\ t < u
        /\ t \notin revoked /\ \A x \in Family(f) \ revoked : x = t \/ x = u
    BY <1>1, <1>7 DEF SessionInv, FamilyInv, FamilyFacts, ChildrenAreFresh, HandsAreFull, RefreshRevoke
  <2>2. u \in Tokens /\ u \in Family(f) /\ u \in Nat /\ t \in Nat
    BY <2>1, <1>3, RootExists DEF SessionInv, FamilyInv, Tokens
  <2>3. Live(f) = {t}
    <3>1. Family(f) \ revoked = {t, u}
      BY <1>3, <2>1, <2>2
    <3>2. t <= u /\ ~(u <= t) /\ t <= t
      BY <2>1, <2>2
    <3> QED BY <1>7, <3>1, <3>2 DEF Live
  <2>4. Live(f)' = {u}
    <3>1. (Family(f) \ revoked)' = {u}
      <4>1. Family(f)' = Family(f)
        BY <1>2 DEF Family
      <4>2. t # u
        BY <2>1, <2>2
      <4> QED BY <1>2, <1>3, <2>1, <2>2, <4>1, <4>2
    <3>2. u <= u
      BY <2>2
    <3> QED BY <1>2, <1>7, <3>1, <3>2 DEF Live
  <2>5. \A r \in Tokens : u \notin Live(r)
    <3>1. \A r \in Tokens \ {f} : u \notin Live(r)
      BY <2>1 DEF Live, Family
    <3> QED BY <2>1, <2>2, <2>3, <3>1
  <2>6. Phase(f) = "open"
    BY <1>3, <1>7 DEF Phase
  <2>7. Sessions!Rotate(f)
    BY <1>3, <1>4, <1>5, <2>1, <2>2, <2>3, <2>4, <2>5, <2>6 DEF Sessions!Rotate
  <2> QED BY <1>3, <2>7 DEF Sessions!Next
<1> QED BY <1>6, <1>7

\* A logout ends the session.
LEMMA LogoutEndsSession ==
  ASSUME SessionInv, NEW c \in Calls, LogoutRevoke(c)
  PROVE  Sessions!Next \/ UNCHANGED Sessions!vars
<1> PICK t, f : t = Token(c) /\ f = root[t]
  OBVIOUS
<1>1. InFlight(c) /\ ~Made(c)
  BY DEF LogoutRevoke, InFlight, Made
<1>2. revoked' = revoked \cup {t} /\ ended' = ended \cup {f} /\ UNCHANGED <<root, contested>>
  BY DEF LogoutRevoke, Token
<1>3. /\ t \in Tokens /\ f \in Tokens /\ t \in Family(f)
      /\ f \in ended => f \in contested
  BY <1>1, InHandIsOpen
<1>4. \A r \in Tokens \ {f} : Same(r)
  <2> SUFFICES ASSUME NEW r \in Tokens \ {f} PROVE Same(r)
    OBVIOUS
  <2>1. (Family(r) \ revoked)' = Family(r) \ revoked /\ Family(r)' = Family(r)
    BY <1>2, <1>3 DEF Family
  <2> QED BY <1>2, <2>1 DEF Same, Phase, Live
<1>5. CASE f \in contested
  <2>1. Same(f)
    BY <1>2, <1>5 DEF Same, Phase, Live, Family
  <2> QED BY <1>4, <2>1, AllSame
<1>6. CASE f \notin contested
  <2>1. \A x \in Family(f) \ revoked : x = t
    BY <1>1, <1>6 DEF SessionInv, FamilyInv, FamilyFacts, HandsAreFull
  <2>2. (Family(f) \ revoked)' = {}
    BY <1>2, <2>1 DEF Family
  <2>3. Live(f)' = {}
    BY <2>2 DEF Live
  <2>4. Phase(f) = "open"
    BY <1>3, <1>6 DEF Phase
  <2>5. Phase(f)' = "over"
    BY <1>2, <1>3, <1>6 DEF Phase, Family
  <2>6. Sessions!End(f)
    BY <1>3, <1>4, <2>3, <2>4, <2>5 DEF Sessions!End, Same
  <2> QED BY <1>3, <2>6 DEF Sessions!Next
<1> QED BY <1>5, <1>6

\* A refresh that stops between its writes tears its session, as a crash does.
LEMMA StopTears ==
  ASSUME SessionInv, UNCHANGED <<rows, ended>>, contested \subseteq contested',
         \A r \in contested' \ contested : \E c \in Calls : InFlight(c) /\ r = root[Token(c)]
  PROVE  Sessions!Next
<1>1. UNCHANGED <<revoked, root>>
  BY DEF rows
<1>2. ASSUME NEW r \in contested' \ contested PROVE Family(r) # {} /\ r \notin ended
  BY <1>2, InHandIsOpen
<1> QED BY <1>1, <1>2, GetsContested, SomeTorn

\* Every step is a step of Sessions or none.
LEMMA StepMaps == SessionInv /\ [Next]_vars => [Sessions!Next]_(Sessions!vars)
<1> SUFFICES ASSUME SessionInv, [Next]_vars
             PROVE  Sessions!Next \/ UNCHANGED Sessions!vars
  OBVIOUS
<1>1. CASE Login
  BY <1>1, LoginOpens
<1>2. CASE Crash
  <2>1. UNCHANGED <<rows, ended>> /\ contested \subseteq contested'
    BY <1>2 DEF Crash
  <2>2. \A r \in contested' \ contested : \E c \in Calls : InFlight(c) /\ r = root[Token(c)]
    BY <1>2 DEF Crash, InFlight, Token
  <2> QED BY <2>1, <2>2, StopTears
<1>3. ASSUME NEW c \in Calls, RefreshRead(c) \/ LogoutRead(c)
      PROVE  Sessions!Next
  <2>1. PICK t \in held : contested' = Noted(t)
    BY <1>3 DEF RefreshRead, LogoutRead
  <2>2. UNCHANGED <<rows, ended>>
    BY <1>3 DEF RefreshRead, LogoutRead
  <2> QED BY <2>1, <2>2, ReadTears
<1>4. ASSUME NEW c \in Calls, RefreshCreate(c) PROVE UNCHANGED Sessions!vars
  BY <1>4, CreateStays, AllSame
<1>5. ASSUME NEW c \in Calls, RefreshRevoke(c) PROVE Sessions!Next \/ UNCHANGED Sessions!vars
  BY <1>5, RevokeRotates
<1>6. ASSUME NEW c \in Calls, LogoutRevoke(c) PROVE Sessions!Next \/ UNCHANGED Sessions!vars
  BY <1>6, LogoutEndsSession
<1>7. ASSUME NEW c \in Calls, Throw(c) PROVE Sessions!Next
  <2>1. UNCHANGED <<rows, ended>> /\ contested \subseteq contested'
    BY <1>7 DEF Throw
  <2>2. \A r \in contested' \ contested : \E d \in Calls : InFlight(d) /\ r = root[Token(d)]
    BY <1>7 DEF Throw, InFlight, Token
  <2> QED BY <2>1, <2>2, StopTears
<1>8. ASSUME UNCHANGED <<revoked, root, contested, ended>> PROVE UNCHANGED Sessions!vars
  BY <1>8, Untouched, AllSame
<1> QED BY <1>1, <1>2, <1>3, <1>4, <1>5, <1>6, <1>7, <1>8
    DEF Next, vars, rows, Expire, RefreshAnswer, RefreshAnswerLost

\* No family is there at first.
LEMMA InitMaps == Init => Sessions!Init
<1> SUFFICES ASSUME Init PROVE Sessions!Init
  OBVIOUS
<1>1. \A r \in Tokens : Family(r) = {} /\ contested = {}
  BY DEF Init, Family, Tokens
<1>2. \A r \in Tokens : Phase(r) = "none" /\ Live(r) = {}
  BY <1>1 DEF Phase, Live
<1> QED BY <1>2 DEF Sessions!Init

\* The tokens implement the sessions: refreshes replace the one token of a login
\* in one step, a logout leaves none, whatever overlaps, fails or stops; only a
\* session torn by two calls at once or a half-done refresh is exempt.
THEOREM SessionsImplemented == Spec => ImplementsSessions
<1>1. SessionInv /\ [Next]_vars => [Sessions!Next]_(Sessions!vars)
  BY StepMaps
<1> QED BY <1>1, InitMaps, SessionAlways, PTL DEF Spec, ImplementsSessions, Sessions!Spec
=============================================================================
