------------------------------ MODULE Sessions ------------------------------
(***************************************************************************)
(* What refresh tokens promise: a login opens a session that always has    *)
(* exactly one token to go on with; a refresh puts a younger one in its    *)
(* place, and a logout takes it away for good.  Two calls at once on one   *)
(* token, or a refresh that stops between its two writes, tear a session:  *)
(* nothing is promised of it any more.  A session is named by the token of *)
(* its login.  Left out: age, and who holds what.                          *)
(***************************************************************************)
EXTENDS Integers

CONSTANTS Tokens

VARIABLES
  phase,   \* per session: none yet, open, over, or torn
  live     \* per session: the tokens to go on with

vars == <<phase, live>>

Init ==
  /\ phase = [s \in Tokens |-> "none"]
  /\ live = [s \in Tokens |-> {}]

Open(s) ==
  /\ phase[s] = "none" /\ phase' = [phase EXCEPT ![s] = "open"]
  /\ live' = [live EXCEPT ![s] = {s}]

\* The new token is nobody's yet.
Rotate(s) ==
  /\ phase[s] = "open" /\ UNCHANGED phase
  /\ \E t, u \in Tokens :
       /\ live[s] = {t} /\ t < u /\ \A r \in Tokens : u \notin live[r]
       /\ live' = [live EXCEPT ![s] = {u}]

End(s) ==
  /\ phase[s] = "open" /\ phase' = [phase EXCEPT ![s] = "over"]
  /\ live' = [live EXCEPT ![s] = {}]

\* A crash may tear several.
Tear ==
  /\ phase' \in [Tokens -> {"none", "open", "over", "torn"}]
  /\ live' \in [Tokens -> SUBSET Tokens]
  /\ \A s \in Tokens :
       \/ phase'[s] = phase[s] /\ live'[s] = live[s]
       \/ phase[s] = "open" /\ phase'[s] = "torn" /\ live'[s] = {}

Next == Tear \/ \E s \in Tokens : Open(s) \/ Rotate(s) \/ End(s)

Spec == Init /\ [][Next]_vars
=============================================================================
