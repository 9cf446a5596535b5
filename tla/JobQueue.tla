------------------------------- MODULE JobQueue -------------------------------
(***************************************************************************)
(* What the consumers are written for: the handlers' side of a Bull queue. *)
(* Jobs are taken in the order they were added; a job that ends, well or   *)
(* not, is not run again; one that was under way when the process stopped  *)
(* is run once more, before those that wait, and not a third time.  So a   *)
(* job is never lost, never run by two workers at once, and its effects    *)
(* may come twice only after a stop.  Left out: what a job does, how many  *)
(* workers there are, and that anything must happen.                       *)
(***************************************************************************)
EXTENDS Sequences

CONSTANTS Jobs

VARIABLES
  waiting,  \* jobs to be taken, in order
  running,  \* jobs a worker has
  cut,      \* jobs whose process stopped
  again,    \* those cut off before, until they end
  ended

vars == <<waiting, running, cut, again, ended>>

Init ==
  /\ waiting = <<>>
  /\ running = {} /\ cut = {} /\ again = {} /\ ended = {}

Waiting(j) == \E i \in DOMAIN waiting : waiting[i] = j

Add(j) ==
  /\ ~Waiting(j) /\ j \notin running \cup cut \cup ended
  /\ waiting' = Append(waiting, j)
  /\ UNCHANGED <<running, cut, again, ended>>

Take ==
  /\ waiting # <<>>
  /\ waiting' = Tail(waiting) /\ running' = running \cup {Head(waiting)}
  /\ UNCHANGED <<cut, again, ended>>

\* A result or an error; there is no second attempt after an error.
End(j) ==
  /\ j \in running
  /\ running' = running \ {j} /\ again' = again \ {j} /\ ended' = ended \cup {j}
  /\ UNCHANGED <<waiting, cut>>

\* There is one process, which has all the workers.
Stop ==
  /\ running' = {} /\ cut' = cut \cup running
  /\ UNCHANGED <<waiting, again, ended>>

Retry(j) ==
  /\ j \in cut \ again
  /\ waiting' = <<j>> \o waiting
  /\ cut' = cut \ {j} /\ again' = again \cup {j}
  /\ UNCHANGED <<running, ended>>

GiveUp(j) ==
  /\ j \in cut \cap again
  /\ cut' = cut \ {j} /\ again' = again \ {j} /\ ended' = ended \cup {j}
  /\ UNCHANGED <<waiting, running>>

Next == Take \/ Stop \/ \E j \in Jobs : Add(j) \/ End(j) \/ Retry(j) \/ GiveUp(j)

Spec == Init /\ [][Next]_vars
=============================================================================
