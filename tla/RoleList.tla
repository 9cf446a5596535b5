------------------------------- MODULE RoleList -------------------------------
(***************************************************************************)
(* What the order of the roles is to an administrator: a list.  A new role *)
(* comes last, a role may be moved to any place, one that is deleted       *)
(* leaves, and the others stay in their order.  A dashboard shows a copy   *)
(* of the list that some request took.  Left out: names, and which roles   *)
(* may be deleted.                                                         *)
(***************************************************************************)
EXTENDS SequencesExt

CONSTANTS RoleIds, Defaults, Requests

VARIABLES
  list,
  used,    \* roles there are and were
  copies,  \* per request, the list as it read it
  holders, \* requests that have a copy to show
  screen   \* what the dashboards show

vars == <<list, used, copies, holders, screen>>

Init ==
  /\ list = Defaults /\ used = {Defaults[i] : i \in DOMAIN Defaults}
  /\ copies = [q \in Requests |-> <<>>] /\ holders = {} /\ screen = Defaults

Add(r) ==
  /\ r \notin used /\ used' = used \cup {r}
  /\ list' = Append(list, r)

Delete(i) == UNCHANGED used /\ list' = RemoveAt(list, i)

Move(i, n) == UNCHANGED used /\ list' = InsertAt(RemoveAt(list, i), n, list[i])

Change ==
  /\ UNCHANGED <<copies, holders, screen>>
  /\ \/ \E r \in RoleIds : Add(r)
     \/ \E i \in DOMAIN list : Delete(i) \/ (\E n \in DOMAIN list : Move(i, n))

Read(q) ==
  /\ copies' = [copies EXCEPT ![q] = list] /\ holders' = holders \cup {q}
  /\ UNCHANGED <<list, used, screen>>

Show(q) ==
  /\ q \in holders /\ screen' = copies[q]
  /\ copies' = [copies EXCEPT ![q] = <<>>] /\ holders' = holders \ {q}
  /\ UNCHANGED <<list, used>>

Next == Change \/ \E q \in Requests : Read(q) \/ Show(q)

Spec == Init /\ [][Next]_vars
=============================================================================
