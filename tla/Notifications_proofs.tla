------------------------ MODULE Notifications_proofs ------------------------
(***************************************************************************)
(* Proofs about Notifications, for every value of its constants; at the    *)
(* end, that it implements JobQueue.                                       *)
(***************************************************************************)
EXTENDS Notifications, FiniteSetTheorems, SequenceTheorems, TLAPS

-----------------------------------------------------------------------------
(* The inductive strengthening.                                            *)

\* A row has the moments its status calls for.
Sound(s) ==
  /\ s.status \in Seen => s.viewedAt # 0
  /\ s.status \in Finished => s.readAt # 0
  /\ s.readAt # 0 => s.viewedAt # 0

\* A job in itself.
Fits(h) ==
  /\ h.pc = "idle" => h = IdleJob
  /\ h.pc = "waiting" => h.runs < 2
  /\ h.pc \in {"running", "applied", "completed", "stalled"} => h.runs # 0
  /\ h.pc = "running" => h.at # 0 /\ Sound(h.read) /\ (h.kind = "create" => h.read = NoRow)
  /\ h.kind = "create" => h.status \in Given
  /\ h.kind = "update" => h.status \in Asked
  /\ h.kind # "create" \/ h.pc \in {"applied", "completed"} => h.row \in Rows

JobsInv == \A j \in Jobs : Fits(job[j])

\* A row is there once a job made it; only such rows are updated and deleted.
RowsInv ==
  /\ \A r \in Rows : Sound(row[r]) /\ (made[r] = NoJob => row[r].status = "none")
  /\ \A j \in Jobs : job[j].kind # "create" => made[job[j].row] # NoJob

\* t is the row that was once s: the same if nobody wrote it since, and with its
\* moments in any case.
Follows(s, t) ==
  /\ s.status \in Statuses
  /\ s.writes <= t.writes /\ (s.writes = t.writes => s = t)
  /\ s.viewedAt # 0 => t.viewedAt # 0
  /\ s.readAt # 0 => t.readAt # 0

\* What a running job read may be behind the row.
Reading(j) == job[j].pc = "running" /\ job[j].kind # "create"
ReadsInv == \A j \in Jobs : Reading(j) /\ Exists(job[j].row) => Follows(job[j].read, row[job[j].row])

\* A job makes at most one row each time it runs.
Made(j) == {r \in Rows : made[r] = j}
HasMade(j) == job[j].pc \in {"applied", "completed", "done"}
CreatedInv ==
  \A j \in Jobs :
    /\ Cardinality(Made(j)) <= job[j].runs
    /\ job[j].pc = "running" => Cardinality(Made(j)) < job[j].runs
    /\ crashes = 0 =>
         /\ job[j].pc # "stalled"
         /\ job[j].kind = "create" =>
              IF HasMade(j) THEN Cardinality(Made(j)) = 1 ELSE Made(j) = {}

\* What a job tells the client; while it is alone, that is the row.
Left(h) == IF h.kind = "delete" THEN [NoRow EXCEPT !.status = "deleted"] ELSE h.wrote
AloneInv ==
  /\ \A j \in Open : job[j].alone => Open = {j}
  /\ \A j \in Jobs : job[j].pc \in {"applied", "completed"} /\ job[j].alone =>
                       row[job[j].row] = Left(job[j])
  /\ settled # NoJob => Open = {} /\ job[settled].pc = "done" /\ SettledRowShown

\* The clock counts the starts.
Once == {j \in Jobs : job[j].runs >= 1}
Twice == {j \in Jobs : job[j].runs = 2}
ClockInv == clock = Cardinality(Once) + Cardinality(Twice)

QueueInv ==
  /\ queue \in Seq(Jobs)
  /\ \A j \in Jobs : (job[j].pc = "waiting") <=> (\E i \in DOMAIN queue : queue[i] = j)
  /\ \A i, k \in DOMAIN queue : queue[i] = queue[k] => i = k

Types ==
  /\ job \in [Jobs -> JobStates] /\ row \in [Rows -> RowStates] /\ shown \in [Rows -> RowStates]
  /\ made \in [Rows -> Jobs \cup {NoJob}] /\ settled \in Jobs \cup {NoJob}
  /\ crashes \in 0..MaxCrash

WorkersInv == Cardinality(Busy) <= Workers

IInv == /\ Types /\ QueueInv /\ WorkersInv /\ ClockInv
        /\ JobsInv /\ RowsInv /\ ReadsInv /\ CreatedInv /\ AloneInv

-----------------------------------------------------------------------------
(* Sets of jobs and rows.                                                  *)

LEMMA Finite ==
  /\ IsFiniteSet(Jobs) /\ Cardinality(Jobs) = MaxJob /\ MaxClock = 2 * MaxJob
  /\ MaxJob \in Nat /\ Workers \in Nat /\ MaxRow \in Nat /\ MaxCrash \in Nat
  /\ NoJob \notin Jobs /\ 0 \notin Rows
  /\ IsFiniteSet(Rows)
  /\ \A S \in SUBSET Jobs : IsFiniteSet(S) /\ Cardinality(S) \in Nat /\ Cardinality(S) <= MaxJob
  /\ \A S \in SUBSET Rows : IsFiniteSet(S) /\ Cardinality(S) \in Nat
<1>1. MaxJob \in Nat /\ MaxRow \in Nat /\ Workers \in Nat /\ MaxCrash \in Nat
  BY ParameterAssumption
<1>2. IsFiniteSet(Jobs) /\ Cardinality(Jobs) = MaxJob
  <2>1. IsFiniteSet(1..MaxJob) /\ Cardinality(1..MaxJob) = IF 1 > MaxJob THEN 0 ELSE MaxJob - 1 + 1
    BY <1>1, FS_Interval
  <2> QED BY <1>1, <2>1, ParameterAssumption DEF Jobs
<1>3. IsFiniteSet(Rows)
  BY <1>1, FS_Interval DEF Rows
<1>4. ASSUME NEW S \in SUBSET Jobs
      PROVE  IsFiniteSet(S) /\ Cardinality(S) \in Nat /\ Cardinality(S) <= MaxJob
  BY <1>2, FS_Subset, FS_CardinalityType
<1>5. ASSUME NEW S \in SUBSET Rows PROVE IsFiniteSet(S) /\ Cardinality(S) \in Nat
  BY <1>3, FS_Subset, FS_CardinalityType
<1>6. MaxClock = 2 * MaxJob
  BY <1>2 DEF MaxClock
<1>7. NoJob \notin Jobs /\ 0 \notin Rows
  BY DEF NoJob, Jobs, Rows
<1> QED BY <1>1, <1>2, <1>3, <1>4, <1>5, <1>6, <1>7

\* The clock stays within its bound.
LEMMA ClockBounded == ClockInv => clock \in 0..MaxClock
<1> SUFFICES ASSUME ClockInv PROVE clock \in 0..MaxClock
  OBVIOUS
<1>1. Once \in SUBSET Jobs /\ Twice \in SUBSET Jobs
  BY DEF Once, Twice
<1> QED BY <1>1, Finite DEF ClockInv

LEMMA IdleIsState == IdleJob \in JobStates /\ NoRow \in RowStates /\ Fits(IdleJob)
<1>1. 0 \in 0..MaxClock
  BY Finite
<1>2. NoRow \in RowStates
  BY <1>1 DEF NoRow, RowStates
<1>3. "Queued" \in Statuses
  BY DEF Statuses, Given
<1>4. IdleJob \in JobStates
  BY <1>1, <1>2, <1>3 DEF IdleJob, JobStates
<1>5. Fits(IdleJob)
  BY DEF Fits, IdleJob, Given
<1> QED BY <1>2, <1>4, <1>5

LEMMA InitInv == Init => IInv
<1> SUFFICES ASSUME Init PROVE IInv
  OBVIOUS
<1>1. \A j \in Jobs : job[j] = IdleJob
  BY DEF Init
<1>2. Types
  BY IdleIsState, Finite DEF Init, Types
<1>3. QueueInv
  BY <1>1 DEF Init, QueueInv, IdleJob
<1>4. Busy = {} /\ Open = {} /\ Once = {} /\ Twice = {}
  BY <1>1 DEF Busy, Open, Once, Twice, IdleJob
<1>5. WorkersInv /\ ClockInv
  BY <1>4, FS_EmptySet, Finite DEF WorkersInv, ClockInv, Init
<1>6. JobsInv
  BY <1>1, IdleIsState DEF JobsInv
<1>7. RowsInv /\ ReadsInv
  BY <1>1 DEF Init, RowsInv, ReadsInv, Reading, Sound, NoRow, IdleJob, Seen, Finished
<1>8. CreatedInv
  <2> SUFFICES ASSUME NEW j \in Jobs
               PROVE  /\ Cardinality(Made(j)) <= job[j].runs /\ job[j].pc = "idle"
                      /\ Made(j) = {}
    BY DEF CreatedInv, HasMade
  <2>1. Made(j) = {}
    BY Finite DEF Made, Init
  <2> QED BY <1>1, <2>1, FS_EmptySet DEF IdleJob
<1>9. AloneInv
  BY <1>1, <1>4 DEF AloneInv, Init, IdleJob
<1> QED BY <1>2, <1>3, <1>5, <1>6, <1>7, <1>8, <1>9 DEF IInv

-----------------------------------------------------------------------------
(* Steps that move jobs on: Throw, Complete, OnQueueCompleted, Requeue and  *)
(* Crash.                                                                  *)

Same(k) ==
  /\ job'[k].kind = job[k].kind /\ job'[k].status = job[k].status /\ job'[k].row = job[k].row
  /\ job'[k].read = job[k].read /\ job'[k].wrote = job[k].wrote /\ job'[k].at = job[k].at
  /\ job'[k].runs = job[k].runs /\ job'[k].alone = job[k].alone

\* No job begins or commits by moving on.
MovesOn(k) ==
  /\ Same(k)
  /\ job'[k].pc \notin {"idle", "running"}
  /\ job'[k].pc = "waiting" => job[k].runs < 2
  /\ job'[k].pc \in {"applied", "completed", "stalled"} =>
       job[k].pc \in {"running", "applied", "completed", "stalled"}
  /\ job'[k].pc \in {"applied", "completed"} => job[k].pc \in {"applied", "completed"}
  /\ job'[k].pc = "applied" => job[k].pc = "applied"
  /\ crashes' = 0 => crashes = 0 /\ job'[k].pc # "stalled" /\ (HasMade(k)' <=> HasMade(k))

\* What the steps leave true of jobs, rows and the clock.
LEMMA MovesKeep ==
  ASSUME IInv, UNCHANGED <<row, made, clock>>, crashes' \in Nat, crashes' >= crashes,
         \A k \in Jobs : job'[k] = job[k] \/ MovesOn(k)
  PROVE  /\ WorkersInv' /\ ClockInv' /\ JobsInv' /\ RowsInv' /\ ReadsInv' /\ CreatedInv'
         /\ \A j \in Open' : job'[j].alone => Open' = {j}
         /\ \A j \in Jobs : job'[j].pc \in {"applied", "completed"} /\ job'[j].alone =>
                              row[job'[j].row] = Left(job'[j])
<1>1. \A k \in Jobs : Same(k)
  BY DEF MovesOn, Same
<1>2. /\ Types /\ WorkersInv /\ ClockInv /\ JobsInv /\ RowsInv /\ ReadsInv /\ CreatedInv /\ AloneInv
  BY DEF IInv
<1>3. WorkersInv'
  <2>1. Busy' \subseteq Busy /\ Busy \subseteq Jobs
    BY DEF Busy, MovesOn
  <2> QED BY <1>2, <2>1, Finite, FS_Subset DEF WorkersInv
<1>4. ClockInv'
  <2>1. Once' = Once /\ Twice' = Twice
    BY <1>1 DEF Once, Twice, Same
  <2> QED BY <1>2, <2>1 DEF ClockInv
<1>5. JobsInv'
  <2> SUFFICES ASSUME NEW k \in Jobs PROVE Fits(job'[k])
    BY DEF JobsInv
  <2>1. Fits(job[k])
    BY <1>2 DEF JobsInv
  <2>2. CASE job'[k] = job[k]
    BY <2>1, <2>2
  <2>3. CASE MovesOn(k)
    BY <2>1, <2>3 DEF Fits, MovesOn, Same
  <2> QED BY <2>2, <2>3
<1>6. RowsInv'
  BY <1>1, <1>2 DEF RowsInv, Same
<1>7. ReadsInv'
  <2> SUFFICES ASSUME NEW k \in Jobs, (Reading(k) /\ Exists(job[k].row))'
               PROVE  Follows(job[k].read, row[job[k].row])'
    BY DEF ReadsInv
  <2>1. Reading(k) /\ Exists(job[k].row)
    BY <1>1 DEF Reading, MovesOn, Same, Exists
  <2> QED BY <1>1, <1>2, <2>1 DEF ReadsInv, Same
<1>8. CreatedInv'
  <2> SUFFICES ASSUME NEW k \in Jobs
               PROVE  /\ Cardinality(Made(k)) <= job'[k].runs
                      /\ job'[k].pc = "running" => Cardinality(Made(k)) < job'[k].runs
                      /\ crashes' = 0 =>
                           /\ job'[k].pc # "stalled"
                           /\ job'[k].kind = "create" =>
                                IF HasMade(k)' THEN Cardinality(Made(k)) = 1 ELSE Made(k) = {}
    BY DEF CreatedInv, Made
  <2>1. crashes' = 0 => crashes = 0
    BY <1>2 DEF Types
  <2>2. CASE job'[k] = job[k]
    BY <1>2, <2>1, <2>2 DEF CreatedInv, HasMade
  <2>3. CASE MovesOn(k)
    BY <1>2, <2>3 DEF CreatedInv, MovesOn, Same
  <2> QED BY <2>2, <2>3
<1>9. ASSUME NEW j \in Open', job'[j].alone PROVE Open' = {j}
  <2>1. Open' \subseteq Open
    BY DEF Open, MovesOn
  <2>2. j \in Jobs
    BY DEF Open
  <2> QED BY <1>1, <1>2, <1>9, <2>1, <2>2 DEF AloneInv, Same
<1>10. ASSUME NEW j \in Jobs, job'[j].pc \in {"applied", "completed"}, job'[j].alone
       PROVE  row[job'[j].row] = Left(job'[j])
  <2>1. job[j].pc \in {"applied", "completed"}
    BY <1>10 DEF MovesOn
  <2> QED BY <1>1, <1>2, <1>10, <2>1 DEF AloneInv, Same, Left
<1> QED BY <1>3, <1>4, <1>5, <1>6, <1>7, <1>8, <1>9, <1>10

\* A step that puts nothing on the queue and takes nothing from it.
LEMMA QueueKept ==
  ASSUME QueueInv, queue' = queue,
         \A k \in Jobs : (job'[k].pc = "waiting") <=> (job[k].pc = "waiting")
  PROVE  QueueInv'
<1> QED BY DEF QueueInv

\* A job that is changed alone.
LEMMA OneJob ==
  ASSUME Types, NEW j \in Jobs, NEW h \in JobStates, job' = [job EXCEPT ![j] = h]
  PROVE  job' \in [Jobs -> JobStates] /\ job'[j] = h /\ \A k \in Jobs \ {j} : job'[k] = job[k]
<1> QED BY DEF Types

\* A job that only moves on.
LEMMA OnePc ==
  ASSUME Types, NEW j \in Jobs, NEW pc \in {"waiting", "completed", "failed", "done"},
         job' = [job EXCEPT ![j].pc = pc]
  PROVE  /\ job' \in [Jobs -> JobStates] /\ job'[j].pc = pc /\ Same(j)
         /\ \A k \in Jobs \ {j} : job'[k] = job[k]
<1>1. job[j] \in JobStates
  BY DEF Types
<1>2. [job[j] EXCEPT !.pc = pc] \in JobStates
  BY <1>1 DEF JobStates, Over
<1>3. job'[j] = [job[j] EXCEPT !.pc = pc]
  BY DEF Types
<1> QED BY <1>1, <1>2, <1>3 DEF Types, Same, JobStates

LEMMA ThrowKeeps == ASSUME IInv, NEW j \in Jobs, Throw(j) PROVE IInv'
<1>1. /\ Types /\ QueueInv /\ AloneInv
  BY DEF IInv
<1>2. /\ job[j].pc = "running" /\ job' = [job EXCEPT ![j].pc = "failed"]
      /\ UNCHANGED <<queue, row, made, shown, clock, crashes, settled>>
  BY DEF Throw
<1>3. /\ job' \in [Jobs -> JobStates] /\ job'[j].pc = "failed" /\ Same(j)
      /\ \A k \in Jobs \ {j} : job'[k] = job[k]
  BY <1>1, <1>2, OnePc
<1>4. MovesOn(j)
  BY <1>2, <1>3 DEF MovesOn, HasMade
<1>5. \A k \in Jobs : job'[k] = job[k] \/ MovesOn(k)
  BY <1>3, <1>4
<1>6. Types' /\ QueueInv'
  BY <1>1, <1>2, <1>3, QueueKept DEF Types
<1>7. settled' = NoJob
  BY <1>1, <1>2 DEF AloneInv, Open
<1>8. crashes' \in Nat /\ crashes' >= crashes
  BY <1>1, <1>2, Finite DEF Types
<1> QED BY <1>2, <1>5, <1>6, <1>7, <1>8, MovesKeep DEF IInv, AloneInv

LEMMA CompleteKeeps == ASSUME IInv, NEW j \in Jobs, Complete(j) PROVE IInv'
<1>1. /\ Types /\ QueueInv /\ AloneInv
  BY DEF IInv
<1>2. /\ job[j].pc = "applied" /\ job' = [job EXCEPT ![j].pc = "completed"]
      /\ UNCHANGED <<queue, row, made, shown, clock, crashes, settled>>
  BY DEF Complete
<1>3. /\ job' \in [Jobs -> JobStates] /\ job'[j].pc = "completed" /\ Same(j)
      /\ \A k \in Jobs \ {j} : job'[k] = job[k]
  BY <1>1, <1>2, OnePc
<1>4. MovesOn(j)
  BY <1>2, <1>3 DEF MovesOn, HasMade
<1>5. \A k \in Jobs : job'[k] = job[k] \/ MovesOn(k)
  BY <1>3, <1>4
<1>6. Types' /\ QueueInv'
  BY <1>1, <1>2, <1>3, QueueKept DEF Types
<1>7. settled' = NoJob
  BY <1>1, <1>2 DEF AloneInv, Open
<1>8. crashes' \in Nat /\ crashes' >= crashes
  BY <1>1, <1>2, Finite DEF Types
<1> QED BY <1>2, <1>5, <1>6, <1>7, <1>8, MovesKeep DEF IInv, AloneInv

LEMMA CompletedKeeps == ASSUME IInv, NEW j \in Jobs, OnQueueCompleted(j) PROVE IInv'
<1> DEFINE h == job[j]
<1>1. /\ Types /\ QueueInv /\ AloneInv /\ JobsInv
  BY DEF IInv
<1>2. /\ h.pc = "completed" /\ job' = [job EXCEPT ![j].pc = "done"]
      /\ UNCHANGED <<queue, row, made, clock, crashes>>
      /\ settled' = IF h.alone THEN j ELSE NoJob
      /\ shown' = IF h.wrote.status = "Queued" THEN shown ELSE [shown EXCEPT ![h.row] = Left(h)]
  BY DEF OnQueueCompleted, Left
<1>3. /\ job' \in [Jobs -> JobStates] /\ job'[j].pc = "done" /\ Same(j)
      /\ \A k \in Jobs \ {j} : job'[k] = job[k]
  BY <1>1, <1>2, OnePc
<1>4. MovesOn(j)
  BY <1>2, <1>3 DEF MovesOn, HasMade
<1>5. \A k \in Jobs : job'[k] = job[k] \/ MovesOn(k)
  BY <1>3, <1>4
<1>6. h.row \in Rows /\ h \in JobStates
  BY <1>1, <1>2 DEF JobsInv, Fits, Types
<1>7. Left(h) \in RowStates
  <2>1. 0 \in 0..MaxClock
    BY Finite
  <2>2. [NoRow EXCEPT !.status = "deleted"] \in RowStates
    BY <2>1 DEF NoRow, RowStates
  <2> QED BY <1>6, <2>2 DEF Left, JobStates
<1>8. Types' /\ QueueInv'
  <2>1. shown' \in [Rows -> RowStates]
    BY <1>1, <1>2, <1>7 DEF Types
  <2> QED BY <1>1, <1>2, <1>3, <2>1, QueueKept DEF Types
<1>9. crashes' \in Nat /\ crashes' >= crashes
  BY <1>1, <1>2, Finite DEF Types
<1>10. ASSUME settled' # NoJob
       PROVE  Open' = {} /\ job'[settled'].pc = "done" /\ SettledRowShown'
  <2>1. h.alone /\ settled' = j
    BY <1>2, <1>10
  <2>2. Open = {j}
    BY <1>1, <1>2, <2>1 DEF AloneInv, Open
  <2>3. Open' = {}
    BY <1>3, <2>2 DEF Open
  <2>4. row[h.row] = Left(h)
    BY <1>1, <1>2, <2>1 DEF AloneInv
  <2>5. h.wrote.status = "Queued" \/ shown'[h.row] = row'[h.row]
    BY <1>1, <1>2, <1>6, <2>4 DEF Types
  <2>6. job'[j].wrote = h.wrote /\ job'[j].row = h.row
    BY <1>3 DEF Same
  <2> QED BY <1>3, <2>1, <2>3, <2>5, <2>6 DEF SettledRowShown
<1> HIDE DEF h
<1> QED BY <1>2, <1>5, <1>8, <1>9, <1>10, MovesKeep DEF IInv, AloneInv

-----------------------------------------------------------------------------
(* The queue.                                                              *)

\* Only j starts, or ends, to wait.
OnlyWaits(j) == \A k \in Jobs \ {j} : (job'[k].pc = "waiting") <=> (job[k].pc = "waiting")

LEMMA QueueFirst ==
  ASSUME QueueInv, NEW j \in Jobs, job[j].pc # "waiting", queue' = <<j>> \o queue,
         job'[j].pc = "waiting", OnlyWaits(j)
  PROVE  QueueInv'
<1>1. queue \in Seq(Jobs) /\ <<j>> \in Seq(Jobs) /\ Len(<<j>>) = 1 /\ <<j>>[1] = j /\ Len(queue) \in Nat
  BY DEF QueueInv
<1>2. /\ queue' \in Seq(Jobs) /\ Len(queue') = 1 + Len(queue)
      /\ \A i \in 1..(1 + Len(queue)) : queue'[i] = IF i <= 1 THEN <<j>>[i] ELSE queue[i - 1]
  <2> HIDE DEF QueueInv
  <2> QED BY <1>1, ConcatProperties
<1>3. DOMAIN queue = 1..Len(queue) /\ DOMAIN queue' = 1..(1 + Len(queue))
  BY <1>1, <1>2
<1>4. queue'[1] = j /\ \A i \in DOMAIN queue : i + 1 \in DOMAIN queue' /\ queue'[i + 1] = queue[i]
  BY <1>1, <1>2, <1>3
<1>5. \A i \in DOMAIN queue' : i = 1 \/ (i - 1 \in DOMAIN queue /\ queue'[i] = queue[i - 1])
  BY <1>1, <1>2, <1>3
<1>6. \A i \in DOMAIN queue : queue[i] # j
  BY DEF QueueInv
<1>7. ASSUME NEW k \in Jobs
      PROVE  (job'[k].pc = "waiting") <=> (\E i \in DOMAIN queue' : queue'[i] = k)
  <2>1. CASE k = j
    <3>1. 1 \in DOMAIN queue'
      BY <1>1, <1>3
    <3> QED BY <1>4, <2>1, <3>1
  <2>2. CASE k # j
    <3>1. ASSUME NEW i \in DOMAIN queue', queue'[i] = k PROVE \E m \in DOMAIN queue : queue[m] = k
      BY <1>4, <1>5, <2>2, <3>1
    <3>2. ASSUME NEW i \in DOMAIN queue, queue[i] = k PROVE \E m \in DOMAIN queue' : queue'[m] = k
      BY <1>4, <3>2
    <3> QED BY <2>2, <3>1, <3>2 DEF QueueInv, OnlyWaits
  <2> QED BY <2>1, <2>2
<1>8. ASSUME NEW i \in DOMAIN queue', NEW k \in DOMAIN queue', queue'[i] = queue'[k] PROVE i = k
  <2>1. i \in Nat /\ k \in Nat
    BY <1>1, <1>3
  <2>2. i # 1 /\ k # 1 => i - 1 = k - 1
    BY <1>5, <1>8 DEF QueueInv
  <2> QED BY <1>4, <1>5, <1>6, <1>8, <2>1, <2>2
<1> QED BY <1>2, <1>7, <1>8 DEF QueueInv

LEMMA QueueLast ==
  ASSUME QueueInv, NEW j \in Jobs, job[j].pc # "waiting", queue' = Append(queue, j),
         job'[j].pc = "waiting", OnlyWaits(j)
  PROVE  QueueInv'
<1> DEFINE n == Len(queue) + 1
<1>1. queue \in Seq(Jobs) /\ Len(queue) \in Nat /\ DOMAIN queue = 1..Len(queue)
  BY DEF QueueInv
<1>2. /\ queue' \in Seq(Jobs) /\ DOMAIN queue' = 1..n /\ queue'[n] = j
      /\ \A i \in DOMAIN queue : i \in DOMAIN queue' /\ queue'[i] = queue[i]
  BY <1>1
<1>3. \A i \in DOMAIN queue' : i = n \/ i \in DOMAIN queue
  BY <1>1, <1>2
<1>4. \A i \in DOMAIN queue : queue[i] # j
  BY DEF QueueInv
<1>5. n \in DOMAIN queue'
  BY <1>1, <1>2
<1> HIDE DEF n
<1>6. ASSUME NEW k \in Jobs
      PROVE  (job'[k].pc = "waiting") <=> (\E i \in DOMAIN queue' : queue'[i] = k)
  <2>1. CASE k = j
    BY <1>2, <1>5, <2>1
  <2>2. CASE k # j
    <3>1. (\E i \in DOMAIN queue' : queue'[i] = k) <=> (\E i \in DOMAIN queue : queue[i] = k)
      BY <1>2, <1>3, <2>2
    <3> QED BY <2>2, <3>1 DEF QueueInv, OnlyWaits
  <2> QED BY <2>1, <2>2
<1>7. ASSUME NEW i \in DOMAIN queue', NEW k \in DOMAIN queue', queue'[i] = queue'[k] PROVE i = k
  BY <1>2, <1>3, <1>4, <1>7 DEF QueueInv
<1> QED BY <1>2, <1>6, <1>7 DEF QueueInv

LEMMA QueueTaken ==
  ASSUME QueueInv, NEW j \in Jobs, job[j].pc = "waiting", Head(queue) = j, queue' = Tail(queue),
         job'[j].pc # "waiting", OnlyWaits(j)
  PROVE  QueueInv'
<1>1. queue \in Seq(Jobs) /\ Len(queue) \in Nat /\ DOMAIN queue = 1..Len(queue)
  BY DEF QueueInv
<1>2. queue # <<>> /\ queue[1] = j /\ 1 \in DOMAIN queue
  BY <1>1 DEF QueueInv
<1>3. /\ queue' \in Seq(Jobs) /\ Len(queue') = Len(queue) - 1
      /\ \A i \in 1..(Len(queue) - 1) : queue'[i] = queue[i + 1]
  BY <1>1, <1>2, HeadTailProperties
<1>4. DOMAIN queue' = 1..(Len(queue) - 1)
  BY <1>3
<1>5. \A i \in DOMAIN queue' : /\ i \in Nat /\ i + 1 \in DOMAIN queue /\ i + 1 # 1
                               /\ queue'[i] = queue[i + 1]
  BY <1>1, <1>3, <1>4
<1>6. \A i \in DOMAIN queue : i # 1 => i - 1 \in DOMAIN queue' /\ queue'[i - 1] = queue[i]
  BY <1>1, <1>3, <1>4
<1>7. \A i \in DOMAIN queue' : queue'[i] # j
  BY <1>2, <1>5 DEF QueueInv
<1>8. ASSUME NEW k \in Jobs
      PROVE  (job'[k].pc = "waiting") <=> (\E i \in DOMAIN queue' : queue'[i] = k)
  <2>1. CASE k = j
    BY <1>7, <2>1
  <2>2. CASE k # j
    <3>1. (\E i \in DOMAIN queue' : queue'[i] = k) <=> (\E i \in DOMAIN queue : queue[i] = k)
      BY <1>2, <1>5, <1>6, <2>2
    <3> QED BY <2>2, <3>1 DEF QueueInv, OnlyWaits
  <2> QED BY <2>1, <2>2
<1>9. ASSUME NEW i \in DOMAIN queue', NEW k \in DOMAIN queue', queue'[i] = queue'[k] PROVE i = k
  <2>1. i + 1 = k + 1
    BY <1>5, <1>9 DEF QueueInv
  <2> QED BY <1>5, <2>1
<1> QED BY <1>3, <1>8, <1>9 DEF QueueInv

LEMMA RequeueKeeps == ASSUME IInv, NEW j \in Jobs, Requeue(j) PROVE IInv'
<1>1. /\ Types /\ QueueInv /\ AloneInv /\ CreatedInv
  BY DEF IInv
<1>2. PICK pc \in {"waiting", "failed"} :
        /\ job[j].pc = "stalled" /\ job' = [job EXCEPT ![j].pc = pc]
        /\ UNCHANGED <<row, made, shown, clock, crashes, settled>>
        /\ pc = "waiting" => job[j].runs < 2 /\ queue' = <<j>> \o queue
        /\ pc = "failed" => queue' = queue
  BY DEF Requeue
<1>3. /\ job' \in [Jobs -> JobStates] /\ job'[j].pc = pc /\ Same(j)
      /\ \A k \in Jobs \ {j} : job'[k] = job[k]
  BY <1>1, <1>2, OnePc
<1>4. crashes # 0
  BY <1>1, <1>2 DEF CreatedInv
<1>5. MovesOn(j)
  BY <1>2, <1>3, <1>4 DEF MovesOn
<1>6. \A k \in Jobs : job'[k] = job[k] \/ MovesOn(k)
  BY <1>3, <1>5
<1>7. QueueInv'
  <2>1. CASE pc = "waiting"
    BY <1>1, <1>2, <1>3, <2>1, QueueFirst DEF OnlyWaits
  <2>2. CASE pc = "failed"
    BY <1>1, <1>2, <1>3, <2>2, QueueKept
  <2> QED BY <2>1, <2>2
<1>8. Types'
  BY <1>1, <1>2, <1>3 DEF Types
<1>9. settled' = NoJob
  BY <1>1, <1>2 DEF AloneInv, Open
<1>10. crashes' \in Nat /\ crashes' >= crashes
  BY <1>1, <1>2, Finite DEF Types
<1> QED BY <1>2, <1>6, <1>7, <1>8, <1>9, <1>10, MovesKeep DEF IInv, AloneInv

LEMMA CrashKeeps == ASSUME IInv, Crash PROVE IInv'
<1>1. /\ Types /\ QueueInv /\ AloneInv
  BY DEF IInv
<1>2. /\ crashes < MaxCrash /\ crashes' = crashes + 1 /\ Open # {}
      /\ UNCHANGED <<queue, row, made, shown, clock, settled>>
  BY DEF Crash
<1>3. job' = [k \in Jobs |-> CASE k \in Busy -> [job[k] EXCEPT !.pc = "stalled"]
                               [] job[k].pc = "completed" -> [job[k] EXCEPT !.pc = "done"]
                               [] OTHER -> job[k]]
  BY DEF Crash
<1>4. crashes' \in 0..MaxCrash /\ crashes' # 0 /\ crashes' \in Nat /\ crashes' >= crashes
  BY <1>1, <1>2, Finite DEF Types
<1>5. ASSUME NEW k \in Jobs
      PROVE  /\ job'[k] \in JobStates /\ (job'[k] = job[k] \/ MovesOn(k))
             /\ (job'[k].pc = "waiting") <=> (job[k].pc = "waiting")
  <2>1. job[k] \in JobStates
    BY <1>1 DEF Types
  <2>2. CASE k \in Busy
    <3>1. job'[k] = [job[k] EXCEPT !.pc = "stalled"] /\ job[k].pc \in {"running", "applied"}
      BY <1>3, <2>2 DEF Busy
    <3> QED BY <1>4, <2>1, <3>1 DEF MovesOn, Same, JobStates
  <2>3. CASE job[k].pc = "completed"
    <3>1. job'[k] = [job[k] EXCEPT !.pc = "done"]
      BY <1>3, <2>3 DEF Busy
    <3> QED BY <1>4, <2>1, <2>3, <3>1 DEF MovesOn, Same, JobStates, Over
  <2>4. CASE k \notin Busy /\ job[k].pc # "completed"
    <3>1. job'[k] = job[k]
      BY <1>3, <2>4
    <3> QED BY <2>1, <3>1
  <2> QED BY <2>2, <2>3, <2>4
<1>6. job' \in [Jobs -> JobStates]
  BY <1>3, <1>5
<1>7. Types' /\ QueueInv'
  BY <1>1, <1>2, <1>4, <1>5, <1>6, QueueKept DEF Types
<1>8. settled' = NoJob
  BY <1>1, <1>2 DEF AloneInv
<1> QED BY <1>2, <1>4, <1>5, <1>7, <1>8, MovesKeep DEF IInv, AloneInv

-----------------------------------------------------------------------------
(* Jobs are added and begin.                                               *)

LEMMA AddKeeps ==
  ASSUME IInv, NEW j \in Jobs, NEW kind \in {"create", "update", "delete"}, NEW status \in Statuses,
         NEW r \in Rows \cup {0}, Add(j, kind, status, r),
         kind = "create" => status \in Given,
         kind = "update" => status \in Asked,
         kind # "create" => r \in Rows /\ Exists(r)
  PROVE  IInv'
<1> DEFINE h == [IdleJob EXCEPT !.pc = "waiting", !.kind = kind, !.status = status, !.row = r]
<1>1. /\ Types /\ QueueInv /\ WorkersInv /\ ClockInv /\ JobsInv /\ RowsInv /\ ReadsInv /\ CreatedInv
      /\ AloneInv
  BY DEF IInv
<1>2. /\ job[j].pc = "idle" /\ queue' = Append(queue, j) /\ job' = [job EXCEPT ![j] = h]
      /\ UNCHANGED <<row, made, shown, clock, crashes, settled>>
  BY DEF Add
<1>3. job[j] = IdleJob
  BY <1>1, <1>2 DEF JobsInv, Fits
<1>4. /\ h \in JobStates /\ h.pc = "waiting" /\ h.kind = kind /\ h.status = status /\ h.row = r
      /\ h.runs = 0 /\ h.alone = FALSE
  BY IdleIsState DEF IdleJob, JobStates
<1> HIDE DEF h
<1>5. job' \in [Jobs -> JobStates] /\ job'[j] = h /\ \A k \in Jobs \ {j} : job'[k] = job[k]
  BY <1>1, <1>2, <1>4, OneJob
<1>6. job[j].runs = 0 /\ job[j].pc = "idle"
  BY <1>3 DEF IdleJob
<1>7. Types'
  BY <1>1, <1>2, <1>5 DEF Types
<1>8. QueueInv'
  BY <1>1, <1>2, <1>4, <1>5, QueueLast DEF OnlyWaits
<1>9. Busy' = Busy /\ Open' = Open /\ Once' = Once /\ Twice' = Twice
  <2>1. Busy' = Busy /\ Open' = Open
    BY <1>4, <1>5, <1>6 DEF Busy, Open
  <2>2. Once' = Once /\ Twice' = Twice
    BY <1>4, <1>5, <1>6 DEF Once, Twice
  <2> QED BY <2>1, <2>2
<1>10. WorkersInv' /\ ClockInv'
  BY <1>1, <1>2, <1>9 DEF WorkersInv, ClockInv
<1>11. JobsInv'
  <2>1. Fits(h)
    BY <1>4 DEF Fits
  <2> QED BY <1>1, <1>5, <2>1 DEF JobsInv
<1>12. RowsInv'
  <2>1. kind # "create" => made[r] # NoJob
    BY <1>1 DEF RowsInv, Exists, Statuses, Asked, Given
  <2> QED BY <1>1, <1>2, <1>4, <1>5, <2>1 DEF RowsInv
<1>13. ReadsInv'
  <2> SUFFICES ASSUME NEW k \in Jobs, (Reading(k) /\ Exists(job[k].row))'
               PROVE  Follows(job[k].read, row[job[k].row])'
    BY DEF ReadsInv
  <2>1. k # j
    BY <1>4, <1>5 DEF Reading
  <2>2. Reading(k) /\ Exists(job[k].row)
    BY <1>2, <1>5, <2>1 DEF Reading, Exists
  <2> QED BY <1>1, <1>2, <1>5, <2>1, <2>2 DEF ReadsInv
<1>14. CreatedInv'
  <2>1. Made(j) = {} /\ Cardinality(Made(j)) = 0
    <3>1. Made(j) \in SUBSET Rows
      BY DEF Made
    <3>2. Cardinality(Made(j)) <= 0
      BY <1>1, <1>6 DEF CreatedInv
    <3>3. IsFiniteSet(Made(j)) /\ Cardinality(Made(j)) \in Nat
      BY <3>1, Finite
    <3> QED BY <3>2, <3>3, FS_EmptySet
  <2> SUFFICES ASSUME NEW k \in Jobs
               PROVE  /\ Cardinality(Made(k)) <= job'[k].runs
                      /\ job'[k].pc = "running" => Cardinality(Made(k)) < job'[k].runs
                      /\ crashes = 0 =>
                           /\ job'[k].pc # "stalled"
                           /\ job'[k].kind = "create" =>
                                IF HasMade(k)' THEN Cardinality(Made(k)) = 1 ELSE Made(k) = {}
    BY <1>2 DEF CreatedInv, Made
  <2>2. CASE k = j
    BY <1>4, <1>5, <2>1, <2>2 DEF HasMade
  <2>3. CASE k # j
    <3>1. job'[k] = job[k]
      BY <1>5, <2>3
    <3> QED BY <1>1, <3>1 DEF CreatedInv, HasMade
  <2> QED BY <2>2, <2>3
<1>15. AloneInv'
  <2>1. \A k \in Open' : job'[k].alone => Open' = {k}
    <3> SUFFICES ASSUME NEW k \in Open, job'[k].alone PROVE Open = {k}
      BY <1>9
    <3>1. k \in Jobs /\ k # j
      BY <1>6 DEF Open
    <3> QED BY <1>1, <1>5, <3>1 DEF AloneInv
  <2>2. \A k \in Jobs : job'[k].pc \in {"applied", "completed"} /\ job'[k].alone =>
                          row'[job'[k].row] = Left(job'[k])
    BY <1>1, <1>2, <1>4, <1>5 DEF AloneInv
  <2>3. ASSUME settled' # NoJob PROVE Open' = {} /\ job'[settled].pc = "done" /\ SettledRowShown'
    <3>1. settled \in Jobs /\ settled # NoJob /\ job[settled].pc = "done"
      BY <1>1, <1>2, <2>3 DEF Types, AloneInv
    <3>2. job'[settled] = job[settled]
      BY <1>5, <1>6, <3>1
    <3> QED BY <1>1, <1>2, <1>9, <3>1, <3>2 DEF AloneInv, SettledRowShown
  <2> QED BY <1>2, <2>1, <2>2, <2>3 DEF AloneInv
<1> QED BY <1>7, <1>8, <1>10, <1>11, <1>12, <1>13, <1>14, <1>15 DEF IInv

LEMMA BeginKeeps == ASSUME IInv, NEW j \in Jobs, Begin(j) PROVE IInv'
<1> DEFINE read == IF job[j].kind = "create" THEN NoRow ELSE row[job[j].row]
<1>1. /\ Types /\ QueueInv /\ WorkersInv /\ ClockInv /\ JobsInv /\ RowsInv /\ ReadsInv /\ CreatedInv
      /\ AloneInv
  BY DEF IInv
<1>2. /\ job[j].pc = "waiting" /\ Head(queue) = j /\ Cardinality(Busy) < Workers
      /\ queue' = Tail(queue) /\ clock' = clock + 1 /\ settled' = NoJob
      /\ UNCHANGED <<row, made, shown, crashes>>
  BY DEF Begin
<1>3. job[j] \in JobStates /\ job[j].runs \in 0..1
  <2>1. job[j] \in JobStates /\ job[j].runs \in 0..2
    BY <1>1 DEF Types, JobStates
  <2>2. job[j].runs < 2
    BY <1>1, <1>2 DEF JobsInv, Fits
  <2> QED BY <2>1, <2>2
<1>4. job' = [k \in Jobs |->
                CASE k = j -> [job[j] EXCEPT !.pc = "running", !.at = clock + 1,
                                 !.runs = job[j].runs + 1, !.read = read,
                                 !.alone = Open \ {j} = {}]
                  [] k # j -> [job[k] EXCEPT !.alone = FALSE]]
  BY DEF Begin, Started
<1>5. job'[j] = [job[j] EXCEPT !.pc = "running", !.at = clock + 1, !.runs = job[j].runs + 1,
                               !.read = read, !.alone = Open \ {j} = {}]
  BY <1>4
<1>6. ASSUME NEW k \in Jobs \ {j} PROVE job'[k] = [job[k] EXCEPT !.alone = FALSE]
  BY <1>4
<1>7. /\ job'[j].pc = "running" /\ job'[j].kind = job[j].kind /\ job'[j].status = job[j].status
      /\ job'[j].row = job[j].row /\ job'[j].read = read /\ job'[j].at = clock + 1
      /\ job'[j].runs = job[j].runs + 1 /\ job'[j].alone = (Open \ {j} = {})
  BY <1>3, <1>5 DEF JobStates
<1>f. ASSUME NEW k \in Jobs \ {j}
      PROVE  /\ job'[k].pc = job[k].pc /\ job'[k].kind = job[k].kind
             /\ job'[k].status = job[k].status /\ job'[k].row = job[k].row
             /\ job'[k].read = job[k].read /\ job'[k].wrote = job[k].wrote
             /\ job'[k].at = job[k].at /\ job'[k].runs = job[k].runs /\ job'[k].alone = FALSE
             /\ job'[k] \in JobStates
  <2>1. job[k] \in JobStates
    BY <1>1 DEF Types
  <2> QED BY <1>6, <2>1 DEF JobStates
<1>8. \A k \in Jobs \ {j} :
        /\ job'[k].pc = job[k].pc /\ job'[k].kind = job[k].kind
        /\ job'[k].status = job[k].status /\ job'[k].row = job[k].row
        /\ job'[k].read = job[k].read /\ job'[k].wrote = job[k].wrote
        /\ job'[k].at = job[k].at /\ job'[k].runs = job[k].runs /\ job'[k].alone = FALSE
  BY <1>f
<1>9. QueueInv'
  BY <1>1, <1>2, <1>7, <1>8, QueueTaken DEF OnlyWaits
<1>10. WorkersInv'
  <2>1. Busy' = Busy \cup {j} /\ Busy \in SUBSET Jobs /\ j \notin Busy
    BY <1>2, <1>7, <1>8 DEF Busy
  <2> QED BY <1>2, <2>1, Finite, FS_AddElement DEF WorkersInv
<1>11. ClockInv'
  <2>1. Once \in SUBSET Jobs /\ Twice \in SUBSET Jobs
    BY DEF Once, Twice
  <2>2. /\ IsFiniteSet(Once) /\ Cardinality(Once) \in Nat
        /\ IsFiniteSet(Twice) /\ Cardinality(Twice) \in Nat
    BY <2>1, Finite
  <2>3. CASE job[j].runs = 0
    <3>1. Once' = Once \cup {j} /\ j \notin Once /\ Twice' = Twice
      BY <1>7, <1>8, <2>3 DEF Once, Twice
    <3>2. Cardinality(Once') = Cardinality(Once) + 1
      BY <2>2, <3>1, FS_AddElement
    <3> QED BY <1>1, <1>2, <2>2, <3>1, <3>2 DEF ClockInv
  <2>4. CASE job[j].runs = 1
    <3>1. Once' = Once /\ j \notin Twice /\ Twice' = Twice \cup {j}
      BY <1>7, <1>8, <2>4 DEF Once, Twice
    <3>2. Cardinality(Twice') = Cardinality(Twice) + 1
      BY <2>2, <3>1, FS_AddElement
    <3> QED BY <1>1, <1>2, <2>2, <3>1, <3>2 DEF ClockInv
  <2> QED BY <1>3, <2>3, <2>4
<1>12. clock \in 0..MaxClock /\ clock' \in 0..MaxClock /\ clock' # 0
  <2>1. clock \in 0..MaxClock
    BY <1>1, ClockBounded
  <2>2. clock' \in 0..MaxClock
    <3>1. Once' \in SUBSET Jobs /\ Twice' \in SUBSET Jobs
      BY DEF Once, Twice
    <3> QED BY <1>11, <3>1, Finite DEF ClockInv
  <2> QED BY <1>2, <2>1, <2>2
<1>13. read \in RowStates /\ Sound(read)
  <2>1. job[j].kind # "create" => job[j].row \in Rows
    BY <1>1 DEF JobsInv, Fits
  <2>2. Sound(NoRow)
    BY DEF Sound, NoRow, Seen, Finished
  <2> QED BY <1>1, <2>1, <2>2, IdleIsState DEF Types, RowsInv
<1>14. Types'
  <2>1. job'[j] \in JobStates
    <3>1. /\ clock + 1 \in 0..MaxClock /\ job[j].runs + 1 \in 0..2
          /\ (Open \ {j} = {}) \in BOOLEAN /\ read \in RowStates
      BY <1>2, <1>3, <1>12, <1>13
    <3> HIDE DEF read
    <3>2. PICK alone \in BOOLEAN : alone = (Open \ {j} = {})
      BY <3>1
    <3>3. job'[j] = [job[j] EXCEPT !.pc = "running", !.at = clock + 1, !.runs = job[j].runs + 1,
                                   !.read = read, !.alone = alone]
      BY <1>5, <3>2
    <3> QED BY <1>3, <3>1, <3>3 DEF JobStates
  <2>2. \A k \in Jobs \ {j} : job'[k] \in JobStates
    BY <1>f
  <2>3. job' \in [Jobs -> JobStates]
    BY <1>4, <2>1, <2>2
  <2> QED BY <1>1, <1>2, <2>3 DEF Types
<1>15. JobsInv'
  <2>1. Fits(job[j])
    BY <1>1 DEF JobsInv
  <2>2. Fits(job'[j])
    BY <1>2, <1>3, <1>7, <1>12, <1>13, <2>1 DEF Fits
  <2>3. ASSUME NEW k \in Jobs \ {j} PROVE Fits(job'[k])
    <3>1. Fits(job[k])
      BY <1>1 DEF JobsInv
    <3>2. job[k] = IdleJob => job'[k] = IdleJob
      BY <1>6 DEF IdleJob
    <3> QED BY <1>8, <3>1, <3>2 DEF Fits
  <2> QED BY <2>2, <2>3 DEF JobsInv
<1>16. RowsInv'
  BY <1>1, <1>2, <1>7, <1>8 DEF RowsInv
<1>17. ReadsInv'
  <2> SUFFICES ASSUME NEW k \in Jobs, (Reading(k) /\ Exists(job[k].row))'
               PROVE  Follows(job[k].read, row[job[k].row])'
    BY DEF ReadsInv
  <2>1. CASE k = j
    <3>1. job'[j].read = row[job[j].row] /\ row[job[j].row].status \in Statuses
      BY <1>2, <1>7, <2>1 DEF Reading, Exists
    <3>2. row[job[j].row].writes \in Nat
      <4>1. job[j].row \in Rows
        BY <1>1, <1>7, <2>1 DEF Reading, JobsInv, Fits
      <4> QED BY <1>1, <4>1 DEF Types, RowStates
    <3> QED BY <1>2, <1>7, <2>1, <3>1, <3>2 DEF Follows
  <2>2. CASE k # j
    <3>1. Reading(k) /\ Exists(job[k].row)
      BY <1>2, <1>8, <2>2 DEF Reading, Exists
    <3> QED BY <1>1, <1>2, <1>8, <2>2, <3>1 DEF ReadsInv
  <2> QED BY <2>1, <2>2
<1>18. CreatedInv'
  <2> SUFFICES ASSUME NEW k \in Jobs
               PROVE  /\ Cardinality(Made(k)) <= job'[k].runs
                      /\ job'[k].pc = "running" => Cardinality(Made(k)) < job'[k].runs
                      /\ crashes = 0 =>
                           /\ job'[k].pc # "stalled"
                           /\ job'[k].kind = "create" =>
                                IF HasMade(k)' THEN Cardinality(Made(k)) = 1 ELSE Made(k) = {}
    BY <1>2 DEF CreatedInv, Made
  <2>1. CASE k = j
    <3>1. Cardinality(Made(j)) \in Nat /\ Cardinality(Made(j)) <= job[j].runs
      <4>1. Made(j) \in SUBSET Rows
        BY DEF Made
      <4> QED BY <1>1, <4>1, Finite DEF CreatedInv
    <3>2. Cardinality(Made(j)) < job'[j].runs /\ Cardinality(Made(j)) <= job'[j].runs
      BY <1>3, <1>7, <3>1
    <3>3. crashes = 0 /\ job[j].kind = "create" => Made(j) = {}
      BY <1>1, <1>2 DEF CreatedInv, HasMade
    <3> QED BY <1>7, <2>1, <3>2, <3>3 DEF HasMade
  <2>2. CASE k # j
    <3>1. /\ job'[k].pc = job[k].pc /\ job'[k].kind = job[k].kind /\ job'[k].runs = job[k].runs
      BY <1>8, <2>2
    <3> QED BY <1>1, <3>1 DEF CreatedInv, HasMade
  <2> QED BY <2>1, <2>2
<1>19. AloneInv'
  <2>1. Open' = Open \cup {j} /\ Open \subseteq Jobs
    BY <1>7, <1>8 DEF Open
  <2>2. \A k \in Open' : job'[k].alone => Open' = {k}
    BY <1>7, <1>8, <2>1
  <2>3. \A k \in Jobs : ~(job'[k].pc \in {"applied", "completed"} /\ job'[k].alone)
    BY <1>7, <1>8
  <2> QED BY <1>2, <2>2, <2>3 DEF AloneInv
<1> QED BY <1>9, <1>10, <1>11, <1>14, <1>15, <1>16, <1>17, <1>18, <1>19 DEF IInv

-----------------------------------------------------------------------------
(* Transactions commit.                                                    *)

\* What a job writes over the row cur, which it may have read before it was that.
LEMMA ChangedRow ==
  ASSUME NEW h \in JobStates, Fits(h), h.pc = "running", h.kind \in {"create", "update"},
         NEW cur \in RowStates, Sound(cur),
         IF h.kind = "create" THEN cur = NoRow ELSE Follows(h.read, cur)
  PROVE  /\ Changed(h, cur) \in RowStates /\ Sound(Changed(h, cur))
         /\ Changed(h, cur).status \in Statuses
         /\ Changed(h, cur).writes = cur.writes + 1
         /\ cur.viewedAt # 0 => Changed(h, cur).viewedAt # 0
         /\ cur.readAt # 0 => Changed(h, cur).readAt # 0
<1> DEFINE new == Changed(h, cur)
           status == IF h.kind = "create" THEN h.status ELSE NextStatus(h.read.status, h.status)
<1>1. /\ h.at \in 0..MaxClock /\ h.at # 0 /\ h.status \in Statuses /\ h.read \in RowStates
      /\ cur.viewedAt \in 0..MaxClock /\ cur.readAt \in 0..MaxClock /\ cur.writes \in Nat
  BY DEF JobStates, RowStates, Fits
<1>2. /\ new.status = status /\ new.writes = cur.writes + 1
      /\ new.viewedAt = Moment(h.status, h.read.viewedAt, cur.viewedAt, h.at, Seen)
      /\ new.readAt = Moment(h.status, h.read.readAt, cur.readAt, h.at, Finished)
      /\ new = [status |-> new.status, viewedAt |-> new.viewedAt, readAt |-> new.readAt,
                writes |-> new.writes]
  BY DEF Changed
<1>3. status \in Statuses
  BY <1>1 DEF NextStatus, Follows
<1>4. /\ new.viewedAt \in 0..MaxClock /\ new.readAt \in 0..MaxClock
      /\ cur.viewedAt # 0 => new.viewedAt # 0
      /\ cur.readAt # 0 => new.readAt # 0
  BY <1>1, <1>2 DEF Moment
<1>5. Sound(h.read) /\ (h.kind = "create" => h.read = NoRow)
  BY DEF Fits
<1>6. /\ h.read.viewedAt # 0 => cur.viewedAt # 0
      /\ h.read.readAt # 0 => cur.readAt # 0
  BY <1>5 DEF Follows, NoRow
<1>7. status \in Seen => h.status \in Seen \/ h.read.status \in Seen
  BY DEF NextStatus, Seen, Finished
<1>8. status \in Finished => h.status \in Finished \/ h.read.status \in Finished
  BY DEF NextStatus, Seen, Finished
<1>9. h.status \in Seen => new.viewedAt # 0
  BY <1>1, <1>2, <1>6 DEF Moment
<1>10. h.status \in Finished => new.readAt # 0
  BY <1>1, <1>2, <1>6 DEF Moment
<1>11. status \in Seen => new.viewedAt # 0
  BY <1>4, <1>5, <1>6, <1>7, <1>9 DEF Sound
<1>12. status \in Finished => new.readAt # 0
  BY <1>4, <1>5, <1>6, <1>8, <1>10 DEF Sound
<1>13. new.readAt # 0 => new.viewedAt # 0
  <2>1. new.readAt # 0 => h.status \in Finished \/ cur.readAt # 0
    BY <1>2 DEF Moment
  <2>2. cur.readAt # 0 => new.viewedAt # 0
    BY <1>4 DEF Sound
  <2> QED BY <1>9, <2>1, <2>2 DEF Finished, Seen
<1> HIDE DEF new, status
<1>14. new \in RowStates
  BY <1>1, <1>2, <1>3, <1>4 DEF RowStates
<1>15. Sound(new)
  BY <1>2, <1>11, <1>12, <1>13 DEF Sound
<1> QED BY <1>1, <1>2, <1>3, <1>4, <1>14, <1>15 DEF new

\* What the three transactions have in common.
LEMMA CommitKeeps ==
  ASSUME IInv, NEW j \in Jobs, NEW r \in Rows, NEW new \in RowStates, NEW result \in RowStates,
         job[j].pc = "running", Applied(j, r, new, result),
         made' \in [Rows -> Jobs \cup {NoJob}],
         job[j].kind # "create" => r = job[j].row,
         new = IF job[j].kind = "delete" THEN [NoRow EXCEPT !.status = "deleted"] ELSE result
  PROVE  /\ Types' /\ QueueInv' /\ WorkersInv' /\ ClockInv' /\ JobsInv' /\ AloneInv'
         /\ row'[r] = new /\ \A x \in Rows \ {r} : row'[x] = row[x]
         /\ job'[j].pc = "applied" /\ job'[j].kind = job[j].kind /\ job'[j].row = r
         /\ job'[j].runs = job[j].runs
         /\ \A k \in Jobs \ {j} : job'[k] = job[k]
<1>1. /\ Types /\ QueueInv /\ WorkersInv /\ ClockInv /\ JobsInv /\ AloneInv
  BY DEF IInv
<1>2. /\ row' = [row EXCEPT ![r] = new]
      /\ job' = [job EXCEPT ![j] = [job[j] EXCEPT !.pc = "applied", !.row = r, !.wrote = result]]
      /\ UNCHANGED <<queue, shown, clock, crashes, settled>>
  BY <1>1 DEF Applied, Types
<1>3. job[j] \in JobStates
  BY <1>1 DEF Types
<1>4. [job[j] EXCEPT !.pc = "applied", !.row = r, !.wrote = result] \in JobStates
  BY <1>3 DEF JobStates
<1>5. /\ job' \in [Jobs -> JobStates]
      /\ job'[j] = [job[j] EXCEPT !.pc = "applied", !.row = r, !.wrote = result]
      /\ \A k \in Jobs \ {j} : job'[k] = job[k]
  BY <1>1, <1>2, <1>4, OneJob
<1>6. /\ job'[j].pc = "applied" /\ job'[j].kind = job[j].kind /\ job'[j].row = r
      /\ job'[j].status = job[j].status /\ job'[j].wrote = result
      /\ job'[j].runs = job[j].runs /\ job'[j].alone = job[j].alone
  BY <1>3, <1>5 DEF JobStates
<1>7. Types'
  BY <1>1, <1>2, <1>5 DEF Types
<1>8. QueueInv'
  BY <1>1, <1>2, <1>5, <1>6, QueueKept
<1>9. Busy' = Busy /\ Open' = Open
  BY <1>5, <1>6 DEF Busy, Open
<1>10. Once' = Once /\ Twice' = Twice
  <2>1. \A k \in Jobs : job'[k].runs = job[k].runs
    BY <1>5, <1>6
  <2> QED BY <2>1 DEF Once, Twice
<1>11. WorkersInv' /\ ClockInv'
  BY <1>1, <1>2, <1>9, <1>10 DEF WorkersInv, ClockInv
<1>12. JobsInv'
  <2>1. Fits(job[j])
    BY <1>1 DEF JobsInv
  <2>2. Fits(job'[j])
    BY <1>6, <2>1 DEF Fits
  <2> QED BY <1>1, <1>5, <2>2 DEF JobsInv
<1>13. AloneInv'
  <2>1. j \in Open /\ settled = NoJob
    BY <1>1 DEF AloneInv, Open
  <2>2. ASSUME NEW k \in Open', job'[k].alone PROVE Open' = {k}
    <3>1. k \in Open /\ job[k].alone
      BY <1>5, <1>6, <1>9, <2>2 DEF Open
    <3> QED BY <1>1, <1>9, <3>1 DEF AloneInv
  <2>3. ASSUME NEW k \in Jobs, job'[k].pc \in {"applied", "completed"}, job'[k].alone
        PROVE  row'[job'[k].row] = Left(job'[k])
    <3>1. k \in Open'
      BY <2>3 DEF Open
    <3>2. k = j
      BY <1>9, <2>1, <2>2, <2>3, <3>1
    <3>3. row'[r] = new
      BY <1>1, <1>2 DEF Types
    <3>4. new = Left(job'[j])
      BY <1>6 DEF Left
    <3> QED BY <1>6, <3>2, <3>3, <3>4
  <2> QED BY <1>2, <2>1, <2>2, <2>3 DEF AloneInv
<1>14. row'[r] = new /\ \A x \in Rows \ {r} : row'[x] = row[x]
  BY <1>1, <1>2 DEF Types
<1> QED BY <1>5, <1>6, <1>7, <1>8, <1>11, <1>12, <1>13, <1>14

LEMMA ApplyCreateKeeps == ASSUME IInv, NEW j \in Jobs, ApplyCreate(j) PROVE IInv'
<1> DEFINE new == Changed(job[j], NoRow)
<1>1. /\ Types /\ JobsInv /\ RowsInv /\ ReadsInv /\ CreatedInv
  BY DEF IInv
<1>2. PICK r \in Rows :
        /\ job[j].pc = "running" /\ job[j].kind = "create" /\ made[r] = NoJob
        /\ made' = [made EXCEPT ![r] = j] /\ Applied(j, r, new, new)
  BY DEF ApplyCreate
<1>3. job[j] \in JobStates /\ Fits(job[j])
  BY <1>1 DEF Types, JobsInv
<1>4. new \in RowStates /\ Sound(new)
  <2>1. Sound(NoRow)
    BY DEF Sound, NoRow, Seen, Finished
  <2> QED BY <1>2, <1>3, <2>1, IdleIsState, ChangedRow
<1>5. UNCHANGED crashes
  BY <1>2 DEF Applied
<1> HIDE DEF new
<1>6. made' \in [Rows -> Jobs \cup {NoJob}]
  BY <1>1, <1>2 DEF Types
<1>7. /\ Types' /\ QueueInv' /\ WorkersInv' /\ ClockInv' /\ JobsInv' /\ AloneInv'
      /\ row'[r] = new /\ \A x \in Rows \ {r} : row'[x] = row[x]
      /\ job'[j].pc = "applied" /\ job'[j].kind = job[j].kind /\ job'[j].row = r
      /\ job'[j].runs = job[j].runs
      /\ \A k \in Jobs \ {j} : job'[k] = job[k]
  BY <1>2, <1>4, <1>6, CommitKeeps
<1>8. made'[r] = j /\ \A x \in Rows \ {r} : made'[x] = made[x]
  BY <1>1, <1>2 DEF Types
<1>9. j # NoJob
  BY Finite
<1>10. RowsInv'
  <2>1. ASSUME NEW x \in Rows PROVE Sound(row'[x]) /\ (made'[x] = NoJob => row'[x].status = "none")
    BY <1>1, <1>4, <1>7, <1>8, <1>9 DEF RowsInv
  <2>2. ASSUME NEW k \in Jobs, job'[k].kind # "create" PROVE made'[job'[k].row] # NoJob
    <3>1. job'[k] = job[k]
      BY <1>2, <1>7, <2>2
    <3>2. job[k].row \in Rows
      BY <1>1, <2>2, <3>1 DEF JobsInv, Fits
    <3> QED BY <1>1, <1>8, <1>9, <2>2, <3>1, <3>2 DEF RowsInv
  <2> QED BY <2>1, <2>2 DEF RowsInv
<1>11. ReadsInv'
  <2> SUFFICES ASSUME NEW k \in Jobs, (Reading(k) /\ Exists(job[k].row))'
               PROVE  Follows(job[k].read, row[job[k].row])'
    BY DEF ReadsInv
  <2>1. k # j /\ job'[k] = job[k] /\ Reading(k)
    BY <1>7 DEF Reading
  <2>2. job[k].row \in Rows /\ made[job[k].row] # NoJob
    BY <1>1, <2>1 DEF JobsInv, RowsInv, Fits, Reading
  <2>3. row'[job[k].row] = row[job[k].row]
    BY <1>2, <1>7, <2>2
  <2>4. Exists(job[k].row)
    BY <2>1, <2>3 DEF Exists
  <2> QED BY <1>1, <2>1, <2>3, <2>4 DEF ReadsInv
<1>12. CreatedInv'
  <2>1. Made(j)' = Made(j) \cup {r} /\ r \notin Made(j) /\ Made(j) \in SUBSET Rows
    BY <1>2, <1>8, <1>9 DEF Made
  <2>2. Cardinality(Made(j)') = Cardinality(Made(j)) + 1 /\ Cardinality(Made(j)) \in Nat
    BY <2>1, Finite, FS_AddElement
  <2>3. Cardinality(Made(j)') <= job[j].runs
    BY <1>1, <1>2, <1>3, <2>2 DEF CreatedInv, JobStates
  <2>4. crashes = 0 => Cardinality(Made(j)') = 1
    <3>1. crashes = 0 => Made(j) = {}
      BY <1>1, <1>2 DEF CreatedInv, HasMade
    <3>2. crashes = 0 => Cardinality(Made(j)) = 0
      BY <3>1, FS_EmptySet
    <3> QED BY <2>2, <3>2
  <2>5. \A k \in Jobs \ {j} : Made(k)' = Made(k)
    BY <1>2, <1>8, Finite DEF Made
  <2> SUFFICES ASSUME NEW k \in Jobs
               PROVE  /\ Cardinality(Made(k)') <= job'[k].runs
                      /\ job'[k].pc = "running" => Cardinality(Made(k)') < job'[k].runs
                      /\ crashes = 0 =>
                           /\ job'[k].pc # "stalled"
                           /\ job'[k].kind = "create" =>
                                IF HasMade(k)' THEN Cardinality(Made(k)') = 1 ELSE Made(k)' = {}
    BY <1>5 DEF CreatedInv
  <2>6. CASE k = j
    BY <1>7, <2>3, <2>4, <2>6 DEF HasMade
  <2>7. CASE k # j
    <3>1. job'[k] = job[k] /\ Made(k)' = Made(k)
      BY <1>7, <2>5, <2>7
    <3> QED BY <1>1, <3>1 DEF CreatedInv, HasMade
  <2> QED BY <2>6, <2>7
<1> QED BY <1>7, <1>10, <1>11, <1>12 DEF IInv

\* A job that changes no `made'.
LEMMA CreatedKept ==
  ASSUME CreatedInv, NEW j \in Jobs, job[j].pc = "running", job[j].kind # "create",
         job'[j].pc = "applied", job'[j].kind = job[j].kind, job'[j].runs = job[j].runs,
         \A k \in Jobs \ {j} : job'[k] = job[k], UNCHANGED <<made, crashes>>
  PROVE  CreatedInv'
<1> SUFFICES ASSUME NEW k \in Jobs
             PROVE  /\ Cardinality(Made(k)) <= job'[k].runs
                    /\ job'[k].pc = "running" => Cardinality(Made(k)) < job'[k].runs
                    /\ crashes = 0 =>
                         /\ job'[k].pc # "stalled"
                         /\ job'[k].kind = "create" =>
                              IF HasMade(k)' THEN Cardinality(Made(k)) = 1 ELSE Made(k) = {}
  BY DEF CreatedInv, Made
<1>1. CASE k = j
  BY <1>1 DEF CreatedInv
<1>2. CASE k # j
  <2>1. job'[k] = job[k]
    BY <1>2
  <2> QED BY <2>1 DEF CreatedInv, HasMade
<1> QED BY <1>1, <1>2

LEMMA ApplyUpdateKeeps == ASSUME IInv, NEW j \in Jobs, ApplyUpdate(j) PROVE IInv'
<1> DEFINE r == job[j].row
           new == Changed(job[j], row[r])
<1>1. /\ Types /\ JobsInv /\ RowsInv /\ ReadsInv /\ CreatedInv
  BY DEF IInv
<1>2. /\ job[j].pc = "running" /\ job[j].kind = "update" /\ Exists(r)
      /\ Applied(j, r, new, new) /\ UNCHANGED <<made, crashes>>
  BY DEF ApplyUpdate, Applied
<1>3. job[j] \in JobStates /\ Fits(job[j]) /\ r \in Rows
  BY <1>1, <1>2 DEF Types, JobsInv, Fits
<1>4. row[r] \in RowStates /\ Sound(row[r]) /\ made[r] # NoJob
  <2>1. "none" \notin Statuses
    BY DEF Statuses, Asked, Given
  <2> QED BY <1>1, <1>2, <1>3, <2>1 DEF Types, RowsInv, Exists
<1>5. Follows(job[j].read, row[r])
  BY <1>1, <1>2 DEF ReadsInv, Reading
<1>6. /\ new \in RowStates /\ Sound(new) /\ new.status \in Statuses
      /\ new.writes = row[r].writes + 1
      /\ row[r].viewedAt # 0 => new.viewedAt # 0
      /\ row[r].readAt # 0 => new.readAt # 0
  BY <1>2, <1>3, <1>4, <1>5, ChangedRow
<1> HIDE DEF r, new
<1>7. /\ Types' /\ QueueInv' /\ WorkersInv' /\ ClockInv' /\ JobsInv' /\ AloneInv'
      /\ row'[r] = new /\ \A x \in Rows \ {r} : row'[x] = row[x]
      /\ job'[j].pc = "applied" /\ job'[j].kind = job[j].kind /\ job'[j].row = r
      /\ job'[j].runs = job[j].runs
      /\ \A k \in Jobs \ {j} : job'[k] = job[k]
  <2>1. made' \in [Rows -> Jobs \cup {NoJob}] /\ r = job[j].row
    BY <1>1, <1>2 DEF Types, r
  <2> QED BY <1>2, <1>3, <1>6, <2>1, CommitKeeps
<1>8. RowsInv'
  <2>1. ASSUME NEW x \in Rows PROVE Sound(row'[x]) /\ (made'[x] = NoJob => row'[x].status = "none")
    BY <1>1, <1>2, <1>4, <1>6, <1>7 DEF RowsInv
  <2>2. ASSUME NEW k \in Jobs, job'[k].kind # "create" PROVE made'[job'[k].row] # NoJob
    BY <1>1, <1>2, <1>4, <1>7, <2>2 DEF RowsInv
  <2> QED BY <2>1, <2>2 DEF RowsInv
<1>9. ReadsInv'
  <2> SUFFICES ASSUME NEW k \in Jobs, (Reading(k) /\ Exists(job[k].row))'
               PROVE  Follows(job[k].read, row[job[k].row])'
    BY DEF ReadsInv
  <2>1. k # j /\ job'[k] = job[k] /\ Reading(k)
    BY <1>7 DEF Reading
  <2>2. job[k].row \in Rows
    BY <1>1, <2>1 DEF JobsInv, Fits, Reading
  <2>3. CASE job[k].row = r
    <3>1. Follows(job[k].read, row[r])
      BY <1>1, <1>2, <2>1, <2>3 DEF ReadsInv
    <3>2. row[r].writes \in Nat /\ job[k].read.writes \in Nat
      BY <1>1, <1>4 DEF RowStates, Types, JobStates
    <3>3. Follows(job[k].read, new)
      BY <1>6, <3>1, <3>2 DEF Follows
    <3> QED BY <1>7, <2>1, <2>3, <3>3
  <2>4. CASE job[k].row # r
    <3>1. row'[job[k].row] = row[job[k].row] /\ Exists(job[k].row)
      BY <1>7, <2>1, <2>2, <2>4 DEF Exists
    <3> QED BY <1>1, <2>1, <3>1 DEF ReadsInv
  <2> QED BY <2>3, <2>4
<1>10. CreatedInv'
  BY <1>1, <1>2, <1>7, CreatedKept
<1> QED BY <1>7, <1>8, <1>9, <1>10 DEF IInv

LEMMA ApplyDeleteKeeps == ASSUME IInv, NEW j \in Jobs, ApplyDelete(j) PROVE IInv'
<1> DEFINE r == job[j].row
           new == [NoRow EXCEPT !.status = "deleted"]
<1>1. /\ Types /\ JobsInv /\ RowsInv /\ ReadsInv /\ CreatedInv
  BY DEF IInv
<1>2. /\ job[j].pc = "running" /\ job[j].kind = "delete" /\ Exists(r)
      /\ Applied(j, r, new, row[r]) /\ UNCHANGED <<made, crashes>>
  BY DEF ApplyDelete, Applied
<1>3. r \in Rows /\ row[r] \in RowStates
  BY <1>1, <1>2 DEF Types, JobsInv, Fits
<1>4. made[r] # NoJob
  BY <1>1, <1>2, <1>3 DEF RowsInv, Exists, Statuses, Asked, Given
<1>5. new \in RowStates /\ Sound(new) /\ new.status = "deleted"
  <2>1. 0 \in 0..MaxClock
    BY Finite
  <2> QED BY <2>1 DEF NoRow, RowStates, Sound, Seen, Finished
<1>6. /\ Types' /\ QueueInv' /\ WorkersInv' /\ ClockInv' /\ JobsInv' /\ AloneInv'
      /\ row'[r] = new /\ \A x \in Rows \ {r} : row'[x] = row[x]
      /\ job'[j].pc = "applied" /\ job'[j].kind = job[j].kind /\ job'[j].row = r
      /\ job'[j].runs = job[j].runs
      /\ \A k \in Jobs \ {j} : job'[k] = job[k]
  <2>1. made' \in [Rows -> Jobs \cup {NoJob}]
    BY <1>1, <1>2 DEF Types
  <2> QED BY <1>2, <1>3, <1>5, <2>1, CommitKeeps
<1> HIDE DEF r, new
<1>7. RowsInv'
  <2>1. ASSUME NEW x \in Rows PROVE Sound(row'[x]) /\ (made'[x] = NoJob => row'[x].status = "none")
    BY <1>1, <1>2, <1>4, <1>5, <1>6 DEF RowsInv
  <2>2. ASSUME NEW k \in Jobs, job'[k].kind # "create" PROVE made'[job'[k].row] # NoJob
    BY <1>1, <1>2, <1>4, <1>6, <2>2 DEF RowsInv
  <2> QED BY <2>1, <2>2 DEF RowsInv
<1>8. ReadsInv'
  <2> SUFFICES ASSUME NEW k \in Jobs, (Reading(k) /\ Exists(job[k].row))'
               PROVE  Follows(job[k].read, row[job[k].row])'
    BY DEF ReadsInv
  <2>1. k # j /\ job'[k] = job[k] /\ Reading(k)
    BY <1>6 DEF Reading
  <2>2. job[k].row \in Rows /\ job[k].row # r
    BY <1>1, <1>5, <1>6, <2>1 DEF JobsInv, Fits, Reading, Exists, Statuses, Asked, Given
  <2>3. row'[job[k].row] = row[job[k].row] /\ Exists(job[k].row)
    BY <1>6, <2>1, <2>2 DEF Exists
  <2> QED BY <1>1, <2>1, <2>3 DEF ReadsInv
<1>9. CreatedInv'
  BY <1>1, <1>2, <1>6, CreatedKept
<1> QED BY <1>6, <1>7, <1>8, <1>9 DEF IInv

-----------------------------------------------------------------------------
(* The invariant.                                                          *)

LEMMA StepInv == IInv /\ [Next]_vars => IInv'
<1> SUFFICES ASSUME IInv, [Next]_vars PROVE IInv'
  OBVIOUS
<1>0. \A s \in Given \cup Asked : s \in Statuses
  BY DEF Statuses
<1>1. ASSUME NEW j \in Jobs, CreateNotification(j) PROVE IInv'
  <2>1. PICK s \in Given : Add(j, "create", s, 0)
    BY <1>1 DEF CreateNotification
  <2> QED BY <1>0, <2>1, AddKeeps
<1>2. ASSUME NEW j \in Jobs, UpdateNotification(j) PROVE IInv'
  <2>1. PICK r \in Rows, s \in Asked : Exists(r) /\ Add(j, "update", s, r)
    BY <1>2 DEF UpdateNotification
  <2> QED BY <1>0, <2>1, AddKeeps
<1>3. ASSUME NEW j \in Jobs, DeleteNotification(j) PROVE IInv'
  <2>1. PICK r \in Rows : Exists(r) /\ Add(j, "delete", "Queued", r)
    BY <1>3 DEF DeleteNotification
  <2>2. "Queued" \in Statuses
    BY DEF Statuses, Given
  <2> QED BY <2>1, <2>2, AddKeeps
<1>4. ASSUME NEW j \in Jobs, Apply(j) PROVE IInv'
  BY <1>4, ApplyCreateKeeps, ApplyUpdateKeeps, ApplyDeleteKeeps DEF Apply
<1>5. CASE UNCHANGED vars
  <2>1. /\ Types' = Types /\ QueueInv' = QueueInv /\ WorkersInv' = WorkersInv /\ ClockInv' = ClockInv
    BY <1>5 DEF vars, Types, QueueInv, WorkersInv, ClockInv, Busy, Once, Twice
  <2>2. JobsInv' = JobsInv /\ RowsInv' = RowsInv /\ ReadsInv' = ReadsInv
    BY <1>5 DEF vars, JobsInv, RowsInv, ReadsInv, Reading, Exists
  <2>3. CreatedInv' = CreatedInv /\ AloneInv' = AloneInv
    BY <1>5 DEF vars, CreatedInv, Made, HasMade, AloneInv, Open, SettledRowShown
  <2> QED BY <2>1, <2>2, <2>3 DEF IInv
<1> QED BY <1>1, <1>2, <1>3, <1>4, <1>5, BeginKeeps, ThrowKeeps, CompleteKeeps, CompletedKeeps,
           RequeueKeeps, CrashKeeps DEF Next

LEMMA Invariance == Spec => []IInv
<1> QED BY InitInv, StepInv, PTL DEF Spec

\* The parts of the state keep their types, the queue holds each waiting job
\* once, and no more jobs run at once than there are workers.
THEOREM TypeCorrect == Spec => []TypeOK
<1>1. IInv => TypeOK
  <2>1. ClockInv => clock \in 0..MaxClock
    BY ClockBounded
  <2> QED BY <2>1 DEF IInv, Types, QueueInv, WorkersInv, TypeOK
<1> QED BY <1>1, Invariance, PTL

\* A row that counts as viewed or read says since when, however the jobs that
\* wrote it were interleaved, and whatever was run twice.
THEOREM SeenSince == Spec => []SeenHasMoment
<1>1. IInv => SeenHasMoment
  BY DEF IInv, RowsInv, Sound, SeenHasMoment
<1> QED BY <1>1, Invariance, PTL

\* Each create job that is done made one row, each that failed none, while the
\* process does not stop; a job never makes more than it was run.
THEOREM MadeOnce == Spec => []CreatedOnce
<1>1. IInv => CreatedOnce
  <2> SUFFICES ASSUME IInv, NEW j \in Jobs
               PROVE  /\ Cardinality(Made(j)) <= job[j].runs
                      /\ crashes = 0 /\ job[j].kind = "create" =>
                           /\ job[j].pc = "done" => Cardinality(Made(j)) = 1
                           /\ job[j].pc = "failed" => Made(j) = {}
    BY DEF CreatedOnce, Made
  <2> QED BY DEF IInv, CreatedInv, HasMade
<1> QED BY <1>1, Invariance, PTL

\* After a job that overlapped no other the client shows the row as it is.
THEOREM SettledShown == Spec => []SettledRowShown
<1>1. IInv => SettledRowShown
  BY DEF IInv, AloneInv, SettledRowShown
<1> QED BY <1>1, Invariance, PTL

-----------------------------------------------------------------------------
(* What a step does to a row.                                              *)

\* A row is rewritten by an update job, which had read it as it is or was
\* overlapped.
LEMMA RewrittenBy ==
  ASSUME IInv, [Next]_vars, NEW r \in Rows, Rewritten(r)
  PROVE  \/ \E j \in Jobs : /\ job[j].kind = "update" /\ job[j].status \in Asked
                            /\ job[j].read = row[r] /\ row'[r] = Changed(job[j], row[r])
         \/ Overlapped(r)
<1>1. /\ Types /\ JobsInv /\ RowsInv /\ ReadsInv
  BY DEF IInv
<1>2. row'[r] # row[r] /\ Exists(r) /\ row'[r].status # "deleted"
  BY DEF Rewritten
<1>3. PICK j \in Jobs : Apply(j)
  <2>1. ~UNCHANGED row
    BY <1>2
  <2> QED BY <2>1 DEF Next, vars, CreateNotification, UpdateNotification, DeleteNotification, Add,
                  Begin, Throw, Complete, OnQueueCompleted, Requeue, Crash
<1>4. ~ApplyCreate(j)
  <2> SUFFICES ASSUME ApplyCreate(j) PROVE FALSE
    OBVIOUS
  <2>1. PICK x \in Rows : made[x] = NoJob /\ row' = [row EXCEPT ![x] = Changed(job[j], NoRow)]
    BY DEF ApplyCreate, Applied
  <2>2. x = r
    BY <1>1, <1>2, <2>1 DEF Types
  <2> QED BY <1>1, <1>2, <2>1, <2>2 DEF RowsInv, Exists, Statuses, Asked, Given
<1>5. ~ApplyDelete(j)
  <2> SUFFICES ASSUME ApplyDelete(j) PROVE FALSE
    OBVIOUS
  <2>1. row' = [row EXCEPT ![job[j].row] = [NoRow EXCEPT !.status = "deleted"]]
    BY DEF ApplyDelete, Applied
  <2>2. row'[r] = [NoRow EXCEPT !.status = "deleted"]
    BY <1>1, <1>2, <2>1 DEF Types
  <2> QED BY <1>2, <2>2 DEF NoRow
<1>6. ApplyUpdate(j)
  BY <1>3, <1>4, <1>5 DEF Apply
<1>7. /\ job[j].pc = "running" /\ job[j].kind = "update"
      /\ row' = [row EXCEPT ![job[j].row] = Changed(job[j], row[job[j].row])]
  BY <1>6 DEF ApplyUpdate, Applied
<1>8. job[j].row = r
  BY <1>1, <1>2, <1>7 DEF Types
<1>9. row'[r] = Changed(job[j], row[r])
  BY <1>1, <1>7, <1>8 DEF Types
<1>10. job[j].status \in Asked
  BY <1>1, <1>7 DEF JobsInv, Fits
<1>11. Follows(job[j].read, row[r])
  BY <1>1, <1>2, <1>7, <1>8 DEF ReadsInv, Reading
<1>12. job'[j].pc = "applied"
  <2>1. job' = [job EXCEPT ![j] = [job[j] EXCEPT !.pc = "applied", !.row = job[j].row,
                                                 !.wrote = Changed(job[j], row[job[j].row])]]
    BY <1>1, <1>6 DEF ApplyUpdate, Applied, Types
  <2> QED BY <1>1, <2>1 DEF Types, JobStates
<1>13. row[r].writes \in Nat /\ job[j].read.writes \in Nat
  BY <1>1 DEF Types, JobStates, RowStates
<1>14. CASE job[j].read.writes < row[r].writes
  BY <1>7, <1>8, <1>12, <1>14 DEF Overlapped
<1>15. CASE ~(job[j].read.writes < row[r].writes)
  <2>1. job[j].read = row[r]
    BY <1>11, <1>13, <1>15 DEF Follows
  <2> QED BY <1>7, <1>9, <1>10, <2>1
<1> QED BY <1>14, <1>15

\* What has been seen stays seen, unless a job overwrites what it did not read.
THEOREM NotUndone == Spec => StatusNotUndone
<1>1. ASSUME IInv, [Next]_vars, NEW r \in Rows, Rewritten(r)
      PROVE  \/ /\ row[r].status \in Seen => row'[r].status \in Seen
                /\ row[r].status \in Finished => row'[r].status \in Finished
             \/ Overlapped(r)
  <2>1. ASSUME NEW j \in Jobs, job[j].kind = "update", job[j].status \in Asked,
               job[j].read = row[r], row'[r] = Changed(job[j], row[r])
        PROVE  /\ row[r].status \in Seen => row'[r].status \in Seen
               /\ row[r].status \in Finished => row'[r].status \in Finished
    <3>1. row'[r].status = NextStatus(row[r].status, job[j].status)
      BY <2>1 DEF Changed
    <3> QED BY <2>1, <3>1 DEF NextStatus, Asked, Seen, Finished
  <2> QED BY <1>1, <2>1, RewrittenBy
<1>2. IInv /\ [Next]_vars =>
        [\A r \in Rows : Rewritten(r) =>
           \/ /\ row[r].status \in Seen => row'[r].status \in Seen
              /\ row[r].status \in Finished => row'[r].status \in Finished
           \/ Overlapped(r)]_vars
  BY <1>1
<1> QED BY <1>2, Invariance, PTL DEF Spec, StatusNotUndone

\* The first moment stays, unless a job overwrites what it did not read.
THEOREM FirstMoment == Spec => FirstMomentKept
<1>1. ASSUME IInv, [Next]_vars, NEW r \in Rows, Rewritten(r)
      PROVE  \/ /\ row[r].viewedAt # 0 => row'[r].viewedAt = row[r].viewedAt
                /\ row[r].readAt # 0 => row'[r].readAt = row[r].readAt
             \/ Overlapped(r)
  <2>1. ASSUME NEW j \in Jobs, job[j].read = row[r], row'[r] = Changed(job[j], row[r])
        PROVE  /\ row[r].viewedAt # 0 => row'[r].viewedAt = row[r].viewedAt
               /\ row[r].readAt # 0 => row'[r].readAt = row[r].readAt
    BY <2>1 DEF Changed, Moment
  <2> QED BY <1>1, <2>1, RewrittenBy
<1>2. IInv /\ [Next]_vars =>
        [\A r \in Rows : Rewritten(r) =>
           \/ /\ row[r].viewedAt # 0 => row'[r].viewedAt = row[r].viewedAt
              /\ row[r].readAt # 0 => row'[r].readAt = row[r].readAt
           \/ Overlapped(r)]_vars
  BY <1>1
<1> QED BY <1>2, Invariance, PTL DEF Spec, FirstMomentKept

-----------------------------------------------------------------------------
(* The jobs as those of JobQueue.                                          *)

Cut == {k \in Jobs : job[k].pc = "stalled"}
Again == {k \in Jobs : Retried(k)}
Ended == {k \in Jobs : job[k].pc \in Over \cup {"completed"}}
Queues == <<queue, Busy, Cut, Again, Ended>>

\* Where a job is depends on its pc and its runs only.
LEMMA PlacesKept ==
  ASSUME \A k \in Jobs : job'[k].pc = job[k].pc /\ job'[k].runs = job[k].runs
  PROVE  Busy' = Busy /\ Cut' = Cut /\ Again' = Again /\ Ended' = Ended
<1>1. Busy' = Busy
  BY DEF Busy
<1>2. Cut' = Cut /\ Ended' = Ended
  BY DEF Cut, Ended
<1>3. Again' = Again
  BY DEF Again, Retried
<1> QED BY <1>1, <1>2, <1>3

\* When one job goes on, the others are where they were.
LEMMA PlacesOfOne ==
  ASSUME NEW j \in Jobs,
         \A k \in Jobs \ {j} : job'[k].pc = job[k].pc /\ job'[k].runs = job[k].runs
  PROVE  /\ Busy' = IF job'[j].pc \in {"running", "applied"} THEN Busy \cup {j} ELSE Busy \ {j}
         /\ Cut' = IF job'[j].pc = "stalled" THEN Cut \cup {j} ELSE Cut \ {j}
         /\ Again' = IF Retried(j)' THEN Again \cup {j} ELSE Again \ {j}
         /\ Ended' = IF job'[j].pc \in {"done", "failed", "completed"}
                     THEN Ended \cup {j} ELSE Ended \ {j}
<1>1. Busy' = IF job'[j].pc \in {"running", "applied"} THEN Busy \cup {j} ELSE Busy \ {j}
  BY DEF Busy
<1>2. Cut' = IF job'[j].pc = "stalled" THEN Cut \cup {j} ELSE Cut \ {j}
  BY DEF Cut
<1>3. Again' = IF Retried(j)' THEN Again \cup {j} ELSE Again \ {j}
  BY DEF Again, Retried
<1>4. Ended' = IF job'[j].pc \in {"done", "failed", "completed"}
               THEN Ended \cup {j} ELSE Ended \ {j}
  BY DEF Ended, Over
<1> QED BY <1>1, <1>2, <1>3, <1>4

LEMMA QueueStarts == Init => Abstract!Init
<1> SUFFICES ASSUME Init PROVE Abstract!Init
  OBVIOUS
<1>1. \A k \in Jobs : job[k].pc = "idle"
  BY DEF Init, IdleJob
<1>2. Busy = {} /\ Cut = {} /\ Again = {} /\ Ended = {}
  BY <1>1 DEF Busy, Cut, Again, Ended, Retried, Over
<1> QED BY <1>2 DEF Init, Abstract!Init, Cut, Again, Ended

LEMMA AddAdds ==
  ASSUME IInv, NEW j \in Jobs, NEW kind \in {"create", "update", "delete"},
         NEW s \in Statuses, NEW r \in Rows \cup {0}, Add(j, kind, s, r)
  PROVE  Abstract!Add(j)
<1>1. Types /\ QueueInv
  BY DEF IInv
<1>2. /\ job[j].pc = "idle" /\ queue' = Append(queue, j)
      /\ job' = [job EXCEPT ![j] = [IdleJob EXCEPT !.pc = "waiting", !.kind = kind,
                                                   !.status = s, !.row = r]]
  BY DEF Add
<1>3. /\ job'[j].pc = "waiting" /\ job'[j].runs = 0
      /\ \A k \in Jobs \ {j} : job'[k] = job[k]
  BY <1>1, <1>2 DEF Types, IdleJob
<1>4. j \notin Busy \cup Cut \cup Again \cup Ended
  BY <1>2 DEF Busy, Cut, Again, Ended, Retried, Over
<1>5. Busy' = Busy /\ Cut' = Cut /\ Again' = Again /\ Ended' = Ended
  <2>1. /\ Busy' = Busy \ {j} /\ Cut' = Cut \ {j}
        /\ Again' = Again \ {j} /\ Ended' = Ended \ {j}
    <3>1. ~Retried(j)'
      BY <1>3 DEF Retried
    <3> QED BY <1>3, <3>1, PlacesOfOne
  <2> QED BY <1>4, <2>1
<1>6. ~Abstract!Waiting(j)
  BY <1>1, <1>2 DEF QueueInv, Abstract!Waiting
<1> QED BY <1>2, <1>4, <1>5, <1>6 DEF Abstract!Add, Cut, Again, Ended

LEMMA BeginTakes == ASSUME IInv, NEW j \in Jobs, Begin(j) PROVE Abstract!Take
<1>1. Types /\ QueueInv /\ JobsInv
  BY DEF IInv
<1>2. job[j].pc = "waiting" /\ Head(queue) = j /\ queue' = Tail(queue) /\ job' = Started(j)
  BY DEF Begin
<1>3. job[j].runs \in 0..1
  BY <1>1, <1>2 DEF JobsInv, Fits, Types, JobStates
<1>4. /\ job'[j].pc = "running" /\ job'[j].runs = job[j].runs + 1
      /\ \A k \in Jobs \ {j} : job'[k].pc = job[k].pc /\ job'[k].runs = job[k].runs
  BY <1>1, <1>2 DEF Types, Started, JobStates
<1>5. j \notin Cut \cup Ended
  BY <1>2 DEF Cut, Ended, Over
<1>6. Retried(j)' <=> Retried(j)
  BY <1>2, <1>3, <1>4 DEF Retried
<1>7. Busy' = Busy \cup {j} /\ Cut' = Cut /\ Ended' = Ended
  <2>1. Busy' = Busy \cup {j} /\ Cut' = Cut \ {j} /\ Ended' = Ended \ {j}
    BY <1>4, PlacesOfOne
  <2> QED BY <1>5, <2>1
<1>8. Again' = Again
  BY <1>4, <1>6, PlacesOfOne DEF Again
<1>9. queue # <<>>
  BY <1>1, <1>2 DEF QueueInv
<1> QED BY <1>2, <1>7, <1>8, <1>9 DEF Abstract!Take, Cut, Again, Ended

\* A job that fails or is marked completed.
LEMMA EndEnds ==
  ASSUME IInv, NEW j \in Jobs, NEW pc \in {"completed", "failed"},
         job[j].pc \in {"running", "applied"}, job' = [job EXCEPT ![j].pc = pc], queue' = queue
  PROVE  Abstract!End(j)
<1>1. Types
  BY DEF IInv
<1>2. /\ job'[j].pc = pc /\ \A k \in Jobs \ {j} : job'[k] = job[k]
  BY <1>1, OnePc
<1>3. j \in Busy /\ j \notin Cut
  BY DEF Busy, Cut
<1>4. ~Retried(j)'
  BY <1>2 DEF Retried
<1>5. Busy' = Busy \ {j} /\ Cut' = Cut /\ Again' = Again \ {j} /\ Ended' = Ended \cup {j}
  BY <1>2, <1>3, <1>4, PlacesOfOne
<1> QED BY <1>3, <1>5 DEF Abstract!End, Cut, Again, Ended

\* A job that is stalled is put back once.
LEMMA RequeueRetries ==
  ASSUME IInv, NEW j \in Jobs, Requeue(j)
  PROVE  Abstract!Retry(j) \/ Abstract!GiveUp(j)
<1>1. Types /\ JobsInv
  BY DEF IInv
<1>2. job[j].pc = "stalled" /\ job[j].runs \in 1..2
  BY <1>1 DEF Requeue, JobsInv, Fits, Types, JobStates
<1>3. j \in Cut /\ j \notin Busy \cup Ended
  BY <1>2 DEF Cut, Busy, Ended, Over
<1>4. CASE job[j].runs < 2
  <2>1. queue' = <<j>> \o queue /\ job' = [job EXCEPT ![j].pc = "waiting"]
    BY <1>4 DEF Requeue
  <2>2. /\ job'[j].pc = "waiting" /\ job'[j].runs = 1
        /\ \A k \in Jobs \ {j} : job'[k] = job[k]
    BY <1>1, <1>2, <1>4, <2>1 DEF Types, JobStates
  <2>3. ~Retried(j) /\ Retried(j)'
    BY <1>2, <1>4, <2>2 DEF Retried
  <2>4. Busy' = Busy /\ Cut' = Cut \ {j} /\ Again' = Again \cup {j} /\ Ended' = Ended
    BY <1>3, <2>2, <2>3, PlacesOfOne
  <2>5. j \notin Again
    BY <2>3 DEF Again
  <2> QED BY <1>3, <2>1, <2>4, <2>5 DEF Abstract!Retry, Cut, Again, Ended
<1>5. CASE ~(job[j].runs < 2)
  <2>1. queue' = queue /\ job' = [job EXCEPT ![j].pc = "failed"]
    BY <1>5 DEF Requeue
  <2>2. job'[j].pc = "failed" /\ \A k \in Jobs \ {j} : job'[k] = job[k]
    BY <1>1, <2>1, OnePc
  <2>3. Retried(j) /\ ~Retried(j)'
    BY <1>2, <1>5, <2>2 DEF Retried
  <2>4. Busy' = Busy /\ Cut' = Cut \ {j} /\ Again' = Again \ {j} /\ Ended' = Ended \cup {j}
    BY <1>3, <2>2, <2>3, PlacesOfOne
  <2>5. j \in Again
    BY <2>3 DEF Again
  <2> QED BY <1>3, <2>1, <2>4, <2>5 DEF Abstract!GiveUp, Cut, Again, Ended
<1> QED BY <1>4, <1>5

LEMMA CrashStops == ASSUME IInv, Crash PROVE Abstract!Stop
<1>1. Types /\ JobsInv
  BY DEF IInv
<1>2. /\ queue' = queue
      /\ job' = [k \in Jobs |-> CASE k \in Busy -> [job[k] EXCEPT !.pc = "stalled"]
                               [] job[k].pc = "completed" -> [job[k] EXCEPT !.pc = "done"]
                               [] OTHER -> job[k]]
  BY DEF Crash
<1>3. ASSUME NEW k \in Jobs
      PROVE  /\ job'[k].runs = job[k].runs
             /\ job'[k].pc = IF k \in Busy THEN "stalled"
                             ELSE IF job[k].pc = "completed" THEN "done" ELSE job[k].pc
  <2>1. job[k] \in JobStates
    BY <1>1 DEF Types
  <2>2. job'[k] = CASE k \in Busy -> [job[k] EXCEPT !.pc = "stalled"]
                    [] job[k].pc = "completed" -> [job[k] EXCEPT !.pc = "done"]
                    [] OTHER -> job[k]
    BY <1>2
  <2>3. CASE k \in Busy
    BY <2>1, <2>2, <2>3 DEF Busy, JobStates
  <2>4. CASE k \notin Busy /\ job[k].pc = "completed"
    BY <2>1, <2>2, <2>4 DEF JobStates
  <2>5. CASE k \notin Busy /\ job[k].pc # "completed"
    BY <2>2, <2>5
  <2> QED BY <2>3, <2>4, <2>5
<1>4. Busy' = {}
  BY <1>3 DEF Busy
<1>5. Cut' = Cut \cup Busy
  BY <1>3 DEF Busy, Cut
<1>6. Ended' = Ended
  BY <1>3 DEF Busy, Ended, Over
<1>7. Again' = Again
  BY <1>3 DEF Busy, Again, Retried
<1> QED BY <1>2, <1>4, <1>5, <1>6, <1>7 DEF Abstract!Stop, Cut, Again, Ended

LEMMA QueueSteps == IInv /\ [Next]_vars => [Abstract!Next]_Queues
<1> SUFFICES ASSUME IInv, [Next]_vars PROVE [Abstract!Next]_Queues
  OBVIOUS
<1>1. Types /\ (\A s \in Given \cup Asked : s \in Statuses)
  BY DEF IInv, Statuses
<1>2. ASSUME NEW j \in Jobs,
             CreateNotification(j) \/ UpdateNotification(j) \/ DeleteNotification(j)
      PROVE  Abstract!Add(j)
  <2>1. PICK kind \in {"create", "update", "delete"}, s \in Statuses, r \in Rows \cup {0} :
          Add(j, kind, s, r)
    BY <1>1, <1>2 DEF CreateNotification, UpdateNotification, DeleteNotification, Given
  <2> QED BY <2>1, AddAdds
<1>3. ASSUME NEW j \in Jobs, Throw(j) \/ Complete(j) PROVE Abstract!End(j)
  BY <1>3, EndEnds DEF Throw, Complete
<1>4. ASSUME NEW j \in Jobs, Apply(j) PROVE UNCHANGED Queues
  <2>1. PICK r, t : /\ job[j].pc = "running" /\ queue' = queue
                    /\ job' = [job EXCEPT ![j].pc = "applied", ![j].row = r, ![j].wrote = t]
    BY <1>4 DEF Apply, ApplyCreate, ApplyUpdate, ApplyDelete, Applied
  <2>2. /\ job'[j].pc = "applied" /\ job'[j].runs = job[j].runs
        /\ \A k \in Jobs \ {j} : job'[k] = job[k]
    BY <1>1, <2>1 DEF Types, JobStates
  <2>3. j \in Busy /\ j \notin Cut \cup Ended /\ (Retried(j)' <=> Retried(j))
    BY <2>1, <2>2 DEF Busy, Cut, Ended, Retried, Over
  <2>4. Busy' = Busy /\ Cut' = Cut /\ Ended' = Ended
    <3>1. Busy' = Busy \cup {j} /\ Cut' = Cut \ {j} /\ Ended' = Ended \ {j}
      BY <2>2, PlacesOfOne
    <3> QED BY <2>3, <3>1
  <2>5. Again' = Again
    BY <2>2, <2>3, PlacesOfOne DEF Again
  <2> QED BY <2>1, <2>4, <2>5 DEF Queues
<1>5. ASSUME NEW j \in Jobs, OnQueueCompleted(j) PROVE UNCHANGED Queues
  <2>1. /\ job[j].pc = "completed" /\ job' = [job EXCEPT ![j].pc = "done"] /\ queue' = queue
    BY <1>5 DEF OnQueueCompleted
  <2>2. /\ job'[j].pc = "done" /\ \A k \in Jobs \ {j} : job'[k] = job[k]
    BY <1>1, <2>1, OnePc
  <2>3. j \notin Busy \cup Cut \cup Again /\ j \in Ended /\ ~Retried(j)'
    BY <2>1, <2>2 DEF Busy, Cut, Again, Ended, Retried
  <2>4. Busy' = Busy /\ Cut' = Cut /\ Again' = Again /\ Ended' = Ended
    <3>1. /\ Busy' = Busy \ {j} /\ Cut' = Cut \ {j}
          /\ Again' = Again \ {j} /\ Ended' = Ended \cup {j}
      BY <2>2, <2>3, PlacesOfOne
    <3> QED BY <2>3, <3>1
  <2> QED BY <2>1, <2>4 DEF Queues
<1>6. CASE UNCHANGED vars
  BY <1>6, PlacesKept DEF vars, Queues
<1> QED BY <1>2, <1>3, <1>4, <1>5, <1>6, BeginTakes, RequeueRetries, CrashStops
     DEF Next, Abstract!Next

\* Notifications implements JobQueue: whatever stops, and however the jobs
\* interleave, none is lost, none runs twice at once, and none again once it ended.
THEOREM QueueImplemented == Spec => ImplementsQueue
<1>1. IInv /\ [Next]_vars => [Abstract!Next]_(Abstract!vars)
  BY QueueSteps DEF Abstract!vars, Queues, Cut, Again, Ended
<1> QED BY <1>1, QueueStarts, Invariance, PTL DEF Spec, ImplementsQueue, Abstract!Spec
=============================================================================
