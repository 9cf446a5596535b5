---------------------------- MODULE Notifications ----------------------------
(***************************************************************************)
(* Notifications: the gateways put jobs on a queue, NotificationsConsumer  *)
(* takes them, changes a row in a transaction, and tells the client when   *)
(* the queue has marked the job completed.  The concurrency of the         *)
(* processors of one queue adds up: with three of them three jobs run at   *)
(* once, of any name.  A job whose process stopped runs once more.         *)
(*                                                                         *)
(* All rows are one user's, whose client is connected.  The queue is Bull, *)
(* which is external.  Left out: that a job loses its lock while its       *)
(* process lives, what a notification refers to, its text.                 *)
(***************************************************************************)
EXTENDS Integers, Sequences, FiniteSets

CONSTANTS
  MaxJob,    \* bound: jobs put on the queue
  Workers,   \* jobs the process runs at once
  MaxRow,    \* bound: rows created
  MaxCrash   \* bound: stops of the process

ASSUME ParameterAssumption ==
  /\ MaxJob \in Nat \ {0} /\ Workers \in Nat \ {0}
  /\ MaxRow \in Nat \ {0} /\ MaxCrash \in Nat

Jobs == 1..MaxJob   \* numbered as they are added
NoJob == 0

Asked == {"Delivered", "Viewed", "Read", "Archived"}   \* UpdateNotificationDto
Given == {"Queued", "Sent", "Viewed"}                  \* prepareMessageNotifications
Statuses == Asked \cup Given
Seen == {"Viewed", "Read", "Archived"}
Finished == {"Read", "Archived"}

Rows == 1..MaxRow
Over == {"done", "failed"}

VARIABLES
  queue,   \* waiting jobs, first come first served
  job,     \* per job
  row,     \* the notifications table
  made,    \* history: per row the job that created it
  shown,   \* per row, what the client was last told
  clock,   \* new Date(): one tick for each job that starts
  crashes,
  settled  \* history: the last job to end, if it overlapped no other and none began since

vars == <<queue, job, row, made, shown, clock, crashes, settled>>

MaxClock == 2 * Cardinality(Jobs)   \* a job starts at most twice

\* writes: history, how often the row was written
RowStates == [status : Statuses \cup {"none", "deleted"}, viewedAt : 0..MaxClock,
              readAt : 0..MaxClock, writes : Nat]
NoRow == [status |-> "none", viewedAt |-> 0, readAt |-> 0, writes |-> 0]
Exists(r) == row[r].status \in Statuses

\* read: the row as its transaction read it; wrote: the row the job wrote;
\* at: its moment; runs: how often it started; alone: nothing else ran since.
JobStates == [pc : {"idle", "waiting", "running", "applied", "completed", "stalled"} \cup Over,
              kind : {"create", "update", "delete"}, status : Statuses, row : Rows \cup {0},
              read : RowStates, wrote : RowStates, at : 0..MaxClock, runs : 0..2, alone : BOOLEAN]
IdleJob == [pc |-> "idle", kind |-> "create", status |-> "Queued", row |-> 0, read |-> NoRow,
            wrote |-> NoRow, at |-> 0, runs |-> 0, alone |-> FALSE]

Init ==
  /\ queue = <<>> /\ job = [j \in Jobs |-> IdleJob]
  /\ row = [r \in Rows |-> NoRow] /\ made = [r \in Rows |-> NoJob]
  /\ shown = [r \in Rows |-> NoRow]
  /\ clock = 0 /\ crashes = 0 /\ settled = NoJob

Busy == {j \in Jobs : job[j].pc \in {"running", "applied"}}
Open == {j \in Jobs : job[j].pc \in {"running", "applied", "completed", "stalled"}}

-----------------------------------------------------------------------------
(* The gateways.                                                           *)

Add(j, kind, status, r) ==
  /\ job[j].pc = "idle" /\ \A k \in 1..(j - 1) : job[k].pc # "idle"
  /\ queue' = Append(queue, j)
  /\ job' = [job EXCEPT ![j] = [IdleJob EXCEPT !.pc = "waiting", !.kind = kind,
                                               !.status = status, !.row = r]]
  /\ UNCHANGED <<row, made, shown, clock, crashes, settled>>

\* For a member of the room: queued if offline, viewed if the writer.
CreateNotification(j) == \E s \in Given : Add(j, "create", s, 0)

\* From a client that lists the row.
UpdateNotification(j) == \E r \in Rows, s \in Asked : Exists(r) /\ Add(j, "update", s, r)
DeleteNotification(j) == \E r \in Rows : Exists(r) /\ Add(j, "delete", "Queued", r)

-----------------------------------------------------------------------------
(* The consumer.                                                           *)

\* A free worker takes the first job; its transaction reads the row.
Started(j) ==
  [k \in Jobs |->
     CASE k = j -> [job[j] EXCEPT !.pc = "running", !.at = clock + 1, !.runs = @ + 1,
                      !.read = IF job[j].kind = "create" THEN NoRow ELSE row[job[j].row],
                      !.alone = Open \ {j} = {}]
       [] k # j -> [job[k] EXCEPT !.alone = FALSE]]

Begin(j) ==
  /\ job[j].pc = "waiting" /\ Head(queue) = j
  /\ Cardinality(Busy) < Workers
  /\ queue' = Tail(queue)
  /\ job' = Started(j)
  /\ clock' = clock + 1 /\ settled' = NoJob
  /\ UNCHANGED <<row, made, shown, crashes>>

\* Mutant: the status asked for, whatever the row has.
StatusAsked(current, asked) == asked

\* Delivered does not undo Viewed, nor Viewed Read.
NextStatus(current, asked) ==
  IF \/ asked = "Delivered" /\ current \notin {"Queued", "Sent"}
     \/ asked = "Viewed" /\ current \in Finished
  THEN current ELSE asked

\* Mutant: viewedAt comes with Viewed, readAt with Read.
MomentOfStatus(asked, read, current, now, when) ==
  IF read = 0 /\ asked = (IF when = Seen THEN "Viewed" ELSE "Read") THEN now ELSE current

\* Mutant: each time it is asked for.
MomentAlways(asked, read, current, now, when) == IF asked \in when THEN now ELSE current

\* viewedAt, readAt: set to now if the job asks for such a status and read none;
\* undefined otherwise, which leaves the row as it is now.
Moment(asked, read, current, now, when) ==
  IF asked \in when /\ read = 0 THEN now ELSE current

Changed(h, current) ==
  [status |-> IF h.kind = "create" THEN h.status ELSE NextStatus(h.read.status, h.status),
   viewedAt |-> Moment(h.status, h.read.viewedAt, current.viewedAt, h.at, Seen),
   readAt |-> Moment(h.status, h.read.readAt, current.readAt, h.at, Finished),
   writes |-> current.writes + 1]

\* The job's transaction commits.
Applied(j, r, new, result) ==
  /\ row' = [row EXCEPT ![r] = new]
  /\ job' = [job EXCEPT ![j].pc = "applied", ![j].row = r, ![j].wrote = result]
  /\ UNCHANGED <<queue, shown, clock, crashes, settled>>

ApplyCreate(j) ==
  /\ job[j].pc = "running" /\ job[j].kind = "create"
  /\ \E r \in Rows :
       /\ made[r] = NoJob /\ \A s \in 1..(r - 1) : made[s] # NoJob
       /\ made' = [made EXCEPT ![r] = j]
       /\ Applied(j, r, Changed(job[j], NoRow), Changed(job[j], NoRow))

ApplyUpdate(j) ==
  LET r == job[j].row IN
  /\ job[j].pc = "running" /\ job[j].kind = "update"
  /\ job[j].read.status \in Statuses /\ Exists(r)
  /\ Applied(j, r, Changed(job[j], row[r]), Changed(job[j], row[r]))
  /\ UNCHANGED made

\* It returns the row it deleted.
ApplyDelete(j) ==
  LET r == job[j].row IN
  /\ job[j].pc = "running" /\ job[j].kind = "delete"
  /\ job[j].read.status \in Statuses /\ Exists(r)
  /\ Applied(j, r, [NoRow EXCEPT !.status = "deleted"], row[r])
  /\ UNCHANGED made

Apply(j) == ApplyCreate(j) \/ ApplyUpdate(j) \/ ApplyDelete(j)

\* Mutant: what it wrote stays when it fails.
ThrowLate(j) ==
  /\ job[j].pc \in {"running", "applied"}
  /\ job' = [job EXCEPT ![j].pc = "failed"]
  /\ UNCHANGED <<queue, row, made, shown, clock, crashes, settled>>

\* The row is gone or somebody else's, the reference is, or the database
\* refuses: the transaction changes nothing, and there is no second attempt.
Throw(j) ==
  /\ job[j].pc = "running"
  /\ job' = [job EXCEPT ![j].pc = "failed"]
  /\ UNCHANGED <<queue, row, made, shown, clock, crashes, settled>>

\* The queue marks it completed; from here on it is not run again.
Complete(j) ==
  /\ job[j].pc = "applied"
  /\ job' = [job EXCEPT ![j].pc = "completed"]
  /\ UNCHANGED <<queue, row, made, shown, clock, crashes, settled>>

\* Mutant: the client is sent the row as the job found it.
OnQueueCompletedRead(j) ==
  LET h == job[j] IN
  /\ h.pc = "completed"
  /\ shown' = IF h.wrote.status = "Queued" THEN shown ELSE [shown EXCEPT ![h.row] = h.read]
  /\ settled' = IF h.alone THEN j ELSE NoJob
  /\ job' = [job EXCEPT ![j].pc = "done"]
  /\ UNCHANGED <<queue, row, made, clock, crashes>>

\* What the job returned goes to the client, unless that is still queued.
OnQueueCompleted(j) ==
  LET h == job[j] IN
  /\ h.pc = "completed"
  /\ shown' = IF h.wrote.status = "Queued" THEN shown
              ELSE [shown EXCEPT ![h.row] = IF h.kind = "delete"
                                            THEN [NoRow EXCEPT !.status = "deleted"] ELSE h.wrote]
  /\ settled' = IF h.alone THEN j ELSE NoJob
  /\ job' = [job EXCEPT ![j].pc = "done"]
  /\ UNCHANGED <<queue, row, made, clock, crashes>>

\* Mutant: what is completed but not announced is stalled too.
CrashUnannounced ==
  /\ crashes < MaxCrash /\ Open # {}
  /\ crashes' = crashes + 1
  /\ job' = [j \in Jobs |-> IF j \in Open THEN [job[j] EXCEPT !.pc = "stalled"] ELSE job[j]]
  /\ UNCHANGED <<queue, row, made, shown, clock, settled>>

\* The process stops, also when onQueueCompleted fails, whose error nobody
\* catches, and starts again: it has forgotten what it ran, and what was completed
\* is not announced.
Crash ==
  /\ crashes < MaxCrash /\ Open # {}
  /\ crashes' = crashes + 1
  /\ job' = [j \in Jobs |-> CASE j \in Busy -> [job[j] EXCEPT !.pc = "stalled"]
                             [] job[j].pc = "completed" -> [job[j] EXCEPT !.pc = "done"]
                             [] OTHER -> job[j]]
  /\ UNCHANGED <<queue, row, made, shown, clock, settled>>

\* Mutant: a job is stalled for good.
RequeueUnstarted(j) ==
  /\ job[j].pc = "stalled" /\ job[j].runs = 0
  /\ queue' = <<j>> \o queue /\ job' = [job EXCEPT ![j].pc = "waiting"]
  /\ UNCHANGED <<row, made, shown, clock, crashes, settled>>

\* The queue finds a job whose lock ran out: it is next, but only once.
Requeue(j) ==
  /\ job[j].pc = "stalled"
  /\ IF job[j].runs < 2
     THEN queue' = <<j>> \o queue /\ job' = [job EXCEPT ![j].pc = "waiting"]
     ELSE job' = [job EXCEPT ![j].pc = "failed"] /\ UNCHANGED queue
  /\ UNCHANGED <<row, made, shown, clock, crashes, settled>>

Next ==
  \/ \E j \in Jobs : \/ CreateNotification(j) \/ UpdateNotification(j) \/ DeleteNotification(j)
                     \/ Begin(j) \/ Apply(j) \/ Throw(j) \/ Complete(j) \/ OnQueueCompleted(j)
                     \/ Requeue(j)
  \/ Crash

Spec == Init /\ [][Next]_vars

\* Workers go on taking jobs, promises settle, the queue looks for stalled jobs.
Progress == \E j \in Jobs : \/ Begin(j) \/ Apply(j) \/ Throw(j) \/ Complete(j)
                             \/ OnQueueCompleted(j) \/ Requeue(j)
FairSpec == Spec /\ WF_vars(Progress)

-----------------------------------------------------------------------------
(* Properties.                                                             *)

\* Rows and jobs keep their types; the queue holds each waiting job once.
TypeOK ==
  /\ job \in [Jobs -> JobStates] /\ row \in [Rows -> RowStates] /\ shown \in [Rows -> RowStates]
  /\ made \in [Rows -> Jobs \cup {NoJob}] /\ settled \in Jobs \cup {NoJob}
  /\ clock \in 0..MaxClock /\ crashes \in 0..MaxCrash
  /\ Cardinality(Busy) <= Workers
  /\ \A j \in Jobs : (job[j].pc = "waiting") <=> (\E i \in DOMAIN queue : queue[i] = j)
  /\ \A i, k \in DOMAIN queue : queue[i] = queue[k] => i = k

\* A row that counts as viewed has a viewedAt, a read one a readAt as well, even
\* if two jobs read it before either wrote.
SeenHasMoment ==
  \A r \in Rows : /\ row[r].status \in Seen => row[r].viewedAt # 0
                  /\ row[r].status \in Finished => row[r].readAt # 0
                  /\ row[r].readAt # 0 => row[r].viewedAt # 0

\* A job that wrote r although another wrote it since the job read it.
Overlapped(r) ==
  \E j \in Jobs : /\ job[j].pc = "running" /\ job'[j].pc = "applied" /\ job[j].row = r
                  /\ job[j].read.writes < row[r].writes

Rewritten(r) == Exists(r) /\ row'[r] # row[r] /\ row'[r].status # "deleted"

\* Viewed is not undone, nor is Read or Archived, except by a job that read the
\* row before that.
StatusNotUndone ==
  [][\A r \in Rows : Rewritten(r) =>
       \/ /\ row[r].status \in Seen => row'[r].status \in Seen
          /\ row[r].status \in Finished => row'[r].status \in Finished
       \/ Overlapped(r)]_vars

\* viewedAt and readAt are the first time, except for a job that read the row
\* before that.
FirstMomentKept ==
  [][\A r \in Rows : Rewritten(r) =>
       \/ /\ row[r].viewedAt # 0 => row'[r].viewedAt = row[r].viewedAt
          /\ row[r].readAt # 0 => row'[r].readAt = row[r].readAt
       \/ Overlapped(r)]_vars

\* As long as the process does not stop, a create job that is done made one row
\* and one that failed none; if it does, a job makes at most one each time it runs.
CreatedOnce ==
  \A j \in Jobs : LET rows == {r \in Rows : made[r] = j} IN
    /\ Cardinality(rows) <= job[j].runs
    /\ crashes = 0 /\ job[j].kind = "create" =>
         /\ job[j].pc = "done" => Cardinality(rows) = 1
         /\ job[j].pc = "failed" => rows = {}

\* After a job that overlapped no other the client has the row as it is, unless
\* the job created or deleted one that was queued.
SettledRowShown ==
  settled # NoJob => LET h == job[settled] IN
    \/ h.wrote.status = "Queued"
    \/ shown[h.row] = row[h.row]

\* A job that was cut off and put back, and has not ended since.
Retried(j) ==
  \/ job[j].pc = "waiting" /\ job[j].runs = 1
  \/ job[j].pc \in {"running", "applied", "stalled"} /\ job[j].runs = 2

\* The jobs are those of the abstract queue: one ends when it is marked completed,
\* before the client is told, or when it fails; stops and retries do not lose one,
\* nor run one that has ended.
Abstract == INSTANCE JobQueue WITH
  waiting <- queue, running <- Busy, cut <- {j \in Jobs : job[j].pc = "stalled"},
  again <- {j \in Jobs : Retried(j)},
  ended <- {j \in Jobs : job[j].pc \in Over \cup {"completed"}}
ImplementsQueue == Abstract!Spec

\* What waits in the queue ends, whatever the process does: a time comes when
\* no job is waiting, under way or stalled.
JobsEnd == (\E j \in Jobs : job[j].pc = "waiting") ~>
             (\A j \in Jobs : job[j].pc \in Over \cup {"idle"})
=============================================================================
