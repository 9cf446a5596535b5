------------------------------- MODULE Images -------------------------------
(***************************************************************************)
(* One image, the photo or the cover of a room or of a user: a path in its *)
(* row, a file at Dropbox, and a link to it in the process's own cache.    *)
(* The images of a room are changed by jobs of a queue (RoomsConsumer),    *)
(* those of a user by the request itself (AuthService).  A file is called  *)
(* after the image and its type, so that a new image of the same type      *)
(* overwrites the old one.                                                 *)
(*                                                                         *)
(* The queue is Bull, whose workers take any job, and Dropbox is external. *)
(* Left out: the theme a job may write along with the path, the event sent *)
(* on completion, and the contents of the files.                           *)
(***************************************************************************)
EXTENDS Integers, Sequences

CONSTANTS
  Paths,      \* what the image may be called
  Jobs,       \* requests to change it
  Getters,    \* requests for a link
  None,       \* null
  CacheTime,  \* how long a link is cached
  Latency,    \* bound: how long a request for a link takes
  MaxTime,    \* bound: the clock
  MaxCrash    \* bound: stops of the process

ASSUME ImageAssumption ==
  /\ None # "gone" /\ {None, "gone"} \cap Paths = {}
  /\ CacheTime \in Nat \ {0} /\ Latency \in Nat /\ MaxTime \in Nat /\ MaxCrash \in Nat

VARIABLES
  owner,   \* whose image it is
  row,     \* its path; "gone" when the owner is
  files,   \* files at Dropbox
  queue,   \* jobs that wait
  job,     \* per job
  cache,   \* the cached link
  getter,  \* per getter, the path it read and when
  left,    \* history: per path, when the row last had it
  clean,   \* history: no removal has overlapped another change, and none was cut
           \* off or failed with its file deleted, since the last change that was
           \* made alone
  now, crashes

imageVars == <<owner, row, files, queue, job, cache, getter, left, clean, now, crashes>>
clock == <<left, now>>

\* crossed: history, a change was under way while the link was fetched, or the
\* image was removed since.
NoLink == [path |-> None, until |-> 0, crossed |-> FALSE]
NoGetter == [path |-> None, since |-> 0, crossed |-> FALSE]
\* snap: the path of the room as a delete job was given it; temp: the uploaded file
\* is there; alone: nothing else ran since it began.
NoJob == [pc |-> "idle", kind |-> "update", path |-> None, snap |-> None,
          temp |-> FALSE, runs |-> 0, alone |-> FALSE]

InitImage ==
  /\ owner \in {"room", "user"}
  /\ row = None /\ files = {}
  /\ queue = <<>> /\ job = [j \in Jobs |-> NoJob]
  /\ cache = NoLink /\ getter = [g \in Getters |-> NoGetter]
  /\ left = [p \in Paths |-> 0]
  /\ clean = TRUE /\ now = 0 /\ crashes = 0

Running == {"upload", "del", "unlink", "update", "remove", "clear", "applied"}
Open == {j \in Jobs : job[j].pc \in Running \cup {"stalled"}}

Removals == {j \in Open : job[j].kind = "delete"}

\* A job begins; what is fetched meanwhile is fetched across it.
Started(j, h) ==
  /\ job' = [k \in Jobs |-> IF k = j THEN [h EXCEPT !.runs = @ + 1, !.alone = Open \ {j} = {}]
                            ELSE [job[k] EXCEPT !.alone = FALSE]]
  /\ getter' = [g \in Getters |-> [getter[g] EXCEPT !.crossed = (getter[g].path # None)]]
  /\ clean' = (clean /\ \/ Open \ {j} = {}
                        \/ h.kind = "update" /\ Removals = {})

Goto(j, pc) == job' = [job EXCEPT ![j].pc = pc]

\* The row gets the path p, and its old one is left.
SetRow(p) ==
  /\ row' = p
  /\ left' = [q \in Paths |-> IF q = row /\ q # p THEN now ELSE left[q]]

-----------------------------------------------------------------------------
(* Requests for a change.                                                  *)

\* AuthService.updateImage: the request itself does it.
UpdateUserImage(j, p) ==
  /\ owner = "user" /\ row # "gone" /\ job[j].pc = "idle"
  /\ Started(j, [NoJob EXCEPT !.pc = "upload", !.path = p, !.temp = TRUE])
  /\ UNCHANGED <<owner, row, files, queue, cache, clock, crashes>>

\* RoomsService.updateImage and deleteImage read the room and add a job.
Add(j, h) ==
  /\ owner = "room" /\ row # "gone" /\ job[j].pc = "idle"
  /\ queue' = Append(queue, j)
  /\ job' = [job EXCEPT ![j] = [h EXCEPT !.pc = "waiting"]]
  /\ UNCHANGED <<owner, row, files, cache, getter, clean, clock, crashes>>

UpdateRoomImage(j, p) == Add(j, [NoJob EXCEPT !.path = p, !.temp = TRUE])
DeleteRoomImage(j) == row # "gone" /\ Add(j, [NoJob EXCEPT !.kind = "delete", !.snap = row])

\* A worker takes the first job.
Begin(j) ==
  /\ queue # <<>> /\ Head(queue) = j
  /\ queue' = Tail(queue)
  /\ Started(j, [job[j] EXCEPT !.pc = IF job[j].kind = "update" THEN "upload" ELSE "remove"])
  /\ UNCHANGED <<owner, row, files, cache, clock, crashes>>

-----------------------------------------------------------------------------
(* updateImage, of the consumer and of AuthService.                        *)

\* fileUpload reads the temporary file.
Upload(j) ==
  /\ job[j].pc = "upload" /\ job[j].temp
  /\ files' = files \cup {job[j].path}
  /\ Goto(j, "del")
  /\ UNCHANGED <<owner, row, queue, cache, getter, clean, clock, crashes>>

\* Mutant: the link stays.
DelForgotten(j) ==
  /\ job[j].pc = "del"
  /\ Goto(j, IF owner = "room" THEN "unlink" ELSE "update")
  /\ UNCHANGED <<owner, row, files, queue, cache, getter, clean, clock, crashes>>

\* cacheManager.del
Del(j) ==
  /\ job[j].pc = "del"
  /\ cache' = NoLink
  /\ Goto(j, IF owner = "room" THEN "unlink" ELSE "update")
  /\ UNCHANGED <<owner, row, files, queue, getter, clean, clock, crashes>>

\* The consumer's unlink(image.path); no-one else touches the file of a job.
Unlink(j) ==
  /\ job[j].pc = "unlink"
  /\ job' = [job EXCEPT ![j].pc = "update", ![j].temp = FALSE]
  /\ UNCHANGED <<owner, row, files, queue, cache, getter, clean, clock, crashes>>

\* room.update, user.update
Update(j) ==
  /\ job[j].pc = "update" /\ row # "gone"
  /\ SetRow(job[j].path)
  /\ clean' = (clean \/ job[j].alone)
  /\ Goto(j, "applied")
  /\ UNCHANGED <<owner, files, queue, cache, getter, now, crashes>>

-----------------------------------------------------------------------------
(* removeImage.                                                            *)

\* fileDelete of the path the room had when the job was added.
Remove(j) ==
  /\ job[j].pc = "remove" /\ job[j].snap \in files
  /\ files' = files \ {job[j].snap}
  /\ Goto(j, "clear")
  /\ UNCHANGED <<owner, row, queue, cache, getter, clean, clock, crashes>>

\* Mutant: the path stays.
EmptiedNot(p) == p
Emptied(p) == None

\* room.update; the cached link stays.
Clear(j) ==
  /\ job[j].pc = "clear" /\ row # "gone"
  /\ SetRow(Emptied(row))
  /\ cache' = [cache EXCEPT !.crossed = (cache.path # None)]
  /\ Goto(j, "applied")
  /\ UNCHANGED <<owner, files, queue, getter, clean, now, crashes>>

-----------------------------------------------------------------------------
(* The end of a job.                                                       *)

\* The job is marked completed, or the request answered; the controller of the
\* user's image unlinks the file in any case.
Complete(j) ==
  /\ job[j].pc = "applied"
  /\ job' = [job EXCEPT ![j] = [NoJob EXCEPT !.pc = "over"]]
  /\ UNCHANGED <<owner, row, files, queue, cache, getter, clean, clock, crashes>>

\* A statement of the job throws: the file to upload or to delete is not there, the
\* owner is gone, or Dropbox, the file system or Postgres fails.  Dropbox may have
\* done what it was asked all the same.  onQueueFailed unlinks the temporary file.
Fail(j) ==
  /\ job[j].pc \in {"upload", "unlink", "update", "remove", "clear"}
  /\ \/ UNCHANGED files
     \/ job[j].pc = "upload" /\ job[j].temp /\ files' = files \cup {job[j].path}
     \/ job[j].pc = "remove" /\ files' = files \ {job[j].snap}
  /\ clean' = (clean /\ files \subseteq files' /\ job[j].pc # "clear")
  /\ job' = [job EXCEPT ![j] = [NoJob EXCEPT !.pc = "over"]]
  /\ UNCHANGED <<owner, row, queue, cache, getter, clock, crashes>>

\* Mutant: behind those that wait.
RequeueLast(j) ==
  /\ job[j].pc = "stalled"
  /\ IF job[j].runs < 2
     THEN queue' = Append(queue, j) /\ Goto(j, "waiting")
     ELSE job' = [job EXCEPT ![j] = [NoJob EXCEPT !.pc = "over"]] /\ UNCHANGED queue
  /\ UNCHANGED <<owner, row, files, cache, getter, clean, clock, crashes>>

\* The queue finds a job that was cut off: it is next, but only once.
Requeue(j) ==
  /\ job[j].pc = "stalled"
  /\ IF job[j].runs < 2
     THEN queue' = <<j>> \o queue /\ Goto(j, "waiting")
     ELSE job' = [job EXCEPT ![j] = [NoJob EXCEPT !.pc = "over"]] /\ UNCHANGED queue
  /\ UNCHANGED <<owner, row, files, cache, getter, clean, clock, crashes>>

-----------------------------------------------------------------------------
(* getImageLink, of RoomsService, AuthService and ProfileUsersService.     *)

\* The row is read.
ReadPath(g) ==
  /\ getter[g].path = None /\ row \in Paths
  /\ getter' = [getter EXCEPT ![g] = [path |-> row, since |-> now, crossed |-> Open # {}]]
  /\ UNCHANGED <<owner, row, files, queue, job, cache, clean, clock, crashes>>

ReadRoomPath(g) == owner = "room" /\ ReadPath(g)
ReadUserPath(g) == owner = "user" /\ ReadPath(g)

Cached == cache.path # None /\ now < cache.until

\* Mutant: wrap is given no time.
TtlForever == MaxTime + 1
\* constants.ts; it is what wrap is given.
Ttl == CacheTime

\* cacheManager.wrap: a cached link, or one from Dropbox, which is then cached.
Wrap(g) ==
  /\ getter[g].path # None
  /\ getter' = [getter EXCEPT ![g] = NoGetter]
  /\ IF Cached \/ getter[g].path \notin files THEN UNCHANGED cache
     ELSE cache' = [path |-> getter[g].path, until |-> now + Ttl, crossed |-> getter[g].crossed]
  /\ UNCHANGED <<owner, row, files, queue, job, clean, clock, crashes>>

-----------------------------------------------------------------------------
(* The rest.                                                               *)

\* deleteRoom, deleteAccount; the files stay.
DeleteOwner ==
  /\ row # "gone"
  /\ SetRow("gone")
  /\ UNCHANGED <<owner, files, queue, job, cache, getter, clean, now, crashes>>

\* The process stops and starts again: the cache is empty.
Crash ==
  /\ crashes < MaxCrash
  /\ crashes' = crashes + 1
  /\ job' = [j \in Jobs |-> CASE job[j].pc \notin Running -> job[j]
                              [] job[j].pc \in Running /\ owner = "room" -> [job[j] EXCEPT !.pc = "stalled"]
                              [] job[j].pc \in Running /\ owner = "user" -> [NoJob EXCEPT !.pc = "over"]]
  /\ clean' = (clean /\ Removals = {})
  /\ cache' = NoLink /\ getter' = [g \in Getters |-> NoGetter]
  /\ UNCHANGED <<owner, row, files, queue, clock>>

\* Time goes on while no getter takes too long.
Tick ==
  /\ now < MaxTime
  /\ \A g \in Getters : getter[g].path # None => now < getter[g].since + Latency
  /\ now' = now + 1
  /\ UNCHANGED <<owner, row, files, queue, job, cache, getter, left, clean, crashes>>

NextImage ==
  \/ \E j \in Jobs, p \in Paths : UpdateUserImage(j, p) \/ UpdateRoomImage(j, p)
  \/ \E j \in Jobs : \/ DeleteRoomImage(j) \/ Begin(j)
                     \/ Upload(j) \/ Del(j) \/ Unlink(j) \/ Update(j)
                     \/ Remove(j) \/ Clear(j)
                     \/ Complete(j) \/ Fail(j) \/ Requeue(j)
  \/ \E g \in Getters : ReadRoomPath(g) \/ ReadUserPath(g) \/ Wrap(g)
  \/ DeleteOwner \/ Crash \/ Tick

ImageSpec == InitImage /\ [][NextImage]_imageVars

-----------------------------------------------------------------------------
(* Properties.                                                             *)

\* Types; a job that waits is in the queue, once.
ImageTypeOK ==
  /\ owner \in {"room", "user"} /\ row \in Paths \cup {None, "gone"}
  /\ files \subseteq Paths /\ queue \in Seq(Jobs)
  /\ job \in [Jobs -> [pc : Running \cup {"idle", "waiting", "stalled", "over"},
                       kind : {"update", "delete"}, path : Paths \cup {None},
                       snap : Paths \cup {None}, temp : BOOLEAN, runs : 0..2, alone : BOOLEAN]]
  /\ cache \in [path : Paths \cup {None}, until : Nat, crossed : BOOLEAN]
  /\ getter \in [Getters -> [path : Paths \cup {None}, since : 0..MaxTime, crossed : BOOLEAN]]
  /\ left \in [Paths -> 0..MaxTime]
  /\ clean \in BOOLEAN /\ now \in 0..MaxTime /\ crashes \in 0..MaxCrash
  /\ \A j \in Jobs : (job[j].pc = "waiting") <=> \E i \in DOMAIN queue : queue[i] = j
  /\ \A i, k \in DOMAIN queue : queue[i] = queue[k] => i = k

\* When no change is under way the row names a file that is there, whatever
\* changes failed or were cut off; unless it was a removal with its file deleted,
\* or a removal overlapped another change, and no change was made alone since.
RowNamesFile == clean /\ Open = {} /\ row \in Paths => row \in files

\* A link from the cache is to the image the row has.  It may be to an earlier
\* one only if it was fetched while a change was under way, or if the image was
\* removed; and then not for longer than a link is cached and a request takes.
LinkIsFresh ==
  Cached /\ row # "gone" =>
    \/ cache.path = row
    \/ cache.crossed /\ now < left[cache.path] + Latency + CacheTime

\* The jobs of a room's images are those of the abstract queue; a user's image is
\* changed by the request itself, which no queue has.
Queued(pcs) == {j \in Jobs : owner = "room" /\ job[j].pc \in pcs}
Retried(j) ==
  \/ job[j].pc = "waiting" /\ job[j].runs = 1
  \/ job[j].pc \in Running \cup {"stalled"} /\ job[j].runs = 2

Abstract == INSTANCE JobQueue WITH
  waiting <- queue, running <- Queued(Running), cut <- Queued({"stalled"}),
  again <- {j \in Jobs : Retried(j)}, ended <- Queued({"over"})
ImplementsQueue == Abstract!Spec
=============================================================================
