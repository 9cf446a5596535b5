--------------------------- MODULE SecurityStamps ---------------------------
(***************************************************************************)
(* The security stamp of one user: the copy in Postgres, the sorted set of *)
(* recently verified stamps in Redis, the guarded requests that consult    *)
(* both (SecurityGuard -> AuthService.verifySecurityStamp), the operations *)
(* that replace the stamp (updatePassword, resetPassword, changeRoles),    *)
(* account deletion and the half-hourly sweep.  Every await of the code is *)
(* a point where another request may run, so each handler is one action    *)
(* per database or Redis call.  Stamps are numbered in the order they are  *)
(* generated: Random.generateSecurityStamp never repeats one.              *)
(***************************************************************************)
EXTENDS Integers

CONSTANTS
  Requests,    \* guarded HTTP requests or socket messages in flight
  Renewals,    \* calls in flight that replace the stamp
  Ttl,         \* lifetime of a cached stamp (15 minutes in the code)
  SweepPeriod, \* the cron period (30 minutes in the code)
  Latency,     \* longest life of one call of either kind
  MaxStamp,    \* bound: stamps generated
  MaxTime      \* bound: clock

ASSUME ParameterAssumption ==
  /\ Ttl \in Nat /\ SweepPeriod \in Nat \ {0} /\ Latency \in Nat
  /\ MaxStamp \in Nat \ {0} /\ MaxTime \in Nat

Stamps == 1..MaxStamp
Absent == -1                    \* zScore answers null
\* updatePassword; updateSecurityStamp, which resetPassword calls, and changeRoles
Kinds == {"password", "stamp"}

VARIABLES
  now,        \* dayjs().unix()
  up,         \* the server process runs
  sweepDue,   \* the cron expression matched and the job has not run yet
  lastSweep,  \* when the job last ran
  alive,      \* the user row exists
  stamp,      \* users.security_stamp, also the last stamp generated
  score,      \* the sorted set: stamp -> expiry, or Absent
  revokedAt,  \* history: when a stamp stopped being the user's
  request,    \* per request: where verifySecurityStamp stands
  renewal     \* per renewal: where the operation stands

vars == <<now, up, sweepDue, lastSweep, alive, stamp, score, revokedAt, request, renewal>>
db == <<alive, stamp, revokedAt>>
clock == <<now, up, sweepDue, lastSweep>>

RequestStates == [pc : {"idle", "missed", "counted", "rejected"},
                  stamp : Stamps, began : Nat, read : Nat]
RenewalStates == [pc : {"idle", "remove", "write", "done"}, kind : Kinds,
                  old : Stamps, began : Nat, alone : BOOLEAN]

RequestActive(r) == request[r].pc \in {"missed", "counted"}
RenewalActive(u) == renewal[u].pc \in {"remove", "write"}

IdleRequest == [pc |-> "idle", stamp |-> 1, began |-> 0, read |-> 0]
IdleRenewal == [pc |-> "idle", kind |-> "password", old |-> 1, began |-> 0, alone |-> FALSE]

Init ==
  /\ now = 0 /\ up = TRUE /\ sweepDue = FALSE /\ lastSweep = 0
  /\ alive = TRUE /\ stamp = 1
  /\ score = [s \in Stamps |-> Absent]
  /\ revokedAt = [s \in Stamps |-> 0]
  /\ request = [r \in Requests |-> IdleRequest]
  /\ renewal = [u \in Renewals |-> IdleRenewal]

-----------------------------------------------------------------------------
(* Building blocks: the two stores.                                        *)

\* prisma.user.count({ where: { securityStamp } }) = 1
Counted(s) == alive /\ s = stamp

ZRem(s) == score' = [score EXCEPT ![s] = Absent]

\* A renewal under way that anybody else interrupts is no longer alone.
Disturbed == [u \in Renewals |->
                IF RenewalActive(u) THEN [renewal[u] EXCEPT !.alone = FALSE] ELSE renewal[u]]

-----------------------------------------------------------------------------
(* verifySecurityStamp, one action per await.                              *)

\* The check answers true, and the request goes on to its handler, or false.
Accepted(r) == [request EXCEPT ![r] = IdleRequest]
Rejected(r) ==
  [request EXCEPT ![r] = [IdleRequest EXCEPT !.pc = "rejected", !.stamp = request[r].stamp]]

\* Mutants: a miss is a refusal; a hit renews the expiry.
VerifyCachedOnly(r, s) ==
  /\ up /\ ~RequestActive(r) /\ s <= stamp
  /\ request' = IF score[s] # Absent THEN Accepted(r)
                ELSE [request EXCEPT ![r].pc = "rejected", ![r].stamp = s]
  /\ UNCHANGED <<clock, db, score, renewal>>

VerifyCachedExtends(r, s) ==
  /\ up /\ ~RequestActive(r) /\ s <= stamp
  /\ request' = IF score[s] # Absent
                THEN Accepted(r)
                ELSE [request EXCEPT ![r] = [pc |-> "missed", stamp |-> s,
                                             began |-> now, read |-> now]]
  /\ score' = IF score[s] # Absent THEN [score EXCEPT ![s] = now + Ttl] ELSE score
  /\ renewal' = Disturbed
  /\ UNCHANGED <<clock, db>>

\* zScore: a cached stamp is accepted without a look at the database and
\* without a new expiry.  The token presented may carry any stamp ever issued.
VerifyCached(r, s) ==
  /\ up /\ ~RequestActive(r) /\ s <= stamp
  /\ request' = IF score[s] # Absent
                THEN Accepted(r)
                ELSE [request EXCEPT ![r] = [pc |-> "missed", stamp |-> s,
                                             began |-> now, read |-> now]]
  /\ renewal' = Disturbed
  /\ UNCHANGED <<clock, db, score>>

\* The count: no row means rejection, one row means the stamp is cached next.
VerifyCount(r) ==
  /\ request[r].pc = "missed"
  /\ request' = IF Counted(request[r].stamp)
                THEN [request EXCEPT ![r].pc = "counted", ![r].read = now]
                ELSE Rejected(r)
  /\ UNCHANGED <<clock, db, score, renewal>>

\* zAdd, with the expiry computed at some moment since the count answered.
VerifyCache(r) ==
  /\ request[r].pc = "counted"
  /\ \E t \in request[r].read..now :
       score' = [score EXCEPT ![request[r].stamp] = t + Ttl]
  /\ request' = Accepted(r)
  /\ UNCHANGED <<clock, db, renewal>>

\* Redis or Postgres fails: the request ends in an error.
VerifyFails(r) ==
  /\ RequestActive(r)
  /\ request' = [request EXCEPT ![r] = IdleRequest]
  /\ UNCHANGED <<clock, db, score, renewal>>

-----------------------------------------------------------------------------
(* updatePassword writes the row, then removes the stamp it had read.      *)
(* updateSecurityStamp (called by resetPassword) and changeRoles remove    *)
(* the stamp first and write the row after.                                *)

\* Mutant: updatePassword forgets the sorted set.
AfterWriteForgets(kind) == "done"

FirstStep(kind) == IF kind = "password" THEN "write" ELSE "remove"
AfterWrite(kind) == IF kind = "password" THEN "remove" ELSE "done"
AfterRemove(kind) == IF kind = "password" THEN "done" ELSE "write"

\* A finished call keeps its old stamp when it had the stores to itself.
Advance(u, pc) ==
  LET call == renewal[u] IN
  [renewal EXCEPT ![u] =
     CASE pc # "done" -> [call EXCEPT !.pc = pc]
       [] pc = "done" /\ call.alone ->
            [IdleRenewal EXCEPT !.pc = "done", !.old = call.old, !.alone = TRUE]
       [] OTHER -> IdleRenewal]

\* The handler reads the user's row and keeps its stamp.
RenewRead(u, kind) ==
  /\ up /\ alive /\ ~RenewalActive(u)
  /\ LET quiet == /\ \A r \in Requests : ~RequestActive(r)
                  /\ \A v \in Renewals \ {u} : ~RenewalActive(v)
     IN renewal' = [Disturbed EXCEPT ![u] =
          [pc |-> FirstStep(kind), kind |-> kind, old |-> stamp,
           began |-> now, alone |-> quiet]]
  /\ UNCHANGED <<clock, db, score, request>>

\* The checks after it (current password, role ids) may throw; or Redis or
\* Postgres fails, and what was written before stays.
RenewRefused(u) ==
  /\ RenewalActive(u)
  /\ renewal' = [renewal EXCEPT ![u] = IdleRenewal]
  /\ UNCHANGED <<clock, db, score, request>>

\* user.update with a fresh stamp; it throws when the row is gone.
RenewWrite(u) ==
  /\ renewal[u].pc = "write" /\ stamp < MaxStamp
  /\ IF alive
     THEN /\ stamp' = stamp + 1
          /\ revokedAt' = [revokedAt EXCEPT ![stamp] = now]
          /\ renewal' = Advance(u, AfterWrite(renewal[u].kind))
     ELSE /\ renewal' = [renewal EXCEPT ![u] = IdleRenewal]
          /\ UNCHANGED <<stamp, revokedAt>>
  /\ UNCHANGED <<clock, alive, score, request>>

RenewRemove(u) ==
  /\ renewal[u].pc = "remove"
  /\ ZRem(renewal[u].old)
  /\ renewal' = Advance(u, AfterRemove(renewal[u].kind))
  /\ UNCHANGED <<clock, db, request>>

\* deleteAccount drops the row and leaves the sorted set alone.
DeleteAccount ==
  /\ up /\ alive
  /\ alive' = FALSE
  /\ revokedAt' = [revokedAt EXCEPT ![stamp] = now]
  /\ renewal' = Disturbed
  /\ UNCHANGED <<clock, stamp, score, request>>

-----------------------------------------------------------------------------
(* The cron job, the clock and the process.                                *)

Expired(s) == score[s] < now

TaskSecurityStamp ==
  /\ up /\ sweepDue
  /\ score' = [s \in Stamps |-> IF Expired(s) THEN Absent ELSE score[s]]
  /\ sweepDue' = FALSE /\ lastSweep' = now
  /\ UNCHANGED <<now, up, db, request, renewal>>

\* Redis fails, and nothing is removed until the next one.
TaskFails ==
  /\ up /\ sweepDue /\ sweepDue' = FALSE
  /\ UNCHANGED <<now, up, lastSweep, db, score, request, renewal>>

\* Time passes once the calls and the job that are due have had their turn.
Tick ==
  /\ now < MaxTime /\ ~sweepDue
  /\ \A r \in Requests : RequestActive(r) => now < request[r].began + Latency
  /\ \A u \in Renewals : RenewalActive(u) => now < renewal[u].began + Latency
  /\ now' = now + 1
  /\ sweepDue' = (up /\ (now + 1) % SweepPeriod = 0)
  /\ UNCHANGED <<up, lastSweep, db, score, request, renewal>>

\* The process dies: calls in flight stop where they are, the job is missed.
Crash ==
  /\ up /\ up' = FALSE /\ sweepDue' = FALSE
  /\ request' = [r \in Requests |-> IdleRequest]
  /\ renewal' = [u \in Renewals |-> IdleRenewal]
  /\ UNCHANGED <<now, lastSweep, db, score>>

Restart ==
  /\ ~up /\ up' = TRUE
  /\ UNCHANGED <<now, sweepDue, lastSweep, db, score, request, renewal>>

Next ==
  \/ \E r \in Requests : \/ \E s \in Stamps : VerifyCached(r, s)
                         \/ VerifyCount(r)
                         \/ VerifyCache(r)
                         \/ VerifyFails(r)
  \/ \E u \in Renewals : \/ \E kind \in Kinds : RenewRead(u, kind)
                         \/ RenewRefused(u)
                         \/ RenewWrite(u)
                         \/ RenewRemove(u)
  \/ DeleteAccount
  \/ TaskSecurityStamp
  \/ TaskFails
  \/ Tick
  \/ Crash
  \/ Restart

Spec == Init /\ [][Next]_vars

-----------------------------------------------------------------------------
(* Properties.                                                             *)

TypeOK ==
  /\ now \in Nat /\ up \in BOOLEAN /\ sweepDue \in BOOLEAN /\ lastSweep \in Nat
  /\ alive \in BOOLEAN /\ stamp \in Stamps
  /\ score \in [Stamps -> Int]
  /\ revokedAt \in [Stamps -> Nat]
  /\ request \in [Requests -> RequestStates]
  /\ renewal \in [Renewals -> RenewalStates]

Revoked(s) == s < stamp \/ (s = stamp /\ ~alive)

\* verifySecurityStamp caches a stamp for a limited time and a hit does not
\* extend it: however a check races with a renewal, whatever a crash leaves in
\* Redis, a revoked stamp is gone once the job has run later than the
\* revocation plus one call and one cache lifetime.
RevokedStampsAreSwept ==
  \A s \in Stamps :
    (Revoked(s) /\ score[s] # Absent) => lastSweep <= revokedAt[s] + Latency + Ttl

\* A renewal that nothing else overlaps leaves its old stamp refused at once:
\* it is not in the sorted set, whichever of the two stores it wrote first.
UndisturbedRenewalEvicts ==
  \A u \in Renewals :
    (renewal[u].pc = "done" /\ renewal[u].alone) => score[renewal[u].old] = Absent

\* A check refuses only a stamp that is no longer the user's: renewing the
\* stamp never locks out the holder of the new one.
OnlyRevokedRejected ==
  \A r \in Requests : request[r].pc = "rejected" => Revoked(request[r].stamp)
=============================================================================
