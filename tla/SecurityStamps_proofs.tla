----------------------- MODULE SecurityStamps_proofs -----------------------
(***************************************************************************)
(* Proofs about SecurityStamps, for every value of its constants.          *)
(***************************************************************************)
EXTENDS SecurityStamps, TLAPS

-----------------------------------------------------------------------------
(* The inductive strengthening.                                            *)

\* Calls are as old as their records say, and no older than Latency; a count
\* that found its stamp valid did so no later than the stamp's revocation.
RequestsInTime ==
  \A r \in Requests :
    /\ RequestActive(r) =>
         /\ request[r].began <= request[r].read
         /\ request[r].read <= now
         /\ now <= request[r].began + Latency
    /\ request[r].pc = "counted" /\ Revoked(request[r].stamp) =>
         request[r].read <= revokedAt[request[r].stamp]

\* How late a cached stamp may expire.
ScoresBounded ==
  \A s \in Stamps :
    /\ Revoked(s) => score[s] <= revokedAt[s] + Latency + Ttl
    /\ ~Revoked(s) => score[s] <= now + Ttl

SweptInv ==
  /\ TypeOK
  /\ lastSweep <= now
  /\ RequestsInTime
  /\ ScoresBounded
  /\ RevokedStampsAreSwept

-----------------------------------------------------------------------------
(* Types.                                                                  *)

USE DEF Absent

\* The initial state is well typed.
LEMMA InitType == Init => TypeOK
<1> SUFFICES ASSUME Init PROVE TypeOK
  OBVIOUS
<1> USE ParameterAssumption DEF Init, Stamps
<1>1. stamp \in Stamps /\ 1 \in Stamps
  OBVIOUS
<1>2. score \in [Stamps -> Int] /\ revokedAt \in [Stamps -> Nat]
  OBVIOUS
<1>3. IdleRequest \in RequestStates
  BY <1>1 DEF IdleRequest, RequestStates
<1>4. IdleRenewal \in RenewalStates
  BY <1>1 DEF IdleRenewal, RenewalStates, Kinds
<1> QED BY <1>1, <1>2, <1>3, <1>4 DEF TypeOK

\* Every step of the calls, the job, the clock and the process keeps the types.
LEMMA StepType == TypeOK /\ [Next]_vars => TypeOK'
<1> SUFFICES ASSUME TypeOK, [Next]_vars PROVE TypeOK'
  OBVIOUS
<1>s. stamp \in Nat /\ 1 \in Stamps /\ (stamp < MaxStamp => stamp + 1 \in Stamps)
  BY ParameterAssumption DEF TypeOK, Stamps
<1> USE DEF TypeOK, clock, db, RequestStates, RenewalStates, Kinds
<1>a. IdleRequest \in RequestStates /\ IdleRenewal \in RenewalStates
  BY <1>s DEF IdleRequest, IdleRenewal
<1>b. Disturbed \in [Renewals -> RenewalStates]
  BY DEF Disturbed
<1>c. \A r \in Requests : /\ Accepted(r) \in [Requests -> RequestStates]
                          /\ Rejected(r) \in [Requests -> RequestStates]
  BY <1>a DEF Accepted, Rejected, IdleRequest
<1>d. ASSUME NEW u \in Renewals, NEW pc \in {"idle", "remove", "write", "done"}
      PROVE Advance(u, pc) \in [Renewals -> RenewalStates]
  <2>1. CASE pc # "done"
    BY <2>1 DEF Advance
  <2>2. CASE pc = "done" /\ renewal[u].alone
    BY <2>2 DEF Advance, IdleRenewal
  <2>3. CASE pc = "done" /\ ~renewal[u].alone
    BY <2>3, <1>a DEF Advance
  <2> QED BY <2>1, <2>2, <2>3
<1>1. ASSUME NEW r \in Requests, NEW s \in Stamps, VerifyCached(r, s) PROVE TypeOK'
  BY <1>1, <1>b, <1>c DEF VerifyCached
<1>2. ASSUME NEW r \in Requests, VerifyCount(r) PROVE TypeOK'
  <2> DEFINE h == [request[r] EXCEPT !.pc = "counted", !.read = now]
  <2>a. h \in RequestStates
    OBVIOUS
  <2>b. [request EXCEPT ![r].pc = "counted", ![r].read = now] = [request EXCEPT ![r] = h]
    OBVIOUS
  <2>1. [request EXCEPT ![r].pc = "counted", ![r].read = now] \in [Requests -> RequestStates]
    <3> HIDE DEF h
    <3> QED BY <2>a, <2>b
  <2> QED BY <1>2, <1>c, <2>1 DEF VerifyCount
<1>3. ASSUME NEW r \in Requests, VerifyCache(r) PROVE TypeOK'
  <2>1. PICK t \in request[r].read..now :
          score' = [score EXCEPT ![request[r].stamp] = t + Ttl]
    BY <1>3 DEF VerifyCache
  <2>2. t + Ttl \in Int
    BY ParameterAssumption
  <2> QED BY <1>3, <1>c, <2>1, <2>2 DEF VerifyCache
<1>v. ASSUME NEW r \in Requests, VerifyFails(r) PROVE TypeOK'
  BY <1>v, <1>a DEF VerifyFails
<1>4. ASSUME NEW u \in Renewals, NEW kind \in Kinds, RenewRead(u, kind) PROVE TypeOK'
  BY <1>4, <1>b DEF RenewRead, FirstStep
<1>5. ASSUME NEW u \in Renewals, RenewRefused(u) PROVE TypeOK'
  BY <1>5, <1>a DEF RenewRefused
<1>6. ASSUME NEW u \in Renewals, RenewWrite(u) PROVE TypeOK'
  <2>1. AfterWrite(renewal[u].kind) \in {"idle", "remove", "write", "done"}
    BY DEF AfterWrite
  <2>2. CASE alive
    <3>1. stamp' \in Stamps
      BY <1>6, <1>s, <2>2 DEF RenewWrite
    <3>2. revokedAt' \in [Stamps -> Nat]
      BY <1>6, <2>2 DEF RenewWrite
    <3>3. renewal' \in [Renewals -> RenewalStates]
      BY <1>6, <1>d, <2>1, <2>2 DEF RenewWrite
    <3> QED BY <1>6, <3>1, <3>2, <3>3 DEF RenewWrite
  <2>3. CASE ~alive
    BY <1>6, <1>a, <2>3 DEF RenewWrite
  <2> QED BY <2>2, <2>3
<1>7. ASSUME NEW u \in Renewals, RenewRemove(u) PROVE TypeOK'
  <2>1. AfterRemove(renewal[u].kind) \in {"idle", "remove", "write", "done"}
    BY DEF AfterRemove
  <2> QED BY <1>7, <1>d, <2>1 DEF RenewRemove, ZRem
<1>8. CASE DeleteAccount
  BY <1>8, <1>b DEF DeleteAccount
<1>9. CASE TaskSecurityStamp
  <2>1. score' \in [Stamps -> Int]
    BY <1>9 DEF TaskSecurityStamp
  <2> QED BY <1>9, <2>1 DEF TaskSecurityStamp
<1>f. CASE TaskFails
  BY <1>f DEF TaskFails
<1>10. CASE Tick
  BY <1>10 DEF Tick
<1>11. CASE Crash
  BY <1>11, <1>a DEF Crash
<1>12. CASE Restart
  BY <1>12 DEF Restart
<1>13. CASE UNCHANGED vars
  BY <1>13 DEF vars
<1> QED BY <1>1, <1>2, <1>3, <1>4, <1>5, <1>6, <1>7, <1>8, <1>9, <1>10, <1>11, <1>12, <1>13, <1>v, <1>f
        DEF Next

\* Every state of the system is well typed.
THEOREM TypeCorrect == Spec => []TypeOK
BY InitType, StepType, PTL DEF Spec

-----------------------------------------------------------------------------
(* Revoked stamps are swept.                                               *)

LEMMA SweptInit == Init => SweptInv
<1> SUFFICES ASSUME Init PROVE SweptInv
  OBVIOUS
<1>1. TypeOK
  BY InitType
<1>2. RequestsInTime
  BY DEF Init, RequestsInTime, RequestActive, IdleRequest
<1>3. \A s \in Stamps : score[s] = Absent /\ revokedAt[s] = 0
  BY DEF Init
<1> QED BY <1>1, <1>2, <1>3, ParameterAssumption
        DEF Init, SweptInv, ScoresBounded, RevokedStampsAreSwept

\* Steps that touch neither the stores nor the requests nor the clock.
LEMMA SweptFrame ==
  ASSUME SweptInv, TypeOK',
         UNCHANGED <<now, lastSweep, alive, stamp, score, revokedAt, request>>
  PROVE  SweptInv'
<1>1. RequestsInTime'
  BY DEF SweptInv, RequestsInTime, RequestActive, Revoked
<1>2. ScoresBounded'
  BY DEF SweptInv, ScoresBounded, Revoked
<1>3. RevokedStampsAreSwept'
  BY DEF SweptInv, RevokedStampsAreSwept, Revoked
<1> QED BY <1>1, <1>2, <1>3 DEF SweptInv

\* The three steps of verifySecurityStamp.
LEMMA SweptVerify ==
  ASSUME SweptInv, TypeOK', NEW r \in Requests,
         \/ \E s \in Stamps : VerifyCached(r, s)
         \/ VerifyCount(r)
         \/ VerifyCache(r)
  PROVE  SweptInv'
<1> USE DEF clock, db
<1>t. TypeOK
  BY DEF SweptInv
<1>u. UNCHANGED <<now, lastSweep, alive, stamp, revokedAt>>
  BY DEF VerifyCached, VerifyCount, VerifyCache
<1>0. \A q \in Requests \ {r} : request'[q] = request[q]
  BY <1>t DEF TypeOK, VerifyCached, VerifyCount, VerifyCache, Accepted, Rejected
<1>1. RequestsInTime'
  <2>1. \A q \in Requests \ {r} :
          /\ RequestActive(q)' <=> RequestActive(q)
          /\ Revoked(request[q].stamp)' <=> Revoked(request[q].stamp)
    BY <1>0, <1>u DEF RequestActive, Revoked
  <2>2. CASE request'[r].pc \in {"idle", "rejected"}
    BY <2>1, <2>2, <1>0, <1>u DEF SweptInv, RequestsInTime, RequestActive
  <2>3. CASE \E s \in Stamps : request'[r] = [pc |-> "missed", stamp |-> s,
                                             began |-> now, read |-> now]
    <3>1. /\ request'[r].pc = "missed" /\ request'[r].began = now /\ request'[r].read = now
      BY <2>3
    <3>2. now <= now + Latency
      BY <1>t, ParameterAssumption DEF TypeOK
    <3> QED BY <2>1, <3>1, <3>2, <1>0, <1>u, <1>t
            DEF SweptInv, RequestsInTime, RequestActive, TypeOK
  <2>4. CASE /\ request[r].pc = "missed" /\ Counted(request[r].stamp)
             /\ request'[r] = [request[r] EXCEPT !.pc = "counted", !.read = now]
    <3>1. /\ request'[r].pc = "counted" /\ request'[r].began = request[r].began
          /\ request'[r].read = now /\ request'[r].stamp = request[r].stamp
      BY <2>4, <1>t DEF TypeOK, RequestStates
    <3>2. ~Revoked(request[r].stamp)
      BY <2>4, <1>t DEF Counted, Revoked, TypeOK, Stamps
    <3>3. request[r].began <= now /\ now <= request[r].began + Latency /\ now <= now
      BY <2>4, <1>t, ParameterAssumption
         DEF SweptInv, RequestsInTime, RequestActive, TypeOK, RequestStates
    <3> QED BY <2>1, <3>1, <3>2, <3>3, <1>0, <1>u
            DEF SweptInv, RequestsInTime, RequestActive, Revoked
  <2>5. \/ request'[r].pc \in {"idle", "rejected"}
        \/ \E s \in Stamps : request'[r] = [pc |-> "missed", stamp |-> s,
                                           began |-> now, read |-> now]
        \/ /\ request[r].pc = "missed" /\ Counted(request[r].stamp)
           /\ request'[r] = [request[r] EXCEPT !.pc = "counted", !.read = now]
    <3>1. ASSUME NEW s \in Stamps, VerifyCached(r, s) 
            PROVE  request'[r].pc = "idle" \/ request'[r] = [pc |-> "missed", stamp |-> s, began |-> now, read |-> now]
      BY <3>1, <1>t DEF VerifyCached, TypeOK, Accepted, IdleRequest
    <3>2. CASE VerifyCount(r)
      BY <3>2, <1>t DEF VerifyCount, TypeOK, Rejected, IdleRequest
    <3>3. CASE VerifyCache(r)
      BY <3>3, <1>t DEF VerifyCache, TypeOK, Accepted, IdleRequest
    <3> QED BY <3>1, <3>2, <3>3
  <2> QED BY <2>2, <2>3, <2>4, <2>5
<1>2. ScoresBounded' /\ RevokedStampsAreSwept'
  <2>1. CASE UNCHANGED score
    BY <2>1, <1>u DEF SweptInv, ScoresBounded, RevokedStampsAreSwept, Revoked
  <2>2. CASE VerifyCache(r)
    <3>1. PICK t \in request[r].read..now :
            score' = [score EXCEPT ![request[r].stamp] = t + Ttl]
      BY <2>2 DEF VerifyCache
    <3>2. \A s \in Stamps \ {request[r].stamp} : score'[s] = score[s]
      BY <3>1, <1>t DEF TypeOK
    <3>3. score'[request[r].stamp] = t + Ttl /\ t + Ttl <= now + Ttl
      BY <3>1, <1>t, ParameterAssumption DEF TypeOK, RequestStates
    <3>4. Revoked(request[r].stamp) =>
            now <= revokedAt[request[r].stamp] + Latency
      BY <2>2, <1>t, ParameterAssumption
         DEF VerifyCache, SweptInv, RequestsInTime, RequestActive, TypeOK, RequestStates
    <3>5. request[r].stamp \in Stamps /\ lastSweep <= now
      BY <1>t DEF TypeOK, RequestStates, SweptInv
    <3>6. ScoresBounded'
      <4> SUFFICES ASSUME NEW s \in Stamps
                   PROVE  /\ Revoked(s) => score'[s] <= revokedAt[s] + Latency + Ttl
                          /\ ~Revoked(s) => score'[s] <= now + Ttl
        BY <1>u DEF ScoresBounded, Revoked
      <4>1. CASE s = request[r].stamp
        BY <4>1, <3>1, <3>3, <3>4, <1>t, ParameterAssumption DEF TypeOK, RequestStates
      <4>2. CASE s # request[r].stamp
        BY <4>2, <3>2 DEF SweptInv, ScoresBounded
      <4> QED BY <4>1, <4>2
    <3>7. RevokedStampsAreSwept'
      <4> SUFFICES ASSUME NEW s \in Stamps, Revoked(s), score'[s] # Absent
                   PROVE  lastSweep <= revokedAt[s] + Latency + Ttl
        BY <1>u DEF RevokedStampsAreSwept, Revoked
      <4>1. CASE s = request[r].stamp
        BY <4>1, <3>4, <3>5, <1>t, ParameterAssumption DEF TypeOK
      <4>2. CASE s # request[r].stamp
        BY <4>2, <3>2 DEF SweptInv, RevokedStampsAreSwept
      <4> QED BY <4>1, <4>2
    <3> QED BY <3>6, <3>7
  <2> QED BY <2>1, <2>2 DEF VerifyCached, VerifyCount
<1> QED BY <1>1, <1>2, <1>u DEF SweptInv

\* The current stamp leaves the row: a renewal's write, or deletion.
LEMMA SweptRevoke ==
  ASSUME SweptInv, TypeOK', UNCHANGED <<now, lastSweep, score, request>>,
         revokedAt' = [revokedAt EXCEPT ![stamp] = now],
         alive,
         \/ stamp' = stamp + 1 /\ alive' = alive
         \/ stamp' = stamp /\ alive' = FALSE
  PROVE  SweptInv'
<1>t. TypeOK /\ stamp \in Stamps /\ stamp' \in Stamps /\ stamp \in Nat
  BY DEF SweptInv, TypeOK, Stamps
<1>1. \A s \in Stamps : /\ Revoked(s)' <=> (Revoked(s) \/ s = stamp)
                        /\ ~(s = stamp /\ Revoked(s))
  <2>1. \A s \in Stamps : Revoked(s) <=> s < stamp
    BY DEF Revoked
  <2>2. CASE stamp' = stamp + 1 /\ alive' = alive
    <3>1. \A s \in Stamps : Revoked(s)' <=> s < stamp'
      BY <2>2 DEF Revoked
    <3> QED BY <2>1, <2>2, <3>1, <1>t DEF Stamps
  <2>3. CASE stamp' = stamp /\ alive' = FALSE
    <3>1. \A s \in Stamps : Revoked(s)' <=> (s < stamp \/ s = stamp)
      BY <2>3 DEF Revoked
    <3> QED BY <2>1, <3>1, <1>t DEF Stamps
  <2> QED BY <2>2, <2>3
<1>2. /\ revokedAt'[stamp] = now
      /\ \A s \in Stamps \ {stamp} : revokedAt'[s] = revokedAt[s]
  BY <1>t DEF TypeOK
<1>3. RequestsInTime'
  <2> SUFFICES ASSUME NEW r \in Requests, request[r].pc = "counted",
                      Revoked(request[r].stamp)'
               PROVE  request[r].read <= revokedAt'[request[r].stamp]
    BY DEF SweptInv, RequestsInTime, RequestActive
  <2>1. request[r].stamp \in Stamps /\ request[r].read <= now
    BY <1>t DEF SweptInv, RequestsInTime, RequestActive, TypeOK, RequestStates
  <2>2. Revoked(request[r].stamp) \/ request[r].stamp = stamp
    BY <1>1, <2>1
  <2> QED BY <1>1, <1>2, <2>1, <2>2 DEF SweptInv, RequestsInTime
<1>4. ScoresBounded'
  <2> SUFFICES ASSUME NEW s \in Stamps
               PROVE  /\ Revoked(s)' => score[s] <= revokedAt'[s] + Latency + Ttl
                      /\ ~Revoked(s)' => score[s] <= now + Ttl
    BY DEF ScoresBounded
  <2>1. CASE s = stamp
    <3>1. score[s] <= now + Ttl
      BY <2>1, <1>1 DEF SweptInv, ScoresBounded
    <3> QED BY <2>1, <3>1, <1>1, <1>2, <1>t, ParameterAssumption DEF TypeOK
  <2>2. CASE s # stamp
    BY <2>2, <1>1, <1>2 DEF SweptInv, ScoresBounded
  <2> QED BY <2>1, <2>2
<1>5. RevokedStampsAreSwept'
  <2> SUFFICES ASSUME NEW s \in Stamps, Revoked(s)', score[s] # Absent
               PROVE  lastSweep <= revokedAt'[s] + Latency + Ttl
    BY DEF RevokedStampsAreSwept
  <2>1. CASE s = stamp
    BY <2>1, <1>2, <1>t, ParameterAssumption DEF SweptInv, TypeOK
  <2>2. CASE s # stamp
    BY <2>2, <1>1, <1>2 DEF SweptInv, RevokedStampsAreSwept
  <2> QED BY <2>1, <2>2
<1> QED BY <1>3, <1>4, <1>5 DEF SweptInv

\* The job removes whatever expires before now, so what it leaves is recent.
LEMMA SweptSweep == SweptInv /\ TypeOK' /\ TaskSecurityStamp => SweptInv'
<1> SUFFICES ASSUME SweptInv, TypeOK', TaskSecurityStamp PROVE SweptInv'
  OBVIOUS
<1>t. TypeOK
  BY DEF SweptInv
<1>u. UNCHANGED <<now, alive, stamp, revokedAt, request>> /\ lastSweep' = now
  BY DEF TaskSecurityStamp, db
<1>1. \A s \in Stamps : \/ score'[s] = Absent
                        \/ score'[s] = score[s] /\ now <= score[s]
  <2> SUFFICES ASSUME NEW s \in Stamps
               PROVE  score'[s] = Absent \/ (score'[s] = score[s] /\ now <= score[s])
    OBVIOUS
  <2>1. score[s] \in Int /\ now \in Nat
    BY <1>t DEF TypeOK
  <2>2. score'[s] = IF score[s] < now THEN Absent ELSE score[s]
    BY DEF TaskSecurityStamp, Expired
  <2> QED BY <2>1, <2>2
<1>2. RequestsInTime'
  BY <1>u DEF SweptInv, RequestsInTime, RequestActive, Revoked
<1>3. ScoresBounded'
  BY <1>1, <1>u, <1>t, ParameterAssumption DEF SweptInv, ScoresBounded, Revoked, TypeOK
<1>4. RevokedStampsAreSwept'
  BY <1>1, <1>u, <1>t, ParameterAssumption
     DEF SweptInv, ScoresBounded, RevokedStampsAreSwept, Revoked, TypeOK
<1>5. lastSweep' <= now'
  BY <1>u, <1>t DEF TypeOK
<1> QED BY <1>2, <1>3, <1>4, <1>5 DEF SweptInv

LEMMA SweptTick == SweptInv /\ TypeOK' /\ Tick => SweptInv'
<1> SUFFICES ASSUME SweptInv, TypeOK', Tick PROVE SweptInv'
  OBVIOUS
<1>t. TypeOK
  BY DEF SweptInv
<1>u. UNCHANGED <<lastSweep, alive, stamp, score, revokedAt, request>> /\ now' = now + 1
  BY DEF Tick, db
<1>1. RequestsInTime'
  <2> SUFFICES ASSUME NEW r \in Requests, RequestActive(r)
               PROVE  /\ request[r].read <= now + 1
                      /\ now + 1 <= request[r].began + Latency
    BY <1>u DEF SweptInv, RequestsInTime, RequestActive, Revoked
  <2>1. now < request[r].began + Latency
    BY DEF Tick
  <2> QED BY <2>1, <1>t, ParameterAssumption
          DEF SweptInv, RequestsInTime, TypeOK, RequestStates
<1>2. ScoresBounded'
  BY <1>u, <1>t, ParameterAssumption DEF SweptInv, ScoresBounded, Revoked, TypeOK
<1>3. RevokedStampsAreSwept'
  BY <1>u DEF SweptInv, RevokedStampsAreSwept, Revoked
<1>4. lastSweep' <= now'
  BY <1>u, <1>t DEF SweptInv, TypeOK
<1> QED BY <1>1, <1>2, <1>3, <1>4 DEF SweptInv

\* A check that fails is forgotten.
LEMMA SweptAbort ==
  ASSUME SweptInv, TypeOK', NEW r \in Requests, VerifyFails(r)
  PROVE  SweptInv'
<1>u. UNCHANGED <<now, lastSweep, alive, stamp, score, revokedAt>>
  BY DEF VerifyFails, clock, db
<1>0. /\ \A q \in Requests \ {r} : request'[q] = request[q]
      /\ ~RequestActive(r)'
  BY DEF VerifyFails, SweptInv, TypeOK, RequestActive, IdleRequest
<1>1. RequestsInTime'
  BY <1>u, <1>0 DEF SweptInv, RequestsInTime, RequestActive, Revoked
<1>2. ScoresBounded' /\ RevokedStampsAreSwept'
  BY <1>u DEF SweptInv, ScoresBounded, RevokedStampsAreSwept, Revoked
<1> QED BY <1>1, <1>2, <1>u DEF SweptInv

LEMMA SweptCrash == SweptInv /\ TypeOK' /\ Crash => SweptInv'
<1> SUFFICES ASSUME SweptInv, TypeOK', Crash PROVE SweptInv'
  OBVIOUS
<1>1. RequestsInTime'
  BY DEF Crash, RequestsInTime, RequestActive, IdleRequest
<1>2. ScoresBounded' /\ RevokedStampsAreSwept' /\ lastSweep' <= now'
  BY DEF Crash, db, SweptInv, ScoresBounded, RevokedStampsAreSwept, Revoked
<1> QED BY <1>1, <1>2 DEF SweptInv

LEMMA SweptRemove ==
  ASSUME SweptInv, TypeOK', NEW u \in Renewals, RenewRemove(u)
  PROVE  SweptInv'
<1>t. TypeOK
  BY DEF SweptInv
<1>u. UNCHANGED <<now, lastSweep, alive, stamp, revokedAt, request>>
  BY DEF RenewRemove, clock, db
<1>1. \A s \in Stamps : score'[s] = Absent \/ score'[s] = score[s]
  BY <1>t DEF RenewRemove, ZRem, TypeOK
<1>2. RequestsInTime'
  BY <1>u DEF SweptInv, RequestsInTime, RequestActive, Revoked
<1>3. ScoresBounded'
  BY <1>1, <1>u, <1>t, ParameterAssumption DEF SweptInv, ScoresBounded, Revoked, TypeOK
<1>4. RevokedStampsAreSwept'
  BY <1>1, <1>u DEF SweptInv, RevokedStampsAreSwept, Revoked
<1> QED BY <1>2, <1>3, <1>4, <1>u DEF SweptInv

LEMMA SweptStep == SweptInv /\ [Next]_vars => SweptInv'
<1> SUFFICES ASSUME SweptInv, [Next]_vars PROVE SweptInv'
  OBVIOUS
<1>t. TypeOK /\ TypeOK'
  BY StepType DEF SweptInv
<1>1. ASSUME NEW r \in Requests, \/ \E s \in Stamps : VerifyCached(r, s)
                                 \/ VerifyCount(r)
                                 \/ VerifyCache(r)
      PROVE  SweptInv'
  BY <1>1, <1>t, SweptVerify
<1>2. ASSUME NEW u \in Renewals, NEW kind \in Kinds, RenewRead(u, kind) PROVE SweptInv'
  BY <1>2, <1>t, SweptFrame DEF RenewRead, clock, db
<1>3. ASSUME NEW u \in Renewals, RenewRefused(u) PROVE SweptInv'
  BY <1>3, <1>t, SweptFrame DEF RenewRefused, clock, db
<1>4. ASSUME NEW u \in Renewals, RenewWrite(u) PROVE SweptInv'
  <2>1. CASE alive
    BY <1>4, <2>1, <1>t, SweptRevoke DEF RenewWrite, clock
  <2>2. CASE ~alive
    BY <1>4, <2>2, <1>t, SweptFrame DEF RenewWrite, clock
  <2> QED BY <2>1, <2>2
<1>5. ASSUME NEW u \in Renewals, RenewRemove(u) PROVE SweptInv'
  BY <1>5, <1>t, SweptRemove
<1>6. CASE DeleteAccount
  BY <1>6, <1>t, SweptRevoke DEF DeleteAccount, clock
<1>7. CASE TaskSecurityStamp
  BY <1>7, <1>t, SweptSweep
<1>v. ASSUME NEW r \in Requests, VerifyFails(r) PROVE SweptInv'
  BY <1>v, <1>t, SweptAbort
<1>f. CASE TaskFails
  BY <1>f, <1>t, SweptFrame DEF TaskFails, db
<1>8. CASE Tick
  BY <1>8, <1>t, SweptTick
<1>9. CASE Crash
  BY <1>9, <1>t, SweptCrash
<1>10. CASE Restart
  BY <1>10, <1>t, SweptFrame DEF Restart, db
<1>11. CASE UNCHANGED vars
  BY <1>11, <1>t, SweptFrame DEF vars
<1> QED BY <1>1, <1>v, <1>2, <1>3, <1>4, <1>5, <1>6, <1>7, <1>f, <1>8, <1>9, <1>10, <1>11 DEF Next

\* However checks, renewals, deletion, crashes and the job interleave, a revoked
\* stamp that is still accepted from Redis has not yet outlived a job that ran
\* later than its revocation plus one call and one cache lifetime.
THEOREM RevokedSwept == Spec => []RevokedStampsAreSwept
<1>1. Init => SweptInv
  BY SweptInit
<1>2. SweptInv /\ [Next]_vars => SweptInv'
  BY SweptStep
<1>3. SweptInv => RevokedStampsAreSwept
  BY DEF SweptInv
<1> QED BY <1>1, <1>2, <1>3, PTL DEF Spec

-----------------------------------------------------------------------------
(* A renewal left to itself evicts its stamp.                              *)

\* While a renewal is alone nothing else is in flight, and it has the two
\* stores in the order its kind says; once done, no later check can cache the
\* stamp again, because the count no longer finds it.
AloneInv ==
  \A u \in Renewals : renewal[u].alone =>
    /\ renewal[u].pc \in {"remove", "write"} =>
         /\ alive
         /\ \A r \in Requests : ~RequestActive(r)
         /\ \A v \in Renewals \ {u} : ~RenewalActive(v)
         /\ renewal[u].pc = FirstStep(renewal[u].kind) => renewal[u].old = stamp
         /\ renewal[u].pc = "write" /\ renewal[u].kind = "stamp" =>
              renewal[u].old = stamp /\ score[stamp] = Absent
         /\ renewal[u].pc = "remove" /\ renewal[u].kind = "password" =>
              renewal[u].old < stamp
    /\ renewal[u].pc = "done" =>
         /\ renewal[u].old < stamp
         /\ score[renewal[u].old] = Absent
         /\ \A r \in Requests : request[r].pc = "counted" => request[r].stamp # renewal[u].old

EvictInv == TypeOK /\ AloneInv

\* What the step of one renewal, or the arrival of anything else, leaves of AloneInv
\* for a renewal v whose own record does not change.
Held(v) ==
  renewal[v].alone =>
    /\ renewal[v].pc \notin {"remove", "write"}
    /\ renewal[v].pc = "done" =>
         /\ renewal[v].old < stamp
         /\ score[renewal[v].old] = Absent
         /\ \A r \in Requests : request[r].pc = "counted" => request[r].stamp # renewal[v].old

LEMMA HeldEnough == (\A v \in Renewals : Held(v)') => AloneInv'
BY DEF Held, AloneInv

\* While anything else is in flight, no renewal is both alone and under way.
LEMMA OthersHeld ==
  ASSUME AloneInv, NEW v \in Renewals,
         \/ \E r \in Requests : RequestActive(r)
         \/ \E u \in Renewals \ {v} : RenewalActive(u)
  PROVE  Held(v)
BY DEF AloneInv, Held

LEMMA EvictInit == Init => EvictInv
BY InitType DEF Init, EvictInv, AloneInv, IdleRenewal

\* A guarded request disturbs the renewals under way and never caches a
\* stamp that is no longer in the row.
LEMMA EvictVerify ==
  ASSUME EvictInv, TypeOK', NEW r \in Requests,
         \/ \E s \in Stamps : VerifyCached(r, s)
         \/ VerifyCount(r)
         \/ VerifyCache(r)
  PROVE  EvictInv'
<1>t. TypeOK /\ AloneInv
  BY DEF EvictInv
<1> USE DEF clock, db
<1>1. ASSUME NEW s \in Stamps, VerifyCached(r, s) PROVE AloneInv'
  <2>1. UNCHANGED <<alive, stamp, score>> /\ renewal' = Disturbed
    BY <1>1 DEF VerifyCached
  <2>2. \A q \in Requests : request'[q].pc = "counted" => request'[q] = request[q]
    BY <1>1, <1>t DEF VerifyCached, TypeOK, Accepted, IdleRequest
  <2>3. \A v \in Renewals : Held(v)'
    BY <2>1, <2>2, <1>t DEF Held, AloneInv, Disturbed, RenewalActive, TypeOK, RenewalStates
  <2> QED BY <2>3, HeldEnough
<1>2. CASE VerifyCount(r)
  <2>1. UNCHANGED <<alive, stamp, score, renewal>> /\ RequestActive(r)
    BY <1>2 DEF VerifyCount, RequestActive
  <2>2. \A q \in Requests : request'[q].pc = "counted" =>
          \/ request'[q] = request[q]
          \/ request'[q].stamp = stamp
    BY <1>2, <1>t DEF VerifyCount, Counted, Rejected, IdleRequest, TypeOK, RequestStates
  <2>3. \A v \in Renewals : Held(v)
    BY <2>1, <1>t, OthersHeld
  <2>4. \A v \in Renewals : Held(v)'
    <3> SUFFICES ASSUME NEW v \in Renewals PROVE Held(v)'
      OBVIOUS
    <3>1. renewal[v].old \in Nat /\ stamp \in Nat
      BY <1>t DEF TypeOK, RenewalStates, Stamps
    <3> QED BY <2>1, <2>2, <2>3, <3>1 DEF Held
  <2> QED BY <2>4, HeldEnough DEF EvictInv
<1>3. CASE VerifyCache(r)
  <2>1. UNCHANGED <<alive, stamp, renewal>> /\ RequestActive(r) /\ request[r].pc = "counted"
    BY <1>3 DEF VerifyCache, RequestActive
  <2>2. \A q \in Requests : request'[q].pc = "counted" => request'[q] = request[q]
    BY <1>3, <1>t DEF VerifyCache, Accepted, IdleRequest, TypeOK
  <2>3. \A v \in Renewals : Held(v)
    BY <2>1, <1>t, OthersHeld
  <2>4. \A s \in Stamps \ {request[r].stamp} : score'[s] = score[s]
    BY <1>3, <1>t DEF VerifyCache, TypeOK
  <2>5. \A v \in Renewals : Held(v)'
    BY <2>1, <2>2, <2>3, <2>4, <1>t DEF Held, TypeOK, RenewalStates
  <2> QED BY <2>5, HeldEnough DEF EvictInv
<1> QED BY <1>1, <1>2, <1>3 DEF EvictInv

LEMMA EvictRead ==
  ASSUME EvictInv, TypeOK', NEW u \in Renewals, NEW kind \in Kinds, RenewRead(u, kind)
  PROVE  EvictInv'
<1>t. TypeOK /\ AloneInv
  BY DEF EvictInv
<1>1. UNCHANGED <<alive, stamp, score, request>> /\ alive
  BY DEF RenewRead, db, clock
<1>2. \A v \in Renewals \ {u} : Held(v)' /\ renewal'[v].pc = renewal[v].pc
  BY <1>1, <1>t DEF RenewRead, Held, AloneInv, Disturbed, RenewalActive, TypeOK, RenewalStates
<1>3. /\ renewal'[u].pc = FirstStep(kind) /\ renewal'[u].kind = kind
      /\ renewal'[u].old = stamp /\ kind \in {"password", "stamp"}
      /\ renewal'[u].alone => /\ \A r \in Requests : ~RequestActive(r)
                              /\ \A v \in Renewals \ {u} : ~RenewalActive(v)
  BY <1>t DEF RenewRead, Disturbed, TypeOK, Kinds
<1>4. CASE kind = "password"
  BY <1>1, <1>2, <1>3, <1>4 DEF AloneInv, Held, FirstStep, RequestActive, RenewalActive, EvictInv
<1>5. CASE kind = "stamp"
  BY <1>1, <1>2, <1>3, <1>5 DEF AloneInv, Held, FirstStep, RequestActive, RenewalActive, EvictInv
<1> QED BY <1>3, <1>4, <1>5

\* The other calls keep their records.
LEMMA AdvanceOthers ==
  ASSUME TypeOK, NEW u \in Renewals, NEW v \in Renewals \ {u}, NEW pc
  PROVE  Advance(u, pc)[v] = renewal[v]
BY DEF TypeOK, Advance

\* The record of a finished call, whatever the step that finished it.
LEMMA AdvanceRecord ==
  ASSUME TypeOK, NEW u \in Renewals, NEW pc
  PROVE  /\ pc # "done" => Advance(u, pc)[u] = [renewal[u] EXCEPT !.pc = pc]
         /\ pc = "done" /\ renewal[u].alone =>
              /\ Advance(u, pc)[u].pc = "done"
              /\ Advance(u, pc)[u].old = renewal[u].old
         /\ pc = "done" /\ ~renewal[u].alone => Advance(u, pc)[u] = IdleRenewal
<1>1. renewal \in [Renewals -> RenewalStates]
  BY DEF TypeOK
<1>2. CASE pc # "done"
  BY <1>1, <1>2 DEF Advance
<1>3. CASE pc = "done" /\ renewal[u].alone
  BY <1>1, <1>3 DEF Advance, IdleRenewal
<1>4. CASE pc = "done" /\ ~renewal[u].alone
  BY <1>1, <1>4 DEF Advance
<1> QED BY <1>2, <1>3, <1>4

LEMMA EvictWrite ==
  ASSUME EvictInv, TypeOK', NEW u \in Renewals, RenewWrite(u)
  PROVE  EvictInv'
<1>t. TypeOK /\ AloneInv
  BY DEF EvictInv
<1>1. UNCHANGED <<alive, score, request>> /\ RenewalActive(u) /\ renewal[u].pc = "write"
  BY DEF RenewWrite, clock, RenewalActive
<1>2. \A v \in Renewals \ {u} : Held(v)
  BY <1>1, <1>t, OthersHeld
<1>3. stamp \in Nat /\ \A v \in Renewals : renewal[v].old \in Nat /\ renewal[v].kind \in Kinds
  <2>1. stamp \in Stamps /\ \A v \in Renewals : renewal[v].old \in Stamps /\ renewal[v].kind \in Kinds
    BY <1>t DEF TypeOK, RenewalStates
  <2>2. Stamps \subseteq Nat
    BY ParameterAssumption DEF Stamps
  <2> QED BY <2>1, <2>2
<1>4. CASE alive
  <2>1. stamp' = stamp + 1 /\ renewal' = Advance(u, AfterWrite(renewal[u].kind))
    BY <1>4 DEF RenewWrite
  <2>2. \A v \in Renewals \ {u} : renewal'[v] = renewal[v]
    <3> DEFINE pc == AfterWrite(renewal[u].kind)
    <3>1. \A v \in Renewals \ {u} : Advance(u, pc)[v] = renewal[v]
      BY <1>t, AdvanceOthers
    <3> QED BY <2>1, <3>1
  <2>3. \A v \in Renewals \ {u} : Held(v)'
    BY <2>1, <2>2, <1>1, <1>2, <1>3 DEF Held
  <2>4. renewal[u].alone =>
          /\ renewal[u].old = stamp
          /\ \A r \in Requests : ~RequestActive(r)
          /\ \A v \in Renewals \ {u} : ~RenewalActive(v)
          /\ renewal[u].kind = "stamp" => score[stamp] = Absent
    BY <1>1, <1>3, <1>t DEF AloneInv, FirstStep, Kinds
  <2>5. CASE renewal[u].kind = "password"
    <3>1. renewal'[u] = [renewal[u] EXCEPT !.pc = "remove"]
      BY <2>1, <2>5, <1>t, AdvanceRecord DEF AfterWrite
    <3>2. /\ renewal'[u].pc = "remove" /\ renewal'[u].kind = "password"
          /\ renewal'[u].old = renewal[u].old /\ renewal'[u].alone = renewal[u].alone
      BY <3>1, <2>5, <1>t DEF TypeOK, RenewalStates
    <3> QED BY <2>1, <2>2, <2>3, <2>4, <3>2, <1>1, <1>3, <1>4
            DEF AloneInv, Held, EvictInv, RequestActive, RenewalActive, FirstStep
  <2>6. CASE renewal[u].kind = "stamp"
    <3>1. /\ renewal[u].alone => /\ renewal'[u].pc = "done"
                                 /\ renewal'[u].old = renewal[u].old
          /\ ~renewal[u].alone => renewal'[u] = IdleRenewal
      BY <2>1, <2>6, <1>t, AdvanceRecord DEF AfterWrite
    <3>2. Held(u)'
      BY <2>1, <2>4, <3>1, <2>6, <1>1, <1>3 DEF Held, IdleRenewal, RequestActive
    <3> QED BY <2>3, <3>2, HeldEnough DEF EvictInv
  <2> QED BY <2>5, <2>6, <1>3 DEF Kinds
<1>5. CASE ~alive
  <2>1. UNCHANGED stamp /\ renewal' = [renewal EXCEPT ![u] = IdleRenewal]
    BY <1>5 DEF RenewWrite
  <2>2. \A v \in Renewals : Held(v)'
    BY <2>1, <1>1, <1>2, <1>t DEF Held, IdleRenewal, TypeOK
  <2> QED BY <2>2, HeldEnough DEF EvictInv
<1> QED BY <1>4, <1>5

LEMMA EvictRemove ==
  ASSUME EvictInv, TypeOK', NEW u \in Renewals, RenewRemove(u)
  PROVE  EvictInv'
<1>t. TypeOK /\ AloneInv
  BY DEF EvictInv
<1>1. /\ UNCHANGED <<alive, stamp, request>> /\ RenewalActive(u) /\ renewal[u].pc = "remove"
      /\ renewal' = Advance(u, AfterRemove(renewal[u].kind))
  BY DEF RenewRemove, clock, db, RenewalActive
<1>2. \A v \in Renewals \ {u} : Held(v) /\ renewal'[v] = renewal[v]
  <2> DEFINE pc == AfterRemove(renewal[u].kind)
  <2>1. \A v \in Renewals \ {u} : Advance(u, pc)[v] = renewal[v]
    BY <1>t, AdvanceOthers
  <2>2. \A v \in Renewals \ {u} : Held(v)
    BY <1>1, <1>t, OthersHeld
  <2> QED BY <2>1, <2>2, <1>1
<1>3. stamp \in Stamps /\ \A v \in Renewals : renewal[v].old \in Stamps /\ renewal[v].kind \in Kinds
  BY <1>t DEF TypeOK, RenewalStates
<1>4. score'[renewal[u].old] = Absent /\ \A s \in Stamps : score'[s] \in {Absent, score[s]}
  BY <1>t, <1>3 DEF RenewRemove, ZRem, TypeOK
<1>5. \A v \in Renewals \ {u} : Held(v)'
  BY <1>1, <1>2, <1>3, <1>4 DEF Held
<1>6. renewal[u].alone =>
        /\ alive
        /\ renewal[u].kind = "stamp" => renewal[u].old = stamp
        /\ renewal[u].kind = "password" => renewal[u].old < stamp
        /\ \A r \in Requests : ~RequestActive(r)
        /\ \A v \in Renewals \ {u} : ~RenewalActive(v)
  BY <1>1, <1>t DEF AloneInv, FirstStep
<1>7. CASE renewal[u].kind = "password"
  <2>1. /\ renewal[u].alone => /\ renewal'[u].pc = "done"
                               /\ renewal'[u].old = renewal[u].old
        /\ ~renewal[u].alone => renewal'[u] = IdleRenewal
    BY <1>1, <1>7, <1>t, AdvanceRecord DEF AfterRemove
  <2>2. Held(u)'
    BY <2>1, <1>1, <1>4, <1>6, <1>7 DEF Held, IdleRenewal, RequestActive
  <2> QED BY <2>2, <1>5, HeldEnough DEF EvictInv
<1>8. CASE renewal[u].kind = "stamp"
  <2>1. renewal'[u] = [renewal[u] EXCEPT !.pc = "write"]
    BY <1>1, <1>8, <1>t, AdvanceRecord DEF AfterRemove
  <2>2. /\ renewal'[u].pc = "write" /\ renewal'[u].kind = "stamp"
        /\ renewal'[u].old = renewal[u].old /\ renewal'[u].alone = renewal[u].alone
    BY <2>1, <1>8, <1>t DEF TypeOK, RenewalStates
  <2> QED BY <2>2, <1>1, <1>2, <1>4, <1>5, <1>6, <1>8
          DEF AloneInv, Held, EvictInv, RequestActive, RenewalActive, FirstStep
<1> QED BY <1>7, <1>8, <1>3 DEF Kinds

LEMMA EvictStep == EvictInv /\ [Next]_vars => EvictInv'
<1> SUFFICES ASSUME EvictInv, [Next]_vars PROVE EvictInv'
  OBVIOUS
<1>t. TypeOK /\ TypeOK' /\ AloneInv
  BY StepType DEF EvictInv
<1>s. Stamps \subseteq Int /\ \A s \in Stamps : score[s] \in Int
  BY <1>t DEF TypeOK, Stamps
<1>1. ASSUME NEW r \in Requests, \/ \E s \in Stamps : VerifyCached(r, s)
                                 \/ VerifyCount(r)
                                 \/ VerifyCache(r)
      PROVE  EvictInv'
  BY <1>1, <1>t, EvictVerify
<1>2. ASSUME NEW u \in Renewals, NEW kind \in Kinds, RenewRead(u, kind) PROVE EvictInv'
  BY <1>2, <1>t, EvictRead
<1>3. ASSUME NEW u \in Renewals, RenewRefused(u) PROVE EvictInv'
  <2>1. /\ UNCHANGED <<alive, stamp, score, request>> /\ RenewalActive(u)
        /\ renewal' = [renewal EXCEPT ![u] = IdleRenewal]
    BY <1>3 DEF RenewRefused, db
  <2>2. \A v \in Renewals \ {u} : Held(v)
    BY <2>1, <1>t, OthersHeld
  <2>3. \A v \in Renewals : Held(v)'
    BY <2>1, <2>2, <1>t DEF Held, IdleRenewal, TypeOK
  <2> QED BY <2>3, <1>t, HeldEnough DEF EvictInv
<1>4. ASSUME NEW u \in Renewals, RenewWrite(u) PROVE EvictInv'
  BY <1>4, <1>t, EvictWrite
<1>5. ASSUME NEW u \in Renewals, RenewRemove(u) PROVE EvictInv'
  BY <1>5, <1>t, EvictRemove
<1>6. CASE DeleteAccount
  <2>1. UNCHANGED <<stamp, score, request>> /\ renewal' = Disturbed
    BY <1>6 DEF DeleteAccount
  <2>2. \A v \in Renewals : Held(v)'
    BY <2>1, <1>t DEF Held, AloneInv, Disturbed, RenewalActive, TypeOK, RenewalStates
  <2> QED BY <2>2, <1>t, HeldEnough DEF EvictInv
<1>7. CASE TaskSecurityStamp
  <2>1. UNCHANGED <<alive, stamp, request, renewal>>
    BY <1>7 DEF TaskSecurityStamp, db
  <2>2. \A s \in Stamps : score[s] = Absent => score'[s] = Absent
    BY <1>7, <1>t DEF TaskSecurityStamp, TypeOK
  <2>3. stamp \in Stamps /\ \A v \in Renewals : renewal[v].old \in Stamps
    BY <1>t DEF TypeOK, RenewalStates
  <2>4. AloneInv'
    BY <2>1, <2>2, <2>3, <1>t DEF AloneInv, RequestActive, RenewalActive
  <2> QED BY <2>4, <1>t DEF EvictInv
<1>v. ASSUME NEW r \in Requests, VerifyFails(r) PROVE EvictInv'
  BY <1>v, <1>t DEF VerifyFails, db, EvictInv, AloneInv, RequestActive, RenewalActive, IdleRequest
<1>f. CASE TaskFails
  BY <1>f, <1>t DEF TaskFails, db, EvictInv, AloneInv, RequestActive, RenewalActive
<1>8. CASE Tick
  BY <1>8, <1>t DEF Tick, db, EvictInv, AloneInv, RequestActive, RenewalActive
<1>9. CASE Crash
  BY <1>9, <1>t DEF Crash, EvictInv, AloneInv, IdleRenewal
<1>10. CASE Restart
  BY <1>10, <1>t DEF Restart, db, EvictInv, AloneInv, RequestActive, RenewalActive
<1>11. CASE UNCHANGED vars
  BY <1>11, <1>t DEF vars, EvictInv, AloneInv, RequestActive, RenewalActive
<1> QED BY <1>1, <1>v, <1>2, <1>3, <1>4, <1>5, <1>6, <1>7, <1>f, <1>8, <1>9, <1>10, <1>11 DEF Next

\* A renewal that ran with nothing beside it leaves its old stamp out of Redis
\* for good, whether the row or the sorted set was written first.
THEOREM UndisturbedEvicts == Spec => []UndisturbedRenewalEvicts
<1>1. Init => EvictInv
  BY EvictInit
<1>2. EvictInv /\ [Next]_vars => EvictInv'
  BY EvictStep
<1>3. EvictInv => UndisturbedRenewalEvicts
  BY DEF EvictInv, AloneInv, UndisturbedRenewalEvicts
<1> QED BY <1>1, <1>2, <1>3, PTL DEF Spec


-----------------------------------------------------------------------------
(* Refusals.                                                               *)

\* A stamp that has left the row never returns to it.
LEMMA RevokedStays ==
  ASSUME TypeOK, [Next]_vars, NEW s \in Stamps, Revoked(s)
  PROVE  Revoked(s)'
<1>1. stamp \in Int /\ s \in Int
  BY ParameterAssumption DEF TypeOK, Stamps
<1>2. \/ stamp' = stamp /\ (alive' = alive \/ alive' = FALSE)
      \/ alive /\ stamp' = stamp + 1
  BY DEF Next, vars, db, VerifyCached, VerifyCount, VerifyCache, VerifyFails, TaskFails, RenewRead, RenewRefused,
         RenewWrite, RenewRemove, DeleteAccount, TaskSecurityStamp, Tick, Crash, Restart
<1>3. CASE stamp' = stamp /\ (alive' = alive \/ alive' = FALSE)
  BY <1>3 DEF Revoked
<1>4. CASE alive /\ stamp' = stamp + 1
  <2>1. s < stamp
    BY <1>4 DEF Revoked
  <2> QED BY <1>1, <1>4, <2>1 DEF Revoked
<1> QED BY <1>2, <1>3, <1>4

\* A token presented carries a stamp that was issued, and every refused one
\* has been revoked.
RefusedInv ==
  \A r \in Requests :
    /\ request[r].stamp <= stamp
    /\ request[r].pc = "rejected" => Revoked(request[r].stamp)

LEMMA RefusedStep == TypeOK /\ RefusedInv /\ [Next]_vars => RefusedInv'
<1> SUFFICES ASSUME TypeOK, RefusedInv, [Next]_vars, NEW r \in Requests
             PROVE  /\ (request[r].stamp <= stamp)'
                    /\ (request[r].pc = "rejected" => Revoked(request[r].stamp))'
  BY DEF RefusedInv
<1>1. /\ stamp \in Nat /\ 1 <= stamp /\ stamp' \in Nat /\ stamp <= stamp'
      /\ request[r].stamp \in Nat /\ request'[r].stamp \in Nat /\ request[r].stamp \in Stamps
  <2>1. stamp \in Stamps /\ request[r].stamp \in Stamps /\ request'[r].stamp \in Stamps
    BY StepType DEF TypeOK, RequestStates
  <2>2. stamp' = stamp \/ stamp' = stamp + 1
    BY DEF Next, vars, db, VerifyCached, VerifyCount, VerifyCache, VerifyFails, TaskFails, RenewRead, RenewRefused,
         RenewWrite, RenewRemove, DeleteAccount, TaskSecurityStamp, Tick, Crash, Restart
  <2> QED BY <2>1, <2>2, ParameterAssumption DEF Stamps
<1>2. CASE request'[r] = request[r]
  <2>1. Revoked(request[r].stamp) => (request[r].stamp < stamp' \/ (request[r].stamp = stamp' /\ ~alive'))
    BY <1>1, RevokedStays DEF Revoked
  <2>2. request[r].stamp <= stamp /\
          (request[r].pc = "rejected" =>
            request[r].stamp < stamp' \/ (request[r].stamp = stamp' /\ ~alive'))
    <3>1. request[r].stamp <= stamp /\ (request[r].pc = "rejected" => Revoked(request[r].stamp))
      BY DEF RefusedInv
    <3>2. CASE request[r].pc = "rejected"
      <4>1. Revoked(request[r].stamp)
        BY <3>1, <3>2
      <4> QED BY <1>1, <2>1, <3>1, <4>1
    <3> QED BY <3>1, <3>2
  <2> QED BY <1>1, <1>2, <2>2 DEF Revoked
<1>3. CASE request'[r].pc # "rejected" /\ request'[r].stamp <= stamp
  BY <1>1, <1>3
<1>4. CASE VerifyCount(r) /\ ~Counted(request[r].stamp)
  <2>1. request'[r].stamp = request[r].stamp /\ UNCHANGED <<alive, stamp>>
    BY <1>4 DEF VerifyCount, Rejected, IdleRequest, TypeOK, db
  <2>2. request[r].stamp <= stamp
    BY DEF RefusedInv
  <2>3. Revoked(request[r].stamp)
    BY <1>1, <1>4, <2>2 DEF Counted, Revoked
  <2> QED BY <1>1, <2>1, <2>2, <2>3 DEF Revoked
<1>5. \/ request'[r] = request[r]
      \/ request'[r].pc # "rejected" /\ request'[r].stamp <= stamp
      \/ VerifyCount(r) /\ ~Counted(request[r].stamp)
  <2>1. ASSUME NEW q \in Requests, NEW s \in Stamps, VerifyCached(q, s) PROVE <1>5
    BY <2>1, <1>1 DEF VerifyCached, Accepted, IdleRequest, TypeOK
  <2>2. ASSUME NEW q \in Requests, VerifyCount(q) PROVE <1>5
    <3>1. CASE q # r
      BY <2>2, <3>1 DEF VerifyCount, Rejected, TypeOK
    <3>2. CASE q = r /\ Counted(request[r].stamp)
      BY <2>2, <3>2, <1>1 DEF VerifyCount, Counted, TypeOK, RequestStates
    <3> QED BY <2>2, <3>1, <3>2
  <2>3. ASSUME NEW q \in Requests, VerifyCache(q) PROVE <1>5
    BY <2>3, <1>1 DEF VerifyCache, Accepted, IdleRequest, TypeOK
  <2>4. CASE Crash
    BY <2>4, <1>1 DEF Crash, IdleRequest
  <2>5. ASSUME NEW q \in Requests, VerifyFails(q) PROVE <1>5
    BY <2>5, <1>1 DEF VerifyFails, IdleRequest, TypeOK
  <2> QED BY <2>1, <2>2, <2>3, <2>4, <2>5
          DEF Next, vars, db, RenewRead, RenewRefused, RenewWrite, RenewRemove,
              DeleteAccount, TaskSecurityStamp, TaskFails, Tick, Restart
<1> QED BY <1>2, <1>3, <1>4, <1>5

\* verifySecurityStamp refuses only stamps that are no longer the user's.
THEOREM NeverWronglyRefused == Spec => []OnlyRevokedRejected
<1>1. Init => TypeOK /\ RefusedInv
  BY InitType DEF Init, RefusedInv, IdleRequest
<1>2. TypeOK /\ RefusedInv /\ [Next]_vars => (TypeOK /\ RefusedInv)'
  BY StepType, RefusedStep
<1>3. RefusedInv => OnlyRevokedRejected
  BY DEF RefusedInv, OnlyRevokedRejected
<1> QED BY <1>1, <1>2, <1>3, PTL DEF Spec
=============================================================================
