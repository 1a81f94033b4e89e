----------------------- MODULE OperatorProcessProofs -----------------------
(***************************************************************************)
(* What holds of OperatorProcess for any number of processes, any lease    *)
(* that is longer than a leader can outlive its last write, and any number *)
(* of faults.                                                              *)
(***************************************************************************)
EXTENDS OperatorProcess, TLAPS

Bound == RetryPeriod + RenewDeadline + AnswerDelay

\* A leader's lease is its own, and younger than its time to give up allows.
LeaderHolds ==
    \A p \in Proc : elector[p] = "leader" => holder = Identity(p) /\ leaseAge + left[p] <= Bound

\* A candidate has not observed the lease for longer than it has been as it is.
ObservedLate == \A p \in Proc : seen[p] => age[p] <= leaseAge

\* Only a leader has a goroutine "run", if there is an election.
RunnersLead ==
    \A p \in Proc :
        /\ elect /\ proc[p].run # "none" => elector[p] = "leader"
        /\ elector[p] # "off" => elect

\* The controller comes after the context, and its workers after its caches.
ControllerOK(p) ==
    /\ proc[p].ctrl # "none" \/ proc[p].loops => proc[p].run \in {"informers", "blocked"}
    /\ Controls(p) => \A c \in Cache : proc[p].caches[c] = "synced"

ControllersOK == \A p \in Proc : ControllerOK(p)

LeaseInv == TypeOK /\ LeaderHolds /\ ObservedLate /\ RunnersLead
IInv == LeaseInv /\ ControllersOK

-----------------------------------------------------------------------------
(***************************************************************************)
(* Processes.                                                              *)
(***************************************************************************)
LEMMA FreshOK == Fresh \in Process
  <1>1. [c \in Cache |-> "none"] \in [Cache -> {"none", "requested", "started", "synced"}]
    OBVIOUS
  <1> QED BY <1>1 DEF Fresh, Process

LEMMA ProcessFields ==
    ASSUME NEW P \in Process
    PROVE  /\ P.cancelled \in BOOLEAN /\ P.listed \in BOOLEAN /\ P.loops \in BOOLEAN
           /\ P.run \in {"none", "context", "controllers", "informers", "blocked"}
           /\ P.caches \in [Cache -> {"none", "requested", "started", "synced"}]
           /\ P.ctrl \in {"none", "waiting", "working", "ended"}
  BY DEF Process

\* Two processes never have the same identity, on one host or on two.
LEMMA IdentityUnique ==
    ASSUME NEW p \in Proc, NEW q \in Proc, Identity(p) = Identity(q)
    PROVE  p = q
  BY DEF Identity

\* The lease names one process, so there is one leader.
LEMMA OneLeader ==
    ASSUME LeaderHolds, NEW p \in Proc, NEW q \in Proc,
           elector[p] = "leader", elector[q] = "leader"
    PROVE  p = q
  BY IdentityUnique DEF LeaderHolds

\* Nobody takes the lease from a leader.
LEMMA NoLeaderToTakeFrom ==
    ASSUME LeaseInv, NEW p \in Proc, MayTake(p), NEW q \in Proc
    PROVE  elector[q] # "leader"
  <1> SUFFICES ASSUME elector[q] = "leader" PROVE FALSE
    OBVIOUS
  <1>1. p # q
    BY DEF MayTake
  <1>2. holder = Identity(q) /\ leaseAge + left[q] <= Bound
    BY DEF LeaseInv, LeaderHolds
  <1>3. holder \notin {NoRecord, Identity(p)}
    BY <1>1, <1>2, IdentityUnique, ProcessAssumption
  <1>4. seen[p] /\ age[p] >= LeaseDuration
    BY <1>3 DEF MayTake
  <1>5. leaseAge >= LeaseDuration
    BY <1>4, ProcessAssumption DEF LeaseInv, TypeOK, ObservedLate
  <1>6. left[q] \in Nat
    BY ProcessAssumption DEF LeaseInv, TypeOK
  <1> QED BY <1>2, <1>5, <1>6, ProcessAssumption DEF Bound, LeaseInv, TypeOK

-----------------------------------------------------------------------------
(***************************************************************************)
(* The steps of the election.                                              *)
(***************************************************************************)
LEMMA InitHolds == Init => IInv
  <1> SUFFICES ASSUME Init PROVE IInv
    OBVIOUS
  <1>1. TypeOK
    BY FreshOK, ProcessAssumption DEF Init, TypeOK
  <1>2. LeaderHolds /\ ObservedLate /\ RunnersLead
    BY DEF Init, LeaderHolds, ObservedLate, RunnersLead, Fresh
  <1>3. ControllersOK
    BY DEF Init, ControllersOK, ControllerOK, Controls, Fresh
  <1> QED BY <1>1, <1>2, <1>3 DEF IInv, LeaseInv

LEMMA FaultOK ==
    ASSUME TypeOK, Fault
    PROVE  faults' \in 0 .. MaxFaults
  BY ProcessAssumption DEF TypeOK, Fault

\* Whatever way a process ends, it takes its goroutines with it.
LEMMA EndedHolds ==
    ASSUME IInv, NEW p \in Proc, Ended(p), faults' \in 0 .. MaxFaults
    PROVE  IInv'
  <1> USE DEF IInv, LeaseInv
  <1>1. TypeOK'
    BY FreshOK, ProcessAssumption DEF TypeOK, Ended, config
  <1>2. LeaderHolds'
    BY IdentityUnique DEF TypeOK, Ended, LeaderHolds, Bound
  <1>3. ObservedLate'
    BY DEF TypeOK, Ended, ObservedLate
  <1>4. RunnersLead'
    BY DEF TypeOK, Ended, RunnersLead, Fresh, config
  <1>5. ControllersOK'
    BY DEF TypeOK, Ended, ControllersOK, ControllerOK, Controls, Fresh
  <1> QED BY <1>1, <1>2, <1>3, <1>4, <1>5

LEMMA ServeHolds ==
    ASSUME IInv, NEW p \in Proc, Serve(p)
    PROVE  IInv'
  <1> USE DEF IInv, LeaseInv
  <1>1. CASE elect
    <2>1. /\ elector' = [elector EXCEPT ![p] = "candidate"]
          /\ UNCHANGED <<config, crds, holder, leaseAge, seen, age, left, proc, faults>>
      BY <1>1 DEF Serve
    <2>2. TypeOK' /\ LeaderHolds' /\ ObservedLate' /\ ControllersOK'
      BY <2>1 DEF TypeOK, LeaderHolds, ObservedLate, ControllersOK, ControllerOK, Controls,
                  config, Bound
    <2>3. RunnersLead'
      BY <2>1 DEF TypeOK, RunnersLead, Serve, Up, config
    <2> QED BY <2>2, <2>3
  <1>2. CASE ~elect
    <2>1. /\ proc' = [proc EXCEPT ![p].run = "context"]
          /\ UNCHANGED <<config, crds, holder, leaseAge, elector, seen, age, left, faults>>
      BY <1>2 DEF Serve
    <2>2. TypeOK'
      BY <2>1 DEF TypeOK, Process, config
    <2>3. LeaderHolds' /\ ObservedLate' /\ RunnersLead'
      BY <2>1, <1>2 DEF LeaderHolds, ObservedLate, RunnersLead, config, Bound
    <2>4. ControllersOK'
      BY <2>1 DEF TypeOK, Process, ControllersOK, ControllerOK, Controls, Serve, Up
    <2> QED BY <2>2, <2>3, <2>4
  <1> QED BY <1>1, <1>2

LEMMA ObserveHolds ==
    ASSUME IInv, NEW p \in Proc, Observe(p)
    PROVE  IInv'
  <1> USE DEF IInv, LeaseInv
  <1>1. TypeOK'
    BY ProcessAssumption DEF Observe, TypeOK, config
  <1>2. LeaderHolds' /\ RunnersLead' /\ ControllersOK'
    BY DEF Observe, LeaderHolds, RunnersLead, ControllersOK, ControllerOK, Controls, config, Bound
  <1>3. ObservedLate'
    BY ProcessAssumption DEF Observe, TypeOK, ObservedLate
  <1> QED BY <1>1, <1>2, <1>3

\* A write makes everybody's observation of the lease out of date.
LEMMA WriteHolds ==
    ASSUME TypeOK, NEW p \in Proc, WriteLease(p)
    PROVE  /\ ObservedLate'
           /\ holder' = Identity(p) /\ leaseAge' = 0
           /\ holder' \in {Identity(q) : q \in Proc} \cup {NoRecord, Gone}
           /\ leaseAge' \in 0 .. LeaseDuration
           /\ seen' \in [Proc -> BOOLEAN]
           /\ age' \in [Proc -> 0 .. LeaseDuration]
  BY ProcessAssumption DEF WriteLease, TypeOK, ObservedLate

LEMMA AnsweredHolds ==
    ASSUME TypeOK, NEW p \in Proc, Answered(p)
    PROVE  /\ left' \in [Proc -> 0 .. Bound]
           /\ \A q \in Proc : q # p => left'[q] = left[q]
  <1>1. PICK d \in 0 .. AnswerDelay :
            left' = [left EXCEPT ![p] = RetryPeriod + RenewDeadline + d]
    BY DEF Answered
  <1>2. RetryPeriod + RenewDeadline + d \in 0 .. Bound
    BY <1>1, ProcessAssumption DEF Bound
  <1> QED BY <1>1, <1>2 DEF TypeOK, Bound

LEMMA AcquireHolds ==
    ASSUME IInv, NEW p \in Proc, Acquire(p)
    PROVE  IInv'
  <1> USE DEF IInv, LeaseInv
  <1>1. MayTake(p) /\ WriteLease(p) /\ Answered(p)
    BY DEF Acquire
  <1>2. /\ elector' = [elector EXCEPT ![p] = "leader"]
        /\ proc' = [proc EXCEPT ![p].run = "context"]
        /\ UNCHANGED <<elect, enabled, crds, faults>>
    BY DEF Acquire, config
  <1>3. elect /\ proc[p].run = "none"
    BY <1>1 DEF MayTake, RunnersLead
  <1>4. proc'[p] = [proc[p] EXCEPT !.run = "context"] /\ proc[p] \in Process
    BY <1>2 DEF TypeOK
  <1>5. proc'[p] \in Process
    BY <1>4, ProcessFields DEF Process
  <1>6. TypeOK'
    BY <1>1, <1>2, <1>5, WriteHolds, AnsweredHolds DEF TypeOK, Bound
  <1>7. LeaderHolds'
    <2> SUFFICES ASSUME NEW q \in Proc, elector'[q] = "leader"
                 PROVE  holder' = Identity(q) /\ leaseAge' + left'[q] <= Bound
      BY DEF LeaderHolds, Bound
    <2>1. q = p
      BY <1>1, <1>2, NoLeaderToTakeFrom DEF TypeOK
    <2> QED BY <2>1, <1>1, WriteHolds, AnsweredHolds, ProcessAssumption DEF Bound
  <1>8. RunnersLead'
    BY <1>2, <1>3 DEF TypeOK, RunnersLead
  <1>9. ControllersOK'
    BY <1>2, <1>3, <1>4 DEF TypeOK, Process, ControllersOK, ControllerOK, Controls
  <1> QED BY <1>1, <1>6, <1>7, <1>8, <1>9, WriteHolds

\* A renewal, or one whose answer is lost: the leader's own lease is as new as can be.
LEMMA RenewHolds ==
    ASSUME IInv, NEW p \in Proc, Renew(p)
    PROVE  IInv'
  <1> USE DEF IInv, LeaseInv
  <1>1. /\ elector[p] = "leader" /\ holder = Identity(p)
        /\ WriteLease(p) /\ Answered(p)
        /\ UNCHANGED <<elect, enabled, crds, elector, proc, faults>>
    BY DEF Renew, MayRenew, config
  <1>2. TypeOK'
    BY <1>1, WriteHolds, AnsweredHolds DEF TypeOK, Bound
  <1>3. LeaderHolds'
    <2> SUFFICES ASSUME NEW q \in Proc, elector'[q] = "leader"
                 PROVE  holder' = Identity(q) /\ leaseAge' + left'[q] <= Bound
      BY DEF LeaderHolds, Bound
    <2>1. q = p
      BY <1>1, OneLeader
    <2> QED BY <2>1, <1>1, WriteHolds, AnsweredHolds, ProcessAssumption DEF Bound
  <1>4. RunnersLead' /\ ControllersOK'
    BY <1>1 DEF RunnersLead, ControllersOK, ControllerOK, Controls
  <1> QED BY <1>1, <1>2, <1>3, <1>4, WriteHolds

LEMMA AnswerLostHolds ==
    ASSUME IInv, NEW p \in Proc, AnswerLost(p)
    PROVE  IInv'
  <1> USE DEF IInv, LeaseInv
  <1>1. /\ MayTake(p) \/ MayRenew(p)
        /\ WriteLease(p) /\ Fault
        /\ UNCHANGED <<elect, enabled, crds, elector, left, proc>>
    BY DEF AnswerLost, config
  <1>2. TypeOK'
    BY <1>1, WriteHolds, FaultOK DEF TypeOK
  <1>3. LeaderHolds'
    <2> SUFFICES ASSUME NEW q \in Proc, elector'[q] = "leader"
                 PROVE  holder' = Identity(q) /\ leaseAge' + left'[q] <= Bound
      BY DEF LeaderHolds, Bound
    <2>1. MayRenew(p) /\ elector[q] = "leader"
      BY <1>1, NoLeaderToTakeFrom
    <2>2. q = p
      BY <2>1, OneLeader DEF MayRenew
    <2> QED BY <2>2, <1>1, WriteHolds, ProcessAssumption DEF TypeOK, Bound
  <1>4. RunnersLead' /\ ControllersOK'
    BY <1>1 DEF RunnersLead, ControllersOK, ControllerOK, Controls
  <1> QED BY <1>1, <1>2, <1>3, <1>4, WriteHolds

LEMMA TickHolds ==
    ASSUME IInv, Tick
    PROVE  IInv'
  <1> USE DEF IInv, LeaseInv
  <1>1. \A n \in 0 .. LeaseDuration :
            Older(n) \in 0 .. LeaseDuration /\ n <= Older(n) /\ Older(n) <= n + 1
    BY ProcessAssumption DEF Older
  <1>2. \A m, n \in 0 .. LeaseDuration : m <= n => Older(m) <= Older(n)
    BY ProcessAssumption DEF Older
  <1> HIDE DEF Older
  <1>3. \A p \in Proc : elector[p] = "leader" => left[p] - 1 \in 0 .. Bound
    BY ProcessAssumption DEF Tick, TypeOK, Bound
  <1>4. TypeOK'
    BY <1>1, <1>3 DEF Tick, TypeOK, config, Bound
  <1>5. LeaderHolds'
    <2> SUFFICES ASSUME NEW p \in Proc, elector[p] = "leader"
                 PROVE  holder = Identity(p) /\ Older(leaseAge) + (left[p] - 1) <= Bound
      BY DEF Tick, LeaderHolds, Bound
    <2> QED BY <1>1, ProcessAssumption DEF TypeOK, LeaderHolds, Bound
  <1>6. ObservedLate'
    BY <1>2 DEF Tick, TypeOK, ObservedLate
  <1>7. RunnersLead' /\ ControllersOK'
    BY DEF Tick, RunnersLead, ControllersOK, ControllerOK, Controls, config
  <1> QED BY <1>4, <1>5, <1>6, <1>7

-----------------------------------------------------------------------------
(***************************************************************************)
(* The steps of the goroutines: the lease is left alone.                   *)
(***************************************************************************)
LEMMA GoroutineHolds ==
    ASSUME IInv, NEW p \in Proc, NEW P \in Process,
           proc' = [proc EXCEPT ![p] = P],
           elect /\ P.run # "none" => elector[p] = "leader",
           P.ctrl # "none" \/ P.loops => P.run \in {"informers", "blocked"},
           P.ctrl = "working" \/ P.loops => \A c \in Cache : P.caches[c] = "synced",
           UNCHANGED <<config, crds, lease>>, faults' \in 0 .. MaxFaults
    PROVE  IInv'
  <1> USE DEF IInv, LeaseInv
  <1>1. UNCHANGED <<elect, enabled, crds, holder, leaseAge, elector, seen, age, left>>
    BY DEF config, lease
  <1>2. proc'[p] = P /\ \A q \in Proc : q # p => proc'[q] = proc[q]
    BY DEF TypeOK
  <1>3. TypeOK'
    BY <1>1 DEF TypeOK
  <1>4. LeaderHolds' /\ ObservedLate'
    BY <1>1 DEF LeaderHolds, ObservedLate, Bound
  <1>5. RunnersLead'
    BY <1>1, <1>2 DEF RunnersLead
  <1>6. ControllersOK'
    BY <1>2 DEF ControllersOK, ControllerOK, Controls
  <1> QED BY <1>3, <1>4, <1>5, <1>6

LEMMA RunHolds ==
    ASSUME IInv, NEW p \in Proc, RunStep(p)
    PROVE  IInv'
  <1> DEFINE P == proc[p]
  <1> USE DEF IInv, LeaseInv
  <1>1. P \in Process /\ faults \in 0 .. MaxFaults
    BY DEF TypeOK
  <1>2. /\ elect /\ P.run # "none" => elector[p] = "leader"
        /\ P.ctrl # "none" \/ P.loops => P.run \in {"informers", "blocked"}
        /\ P.ctrl = "working" \/ P.loops => \A c \in Cache : P.caches[c] = "synced"
    BY DEF RunnersLead, ControllersOK, ControllerOK, Controls
  <1>3. CASE CreateContext(p)
    <2>1. PICK listed \in BOOLEAN :
              /\ Step(p, "context", [P EXCEPT !.run = "controllers", !.listed = listed])
              /\ faults' = faults \/ Fault
      BY <1>3 DEF CreateContext
    <2> DEFINE Q == [P EXCEPT !.run = "controllers", !.listed = listed]
    <2>2. Q \in Process /\ Q.cancelled = P.cancelled
      BY <1>1, ProcessFields DEF Process
    <2>3. [Q EXCEPT !.cancelled = P.cancelled] = Q
      BY <2>2 DEF Process
    <2>4. proc' = [proc EXCEPT ![p] = Q] /\ P.run = "context" /\ UNCHANGED <<config, crds, lease>>
      BY <2>1, <2>3 DEF Step
    <2>5. /\ Q.run = "controllers" /\ Q.ctrl = P.ctrl /\ Q.loops = P.loops
      BY <1>1 DEF Process
    <2>6. faults' \in 0 .. MaxFaults
      BY <1>1, <2>1, FaultOK
    <2> QED BY <1>2, <2>2, <2>4, <2>5, <2>6, GoroutineHolds
  <1>4. CASE StartControllers(p)
    <2> DEFINE Q == IF enabled /\ P.listed
                    THEN [P EXCEPT !.run = "informers", !.ctrl = "waiting",
                                   !.caches = InformerFor(P.caches)]
                    ELSE [P EXCEPT !.run = "informers"]
    <2>1. InformerFor(P.caches) \in [Cache -> {"none", "requested", "started", "synced"}]
      BY <1>1, ProcessFields DEF InformerFor
    <2>2. Q \in Process /\ Q.cancelled = P.cancelled
      BY <1>1, <2>1, ProcessFields DEF Process
    <2>3. [Q EXCEPT !.cancelled = P.cancelled] = Q
      BY <2>2 DEF Process
    <2>4. /\ proc' = [proc EXCEPT ![p] = Q] /\ P.run = "controllers"
          /\ UNCHANGED <<config, crds, lease, faults>>
      BY <1>4, <2>3 DEF StartControllers, Step
    <2>5. Q.run = "informers" /\ Q.ctrl \in {P.ctrl, "waiting"} /\ Q.loops = P.loops
      BY <1>1 DEF Process
    <2> HIDE DEF Q
    <2> QED BY <1>1, <1>2, <2>2, <2>4, <2>5, GoroutineHolds
  <1>5. CASE StartInformers(p)
    <2> DEFINE Q == [P EXCEPT !.run = "blocked", !.caches = Running(P.caches)]
    <2>1. /\ Running(P.caches) \in [Cache -> {"none", "requested", "started", "synced"}]
          /\ \A c \in Cache : P.caches[c] = "synced" => Running(P.caches)[c] = "synced"
      BY <1>1, ProcessFields DEF Running
    <2>2. Q \in Process /\ Q.cancelled = P.cancelled
      BY <1>1, <2>1, ProcessFields DEF Process
    <2>3. [Q EXCEPT !.cancelled = P.cancelled] = Q
      BY <2>2 DEF Process
    <2>4. /\ proc' = [proc EXCEPT ![p] = Q] /\ P.run = "informers"
          /\ UNCHANGED <<config, crds, lease, faults>>
      BY <1>5, <2>3 DEF StartInformers, Step
    <2>5. /\ Q.run = "blocked" /\ Q.ctrl = P.ctrl /\ Q.loops = P.loops
          /\ Q.caches = Running(P.caches)
      BY <1>1 DEF Process
    <2> HIDE DEF Q
    <2> QED BY <1>1, <1>2, <2>1, <2>2, <2>4, <2>5, GoroutineHolds
  <1> QED BY <1>3, <1>4, <1>5 DEF RunStep

LEMMA ControllerHolds ==
    ASSUME IInv, NEW p \in Proc, ControllerStep(p)
    PROVE  IInv'
  <1> DEFINE P == proc[p]
  <1> USE DEF IInv, LeaseInv
  <1>1. P \in Process /\ faults \in 0 .. MaxFaults
    BY DEF TypeOK
  <1>2. /\ elect /\ P.run # "none" => elector[p] = "leader"
        /\ P.ctrl # "none" \/ P.loops => P.run \in {"informers", "blocked"}
        /\ P.ctrl = "working" \/ P.loops => \A c \in Cache : P.caches[c] = "synced"
    BY DEF RunnersLead, ControllersOK, ControllerOK, Controls
  <1>3. CASE Work(p)
    <2> DEFINE Q == [P EXCEPT !.ctrl = "working"]
    <2>1. /\ Q \in Process /\ Q.ctrl = "working"
          /\ Q.run = P.run /\ Q.loops = P.loops /\ Q.caches = P.caches
      BY <1>1, ProcessFields DEF Process
    <2>2. /\ proc' = [proc EXCEPT ![p] = Q] /\ P.ctrl = "waiting"
          /\ \A c \in Cache : P.caches[c] = "synced"
          /\ UNCHANGED <<config, crds, lease, faults>>
      BY <1>3 DEF Work, HasSynced
    <2> HIDE DEF Q
    <2> QED BY <1>1, <1>2, <2>1, <2>2, GoroutineHolds
  <1>4. CASE StartLoop(p)
    <2> DEFINE Q == [P EXCEPT !.loops = TRUE]
    <2>1. /\ Q \in Process /\ Q.ctrl = P.ctrl
          /\ Q.run = P.run /\ Q.caches = P.caches
      BY <1>1, ProcessFields DEF Process
    <2>2. /\ proc' = [proc EXCEPT ![p] = Q] /\ P.ctrl = "working"
          /\ UNCHANGED <<config, crds, lease, faults>>
      BY <1>4 DEF StartLoop
    <2> HIDE DEF Q
    <2> QED BY <1>1, <1>2, <2>1, <2>2, GoroutineHolds
  <1>5. CASE StopWorkers(p)
    <2> DEFINE Q == [P EXCEPT !.ctrl = "ended"]
    <2>1. /\ Q \in Process /\ Q.ctrl = "ended"
          /\ Q.run = P.run /\ Q.loops = P.loops /\ Q.caches = P.caches
      BY <1>1, ProcessFields DEF Process
    <2>2. /\ proc' = [proc EXCEPT ![p] = Q] /\ P.ctrl # "none"
          /\ UNCHANGED <<config, crds, lease, faults>>
      BY <1>5 DEF StopWorkers
    <2> HIDE DEF Q
    <2> QED BY <1>1, <1>2, <2>1, <2>2, GoroutineHolds
  <1> QED BY <1>3, <1>4, <1>5 DEF ControllerStep

LEMMA SyncHolds ==
    ASSUME IInv, NEW p \in Proc, NEW c \in Cache, SyncCache(p, c)
    PROVE  IInv'
  <1> DEFINE P == proc[p]
             Q == [P EXCEPT !.caches[c] = "synced"]
  <1> USE DEF IInv, LeaseInv
  <1>1. P \in Process /\ faults \in 0 .. MaxFaults
    BY DEF TypeOK
  <1>2. /\ elect /\ P.run # "none" => elector[p] = "leader"
        /\ P.ctrl # "none" \/ P.loops => P.run \in {"informers", "blocked"}
        /\ P.ctrl = "working" \/ P.loops => \A d \in Cache : P.caches[d] = "synced"
    BY DEF RunnersLead, ControllersOK, ControllerOK, Controls
  <1>3. /\ Q \in Process /\ Q.ctrl = P.ctrl /\ Q.run = P.run /\ Q.loops = P.loops
        /\ \A d \in Cache : P.caches[d] = "synced" => Q.caches[d] = "synced"
    BY <1>1, ProcessFields DEF Process
  <1>4. /\ proc' = [proc EXCEPT ![p] = Q]
        /\ UNCHANGED <<config, crds, lease, faults>>
    BY DEF SyncCache
  <1> HIDE DEF Q
  <1> QED BY <1>1, <1>2, <1>3, <1>4, GoroutineHolds

LEMMA CancelHolds ==
    ASSUME IInv, NEW p \in Proc, Cancel(p)
    PROVE  IInv'
  <1> DEFINE P == proc[p]
             Q == [P EXCEPT !.cancelled = TRUE]
  <1> USE DEF IInv, LeaseInv
  <1>1. P \in Process
    BY DEF TypeOK
  <1>2. /\ elect /\ P.run # "none" => elector[p] = "leader"
        /\ P.ctrl # "none" \/ P.loops => P.run \in {"informers", "blocked"}
        /\ P.ctrl = "working" \/ P.loops => \A d \in Cache : P.caches[d] = "synced"
    BY DEF RunnersLead, ControllersOK, ControllerOK, Controls
  <1>3. /\ Q \in Process /\ Q.ctrl = P.ctrl /\ Q.run = P.run /\ Q.loops = P.loops
        /\ Q.caches = P.caches
    BY <1>1, ProcessFields DEF Process
  <1>4. /\ proc' = [proc EXCEPT ![p] = Q]
        /\ UNCHANGED <<config, crds, lease>>
    BY DEF Cancel
  <1>5. faults' \in 0 .. MaxFaults
    BY FaultOK DEF Cancel
  <1> HIDE DEF Q
  <1> QED BY <1>1, <1>2, <1>3, <1>4, <1>5, GoroutineHolds

LEMMA InstallHolds ==
    ASSUME IInv, NEW c \in Resource, InstallCrd(c)
    PROVE  IInv'
  <1> USE DEF IInv, LeaseInv
  <1>1. /\ crds' = crds \cup {c}
        /\ UNCHANGED <<elect, enabled, holder, leaseAge, elector, seen, age, left, proc, faults>>
    BY DEF InstallCrd, config, lease
  <1>2. TypeOK'
    BY <1>1 DEF TypeOK
  <1>3. LeaderHolds' /\ ObservedLate' /\ RunnersLead' /\ ControllersOK'
    BY <1>1 DEF LeaderHolds, ObservedLate, RunnersLead, ControllersOK, ControllerOK, Controls,
                Bound
  <1> QED BY <1>2, <1>3

LEMMA TerminateHolds ==
    ASSUME IInv, NEW p \in Proc, Terminate(p)
    PROVE  IInv'
  <1>1. Ended(p) /\ faults' \in 0 .. MaxFaults
    BY DEF IInv, LeaseInv, TypeOK, Terminate
  <1> QED BY <1>1, EndedHolds

LEMMA FaultHolds ==
    ASSUME IInv, NEW p \in Proc, FaultStep(p)
    PROVE  IInv'
  <1>1. CASE AnswerLost(p)
    BY <1>1, AnswerLostHolds
  <1>2. CASE LoseLease(p) \/ ContextFails(p) \/ Crash(p)
    <2>1. Ended(p) /\ Fault
      BY <1>2 DEF LoseLease, ContextFails, Crash
    <2> QED BY <2>1, FaultOK, EndedHolds DEF IInv, LeaseInv
  <1>3. CASE Cancel(p)
    BY <1>3, CancelHolds
  <1> QED BY <1>1, <1>2, <1>3 DEF FaultStep

LEMMA StutterHolds ==
    ASSUME IInv, UNCHANGED vars
    PROVE  IInv'
  <1>1. UNCHANGED <<elect, enabled, crds, holder, leaseAge, elector, seen, age, left, proc,
                    faults>>
    BY DEF vars, config, lease
  <1>2. TypeOK'
    BY <1>1 DEF IInv, LeaseInv, TypeOK
  <1>3. LeaderHolds' /\ ObservedLate' /\ RunnersLead' /\ ControllersOK'
    BY <1>1 DEF IInv, LeaseInv, LeaderHolds, ObservedLate, RunnersLead, ControllersOK,
                ControllerOK, Controls, Bound
  <1> QED BY <1>2, <1>3 DEF IInv, LeaseInv

LEMMA NextHolds == IInv /\ [Next]_vars => IInv'
  <1> SUFFICES ASSUME IInv, [Next]_vars PROVE IInv'
    OBVIOUS
  <1>1. CASE Tick
    BY <1>1, TickHolds
  <1>2. CASE \E c \in Resource : InstallCrd(c)
    BY <1>2, InstallHolds
  <1>3. CASE \E p \in Proc : ElectorStep(p)
    BY <1>3, ServeHolds, ObserveHolds, AcquireHolds, RenewHolds, TerminateHolds DEF ElectorStep
  <1>4. CASE \E p \in Proc : RunStep(p) \/ ControllerStep(p) \/ FaultStep(p)
    BY <1>4, RunHolds, ControllerHolds, FaultHolds
  <1>5. CASE \E p \in Proc : \E c \in Cache : SyncCache(p, c)
    BY <1>5, SyncHolds
  <1>6. CASE UNCHANGED vars
    BY <1>6, StutterHolds
  <1> QED BY <1>1, <1>2, <1>3, <1>4, <1>5, <1>6 DEF Next

-----------------------------------------------------------------------------
(***************************************************************************)
(* The theorems.                                                           *)
(***************************************************************************)
\* The invariant that implies all others: it relates a leader's time to give
\* up with the age of the lease, and a candidate's observation with that age.
THEOREM ProcessInvariance == Steps => []IInv
  BY InitHolds, NextHolds, PTL DEF Steps

\* The processes and the lease have the types they are declared with.
THEOREM ProcessTypeCorrect == Spec => []TypeOK
  <1>1. IInv => TypeOK
    BY DEF IInv, LeaseInv
  <1> QED BY <1>1, ProcessInvariance, PTL DEF Spec

LEMMA InvImpliesOne == IInv => OneController
  <1> SUFFICES ASSUME IInv, elect, NEW p \in Proc, NEW q \in Proc, Controls(p), Controls(q)
               PROVE  p = q
    BY DEF OneController
  <1>1. elector[p] = "leader" /\ elector[q] = "leader"
    BY DEF IInv, LeaseInv, RunnersLead, ControllersOK, ControllerOK, Controls
  <1> QED BY <1>1, OneLeader DEF IInv, LeaseInv

\* Loops and workers run in one process at a time, for every timing of the
\* lease in which a leader gives up before the lease runs out (run.go:95-123).
THEOREM OneControllerAlways == Spec => []OneController
  BY InvImpliesOne, ProcessInvariance, PTL DEF Spec

\* No loop or worker reads a cache that has not been filled, however the
\* controller's goroutine and the start of the informers interleave.
THEOREM CachesAreFull == Spec => []LoopsSeeFullCaches
  <1>1. IInv => LoopsSeeFullCaches
    BY DEF IInv, ControllersOK, ControllerOK, LoopsSeeFullCaches
  <1> QED BY <1>1, ProcessInvariance, PTL DEF Spec

\* A step changes who controls for one process at most.
LEMMA OneProcessMoves ==
    ASSUME IInv, [Next]_vars
    PROVE  /\ elect' = elect
           /\ \A p, q \in Proc :
                p # q => Controls(p)' = Controls(p) \/ Controls(q)' = Controls(q)
  <1> DEFINE Only(p) == /\ elect' = elect
                        /\ \A q \in Proc \ {p} : Controls(q)' = Controls(q)
  <1>0. proc \in [Proc -> Process]
    BY DEF IInv, LeaseInv, TypeOK
  <1>1. CASE Tick
    BY <1>1 DEF Tick, Controls, config
  <1>2. CASE \E c \in Resource : InstallCrd(c)
    BY <1>2 DEF InstallCrd, Controls, config
  <1>3. ASSUME NEW p \in Proc, \/ ElectorStep(p) \/ RunStep(p) \/ ControllerStep(p)
                               \/ FaultStep(p) \/ \E c \in Cache : SyncCache(p, c)
        PROVE  Only(p)
    <2>1. CASE ElectorStep(p)
      BY <1>0, <2>1 DEF ElectorStep, Serve, Observe, Acquire, Renew, Terminate, Ended, Controls,
                  config
    <2>2. CASE RunStep(p)
      BY <1>0, <2>2 DEF RunStep, CreateContext, StartControllers, StartInformers, Step, Controls,
                  config
    <2>3. CASE ControllerStep(p)
      BY <1>0, <2>3 DEF ControllerStep, Work, StartLoop, StopWorkers, Controls, config
    <2>4. CASE FaultStep(p)
      BY <1>0, <2>4 DEF FaultStep, AnswerLost, LoseLease, ContextFails, Cancel, Crash, Ended,
                  Controls, config
    <2>5. CASE \E c \in Cache : SyncCache(p, c)
      BY <1>0, <2>5 DEF SyncCache, Controls, config
    <2> QED BY <1>3, <2>1, <2>2, <2>3, <2>4, <2>5
  <1>4. CASE UNCHANGED vars
    BY <1>4 DEF vars, config, Controls
  <1> QED BY <1>1, <1>2, <1>3, <1>4 DEF Next

\* The election of the code implements the abstract one: each step begins a
\* controller when there is none, ends the one there is, or changes neither.
THEOREM ElectionImplementsSole == Spec => SoleSpec
  <1> DEFINE active == {p \in Proc : elect /\ Controls(p)}
  <1>1. Init => Sole!Init
    BY DEF Init, Sole!Init, Controls, Fresh
  <1>2. ASSUME IInv, IInv', [Next]_vars
        PROVE  [Sole!Next]_active
    <2>1. /\ \A p, q \in active : p = q
          /\ \A p, q \in active' : p = q
      <3>1. OneController /\ OneController'
        BY <1>2, InvImpliesOne, PTL
      <3> QED BY <3>1 DEF OneController
    <2>2. \A p \in active : \A q \in active' : p \in active' /\ q \in active
      <3> SUFFICES ASSUME NEW p \in active, NEW q \in active', p # q PROVE FALSE
        BY <2>1
      <3>1. Controls(p)' = Controls(p) \/ Controls(q)' = Controls(q)
        BY <1>2, OneProcessMoves
      <3>2. elect' = elect
        BY <1>2, OneProcessMoves
      <3> QED BY <2>1, <3>1, <3>2
    <2>3. CASE active = {} /\ active' # {}
      <3>1. PICK p \in Proc : p \in active'
        BY <2>3
      <3>2. active' = {p}
        BY <2>1, <3>1
      <3> QED BY <2>3, <3>1, <3>2 DEF Sole!Next, Sole!Begin
    <2>4. CASE active' = {}
      BY <2>4 DEF Sole!Next, Sole!End
    <2>5. CASE active # {} /\ active' # {}
      <3>1. active' = active
        BY <2>1, <2>2, <2>5
      <3> QED BY <3>1
    <2> QED BY <2>3, <2>4, <2>5
  <1> QED BY <1>1, <1>2, ProcessInvariance, PTL DEF Spec, Steps, SoleSpec, Sole!Spec
=============================================================================
