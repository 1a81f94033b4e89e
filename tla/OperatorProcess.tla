-------------------------- MODULE OperatorProcess --------------------------
(***************************************************************************)
(* The life of the operator's processes: the election, the start of the    *)
(* controller, its caches, its workers and loops, and the end.             *)
(*                                                                         *)
(* A process serves its webhooks and competes for a lease.  The one that   *)
(* gets it runs, beside the goroutine that renews the lease, the one that  *)
(* builds the context, starts the controller and then the informers.  The  *)
(* process ends when its lease is lost or its signal context is cancelled; *)
(* nothing else stops the loops of the clusters, which know neither.       *)
(* (Run in run.go, context.go, controller.go, etcd.go and options.go under *)
(* cmd/kstone-etcd-operator/app; the informer factory; Controller.Run.)    *)
(*                                                                         *)
(* The lease is client-go's leaderelection, which is not in the            *)
(* repository: it is modelled from what run.go hands to it.                *)
(***************************************************************************)
EXTENDS Integers

CONSTANTS
    Proc,           \* processes of the operator: the old and the new pod of a rollout
    Host,           \* the host name of each
    NoRecord,       \* nobody has taken the lease yet
    Gone,           \* the identity of a process that has ended
    LeaseDuration,  \* options.go:99, in units of time
    RenewDeadline,  \* options.go:100
    RetryPeriod,    \* options.go:101
    AnswerDelay,    \* how late a renewal is answered, and the last attempt given up
    MaxFaults       \* bound on crashes, signals, outages, lost answers

\* A mutant: the host name alone, without the "uniquifier" of run.go:95.
HostNameOnly(p) == <<Host[p], Host[p]>>
\* os.Hostname and a UUID: run.go:90-96.
Identity(p) == <<Host[p], p>>

ASSUME ProcessAssumption ==
    /\ LeaseDuration \in Nat /\ RenewDeadline \in Nat /\ RetryPeriod \in Nat
    /\ AnswerDelay \in Nat /\ MaxFaults \in Nat
    /\ RetryPeriod + RenewDeadline + AnswerDelay < LeaseDuration
    /\ \A p \in Proc : Identity(p) \notin {NoRecord, Gone}

VARIABLES
    elect,      \* LeaderElect, the same in every process
    enabled,    \* the controller is among --controllers, the same in every process
    crds,       \* the custom resources the API server knows
    holder,     \* the identity in the lease
    leaseAge,   \* the time since the lease was last written
    elector,    \* what each process is to the election: off, candidate, leader
    seen,       \* a candidate has observed the lease as it is now
    age,        \* the time since it did
    left,       \* the time until a leader gives up
    proc,       \* the goroutines of each process
    faults

config == <<elect, enabled>>
lease == <<holder, leaseAge, elector, seen, age, left>>
vars == <<config, crds, lease, proc, faults>>

-----------------------------------------------------------------------------
(***************************************************************************)
(* The processes and their goroutines.                                     *)
(***************************************************************************)
Resource == {"etcdclusters", "tapps"}
\* The caches the controller waits for; "core" stands for those of pods,
\* services, secrets and config maps, which one factory serves.
Cache == Resource \cup {"core"}

Fresh == [cancelled |-> FALSE, run |-> "none", listed |-> FALSE,
          caches |-> [c \in Cache |-> "none"], ctrl |-> "none", loops |-> FALSE]

Process ==
    [cancelled : BOOLEAN,
     run : {"none", "context", "controllers", "informers", "blocked"},
     listed : BOOLEAN,
     caches : [Cache -> {"none", "requested", "started", "synced"}],
     ctrl : {"none", "waiting", "working", "ended"},
     loops : BOOLEAN]

TypeOK ==
    /\ elect \in BOOLEAN /\ enabled \in BOOLEAN
    /\ crds \subseteq Resource
    /\ holder \in {Identity(p) : p \in Proc} \cup {NoRecord, Gone}
    /\ leaseAge \in 0 .. LeaseDuration
    /\ elector \in [Proc -> {"off", "candidate", "leader"}]
    /\ seen \in [Proc -> BOOLEAN]
    /\ age \in [Proc -> 0 .. LeaseDuration]
    /\ left \in [Proc -> 0 .. RetryPeriod + RenewDeadline + AnswerDelay]
    /\ proc \in [Proc -> Process]
    /\ faults \in 0 .. MaxFaults

Init ==
    /\ elect \in BOOLEAN /\ enabled \in BOOLEAN
    /\ crds \in SUBSET Resource
    /\ holder = NoRecord /\ leaseAge = 0
    /\ elector = [p \in Proc |-> "off"]
    /\ seen = [p \in Proc |-> FALSE]
    /\ age = [p \in Proc |-> 0]
    /\ left = [p \in Proc |-> 0]
    /\ proc = [p \in Proc |-> Fresh]
    /\ faults = 0

Up(p) == elector[p] # "off" \/ proc[p].run # "none"
Controls(p) == proc[p].ctrl = "working" \/ proc[p].loops
\* The controller was not started and never will be.
Idle(p) == proc[p].run = "blocked" /\ proc[p].ctrl = "none"

Fault == faults < MaxFaults /\ faults' = faults + 1

\* The process ends, with every goroutine in it; its identity is not used again.
Ended(p) ==
    /\ proc' = [proc EXCEPT ![p] = Fresh]
    /\ elector' = [elector EXCEPT ![p] = "off"]
    /\ seen' = [seen EXCEPT ![p] = FALSE]
    /\ age' = [age EXCEPT ![p] = 0]
    /\ left' = [left EXCEPT ![p] = 0]
    /\ holder' = IF holder = Identity(p) THEN Gone ELSE holder
    /\ UNCHANGED <<config, crds, leaseAge>>

-----------------------------------------------------------------------------
(***************************************************************************)
(* The election.                                                           *)
(***************************************************************************)
\* The webhooks are served, then the process competes or, without an election,
\* runs the controller at once.
Serve(p) ==
    /\ ~Up(p)
    /\ IF elect
       THEN elector' = [elector EXCEPT ![p] = "candidate"] /\ UNCHANGED proc
       ELSE proc' = [proc EXCEPT ![p].run = "context"] /\ UNCHANGED elector
    /\ UNCHANGED <<config, crds, holder, leaseAge, seen, age, left, faults>>

\* A candidate reads a lease that is not the one it observed last.
Observe(p) ==
    /\ elector[p] = "candidate" /\ ~seen[p]
    /\ seen' = [seen EXCEPT ![p] = TRUE]
    /\ age' = [age EXCEPT ![p] = 0]
    /\ UNCHANGED <<config, crds, holder, leaseAge, elector, left, proc, faults>>

MayTake(p) ==
    /\ elector[p] = "candidate"
    /\ \/ holder \in {NoRecord, Identity(p)}
       \/ seen[p] /\ age[p] >= LeaseDuration

\* A leader tries again once RetryPeriod has passed.
MayRenew(p) ==
    /\ elector[p] = "leader" /\ holder = Identity(p)
    /\ left[p] <= RenewDeadline

WriteLease(p) ==
    /\ holder' = Identity(p)
    /\ leaseAge' = 0
    /\ seen' = [q \in Proc |-> FALSE]
    /\ age' = [q \in Proc |-> 0]

\* A mutant: a failed renewal waits another RetryPeriod before the deadline runs.
AnsweredLater(p) ==
    left' = [left EXCEPT ![p] = RetryPeriod + RetryPeriod + RenewDeadline + AnswerDelay]
\* From the answer on, RetryPeriod passes before RenewDeadline begins to run.
Answered(p) ==
    \E d \in 0 .. AnswerDelay :
        left' = [left EXCEPT ![p] = RetryPeriod + RenewDeadline + d]

Acquire(p) ==
    /\ MayTake(p)
    /\ WriteLease(p) /\ Answered(p)
    /\ elector' = [elector EXCEPT ![p] = "leader"]
    /\ proc' = [proc EXCEPT ![p].run = "context"]
    /\ UNCHANGED <<config, crds, faults>>

Renew(p) ==
    /\ MayRenew(p)
    /\ WriteLease(p) /\ Answered(p)
    /\ UNCHANGED <<config, crds, elector, proc, faults>>

\* The lease is written, and the process takes the attempt for failed.
AnswerLost(p) ==
    /\ MayTake(p) \/ MayRenew(p)
    /\ Fault
    /\ WriteLease(p)
    /\ UNCHANGED <<config, crds, elector, left, proc>>

\* A mutant: OnStoppedLeading only logs, and the goroutines of the process stay.
LogOnly(p) ==
    /\ elector[p] = "leader" /\ left[p] = 0
    /\ Fault
    /\ elector' = [elector EXCEPT ![p] = "off"]
    /\ UNCHANGED <<config, crds, holder, leaseAge, seen, age, left, proc>>
\* OnStoppedLeading is klog.Fatalf.
LoseLease(p) ==
    /\ elector[p] = "leader" /\ left[p] = 0
    /\ Fault
    /\ Ended(p)

\* A mutant: only the wait for the lease looks at the signal context.
TerminateCandidate(p) ==
    /\ elector[p] = "candidate" /\ proc[p].cancelled
    /\ Ended(p)
    /\ UNCHANGED faults
\* RunOrDie comes back once the signal context is done: the same Fatalf.
Terminate(p) ==
    /\ elector[p] # "off" /\ proc[p].cancelled
    /\ Ended(p)
    /\ UNCHANGED faults

\* Time passes, for all processes alike, but not past the end of a leader.
Older(n) == IF n < LeaseDuration THEN n + 1 ELSE n
Tick ==
    /\ \A p \in Proc : elector[p] = "leader" => left[p] > 0
    /\ leaseAge' = Older(leaseAge)
    /\ age' = [p \in Proc |-> IF seen[p] THEN Older(age[p]) ELSE age[p]]
    /\ left' = [p \in Proc |-> IF elector[p] = "leader" THEN left[p] - 1 ELSE left[p]]
    /\ UNCHANGED <<config, crds, holder, elector, seen, proc, faults>>

-----------------------------------------------------------------------------
(***************************************************************************)
(* The goroutine "run": context, controller, informers.                    *)
(***************************************************************************)
Step(p, from, to) ==
    /\ proc[p].run = from
    /\ proc' = [proc EXCEPT ![p] = [to EXCEPT !.cancelled = proc[p].cancelled]]
    /\ UNCHANGED <<config, crds, lease>>

\* Discovery that failed for a group leaves the group out, and is only logged.
CreateContext(p) ==
    \E listed \in BOOLEAN :
        /\ Step(p, "context", [proc[p] EXCEPT !.run = "controllers", !.listed = listed])
        /\ \/ listed = ("etcdclusters" \in crds) /\ UNCHANGED faults
           \/ ~listed /\ "etcdclusters" \in crds /\ Fault

\* The API server is not healthy within ten seconds, or lists nothing.
ContextFails(p) ==
    /\ proc[p].run = "context"
    /\ Fault
    /\ Ended(p)

\* A factory makes an informer the first time it is asked for it.
InformerFor(caches) ==
    [c \in Cache |-> IF caches[c] = "none" THEN "requested" ELSE caches[c]]

\* Building the controller asks the factories for its informers, and a
\* goroutine of its own waits for their caches.
StartControllers(p) ==
    /\ Step(p, "controllers",
            IF enabled /\ proc[p].listed
            THEN [proc[p] EXCEPT !.run = "informers", !.ctrl = "waiting",
                                 !.caches = InformerFor(proc[p].caches)]
            ELSE [proc[p] EXCEPT !.run = "informers"])
    /\ UNCHANGED faults

\* A mutant: the factories are started before the controller asks them for anything.
RunningBefore(caches) == caches
\* Start of a factory starts the informers it was asked for so far.
Running(caches) ==
    [c \in Cache |-> IF caches[c] = "requested" THEN "started" ELSE caches[c]]

StartInformers(p) ==
    /\ Step(p, "informers",
            [proc[p] EXCEPT !.run = "blocked", !.caches = Running(proc[p].caches)])
    /\ UNCHANGED faults

\* A first list of the resource has arrived.
SyncCache(p, c) ==
    /\ proc[p].caches[c] = "started" /\ ~proc[p].cancelled
    /\ c \in Resource => c \in crds
    /\ proc' = [proc EXCEPT ![p].caches[c] = "synced"]
    /\ UNCHANGED <<config, crds, lease, faults>>

-----------------------------------------------------------------------------
(***************************************************************************)
(* The controller.                                                         *)
(***************************************************************************)
\* A mutant: the controller does not wait for the cache of TApps.
SyncedButTApps(p) == \A c \in Cache \ {"tapps"} : proc[p].caches[c] = "synced"
HasSynced(p) == \A c \in Cache : proc[p].caches[c] = "synced"

Work(p) ==
    /\ proc[p].ctrl = "waiting" /\ HasSynced(p) /\ ~proc[p].cancelled
    /\ proc' = [proc EXCEPT ![p].ctrl = "working"]
    /\ UNCHANGED <<config, crds, lease, faults>>

\* A worker starts the loop of a cluster.
StartLoop(p) ==
    /\ proc[p].ctrl = "working" /\ ~proc[p].loops
    /\ proc' = [proc EXCEPT ![p].loops = TRUE]
    /\ UNCHANGED <<config, crds, lease, faults>>

\* The context ends the controller and its workers; the loops never see it.
StopWorkers(p) ==
    /\ proc[p].ctrl \in {"waiting", "working"} /\ proc[p].cancelled
    /\ proc' = [proc EXCEPT ![p].ctrl = "ended"]
    /\ UNCHANGED <<config, crds, lease, faults>>

-----------------------------------------------------------------------------
(***************************************************************************)
(* The surroundings.                                                       *)
(***************************************************************************)
InstallCrd(c) ==
    /\ crds' = crds \cup {c}
    /\ UNCHANGED <<config, lease, proc, faults>>

\* SIGTERM, or SIGINT.
Cancel(p) ==
    /\ Up(p) /\ ~proc[p].cancelled
    /\ Fault
    /\ proc' = [proc EXCEPT ![p].cancelled = TRUE]
    /\ UNCHANGED <<config, crds, lease>>

\* A crash, a second signal, or the kubelet's patience at its end.
Crash(p) ==
    /\ Up(p)
    /\ Fault
    /\ Ended(p)

ElectorStep(p) ==
    Serve(p) \/ Observe(p) \/ Acquire(p) \/ Renew(p) \/ Terminate(p)
RunStep(p) == CreateContext(p) \/ StartControllers(p) \/ StartInformers(p)
ControllerStep(p) == Work(p) \/ StartLoop(p) \/ StopWorkers(p)
FaultStep(p) ==
    AnswerLost(p) \/ LoseLease(p) \/ ContextFails(p) \/ Cancel(p) \/ Crash(p)

Next ==
    \/ Tick
    \/ \E c \in Resource : InstallCrd(c)
    \/ \E p \in Proc :
        \/ ElectorStep(p) \/ RunStep(p) \/ ControllerStep(p) \/ FaultStep(p)
        \/ \E c \in Cache : SyncCache(p, c)

Steps == Init /\ [][Next]_vars

\* Every goroutine is scheduled, the pod is restarted, a list that can succeed
\* does in the end, and the custom resources are installed some day.
Fairness ==
    /\ WF_vars(Tick)
    /\ \A c \in Resource : WF_vars(InstallCrd(c))
    /\ \A p \in Proc :
        /\ WF_vars(Serve(p)) /\ WF_vars(Observe(p)) /\ WF_vars(Acquire(p))
        /\ WF_vars(Renew(p)) /\ WF_vars(Terminate(p))
        /\ WF_vars(RunStep(p)) /\ WF_vars(ControllerStep(p))
        /\ \A c \in Cache : WF_vars(SyncCache(p, c))

Spec == Steps /\ Fairness

-----------------------------------------------------------------------------
(***************************************************************************)
(* Properties.                                                             *)
(***************************************************************************)
\* The loops and workers of two processes never run at the same time, through
\* crashes, lost answers, outages of the API server and rollouts: run.go:95
\* and the Fatalf of run.go:118.
OneController ==
    elect => \A p, q \in Proc : Controls(p) /\ Controls(q) => p = q

\* The election implements one controller at a time, and a process takes over
\* only after the last one has ended.
Sole == INSTANCE SoleController WITH active <- {p \in Proc : elect /\ Controls(p)}
SoleSpec == Sole!Spec

\* Whoever reads a cache reads a full one: the loops, which are started before
\* run.go has returned from starting the informers, have all the caches.
LoopsSeeFullCaches ==
    \A p \in Proc : Controls(p) => \A c \in Cache : proc[p].caches[c] = "synced"

\* Once faults cease some process controls the clusters for good, whatever the
\* order in which resources are installed and goroutines start, unless the
\* controller was skipped when the process came up.
SomeoneControls ==
    elect /\ enabled => <>[](\E p \in Proc : Controls(p) \/ Idle(p))

\* A process that was told to end does, whatever it is doing, if it competes
\* for the lease.
TerminationEnds == \A p \in Proc : elect /\ proc[p].cancelled ~> ~Up(p)
=============================================================================
