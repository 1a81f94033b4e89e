--------------------------- MODULE ClusterStatus ---------------------------
(***************************************************************************)
(* How a control loop records the status of an EtcdCluster.                *)
(*                                                                         *)
(* One sync writes the status up to five times: the phase Creating, the    *)
(* pause, the load balancer, the members (again after a promotion) and the *)
(* phase Running.  Each write carries the resourceVersion of c.etcd, and   *)
(* only some of them take the answer as the new c.etcd.  Between syncs a   *)
(* ticker runs syncStatus on the c.etcd that the last one left behind.     *)
(* c.etcd may be the informer's own object: ensurePausedStatus changes it  *)
(* in place.                                                               *)
(***************************************************************************)
EXTENDS Integers, Sequences

CONSTANTS
    MaxSize,    \* bound on spec.size
    Balanced,   \* TRUE: the access service is of type LoadBalancer
    MaxEdits,   \* bound on the user's edits
    MaxChanges, \* bound on changes of the pods, the members and the load balancer
    MaxLag,     \* bound on the versions the informer has yet to deliver
    MaxFaults   \* bound on failed calls, lost answers and restarts

ASSUME StatusAssumption ==
    /\ MaxSize \in Nat \ {0} /\ Balanced \in BOOLEAN
    /\ MaxEdits \in Nat /\ MaxChanges \in Nat /\ MaxLag \in Nat \ {0} /\ MaxFaults \in Nat

\* Rosters are member lists in the order in which etcd has had them; 0 is the empty one.
Roster == 0 .. MaxChanges
Phase == {"Pending", "Creating", "Running"}
Object == [size : 1 .. MaxSize, paused : BOOLEAN,
           phase : Phase, controlPaused : BOOLEAN, members : Roster, lb : BOOLEAN]

VARIABLES
    objs,       \* versions of the EtcdCluster: delivered to the informer, ..., current
    cached,     \* the informer's object, that the loop may touch
    e,          \* c.etcd
    alias,      \* c.etcd is the informer's object
    fresh,      \* c.etcd has the current resourceVersion
    pc,         \* where the loop is
    saw,        \* the ready replicas that syncStatus compared with the size
    listed,     \* the members that ensureMemberStatus listed
    ready,      \* status.readyReplicas of the TApp, as the lister has it
    roster,     \* the members of the etcd cluster
    ingress,    \* the load balancer has an address
    edits, changes, faults

world == <<ready, roster, ingress, edits, changes>>
vars == <<objs, cached, e, alias, fresh, pc, saw, listed, ready, roster, ingress,
          edits, changes, faults>>

Current == objs[Len(objs)]

-----------------------------------------------------------------------------
Fault == faults < MaxFaults /\ faults' = faults + 1
NoFault == faults' = faults

Goto(label) == pc' = label
Return == Goto("idle")

\* The status subresource takes only the status of what it is sent.
Put(o) ==
    /\ Len(objs) <= MaxLag
    /\ objs' = Append(objs, [Current EXCEPT !.phase = o.phase, !.controlPaused = o.controlPaused,
                                            !.members = o.members, !.lb = o.lb])

\* Mutant: the write carries no resourceVersion.
UpdateStatusBlindly(o, label, keep) ==
    \/ Put(o) /\ fresh' = keep /\ \/ NoFault /\ Goto(label)
                                  \/ Fault /\ Return
    \/ UNCHANGED <<objs, fresh>> /\ Fault /\ Return

\* UpdateStatus(o): refused unless c.etcd is current.  c.etcd is current afterwards
\* only if the caller keeps the answer.
UpdateStatus(o, label, keep) ==
    \/ fresh /\ Put(o) /\ \/ NoFault /\ Goto(label) /\ fresh' = keep
                          \/ Fault /\ Return /\ fresh' = FALSE
    \/ ~fresh /\ UNCHANGED <<objs, fresh>> /\ NoFault /\ Return
    \/ fresh /\ UNCHANGED <<objs, fresh>> /\ Fault /\ Return

\* c.etcd becomes an object of its own if the loop goes on.
Keep(o, label) ==
    /\ e' = IF pc' = label THEN o ELSE e
    /\ alias' = (pc' # label /\ alias)

\* sync: c.etcd is the informer's object.
Begin ==
    /\ pc = "idle"
    /\ e' = cached /\ alias' = TRUE /\ fresh' = (Len(objs) = 1)
    /\ Goto("phase")
    /\ UNCHANGED <<objs, cached, saw, listed, world, faults>>

\* The phase Pending becomes Creating, no other does.
MarkCreating ==
    LET o == [e EXCEPT !.phase = "Creating"]
    IN  /\ pc = "phase"
        /\ \/ e.phase = "Pending" /\ UpdateStatus(o, "pause", TRUE) /\ Keep(o, "pause")
           \/ /\ e.phase # "Pending" /\ NoFault /\ Goto("pause")
              /\ UNCHANGED <<objs, e, alias, fresh>>
        /\ UNCHANGED <<cached, saw, listed, world>>

\* Mutant: the label is not looked at again once the cluster is paused.
EnsurePausedOnce ==
    LET o == [e EXCEPT !.controlPaused = TRUE]
    IN  /\ pc = "pause"
        /\ \/ /\ e.paused /\ ~e.controlPaused
              /\ e' = o /\ cached' = (IF alias THEN o ELSE cached) /\ UNCHANGED alias
              /\ UpdateStatus(o, "idle", FALSE)
           \/ /\ ~e.paused \/ e.controlPaused
              /\ NoFault /\ Goto(IF e.controlPaused THEN "idle" ELSE "lb")
              /\ UNCHANGED <<objs, cached, e, alias, fresh>>
        /\ UNCHANGED <<saw, listed, world>>

\* The change is made to the object itself, before the write and whatever comes of it.
Touch(o) ==
    /\ e' = o
    /\ cached' = IF alias THEN o ELSE cached
    /\ UNCHANGED alias

\* ensurePausedStatus: a paused cluster is left alone from here on.
EnsurePaused ==
    LET o == [e EXCEPT !.controlPaused = e.paused]
    IN  /\ pc = "pause"
        /\ \/ /\ e.paused # e.controlPaused
              /\ Touch(o)
              /\ UpdateStatus(o, IF e.paused THEN "idle" ELSE "lb", FALSE)
           \/ /\ e.paused = e.controlPaused
              /\ NoFault /\ Goto(IF e.paused THEN "idle" ELSE "lb")
              /\ UNCHANGED <<objs, cached, e, alias, fresh>>
        /\ UNCHANGED <<saw, listed, world>>

\* ensureLoadBalancerStatus: poll for an address until a timeout, then record it.
\* ensureService, ensureCert and ensureTApp, before and after, may fail.
EnsureLoadBalancer ==
    LET o == [e EXCEPT !.lb = TRUE]
    IN  /\ pc = "lb"
        /\ \/ /\ \/ (~Balanced \/ (ingress /\ e.lb)) /\ NoFault /\ Goto("members")
                 \/ Balanced /\ ~ingress /\ NoFault /\ Return
                 \/ Fault /\ Return
              /\ UNCHANGED <<objs, e, alias, fresh>>
           \/ /\ Balanced /\ ingress /\ ~e.lb
              /\ UpdateStatus(o, "members", TRUE) /\ Keep(o, "members")
        /\ UNCHANGED <<cached, saw, listed, world>>

\* ensureMemberStatus, called before and after ensureLearner: list the members once
\* a pod is ready, ...
ListMembers(here, record, next) ==
    /\ pc = here
    /\ \/ ready = 0 /\ NoFault /\ Goto(next) /\ UNCHANGED listed
       \/ ready > 0 /\ NoFault /\ Goto(record) /\ listed' = roster
       \/ ready > 0 /\ Fault /\ Return /\ UNCHANGED listed
    /\ UNCHANGED <<objs, cached, e, alias, fresh, saw, world>>

\* ... and record them; c.etcd then is what was sent, with the resourceVersion it had.
RecordMembers(here, next) ==
    LET o == [e EXCEPT !.members = listed]
    IN  /\ pc = here
        /\ \/ e.members # listed /\ UpdateStatus(o, next, FALSE) /\ Keep(o, next)
           \/ /\ e.members = listed /\ NoFault /\ Goto(next)
              /\ UNCHANGED <<objs, e, alias, fresh>>
        /\ UNCHANGED <<cached, saw, listed, world>>

\* ensureLearner: a promotion changes the members, and they are recorded again.
EnsureLearner ==
    /\ pc = "learner"
    /\ \/ NoFault /\ Goto("status") /\ UNCHANGED <<roster, changes>>
       \/ /\ e.members > 0 /\ changes < MaxChanges
          /\ NoFault /\ Goto("members2")
          /\ roster' = roster + 1 /\ changes' = changes + 1
       \/ Fault /\ Return /\ UNCHANGED <<roster, changes>>
    /\ UNCHANGED <<objs, cached, e, alias, fresh, saw, listed, ready, ingress, edits>>

\* syncStatus, at the end of sync and on its own ticker: compare ready replicas and
\* size, ...
CompareSize(here) ==
    /\ pc = here
    /\ saw' = ready
    /\ Goto(IF ready = e.size /\ e.phase = "Creating" THEN "running" ELSE "idle")
    /\ UNCHANGED <<objs, cached, e, alias, fresh, listed, world, faults>>

\* ... and record that the cluster runs.  c.etcd is not told.
MarkRunning ==
    /\ pc = "running"
    /\ UpdateStatus([e EXCEPT !.phase = "Running"], "idle", FALSE)
    /\ UNCHANGED <<cached, e, alias, saw, listed, world>>

Step ==
    \/ Begin \/ MarkCreating \/ EnsurePaused \/ EnsureLoadBalancer
    \/ ListMembers("members", "record", "learner") \/ RecordMembers("record", "learner")
    \/ EnsureLearner
    \/ ListMembers("members2", "record2", "status") \/ RecordMembers("record2", "status")
    \/ CompareSize("status") \/ MarkRunning

StatusTick == CompareSize("idle")

-----------------------------------------------------------------------------
(***************************************************************************)
(* Everything else that moves.                                             *)
(***************************************************************************)

\* The user edits the spec or the label of the pause.
Edit(o) ==
    /\ edits < MaxEdits
    /\ o # Current
    /\ Len(objs) <= MaxLag
    /\ objs' = Append(objs, o)
    /\ edits' = edits + 1
    /\ fresh' = FALSE
    /\ UNCHANGED <<cached, e, alias, pc, saw, listed, ready, roster, ingress, changes, faults>>

Resize(n) == Edit([Current EXCEPT !.size = n])
Pause(b) == Edit([Current EXCEPT !.paused = b])

\* The informer replaces its object by a newer version of it.
Deliver ==
    /\ Len(objs) > 1
    /\ objs' = Tail(objs)
    /\ cached' = objs[2]
    /\ alias' = FALSE
    /\ UNCHANGED <<e, fresh, pc, saw, listed, world, faults>>

\* Pods get ready or stop being so, the members change, the balancer gets its address.
Change ==
    /\ changes < MaxChanges
    /\ changes' = changes + 1
    /\ \/ ready' \in (0 .. MaxSize) \ {ready} /\ UNCHANGED <<roster, ingress>>
       \/ roster' = roster + 1 /\ UNCHANGED <<ready, ingress>>
       \/ Balanced /\ ~ingress /\ ingress' = TRUE /\ UNCHANGED <<ready, roster>>
    /\ UNCHANGED <<objs, cached, e, alias, fresh, pc, saw, listed, edits, faults>>

\* The operator restarts: the loop is handed a copy of the object.
Restart ==
    /\ Fault
    /\ objs' = <<Current>> /\ cached' = Current
    /\ e' = Current /\ alias' = FALSE /\ fresh' = TRUE
    /\ pc' = "idle" /\ saw' = 0 /\ listed' = 0
    /\ UNCHANGED world

\* A new object; whether the webhook's phase is kept depends on the API server.
Init ==
    /\ \E n \in 1 .. MaxSize, phase \in {"Pending", "Creating"}, b \in BOOLEAN :
          e = [size |-> n, paused |-> b, phase |-> phase, controlPaused |-> FALSE,
               members |-> 0, lb |-> FALSE]
    /\ objs = <<e>> /\ cached = e /\ alias = FALSE /\ fresh = TRUE
    /\ pc = "idle" /\ saw = 0 /\ listed = 0
    /\ ready = 0 /\ roster = 0 /\ ingress = FALSE
    /\ edits = 0 /\ changes = 0 /\ faults = 0

Next ==
    \/ Step \/ StatusTick \/ Deliver \/ Change \/ Restart
    \/ \E n \in 1 .. MaxSize : Resize(n)
    \/ \E b \in BOOLEAN : Pause(b)

Spec == Init /\ [][Next]_vars

(***************************************************************************)
(* A sync that began goes on and the informer delivers.  The reconcile     *)
(* ticker's turn comes however often the status ticker's does: the select  *)
(* chooses among ready channels at random.                                 *)
(***************************************************************************)
Fairness == WF_vars(Step) /\ WF_vars(Deliver)
FairSpec == Spec /\ Fairness /\ SF_vars(Begin)

-----------------------------------------------------------------------------
\* Every variable has its type; no phase but these three is ever recorded.
TypeOK ==
    /\ objs \in Seq(Object) /\ Len(objs) \in 1 .. MaxLag + 1
    /\ cached \in Object /\ e \in Object
    /\ alias \in BOOLEAN /\ fresh \in BOOLEAN
    /\ pc \in {"idle", "phase", "pause", "lb", "members", "record", "learner",
               "members2", "record2", "status", "running"}
    /\ saw \in 0 .. MaxSize /\ listed \in Roster
    /\ ready \in 0 .. MaxSize /\ roster \in Roster /\ ingress \in BOOLEAN
    /\ edits \in 0 .. MaxEdits /\ changes \in 0 .. MaxChanges /\ faults \in 0 .. MaxFaults

\* "Running" is recorded only if the replicas that were ready are as many as the spec
\* asks for at that very moment, though syncStatus works with the c.etcd of some
\* earlier sync.
RunningIsOfThisSize ==
    [][Current.phase # "Running" /\ Current'.phase = "Running" => saw = Current.size]_vars

\* The record of the members never goes back to an older list, whichever copy of the
\* object a status write was made from.
MembersNeverOlder == [][Current'.members >= Current.members]_vars

\* What is recorded of the pause is right for the label at the time, though the value
\* that is sent may come from a change in place that was never stored.
PauseRecordedRight ==
    [][Current'.controlPaused # Current.controlPaused
          => Current'.controlPaused = Current.paused]_vars

\* The status ends up true: the pause (unless a write failed: the value set in place is
\* then taken for recorded, etcd.go:410), the members, the balancer and the phase of a
\* cluster that is left in peace.
StatusSettles ==
    <>[](/\ faults = 0 => Current.controlPaused = Current.paused
         /\ ~Current.paused /\ (Balanced => ingress) =>
               /\ Balanced => Current.lb
               /\ ready > 0 => Current.members = roster
               /\ ready = Current.size => Current.phase = "Running")
=============================================================================
