---------------------------- MODULE EtcdScaling ----------------------------
(***************************************************************************)
(* How the operator grows and shrinks one etcd cluster.                    *)
(*                                                                         *)
(* A control loop (Cluster.sync in pkg/controller/etcdcluster/etcd.go)     *)
(* reads the EtcdCluster and the TApp from informer caches that lag behind *)
(* the API server, changes the membership of the etcd cluster over RPC,    *)
(* then writes the TApp with optimistic concurrency (an Update carries the *)
(* resourceVersion of the copy it was computed from).  Meanwhile the user  *)
(* edits the EtcdCluster, the TApp controller starts pods and reports      *)
(* their readiness, pods and the operator crash, calls fail or their       *)
(* answers are lost.                                                       *)
(*                                                                         *)
(* Member i of the etcd cluster is the one whose peer URL is that of       *)
(* instance i of the TApp; disk[i] is its persistent volume claim.         *)
(***************************************************************************)
EXTENDS Integers, Sequences, FiniteSets

CONSTANTS
    Loop,       \* control loops that sync this cluster: one, unless one leaked
    MaxSize,    \* bound on spec.size (the webhook's bound is 7)
    Tpl,        \* values of the updatable part of spec.template
    Specs,      \* the specs a user may ask for
    InitSpecs,  \* the specs a cluster may be created with
    MaxEdits,   \* bound on the edits of the spec
    MaxLag,     \* bound on the TApp versions the informer has yet to deliver
    MaxFaults,  \* bound on failed calls, lost answers, crashes and restarts
    Patient     \* TRUE: the user edits only a cluster that has converged

NoIndex == -1
Index == 0 .. MaxSize - 1

(***************************************************************************)
(* Of the spec: size, the index of the learner if there is one, and the    *)
(* template's updatable part.  Validate admits sizes from 1 and learners   *)
(* below the size.                                                         *)
(***************************************************************************)
SpecType == [size : 1 .. MaxSize, learner : Index \cup {NoIndex}, tpl : Tpl]

ASSUME ScalingAssumption ==
    /\ MaxSize \in Nat \ {0}
    /\ Specs \subseteq {s \in SpecType : s.learner < s.size}
    /\ InitSpecs \subseteq Specs
    /\ InitSpecs # {}
    /\ MaxEdits \in Nat
    /\ MaxLag \in Nat \ {0}
    /\ MaxFaults \in Nat
    /\ Patient \in BOOLEAN

(***************************************************************************)
(* An entry of spec.templatePool: its voting label, the container          *)
(* arguments and the other fields that updateTAppTemplate writes.          *)
(***************************************************************************)
Pod == [voting : BOOLEAN, args : Tpl, rest : Tpl]

VARIABLES
    versions,   \* versions of the EtcdCluster's spec, the last is current
    seen,       \* the version the informer's cache holds
    tapps,      \* TApp versions: the cached one first, the current one last
    voters,     \* voting members of the etcd cluster
    learners,   \* learners of the etcd cluster
    running,    \* members whose process is up
    disk,       \* the data on each volume: none, own, or old (a removed member's)
    pc,         \* where each loop is in sync
    e,          \* each loop's c.etcd
    app,        \* the copy of the TApp each loop works with
    fresh,      \* the loops whose copy has the current resourceVersion
    faults      \* faults so far

etcdVars == <<voters, learners, running, disk>>
userVars == <<versions, seen>>
loopVars == <<pc, e, app, fresh>>
vars == <<versions, seen, tapps, voters, learners, running, disk,
          pc, e, app, fresh, faults>>

NoTApp == [replicas |-> 0, pool |-> [i \in {} |-> {}], pods |-> 0, ready |-> 0]

TApp == tapps[Len(tapps)]
CachedTApp == tapps[1]
Wanted == versions[Len(versions)]
CachedSpec == versions[seen]
Members == voters \cup learners

\* Mutant: the pods exist, ready or not.
SettledUnready(t) == t.replicas = t.pods

\* Every pod exists and is ready.
Settled(t) == t.replicas = t.pods /\ t.ready = t.pods

-----------------------------------------------------------------------------
(***************************************************************************)
(* The TApps the code builds.                                              *)
(***************************************************************************)
SeedTApp(s) ==
    [replicas |-> 1,
     pool     |-> [i \in {0} |-> [voting |-> s.learner # 0,
                                  args |-> s.tpl, rest |-> s.tpl]],
     pods     |-> 0,
     ready    |-> 0]

\* A copy of t with another specification and the same status.
Respecified(t, replicas, pool) ==
    [replicas |-> replicas, pool |-> pool, pods |-> t.pods, ready |-> t.ready]

\* The new entry is a copy of entry 0, unlabelled if it is to be the learner's;
\* the arguments of every entry are rebuilt.
GrowTApp(s, t) ==
    LET r == t.replicas
        Source(i) == t.pool[IF i = r THEN 0 ELSE i]
    IN  Respecified(t, r + 1,
            [i \in 0 .. r |-> [voting |-> Source(i).voting /\ (i = r => s.learner # r),
                              args   |-> s.tpl,
                              rest   |-> Source(i).rest]])

\* Mutant: the pool keeps the entry of the instance that goes.
ShrinkKeepsEntry(t) == Respecified(t, t.replicas - 1, t.pool)

ShrinkTApp(t) ==
    Respecified(t, t.replicas - 1, [i \in 0 .. t.replicas - 2 |-> t.pool[i]])

Retemplate(s, t) ==
    Respecified(t, t.replicas,
        [i \in DOMAIN t.pool |->
            [voting |-> t.pool[i].voting, args |-> s.tpl, rest |-> s.tpl]])

Relabel(t) ==
    Respecified(t, t.replicas,
        [i \in DOMAIN t.pool |->
            [voting |-> TRUE, args |-> t.pool[i].args, rest |-> t.pool[i].rest]])

-----------------------------------------------------------------------------
(***************************************************************************)
(* The etcd server's side (v3.4.13, go.mod).  MemberList is answered by    *)
(* any member; a change needs a majority of the voters.  A voter is        *)
(* removed only if the others still have a majority, a member is added     *)
(* only while every voter is connected, and one learner is the limit.      *)
(***************************************************************************)
Majority(up, of) == 2 * Cardinality(up \cap of) > Cardinality(of)

MayAdd(i) == i \notin Members /\ voters # {} /\ voters \subseteq running
MayRemove(i) ==
    /\ i \in Members
    /\ Majority(running, voters)
    /\ i \in voters => /\ voters # {i}
                       /\ i \in running => Majority(running, voters \ {i})
MayPromote(i) == i \in learners \cap running /\ Majority(running, voters)

\* The pods behind the access service, whose selector asks for the voting label.
Endpoints == {i \in running : i < TApp.replicas /\ TApp.pool[i].voting}
Reachable == Endpoints # {}

-----------------------------------------------------------------------------
(***************************************************************************)
(* Steps of a loop.  A call has its effect and is answered, or a fault     *)
(* strikes: it fails before, or after, it took effect.                     *)
(***************************************************************************)
Fault == faults < MaxFaults /\ faults' = faults + 1
NoFault == faults' = faults

\* Where a loop has a copy of the TApp it will still use.
Holding == {"addList", "add", "grow", "removeList", "remove", "shrink", "pvc",
            "template", "relabel", "relabel2"}

\* At "idle" sync has returned; the next one reads everything anew.
Goto(l, label) ==
    /\ pc' = [pc EXCEPT ![l] = label]
    /\ e' = IF label = "idle" THEN [e EXCEPT ![l] = versions[1]] ELSE e
    /\ app' = IF label \in Holding THEN app ELSE [app EXCEPT ![l] = NoTApp]
Return(l) == Goto(l, "idle")

KeepCopy(l) == fresh' = IF pc'[l] \in Holding THEN fresh ELSE fresh \ {l}

\* Go on with the TApp the lister hands out.
TakeCached(l, label) ==
    /\ pc' = [pc EXCEPT ![l] = label]
    /\ app' = [app EXCEPT ![l] = CachedTApp]
    /\ fresh' = IF Len(tapps) = 1 THEN fresh \cup {l} ELSE fresh \ {l}
    /\ UNCHANGED e

\* A read-only RPC through the access service.  A learner behind the service
\* refuses it.
CanFail == ~Reachable \/ Endpoints \cap learners # {}
Ask(l, Answered) ==
    \/ Reachable /\ NoFault /\ Answered
    \/ CanFail /\ NoFault /\ Return(l) /\ KeepCopy(l)
    \/ ~CanFail /\ Fault /\ Return(l) /\ KeepCopy(l)

\* A write: refused, or it takes effect; a fault loses the call or the answer.
Call(l, Accepted, Effect, Unchanged, label) ==
    \/ Accepted /\ Effect /\ \/ NoFault /\ Goto(l, label)
                             \/ Fault /\ Return(l)
    \/ ~Accepted /\ Unchanged /\ NoFault /\ Return(l)
    \/ Accepted /\ Unchanged /\ Fault /\ Return(l)

\* A membership change through the access service.
Change(l, May, Effect, Unchanged, label) ==
    \/ Call(l, Reachable /\ May, Effect, Unchanged, label)
    \/ Endpoints \cap learners # {} /\ Unchanged /\ NoFault /\ Return(l)

\* The API server accepts version t of the TApp.
PutTApp(t) ==
    /\ Len(tapps) <= MaxLag
    /\ tapps' = Append(tapps, t)
    /\ fresh' = {}

\* Mutant: the update carries no resourceVersion.
UpdateTAppBlindly(l, t, label) ==
    Call(l, TRUE, PutTApp(t), UNCHANGED tapps /\ fresh' = fresh \ {l}, label)

\* TApps(ns).Update(newApp): refused unless the copy it was made from is current.
UpdateTApp(l, t, label) ==
    Call(l, l \in fresh, PutTApp(t), UNCHANGED tapps /\ fresh' = fresh \ {l}, label)

\* sync: c.etcd is the cached EtcdCluster.
Begin(l) ==
    /\ pc[l] = "idle"
    /\ e' = [e EXCEPT ![l] = CachedSpec]
    /\ pc' = [pc EXCEPT ![l] = "tapp"]
    /\ UNCHANGED <<app, fresh, userVars, tapps, etcdVars, faults>>

\* ensureTApp: create the seed TApp if the cache has none.
CreateTApp(l) ==
    /\ pc[l] = "tapp"
    /\ CachedTApp.replicas = 0
    /\ Call(l, TApp.replicas = 0, PutTApp(SeedTApp(e[l])), UNCHANGED <<tapps, fresh>>,
            "labels")
    /\ UNCHANGED <<userVars, etcdVars>>

\* reconcileTApp: which way to scale, and whether to wait for the existing pods.
ReadTApp(l) ==
    LET r == CachedTApp.replicas
        size == e[l].size
    IN  /\ pc[l] = "tapp"
        /\ r > 0
        /\ NoFault
        /\ \/ size > r /\ Settled(CachedTApp) /\ TakeCached(l, "addList")
           \/ size > r /\ ~Settled(CachedTApp) /\ Goto(l, "labels") /\ KeepCopy(l)
           \/ size < r /\ TakeCached(l, "removeList")
           \/ size = r /\ TakeCached(l, "template")
        /\ UNCHANGED <<userVars, tapps, etcdVars>>

\* Mutant: the member is added without a look at the list.
AddListUnread(l) ==
    /\ pc[l] = "addList"
    /\ Ask(l, Goto(l, "add") /\ KeepCopy(l))
    /\ UNCHANGED <<userVars, tapps, etcdVars>>

\* "ensure new member add": nothing is added if there is a member more than pods.
AddList(l) ==
    /\ pc[l] = "addList"
    /\ Ask(l, /\ Goto(l, IF Cardinality(Members) = app[l].replicas THEN "add" ELSE "grow")
              /\ KeepCopy(l))
    /\ UNCHANGED <<userVars, tapps, etcdVars>>

\* MemberAdd or MemberAddAsLearner for the next index.
MemberAdd(l) ==
    LET i == app[l].replicas
        asLearner == e[l].learner = i
    IN  /\ pc[l] = "add"
        /\ Change(l, MayAdd(i) /\ (asLearner => learners = {}),
                     /\ voters' = IF asLearner THEN voters ELSE voters \cup {i}
                     /\ learners' = IF asLearner THEN {i} ELSE learners,
                     UNCHANGED <<voters, learners>>,
                  "grow")
        /\ KeepCopy(l)
        /\ UNCHANGED <<userVars, tapps, running, disk>>

\* One replica more; the template update that follows uses the old copy.
Grow(l) ==
    /\ pc[l] = "grow"
    /\ UpdateTApp(l, GrowTApp(e[l], app[l]), "template")
    /\ UNCHANGED <<userVars, etcdVars>>

\* Mutant: off by one.
InstanceBeforeLast(l) == app[l].replicas - 2

\* The instance that a scale down takes away, of the copy.
LastInstance(l) == app[l].replicas - 1

\* Mutant: the member is not looked for.
RemoveListSkips(l) ==
    /\ pc[l] = "removeList"
    /\ Ask(l, Goto(l, "shrink") /\ KeepCopy(l))
    /\ UNCHANGED <<userVars, tapps, etcdVars>>

\* "ensure member remove": find the member of the last instance of the copy.
RemoveList(l) ==
    /\ pc[l] = "removeList"
    /\ Ask(l, /\ Goto(l, IF LastInstance(l) \in Members THEN "remove" ELSE "shrink")
              /\ KeepCopy(l))
    /\ UNCHANGED <<userVars, tapps, etcdVars>>

\* MemberRemove; the process of a removed member exits and its data is of no use.
MemberRemove(l) ==
    LET i == LastInstance(l)
    IN  /\ pc[l] = "remove"
        /\ Change(l, MayRemove(i),
                     /\ voters' = voters \ {i}
                     /\ learners' = learners \ {i}
                     /\ running' = running \ {i}
                     /\ disk' = [disk EXCEPT ![i] = IF @ = "own" THEN "old" ELSE @],
                     UNCHANGED etcdVars,
                  "shrink")
        /\ KeepCopy(l)
        /\ UNCHANGED <<userVars, tapps>>

\* One replica fewer.
Shrink(l) ==
    /\ pc[l] = "shrink"
    /\ UpdateTApp(l, ShrinkTApp(app[l]), "pvc")
    /\ UNCHANGED <<userVars, etcdVars>>

\* "remove pvc" of the instance that went away.
DeletePVC(l) ==
    /\ pc[l] = "pvc"
    /\ Call(l, TRUE, disk' = [disk EXCEPT ![LastInstance(l)] = "none"],
               UNCHANGED disk, "template")
    /\ KeepCopy(l)
    /\ UNCHANGED <<userVars, tapps, voters, learners, running>>

\* updateTAppTemplate: writes only if something differs from the copy it was given.
UpdateTemplate(l) ==
    LET new == Retemplate(e[l], app[l])
    IN  /\ pc[l] = "template"
        /\ \/ new # app[l] /\ UpdateTApp(l, new, "labels")
           \/ /\ new = app[l] /\ NoFault /\ Goto(l, "labels")
              /\ KeepCopy(l) /\ UNCHANGED tapps
        /\ UNCHANGED <<userVars, etcdVars>>

\* Mutant: etcd is not asked.
AllVotingBySpec(l) == e[l].learner = NoIndex

\* Neither the spec nor etcd has a learner.
AllVoting(l) == e[l].learner = NoIndex /\ learners = {}

\* ensureMemberStatus: with a ready pod, list the members; if all are to vote every
\* pod gets the voting label.  Without a ready pod the recorded roles stay as they
\* were, and may or may not have a learner.
Labels(l, here, relabel, next) ==
    LET t == CachedTApp
    IN  /\ pc[l] = here
        /\ \/ t.replicas = 0 /\ NoFault /\ Return(l) /\ KeepCopy(l)
           \/ /\ t.replicas > 0 /\ t.ready = 0 /\ NoFault
              /\ Goto(l, next) \/ Return(l)
              /\ KeepCopy(l)
           \/ /\ t.replicas > 0 /\ t.ready > 0
              /\ Ask(l, IF AllVoting(l) /\ Relabel(t) # t
                        THEN TakeCached(l, relabel)
                        ELSE Goto(l, next) /\ KeepCopy(l))
        /\ UNCHANGED <<userVars, tapps, etcdVars>>

RelabelTApp(l, here, next) ==
    /\ pc[l] = here
    /\ UpdateTApp(l, Relabel(app[l]), next)
    /\ UNCHANGED <<userVars, etcdVars>>

\* ensureLearner: promote the learner once the spec names none, then refresh
\* the status and the labels again.
Promote(l) ==
    /\ pc[l] = "learner"
    /\ \/ /\ e[l].learner # NoIndex \/ learners = {}
          /\ NoFault /\ Return(l) /\ UNCHANGED <<voters, learners>>
       \/ /\ e[l].learner = NoIndex
          /\ \E i \in learners :
               Change(l, MayPromote(i),
                         voters' = voters \cup {i} /\ learners' = learners \ {i},
                         UNCHANGED <<voters, learners>>,
                      "labels2")
    /\ KeepCopy(l)
    /\ UNCHANGED <<userVars, tapps, running, disk>>

Step(l) ==
    \/ Begin(l) \/ CreateTApp(l) \/ ReadTApp(l)
    \/ AddList(l) \/ MemberAdd(l) \/ Grow(l)
    \/ RemoveList(l) \/ MemberRemove(l) \/ Shrink(l) \/ DeletePVC(l)
    \/ UpdateTemplate(l)
    \/ Labels(l, "labels", "relabel", "learner") \/ RelabelTApp(l, "relabel", "learner")
    \/ Promote(l)
    \/ Labels(l, "labels2", "relabel2", "idle") \/ RelabelTApp(l, "relabel2", "idle")

-----------------------------------------------------------------------------
(***************************************************************************)
(* Everything else that moves.                                             *)
(***************************************************************************)
EtcdSynced ==
    /\ seen < Len(versions)
    /\ seen' = seen + 1
    /\ UNCHANGED <<versions, tapps, etcdVars, loopVars, faults>>

TAppSynced ==
    /\ Len(tapps) > 1
    /\ tapps' = Tail(tapps)
    /\ UNCHANGED <<userVars, etcdVars, loopVars, faults>>

\* The process of instance i starts: instance 0 bootstraps the cluster, others
\* join if the members are those of --initial-cluster; one with its own data
\* goes on from there, one with a removed member's data exits again.
PodStart(i) ==
    /\ i < TApp.replicas
    /\ i \notin running
    /\ \/ /\ i = 0 /\ disk[i] = "none" /\ voters = {}
          /\ voters' = {i}
       \/ /\ i > 0 /\ disk[i] = "none" /\ Members = 0 .. i /\ running # {}
          /\ UNCHANGED voters
       \/ /\ disk[i] = "own"
          /\ UNCHANGED voters
    /\ running' = running \cup {i}
    /\ disk' = [disk EXCEPT ![i] = "own"]
    /\ UNCHANGED <<learners, userVars, tapps, loopVars, faults>>

\* The TApp controller deletes the pod of an instance beyond spec.replicas.
PodDelete(i) ==
    /\ i \in running
    /\ i >= TApp.replicas
    /\ running' = running \ {i}
    /\ UNCHANGED <<voters, learners, disk, userVars, tapps, loopVars, faults>>

PodCrash(i) ==
    /\ i \in running
    /\ Fault
    /\ running' = running \ {i}
    /\ UNCHANGED <<voters, learners, disk, userVars, tapps, loopVars>>

\* The TApp controller writes status.replicas and status.readyReplicas.
ReportStatus ==
    LET up == {i \in running : i < TApp.replicas}
        t == [replicas |-> TApp.replicas, pool |-> TApp.pool,
              pods |-> TApp.replicas, ready |-> Cardinality(up)]
    IN  /\ t # TApp
        /\ PutTApp(t)
        /\ UNCHANGED <<userVars, etcdVars, pc, e, app, faults>>

\* The operator restarts and its informers list everything.
Restart ==
    /\ Fault
    /\ pc' = [l \in Loop |-> "idle"]
    /\ e' = [l \in Loop |-> versions[1]]
    /\ app' = [l \in Loop |-> NoTApp]
    /\ fresh' = {}
    /\ seen' = Len(versions)
    /\ tapps' = <<TApp>>
    /\ UNCHANGED <<versions, etcdVars>>

\* The cluster is what its spec asks for.
Converged ==
    /\ TApp.replicas = Wanted.size
    /\ Settled(TApp)
    /\ Members = 0 .. Wanted.size - 1
    /\ running = Members
    /\ \A i \in Members :
          /\ TApp.pool[i].args = Wanted.tpl
          /\ TApp.pool[i].rest = Wanted.tpl
    /\ Wanted.learner = NoIndex => /\ learners = {}
                                   /\ \A i \in Members : TApp.pool[i].voting

Quiet ==
    /\ Converged
    /\ seen = Len(versions)
    /\ Len(tapps) = 1
    /\ \A l \in Loop : pc[l] = "idle"

\* ValidateUpdate refuses a learner that status lists as a voter.  Status may lag;
\* it is up to date when the cluster has converged.
Edit(s) ==
    /\ Len(versions) <= MaxEdits
    /\ s # Wanted
    /\ Patient => Quiet /\ s.learner \notin voters
    /\ versions' = Append(versions, s)
    /\ UNCHANGED <<seen, tapps, etcdVars, loopVars, faults>>

Init ==
    /\ versions \in {<<s>> : s \in InitSpecs}
    /\ seen = 1
    /\ tapps = <<NoTApp>>
    /\ voters = {} /\ learners = {} /\ running = {}
    /\ disk = [i \in Index |-> "none"]
    /\ pc = [l \in Loop |-> "idle"]
    /\ e = [l \in Loop |-> versions[1]]
    /\ app = [l \in Loop |-> NoTApp]
    /\ fresh = {}
    /\ faults = 0

Next ==
    \/ \E l \in Loop : Step(l)
    \/ EtcdSynced \/ TAppSynced \/ ReportStatus \/ Restart
    \/ \E i \in Index : PodStart(i) \/ PodDelete(i) \/ PodCrash(i)
    \/ \E s \in Specs : Edit(s)

Spec == Init /\ [][Next]_vars

(***************************************************************************)
(* A loop's tickers and events keep it going, the informers deliver, the   *)
(* TApp controller starts pods and reports.  No fault is ever required.    *)
(***************************************************************************)
Fairness ==
    /\ \A l \in Loop : WF_vars(Step(l))
    /\ WF_vars(EtcdSynced) /\ WF_vars(TAppSynced) /\ WF_vars(ReportStatus)
    /\ \A i \in Index : WF_vars(PodStart(i)) /\ WF_vars(PodDelete(i))

FairSpec == Spec /\ Fairness

-----------------------------------------------------------------------------
\* A TApp has one pool entry for each replica.
TAppVersion ==
    UNION {[replicas : {r}, pool : [0 .. r - 1 -> Pod],
            pods : 0 .. MaxSize, ready : 0 .. MaxSize] : r \in 0 .. MaxSize}

Label == Holding \cup {"idle", "tapp", "labels", "labels2", "learner"}

\* Every variable has its type; in particular no TApp that is stored or worked on
\* has replicas without a pool entry, which ApplyEtcdNodeInitArgs would index.
TypeOK ==
    /\ versions \in Seq(Specs) /\ seen \in 1 .. Len(versions)
    /\ tapps \in Seq(TAppVersion) /\ Len(tapps) \in 1 .. MaxLag + 1
    /\ voters \subseteq Index /\ learners \subseteq Index /\ running \subseteq Index
    /\ disk \in [Index -> {"none", "own", "old"}]
    /\ pc \in [Loop -> Label]
    /\ e \in [Loop -> Specs]
    /\ app \in [Loop -> TAppVersion]
    /\ fresh \subseteq Loop
    /\ faults \in 0 .. MaxFaults

\* A replica is added to an existing cluster only when the current TApp, not
\* just the cached copy the decision was made on, has all its pods ready
\* ("wait existing pod running"): true of any number of loops and any lag.
GrowOnlyWhenSettled ==
    [][0 < TApp.replicas /\ TApp.replicas < TApp'.replicas => Settled(TApp)]_vars

\* A member is removed only if some version of the spec asked for a size that
\* excludes it, and added only if one asked for a size that includes it, however
\* stale what the loop read and whichever answers were lost.
MembershipWasAsked ==
    [][/\ \A i \in Members \ Members' : \E k \in 1 .. seen : versions[k].size <= i
       /\ \A i \in Members' \ Members :
             i = 0 \/ \E k \in 1 .. seen : versions[k].size > i]_vars

\* With one loop an instance goes away only once its member has left etcd
\* ("ensure member remove" precedes the update of the TApp).
LeavesBeforePodGoes ==
    [][TApp'.replicas < TApp.replicas => TApp'.replicas \notin Members]_vars

\* At most one member of a cluster whose user waits is still to start: a second one
\* that has not joined would cost the cluster its majority.
OneUnstartedMember == Cardinality({i \in Members : disk[i] # "own"}) <= 1

\* A replica has the volume of a member that was removed, because the call to delete
\* it failed: "remove pvc" is not tried again, and the new member cannot start.
OldVolume == \E i \in Index : i < TApp.replicas /\ disk[i] = "old"

\* A cluster whose user waits for it to converge implements ElasticCluster: the
\* members, voting or not, are always those of the first indexes and follow the
\* size of the spec one at a time, until they reach it or meet an old volume.
Elastic == INSTANCE ElasticCluster WITH want <- Wanted.size, members <- Members
ImplementsElastic == Elastic!Steps /\ (Elastic!Progress \/ <>OldVolume)

\* The pods of such a cluster never differ from its members by more than the one
\* that is joining or leaving.
PodsFollowMembers == Cardinality(Members) - TApp.replicas \in {-1, 0, 1}

\* "only voting members can be accessed by the client": a pod with the voting
\* label does not run a learner.
LearnersUnlabelled == Endpoints \cap learners = {}

\* The cluster ends up as the last spec asked, and stays so, whatever failed on the
\* way; only an old volume can keep it from that.
Converges == <>[](Converged \/ OldVolume)

\* "ensure new member add": the replica added is a member by then.
GrownReplicaIsMember ==
    [][0 < TApp.replicas /\ TApp.replicas < TApp'.replicas
         => TApp.replicas \in Members]_vars
=============================================================================
