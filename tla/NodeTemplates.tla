--------------------------- MODULE NodeTemplates ---------------------------
(***************************************************************************)
(* From the spec the webhooks admit to the pod template of every node.     *)
(*                                                                         *)
(* The mutating webhook gives a submitted EtcdCluster its defaults, the    *)
(* validating one accepts or refuses it (pkg/admission, pkg/validation).   *)
(* The control loop seeds a TApp of one node, grows and shrinks it and     *)
(* rebuilds the container arguments (tapp.go, etcd.go).  What a template   *)
(* holds is decided at different times: its image and volumes once, by the *)
(* spec of the seed; its arguments at every sync; its voting label when    *)
(* its node is added.  The interleavings of these steps with one another   *)
(* and their failures are EtcdScaling's; here each is one step.            *)
(***************************************************************************)
EXTENDS Integers, Sequences, FiniteSets

CONSTANTS
    Width,      \* bits of the integer type of spec.size: 32 in the code
    Default,    \* the version a spec without one gets
    Offered,    \* the specs a user may submit
    MaxEdits,   \* bound on the updates of the spec
    TLSFixed    \* TRUE: the user leaves the TLS configuration as it was created

Kind == {"server", "peer", "client"}    \* certificates, each a secret volume
NoVersion == 0

(***************************************************************************)
(* An item of spec.learners is a string: whether Atoi accepts it, as what  *)
(* number, and whether it is how Sprint writes that number ("1", not "01").*)
(* version is NoVersion if it is left out; external and auto are the kinds *)
(* of certificates the user supplies and has generated; extra maps flags   *)
(* to values.                                                              *)
(***************************************************************************)
Item == [numeric : BOOLEAN, value : Int, canonical : BOOLEAN]
SpecType == [size : Int, version : Nat, learners : Seq(Item), pvc : BOOLEAN,
             external : SUBSET Kind, auto : SUBSET Kind,
             extra : UNION {[f -> {"user"}] : f \in SUBSET {"data-dir", "quota"}}]

ASSUME TemplatesAssumption ==
    /\ Width \in Nat \ {0}
    /\ Default \in Nat \ {NoVersion}
    /\ Offered \subseteq SpecType
    /\ MaxEdits \in Nat
    /\ TLSFixed \in BOOLEAN

VARIABLES
    stored,     \* the spec the API server holds, in a sequence: none or one
    nodes,      \* the TApp's template pool: one template for each replica
    voters,     \* the nodes whose etcd member votes
    reported,   \* the voters that status.members lists
    edits       \* updates so far

vars == <<stored, nodes, voters, reported, edits>>

Spec0 == stored[1]
Created == stored # << >>
Replicas == Cardinality(DOMAIN nodes)
NoNodes == [i \in {} |-> {}]

-----------------------------------------------------------------------------
(***************************************************************************)
(* Admission.                                                              *)
(***************************************************************************)
\* Go's int32(n): the low bits of n, as a signed number.
Int32(n) == ((n + 2 ^ (Width - 1)) % 2 ^ Width) - 2 ^ (Width - 1)

SetDefaults(s) ==
    [s EXCEPT !.version = IF @ = NoVersion THEN Default ELSE @]

LearnersValid(s) ==
    \/ s.learners = << >>
    \/ /\ Len(s.learners) = 1
       /\ s.learners[1].numeric
       /\ Int32(s.learners[1].value) < s.size

Validate(s) ==
    /\ s.size \in 1 .. 7
    /\ s.version # NoVersion
    /\ s.external \cap s.auto = {}
    /\ LearnersValid(s)

\* The item names node i, as the code compares them: as strings.
Names(s, i) ==
    /\ s.learners # << >>
    /\ s.learners[1].numeric /\ s.learners[1].canonical /\ s.learners[1].value = i

\* Mutant: the volume claim may change.
ValidateUpdateButPVC(old, new) ==
    /\ Validate(new)
    /\ new.version >= old.version
    /\ \A i \in reported : ~Names(new, i)

ValidateUpdate(old, new) ==
    /\ Validate(new)
    /\ new.version >= old.version
    /\ new.pvc = old.pvc
    /\ \A i \in reported : ~Names(new, i)

\* A submission: the mutating webhook, then the validating one, then the store.
Create(s) ==
    /\ ~Created
    /\ Validate(SetDefaults(s))
    /\ stored' = <<SetDefaults(s)>>
    /\ UNCHANGED <<nodes, voters, reported, edits>>

Update(s) ==
    /\ Created /\ edits < MaxEdits /\ edits' = edits + 1
    /\ TLSFixed => s.external = Spec0.external /\ s.auto = Spec0.auto
    /\ ValidateUpdate(Spec0, SetDefaults(s))
    /\ stored' = <<SetDefaults(s)>>
    /\ UNCHANGED <<nodes, voters, reported>>

-----------------------------------------------------------------------------
(***************************************************************************)
(* Templates.                                                              *)
(***************************************************************************)
\* The secret volumes, one per kind configured each way, and the data volume.
Volumes(s) ==
    [v \in Kind \cup {"data"} |->
        IF v = "data" THEN (IF s.pvc THEN 1 ELSE 0)
        ELSE Cardinality({w \in {"external", "auto"} : v \in s[w]})]

SecureKinds(s) == (s.external \cup s.auto) \cap {"server", "peer"}

\* The flags of node i whose values depend on the spec or on i: the files of each
\* secure side, where the data goes, and whether the node starts a new cluster.
NodeInitArgs(s, i) ==
    LET files == SecureKinds(s) \cup (IF s.pvc THEN {"data-dir"} ELSE {})
    IN  [f \in files \cup {"initial-cluster-state"} |->
            IF f \in files THEN "mount" ELSE IF i = 0 THEN "new" ELSE "existing"]

\* flag.Merge: the new flags override the old ones.
Merge(old, new) ==
    [f \in DOMAIN old \cup DOMAIN new |-> IF f \in DOMAIN new THEN new[f] ELSE old[f]]

Args(s, i) == Merge(NodeInitArgs(s, i), s.extra)

SeedTemplate(s) ==
    [image |-> s.version, volumes |-> Volumes(s), voting |-> ~Names(s, 0),
     args |-> Args(s, 0)]

\* Mutant: the flags of the last sync stay unless they are set anew.
RebuildOver(s, pool) ==
    [i \in DOMAIN pool |-> [pool[i] EXCEPT !.args = Merge(@, Args(s, i))]]

\* ApplyEtcdNodeInitArgs and ApplyEtcdExtraArgs: the arguments, from nothing.
Rebuild(s, pool) == [i \in DOMAIN pool |-> [pool[i] EXCEPT !.args = Args(s, i)]]

\* The pool with an entry for one node more.
Extended(pool, i, t) == [j \in DOMAIN pool \cup {i} |-> IF j = i THEN t ELSE pool[j]]

-----------------------------------------------------------------------------
(***************************************************************************)
(* The control loop, and what it lets etcd do.                             *)
(***************************************************************************)
\* The access service, through which the loop talks to etcd, has an endpoint: its
\* selector asks for the voting label.
Reachable == \E i \in DOMAIN nodes : nodes[i].voting

\* ensureTApp creates the TApp; the seed node bootstraps the cluster as a voter.
Seed ==
    /\ Created /\ nodes = NoNodes
    /\ nodes' = [i \in {0} |-> SeedTemplate(Spec0)]
    /\ voters' = {0}
    /\ UNCHANGED <<stored, reported, edits>>

\* Mutant: the new node gets the default template of the spec.
GrowDefault ==
    /\ Reachable /\ Spec0.size > Replicas
    /\ LET new == [SeedTemplate(Spec0) EXCEPT !.voting = ~Names(Spec0, Replicas),
                                              !.volumes = [v \in DOMAIN @ |-> 0]]
       IN  nodes' = Rebuild(Spec0, Extended(nodes, Replicas, new))
    /\ voters' = IF Names(Spec0, Replicas) THEN voters ELSE voters \cup {Replicas}
    /\ UNCHANGED <<stored, reported, edits>>

\* The next node is to be a learner, and there is one already: etcd refuses it.
SecondLearner ==
    Spec0.size > Replicas /\ Names(Spec0, Replicas) /\ voters # DOMAIN nodes

\* The next node, a learner if the spec names it, gets a copy of entry 0.
Grow ==
    /\ Reachable /\ Spec0.size > Replicas /\ ~SecondLearner
    /\ LET new == [nodes[0] EXCEPT !.voting = @ /\ ~Names(Spec0, Replicas)]
       IN  nodes' = Rebuild(Spec0, Extended(nodes, Replicas, new))
    /\ voters' = IF Names(Spec0, Replicas) THEN voters ELSE voters \cup {Replicas}
    /\ UNCHANGED <<stored, reported, edits>>

\* Mutant: off by one.
ShrinkBeforeLast ==
    /\ Reachable /\ Spec0.size < Replicas
    /\ nodes' = [i \in DOMAIN nodes \ {Replicas - 2} |-> nodes[i]]
    /\ voters' = voters \ {Replicas - 2}
    /\ UNCHANGED <<stored, reported, edits>>

Shrink ==
    /\ Reachable /\ Spec0.size < Replicas
    /\ nodes' = [i \in DOMAIN nodes \ {Replicas - 1} |-> nodes[i]]
    /\ voters' = voters \ {Replicas - 1}
    /\ UNCHANGED <<stored, reported, edits>>

\* updateTAppTemplate leaves image, volumes and labels as they are.
UpdateTAppTemplate ==
    /\ nodes # NoNodes /\ Spec0.size = Replicas
    /\ nodes' = Rebuild(Spec0, nodes)
    /\ nodes' # nodes
    /\ UNCHANGED <<stored, voters, reported, edits>>

\* Mutant: only the templates of new voters are labelled.
RecordNewMembers ==
    /\ Reachable
    /\ reported' = voters
    /\ nodes' = IF Spec0.learners = << >> /\ voters = DOMAIN nodes
                THEN [i \in DOMAIN nodes |->
                         IF i \in reported THEN nodes[i]
                         ELSE [nodes[i] EXCEPT !.voting = TRUE]]
                ELSE nodes
    /\ UNCHANGED <<stored, voters, edits>>

\* ensureMemberStatus records who votes; without learners, in the spec or in
\* etcd, every template gets the voting label.
RecordMembers ==
    /\ Reachable
    /\ reported' = voters
    /\ nodes' = IF Spec0.learners = << >> /\ voters = DOMAIN nodes
                THEN [i \in DOMAIN nodes |-> [nodes[i] EXCEPT !.voting = TRUE]]
                ELSE nodes
    /\ UNCHANGED <<stored, voters, edits>>

\* ensureLearner promotes the learner once the spec names none.
Promote ==
    /\ Reachable /\ Spec0.learners = << >>
    /\ voters # DOMAIN nodes
    /\ voters' = DOMAIN nodes
    /\ UNCHANGED <<stored, nodes, reported, edits>>

Sync == Seed \/ Grow \/ Shrink \/ UpdateTAppTemplate \/ RecordMembers \/ Promote

Init ==
    /\ stored = << >> /\ nodes = NoNodes
    /\ voters = {} /\ reported = {} /\ edits = 0

Next == (\E s \in Offered : Create(s) \/ Update(s)) \/ Sync
Spec == Init /\ [][Next]_vars

\* The loop's ticker keeps it syncing.
Reconciles ==
    /\ WF_vars(Seed) /\ WF_vars(Grow) /\ WF_vars(Shrink)
    /\ WF_vars(UpdateTAppTemplate) /\ WF_vars(RecordMembers) /\ WF_vars(Promote)
FairSpec == Spec /\ Reconciles

-----------------------------------------------------------------------------
\* Every variable has its type: a stored spec has its defaults and is valid, and
\* the pool has an entry for each replica, the first among them.
TypeOK ==
    /\ Len(stored) <= 1
    /\ Created => Validate(Spec0) /\ SetDefaults(Spec0) = Spec0
    /\ DOMAIN nodes = 0 .. Replicas - 1 /\ Replicas <= 7
    /\ voters \subseteq DOMAIN nodes
    /\ edits \in 0 .. MaxEdits

\* The arguments, rebuilt from the latest spec, put the data on the volume only if
\* there is one, and the volumes are those of the spec the cluster was seeded from;
\* a node with a volume never loses the flag that makes etcd use a directory.
DataOnVolume ==
    \A i \in DOMAIN nodes :
        /\ "data-dir" \in DOMAIN nodes[i].args /\ nodes[i].args["data-dir"] = "mount"
             => nodes[i].volumes["data"] = 1
        /\ nodes[i].volumes["data"] = 1 => "data-dir" \in DOMAIN nodes[i].args

\* Every certificate file the arguments name is mounted, on the first node and on
\* those added after any number of edits that leave the TLS configuration alone; and
\* no volume is mounted twice, which Kubernetes would refuse for ever: what Validate
\* excludes at admission is what ApplyEtcdTLSOptions relies on later.
FilesMounted ==
    \A i \in DOMAIN nodes : \A v \in Kind \cup {"data"} :
        /\ nodes[i].volumes[v] <= 1
        /\ v \in DOMAIN nodes[i].args \cap Kind => nodes[i].volumes[v] = 1

\* The arguments of every node end up as the last spec has them; flags that were
\* removed from extraArgs are gone.  Only a cluster that waits for a node etcd refuses,
\* a second learner, keeps the old ones.
ArgsFollowSpec ==
    <>[](\/ \A i \in DOMAIN nodes : nodes[i].args = Args(Spec0, i)
         \/ SecondLearner)

\* "remove the corresponding sequence number when you want to promote learner to
\* member": with the list empty for good, every node votes and is labelled so.
LearnersPromoted ==
    <>[](Created /\ Spec0.learners = << >>
            => voters = DOMAIN nodes /\ \A i \in DOMAIN nodes : nodes[i].voting)
=============================================================================
