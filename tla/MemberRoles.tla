---------------------------- MODULE MemberRoles ----------------------------
(***************************************************************************)
(* How the members of an etcd cluster and their roles get into the status. *)
(*                                                                         *)
(* ensureMemberStatus lists the members, merges the list with what the     *)
(* status said of them before, asks one pod after the other who it is and  *)
(* who leads, and writes the result; ensureLearner promotes the learners   *)
(* of the status and has it done again.  Meanwhile members come and go,    *)
(* leaders change, calls fail, and each member answers with the membership *)
(* and the leader it knows of.                                             *)
(* (ensureMemberStatus and ensureLearner in etcd.go; what etcd answers is  *)
(* not in the repository: version 3.4 serves both calls from the member    *)
(* that is asked.)                                                         *)
(***************************************************************************)
EXTENDS Integers, Sequences, FiniteSets

CONSTANTS
    MaxPods,    \* bound on the members at a time
    MaxIds,     \* bound on the members ever added
    MaxChanges, \* bound on removals and on elections while there is a leader
    MaxFaults   \* bound on calls that fail, or whose answer is lost

ASSUME RolesAssumption ==
    {MaxPods, MaxIds} \subseteq Nat \ {0} /\ {MaxChanges, MaxFaults} \subseteq Nat

Pod == 1 .. MaxPods
Id == 1 .. MaxIds
Role == {"", "Learner", "Leader", "Follower"}

VARIABLES
    members,    \* the members of the etcd cluster, that of the first pod first
    leader,     \* the id of the leader, 0 if there is none
    view,       \* what each member knows of the two
    up,         \* the pods that answer
    statuses,   \* the pods that the cached TApp says are running
    learner,    \* the spec names a learner
    recorded,   \* status.members at the API server
    cached,     \* and in the informer's cache
    old,        \* status.members of c.etcd
    fresh,      \* c.etcd has the current resourceVersion
    found,      \* memberStatus: the list that is being built
    running,    \* the pods that ran when the members were listed
    pc, next,   \* where the loop is in sync; the pod it asks next
    again,      \* ensureMemberStatus runs for the second time
    calm,       \* nothing has changed since the members were listed (history)
    ids, changes, faults

etcd == <<members, leader, view, up, ids>>
loop == <<old, fresh, found, running, pc, next, again>>
vars == <<etcd, statuses, learner, recorded, cached, loop, calm, changes, faults>>

Actual == [members |-> members, leader |-> leader]
Unasked == [members |-> <<>>, leader |-> 0]
NoPod == [k \in Pod |-> FALSE]
Known(v) == {v.members[k] : k \in 1 .. Len(v.members)}

-----------------------------------------------------------------------------
(***************************************************************************)
(* The record of a member: its id, the pod of its name (0 before it has    *)
(* started) and its role.  The order of the records, by name, is left out. *)
(***************************************************************************)
Entry(m, role) ==
    [id |-> m.id, name |-> IF m.started THEN m.pod ELSE 0,
     role |-> IF m.learner THEN "Learner" ELSE role]

\* A mutant: "found" is never set.
MergeTwice(listed, before) ==
    {Entry(m, "") : m \in listed}
        \cup UNION {{Entry(m, r.role) : r \in {b \in before : b.id = m.id}} : m \in listed}

\* A member keeps the role it had, unless it is listed as a learner.
Merge(listed, before) ==
    {Entry(m, "") : m \in {n \in listed : \A r \in before : r.id # n.id}}
        \cup UNION {{Entry(m, r.role) : r \in {b \in before : b.id = m.id}} : m \in listed}

\* A mutant: a role that is known is not asked for.
AnsweredOnce(entries, me, leads) ==
    {IF r.id = me.id /\ r.role = ""
     THEN [r EXCEPT !.role = IF leads = me.id THEN "Leader" ELSE "Follower"] ELSE r : r \in entries}

\* A mutant: whoever does not lead follows.
AnsweredAsVoter(entries, me, leads) ==
    {IF r.id = me.id
     THEN [r EXCEPT !.role = IF leads = me.id THEN "Leader" ELSE "Follower"] ELSE r : r \in entries}

\* The answer of a member says whether it is a learner and whether it leads.
Answered(entries, me, leads) ==
    {IF r.id = me.id
     THEN [r EXCEPT !.role = IF me.learner THEN "Learner"
                             ELSE IF leads = me.id THEN "Leader" ELSE "Follower"]
     ELSE r : r \in entries}

-----------------------------------------------------------------------------
(***************************************************************************)
(* A sync.                                                                 *)
(***************************************************************************)
Fault == faults < MaxFaults /\ faults' = faults + 1
NoFault == faults' = faults

Forget == found' = {} /\ running' = {} /\ next' = 1 /\ again' = FALSE /\ calm' = FALSE
Return == pc' = "idle" /\ Forget /\ old' = {} /\ fresh' = FALSE

Begin ==
    /\ pc = "idle"
    /\ pc' = "list" /\ old' = cached /\ fresh' = (cached = recorded)
    /\ UNCHANGED <<etcd, statuses, learner, recorded, cached, found, running, next, again,
                   calm, changes, faults>>

Settled ==
    /\ leader # 0
    /\ \A k \in 1 .. Len(members) :
        members[k].started /\ up[k] /\ statuses[k] /\ view[k] = Actual
    /\ \A k \in Pod : up[k] => k <= Len(members)

\* MemberList, once a pod is ready: any pod may be the one that answers.
ListMembers ==
    /\ pc = "list"
    /\ \/ /\ \E k \in Pod : up[k] /\ found' = Merge(Known(view[k]), old)
          /\ \E k \in Pod : statuses[k]
          /\ running' = {k \in Pod : statuses[k]}
          /\ pc' = "ask" /\ next' = 1 /\ calm' = Settled /\ NoFault
          /\ UNCHANGED <<old, fresh, again>>
       \/ (statuses = NoPod \/ up = NoPod) /\ Return /\ NoFault
       \/ Return /\ Fault
    /\ UNCHANGED <<etcd, statuses, learner, recorded, cached, changes>>

\* A mutant: the loop ends one pod too early.
AskAllButLast ==
    /\ pc = "ask"
    /\ IF next >= Cardinality(found)
       THEN pc' = "record" /\ NoFault /\ UNCHANGED <<found, next, calm>>
       ELSE /\ next' = next + 1 /\ UNCHANGED pc
            /\ \/ next \in running /\ up[next] /\ NoFault /\ UNCHANGED calm
                  /\ found' = Answered(found, view[next].members[next], view[next].leader)
               \/ (next \notin running \/ ~up[next]) /\ NoFault /\ UNCHANGED <<found, calm>>
               \/ next \in running /\ up[next] /\ Fault /\ calm' = FALSE /\ UNCHANGED found
    /\ UNCHANGED <<etcd, statuses, learner, recorded, cached, old, fresh, running, again,
                   changes>>

\* Status of the pods in turn: one that is not running, or does not answer, is left
\* with the role it had.
AskPod ==
    /\ pc = "ask"
    /\ IF next > Cardinality(found)
       THEN pc' = "record" /\ NoFault /\ UNCHANGED <<found, next, calm>>
       ELSE /\ next' = next + 1 /\ UNCHANGED pc
            /\ \/ next \in running /\ up[next] /\ NoFault /\ UNCHANGED calm
                  /\ found' = Answered(found, view[next].members[next], view[next].leader)
               \/ (next \notin running \/ ~up[next]) /\ NoFault /\ UNCHANGED <<found, calm>>
               \/ next \in running /\ up[next] /\ Fault /\ calm' = FALSE /\ UNCHANGED found
    /\ UNCHANGED <<etcd, statuses, learner, recorded, cached, old, fresh, running, again,
                   changes>>

\* ensureLearner follows, or sync is over.
Continue(copy, current) ==
    IF again THEN Return ELSE pc' = "learner" /\ Forget /\ old' = copy /\ fresh' = current

\* The write is refused if c.etcd is not current; c.etcd is what was sent.
RecordMembers ==
    /\ pc = "record"
    /\ \/ found = old /\ Continue(old, fresh) /\ NoFault /\ UNCHANGED recorded
       \/ /\ found # old /\ fresh /\ recorded' = found
          /\ \/ Continue(found, FALSE) /\ NoFault
             \/ Return /\ Fault
       \/ found # old /\ ~fresh /\ Return /\ NoFault /\ UNCHANGED recorded
       \/ found # old /\ Return /\ Fault /\ UNCHANGED recorded
    /\ UNCHANGED <<etcd, statuses, learner, cached, changes>>

\* etcd promotes a learner that runs.
Promotable(id) ==
    /\ leader # 0
    /\ \E i \in 1 .. Len(members) : members[i].id = id /\ members[i].learner /\ up[i]

\* ensureLearner, for a learner of the status that the member asked still calls one:
\* etcd promotes it or refuses.
PromoteLearner ==
    /\ pc = "learner" /\ ~learner
    /\ \E k \in Pod, r \in old :
        /\ up[k] /\ r.role = "Learner"
        /\ \E m \in Known(view[k]) : m.id = r.id /\ m.learner
        /\ \/ \E i \in 1 .. Len(members) :
                /\ members[i].id = r.id /\ Promotable(r.id)
                /\ members' = [members EXCEPT ![i].learner = FALSE]
                /\ pc' = "list" /\ again' = TRUE /\ calm' = FALSE
                /\ NoFault /\ UNCHANGED <<old, fresh, found, running, next>>
           \/ Return /\ (Fault \/ (NoFault /\ ~Promotable(r.id))) /\ UNCHANGED members
    /\ UNCHANGED <<leader, view, up, ids, statuses, learner, recorded, cached, changes>>

\* No learner to promote, or none that the members asked still call one.
NoLearner ==
    /\ pc = "learner"
    /\ \/ learner \/ up = NoPod
       \/ \A r \in old : r.role = "Learner" =>
            \E k \in Pod : up[k] /\ \A m \in Known(view[k]) : m.id = r.id => ~m.learner
    /\ Return
    /\ UNCHANGED <<etcd, statuses, learner, recorded, cached, changes, faults>>

Step == Begin \/ ListMembers \/ AskPod \/ RecordMembers \/ PromoteLearner \/ NoLearner

-----------------------------------------------------------------------------
(***************************************************************************)
(* The etcd cluster, the pods, the informers, the user.                    *)
(***************************************************************************)
Change == changes < MaxChanges /\ changes' = changes + 1

\* A member is added once the others have started, as a learner if the spec has one.
AddMember ==
    /\ ids < MaxIds /\ Len(members) < MaxPods /\ leader # 0
    /\ \A k \in 1 .. Len(members) : members[k].started
    /\ ~up[Len(members) + 1]
    /\ ids' = ids + 1
    /\ members' = Append(members, [id |-> ids', pod |-> Len(members) + 1,
                                   started |-> FALSE, learner |-> learner])
    /\ calm' = FALSE
    /\ UNCHANGED <<leader, view, up, statuses, learner, recorded, cached, loop, changes, faults>>

\* The last pod starts, and its member has a name from then on.
StartMember ==
    LET k == Len(members)
    IN  /\ ~members[k].started
        /\ members' = [members EXCEPT ![k].started = TRUE]
        /\ up' = [up EXCEPT ![k] = TRUE]
        /\ view' = [view EXCEPT ![k] = [Actual EXCEPT !.members = members']]
        /\ calm' = FALSE
        /\ UNCHANGED <<leader, ids, statuses, learner, recorded, cached, loop, changes, faults>>

\* The last member is removed; its pod answers as before until it is gone.
RemoveMember ==
    LET last == Len(members)
    IN  /\ Change /\ last > 1 /\ leader # 0
        /\ members' = SubSeq(members, 1, last - 1)
        /\ leader' = IF leader = members[last].id THEN 0 ELSE leader
        /\ calm' = FALSE
        /\ UNCHANGED <<view, up, ids, statuses, learner, recorded, cached, loop, faults>>

PodGone(k) ==
    /\ k > Len(members) /\ up[k]
    /\ up' = [up EXCEPT ![k] = FALSE] /\ view' = [view EXCEPT ![k] = Unasked]
    /\ UNCHANGED <<members, leader, ids, statuses, learner, recorded, cached, loop, calm,
                   changes, faults>>

Elect(k) ==
    /\ members[k].started /\ ~members[k].learner /\ up[k] /\ leader # members[k].id
    /\ IF leader = 0 THEN UNCHANGED changes ELSE Change
    /\ leader' = members[k].id
    /\ calm' = FALSE
    /\ UNCHANGED <<members, view, up, ids, statuses, learner, recorded, cached, loop, faults>>

\* A member hears of the current leader and members.
Hear(k) ==
    /\ k <= Len(members) /\ members[k].started /\ up[k]
    /\ view[k] # Actual
    /\ view' = [view EXCEPT ![k] = Actual]
    /\ UNCHANGED <<members, leader, up, ids, statuses, learner, recorded, cached, loop, calm,
                   changes, faults>>

DeliverTApp ==
    /\ statuses # up
    /\ statuses' = up
    /\ UNCHANGED <<etcd, learner, recorded, cached, loop, calm, changes, faults>>

DeliverStatus ==
    /\ cached # recorded
    /\ cached' = recorded
    /\ UNCHANGED <<etcd, statuses, learner, recorded, loop, calm, changes, faults>>

\* The user wants the learner promoted.
Unlearn ==
    /\ learner
    /\ learner' = FALSE
    /\ UNCHANGED <<etcd, statuses, recorded, cached, loop, calm, changes, faults>>

Init ==
    /\ members = <<[id |-> 1, pod |-> 1, started |-> FALSE, learner |-> FALSE]>>
    /\ leader = 0 /\ ids = 1
    /\ view = [k \in Pod |-> Unasked]
    /\ up = NoPod /\ statuses = up
    /\ learner \in BOOLEAN
    /\ recorded = {} /\ cached = {} /\ old = {} /\ fresh = FALSE
    /\ found = {} /\ running = {} /\ pc = "idle" /\ next = 1 /\ again = FALSE
    /\ calm = FALSE
    /\ changes = 0 /\ faults = 0

Next ==
    \/ Step \/ DeliverTApp \/ DeliverStatus \/ Unlearn
    \/ AddMember \/ StartMember \/ RemoveMember
    \/ \E k \in Pod : PodGone(k) \/ Hear(k)
    \/ \E k \in 1 .. Len(members) : Elect(k)

Fairness ==
    /\ WF_vars(Step) /\ WF_vars(DeliverTApp) /\ WF_vars(DeliverStatus)
    /\ \A k \in Pod : WF_vars(Hear(k))

Spec == Init /\ [][Next]_vars /\ Fairness

-----------------------------------------------------------------------------
(***************************************************************************)
(* Properties.                                                             *)
(***************************************************************************)
EntryType == [id : Id, name : 0 .. MaxPods, role : Role]

\* A set of records is one that the status may hold: one record for a member.
IsStatus(s) == s \subseteq EntryType /\ \A q, r \in s : q.id = r.id => q = r

TypeOK ==
    /\ members \in Seq([id : Id, pod : Pod, started : BOOLEAN, learner : BOOLEAN])
    /\ Len(members) \in Pod /\ leader \in Id \cup {0}
    /\ up \in [Pod -> BOOLEAN] /\ statuses \in [Pod -> BOOLEAN]
    /\ learner \in BOOLEAN /\ fresh \in BOOLEAN /\ again \in BOOLEAN /\ calm \in BOOLEAN
    /\ IsStatus(recorded) /\ IsStatus(cached) /\ IsStatus(old) /\ IsStatus(found)
    /\ \A k \in Pod : up[k] => Len(view[k].members) >= k
    /\ running \subseteq Pod
    /\ pc \in {"idle", "list", "ask", "record", "learner"} /\ next \in 1 .. MaxPods + 1
    /\ ids \in Id /\ changes \in 0 .. MaxChanges /\ faults \in 0 .. MaxFaults

\* Whom the status calls leader or follower is no learner, though pods are replaced,
\* members answer late and roles are kept for those that do not answer: the webhook
\* refuses to name such a member a learner (validation.go:95).
VotersAreVoters ==
    \A r \in recorded : r.role \in {"Leader", "Follower"} =>
        \A m \in Known(Actual) : m.id = r.id => ~m.learner

RoleOf(m) ==
    IF m.learner THEN "Learner" ELSE IF m.id = leader THEN "Leader" ELSE "Follower"
Truth == {[id |-> m.id, name |-> m.pod, role |-> RoleOf(m)] : m \in Known(Actual)}

\* A sync that has read the current status and during which nothing changes leaves the
\* truth in it, one leader and the role of everyone, whatever the status said before.
\* (With a cache that is behind, what it finds may be what it read, and is not written.)
QuietSyncIsRight ==
    [][pc = "record" /\ pc' # "record" /\ faults' = faults /\ fresh /\ calm => recorded' = Truth]_vars

\* Once etcd and its pods are at peace the status becomes right and stays so: a second
\* leader, or a promoted learner still called one, is only ever temporary.
RolesSettle == <>[](Settled => recorded = Truth /\ (learner \/ \A m \in Known(Actual) : ~m.learner))
=============================================================================
