------------------------- MODULE MemberRolesProofs -------------------------
(***************************************************************************)
(* What holds of MemberRoles for every number of pods, members, changes    *)
(* and faults.                                                             *)
(***************************************************************************)
EXTENDS MemberRoles, SequenceTheorems, FiniteSetTheorems, TLAPS

-----------------------------------------------------------------------------
(***************************************************************************)
(* The inductive invariant.  Learners become voters and never the reverse, *)
(* and an id is not given twice: what was once known of a voter stays      *)
(* true, however late it is used.                                          *)
(***************************************************************************)
MemberType == [id : Id, pod : Pod, started : BOOLEAN, learner : BOOLEAN]
ViewType == [members : Seq(MemberType), leader : Id \cup {0}]

IsVoter(ms, id) == \A i \in 1 .. Len(ms) : ms[i].id = id => ~ms[i].learner

\* What a member may know of the members ms, at any time, n being the last id given.
GoodView(v, ms, n) ==
    /\ Len(v.members) <= MaxPods
    /\ \A i \in 1 .. Len(v.members) :
        /\ v.members[i].id <= n
        /\ ~v.members[i].learner => IsVoter(ms, v.members[i].id)
        /\ \A j \in 1 .. Len(v.members) : v.members[i].id = v.members[j].id => i = j

\* What a status may say of them.
GoodStatus(s, ms, n) ==
    \A r \in s : r.id <= n /\ (r.role \in {"Leader", "Follower"} => IsVoter(ms, r.id))

ViewsGood ==
    /\ view \in [Pod -> ViewType] /\ GoodView(Actual, members, ids)
    /\ \A k \in Pod : GoodView(view[k], members, ids)
StatusesGood ==
    /\ GoodStatus(recorded, members, ids) /\ GoodStatus(cached, members, ids)
    /\ GoodStatus(old, members, ids) /\ GoodStatus(found, members, ids)

FewFound == IsFiniteSet(found) /\ Cardinality(found) <= MaxPods
FreshIsRead == fresh => old = recorded

\* A sync during which nothing changes has found who there is, ...
FoundAll ==
    \A i \in 1 .. Len(members) : i \in running /\ \E r \in found : r.id = members[i].id
\* ... and the role of those it has asked.
AskedIsRight ==
    \A r \in found : \E i \in 1 .. Len(members) :
        /\ r.id = members[i].id /\ r.name = members[i].pod
        /\ i < next \/ pc = "record" => r.role = RoleOf(members[i])
CalmIsRight ==
    calm => Settled /\ pc \in {"ask", "record"} /\ FoundAll /\ AskedIsRight

IInv == TypeOK /\ ViewsGood /\ StatusesGood /\ FewFound /\ FreshIsRead /\ CalmIsRight

-----------------------------------------------------------------------------
(***************************************************************************)
(* What the operators on lists of members give.                            *)
(***************************************************************************)
LEMMA MembersTyped ==
    ASSUME NEW v \in ViewType
    PROVE  /\ Len(v.members) \in Nat /\ v.members \in Seq(MemberType)
           /\ \A i \in 1 .. Len(v.members) : v.members[i] \in MemberType
           /\ \A m \in Known(v) : \E i \in 1 .. Len(v.members) : m = v.members[i]
           /\ \A i \in 1 .. Len(v.members) : v.members[i] \in Known(v)
  <1>1. v.members \in Seq(MemberType)
    BY DEF ViewType
  <1>2. Len(v.members) \in Nat /\ \A i \in 1 .. Len(v.members) : v.members[i] \in MemberType
    BY <1>1, LenProperties, ElementOfSeq
  <1> QED BY <1>1, <1>2 DEF Known

LEMMA EntryIs ==
    ASSUME NEW m \in MemberType, NEW role \in Role
    PROVE  /\ Entry(m, role) \in EntryType /\ Entry(m, role).id = m.id
           /\ m.started => Entry(m, role).name = m.pod
           /\ Entry(m, role).role = IF m.learner THEN "Learner" ELSE role
  <1> DEFINE name == IF m.started THEN m.pod ELSE 0
             which == IF m.learner THEN "Learner" ELSE role
  <1>1. m.id \in Id /\ m.pod \in 1 .. MaxPods
    BY DEF MemberType, Pod
  <1>2. name \in 0 .. MaxPods /\ (m.started => name = m.pod)
    BY <1>1, RolesAssumption
  <1>3. which \in Role
    BY DEF Role
  <1> HIDE DEF name, which
  <1>4. [id |-> m.id, name |-> name, role |-> which] \in EntryType
    BY <1>1, <1>2, <1>3 DEF EntryType
  <1>5. Entry(m, role) = [id |-> m.id, name |-> name, role |-> which]
    BY DEF Entry, name, which
  <1> QED BY <1>2, <1>4, <1>5 DEF which

\* r is the record of m when the status said this before.
RecordOf(r, m, before) ==
    \/ r = Entry(m, "") /\ \A b \in before : b.id # m.id
    \/ \E b \in before : b.id = m.id /\ r = Entry(m, b.role)

LEMMA MergeHas ==
    ASSUME NEW listed, NEW before, NEW r
    PROVE  r \in Merge(listed, before) <=> \E m \in listed : RecordOf(r, m, before)
  <1> DEFINE A == {Entry(m, "") : m \in {n \in listed : \A q \in before : q.id # n.id}}
             B(m) == {Entry(m, b.role) : b \in {c \in before : c.id = m.id}}
             C == UNION {B(m) : m \in listed}
  <1>1. Merge(listed, before) = A \cup C
    BY DEF Merge
  <1>2. r \in A <=> \E m \in listed : r = Entry(m, "") /\ \A b \in before : b.id # m.id
    OBVIOUS
  <1>3. r \in C <=> \E m \in listed : r \in B(m)
    OBVIOUS
  <1>4. \A m : r \in B(m) <=> \E b \in before : b.id = m.id /\ r = Entry(m, b.role)
    OBVIOUS
  <1> HIDE DEF A, B, C
  <1> QED BY <1>1, <1>2, <1>3, <1>4 DEF RecordOf

\* s has one record for each member that v knows of, with the role it had before.
AreRecords(s, v, before) ==
    /\ IsStatus(s)
    /\ \A r \in s : \E i \in 1 .. Len(v.members) :
        /\ r.id = v.members[i].id
        /\ v.members[i].started => r.name = v.members[i].pod
        /\ v.members[i].learner => r.role = "Learner"
        /\ r.role \in {"", "Learner"} \/ \E b \in before : b.id = r.id /\ b.role = r.role
    /\ \A i \in 1 .. Len(v.members) : \E r \in s : r.id = v.members[i].id

LEMMA MergeIs ==
    ASSUME NEW v \in ViewType, NEW before, IsStatus(before),
           \A i, j \in 1 .. Len(v.members) : v.members[i].id = v.members[j].id => i = j
    PROVE  AreRecords(Merge(Known(v), before), v, before)
  <1> DEFINE s == Merge(Known(v), before)
  <1>1. "" \in Role /\ \A b \in before : b.role \in Role
    BY DEF IsStatus, EntryType, Role
  <1>2. \A r \in s : \E i \in 1 .. Len(v.members) : RecordOf(r, v.members[i], before)
    <2> SUFFICES ASSUME NEW r \in s
                 PROVE  \E i \in 1 .. Len(v.members) : RecordOf(r, v.members[i], before)
      OBVIOUS
    <2>1. PICK m \in Known(v) : RecordOf(r, m, before)
      BY MergeHas
    <2>2. PICK i \in 1 .. Len(v.members) : m = v.members[i]
      BY MembersTyped
    <2> QED BY <2>1, <2>2
  <1>3. ASSUME NEW i \in 1 .. Len(v.members)
        PROVE  LET m == v.members[i]
               IN  /\ (\A b \in before : b.id # m.id) => Entry(m, "") \in s
                   /\ \A b \in before : b.id = m.id => Entry(m, b.role) \in s
    <2>1. v.members[i] \in Known(v)
      BY MembersTyped
    <2>2. (\A b \in before : b.id # v.members[i].id) => Entry(v.members[i], "") \in s
      BY <2>1, MergeHas DEF RecordOf
    <2>3. ASSUME NEW b \in before, b.id = v.members[i].id
          PROVE  Entry(v.members[i], b.role) \in s
      BY <2>1, <2>3, MergeHas DEF RecordOf
    <2> QED BY <2>2, <2>3
  <1> HIDE DEF s
  <1>7. \A i \in 1 .. Len(v.members), role \in Role :
            Entry(v.members[i], role).id = v.members[i].id
    BY MembersTyped, EntryIs
  <1>4. ASSUME NEW r \in s
        PROVE  /\ r \in EntryType
               /\ \E i \in 1 .. Len(v.members) :
                    /\ r.id = v.members[i].id
                    /\ v.members[i].started => r.name = v.members[i].pod
                    /\ v.members[i].learner => r.role = "Learner"
                    /\ r.role \in {"", "Learner"} \/ \E b \in before : b.id = r.id /\ b.role = r.role
    <2>1. PICK i \in 1 .. Len(v.members) : RecordOf(r, v.members[i], before)
      BY <1>2
    <2>2. v.members[i] \in MemberType
      BY MembersTyped
    <2>3. CASE r = Entry(v.members[i], "")
      BY <1>1, <2>2, <2>3, EntryIs
    <2>4. ASSUME NEW b \in before, b.id = v.members[i].id, r = Entry(v.members[i], b.role)
          PROVE  /\ r \in EntryType
                 /\ r.id = v.members[i].id
                 /\ v.members[i].started => r.name = v.members[i].pod
                 /\ v.members[i].learner => r.role = "Learner"
                 /\ r.role \in {"", "Learner"} \/ \E c \in before : c.id = r.id /\ c.role = r.role
      BY <1>1, <2>2, <2>4, EntryIs
    <2> QED BY <2>1, <2>3, <2>4 DEF RecordOf
  <1>5. ASSUME NEW q \in s, NEW r \in s, q.id = r.id
        PROVE  q = r
    <2>1. PICK i \in 1 .. Len(v.members) : RecordOf(q, v.members[i], before)
      BY <1>2
    <2>2. PICK j \in 1 .. Len(v.members) : RecordOf(r, v.members[j], before)
      BY <1>2
    <2>3. q.id = v.members[i].id
      BY <1>1, <1>7, <2>1 DEF RecordOf
    <2>4. r.id = v.members[j].id
      BY <1>1, <1>7, <2>2 DEF RecordOf
    <2>5. i = j
      BY <1>5, <2>3, <2>4
    <2>6. \A a, b \in before : a.id = b.id => a = b
      BY DEF IsStatus
    <2> QED BY <2>1, <2>2, <2>5, <2>6 DEF RecordOf
  <1>6. \A i \in 1 .. Len(v.members) : \E r \in s : r.id = v.members[i].id
    <2> SUFFICES ASSUME NEW i \in 1 .. Len(v.members)
                 PROVE  \E r \in s : r.id = v.members[i].id
      OBVIOUS
    <2>1. CASE \A b \in before : b.id # v.members[i].id
      <3>1. Entry(v.members[i], "") \in s /\ Entry(v.members[i], "").id = v.members[i].id
        BY <1>1, <1>3, <1>7, <2>1
      <3> QED BY <3>1
    <2>2. ASSUME NEW b \in before, b.id = v.members[i].id
          PROVE  \E r \in s : r.id = v.members[i].id
      <3>1. Entry(v.members[i], b.role) \in s /\ Entry(v.members[i], b.role).id = v.members[i].id
        BY <1>1, <1>3, <1>7, <2>2
      <3> QED BY <3>1
    <2> QED BY <2>1, <2>2
  <1>8. AreRecords(s, v, before)
    BY <1>4, <1>5, <1>6 DEF IsStatus, AreRecords
  <1> QED BY <1>8 DEF s

LEMMA MergeKeepsGood ==
    ASSUME NEW v \in ViewType, NEW before, IsStatus(before), NEW ms, NEW n,
           GoodView(v, ms, n), GoodStatus(before, ms, n)
    PROVE  GoodStatus(Merge(Known(v), before), ms, n)
  <1>1. \A i, j \in 1 .. Len(v.members) : v.members[i].id = v.members[j].id => i = j
    BY DEF GoodView
  <1> DEFINE s == Merge(Known(v), before)
  <1>2. AreRecords(s, v, before)
    BY <1>1, MergeIs
  <1> HIDE DEF s
  <1>3. GoodStatus(s, ms, n)
    BY <1>2 DEF AreRecords, GoodView, GoodStatus
  <1> QED BY <1>3 DEF s

(***************************************************************************)
(* As many records as members.                                             *)
(***************************************************************************)
\* Every record of s is that of one of the first n of the list, and of no other record's.
IdsAmong(s, list, n) ==
    /\ \A q, r \in s : q.id = r.id => q = r
    /\ \A r \in s : \E i \in 1 .. n : r.id = list[i].id

\* Each of them has a record, and they are different.
IdsAll(s, list, n) ==
    /\ \A i \in 1 .. n : \E r \in s : r.id = list[i].id
    /\ \A i, j \in 1 .. n : list[i].id = list[j].id => i = j

LEMMA FewRecords ==
    ASSUME NEW list, NEW n \in Nat, NEW s, IdsAmong(s, list, n)
    PROVE  IsFiniteSet(s) /\ Cardinality(s) \in Nat /\ Cardinality(s) <= n
  <1> DEFINE Place(r) == CHOOSE i \in 1 .. n : r.id = list[i].id
             f == [r \in s |-> Place(r)]
  <1>1. \A r \in s : Place(r) \in 1 .. n /\ r.id = list[Place(r)].id
    BY DEF IdsAmong
  <1> HIDE DEF Place
  <1>2. f \in Injection(s, 1 .. n)
    BY <1>1 DEF Injection, IsInjective, IdsAmong
  <1>3. IsFiniteSet(1 .. n) /\ Cardinality(1 .. n) = n
    BY FS_Interval
  <1> QED BY <1>2, <1>3, FS_Injection, FS_CardinalityType

LEMMA EnoughRecords ==
    ASSUME NEW list, NEW n \in Nat, NEW s, IsFiniteSet(s), IdsAll(s, list, n)
    PROVE  n <= Cardinality(s)
  <1> DEFINE One(i) == CHOOSE r \in s : r.id = list[i].id
             f == [i \in 1 .. n |-> One(i)]
  <1>1. \A i \in 1 .. n : One(i) \in s /\ One(i).id = list[i].id
    BY DEF IdsAll
  <1> HIDE DEF One
  <1>2. f \in Injection(1 .. n, s)
    BY <1>1 DEF Injection, IsInjective, IdsAll
  <1>3. IsFiniteSet(1 .. n) /\ Cardinality(1 .. n) = n
    BY FS_Interval
  <1> QED BY <1>2, <1>3, FS_Injection

(***************************************************************************)
(* What an answer changes.                                                 *)
(***************************************************************************)
LEMMA RoleSet ==
    ASSUME NEW r \in EntryType, NEW role \in Role
    PROVE  LET q == [r EXCEPT !.role = role]
           IN  q \in EntryType /\ q.id = r.id /\ q.name = r.name /\ q.role = role
  BY DEF EntryType

Says(me, leads) ==
    IF me.learner THEN "Learner" ELSE IF leads = me.id THEN "Leader" ELSE "Follower"

\* s are the entries after this answer: one role may be another.
AreAnswered(s, entries, me, leads) ==
    /\ IsStatus(s)
    /\ \A q \in s : \E r \in entries :
        /\ q.id = r.id /\ q.name = r.name
        /\ q.role = IF r.id = me.id THEN Says(me, leads) ELSE r.role
    /\ \A r \in entries : \E q \in s : q.id = r.id

LEMMA AnsweredIs ==
    ASSUME NEW entries, IsStatus(entries), NEW me, NEW leads
    PROVE  /\ AreAnswered(Answered(entries, me, leads), entries, me, leads)
           /\ IsFiniteSet(entries) =>
                /\ IsFiniteSet(Answered(entries, me, leads))
                /\ Cardinality(Answered(entries, me, leads)) \in Nat
                /\ Cardinality(Answered(entries, me, leads)) <= Cardinality(entries)
  <1> DEFINE says == Says(me, leads)
             Now(r) == IF r.id = me.id THEN [r EXCEPT !.role = says] ELSE r
             s == Answered(entries, me, leads)
  <1>1. s = {Now(r) : r \in entries}
    BY DEF Answered, Says
  <1>2. says \in Role
    BY DEF Role, Says
  <1> HIDE DEF says, s
  <1>3. ASSUME NEW r \in entries
        PROVE  /\ Now(r) \in EntryType /\ Now(r).id = r.id /\ Now(r).name = r.name
               /\ Now(r).role = IF r.id = me.id THEN says ELSE r.role
    <2>1. r \in EntryType
      BY DEF IsStatus
    <2> QED BY <1>2, <2>1, RoleSet
  <1> HIDE DEF Now
  <1>4. s \subseteq EntryType
    BY <1>1, <1>3
  <1>5. \A p, q \in s : p.id = q.id => p = q
    BY <1>1, <1>3 DEF IsStatus
  <1>6. \A q \in s : \E r \in entries :
            /\ q.id = r.id /\ q.name = r.name
            /\ q.role = IF r.id = me.id THEN says ELSE r.role
    BY <1>1, <1>3
  <1>7. \A r \in entries : \E q \in s : q.id = r.id
    BY <1>1, <1>3
  <1>8. ASSUME IsFiniteSet(entries)
        PROVE  IsFiniteSet(s) /\ Cardinality(s) \in Nat /\ Cardinality(s) <= Cardinality(entries)
    <2> DEFINE g == [r \in entries |-> Now(r)]
    <2>1. g \in Surjection(entries, s)
      BY <1>1 DEF Surjection
    <2> QED BY <1>8, <2>1, FS_Surjection, FS_CardinalityType
  <1>9. AreAnswered(s, entries, me, leads)
    BY <1>4, <1>5, <1>6, <1>7 DEF says, IsStatus, AreAnswered
  <1> QED BY <1>8, <1>9 DEF s

-----------------------------------------------------------------------------
(***************************************************************************)
(* The members change: an id is new or was one of them, and who voted      *)
(* votes.                                                                  *)
(***************************************************************************)
Evolves(ms, n, ns, m) ==
    /\ n \in Id /\ m \in Id /\ n <= m
    /\ ns \in Seq(MemberType) /\ Len(ns) \in Pod
    /\ \A i \in 1 .. Len(ns) :
        \/ ns[i].id > n /\ ns[i].id <= m
        \/ \E j \in 1 .. Len(ms) : ns[i].id = ms[j].id /\ (~ms[j].learner => ~ns[i].learner)
    /\ \A i, j \in 1 .. Len(ns) : ns[i].id = ns[j].id => i = j

LEMMA VotersStay ==
    ASSUME NEW ms \in Seq(MemberType), NEW n, NEW ns, NEW m, Evolves(ms, n, ns, m),
           NEW id \in Id, id <= n, IsVoter(ms, id)
    PROVE  id <= m /\ IsVoter(ns, id)
  <1>1. n \in Nat /\ m \in Nat /\ id \in Nat
    BY RolesAssumption DEF Evolves, Id
  <1> QED BY <1>1 DEF Evolves, IsVoter

LEMMA ViewStaysGood ==
    ASSUME NEW ms \in Seq(MemberType), NEW n, NEW ns, NEW m, Evolves(ms, n, ns, m),
           NEW v \in ViewType, GoodView(v, ms, n)
    PROVE  GoodView(v, ns, m)
  <1>1. n \in Nat /\ m \in Nat /\ n <= m
    BY RolesAssumption DEF Evolves, Id
  <1>2. \A i \in 1 .. Len(v.members) : v.members[i].id \in Id
    BY MembersTyped DEF MemberType
  <1>3. \A i \in 1 .. Len(v.members) : v.members[i].id <= m
    BY <1>1, <1>2 DEF GoodView, Id
  <1>4. \A i \in 1 .. Len(v.members) :
            ~v.members[i].learner => IsVoter(ns, v.members[i].id)
    BY <1>2, VotersStay DEF GoodView
  <1> QED BY <1>3, <1>4 DEF GoodView

LEMMA StatusStaysGood ==
    ASSUME NEW ms \in Seq(MemberType), NEW n, NEW ns, NEW m, Evolves(ms, n, ns, m),
           NEW s, IsStatus(s), GoodStatus(s, ms, n)
    PROVE  GoodStatus(s, ns, m)
  <1>1. n \in Nat /\ m \in Nat /\ n <= m
    BY RolesAssumption DEF Evolves, Id
  <1>2. \A r \in s : r.id \in Id
    BY DEF IsStatus, EntryType
  <1>3. \A r \in s : r.id <= m
    BY <1>1, <1>2 DEF GoodStatus, Id
  <1>4. \A r \in s : r.role \in {"Leader", "Follower"} => IsVoter(ns, r.id)
    BY <1>2, VotersStay DEF GoodStatus
  <1> QED BY <1>3, <1>4 DEF GoodStatus

\* What the members of now know is right.
LEMMA NowIsGood ==
    ASSUME NEW ns \in Seq(MemberType), Len(ns) \in Pod, NEW m, NEW leads \in Id \cup {0},
           \A i \in 1 .. Len(ns) : ns[i].id <= m,
           \A i, j \in 1 .. Len(ns) : ns[i].id = ns[j].id => i = j
    PROVE  LET v == [members |-> ns, leader |-> leads] IN v \in ViewType /\ GoodView(v, ns, m)
  <1>1. Len(ns) <= MaxPods
    BY RolesAssumption DEF Pod
  <1> QED BY <1>1 DEF ViewType, GoodView, IsVoter

(***************************************************************************)
(* A change of the etcd cluster preserves what is known of it.             *)
(***************************************************************************)
EtcdChanges ==
    /\ Evolves(members, ids, members', ids') /\ leader' \in Id \cup {0}
    /\ view' \in [Pod -> ViewType]
    /\ \A k \in Pod :
        view'[k] = view[k] \/ view'[k] = Actual' \/ view'[k] = Unasked

LEMMA EtcdChangesWell ==
    ASSUME IInv, EtcdChanges, UNCHANGED <<recorded, cached, old, found>>
    PROVE  ViewsGood' /\ StatusesGood'
  <1> USE DEF MemberType
  <1>1. members \in Seq(MemberType) /\ members' \in Seq(MemberType) /\ Len(members') \in Pod
    BY DEF IInv, TypeOK, EtcdChanges, Evolves
  <1>2. StatusesGood'
    BY <1>1, StatusStaysGood DEF IInv, TypeOK, StatusesGood, EtcdChanges
  <1>3. \A i \in 1 .. Len(members') : members'[i].id <= ids'
    <2>1. ids \in Nat /\ ids' \in Nat /\ ids <= ids'
      BY RolesAssumption DEF EtcdChanges, Evolves, Id
    <2>2. \A j \in 1 .. Len(members) : members[j].id \in Nat /\ members[j].id <= ids
      <3>1. \A j \in 1 .. Len(members) : members[j].id <= ids
        BY DEF IInv, ViewsGood, GoodView, Actual
      <3>2. \A j \in 1 .. Len(members) : members[j] \in MemberType
        BY <1>1, ElementOfSeq
      <3> QED BY <3>1, <3>2 DEF Id
    <2> QED BY <2>1, <2>2 DEF EtcdChanges, Evolves
  <1>4. Actual' \in ViewType /\ GoodView(Actual', members', ids')
    BY <1>1, <1>3, NowIsGood DEF Actual, EtcdChanges, Evolves
  <1>5. ASSUME NEW k \in Pod
        PROVE  GoodView(view'[k], members', ids')
    <2>1. CASE view'[k] = view[k]
      <3>1. view[k] \in ViewType /\ GoodView(view[k], members, ids)
        BY DEF IInv, ViewsGood
      <3>2. GoodView(view[k], members', ids')
        BY <1>1, <3>1, ViewStaysGood DEF EtcdChanges
      <3> QED BY <2>1, <3>2
    <2>2. CASE view'[k] = Actual'
      BY <1>4, <2>2
    <2>3. CASE view'[k] = Unasked
      <3>1. Len(Unasked.members) = 0
        BY DEF Unasked
      <3>2. GoodView(Unasked, members', ids')
        BY <3>1, RolesAssumption DEF GoodView
      <3> QED BY <2>3, <3>2
    <2> QED BY <2>1, <2>2, <2>3 DEF EtcdChanges
  <1>6. view' \in [Pod -> ViewType]
    BY DEF EtcdChanges
  <1>7. ViewsGood'
    BY <1>4, <1>5, <1>6 DEF ViewsGood
  <1> QED BY <1>2, <1>7

\* Such a change while the loop is not at it.
LEMMA ChangeHolds ==
    ASSUME IInv, EtcdChanges, UNCHANGED <<statuses, learner, recorded, cached, loop, faults>>,
           calm' = FALSE, changes' \in 0 .. MaxChanges, up' \in [Pod -> BOOLEAN],
           \A k \in Pod : up'[k] => Len(view'[k].members) >= k
    PROVE  IInv'
  <1>1. ViewsGood' /\ StatusesGood'
    BY EtcdChangesWell DEF loop
  <1>2. FALSE \in BOOLEAN
    OBVIOUS
  <1>3. TypeOK'
    BY <1>2 DEF IInv, TypeOK, EtcdChanges, Evolves, MemberType, loop, IsStatus
  <1>4. FewFound' /\ FreshIsRead'
    BY DEF IInv, FewFound, FreshIsRead, loop
  <1>5. CalmIsRight'
    BY DEF CalmIsRight
  <1> QED BY <1>1, <1>3, <1>4, <1>5 DEF IInv

LEMMA CalmStays ==
    ASSUME IInv, UNCHANGED <<members, leader, running, found, next, pc, calm>>, calm => Settled'
    PROVE  CalmIsRight'
  <1>1. FoundAll' <=> FoundAll
    BY DEF FoundAll
  <1>2. AskedIsRight' <=> AskedIsRight
    BY DEF AskedIsRight, RoleOf
  <1> QED BY <1>1, <1>2 DEF IInv, CalmIsRight

LEMMA StateTyped ==
    ASSUME IInv
    PROVE  /\ members \in Seq(MemberType) /\ Len(members) \in Nat \ {0} /\ Len(members) \in Pod
           /\ \A i \in 1 .. Len(members) :
                /\ members[i] \in MemberType /\ members[i].id \in Id /\ members[i].pod \in Pod
                /\ members[i].started \in BOOLEAN /\ members[i].learner \in BOOLEAN
                /\ members[i].id <= ids
                /\ \A j \in 1 .. Len(members) : members[i].id = members[j].id => i = j
           /\ ids \in Id /\ ids \in Nat /\ leader \in Id \cup {0}
           /\ Pod \subseteq Nat \ {0} /\ Id \subseteq Nat \ {0}
  <1>1. members \in Seq(MemberType) /\ Len(members) \in Pod /\ ids \in Id /\ leader \in Id \cup {0}
    BY DEF IInv, TypeOK, MemberType
  <1>2. Pod \subseteq Nat \ {0} /\ Id \subseteq Nat \ {0}
    BY RolesAssumption DEF Pod, Id
  <1>3. \A i \in 1 .. Len(members) : members[i] \in MemberType
    BY <1>1, ElementOfSeq
  <1>4. \A i \in 1 .. Len(members) :
            /\ members[i].id \in Id /\ members[i].pod \in Pod
            /\ members[i].started \in BOOLEAN /\ members[i].learner \in BOOLEAN
    BY <1>3 DEF MemberType
  <1>5. \A i \in 1 .. Len(members) :
            /\ members[i].id <= ids
            /\ \A j \in 1 .. Len(members) : members[i].id = members[j].id => i = j
    BY DEF IInv, ViewsGood, GoodView, Actual
  <1> QED BY <1>1, <1>2, <1>3, <1>4, <1>5

\* One member is another afterwards, with the same id.
LEMMA OneReplaced ==
    ASSUME IInv, NEW k \in 1 .. Len(members), NEW e \in MemberType, e.id = members[k].id,
           ~members[k].learner => ~e.learner,
           members' = [members EXCEPT ![k] = e], ids' = ids
    PROVE  Evolves(members, ids, members', ids') /\ Len(members') = Len(members)
  <1>1. members' \in Seq(MemberType) /\ Len(members') = Len(members)
    BY StateTyped, ExceptSeq
  <1>2. \A i \in 1 .. Len(members) : members'[i] = IF i = k THEN e ELSE members[i]
    BY StateTyped, ExceptSeq
  <1>3. \A i \in 1 .. Len(members) :
            members'[i].id = members[i].id /\ (~members[i].learner => ~members'[i].learner)
    BY <1>2
  <1> QED BY <1>1, <1>3, StateTyped DEF Evolves

LEMMA FieldSet ==
    ASSUME NEW m \in MemberType
    PROVE  /\ [m EXCEPT !.started = TRUE] \in MemberType
           /\ [m EXCEPT !.started = TRUE].id = m.id
           /\ [m EXCEPT !.started = TRUE].learner = m.learner
           /\ [m EXCEPT !.learner = FALSE] \in MemberType
           /\ [m EXCEPT !.learner = FALSE].id = m.id
           /\ ~[m EXCEPT !.learner = FALSE].learner
  BY DEF MemberType

LEMMA NobodyChanges ==
    ASSUME IInv, UNCHANGED <<members, ids>>
    PROVE  Evolves(members, ids, members', ids')
  BY StateTyped DEF Evolves

LEMMA AddHolds == IInv /\ AddMember => IInv'
  <1> SUFFICES ASSUME IInv, AddMember PROVE IInv'
    OBVIOUS
  <1> DEFINE new == [id |-> ids', pod |-> Len(members) + 1, started |-> FALSE, learner |-> learner]
  <1>1. /\ members' = Append(members, new) /\ ids' = ids + 1 /\ ids < MaxIds
        /\ Len(members) < MaxPods
    BY DEF AddMember
  <1>2. ids' \in Id /\ Len(members) + 1 \in Pod
    BY <1>1, StateTyped, RolesAssumption DEF Id, Pod
  <1>3. new \in MemberType /\ new.id = ids'
    BY <1>2 DEF IInv, TypeOK, MemberType
  <1> HIDE DEF new
  <1>4. members' \in Seq(MemberType) /\ Len(members') = Len(members) + 1
    BY <1>1, <1>3, StateTyped, AppendProperties
  <1>5. /\ \A i \in 1 .. Len(members) : members'[i] = members[i]
        /\ members'[Len(members) + 1] = new
    BY <1>1, <1>3, StateTyped, AppendProperties
  <1>6. \A i \in 1 .. Len(members') : i \in 1 .. Len(members) \/ i = Len(members) + 1
    BY <1>4, StateTyped
  <1>7. \A i \in 1 .. Len(members) : members'[i].id = members[i].id /\ members[i].id < ids'
    BY <1>1, <1>5, StateTyped
  <1>8. \A i, j \in 1 .. Len(members') : members'[i].id = members'[j].id => i = j
    BY <1>3, <1>5, <1>6, <1>7, StateTyped
  <1>9. Evolves(members, ids, members', ids')
    BY <1>1, <1>2, <1>3, <1>4, <1>5, <1>6, <1>7, <1>8, StateTyped DEF Evolves
  <1>10. EtcdChanges
    BY <1>9 DEF AddMember, EtcdChanges, IInv, TypeOK, ViewsGood
  <1> QED BY <1>10, ChangeHolds DEF AddMember, IInv, TypeOK

LEMMA StartHolds == IInv /\ StartMember => IInv'
  <1> SUFFICES ASSUME IInv, StartMember PROVE IInv'
    OBVIOUS
  <1> DEFINE k == Len(members)
             e == [members[k] EXCEPT !.started = TRUE]
  <1>1. k \in 1 .. Len(members) /\ k \in Pod /\ members[k] \in MemberType
    BY StateTyped
  <1>2. e \in MemberType /\ e.id = members[k].id /\ e.learner = members[k].learner
    BY <1>1, FieldSet
  <1>3. members' = [members EXCEPT ![k] = e]
    BY DEF StartMember
  <1>4. /\ UNCHANGED <<leader, ids, statuses, learner, recorded, cached, loop, changes, faults>>
        /\ calm' = FALSE /\ up' = [up EXCEPT ![k] = TRUE]
        /\ view' = [view EXCEPT ![k] = [Actual EXCEPT !.members = members']]
    BY DEF StartMember
  <1> HIDE DEF e
  <1>5. Evolves(members, ids, members', ids') /\ Len(members') = Len(members)
    BY <1>1, <1>2, <1>3, <1>4, OneReplaced
  <1>6. [Actual EXCEPT !.members = members'] = Actual'
    BY <1>4 DEF Actual
  <1>7. Actual' \in ViewType /\ Actual'.members = members'
    BY <1>4, <1>5, StateTyped DEF Actual, ViewType, Evolves
  <1>8. /\ view' \in [Pod -> ViewType] /\ view'[k] = Actual'
        /\ \A j \in Pod : j # k => view'[j] = view[j]
    BY <1>1, <1>4, <1>6, <1>7 DEF IInv, ViewsGood
  <1>9. EtcdChanges
    BY <1>4, <1>5, <1>8, StateTyped DEF EtcdChanges
  <1>10. up' \in [Pod -> BOOLEAN] /\ \A j \in Pod : j # k => up'[j] = up[j]
    BY <1>1, <1>4 DEF IInv, TypeOK
  <1>11. \A j \in Pod : up'[j] => Len(view'[j].members) >= j
    <2>1. Len(view'[k].members) >= k
      BY <1>5, <1>7, <1>8, StateTyped
    <2>2. \A j \in Pod : up[j] => Len(view[j].members) >= j
      BY DEF IInv, TypeOK
    <2> HIDE DEF k
    <2> QED BY <1>8, <1>10, <2>1, <2>2
  <1> QED BY <1>4, <1>9, <1>10, <1>11, ChangeHolds DEF IInv, TypeOK

LEMMA RemoveHolds == IInv /\ RemoveMember => IInv'
  <1> SUFFICES ASSUME IInv, RemoveMember PROVE IInv'
    OBVIOUS
  <1> DEFINE last == Len(members)
  <1>1. /\ members' = SubSeq(members, 1, last - 1) /\ last > 1
        /\ leader' \in {0, leader} /\ calm' = FALSE
        /\ UNCHANGED <<view, up, ids, statuses, learner, recorded, cached, loop, faults>>
    BY DEF RemoveMember
  <1>2. last - 1 \in Pod /\ last - 1 \in Nat /\ last \in Nat
    BY <1>1, StateTyped, RolesAssumption DEF Pod
  <1>3. /\ members' \in Seq(MemberType) /\ Len(members') = last - 1
        /\ \A i \in 1 .. last - 1 : members'[i] = members[i]
    BY <1>1, <1>2, StateTyped, SubSeqProperties
  <1> HIDE DEF last
  <1>8. \A i \in 1 .. Len(members') : i \in 1 .. Len(members) /\ members'[i] = members[i]
    BY <1>2, <1>3 DEF last
  <1>4. Evolves(members, ids, members', ids')
    BY <1>1, <1>2, <1>3, <1>8, StateTyped DEF Evolves
  <1>5. EtcdChanges
    BY <1>1, <1>4, StateTyped DEF EtcdChanges, IInv, ViewsGood
  <1>6. changes' \in 0 .. MaxChanges
    BY RolesAssumption DEF RemoveMember, Change, IInv, TypeOK
  <1>7. up' \in [Pod -> BOOLEAN] /\ \A k \in Pod : up'[k] => Len(view'[k].members) >= k
    BY <1>1 DEF IInv, TypeOK
  <1> QED BY <1>1, <1>5, <1>6, <1>7, ChangeHolds

LEMMA ElectHolds ==
    ASSUME IInv, NEW k \in 1 .. Len(members), Elect(k)
    PROVE  IInv'
  <1>1. /\ leader' = members[k].id /\ calm' = FALSE
        /\ UNCHANGED <<members, view, up, ids, statuses, learner, recorded, cached, loop, faults>>
    BY DEF Elect
  <1>2. EtcdChanges
    BY <1>1, NobodyChanges, StateTyped DEF EtcdChanges, IInv, ViewsGood
  <1>3. changes' \in 0 .. MaxChanges
    BY RolesAssumption DEF Elect, Change, IInv, TypeOK
  <1>4. up' \in [Pod -> BOOLEAN] /\ \A j \in Pod : up'[j] => Len(view'[j].members) >= j
    BY <1>1 DEF IInv, TypeOK
  <1> QED BY <1>1, <1>2, <1>3, <1>4, ChangeHolds

\* A member hears, or a pod disappears, when not everything is settled.
LEMMA HearHolds ==
    ASSUME IInv, NEW k \in Pod, PodGone(k) \/ Hear(k)
    PROVE  IInv'
  <1>1. UNCHANGED <<members, leader, ids, statuses, learner, recorded, cached, loop, calm,
                    changes, faults>>
    BY DEF PodGone, Hear
  <1>2. /\ view' \in [Pod -> ViewType] /\ up' \in [Pod -> BOOLEAN]
        /\ \A j \in Pod : j # k => view'[j] = view[j] /\ up'[j] = up[j]
        /\ \/ view'[k] = Actual' /\ up'[k] = up[k] /\ k <= Len(members)
           \/ view'[k] = Unasked /\ up'[k] = FALSE
    <2>1. view \in [Pod -> ViewType] /\ up \in [Pod -> BOOLEAN]
      BY DEF IInv, ViewsGood, TypeOK
    <2>2. Actual \in ViewType /\ Actual' = Actual
      BY <1>1, StateTyped DEF Actual, ViewType
    <2>3. Unasked \in ViewType
      <3>1. <<>> \in Seq(MemberType) /\ 0 \in Id \cup {0}
        BY EmptySeq
      <3> QED BY <3>1 DEF Unasked, ViewType
    <2> HIDE DEF Actual, Unasked
    <2>4. CASE PodGone(k)
      BY <2>1, <2>3, <2>4 DEF PodGone
    <2>5. CASE Hear(k)
      BY <2>1, <2>2, <2>5 DEF Hear
    <2> QED BY <2>4, <2>5
  <1>3. EtcdChanges
    BY <1>1, <1>2, NobodyChanges, StateTyped DEF EtcdChanges
  <1>4. ViewsGood' /\ StatusesGood'
    BY <1>1, <1>3, EtcdChangesWell DEF loop
  <1>5. \A j \in Pod : up'[j] => Len(view'[j].members) >= j
    <2>1. \A j \in Pod : up[j] => Len(view[j].members) >= j
      BY DEF IInv, TypeOK
    <2>2. Actual'.members = members
      BY <1>1 DEF Actual
    <2> QED BY <1>2, <2>1, <2>2, StateTyped
  <1>6. TypeOK'
    BY <1>1, <1>2, <1>5 DEF IInv, TypeOK, loop, IsStatus
  <1>7. FewFound' /\ FreshIsRead'
    BY <1>1 DEF IInv, FewFound, FreshIsRead, loop
  <1>8. ~Settled
    BY StateTyped DEF Settled, PodGone, Hear
  <1>9. CalmIsRight'
    BY <1>1, <1>8, CalmStays DEF IInv, CalmIsRight, loop
  <1> QED BY <1>4, <1>6, <1>7, <1>9 DEF IInv

\* What the loop and the etcd cluster do not see.
LEMMA UnseenHolds == IInv /\ (DeliverTApp \/ DeliverStatus \/ Unlearn) => IInv'
  <1> SUFFICES ASSUME IInv, DeliverTApp \/ DeliverStatus \/ Unlearn PROVE IInv'
    OBVIOUS
  <1>1. /\ UNCHANGED <<etcd, recorded, loop, calm, changes, faults>>
        /\ statuses' \in {statuses, up} /\ cached' \in {cached, recorded}
        /\ learner' \in {learner, FALSE}
    BY DEF DeliverTApp, DeliverStatus, Unlearn
  <1>2. UNCHANGED <<members, leader, view, up, ids, old, fresh, found, running, pc, next, again>>
    BY <1>1 DEF etcd, loop
  <1>3. learner' \in BOOLEAN /\ statuses' \in [Pod -> BOOLEAN] /\ IsStatus(cached')
    BY <1>1 DEF IInv, TypeOK
  <1>4. TypeOK'
    BY <1>1, <1>2, <1>3 DEF IInv, TypeOK, IsStatus
  <1>5. Actual' = Actual
    BY <1>2 DEF Actual
  <1>6. ViewsGood' /\ StatusesGood'
    BY <1>1, <1>2, <1>5 DEF IInv, ViewsGood, StatusesGood, GoodStatus
  <1>7. FewFound' /\ FreshIsRead'
    BY <1>1, <1>2 DEF IInv, FewFound, FreshIsRead
  <1>8. Settled => Settled'
    <2>1. \A k \in 1 .. Len(members) : k \in Pod
      BY StateTyped, RolesAssumption DEF Pod
    <2> QED BY <1>1, <1>2, <1>5, <2>1 DEF Settled
  <1>9. CalmIsRight'
    BY <1>1, <1>2, <1>8, CalmStays DEF IInv, CalmIsRight
  <1> QED BY <1>4, <1>6, <1>7, <1>9 DEF IInv

-----------------------------------------------------------------------------
(***************************************************************************)
(* The loop.                                                               *)
(***************************************************************************)
\* What its steps have in common.
LoopGoesOn ==
    /\ UNCHANGED <<etcd, statuses, learner, cached, changes>> /\ faults' \in 0 .. MaxFaults
    /\ recorded' \in {recorded, found}

LEMMA Faults == IInv /\ (Fault \/ NoFault) => faults' \in 0 .. MaxFaults
  BY RolesAssumption DEF IInv, TypeOK, Fault, NoFault

LEMMA NothingFound == IsFiniteSet({}) /\ Cardinality({}) <= MaxPods
  BY FS_EmptySet, RolesAssumption

LEMMA GoesOnTyped ==
    ASSUME IInv, LoopGoesOn
    PROVE  /\ UNCHANGED <<members, leader, view, up, ids>> /\ Actual' = Actual
           /\ IsStatus(recorded') /\ GoodStatus(recorded', members, ids)
           /\ IsStatus(cached') /\ GoodStatus(cached', members, ids)
           /\ ViewsGood'
  <1>1. UNCHANGED <<members, leader, view, up, ids, cached>>
    BY DEF LoopGoesOn, etcd
  <1>2. Actual' = Actual
    BY <1>1 DEF Actual
  <1> HIDE DEF Actual
  <1>3. ViewsGood'
    BY <1>1, <1>2 DEF IInv, ViewsGood
  <1> QED BY <1>1, <1>2, <1>3 DEF LoopGoesOn, IInv, TypeOK, StatusesGood

\* A step of the loop leaves what it keeps in order.
LEMMA LoopStepHolds ==
    ASSUME IInv, LoopGoesOn, IsStatus(old'), GoodStatus(old', members, ids),
           fresh' \in BOOLEAN, fresh' => old' = recorded',
           IsStatus(found'), GoodStatus(found', members, ids), FewFound',
           running' \subseteq Pod, pc' \in {"idle", "list", "ask", "record", "learner"},
           next' \in 1 .. MaxPods + 1, again' \in BOOLEAN, calm' \in BOOLEAN, CalmIsRight'
    PROVE  IInv'
  <1>1. /\ UNCHANGED <<members, leader, view, up, ids>>
        /\ IsStatus(recorded') /\ GoodStatus(recorded', members, ids)
        /\ IsStatus(cached') /\ GoodStatus(cached', members, ids) /\ ViewsGood'
    BY GoesOnTyped
  <1>2. UNCHANGED <<statuses, learner, changes>> /\ faults' \in 0 .. MaxFaults
    BY DEF LoopGoesOn
  <1>3. TypeOK'
    BY <1>1, <1>2 DEF IInv, TypeOK, IsStatus
  <1>4. StatusesGood'
    BY <1>1 DEF StatusesGood
  <1> QED BY <1>1, <1>3, <1>4 DEF IInv, FreshIsRead

LEMMA EmptyIsGood == IsStatus({}) /\ GoodStatus({}, members, ids)
  BY DEF IsStatus, GoodStatus

LEMMA ReturnHolds ==
    ASSUME IInv, LoopGoesOn, Return
    PROVE  IInv'
  <1>1. /\ pc' = "idle" /\ found' = {} /\ running' = {} /\ next' = 1 /\ again' = FALSE
        /\ calm' = FALSE /\ old' = {} /\ fresh' = FALSE
    BY DEF Return, Forget
  <1>2. FewFound'
    BY <1>1, NothingFound DEF FewFound
  <1>3. next' \in 1 .. MaxPods + 1
    BY <1>1, RolesAssumption
  <1>4. again' \in BOOLEAN /\ calm' \in BOOLEAN /\ fresh' \in BOOLEAN
    BY <1>1
  <1> QED BY <1>1, <1>2, <1>3, <1>4, LoopStepHolds, EmptyIsGood DEF CalmIsRight

LEMMA ContinueHolds ==
    ASSUME IInv, LoopGoesOn, NEW copy, IsStatus(copy), GoodStatus(copy, members, ids),
           NEW current \in BOOLEAN, current => copy = recorded', Continue(copy, current)
    PROVE  IInv'
  <1>1. CASE again
    BY <1>1, ReturnHolds DEF Continue
  <1>2. CASE ~again
    <2>1. /\ pc' = "learner" /\ found' = {} /\ running' = {} /\ next' = 1 /\ again' = FALSE
          /\ calm' = FALSE /\ old' = copy /\ fresh' = current
      BY <1>2 DEF Continue, Forget
    <2>2. FewFound'
      BY <2>1, NothingFound DEF FewFound
    <2>3. next' \in 1 .. MaxPods + 1
      BY <2>1, RolesAssumption
    <2>4. again' \in BOOLEAN /\ calm' \in BOOLEAN /\ fresh' \in BOOLEAN
      BY <2>1
    <2> QED BY <2>1, <2>2, <2>3, <2>4, LoopStepHolds, EmptyIsGood DEF CalmIsRight
  <1> QED BY <1>1, <1>2

LEMMA BeginHolds == IInv /\ Begin => IInv'
  <1> SUFFICES ASSUME IInv, Begin PROVE IInv'
    OBVIOUS
  <1>1. LoopGoesOn
    BY Faults DEF Begin, LoopGoesOn, NoFault
  <1>2. fresh' \in BOOLEAN /\ (fresh' => cached = recorded)
    BY Zenon DEF Begin
  <1>3. IsStatus(old') /\ GoodStatus(old', members, ids)
    BY DEF Begin, IInv, TypeOK, StatusesGood
  <1>4. /\ fresh' => old' = recorded'
        /\ UNCHANGED <<found, running, next, again, calm>> /\ pc' = "list"
        /\ pc = "idle"
    BY <1>2 DEF Begin
  <1>5. FewFound'
    BY <1>4 DEF IInv, FewFound
  <1>6. ~calm' /\ calm' \in BOOLEAN
    BY <1>4 DEF IInv, TypeOK, CalmIsRight
  <1>7. IsStatus(found') /\ GoodStatus(found', members, ids)
    BY <1>4 DEF IInv, TypeOK, StatusesGood
  <1>8. running' \subseteq Pod /\ next' \in 1 .. MaxPods + 1 /\ again' \in BOOLEAN
    BY <1>4 DEF IInv, TypeOK
  <1> QED BY <1>1, <1>2, <1>3, <1>4, <1>5, <1>6, <1>7, <1>8, LoopStepHolds DEF CalmIsRight

LEMMA RecordHolds == IInv /\ RecordMembers => IInv'
  <1> SUFFICES ASSUME IInv, RecordMembers PROVE IInv'
    OBVIOUS
  <1>1. UNCHANGED <<etcd, statuses, learner, cached, changes>>
    BY DEF RecordMembers
  <1>2. fresh \in BOOLEAN /\ (fresh => old = recorded) /\ FALSE \in BOOLEAN
    BY DEF IInv, TypeOK, FreshIsRead
  <1>3. /\ IsStatus(old) /\ GoodStatus(old, members, ids)
        /\ IsStatus(found) /\ GoodStatus(found, members, ids)
    BY DEF IInv, TypeOK, StatusesGood
  <1>4. CASE found = old /\ Continue(old, fresh) /\ NoFault /\ UNCHANGED recorded
    <2>1. LoopGoesOn
      BY <1>1, <1>4, Faults DEF LoopGoesOn
    <2>2. fresh => old = recorded'
      BY <1>2, <1>4
    <2> QED BY <1>2, <1>3, <1>4, <2>1, <2>2, ContinueHolds
  <1>5. CASE found # old /\ fresh /\ recorded' = found /\ Continue(found, FALSE) /\ NoFault
    <2>1. LoopGoesOn
      BY <1>1, <1>5, Faults DEF LoopGoesOn
    <2> QED BY <1>2, <1>3, <1>5, <2>1, ContinueHolds
  <1>6. CASE Return /\ (Fault \/ NoFault) /\ recorded' \in {recorded, found}
    BY <1>1, <1>6, Faults, ReturnHolds DEF LoopGoesOn
  <1> QED BY <1>4, <1>5, <1>6 DEF RecordMembers

\* The list of a member, merged with what was known before.
LEMMA ListedIsGood ==
    ASSUME IInv, NEW k \in Pod, UNCHANGED <<etcd, statuses>>, found' = Merge(Known(view[k]), old)
    PROVE  /\ IsStatus(found') /\ GoodStatus(found', members, ids) /\ FewFound'
           /\ AreRecords(found', view[k], old)
  <1> DEFINE v == view[k]
  <1>1. v \in ViewType /\ GoodView(v, members, ids)
    BY DEF IInv, ViewsGood
  <1>2. IsStatus(old) /\ GoodStatus(old, members, ids)
    BY DEF IInv, TypeOK, StatusesGood
  <1> HIDE DEF v
  <1>3. \A i, j \in 1 .. Len(v.members) : v.members[i].id = v.members[j].id => i = j
    BY <1>1 DEF GoodView
  <1>4. AreRecords(found', v, old)
    BY <1>1, <1>2, <1>3, MergeIs DEF v
  <1>5. GoodStatus(found', members, ids)
    BY <1>1, <1>2, MergeKeepsGood DEF v
  <1>6. Len(v.members) \in Nat /\ Len(v.members) <= MaxPods
    BY <1>1, MembersTyped DEF GoodView
  <1>7. IdsAmong(found', v.members, Len(v.members))
    BY <1>4 DEF AreRecords, IsStatus, IdsAmong
  <1>8. /\ IsFiniteSet(found') /\ Cardinality(found') \in Nat
        /\ Cardinality(found') <= Len(v.members)
    BY <1>6, <1>7, FewRecords
  <1>9. FewFound'
    BY <1>6, <1>8, RolesAssumption DEF FewFound
  <1> QED BY <1>4, <1>5, <1>9 DEF v, AreRecords

LEMMA ListHolds == IInv /\ ListMembers => IInv'
  <1> SUFFICES ASSUME IInv, ListMembers PROVE IInv'
    OBVIOUS
  <1>1. UNCHANGED <<etcd, statuses, learner, recorded, cached, changes>>
    BY DEF ListMembers
  <1>2. CASE Return /\ (Fault \/ NoFault)
    BY <1>1, <1>2, Faults, ReturnHolds DEF LoopGoesOn
  <1>3. ASSUME NEW k \in Pod, up[k], found' = Merge(Known(view[k]), old),
               running' = {j \in Pod : statuses[j]}, pc' = "ask", next' = 1,
               calm' = Settled, NoFault, UNCHANGED <<old, fresh, again>>
        PROVE  IInv'
    <2>1. LoopGoesOn
      BY <1>1, <1>3, Faults DEF LoopGoesOn
    <2>2. /\ IsStatus(found') /\ GoodStatus(found', members, ids) /\ FewFound'
          /\ AreRecords(found', view[k], old)
      BY <1>1, <1>3, ListedIsGood
    <2>3. UNCHANGED <<members, leader, view, up, ids, statuses>> /\ Actual' = Actual
      BY <1>1, <2>1, GoesOnTyped
    <2>4. calm' \in BOOLEAN /\ (calm' => Settled)
      BY <1>3, Zenon DEF Settled
    <2>5. /\ IsStatus(old') /\ GoodStatus(old', members, ids) /\ fresh' \in BOOLEAN
          /\ fresh' => old' = recorded'
          /\ running' \subseteq Pod /\ next' \in 1 .. MaxPods + 1 /\ again' \in BOOLEAN
      BY <1>1, <1>3, RolesAssumption DEF IInv, TypeOK, StatusesGood, FreshIsRead
    <2>6. ASSUME Settled
          PROVE  Settled' /\ FoundAll' /\ AskedIsRight'
      <3>1. k \in 1 .. Len(members) /\ view[k] = Actual
        BY <1>3, <2>6, StateTyped DEF Settled
      <3>2. view[k].members = members
        BY <3>1 DEF Actual
      <3>3. \A i \in 1 .. Len(members) : i \in Pod /\ statuses[i] /\ members[i].started
        BY <2>6, StateTyped, RolesAssumption DEF Settled, Pod
      <3>4. AreRecords(found', view[k], old) /\ \A i \in 1 .. Len(members) : i \in running'
        BY <1>3, <2>2, <3>3
      <3>5. FoundAll'
        BY <2>3, <3>2, <3>4 DEF AreRecords, FoundAll
      <3>6. \A r \in found' : \E i \in 1 .. Len(members) :
                r.id = members[i].id /\ r.name = members[i].pod
        BY <3>2, <3>3, <3>4 DEF AreRecords
      <3>7. \A i \in 1 .. Len(members) : ~(i < next')
        BY <1>3, StateTyped
      <3>8. AskedIsRight'
        BY <1>3, <2>3, <3>6, <3>7 DEF AskedIsRight
      <3>9. Settled'
        BY <2>3, <2>6 DEF Settled
      <3> QED BY <3>5, <3>8, <3>9
    <2>7. CalmIsRight'
      BY <1>3, <2>4, <2>6 DEF CalmIsRight
    <2> QED BY <1>3, <2>1, <2>2, <2>4, <2>5, <2>7, LoopStepHolds
  <1> QED BY <1>2, <1>3 DEF ListMembers

LEMMA PromoteHolds == IInv /\ PromoteLearner => IInv'
  <1> SUFFICES ASSUME IInv, PromoteLearner PROVE IInv'
    OBVIOUS
  <1>1. UNCHANGED <<leader, view, up, ids, statuses, learner, recorded, cached, changes>>
    BY DEF PromoteLearner
  <1>2. CASE Return /\ (Fault \/ NoFault) /\ UNCHANGED members
    BY <1>1, <1>2, Faults, ReturnHolds DEF LoopGoesOn, etcd
  <1>3. ASSUME NEW i \in 1 .. Len(members), members' = [members EXCEPT ![i].learner = FALSE],
               pc' = "list", again' = TRUE, calm' = FALSE, NoFault,
               UNCHANGED <<old, fresh, found, running, next>>
        PROVE  IInv'
    <2> DEFINE e == [members[i] EXCEPT !.learner = FALSE]
    <2>1. e \in MemberType /\ e.id = members[i].id /\ ~e.learner
      BY StateTyped, FieldSet
    <2>2. members' = [members EXCEPT ![i] = e]
      BY <1>3
    <2> HIDE DEF e
    <2>3. Evolves(members, ids, members', ids') /\ Len(members') = Len(members)
      BY <1>1, <2>1, <2>2, OneReplaced
    <2>4. EtcdChanges
      BY <1>1, <2>3, StateTyped DEF EtcdChanges, IInv, ViewsGood
    <2>5. ViewsGood' /\ StatusesGood'
      BY <1>1, <1>3, <2>4, EtcdChangesWell
    <2>6. pc' \in {"idle", "list", "ask", "record", "learner"} /\ TRUE \in BOOLEAN /\ FALSE \in BOOLEAN
      BY <1>3
    <2>7. TypeOK'
      BY <1>1, <1>3, <2>3, <2>6 DEF IInv, TypeOK, Evolves, MemberType, IsStatus, NoFault
    <2>8. FewFound' /\ FreshIsRead' /\ CalmIsRight'
      BY <1>1, <1>3 DEF IInv, FewFound, FreshIsRead, CalmIsRight
    <2> QED BY <2>5, <2>7, <2>8 DEF IInv
  <1> QED BY <1>2, <1>3 DEF PromoteLearner

LEMMA NoLearnerHolds == IInv /\ NoLearner => IInv'
  BY Faults, ReturnHolds DEF NoLearner, LoopGoesOn, NoFault

\* A pod is asked, and what it answers is right for as long as nothing changes.
LEMMA AskHolds == IInv /\ AskPod => IInv'
  <1> SUFFICES ASSUME IInv, AskPod PROVE IInv'
    OBVIOUS
  <1>1. /\ UNCHANGED <<etcd, statuses, learner, recorded, cached, old, fresh, running, again,
                       changes>>
        /\ pc = "ask"
    BY DEF AskPod
  <1>2. /\ IsStatus(old') /\ GoodStatus(old', members, ids) /\ fresh' \in BOOLEAN
        /\ fresh' => old' = recorded'
        /\ IsStatus(found) /\ GoodStatus(found, members, ids) /\ FewFound
        /\ running' \subseteq Pod /\ again' \in BOOLEAN /\ calm \in BOOLEAN
        /\ next \in 1 .. MaxPods + 1 /\ next \in Nat \ {0}
        /\ IsFiniteSet(found) /\ Cardinality(found) \in Nat /\ Cardinality(found) <= MaxPods
    BY <1>1, FS_CardinalityType, RolesAssumption
       DEF IInv, TypeOK, StatusesGood, FreshIsRead, FewFound
  <1>3. /\ UNCHANGED <<members, leader, view, up, ids, statuses>> /\ Actual' = Actual
        /\ Settled' <=> Settled
    BY <1>1 DEF etcd, Actual, Settled
  <1>4. ASSUME calm
        PROVE  Settled /\ FoundAll /\ AskedIsRight
    BY <1>4 DEF IInv, CalmIsRight
  <1>5. CASE next > Cardinality(found) /\ pc' = "record" /\ NoFault /\ UNCHANGED <<found, next, calm>>
    <2>1. LoopGoesOn
      BY <1>1, <1>5, Faults DEF LoopGoesOn
    <2>2. ASSUME calm
          PROVE  CalmIsRight'
      <3>1. IdsAll(found, members, Len(members))
        BY <1>4, <2>2, StateTyped DEF FoundAll, IdsAll
      <3>2. Len(members) <= Cardinality(found)
        BY <1>2, <3>1, StateTyped, EnoughRecords
      <3>3. \A i \in 1 .. Len(members) : i < next
        BY <1>2, <1>5, <3>2, StateTyped
      <3>4. AskedIsRight'
        BY <1>3, <1>4, <1>5, <2>2, <3>3 DEF AskedIsRight, RoleOf
      <3>5. FoundAll'
        BY <1>1, <1>3, <1>4, <1>5, <2>2 DEF FoundAll
      <3> QED BY <1>3, <1>4, <1>5, <2>2, <3>4, <3>5 DEF CalmIsRight
    <2>3. CalmIsRight'
      BY <1>5, <2>2 DEF CalmIsRight
    <2>4. FewFound'
      BY <1>2, <1>5 DEF FewFound
    <2> QED BY <1>2, <1>5, <2>1, <2>3, <2>4, LoopStepHolds
  <1>6. ASSUME next <= Cardinality(found), next' = next + 1, UNCHANGED pc
        PROVE  next' \in 1 .. MaxPods + 1 /\ next \in Pod
    BY <1>2, <1>6, RolesAssumption DEF Pod
  <1>7. CASE /\ next <= Cardinality(found) /\ next' = next + 1 /\ UNCHANGED <<pc, found>>
             /\ \/ next \notin running \/ ~up[next]
                \/ calm' = FALSE
             /\ calm' \in {calm, FALSE} /\ (Fault \/ NoFault)
    <2>1. LoopGoesOn
      BY <1>1, <1>7, Faults DEF LoopGoesOn
    <2>2. ASSUME calm'
          PROVE  CalmIsRight'
      <3>1. calm /\ (next \notin running \/ ~up[next])
        BY <1>7, <2>2
      <3>2. \A i \in 1 .. Len(members) : i \in running /\ up[i]
        BY <1>4, <3>1 DEF FoundAll, Settled
      <3>3. \A i \in 1 .. Len(members) : i < next' => i < next
        BY <1>2, <1>7, <3>1, <3>2, StateTyped
      <3>4. AskedIsRight'
        BY <1>1, <1>3, <1>4, <1>7, <3>1, <3>3 DEF AskedIsRight, RoleOf
      <3>5. FoundAll'
        BY <1>1, <1>3, <1>4, <1>7, <3>1 DEF FoundAll
      <3> QED BY <1>1, <1>3, <1>4, <1>7, <3>1, <3>4, <3>5 DEF CalmIsRight
    <2>3. CalmIsRight'
      BY <2>2 DEF CalmIsRight
    <2>4. FewFound' /\ calm' \in BOOLEAN
      BY <1>2, <1>7 DEF FewFound
    <2> QED BY <1>1, <1>2, <1>6, <1>7, <2>1, <2>3, <2>4, LoopStepHolds
  <1>8. CASE /\ next <= Cardinality(found) /\ next' = next + 1 /\ UNCHANGED pc
             /\ next \in running /\ up[next] /\ NoFault /\ UNCHANGED calm
             /\ found' = Answered(found, view[next].members[next], view[next].leader)
    <2> DEFINE v == view[next]
               me == v.members[next]
    <2>1. next' \in 1 .. MaxPods + 1 /\ next \in Pod
      BY <1>6, <1>8
    <2>2. v \in ViewType /\ GoodView(v, members, ids) /\ Len(v.members) >= next
      BY <1>8, <2>1 DEF IInv, TypeOK, ViewsGood
    <2>3. next \in 1 .. Len(v.members) /\ me \in MemberType
      BY <1>2, <2>2, MembersTyped
    <2>4. AreAnswered(found', found, me, v.leader)
      BY <1>2, <1>8, AnsweredIs
    <2>5. IsFiniteSet(found') /\ Cardinality(found') \in Nat /\ Cardinality(found') <= Cardinality(found)
      BY <1>2, <1>8, AnsweredIs
    <2>6. FewFound'
      BY <1>2, <2>5, RolesAssumption DEF FewFound
    <2>7. me.id <= ids /\ (~me.learner => IsVoter(members, me.id))
      BY <2>2, <2>3 DEF GoodView
    <2>8. calm => v = Actual \/ next \notin 1 .. Len(members)
      BY <1>4 DEF Settled
    <2> HIDE DEF v, me
    <2>9. GoodStatus(found', members, ids)
      BY <1>2, <2>4, <2>7 DEF AreAnswered, GoodStatus, Says
    <2>10. ASSUME calm'
           PROVE  CalmIsRight'
      <3>1. calm /\ Settled /\ FoundAll /\ AskedIsRight
        BY <1>4, <1>8, <2>10
      <3>2. next \in 1 .. Len(members)
        BY <1>2, <1>8, <2>1, <3>1, StateTyped DEF Settled
      <3>3. v = Actual /\ me = members[next] /\ v.leader = leader
        BY <2>8, <3>1, <3>2 DEF Actual, me
      <3>4. Says(me, v.leader) = RoleOf(members[next])
        BY <3>3 DEF Says, RoleOf
      <3>5. FoundAll'
        BY <1>1, <1>3, <2>4, <3>1 DEF FoundAll, AreAnswered
      <3>6. ASSUME NEW q \in found'
            PROVE  \E i \in 1 .. Len(members) :
                     /\ q.id = members[i].id /\ q.name = members[i].pod
                     /\ i < next + 1 => q.role = RoleOf(members[i])
        <4>1. PICK r \in found :
                /\ q.id = r.id /\ q.name = r.name
                /\ q.role = IF r.id = me.id THEN Says(me, v.leader) ELSE r.role
          BY <2>4 DEF AreAnswered
        <4>2. PICK i \in 1 .. Len(members) :
                /\ r.id = members[i].id /\ r.name = members[i].pod
                /\ i < next => r.role = RoleOf(members[i])
          BY <3>1 DEF AskedIsRight
        <4>3. r.id = me.id <=> i = next
          BY <3>2, <3>3, <4>2, StateTyped
        <4>4. i < next + 1 => i < next \/ i = next
          BY <1>2, <4>2, StateTyped
        <4> QED BY <3>4, <4>1, <4>2, <4>3, <4>4
      <3>7. \A i \in 1 .. Len(members) : RoleOf(members[i])' = RoleOf(members[i])
        BY <1>3 DEF RoleOf
      <3>8. AskedIsRight'
        BY <1>1, <1>3, <1>8, <3>6, <3>7 DEF AskedIsRight
      <3> QED BY <1>1, <1>3, <1>8, <3>1, <3>5, <3>8 DEF CalmIsRight
    <2>11. CalmIsRight'
      BY <2>10 DEF CalmIsRight
    <2>12. LoopGoesOn
      BY <1>1, <1>8, Faults DEF LoopGoesOn
    <2>13. IsStatus(found')
      BY <2>4 DEF AreAnswered
    <2> QED BY <1>1, <1>2, <1>8, <2>1, <2>6, <2>9, <2>11, <2>12, <2>13, LoopStepHolds
  <1>9. next <= Cardinality(found) \/ next > Cardinality(found)
    BY <1>2
  <1> QED BY <1>2, <1>5, <1>7, <1>8, <1>9 DEF AskPod

-----------------------------------------------------------------------------
(***************************************************************************)
(* The invariant holds.                                                    *)
(***************************************************************************)
LEMMA InitHolds == Init => IInv
  <1> SUFFICES ASSUME Init PROVE IInv
    OBVIOUS
  <1> DEFINE first == [id |-> 1, pod |-> 1, started |-> FALSE, learner |-> FALSE]
  <1>1. /\ members = <<first>> /\ leader = 0 /\ ids = 1 /\ view = [k \in Pod |-> Unasked]
        /\ up = NoPod /\ statuses = up /\ learner \in BOOLEAN
        /\ recorded = {} /\ cached = {} /\ old = {} /\ fresh = FALSE
        /\ found = {} /\ running = {} /\ pc = "idle" /\ next = 1 /\ again = FALSE
        /\ calm = FALSE /\ changes = 0 /\ faults = 0
    BY DEF Init
  <1>2. 1 \in Id /\ 1 \in Pod /\ ids <= ids
    BY <1>1, RolesAssumption DEF Id, Pod
  <1>3. first \in MemberType /\ first.id = 1
    BY <1>2 DEF MemberType
  <1> HIDE DEF first
  <1>4. /\ members \in Seq(MemberType) /\ Len(members) = 1
        /\ \A i \in 1 .. Len(members) : i = 1 /\ members[i] = first
    BY <1>1, <1>3
  <1>5. Unasked \in ViewType /\ Len(Unasked.members) = 0
    BY DEF Unasked, ViewType
  <1>6. view \in [Pod -> ViewType] /\ \A k \in Pod : view[k] = Unasked
    BY <1>1, <1>5
  <1>7. Actual \in ViewType /\ GoodView(Actual, members, ids)
    <2>1. Len(members) \in Pod /\ leader \in Id \cup {0}
      BY <1>1, <1>2, <1>4
    <2>2. \A i \in 1 .. Len(members) : members[i].id = 1 /\ members[i].id <= ids
      BY <1>1, <1>3, <1>4
    <2>3. \A i, j \in 1 .. Len(members) : members[i].id = members[j].id => i = j
      BY <1>4
    <2> QED BY <1>4, <2>1, <2>2, <2>3, NowIsGood DEF Actual
  <1>8. GoodView(Unasked, members, ids)
    BY <1>5, RolesAssumption DEF GoodView
  <1>9. ViewsGood
    BY <1>6, <1>7, <1>8 DEF ViewsGood
  <1>10. StatusesGood
    BY <1>1, EmptyIsGood DEF StatusesGood
  <1>11. /\ IsStatus(recorded) /\ IsStatus(cached) /\ IsStatus(old) /\ IsStatus(found)
    BY <1>1, EmptyIsGood
  <1>12. up \in [Pod -> BOOLEAN] /\ \A k \in Pod : ~up[k]
    BY <1>1 DEF NoPod
  <1>13. FALSE \in BOOLEAN /\ 1 \in 1 .. MaxPods + 1 /\ 0 \in 0 .. MaxChanges /\ 0 \in 0 .. MaxFaults
    BY RolesAssumption
  <1>14. TypeOK
    BY <1>1, <1>2, <1>4, <1>11, <1>12, <1>13 DEF TypeOK, MemberType
  <1>15. FewFound /\ FreshIsRead /\ CalmIsRight
    BY <1>1, NothingFound DEF FewFound, FreshIsRead, CalmIsRight
  <1> QED BY <1>9, <1>10, <1>14, <1>15 DEF IInv

LEMMA NextHolds == IInv /\ [Next]_vars => IInv'
  <1> SUFFICES ASSUME IInv, [Next]_vars PROVE IInv'
    OBVIOUS
  <1>1. CASE Step
    BY <1>1, BeginHolds, ListHolds, AskHolds, RecordHolds, PromoteHolds, NoLearnerHolds DEF Step
  <1>2. CASE DeliverTApp \/ DeliverStatus \/ Unlearn
    BY <1>2, UnseenHolds
  <1>3. CASE AddMember \/ StartMember \/ RemoveMember
    BY <1>3, AddHolds, StartHolds, RemoveHolds
  <1>4. CASE \E k \in Pod : PodGone(k) \/ Hear(k)
    BY <1>4, HearHolds
  <1>5. CASE \E k \in 1 .. Len(members) : Elect(k)
    BY <1>5, ElectHolds
  <1>6. CASE UNCHANGED vars
    <2>1. /\ UNCHANGED <<members, leader, view, up, ids, statuses, learner, recorded, cached>>
          /\ UNCHANGED <<old, fresh, found, running, pc, next, again, calm, changes, faults>>
      BY <1>6 DEF vars, etcd, loop
    <2>2. Actual' = Actual
      BY <2>1 DEF Actual
    <2>3. TypeOK'
      BY <2>1 DEF IInv, TypeOK, IsStatus
    <2>4. ViewsGood' /\ StatusesGood' /\ FewFound' /\ FreshIsRead'
      BY <2>1, <2>2 DEF IInv, ViewsGood, StatusesGood, FewFound, FreshIsRead
    <2>5. Settled => Settled'
      BY <2>1, <2>2 DEF Settled
    <2>6. CalmIsRight'
      BY <2>1, <2>5, CalmStays DEF IInv, CalmIsRight
    <2> QED BY <2>3, <2>4, <2>6 DEF IInv
  <1> QED BY <1>1, <1>2, <1>3, <1>4, <1>5, <1>6 DEF Next

\* The inductive invariant holds in every state: no member, no status and no list
\* that is being built calls a voter who has ever been a learner since, and a sync
\* during which nothing changed has found what there is.
THEOREM RolesInvariance == Spec => []IInv
  BY InitHolds, NextHolds, PTL DEF Spec

\* The types of the state, the list that is being built among them: it is never
\* asked for a pod beyond the bound, nor does a record double.
THEOREM RolesTypes == Spec => []TypeOK
  <1>1. IInv => TypeOK
    BY DEF IInv
  <1> QED BY <1>1, RolesInvariance, PTL

\* Whom the status calls leader or follower is no learner (ensureMemberStatus in
\* etcd.go writes the roles, validation.go:95 relies on them).
THEOREM VotersVote == Spec => []VotersAreVoters
  <1>1. IInv => VotersAreVoters
    <2>1. StatusesGood => VotersAreVoters
      BY DEF StatusesGood, GoodStatus, IsVoter, VotersAreVoters, Known, Actual
    <2> QED BY <2>1 DEF IInv
  <1> QED BY <1>1, RolesInvariance, PTL

\* A sync that has read the current status and during which nothing changes leaves
\* the truth in it, in one pass over the pods.
THEOREM QuietSync == Spec => QuietSyncIsRight
  <1> DEFINE A == pc = "record" /\ pc' # "record" /\ faults' = faults /\ fresh /\ calm
                    => recorded' = Truth
  <1>1. IInv /\ [Next]_vars => [A]_vars
    <2> SUFFICES ASSUME IInv, Next, pc = "record", pc' # "record", faults' = faults, fresh, calm
                 PROVE  recorded' = Truth
      BY DEF vars
    <2>1. RecordMembers
      BY DEF Next, Step, Begin, ListMembers, AskPod, PromoteLearner, NoLearner, DeliverTApp,
             DeliverStatus, Unlearn, AddMember, StartMember, RemoveMember, PodGone, Hear,
             Elect, loop
    <2>2. FoundAll /\ AskedIsRight /\ old = recorded /\ found \subseteq EntryType
      BY DEF IInv, CalmIsRight, FreshIsRead, TypeOK, IsStatus
    <2>3. ~Fault
      BY RolesAssumption DEF Fault, IInv, TypeOK
    <2>4. recorded' = found
      BY <2>1, <2>2, <2>3 DEF RecordMembers
    <2> DEFINE Right(m) == [id |-> m.id, name |-> m.pod, role |-> RoleOf(m)]
    <2>5. ASSUME NEW r \in found
          PROVE  \E i \in 1 .. Len(members) : r = Right(members[i])
      <3>1. PICK i \in 1 .. Len(members) :
              r.id = members[i].id /\ r.name = members[i].pod /\ r.role = RoleOf(members[i])
        BY <2>2 DEF AskedIsRight
      <3>2. r = [id |-> r.id, name |-> r.name, role |-> r.role]
        BY <2>2 DEF EntryType
      <3>3. r = Right(members[i])
        BY <3>1, <3>2
      <3> QED BY <3>3
    <2>6. ASSUME NEW i \in 1 .. Len(members)
          PROVE  Right(members[i]) \in found
      <3>1. PICK r \in found : r.id = members[i].id
        BY <2>2 DEF FoundAll
      <3>2. PICK j \in 1 .. Len(members) : r = Right(members[j])
        BY <2>5
      <3>3. i = j
        BY <3>1, <3>2, StateTyped
      <3> QED BY <3>2, <3>3
    <2>7. Truth = {Right(m) : m \in Known(Actual)}
      BY DEF Truth
    <2>8. Known(Actual) = {members[i] : i \in 1 .. Len(members)}
      BY DEF Known, Actual
    <2> HIDE DEF Right
    <2>9. Truth = found
      BY <2>5, <2>6, <2>7, <2>8
    <2> QED BY <2>4, <2>9
  <1> QED BY <1>1, RolesInvariance, PTL DEF Spec, QuietSyncIsRight

=============================================================================
