------------------------ MODULE NodeTemplatesProofs ------------------------
(***************************************************************************)
(* What holds of NodeTemplates for every set of specs that may be          *)
(* submitted, every width of spec.size and any number of edits.            *)
(***************************************************************************)
EXTENDS NodeTemplates, FiniteSetTheorems, TLAPS

Volume == Kind \cup {"data"}

-----------------------------------------------------------------------------
(***************************************************************************)
(* The inductive invariant.                                                *)
(***************************************************************************)
\* A template with its four parts.
IsTemplate(t) ==
    t = [image |-> t.image, volumes |-> t.volumes, voting |-> t.voting, args |-> t.args]

\* The flag for the data directory is there if there is a volume, and names it only then.
DataFlag(args, pvc) ==
    IF pvc THEN "data-dir" \in DOMAIN args
    ELSE ~("data-dir" \in DOMAIN args /\ args["data-dir"] = "mount")

\* The template has the volumes and the flags that spec s asks for, as far as no
\* edit may change them: the volume for the data, and the certificates if the user
\* leaves them alone.
Fits(t, s) ==
    /\ t.volumes["data"] = IF s.pvc THEN 1 ELSE 0
    /\ DataFlag(t.args, s.pvc)
    /\ \A v \in Kind : t.volumes[v] \in {0, 1}
    /\ TLSFixed => \A v \in Kind :
          /\ v \in s.external \cup s.auto => t.volumes[v] = 1
          /\ v \in DOMAIN t.args => v \in s.external \cup s.auto

\* The spec the API server holds went through both webhooks.
Admitted(s) == s \in SpecType /\ Validate(s) /\ SetDefaults(s) = s

Numbered(n) == n \in 0 .. 7 /\ DOMAIN nodes = 0 .. n - 1

StoredOK == stored = << >> \/ (stored = <<Spec0>> /\ Admitted(Spec0))

NodesOK == \A i \in DOMAIN nodes : IsTemplate(nodes[i]) /\ Fits(nodes[i], Spec0)

IInv ==
    /\ StoredOK
    /\ \E n \in 0 .. 7 : Numbered(n)
    /\ DOMAIN nodes # {} => Created
    /\ voters \subseteq DOMAIN nodes
    /\ edits \in 0 .. MaxEdits
    /\ NodesOK

-----------------------------------------------------------------------------
(***************************************************************************)
(* Specs and templates.                                                    *)
(***************************************************************************)
LEMMA Defaulted ==
    ASSUME NEW s \in SpecType
    PROVE  LET d == SetDefaults(s)
           IN  /\ d \in SpecType /\ SetDefaults(d) = d /\ d.version # NoVersion
               /\ d.pvc = s.pvc /\ d.external = s.external /\ d.auto = s.auto
               /\ d.size = s.size /\ d.learners = s.learners
  <1> DEFINE d == SetDefaults(s)
             v == IF s.version = NoVersion THEN Default ELSE s.version
  <1>1. Default \in Nat \ {NoVersion} /\ v \in Nat /\ v # NoVersion
    BY TemplatesAssumption DEF SpecType
  <1>2. d = [s EXCEPT !.version = v]
    BY DEF SetDefaults
  <1> HIDE DEF v, d
  <1>3. d \in SpecType /\ d.version = v
    BY <1>1, <1>2 DEF SpecType
  <1>4. /\ d.pvc = s.pvc /\ d.external = s.external /\ d.auto = s.auto
        /\ d.size = s.size /\ d.learners = s.learners
    BY <1>2 DEF SpecType
  <1>5. SetDefaults(d) = d
    BY <1>1, <1>3 DEF SetDefaults, SpecType
  <1> QED BY <1>1, <1>3, <1>4, <1>5 DEF d

LEMMA Rearmed ==
    ASSUME NEW t, IsTemplate(t), NEW a
    PROVE  /\ IsTemplate([t EXCEPT !.args = a])
           /\ [t EXCEPT !.args = a].args = a /\ [t EXCEPT !.args = a].volumes = t.volumes
  BY DEF IsTemplate

LEMMA Relabelled ==
    ASSUME NEW t, IsTemplate(t), NEW b
    PROVE  /\ IsTemplate([t EXCEPT !.voting = b])
           /\ [t EXCEPT !.voting = b].args = t.args
           /\ [t EXCEPT !.voting = b].volumes = t.volumes
  BY DEF IsTemplate

\* What the arguments of a node say about files.
LEMMA ArgsNameFiles ==
    ASSUME NEW s \in SpecType, NEW i
    PROVE  /\ DataFlag(Args(s, i), s.pvc)
           /\ \A v \in Kind : v \in DOMAIN Args(s, i) => v \in s.external \cup s.auto
  <1> DEFINE a == Args(s, i)
             init == NodeInitArgs(s, i)
  <1>1. /\ s.pvc \in BOOLEAN /\ DOMAIN s.extra \subseteq {"data-dir", "quota"}
        /\ \A f \in DOMAIN s.extra : s.extra[f] = "user"
    BY DEF SpecType
  <1>2. DOMAIN init = SecureKinds(s) \cup (IF s.pvc THEN {"data-dir"} ELSE {})
                             \cup {"initial-cluster-state"}
    BY DEF NodeInitArgs
  <1>3. /\ DOMAIN a = DOMAIN s.extra \cup DOMAIN init
        /\ \A f \in DOMAIN s.extra : a[f] = s.extra[f]
    BY DEF Args, Merge
  <1> HIDE DEF a, init
  <1>4. DataFlag(a, s.pvc)
    <2>1. s.pvc => "data-dir" \in DOMAIN a
      BY <1>2, <1>3
    <2>2. ~s.pvc /\ "data-dir" \in DOMAIN a => "data-dir" \in DOMAIN s.extra
      BY <1>2, <1>3 DEF SecureKinds
    <2> QED BY <1>1, <1>3, <2>1, <2>2 DEF DataFlag
  <1>5. \A v \in Kind : v \in DOMAIN a => v \in s.external \cup s.auto
    BY <1>1, <1>2, <1>3 DEF SecureKinds, Kind
  <1> QED BY <1>4, <1>5 DEF a

\* What the volumes of a template are: none is mounted twice, since admission refuses
\* a kind of certificate that is both supplied and generated.
LEMMA VolumesOnce ==
    ASSUME NEW s \in SpecType, s.external \cap s.auto = {}
    PROVE  /\ Volumes(s)["data"] = IF s.pvc THEN 1 ELSE 0
           /\ \A v \in Kind : Volumes(s)[v] = IF v \in s.external \cup s.auto THEN 1 ELSE 0
  <1>1. "data" \in Kind \cup {"data"} /\ "data" \notin Kind
    BY DEF Kind
  <1>2. ASSUME NEW v \in Kind
        PROVE  Volumes(s)[v] = IF v \in s.external \cup s.auto THEN 1 ELSE 0
    <2> DEFINE W == {w \in {"external", "auto"} : v \in s[w]}
    <2>1. Volumes(s)[v] = Cardinality(W)
      BY <1>1, <1>2 DEF Volumes
    <2>2. CASE v \in s.external
      <3>1. W = {"external"}
        BY <2>2 DEF SpecType
      <3>2. Cardinality({"external"}) = 1
        BY FS_Singleton
      <3> QED BY <2>1, <2>2, <3>1, <3>2
    <2>3. CASE v \in s.auto
      <3>1. W = {"auto"}
        BY <2>3 DEF SpecType
      <3>2. Cardinality({"auto"}) = 1
        BY FS_Singleton
      <3> QED BY <2>1, <2>3, <3>1, <3>2
    <2>4. CASE v \notin s.external \cup s.auto
      <3>1. W = {}
        BY <2>4 DEF SpecType
      <3> QED BY <2>1, <2>4, <3>1, FS_EmptySet
    <2> QED BY <2>2, <2>3, <2>4
  <1> QED BY <1>1, <1>2 DEF Volumes

LEMMA SeedFits ==
    ASSUME NEW s, Admitted(s)
    PROVE  IsTemplate(SeedTemplate(s)) /\ Fits(SeedTemplate(s), s)
  <1>1. /\ SeedTemplate(s).volumes = Volumes(s) /\ SeedTemplate(s).args = Args(s, 0)
        /\ IsTemplate(SeedTemplate(s))
    BY DEF SeedTemplate, IsTemplate
  <1>2. s \in SpecType /\ s.external \cap s.auto = {}
    BY DEF Admitted, Validate
  <1> QED BY <1>1, <1>2, ArgsNameFiles, VolumesOnce DEF Fits

\* A template that fits does so with its arguments rebuilt.
LEMMA RebuiltFits ==
    ASSUME NEW s, Admitted(s), NEW pool,
           \A i \in DOMAIN pool : IsTemplate(pool[i]) /\ Fits(pool[i], s)
    PROVE  /\ DOMAIN Rebuild(s, pool) = DOMAIN pool
           /\ \A i \in DOMAIN pool :
                 IsTemplate(Rebuild(s, pool)[i]) /\ Fits(Rebuild(s, pool)[i], s)
  <1>1. DOMAIN Rebuild(s, pool) = DOMAIN pool
    BY DEF Rebuild
  <1>2. ASSUME NEW i \in DOMAIN pool
        PROVE  IsTemplate(Rebuild(s, pool)[i]) /\ Fits(Rebuild(s, pool)[i], s)
    <2>1. Rebuild(s, pool)[i] = [pool[i] EXCEPT !.args = Args(s, i)]
      BY DEF Rebuild
    <2>2. /\ IsTemplate(Rebuild(s, pool)[i]) /\ Rebuild(s, pool)[i].args = Args(s, i)
          /\ Rebuild(s, pool)[i].volumes = pool[i].volumes
      BY <2>1, Rearmed
    <2>3. s \in SpecType
      BY DEF Admitted
    <2> QED BY <2>2, <2>3, ArgsNameFiles DEF Fits
  <1> QED BY <1>1, <1>2

-----------------------------------------------------------------------------
(***************************************************************************)
(* The steps.  Every one that changes the pool leaves it numbered from 0   *)
(* and every template as the spec wants it.                                *)
(***************************************************************************)
LEMMA SpecIs ==
    ASSUME NEW s, stored' = <<s>>
    PROVE  Spec0' = s /\ Created'
  BY DEF Spec0, Created

LEMMA Kept ==
    ASSUME stored' = stored
    PROVE  Spec0' = Spec0 /\ (Created' <=> Created) /\ (StoredOK => StoredOK')
  BY DEF Spec0, Created, StoredOK

LEMMA HasSpec ==
    ASSUME IInv, Created
    PROVE  Admitted(Spec0) /\ Spec0 \in SpecType /\ Spec0.size \in 1 .. 7
  BY DEF IInv, StoredOK, Created, Admitted, Validate

\* A spec that keeps what no edit changes fits the templates as well.
LEMMA StillFits ==
    ASSUME NEW t, NEW s, NEW u, Fits(t, s), u.pvc = s.pvc,
           TLSFixed => u.external = s.external /\ u.auto = s.auto
    PROVE  Fits(t, u)
  BY DEF Fits

\* What a spec that a submission stores is.
LEMMA AdmittedSubmission ==
    ASSUME NEW s \in Offered, Validate(SetDefaults(s))
    PROVE  Admitted(SetDefaults(s))
  <1>1. s \in SpecType
    BY TemplatesAssumption
  <1> QED BY <1>1, Defaulted DEF Admitted

LEMMA CreateKeeps ==
    ASSUME IInv, NEW s \in Offered, Create(s)
    PROVE  IInv'
  <1>1. Spec0' = SetDefaults(s) /\ Created'
    BY SpecIs DEF Create
  <1>2. Admitted(SetDefaults(s))
    BY AdmittedSubmission DEF Create
  <1>3. StoredOK'
    BY <1>1, <1>2 DEF Create, StoredOK
  <1>4. nodes' = nodes /\ DOMAIN nodes = {}
    BY DEF Create, IInv
  <1> QED BY <1>1, <1>3, <1>4 DEF Create, IInv, Numbered, NodesOK

LEMMA UpdateKeeps ==
    ASSUME IInv, NEW s \in Offered, Update(s)
    PROVE  IInv'
  <1> DEFINE d == SetDefaults(s)
  <1>1. Spec0' = d /\ Created'
    BY SpecIs DEF Update
  <1>2. Admitted(d)
    BY AdmittedSubmission DEF Update, ValidateUpdate
  <1>3. StoredOK'
    BY <1>1, <1>2 DEF Update, StoredOK
  <1>4. d.pvc = Spec0.pvc /\ d.external = s.external /\ d.auto = s.auto
    <2>1. s \in SpecType
      BY TemplatesAssumption
    <2> QED BY <2>1, Defaulted DEF Update, ValidateUpdate
  <1>5. nodes' = nodes /\ (TLSFixed => s.external = Spec0.external /\ s.auto = Spec0.auto)
    BY DEF Update
  <1> HIDE DEF d
  <1>6. NodesOK'
    BY <1>1, <1>4, <1>5, StillFits DEF IInv, NodesOK
  <1>7. edits' \in 0 .. MaxEdits
    BY TemplatesAssumption DEF Update, IInv
  <1> QED BY <1>1, <1>3, <1>5, <1>6, <1>7 DEF Update, IInv, Numbered

LEMMA SeedKeeps ==
    ASSUME IInv, Seed
    PROVE  IInv'
  <1>1. Spec0' = Spec0 /\ Created' /\ StoredOK'
    BY Kept DEF Seed, IInv
  <1>2. IsTemplate(SeedTemplate(Spec0)) /\ Fits(SeedTemplate(Spec0), Spec0)
    BY HasSpec, SeedFits DEF Seed
  <1>3. DOMAIN nodes' = {0} /\ nodes'[0] = SeedTemplate(Spec0)
    BY DEF Seed
  <1>4. 1 \in 0 .. 7 /\ 0 .. 1 - 1 = {0}
    OBVIOUS
  <1>5. \E n \in 0 .. 7 : Numbered(n)'
    BY <1>3, <1>4 DEF Numbered
  <1>6. NodesOK'
    BY <1>1, <1>2, <1>3 DEF NodesOK
  <1> QED BY <1>1, <1>3, <1>5, <1>6 DEF Seed, IInv

\* The number of replicas is where the pool's numbering ends.
LEMMA ReplicasIs ==
    ASSUME NEW n \in 0 .. 7, Numbered(n)
    PROVE  Replicas = n
  <1>1. Cardinality(0 .. n - 1) = IF 0 > n - 1 THEN 0 ELSE (n - 1) - 0 + 1
    BY FS_Interval
  <1> QED BY <1>1 DEF Numbered, Replicas

LEMMA ReachableNotEmpty ==
    ASSUME IInv, Reachable
    PROVE  DOMAIN nodes # {} /\ Created /\ 0 \in DOMAIN nodes
  <1>1. DOMAIN nodes # {}
    BY DEF Reachable
  <1> QED BY <1>1 DEF IInv, Numbered

LEMMA GrowKeeps ==
    ASSUME IInv, Grow
    PROVE  IInv'
  <1>1. DOMAIN nodes # {} /\ Created /\ 0 \in DOMAIN nodes
    BY ReachableNotEmpty DEF Grow
  <1>2. PICK n \in 0 .. 7 : Numbered(n)
    BY DEF IInv
  <1>3. Replicas = n
    BY <1>2, ReplicasIs
  <1>4. Admitted(Spec0) /\ Spec0.size \in 1 .. 7
    BY <1>1, HasSpec
  <1>5. n + 1 \in 0 .. 7
    BY <1>3, <1>4 DEF Grow
  <1> DEFINE vote == nodes[0].voting /\ ~Names(Spec0, n)
             new == [nodes[0] EXCEPT !.voting = vote]
             pool == Extended(nodes, n, new)
  <1>6. nodes' = Rebuild(Spec0, pool)
    BY <1>3 DEF Grow
  <1>7. IsTemplate(new) /\ Fits(new, Spec0)
    <2>1. IsTemplate(nodes[0]) /\ Fits(nodes[0], Spec0)
      BY <1>1 DEF IInv, NodesOK
    <2> HIDE DEF vote
    <2>2. /\ IsTemplate(new) /\ new.args = nodes[0].args
          /\ new.volumes = nodes[0].volumes
      BY <2>1, Relabelled
    <2> QED BY <2>1, <2>2 DEF Fits
  <1> HIDE DEF new
  <1>8. /\ DOMAIN pool = DOMAIN nodes \cup {n}
        /\ \A i \in DOMAIN pool : IsTemplate(pool[i]) /\ Fits(pool[i], Spec0)
    BY <1>7 DEF Extended, IInv, NodesOK
  <1> HIDE DEF pool
  <1>9. /\ DOMAIN nodes' = DOMAIN nodes \cup {n}
        /\ \A i \in DOMAIN nodes' : IsTemplate(nodes'[i]) /\ Fits(nodes'[i], Spec0)
    BY <1>4, <1>6, <1>8, RebuiltFits
  <1>10. Spec0' = Spec0 /\ Created' /\ StoredOK'
    BY <1>1, Kept DEF Grow, IInv
  <1>11. NodesOK'
    BY <1>9, <1>10 DEF NodesOK
  <1>12. Numbered(n + 1)'
    BY <1>2, <1>5, <1>9 DEF Numbered
  <1>13. voters' \subseteq DOMAIN nodes'
    BY <1>3, <1>9 DEF Grow, IInv
  <1> QED BY <1>5, <1>10, <1>11, <1>12, <1>13 DEF Grow, IInv

LEMMA ShrinkKeeps ==
    ASSUME IInv, Shrink
    PROVE  IInv'
  <1>1. DOMAIN nodes # {} /\ Created /\ 0 \in DOMAIN nodes
    BY ReachableNotEmpty DEF Shrink
  <1>2. PICK n \in 0 .. 7 : Numbered(n)
    BY DEF IInv
  <1>3. Replicas = n
    BY <1>2, ReplicasIs
  <1>4. n - 1 \in 0 .. 7
    BY <1>1, <1>3, HasSpec DEF Shrink
  <1>5. /\ DOMAIN nodes' = DOMAIN nodes \ {n - 1}
        /\ \A i \in DOMAIN nodes' : nodes'[i] = nodes[i]
    BY <1>3 DEF Shrink
  <1>6. Spec0' = Spec0 /\ Created' /\ StoredOK'
    BY <1>1, Kept DEF Shrink, IInv
  <1>7. NodesOK'
    BY <1>5, <1>6 DEF NodesOK, IInv
  <1>8. Numbered(n - 1)'
    BY <1>2, <1>4, <1>5 DEF Numbered
  <1>9. voters' \subseteq DOMAIN nodes'
    BY <1>3, <1>5 DEF Shrink, IInv
  <1> QED BY <1>4, <1>6, <1>7, <1>8, <1>9 DEF Shrink, IInv

LEMMA UpdateTAppTemplateKeeps ==
    ASSUME IInv, UpdateTAppTemplate
    PROVE  IInv'
  <1>1. nodes' = Rebuild(Spec0, nodes)
    BY DEF UpdateTAppTemplate
  <1>2. Spec0' = Spec0 /\ (Created' <=> Created) /\ StoredOK'
    BY Kept DEF UpdateTAppTemplate, IInv
  <1>3. DOMAIN nodes' = DOMAIN nodes
    BY <1>1 DEF Rebuild
  <1>4. NodesOK'
    <2>1. CASE DOMAIN nodes = {}
      BY <2>1, <1>3 DEF NodesOK
    <2>2. CASE DOMAIN nodes # {}
      <3>1. Admitted(Spec0)
        BY <2>2, HasSpec DEF IInv
      <3> QED BY <1>1, <1>2, <1>3, <3>1, RebuiltFits DEF NodesOK, IInv
    <2> QED BY <2>1, <2>2
  <1> QED BY <1>2, <1>3, <1>4 DEF UpdateTAppTemplate, IInv, Numbered

LEMMA RecordMembersKeeps ==
    ASSUME IInv, RecordMembers
    PROVE  IInv'
  <1>1. Spec0' = Spec0 /\ (Created' <=> Created) /\ StoredOK'
    BY Kept DEF RecordMembers, IInv
  <1>2. CASE nodes' = nodes
    BY <1>1, <1>2 DEF RecordMembers, IInv, Numbered, NodesOK
  <1>3. CASE nodes' = [i \in DOMAIN nodes |-> [nodes[i] EXCEPT !.voting = TRUE]]
    <2>1. DOMAIN nodes' = DOMAIN nodes
      BY <1>3
    <2>2. ASSUME NEW i \in DOMAIN nodes
          PROVE  IsTemplate(nodes'[i]) /\ Fits(nodes'[i], Spec0)
      <3>1. nodes'[i] = [nodes[i] EXCEPT !.voting = TRUE]
        BY <1>3
      <3>2. IsTemplate(nodes[i]) /\ Fits(nodes[i], Spec0)
        BY DEF IInv, NodesOK
      <3>3. /\ IsTemplate(nodes'[i]) /\ nodes'[i].args = nodes[i].args
            /\ nodes'[i].volumes = nodes[i].volumes
        BY <3>1, <3>2, Relabelled
      <3> QED BY <3>2, <3>3 DEF Fits
    <2>3. NodesOK'
      BY <1>1, <2>1, <2>2 DEF NodesOK
    <2> QED BY <1>1, <2>1, <2>3 DEF RecordMembers, IInv, Numbered
  <1> QED BY <1>2, <1>3 DEF RecordMembers

LEMMA PromoteKeeps ==
    ASSUME IInv, Promote
    PROVE  IInv'
  <1>1. Spec0' = Spec0 /\ (Created' <=> Created) /\ StoredOK'
    BY Kept DEF Promote, IInv
  <1> QED BY <1>1 DEF Promote, IInv, Numbered, NodesOK

LEMMA InitHolds == Init => IInv
  <1> SUFFICES ASSUME Init PROVE IInv
    OBVIOUS
  <1>1. DOMAIN nodes = {} /\ 0 \in 0 .. 7 /\ 0 .. 0 - 1 = {}
    BY DEF Init, NoNodes
  <1>2. \E n \in 0 .. 7 : Numbered(n)
    BY <1>1 DEF Numbered
  <1> QED BY <1>1, <1>2, TemplatesAssumption DEF Init, IInv, StoredOK, NodesOK

LEMMA NextHolds == IInv /\ [Next]_vars => IInv'
  <1> SUFFICES ASSUME IInv, [Next]_vars PROVE IInv'
    OBVIOUS
  <1>1. ASSUME NEW s \in Offered, Create(s) PROVE IInv'
    BY <1>1, CreateKeeps
  <1>2. ASSUME NEW s \in Offered, Update(s) PROVE IInv'
    BY <1>2, UpdateKeeps
  <1>3. CASE Seed
    BY <1>3, SeedKeeps
  <1>4. CASE Grow
    BY <1>4, GrowKeeps
  <1>5. CASE Shrink
    BY <1>5, ShrinkKeeps
  <1>6. CASE UpdateTAppTemplate
    BY <1>6, UpdateTAppTemplateKeeps
  <1>7. CASE RecordMembers
    BY <1>7, RecordMembersKeeps
  <1>8. CASE Promote
    BY <1>8, PromoteKeeps
  <1>9. CASE UNCHANGED vars
    BY <1>9 DEF vars, IInv, StoredOK, Spec0, Created, Numbered, NodesOK
  <1> QED BY <1>1, <1>2, <1>3, <1>4, <1>5, <1>6, <1>7, <1>8, <1>9 DEF Next, Sync

-----------------------------------------------------------------------------
\* Throughout, the stored spec has passed both webhooks, the pool is numbered from
\* zero without a gap, and each of its templates, whenever it was made, has what the
\* stored spec asks for as far as an edit may not change it.
THEOREM TemplatesInvariance == Spec => []IInv
  BY InitHolds, NextHolds, PTL DEF Spec

\* What is stored is valid and has its defaults, and the pool has one template for
\* each replica, numbered without a gap however it grew and shrank.
THEOREM TemplatesTypes == Spec => []TypeOK
  <1>1. IInv => TypeOK
    <2> SUFFICES ASSUME IInv PROVE TypeOK
      OBVIOUS
    <2>1. PICK n \in 0 .. 7 : Numbered(n)
      BY DEF IInv
    <2>2. Replicas = n
      BY <2>1, ReplicasIs
    <2>3. DOMAIN nodes = 0 .. Replicas - 1 /\ Replicas <= 7
      BY <2>1, <2>2 DEF Numbered
    <2>4. /\ Len(stored) <= 1
          /\ Created => Validate(Spec0) /\ SetDefaults(Spec0) = Spec0
      BY DEF IInv, StoredOK, Created, Admitted
    <2> QED BY <2>3, <2>4 DEF IInv, TypeOK
  <1> QED BY <1>1, TemplatesInvariance, PTL

\* The arguments, rebuilt at every sync from the latest spec, and the volumes, made
\* once from the spec the cluster was seeded with, agree on where the data is.
THEOREM VolumeHoldsData == Spec => []DataOnVolume
  <1>1. IInv => DataOnVolume
    <2> SUFFICES ASSUME IInv, NEW i \in DOMAIN nodes
                 PROVE  /\ (/\ "data-dir" \in DOMAIN nodes[i].args
                            /\ nodes[i].args["data-dir"] = "mount")
                             => nodes[i].volumes["data"] = 1
                        /\ nodes[i].volumes["data"] = 1
                             => "data-dir" \in DOMAIN nodes[i].args
      BY DEF DataOnVolume
    <2>1. Fits(nodes[i], Spec0)
      BY DEF IInv, NodesOK
    <2> QED BY <2>1 DEF Fits, DataFlag
  <1> QED BY <1>1, TemplatesInvariance, PTL

\* If the user leaves the TLS configuration as it was created, every certificate file
\* that the arguments of a node name is mounted in it, and none twice, on nodes seeded
\* or added at any time.
THEOREM FilesAreMounted ==
    ASSUME TLSFixed
    PROVE  Spec => []FilesMounted
  <1>1. IInv => FilesMounted
    <2> SUFFICES ASSUME IInv, NEW i \in DOMAIN nodes, NEW v \in Kind \cup {"data"}
                 PROVE  /\ nodes[i].volumes[v] <= 1
                        /\ v \in DOMAIN nodes[i].args \cap Kind
                             => nodes[i].volumes[v] = 1
      BY DEF FilesMounted
    <2>1. Fits(nodes[i], Spec0)
      BY DEF IInv, NodesOK
    <2>2. nodes[i].volumes[v] \in {0, 1}
      BY <2>1 DEF Fits
    <2> QED BY <2>1, <2>2 DEF Fits
  <1> QED BY <1>1, TemplatesInvariance, PTL
=============================================================================
