------------------------ MODULE EtcdScalingProofs ------------------------
(***************************************************************************)
(* What holds of EtcdScaling for every number of loops, every size, every  *)
(* lag of the informers and any number of faults.                          *)
(***************************************************************************)
EXTENDS EtcdScaling, FiniteSetTheorems, TLAPS

Scaling == {"addList", "add", "grow"}
Removing == {"removeList", "remove", "shrink"}

\* What a loop knows where it stands in sync.
LoopOK(l) ==
    /\ l \in fresh => pc[l] \in Holding /\ app[l] = TApp
    /\ pc[l] # "idle" => \E k \in 1 .. seen : e[l] = versions[k]
    /\ pc[l] \in Holding => app[l].replicas > 0
    /\ pc[l] \in Scaling => app[l].replicas < e[l].size /\ Settled(app[l])
    /\ pc[l] \in Removing => e[l].size < app[l].replicas

LoopsOK == \A l \in Loop : LoopOK(l)

IInv == TypeOK /\ LoopsOK

-----------------------------------------------------------------------------
(***************************************************************************)
(* The TApps the code builds are well formed.                              *)
(***************************************************************************)
LEMMA TAppFields ==
    ASSUME NEW t \in TAppVersion
    PROVE  /\ t = [replicas |-> t.replicas, pool |-> t.pool,
                   pods |-> t.pods, ready |-> t.ready]
           /\ t.replicas \in 0 .. MaxSize
           /\ t.pool \in [0 .. t.replicas - 1 -> Pod]
           /\ t.pods \in 0 .. MaxSize
           /\ t.ready \in 0 .. MaxSize
  BY DEF TAppVersion

LEMMA TAppMade ==
    ASSUME NEW r \in 0 .. MaxSize, NEW pool \in [0 .. r - 1 -> Pod],
           NEW pods \in 0 .. MaxSize, NEW ready \in 0 .. MaxSize
    PROVE  [replicas |-> r, pool |-> pool, pods |-> pods, ready |-> ready] \in TAppVersion
  <1>1. [replicas |-> r, pool |-> pool, pods |-> pods, ready |-> ready]
            \in [replicas : {r}, pool : [0 .. r - 1 -> Pod],
                 pods : 0 .. MaxSize, ready : 0 .. MaxSize]
    OBVIOUS
  <1> QED BY <1>1 DEF TAppVersion

LEMMA NoTAppOK == NoTApp \in TAppVersion
  <1> DEFINE pool == [i \in {} |-> {}]
  <1>1. pool \in [0 .. 0 - 1 -> Pod]
    OBVIOUS
  <1>2. NoTApp = [replicas |-> 0, pool |-> pool, pods |-> 0, ready |-> 0]
    BY DEF NoTApp
  <1>3. 0 \in 0 .. MaxSize
    BY ScalingAssumption
  <1> HIDE DEF pool
  <1> QED BY <1>1, <1>2, <1>3, TAppMade

LEMMA SpecFields ==
    ASSUME NEW s \in Specs
    PROVE  s.size \in 1 .. MaxSize /\ s.tpl \in Tpl /\ s.learner \in Index \cup {NoIndex}
  BY ScalingAssumption DEF SpecType

LEMMA SeedOK ==
    ASSUME NEW s \in Specs
    PROVE  SeedTApp(s) \in TAppVersion
  <1> DEFINE pool == [i \in {0} |->
                        [voting |-> s.learner # 0, args |-> s.tpl, rest |-> s.tpl]]
  <1>1. pool \in [0 .. 1 - 1 -> Pod]
    BY SpecFields DEF Pod
  <1>2. SeedTApp(s) = [replicas |-> 1, pool |-> pool, pods |-> 0, ready |-> 0]
    BY DEF SeedTApp
  <1>3. 0 \in 0 .. MaxSize /\ 1 \in 0 .. MaxSize
    BY ScalingAssumption
  <1> HIDE DEF pool
  <1> QED BY <1>1, <1>2, <1>3, TAppMade

LEMMA RespecifiedOK ==
    ASSUME NEW t \in TAppVersion, NEW r \in 0 .. MaxSize, NEW pool \in [0 .. r - 1 -> Pod]
    PROVE  /\ Respecified(t, r, pool) \in TAppVersion
           /\ Respecified(t, r, pool).replicas = r
  BY TAppMade, TAppFields DEF Respecified

LEMMA GrowOK ==
    ASSUME NEW s \in Specs, NEW t \in TAppVersion, 0 < t.replicas, t.replicas < s.size
    PROVE  /\ GrowTApp(s, t) \in TAppVersion
           /\ GrowTApp(s, t).replicas = t.replicas + 1
  <1> DEFINE r == t.replicas
             Source(i) == t.pool[IF i = r THEN 0 ELSE i]
             pool == [i \in 0 .. r |->
                        [voting |-> Source(i).voting /\ (i = r => s.learner # r),
                         args |-> s.tpl, rest |-> Source(i).rest]]
  <1>1. r \in 0 .. MaxSize /\ r + 1 \in 0 .. MaxSize /\ r \in Nat
    BY TAppFields, SpecFields, ScalingAssumption
  <1>2. \A i \in 0 .. r : Source(i) \in Pod
    BY <1>1, TAppFields
  <1>3. pool \in [0 .. (r + 1) - 1 -> Pod]
    BY <1>1, <1>2, SpecFields DEF Pod
  <1>4. GrowTApp(s, t) = Respecified(t, r + 1, pool)
    BY DEF GrowTApp
  <1> HIDE DEF pool
  <1> QED BY <1>1, <1>3, <1>4, RespecifiedOK

LEMMA ShrinkOK ==
    ASSUME NEW t \in TAppVersion, 0 < t.replicas
    PROVE  /\ ShrinkTApp(t) \in TAppVersion
           /\ ShrinkTApp(t).replicas = t.replicas - 1
  <1> DEFINE pool == [i \in 0 .. t.replicas - 2 |-> t.pool[i]]
  <1>1. pool \in [0 .. (t.replicas - 1) - 1 -> Pod]
    BY TAppFields
  <1>2. ShrinkTApp(t) = Respecified(t, t.replicas - 1, pool)
    BY DEF ShrinkTApp
  <1>3. t.replicas - 1 \in 0 .. MaxSize
    BY TAppFields, ScalingAssumption
  <1> HIDE DEF pool
  <1> QED BY <1>1, <1>2, <1>3, RespecifiedOK

LEMMA RetemplateOK ==
    ASSUME NEW s \in Specs, NEW t \in TAppVersion
    PROVE  Retemplate(s, t) \in TAppVersion /\ Retemplate(s, t).replicas = t.replicas
  <1> DEFINE pool == [i \in DOMAIN t.pool |->
                        [voting |-> t.pool[i].voting, args |-> s.tpl, rest |-> s.tpl]]
  <1>1. t.replicas \in 0 .. MaxSize /\ DOMAIN t.pool = 0 .. t.replicas - 1
    BY TAppFields
  <1>2. \A i \in DOMAIN t.pool : t.pool[i].voting \in BOOLEAN
    BY TAppFields DEF Pod
  <1>3. pool \in [0 .. t.replicas - 1 -> Pod]
    BY <1>1, <1>2, SpecFields DEF Pod
  <1>4. Retemplate(s, t) = Respecified(t, t.replicas, pool)
    BY DEF Retemplate
  <1> HIDE DEF pool
  <1> QED BY <1>1, <1>3, <1>4, RespecifiedOK

LEMMA RelabelOK ==
    ASSUME NEW t \in TAppVersion
    PROVE  Relabel(t) \in TAppVersion /\ Relabel(t).replicas = t.replicas
  <1> DEFINE pool == [i \in DOMAIN t.pool |->
                        [voting |-> TRUE, args |-> t.pool[i].args, rest |-> t.pool[i].rest]]
  <1>1. t.replicas \in 0 .. MaxSize /\ DOMAIN t.pool = 0 .. t.replicas - 1
    BY TAppFields
  <1>2. \A i \in DOMAIN t.pool : t.pool[i].args \in Tpl /\ t.pool[i].rest \in Tpl
    BY TAppFields DEF Pod
  <1>3. pool \in [0 .. t.replicas - 1 -> Pod]
    BY <1>1, <1>2 DEF Pod
  <1>4. Relabel(t) = Respecified(t, t.replicas, pool)
    BY DEF Relabel
  <1> HIDE DEF pool
  <1> QED BY <1>1, <1>3, <1>4, RespecifiedOK

-----------------------------------------------------------------------------
(***************************************************************************)
(* What the pieces of an action do.                                        *)
(***************************************************************************)
LEMMA Current ==
    ASSUME TypeOK
    PROVE  /\ TApp \in TAppVersion /\ CachedTApp \in TAppVersion
           /\ versions[1] \in Specs /\ CachedSpec \in Specs
  <1>1. Len(tapps) \in 1 .. Len(tapps) /\ 1 \in 1 .. Len(tapps)
    BY ScalingAssumption DEF TypeOK
  <1>2. 1 \in 1 .. Len(versions) /\ seen \in 1 .. Len(versions)
    BY DEF TypeOK
  <1> QED BY <1>1, <1>2 DEF TypeOK, TApp, CachedTApp, CachedSpec

LEMMA Put ==
    ASSUME TypeOK, NEW t \in TAppVersion, PutTApp(t)
    PROVE  /\ tapps' \in Seq(TAppVersion) /\ Len(tapps)' \in 1 .. MaxLag + 1
           /\ TApp' = t
           /\ fresh' = {}
  BY ScalingAssumption DEF TypeOK, PutTApp, TApp

LEMMA Going ==
    ASSUME TypeOK, NEW l \in Loop, NEW label \in Label, Goto(l, label)
    PROVE  /\ pc' \in [Loop -> Label] /\ e' \in [Loop -> Specs]
           /\ app' \in [Loop -> TAppVersion]
           /\ pc'[l] = label
           /\ label # "idle" => e'[l] = e[l]
           /\ label \in Holding => app'[l] = app[l]
           /\ \A k \in Loop \ {l} : pc'[k] = pc[k] /\ e'[k] = e[k] /\ app'[k] = app[k]
  BY NoTAppOK, Current DEF TypeOK, Goto

LEMMA Taking ==
    ASSUME TypeOK, NEW l \in Loop, NEW label \in Label, TakeCached(l, label)
    PROVE  /\ pc' \in [Loop -> Label] /\ e' = e
           /\ app' \in [Loop -> TAppVersion] /\ fresh' \subseteq Loop
           /\ pc'[l] = label /\ app'[l] = CachedTApp
           /\ l \in fresh' => CachedTApp = TApp
           /\ \A k \in Loop \ {l} :
                 /\ pc'[k] = pc[k] /\ app'[k] = app[k]
                 /\ k \in fresh' => k \in fresh
  BY Current DEF TypeOK, TakeCached, CachedTApp, TApp

\* What a loop knows survives the steps of others; its copy may go stale.
LEMMA Kept ==
    ASSUME LoopsOK, NEW k \in Loop,
           pc'[k] = pc[k], e'[k] = e[k], app'[k] = app[k], k \in fresh' => k \in fresh,
           tapps' = tapps \/ fresh' = {}, UNCHANGED userVars
    PROVE  LoopOK(k)'
  <1>1. LoopOK(k)
    BY DEF LoopsOK
  <1>2. k \in fresh' => app'[k] = TApp'
    BY <1>1 DEF LoopOK, TApp
  <1>3. pc'[k] # "idle" => \E j \in 1 .. seen' : e'[k] = versions'[j]
    BY <1>1 DEF LoopOK, userVars
  <1>4. Settled(app[k]) => Settled(app'[k])
    BY DEF Settled
  <1> QED BY <1>1, <1>2, <1>3, <1>4 DEF LoopOK

\* A step of a loop that does not read the cached TApp: it may write the TApp, it
\* keeps what it needs at the label it goes to.
LEMMA Moved ==
    ASSUME IInv, NEW l \in Loop, NEW label \in Label, Goto(l, label), pc[l] # "idle",
           \/ tapps' = tapps /\ fresh' \subseteq fresh /\ (l \in fresh' => label \in Holding)
           \/ \E t \in TAppVersion : PutTApp(t),
           UNCHANGED userVars, faults' \in 0 .. MaxFaults,
           voters' \subseteq Index, learners' \subseteq Index, running' \subseteq Index,
           disk' \in [Index -> {"none", "own", "old"}],
           label \in Holding => app[l].replicas > 0,
           label \in Scaling => app[l].replicas < e[l].size /\ Settled(app[l]),
           label \in Removing => e[l].size < app[l].replicas
    PROVE  IInv'
  <1> USE DEF IInv
  <1>1. TypeOK'
    BY Going, Put DEF TypeOK, userVars
  <1>2. \A k \in Loop \ {l} : LoopOK(k)'
    BY Kept, Going DEF PutTApp
  <1>3. LoopOK(l)'
    <2>1. l \in fresh' => label \in Holding /\ app'[l] = TApp'
      BY Going DEF LoopsOK, LoopOK, PutTApp, TApp
    <2>2. label # "idle" => \E j \in 1 .. seen' : e'[l] = versions'[j]
      BY Going DEF LoopsOK, LoopOK, userVars
    <2>3. label \in Holding => app'[l] = app[l] /\ e'[l] = e[l]
      BY Going DEF Holding
    <2>4. Scaling \subseteq Holding /\ Removing \subseteq Holding
      BY DEF Scaling, Removing, Holding
    <2> QED BY <2>1, <2>2, <2>3, <2>4, Going DEF LoopOK, Settled
  <1> QED BY <1>1, <1>2, <1>3 DEF LoopsOK

LEMMA Took ==
    ASSUME IInv, NEW l \in Loop, NEW label \in Label, TakeCached(l, label), pc[l] # "idle",
           UNCHANGED <<userVars, tapps, etcdVars>>, faults' \in 0 .. MaxFaults,
           label \in Holding, CachedTApp.replicas > 0,
           label \in Scaling => CachedTApp.replicas < e[l].size /\ Settled(CachedTApp),
           label \in Removing => e[l].size < CachedTApp.replicas
    PROVE  IInv'
  <1> USE DEF IInv
  <1>1. TypeOK'
    BY Taking DEF TypeOK, userVars, etcdVars
  <1>2. \A k \in Loop \ {l} : LoopOK(k)'
    <2>1. \A k \in Loop \ {l} :
             /\ pc'[k] = pc[k] /\ e'[k] = e[k] /\ app'[k] = app[k]
             /\ k \in fresh' => k \in fresh
      BY Taking
    <2>2. tapps' = tapps /\ UNCHANGED userVars
      OBVIOUS
    <2> QED BY <2>1, <2>2, Kept
  <1>3. LoopOK(l)'
    <2>1. l \in fresh' => app'[l] = TApp'
      BY Taking DEF TApp
    <2>2. \E j \in 1 .. seen' : e'[l] = versions'[j]
      BY Taking DEF LoopsOK, LoopOK, userVars
    <2> QED BY <2>1, <2>2, Taking DEF LoopOK, Settled
  <1> QED BY <1>1, <1>2, <1>3 DEF LoopsOK

LEMMA BeginOK == ASSUME IInv, NEW l \in Loop, Begin(l) PROVE IInv'
  <1> USE DEF IInv
  <1>1. TypeOK'
    BY Current DEF TypeOK, Begin, userVars, etcdVars, Label
  <1>2. \A k \in Loop \ {l} : LoopOK(k)'
    <2>1. \A k \in Loop \ {l} : pc'[k] = pc[k] /\ e'[k] = e[k] /\ app'[k] = app[k]
      BY DEF Begin, TypeOK
    <2>2. fresh' = fresh /\ tapps' = tapps /\ UNCHANGED userVars
      BY DEF Begin
    <2> QED BY <2>1, <2>2, Kept
  <1>3. LoopOK(l)'
    BY DEF TypeOK, Begin, userVars, LoopsOK, LoopOK, CachedSpec, Holding, Scaling, Removing
  <1> QED BY <1>1, <1>2, <1>3 DEF LoopsOK

-----------------------------------------------------------------------------
(***************************************************************************)
(* One lemma for each step of a loop.                                      *)
(***************************************************************************)
LEMMA CreateOK == ASSUME IInv, NEW l \in Loop, CreateTApp(l) PROVE IInv'
  <1> USE DEF IInv
  <1>1. e[l] \in Specs /\ SeedTApp(e[l]) \in TAppVersion /\ faults' \in 0 .. MaxFaults
    BY SeedOK, ScalingAssumption DEF TypeOK, CreateTApp, Call, Fault, NoFault
  <1>2. PICK label \in {"labels", "idle"} :
           /\ Goto(l, label)
           /\ PutTApp(SeedTApp(e[l])) \/ UNCHANGED <<tapps, fresh>>
    BY DEF CreateTApp, Call, Return
  <1>3. label \in Label /\ label \notin Holding /\ l \notin fresh
    BY DEF Label, Holding, LoopsOK, LoopOK, CreateTApp
  <1>4. Scaling \subseteq Holding /\ Removing \subseteq Holding
    BY DEF Scaling, Removing, Holding
  <1> QED BY <1>1, <1>2, <1>3, <1>4, Moved DEF CreateTApp, TypeOK, etcdVars

LEMMA ReadOK == ASSUME IInv, NEW l \in Loop, ReadTApp(l) PROVE IInv'
  <1> USE DEF IInv
  <1>1. faults' \in 0 .. MaxFaults /\ UNCHANGED <<userVars, tapps, etcdVars>> /\ pc[l] = "tapp"
    BY DEF TypeOK, ReadTApp, NoFault
  <1>2. e[l] \in Specs /\ CachedTApp \in TAppVersion
    BY Current DEF TypeOK
  <1>3. CASE Goto(l, "labels") /\ KeepCopy(l)
    <2>1. "labels" \in Label /\ "labels" \notin Holding \cup Scaling \cup Removing
      BY DEF Label, Holding, Scaling, Removing
    <2>2. fresh' \subseteq fresh /\ l \notin fresh'
      BY <1>3, <2>1, Going DEF KeepCopy
    <2> QED BY <1>1, <1>3, <2>1, <2>2, Moved DEF TypeOK, etcdVars
  <1>4. CASE \E label \in {"addList", "removeList", "template"} :
               /\ TakeCached(l, label)
               /\ CachedTApp.replicas > 0
               /\ label = "addList" => CachedTApp.replicas < e[l].size /\ Settled(CachedTApp)
               /\ label = "removeList" => e[l].size < CachedTApp.replicas
    <2>1. PICK label \in {"addList", "removeList", "template"} :
               /\ TakeCached(l, label)
               /\ CachedTApp.replicas > 0
               /\ label = "addList" => CachedTApp.replicas < e[l].size /\ Settled(CachedTApp)
               /\ label = "removeList" => e[l].size < CachedTApp.replicas
      BY <1>4
    <2>2. label \in Label /\ label \in Holding
      BY DEF Label, Holding
    <2>3. (label \in Scaling => label = "addList") /\ (label \in Removing => label = "removeList")
      BY DEF Scaling, Removing
    <2> QED BY <1>1, <2>1, <2>2, <2>3, Took
  <1>5. CachedTApp.replicas \in Nat /\ e[l].size \in Nat
    BY <1>2, TAppFields, SpecFields, ScalingAssumption
  <1> QED BY <1>3, <1>4, <1>5 DEF ReadTApp

\* A call that asks etcd: the loop goes on at one of two labels, or returns.
LEMMA Asked ==
    ASSUME IInv, NEW l \in Loop, NEW label \in Label \cap Holding, pc[l] \in Holding,
           Ask(l, Goto(l, label) /\ KeepCopy(l)),
           UNCHANGED <<userVars, tapps, etcdVars>>,
           label \in Scaling => pc[l] \in Scaling, label \in Removing => pc[l] \in Removing
    PROVE  IInv'
  <1> USE DEF IInv
  <1>1. faults' \in 0 .. MaxFaults
    BY ScalingAssumption DEF Ask, Fault, NoFault, TypeOK
  <1>2. PICK to \in {label, "idle"} : Goto(l, to) /\ KeepCopy(l)
    BY DEF Ask, Return
  <1>3. /\ to \in Label /\ (to # "idle" => to = label)
        /\ "idle" \notin Holding \cup Scaling \cup Removing
        /\ pc[l] # "idle"
    BY DEF Label, Holding, Scaling, Removing
  <1>4. fresh' \subseteq fresh /\ (l \in fresh' => to \in Holding)
    BY <1>2, <1>3, Going DEF KeepCopy
  <1>5. LoopOK(l)
    BY DEF LoopsOK
  <1> QED BY <1>1, <1>2, <1>3, <1>4, <1>5, Moved DEF TypeOK, etcdVars, LoopOK

LEMMA AddListOK == ASSUME IInv, NEW l \in Loop, AddList(l) PROVE IInv'
  <1> DEFINE label == IF Cardinality(Members) = app[l].replicas THEN "add" ELSE "grow"
  <1>1. label \in Label \cap Holding /\ label \in Scaling /\ label \notin Removing
    BY DEF Label, Holding, Scaling, Removing
  <1>2. pc[l] \in Holding /\ pc[l] \in Scaling
    BY DEF AddList, Holding, Scaling
  <1>3. Ask(l, Goto(l, label) /\ KeepCopy(l)) /\ UNCHANGED <<userVars, tapps, etcdVars>>
    BY DEF AddList
  <1> HIDE DEF label
  <1> QED BY <1>1, <1>2, <1>3, Asked

LEMMA RemoveListOK == ASSUME IInv, NEW l \in Loop, RemoveList(l) PROVE IInv'
  <1> DEFINE label == IF LastInstance(l) \in Members THEN "remove" ELSE "shrink"
  <1>1. label \in Label \cap Holding /\ label \in Removing /\ label \notin Scaling
    BY DEF Label, Holding, Scaling, Removing
  <1>2. pc[l] \in Holding /\ pc[l] \in Removing
    BY DEF RemoveList, Holding, Removing
  <1>3. Ask(l, Goto(l, label) /\ KeepCopy(l)) /\ UNCHANGED <<userVars, tapps, etcdVars>>
    BY DEF RemoveList
  <1> HIDE DEF label
  <1> QED BY <1>1, <1>2, <1>3, Asked

\* A call that changes the TApp, if the copy in hand is current.
LEMMA Updated ==
    ASSUME IInv, NEW l \in Loop, NEW t \in TAppVersion, NEW label \in Label,
           pc[l] \in Holding, UpdateTApp(l, t, label), UNCHANGED <<userVars, etcdVars>>,
           label \notin Scaling \cup Removing
    PROVE  IInv'
  <1> USE DEF IInv
  <1>1. faults' \in 0 .. MaxFaults
    BY ScalingAssumption DEF UpdateTApp, Call, Fault, NoFault, TypeOK
  <1>2. PICK to \in {label, "idle"} :
            /\ Goto(l, to)
            /\ PutTApp(t) \/ (tapps' = tapps /\ fresh' = fresh \ {l})
    BY DEF UpdateTApp, Call, Return
  <1>3. /\ to \in Label /\ to \notin Scaling \cup Removing
        /\ pc[l] # "idle"
    BY DEF Label, Holding, Scaling, Removing
  <1>4. LoopOK(l)
    BY DEF LoopsOK
  <1> QED BY <1>1, <1>2, <1>3, <1>4, Moved DEF TypeOK, etcdVars, LoopOK

LEMMA GrowStepOK == ASSUME IInv, NEW l \in Loop, Grow(l) PROVE IInv'
  <1>1. pc[l] \in Holding /\ pc[l] \in Scaling
    BY DEF Grow, Holding, Scaling
  <1>2. e[l] \in Specs /\ app[l] \in TAppVersion /\ 0 < app[l].replicas
        /\ app[l].replicas < e[l].size
    BY <1>1, TAppFields DEF IInv, TypeOK, LoopsOK, LoopOK
  <1>3. "template" \in Label /\ "template" \notin Scaling \cup Removing
    BY DEF Label, Holding, Scaling, Removing
  <1> QED BY <1>1, <1>2, <1>3, GrowOK, Updated DEF Grow

LEMMA ShrinkStepOK == ASSUME IInv, NEW l \in Loop, Shrink(l) PROVE IInv'
  <1>1. pc[l] \in Holding
    BY DEF Shrink, Holding
  <1>2. app[l] \in TAppVersion /\ 0 < app[l].replicas
    BY <1>1, TAppFields DEF IInv, TypeOK, LoopsOK, LoopOK
  <1>3. "pvc" \in Label /\ "pvc" \notin Scaling \cup Removing
    BY DEF Label, Holding, Scaling, Removing
  <1> QED BY <1>1, <1>2, <1>3, ShrinkOK, Updated DEF Shrink

LEMMA TemplateOK == ASSUME IInv, NEW l \in Loop, UpdateTemplate(l) PROVE IInv'
  <1>1. pc[l] \in Holding /\ pc[l] # "idle"
    BY DEF UpdateTemplate, Holding
  <1>2. e[l] \in Specs /\ app[l] \in TAppVersion
    BY DEF IInv, TypeOK
  <1>3. "labels" \in Label /\ "labels" \notin Holding \cup Scaling \cup Removing
    BY DEF Label, Holding, Scaling, Removing
  <1>4. CASE UpdateTApp(l, Retemplate(e[l], app[l]), "labels")
    BY <1>1, <1>2, <1>3, <1>4, RetemplateOK, Updated DEF UpdateTemplate
  <1>5. CASE NoFault /\ Goto(l, "labels") /\ KeepCopy(l) /\ tapps' = tapps
    <2>1. fresh' \subseteq fresh /\ l \notin fresh'
      BY <1>3, <1>5, Going DEF KeepCopy, IInv
    <2>2. faults' \in 0 .. MaxFaults
      BY <1>5 DEF NoFault, IInv, TypeOK
    <2> QED BY <1>1, <1>3, <1>5, <2>1, <2>2, Moved DEF UpdateTemplate, IInv, TypeOK, etcdVars
  <1> QED BY <1>4, <1>5 DEF UpdateTemplate

LEMMA RelabelStepOK ==
    ASSUME IInv, NEW l \in Loop,
           \/ RelabelTApp(l, "relabel", "learner") \/ RelabelTApp(l, "relabel2", "idle")
    PROVE  IInv'
  <1>1. PICK next \in {"learner", "idle"} :
            UpdateTApp(l, Relabel(app[l]), next) /\ UNCHANGED <<userVars, etcdVars>>
    BY DEF RelabelTApp
  <1>2. pc[l] \in Holding /\ app[l] \in TAppVersion
    BY DEF RelabelTApp, Holding, IInv, TypeOK
  <1>3. next \in Label /\ next \notin Scaling \cup Removing
    BY DEF Label, Scaling, Removing
  <1> QED BY <1>1, <1>2, <1>3, RelabelOK, Updated

\* A call that changes what is outside Kubernetes' TApp, and never the loop's copy.
LEMMA Changed ==
    ASSUME IInv, NEW l \in Loop, NEW label \in Label, NEW to \in {label, "idle"},
           pc[l] # "idle", Goto(l, to), KeepCopy(l), faults' \in 0 .. MaxFaults,
           UNCHANGED <<userVars, tapps>>,
           voters' \subseteq Index, learners' \subseteq Index, running' \subseteq Index,
           disk' \in [Index -> {"none", "own", "old"}],
           label \in Holding => pc[l] \in Holding,
           label \in Scaling => pc[l] \in Scaling,
           label \in Removing => pc[l] \in Removing
    PROVE  IInv'
  <1> USE DEF IInv
  <1>1. /\ to \in Label /\ (to # "idle" => to = label)
        /\ "idle" \notin Holding \cup Scaling \cup Removing
    BY DEF Label, Holding, Scaling, Removing
  <1>2. fresh' \subseteq fresh /\ (l \in fresh' => to \in Holding)
    BY <1>1, Going DEF KeepCopy
  <1>3. LoopOK(l)
    BY DEF LoopsOK
  <1> QED BY <1>1, <1>2, <1>3, Moved DEF LoopOK

LEMMA AddOK == ASSUME IInv, NEW l \in Loop, MemberAdd(l) PROVE IInv'
  <1> USE DEF IInv
  <1>1. /\ "grow" \in Label /\ "grow" \notin Removing
        /\ pc[l] # "idle" /\ pc[l] \in Holding /\ pc[l] \in Scaling
    BY DEF Label, Holding, Scaling, Removing, MemberAdd
  <1>2. app[l].replicas \in Index
    <2>1. app[l] \in TAppVersion /\ e[l] \in Specs /\ app[l].replicas < e[l].size
      BY <1>1 DEF TypeOK, LoopsOK, LoopOK
    <2>2. app[l].replicas \in 0 .. MaxSize /\ e[l].size \in 1 .. MaxSize
      BY <2>1, TAppFields, SpecFields
    <2> QED BY <2>1, <2>2, ScalingAssumption DEF Index
  <1>3. PICK to \in {"grow", "idle"} : Goto(l, to) /\ KeepCopy(l)
    BY DEF MemberAdd, Change, Call, Return
  <1>4. /\ voters' \subseteq Index /\ learners' \subseteq Index
        /\ faults' \in 0 .. MaxFaults
    BY <1>2, ScalingAssumption DEF MemberAdd, Change, Call, Fault, NoFault, TypeOK
  <1> QED BY <1>1, <1>3, <1>4, Changed DEF MemberAdd, TypeOK

LEMMA RemoveOK == ASSUME IInv, NEW l \in Loop, MemberRemove(l) PROVE IInv'
  <1> USE DEF IInv
  <1>1. /\ "shrink" \in Label /\ "shrink" \notin Scaling
        /\ pc[l] # "idle" /\ pc[l] \in Holding /\ pc[l] \in Removing
    BY DEF Label, Holding, Scaling, Removing, MemberRemove
  <1>2. PICK to \in {"shrink", "idle"} : Goto(l, to) /\ KeepCopy(l)
    BY DEF MemberRemove, Change, Call, Return
  <1>3. /\ voters' \subseteq Index /\ learners' \subseteq Index /\ running' \subseteq Index
        /\ disk' \in [Index -> {"none", "own", "old"}]
    BY DEF MemberRemove, Change, Call, TypeOK, etcdVars
  <1>4. faults' \in 0 .. MaxFaults
    BY ScalingAssumption DEF MemberRemove, Change, Call, Fault, NoFault, TypeOK
  <1> QED BY <1>1, <1>2, <1>3, <1>4, Changed DEF MemberRemove

LEMMA DeletePVCOK == ASSUME IInv, NEW l \in Loop, DeletePVC(l) PROVE IInv'
  <1> USE DEF IInv
  <1>1. /\ "template" \in Label /\ "template" \notin Scaling \cup Removing
        /\ pc[l] # "idle" /\ pc[l] \in Holding
    BY DEF Label, Holding, Scaling, Removing, DeletePVC
  <1>2. PICK to \in {"template", "idle"} : Goto(l, to) /\ KeepCopy(l)
    BY DEF DeletePVC, Call, Return
  <1>3. disk' \in [Index -> {"none", "own", "old"}]
    BY DEF DeletePVC, Call, TypeOK
  <1>4. faults' \in 0 .. MaxFaults
    BY ScalingAssumption DEF DeletePVC, Call, Fault, NoFault, TypeOK
  <1> QED BY <1>1, <1>2, <1>3, <1>4, Changed DEF DeletePVC, TypeOK

LEMMA PromoteOK == ASSUME IInv, NEW l \in Loop, Promote(l) PROVE IInv'
  <1> USE DEF IInv
  <1>1. /\ "labels2" \in Label /\ "labels2" \notin Holding \cup Scaling \cup Removing
        /\ pc[l] # "idle"
    BY DEF Label, Holding, Scaling, Removing, Promote
  <1>2. PICK to \in {"labels2", "idle"} : Goto(l, to) /\ KeepCopy(l)
    BY DEF Promote, Change, Call, Return
  <1>3. voters' \subseteq Index /\ learners' \subseteq Index
    BY DEF Promote, Change, Call, TypeOK
  <1>4. faults' \in 0 .. MaxFaults
    BY ScalingAssumption DEF Promote, Change, Call, Fault, NoFault, TypeOK
  <1> QED BY <1>1, <1>2, <1>3, <1>4, Changed DEF Promote, TypeOK

LEMMA LabelsOK ==
    ASSUME IInv, NEW l \in Loop,
           \/ Labels(l, "labels", "relabel", "learner")
           \/ Labels(l, "labels2", "relabel2", "idle")
    PROVE  IInv'
  <1> USE DEF IInv
  <1>1. PICK here \in {"labels", "labels2"}, relabel \in {"relabel", "relabel2"},
             next \in {"learner", "idle"} : Labels(l, here, relabel, next)
    OBVIOUS
  <1>2. /\ relabel \in Label \cap Holding /\ relabel \notin Scaling \cup Removing
        /\ next \in Label /\ next \notin Holding \cup Scaling \cup Removing
    BY DEF Label, Holding, Scaling, Removing
  <1>3. faults' \in 0 .. MaxFaults /\ pc[l] # "idle" /\ UNCHANGED <<userVars, tapps, etcdVars>>
    BY <1>1, ScalingAssumption DEF Labels, Ask, Fault, NoFault, TypeOK
  <1>4. CASE TakeCached(l, relabel) /\ CachedTApp.replicas > 0
    BY <1>2, <1>3, <1>4, Took
  <1>5. CASE \E to \in {next, "idle"} : Goto(l, to) /\ KeepCopy(l)
    BY <1>2, <1>3, <1>5, Changed DEF TypeOK, etcdVars
  <1> QED BY <1>1, <1>4, <1>5 DEF Labels, Ask, Return

-----------------------------------------------------------------------------
(***************************************************************************)
(* The steps of everything else.                                           *)
(***************************************************************************)

\* A step outside the loops that leaves the TApp alone.
LEMMA Outside ==
    ASSUME IInv, UNCHANGED <<userVars, tapps, loopVars>>, faults' \in 0 .. MaxFaults,
           voters' \subseteq Index, learners' \subseteq Index, running' \subseteq Index,
           disk' \in [Index -> {"none", "own", "old"}]
    PROVE  IInv'
  <1>1. TypeOK'
    BY DEF IInv, TypeOK, userVars, loopVars
  <1>2. LoopsOK'
    BY DEF IInv, LoopsOK, LoopOK, TApp, Settled, userVars, loopVars
  <1> QED BY <1>1, <1>2 DEF IInv

LEMMA PodsOK ==
    ASSUME IInv, NEW i \in Index, PodStart(i) \/ PodDelete(i) \/ PodCrash(i)
    PROVE  IInv'
  <1>1. UNCHANGED <<userVars, tapps, loopVars>> /\ faults' \in 0 .. MaxFaults
    BY ScalingAssumption DEF PodStart, PodDelete, PodCrash, Fault, IInv, TypeOK
  <1>2. /\ voters' \subseteq Index /\ learners' \subseteq Index /\ running' \subseteq Index
        /\ disk' \in [Index -> {"none", "own", "old"}]
    BY DEF PodStart, PodDelete, PodCrash, IInv, TypeOK
  <1> QED BY <1>1, <1>2, Outside

LEMMA ReportOK == ASSUME IInv, ReportStatus PROVE IInv'
  <1> DEFINE up == {i \in running : i < TApp.replicas}
             t == [replicas |-> TApp.replicas, pool |-> TApp.pool,
                   pods |-> TApp.replicas, ready |-> Cardinality(up)]
  <1> USE DEF IInv
  <1>1. Cardinality(up) \in 0 .. MaxSize
    <2>1. up \subseteq 0 .. MaxSize - 1
      BY DEF TypeOK, Index
    <2>2. IsFiniteSet(0 .. MaxSize - 1) /\ Cardinality(0 .. MaxSize - 1) = MaxSize
      BY FS_Interval, ScalingAssumption
    <2>3. IsFiniteSet(up) /\ Cardinality(up) <= MaxSize
      BY <2>1, <2>2, FS_Subset
    <2> QED BY <2>3, FS_CardinalityType, ScalingAssumption
  <1>2. t \in TAppVersion
    BY <1>1, Current, TAppFields, TAppMade
  <1>3. PutTApp(t) /\ UNCHANGED <<userVars, etcdVars, pc, e, app, faults>>
    BY DEF ReportStatus
  <1>4. TypeOK'
    BY <1>2, <1>3, Put DEF TypeOK, userVars, etcdVars
  <1>5. LoopsOK'
    BY <1>3, Kept DEF PutTApp, LoopsOK
  <1> QED BY <1>4, <1>5

LEMMA SyncedOK == ASSUME IInv, EtcdSynced \/ TAppSynced PROVE IInv'
  <1> USE DEF IInv
  <1>1. CASE EtcdSynced
    <2>1. TypeOK'
      BY <1>1 DEF EtcdSynced, TypeOK, etcdVars, loopVars
    <2>2. seen' = seen + 1 /\ versions' = versions /\ seen \in Nat
      BY <1>1 DEF EtcdSynced, TypeOK
    <2>3. LoopsOK'
      BY <1>1, <2>2 DEF EtcdSynced, LoopsOK, LoopOK, TApp, Settled, loopVars
    <2> QED BY <2>1, <2>3
  <1>2. CASE TAppSynced
    <2>1. tapps' \in Seq(TAppVersion) /\ Len(tapps') = Len(tapps) - 1 /\ TApp' = TApp
      BY <1>2 DEF TAppSynced, TypeOK, TApp
    <2>2. TypeOK'
      BY <1>2, <2>1, ScalingAssumption DEF TAppSynced, TypeOK, userVars, etcdVars, loopVars
    <2>3. LoopsOK'
      BY <1>2, <2>1 DEF TAppSynced, LoopsOK, LoopOK, Settled, userVars, loopVars
    <2> QED BY <2>2, <2>3
  <1> QED BY <1>1, <1>2

LEMMA RestartOK == ASSUME IInv, Restart PROVE IInv'
  <1> USE DEF IInv
  <1>1. TApp \in TAppVersion /\ versions[1] \in Specs
    BY Current
  <1>2. TypeOK'
    BY <1>1, NoTAppOK, ScalingAssumption DEF Restart, Fault, TypeOK, etcdVars, Label
  <1>3. LoopsOK'
    BY DEF Restart, LoopsOK, LoopOK, Holding, Scaling, Removing
  <1> QED BY <1>2, <1>3

LEMMA EditOK == ASSUME IInv, NEW s \in Specs, Edit(s) PROVE IInv'
  <1> USE DEF IInv
  <1>1. /\ versions' \in Seq(Specs) /\ Len(versions') = Len(versions) + 1
        /\ \A k \in 1 .. Len(versions) : versions'[k] = versions[k]
    BY DEF Edit, TypeOK
  <1>2. TypeOK'
    BY <1>1 DEF Edit, TypeOK, etcdVars, loopVars
  <1>3. LoopsOK'
    BY <1>1 DEF Edit, LoopsOK, LoopOK, TypeOK, TApp, Settled, loopVars
  <1> QED BY <1>2, <1>3

LEMMA InitOK == Init => IInv
  <1> SUFFICES ASSUME Init PROVE IInv
    OBVIOUS
  <1>1. PICK s \in Specs : versions = <<s>>
    BY ScalingAssumption DEF Init
  <1>2. TypeOK
    BY <1>1, NoTAppOK, ScalingAssumption DEF Init, TypeOK, Label
  <1>3. LoopsOK
    BY DEF Init, LoopsOK, LoopOK, Holding, Scaling, Removing
  <1> QED BY <1>2, <1>3 DEF IInv

LEMMA NextOK == IInv /\ [Next]_vars => IInv'
  <1> SUFFICES ASSUME IInv, [Next]_vars PROVE IInv'
    OBVIOUS
  <1>1. ASSUME NEW l \in Loop, Step(l) PROVE IInv'
    BY <1>1, BeginOK, CreateOK, ReadOK, AddListOK, AddOK, GrowStepOK, RemoveListOK, RemoveOK,
       ShrinkStepOK, DeletePVCOK, TemplateOK, LabelsOK, RelabelStepOK, PromoteOK DEF Step
  <1>2. CASE UNCHANGED vars
    BY <1>2, Outside DEF vars, userVars, loopVars, IInv, TypeOK
  <1> QED BY <1>1, <1>2, SyncedOK, ReportOK, RestartOK, PodsOK, EditOK DEF Next

\* The inductive invariant holds of every behaviour.
THEOREM Invariance == Spec => []IInv
  BY InitOK, NextOK, PTL DEF Spec

-----------------------------------------------------------------------------
\* Every variable keeps its type: no loop, however stale its copy, computes or
\* stores a TApp with a replica that has no entry in the template pool.
THEOREM TypeCorrect == Spec => []TypeOK
  BY Invariance, PTL DEF IInv

-----------------------------------------------------------------------------
(***************************************************************************)
(* The TApp grows only when the current version is settled: the copy that  *)
(* was judged settled is the current version if the update is accepted.    *)
(***************************************************************************)
LEMMA WriteKeepsReplicas ==
    ASSUME IInv, NEW l \in Loop, NEW t \in TAppVersion, NEW label,
           UpdateTApp(l, t, label), t.replicas <= app[l].replicas
    PROVE  ~(TApp.replicas < TApp'.replicas)
  <1>1. CASE l \in fresh /\ PutTApp(t)
    <2>1. TApp' = t /\ TApp = app[l]
      BY <1>1, Put DEF IInv, LoopsOK, LoopOK
    <2> QED BY <2>1, Current, TAppFields DEF IInv
  <1>2. CASE tapps' = tapps
    BY <1>2, Current, TAppFields DEF IInv, TApp
  <1> QED BY <1>1, <1>2 DEF UpdateTApp, Call

LEMMA GrowStep ==
    ASSUME IInv, [Next]_vars, 0 < TApp.replicas, TApp.replicas < TApp'.replicas
    PROVE  \E l \in Loop : Grow(l) /\ l \in fresh
  <1> USE DEF IInv
  <1>1. TApp.replicas \in Nat
    BY Current, TAppFields, ScalingAssumption
  <1>2. tapps' # tapps
    BY <1>1 DEF TApp
  <1>3. ASSUME NEW l \in Loop, Step(l) PROVE Grow(l) /\ l \in fresh
    <2>1. app[l] \in TAppVersion /\ e[l] \in Specs /\ app[l].replicas \in Nat
      BY TAppFields, ScalingAssumption DEF TypeOK
    <2>2. ~CreateTApp(l)
      BY <1>2 DEF CreateTApp, Call
    <2>3. ~Shrink(l)
      <3>1. Shrink(l) => 0 < app[l].replicas
        BY DEF Shrink, LoopsOK, LoopOK, Holding
      <3>2. Shrink(l) => /\ ShrinkTApp(app[l]) \in TAppVersion
                         /\ ShrinkTApp(app[l]).replicas <= app[l].replicas
        BY <2>1, <3>1, ShrinkOK
      <3> QED BY <3>2, WriteKeepsReplicas DEF Shrink
    <2>4. ~UpdateTemplate(l)
      <3>1. /\ Retemplate(e[l], app[l]) \in TAppVersion
            /\ Retemplate(e[l], app[l]).replicas <= app[l].replicas
        BY <2>1, RetemplateOK
      <3> QED BY <1>2, <3>1, WriteKeepsReplicas DEF UpdateTemplate
    <2>5. ~RelabelTApp(l, "relabel", "learner") /\ ~RelabelTApp(l, "relabel2", "idle")
      <3>1. Relabel(app[l]) \in TAppVersion /\ Relabel(app[l]).replicas <= app[l].replicas
        BY <2>1, RelabelOK
      <3> QED BY <3>1, WriteKeepsReplicas DEF RelabelTApp
    <2>6. Grow(l)
      BY <1>2, <1>3, <2>2, <2>3, <2>4, <2>5
         DEF Step, Begin, ReadTApp, AddList, MemberAdd, RemoveList, MemberRemove,
             DeletePVC, Labels, Promote
    <2>7. l \in fresh
      BY <1>2, <2>6 DEF Grow, UpdateTApp, Call
    <2> QED BY <2>6, <2>7
  <1>4. ~ReportStatus /\ ~Restart /\ ~TAppSynced
    <2>1. ~ReportStatus
      BY <1>1 DEF ReportStatus, PutTApp, TApp, TypeOK
    <2>2. ~Restart
      <3>1. Restart => TApp' = TApp
        BY DEF Restart, TApp
      <3> QED BY <1>1, <3>1
    <2>3. ~TAppSynced
      <3>1. TAppSynced => TApp' = TApp
        BY DEF TAppSynced, TApp, TypeOK
      <3> QED BY <1>1, <3>1
    <2> QED BY <2>1, <2>2, <2>3
  <1>5. /\ ~EtcdSynced /\ ~UNCHANGED vars
        /\ \A i \in Index : ~PodStart(i) /\ ~PodDelete(i) /\ ~PodCrash(i)
        /\ \A s \in Specs : ~Edit(s)
    BY <1>2 DEF EtcdSynced, PodStart, PodDelete, PodCrash, Edit, vars
  <1> QED BY <1>3, <1>4, <1>5 DEF Next

\* "wait existing pod running" guards every scale up, for any number of loops and
\* any staleness of their caches.
THEOREM GrowthIsGuarded == Spec => GrowOnlyWhenSettled
  <1>1. IInv /\ [Next]_vars
           => [0 < TApp.replicas /\ TApp.replicas < TApp'.replicas => Settled(TApp)]_vars
    BY GrowStep DEF IInv, LoopsOK, LoopOK, Grow, Scaling
  <1> QED BY <1>1, Invariance, PTL DEF Spec, GrowOnlyWhenSettled

-----------------------------------------------------------------------------
(***************************************************************************)
(* Membership follows what was asked.                                      *)
(***************************************************************************)
MembershipStep ==
    /\ \A i \in Members \ Members' : \E k \in 1 .. seen : versions[k].size <= i
    /\ \A i \in Members' \ Members : i = 0 \/ \E k \in 1 .. seen : versions[k].size > i

LEMMA AddStep == ASSUME IInv, NEW l \in Loop, MemberAdd(l) PROVE MembershipStep
  <1>1. pc[l] \in Scaling /\ pc[l] # "idle"
    BY DEF MemberAdd, Scaling
  <1>2. PICK k \in 1 .. seen : e[l] = versions[k]
    BY <1>1 DEF IInv, LoopsOK, LoopOK
  <1>3. app[l] \in TAppVersion /\ e[l] \in Specs /\ app[l].replicas < e[l].size
    BY <1>1 DEF IInv, TypeOK, LoopsOK, LoopOK
  <1>4. app[l].replicas \in Nat /\ e[l].size \in Nat
    BY <1>3, TAppFields, SpecFields, ScalingAssumption
  <1>5. Members \subseteq Members' /\ Members' \subseteq Members \cup {app[l].replicas}
    BY DEF MemberAdd, Change, Call, Members, MayAdd
  <1> QED BY <1>2, <1>3, <1>4, <1>5 DEF MembershipStep

LEMMA RemoveStep == ASSUME IInv, NEW l \in Loop, MemberRemove(l) PROVE MembershipStep
  <1>1. pc[l] \in Removing /\ pc[l] # "idle"
    BY DEF MemberRemove, Removing
  <1>2. PICK k \in 1 .. seen : e[l] = versions[k]
    BY <1>1 DEF IInv, LoopsOK, LoopOK
  <1>3. app[l] \in TAppVersion /\ e[l] \in Specs /\ e[l].size < app[l].replicas
    BY <1>1 DEF IInv, TypeOK, LoopsOK, LoopOK
  <1>4. app[l].replicas \in Nat /\ e[l].size \in Nat
    BY <1>3, TAppFields, SpecFields, ScalingAssumption
  <1>5. Members' \subseteq Members /\ Members \subseteq Members' \cup {app[l].replicas - 1}
    BY DEF MemberRemove, Change, Call, Members, LastInstance, etcdVars
  <1> QED BY <1>2, <1>3, <1>4, <1>5 DEF MembershipStep

\* Whatever is lost, stale or repeated, a member comes or goes only by a version of
\* the spec that the informer had delivered.
THEOREM MembershipFollowsSpec == Spec => MembershipWasAsked
  <1>1. ASSUME IInv, [Next]_vars PROVE MembershipStep
    <2>1. CASE Members' = Members
      BY <2>1 DEF MembershipStep
    <2>2. ASSUME NEW l \in Loop, Step(l) PROVE MembershipStep
      <3>1. Promote(l) => Members' = Members
        BY DEF Promote, Change, Call, Members
      <3>2. \/ Members' = Members \/ MemberAdd(l) \/ MemberRemove(l)
        BY <2>2, <3>1
           DEF Step, Members, etcdVars, Begin, CreateTApp, ReadTApp, AddList, Grow, RemoveList,
               Shrink, DeletePVC, UpdateTemplate, Labels, RelabelTApp
      <3> QED BY <1>1, <2>1, <3>2, AddStep, RemoveStep
    <2>3. ASSUME NEW i \in Index, PodStart(i) PROVE MembershipStep
      <3>1. Members \subseteq Members' /\ Members' \subseteq Members \cup {0}
        BY <2>3 DEF PodStart, Members
      <3> QED BY <3>1 DEF MembershipStep
    <2>4. CASE \/ EtcdSynced \/ TAppSynced \/ ReportStatus \/ Restart \/ UNCHANGED vars
               \/ \E i \in Index : PodDelete(i) \/ PodCrash(i)
               \/ \E s \in Specs : Edit(s)
      BY <2>1, <2>4 DEF Members, EtcdSynced, TAppSynced, ReportStatus, Restart, vars, etcdVars,
                        PodDelete, PodCrash, Edit
    <2> QED BY <1>1, <2>2, <2>3, <2>4 DEF Next
  <1>2. IInv /\ [Next]_vars => [MembershipStep]_vars
    BY <1>1
  <1>3. [][MembershipStep]_vars => MembershipWasAsked
    BY PTL DEF MembershipWasAsked, MembershipStep
  <1> QED BY <1>2, <1>3, Invariance, PTL DEF Spec

-----------------------------------------------------------------------------
(***************************************************************************)
(* One loop removes the member before the pod.                             *)
(***************************************************************************)
OnlyOne == \A k, l \in Loop : k = l

\* Nobody but the loop itself could add the member it has just removed.
Gone == \A l \in Loop : pc[l] = "shrink" => LastInstance(l) \notin Members

LEMMA ShrinkStep ==
    ASSUME IInv, [Next]_vars, TApp'.replicas < TApp.replicas
    PROVE  \E l \in Loop : Shrink(l) /\ l \in fresh /\ TApp'.replicas = LastInstance(l)
  <1> USE DEF IInv
  <1>1. TApp \in TAppVersion /\ TApp.replicas \in Nat
    BY Current, TAppFields, ScalingAssumption
  <1>2. ~(TApp' = TApp) /\ tapps' # tapps
    BY <1>1 DEF TApp
  <1>3. ASSUME NEW l \in Loop, Step(l)
        PROVE  Shrink(l) /\ l \in fresh /\ TApp'.replicas = LastInstance(l)
    <2>1. app[l] \in TAppVersion /\ e[l] \in Specs
      BY DEF TypeOK
    <2>2. app[l].replicas \in Nat
      BY <2>1, TAppFields, ScalingAssumption
    <2>3. \A t \in TAppVersion, label \in Label :
             UpdateTApp(l, t, label) => l \in fresh /\ TApp = app[l] /\ TApp' = t
      BY <1>2, Put DEF UpdateTApp, Call, LoopsOK, LoopOK
    <2>4. ~CreateTApp(l)
      <3>1. CreateTApp(l) => TApp.replicas = 0 /\ PutTApp(SeedTApp(e[l]))
        BY <1>2 DEF CreateTApp, Call
      <3>2. SeedTApp(e[l]) \in TAppVersion
        BY <2>1, SeedOK
      <3> QED BY <1>1, <3>1, <3>2, Put, TAppFields
    <2>5. ~Grow(l)
      <3>1. Grow(l) => 0 < app[l].replicas /\ app[l].replicas < e[l].size
        BY DEF Grow, LoopsOK, LoopOK, Holding, Scaling
      <3> QED BY <1>1, <2>1, <2>2, <2>3, <3>1, GrowOK DEF Grow, Label, Holding
    <2>6. ~UpdateTemplate(l)
      BY <1>1, <1>2, <2>1, <2>3, RetemplateOK DEF UpdateTemplate, Label
    <2>7. ~RelabelTApp(l, "relabel", "learner") /\ ~RelabelTApp(l, "relabel2", "idle")
      BY <1>1, <2>1, <2>3, RelabelOK DEF RelabelTApp, Label
    <2>8. Shrink(l)
      BY <1>2, <1>3, <2>4, <2>5, <2>6, <2>7
         DEF Step, Begin, ReadTApp, AddList, MemberAdd, RemoveList, MemberRemove,
             DeletePVC, Labels, Promote
    <2>9. 0 < app[l].replicas
      BY <2>8 DEF Shrink, LoopsOK, LoopOK, Holding
    <2> QED BY <2>1, <2>3, <2>8, <2>9, ShrinkOK DEF Shrink, Label, Holding, LastInstance
  <1>4. ~Restart /\ ~TAppSynced
    <2>1. Restart => TApp' = TApp
      BY DEF Restart, TApp
    <2>2. TAppSynced => TApp' = TApp
      BY DEF TAppSynced, TApp, TypeOK
    <2> QED BY <1>2, <2>1, <2>2
  <1>5. ~ReportStatus
    <2>1. ReportStatus => TApp'.replicas = TApp.replicas
      BY DEF ReportStatus, PutTApp, TApp, TypeOK
    <2> QED BY <1>1, <2>1
  <1>6. /\ ~EtcdSynced /\ ~UNCHANGED vars
        /\ \A i \in Index : ~PodStart(i) /\ ~PodDelete(i) /\ ~PodCrash(i)
        /\ \A s \in Specs : ~Edit(s)
    BY <1>2 DEF EtcdSynced, PodStart, PodDelete, PodCrash, Edit, vars
  <1> QED BY <1>3, <1>4, <1>5, <1>6 DEF Next

LEMMA GoneOK == ASSUME OnlyOne, IInv, Gone, [Next]_vars PROVE Gone'
  <1> SUFFICES ASSUME NEW l \in Loop, pc'[l] = "shrink" PROVE LastInstance(l)' \notin Members'
    BY DEF Gone
  <1> USE DEF IInv
  <1>1. CASE UNCHANGED <<pc, app, Members>>
    BY <1>1 DEF Gone, LastInstance
  <1>2. CASE Step(l)
    <2>1. CASE RemoveList(l)
      BY <2>1, Going DEF RemoveList, Ask, Return, Members, etcdVars, LastInstance, Label, Holding
    <2>2. CASE MemberRemove(l)
      BY <2>2, Going DEF MemberRemove, Change, Call, Return, Members, LastInstance, Label, Holding
    <2> QED
      BY <1>2, <2>1, <2>2
         DEF Step, Begin, CreateTApp, ReadTApp, AddList, MemberAdd, Grow, Shrink, DeletePVC,
             UpdateTemplate, Labels, RelabelTApp, Promote, Ask, Change, Call, UpdateTApp,
             Goto, Return, TakeCached, TypeOK
  <1>3. ASSUME NEW i \in Index, PodStart(i) PROVE LastInstance(l)' \notin Members'
    <2>1. UNCHANGED <<pc, app>> /\ Members' \subseteq Members \cup {0}
      BY <1>3 DEF PodStart, loopVars, Members
    <2>2. app[l] \in TAppVersion /\ e[l] \in Specs /\ e[l].size < app[l].replicas
      BY <2>1 DEF TypeOK, LoopsOK, LoopOK, Removing
    <2>3. LastInstance(l) # 0
      BY <2>2, TAppFields, SpecFields, ScalingAssumption DEF LastInstance
    <2> QED BY <2>1, <2>3 DEF Gone, LastInstance
  <1>4. CASE Restart
    BY <1>4 DEF Restart
  <1>5. CASE \/ EtcdSynced \/ TAppSynced \/ ReportStatus \/ UNCHANGED vars
             \/ \E i \in Index : PodDelete(i) \/ PodCrash(i)
             \/ \E s \in Specs : Edit(s)
    BY <1>1, <1>5 DEF Members, EtcdSynced, TAppSynced, ReportStatus, vars, etcdVars, loopVars,
                      PodDelete, PodCrash, Edit
  <1> QED BY <1>2, <1>3, <1>4, <1>5 DEF Next, OnlyOne

\* "ensure member remove" comes before the update of the TApp: with one loop no pod
\* is taken away from a member, however stale its caches and whatever is lost.
THEOREM MemberLeavesFirst == ASSUME OnlyOne PROVE Spec => LeavesBeforePodGoes
  <1>1. Init => Gone
    BY DEF Init, Gone
  <1>2. IInv /\ Gone /\ [Next]_vars => Gone'
    BY GoneOK
  <1>3. IInv /\ Gone /\ [Next]_vars
           => [TApp'.replicas < TApp.replicas => TApp'.replicas \notin Members]_vars
    BY ShrinkStep DEF Gone, Shrink
  <1> QED BY <1>1, <1>2, <1>3, Invariance, PTL DEF Spec, LeavesBeforePodGoes

-----------------------------------------------------------------------------
(***************************************************************************)
(* One loop and a patient user.                                            *)
(*                                                                         *)
(* If only one loop syncs the cluster and the user waits for it to         *)
(* converge before the next edit, the members are those of the first       *)
(* indexes, as ElasticCluster promises: for every size, every number of    *)
(* edits, every lag of the informers and any number of faults.             *)
(***************************************************************************)
Size == TApp.replicas
AreMembers(n) == Members = 0 .. n - 1

-----------------------------------------------------------------------------
(***************************************************************************)
(* The inductive invariant.                                                *)
(***************************************************************************)
\* The members follow the pods, which follow the spec.
InOrder ==
    \/ AreMembers(Size)
    \/ AreMembers(Size + 1) /\ 0 < Size /\ Size < Wanted.size
    \/ AreMembers(Size - 1) /\ Wanted.size < Size
    \/ AreMembers(0) /\ Size = 1

\* The versions of the TApp that are still to be delivered are of the current size,
\* and the one in the cache is at most one scaling behind, which is over in etcd.
CacheInOrder ==
    /\ Size = 0 => tapps = <<NoTApp>>
    /\ fresh # {} => Len(tapps) = 1
    /\ \A k \in 2 .. Len(tapps) : tapps[k].replicas = Size
    /\ \/ CachedTApp.replicas = Size
       \/ /\ CachedTApp.replicas = Size - 1 /\ Size <= Wanted.size
          /\ (AreMembers(Size) \/ Size = 1)
       \/ CachedTApp.replicas = Size + 1 /\ AreMembers(Size) /\ Wanted.size <= Size

\* Nothing has been done yet about an edit made when the spec was s: the pods, the
\* members ms and every version in ts of the TApp are of its size.
BeforeEdit(s, n, ms, ts) ==
    /\ s.size = n /\ ms = 0 .. n - 1
    /\ \A k \in 1 .. Len(ts) : ts[k].replicas = n

\* The informer is at most one version of the spec behind, and so is a loop.
SpecInOrder ==
    \/ seen = Len(versions)
    \/ seen = Len(versions) - 1 /\ CachedSpec # Wanted /\ BeforeEdit(CachedSpec, Size, Members, tapps)

UpToDate(l) == e[l] = Wanted /\ seen = Len(versions)

LoopInOrder(l) ==
    LET a == app[l].replicas
    IN  /\ \/ pc[l] = "idle"
           \/ UpToDate(l)
           \/ BeforeEdit(e[l], Size, Members, tapps) /\ (pc[l] \in Holding => a = Size)
        /\ pc[l] = "addList" =>
            \/ a = Size /\ (AreMembers(Size) \/ AreMembers(Size + 1))
            \/ a = Size - 1 /\ AreMembers(Size)
        /\ pc[l] = "add" => a = Size /\ AreMembers(Size)
        /\ pc[l] = "grow" =>
            \/ a = Size /\ AreMembers(Size + 1)
            \/ a = Size - 1 /\ AreMembers(Size)
        /\ pc[l] = "removeList" =>
            \/ a = Size /\ (AreMembers(Size) \/ AreMembers(Size - 1))
            \/ a = Size + 1 /\ AreMembers(Size)
        /\ pc[l] = "remove" => a = Size /\ AreMembers(Size)
        /\ pc[l] = "shrink" =>
            \/ a = Size /\ AreMembers(Size - 1)
            \/ a = Size + 1 /\ AreMembers(Size)
        /\ pc[l] = "pvc" => a = Size + 1 /\ AreMembers(Size) /\ e[l].size < a
        /\ pc[l] \in Scaling \cup Removing /\ a = Size => CachedTApp.replicas = Size
        /\ pc[l] \in {"relabel", "relabel2"} => learners = {}

\* A process that runs is a member's, with its own data; only the last may be to start.
Joined ==
    /\ \A i \in Index : disk[i] = "own" => i \in Members
    /\ \A i \in running : disk[i] = "own"
    /\ \A i \in Members : disk[i] = "own" \/ AreMembers(i + 1)
    /\ Wanted.size < Size => \A i \in Members : disk[i] = "own"

\* The members that a report t of the pods calls ready are among ms and have their
\* volume in d.
TrueReport(t, ms, d) ==
    /\ t.ready > 0 => 0 \in ms
    /\ Settled(t) => \A i \in ms : i < t.replicas => d[i] = "own"

ReportsTrue ==
    /\ \A k \in 1 .. Len(tapps) : TrueReport(tapps[k], Members, disk)
    /\ \A l \in Loop : pc[l] \in Scaling => TrueReport(app[l], Members, disk)

\* The pod of a learner has no label, or is still to come and will have none.
LabelsTrue ==
    \A i \in learners : IF i < Size THEN ~TApp.pool[i].voting ELSE Wanted.learner = i

OInv ==
    /\ IInv /\ InOrder /\ CacheInOrder /\ SpecInOrder /\ \A l \in Loop : LoopInOrder(l)
    /\ Joined /\ ReportsTrue /\ LabelsTrue

-----------------------------------------------------------------------------
(***************************************************************************)
(* Facts that every step needs.                                            *)
(***************************************************************************)
LEMMA Typed ==
    ASSUME IInv
    PROVE  /\ Size \in Nat /\ Size \in 0 .. MaxSize /\ MaxSize \in Nat \ {0}
           /\ Wanted \in Specs /\ Wanted.size \in Nat \ {0} /\ Wanted.size \in 1 .. MaxSize
           /\ \A l \in Loop : /\ e[l] \in Specs /\ e[l].size \in Nat \ {0}
                             /\ app[l] \in TAppVersion /\ app[l].replicas \in Nat
           /\ Len(tapps) \in Nat \ {0} /\ Len(versions) \in Nat \ {0} /\ seen \in 1 .. Len(versions)
           /\ \A k \in 1 .. Len(tapps) :
                /\ tapps[k] \in TAppVersion /\ tapps[k].replicas \in Nat
                /\ tapps[k].pods \in Nat /\ tapps[k].ready \in Nat
           /\ CachedTApp = tapps[1] /\ TApp = tapps[Len(tapps)]
           /\ TApp \in TAppVersion /\ CachedTApp \in TAppVersion
           /\ CachedTApp.replicas \in Nat
  <1> USE DEF IInv
  <1>1. /\ Len(tapps) \in Nat \ {0} /\ Len(versions) \in Nat \ {0} /\ seen \in 1 .. Len(versions)
        /\ MaxSize \in Nat \ {0}
    BY ScalingAssumption DEF TypeOK
  <1>2. \A k \in 1 .. Len(tapps) : tapps[k] \in TAppVersion
    BY <1>1 DEF TypeOK
  <1>3. \A t \in TAppVersion : /\ t.replicas \in 0 .. MaxSize /\ t.replicas \in Nat
                             /\ t.pods \in Nat /\ t.ready \in Nat
    BY <1>1, TAppFields
  <1>4. Wanted \in Specs
    BY <1>1 DEF TypeOK, Wanted
  <1>5. \A s \in Specs : s.size \in 1 .. MaxSize /\ s.size \in Nat \ {0}
    BY <1>1, SpecFields
  <1>6. \A l \in Loop : e[l] \in Specs /\ app[l] \in TAppVersion
    BY DEF TypeOK
  <1>7. CachedTApp = tapps[1] /\ TApp = tapps[Len(tapps)]
    BY DEF CachedTApp, TApp
  <1>8. CachedTApp \in TAppVersion /\ TApp \in TAppVersion
    BY Current
  <1> QED BY <1>1, <1>2, <1>3, <1>4, <1>5, <1>6, <1>7, <1>8 DEF Size

LEMMA Intervals ==
    ASSUME NEW n \in Nat, NEW m \in Nat
    PROVE  /\ (0 .. n - 1 = 0 .. m - 1 <=> n = m)
           /\ IsFiniteSet(0 .. n - 1) /\ Cardinality(0 .. n - 1) = n
  <1>1. 0 .. n - 1 = 0 .. m - 1 => n = m
    <2>1. n < m => n \in 0 .. m - 1 /\ n \notin 0 .. n - 1
      OBVIOUS
    <2>2. m < n => m \in 0 .. n - 1 /\ m \notin 0 .. m - 1
      OBVIOUS
    <2> QED BY <2>1, <2>2
  <1>2. IsFiniteSet(0 .. n - 1) /\ Cardinality(0 .. n - 1) = n
    BY FS_Interval
  <1> QED BY <1>1, <1>2

LEMMA Counted ==
    ASSUME NEW n \in Nat, AreMembers(n)
    PROVE  Cardinality(Members) = n
  BY Intervals DEF AreMembers

\* Only a loop that knows the current spec scales.
LEMMA Scaler ==
    ASSUME OInv, NEW l \in Loop, pc[l] \in Scaling \cup Removing \cup {"pvc"}
    PROVE  /\ UpToDate(l) /\ e[l].size = Wanted.size
           /\ pc[l] \in Scaling => app[l].replicas < Wanted.size /\ Settled(app[l])
           /\ pc[l] \notin Scaling => Wanted.size < app[l].replicas
           /\ 0 < app[l].replicas
  <1>1. /\ pc[l] # "idle" /\ pc[l] \in Holding
        /\ pc[l] \in Scaling => app[l].replicas < e[l].size /\ Settled(app[l])
        /\ pc[l] \in Removing => e[l].size < app[l].replicas
        /\ app[l].replicas > 0
    BY DEF Scaling, Removing, Holding, OInv, IInv, LoopsOK, LoopOK
  <1>2. pc[l] \notin Scaling => e[l].size < app[l].replicas
    BY <1>1 DEF OInv, LoopInOrder
  <1>3. ~(BeforeEdit(e[l], Size, Members, tapps) /\ app[l].replicas = Size)
    BY <1>1, <1>2, Typed DEF BeforeEdit, OInv
  <1>4. UpToDate(l)
    BY <1>1, <1>3 DEF OInv, LoopInOrder
  <1> QED BY <1>1, <1>2, <1>4, Typed DEF UpToDate, OInv

LEMMA SameWorld ==
    ASSUME UNCHANGED <<userVars, tapps, etcdVars>>
    PROVE  /\ UNCHANGED <<versions, seen, tapps, voters, learners, running, disk>>
           /\ TApp' = TApp /\ CachedTApp' = CachedTApp /\ Size' = Size /\ Members' = Members
           /\ Wanted' = Wanted /\ CachedSpec' = CachedSpec
  BY DEF userVars, etcdVars, TApp, CachedTApp, Size, Members, Wanted, CachedSpec

\* A step of the loop that changes nothing outside it.
LEMMA LoopOnly ==
    ASSUME OnlyOne, OInv, IInv', NEW l \in Loop, UNCHANGED <<userVars, tapps, etcdVars>>,
           fresh' # {} => Len(tapps) = 1, LoopInOrder(l)',
           pc'[l] \in Scaling => TrueReport(app'[l], Members, disk)
    PROVE  OInv'
  <1>1. /\ UNCHANGED <<versions, seen, tapps, voters, learners, running, disk>>
        /\ TApp' = TApp /\ CachedTApp' = CachedTApp /\ Size' = Size /\ Members' = Members
        /\ Wanted' = Wanted /\ CachedSpec' = CachedSpec
    BY SameWorld
  <1>2. InOrder' /\ CacheInOrder'
    BY <1>1 DEF OInv, InOrder, CacheInOrder, AreMembers
  <1>3. SpecInOrder'
    BY <1>1, SameWorld DEF OInv, SpecInOrder
  <1>4. \A k \in Loop : LoopInOrder(k)'
    BY DEF OnlyOne
  <1>5. Joined' /\ LabelsTrue'
    BY <1>1 DEF OInv, Joined, LabelsTrue, AreMembers
  <1>6. ReportsTrue'
    BY <1>1 DEF OInv, ReportsTrue, OnlyOne
  <1> QED BY <1>2, <1>3, <1>4, <1>5, <1>6 DEF OInv

-----------------------------------------------------------------------------
(***************************************************************************)
(* Steps of the loop that only read.                                       *)
(***************************************************************************)
\* The loop is at a label, or has returned.
Came(l, label) ==
    /\ pc'[l] \in {label, "idle"}
    /\ pc'[l] # "idle" => e'[l] = e[l] /\ (label \in Holding => app'[l] = app[l])

LEMMA Comes ==
    ASSUME IInv, NEW l \in Loop, NEW label \in Label, Goto(l, label) \/ Return(l)
    PROVE  Came(l, label)
  <1>1. CASE Goto(l, label)
    BY <1>1, Going DEF IInv, Came
  <1>2. CASE Return(l)
    <2>1. "idle" \in Label
      BY DEF Label
    <2> QED BY <1>2, <2>1, Going DEF IInv, Came, Return
  <1> QED BY <1>1, <1>2

\* Where no copy of the TApp matters, and where only its size does.
LEMMA Elsewhere ==
    ASSUME OnlyOne, OInv, IInv', NEW l \in Loop, UNCHANGED <<userVars, tapps, etcdVars>>,
           fresh' # {} => Len(tapps) = 1, pc[l] # "idle",
           NEW label \in {"labels", "labels2", "learner", "template"}, Came(l, label),
           label = "template" => pc[l] = "pvc"
    PROVE  OInv'
  <1>1. /\ UNCHANGED <<versions, seen, tapps, voters, learners, running, disk>>
        /\ CachedTApp' = CachedTApp /\ Size' = Size /\ Members' = Members /\ Wanted' = Wanted
    BY SameWorld
  <1>2. /\ pc'[l] \notin Scaling \cup Removing \cup {"pvc", "relabel", "relabel2"}
        /\ pc'[l] \notin {"addList", "add", "grow", "removeList", "remove", "shrink"}
        /\ pc'[l] \in Holding => pc'[l] = "template" /\ label = "template"
    BY DEF Came, Scaling, Removing, Holding
  <1>3. pc'[l] # "idle" => e'[l] = e[l]
    BY DEF Came
  <1>4. pc'[l] = "template" => UpToDate(l)
    <2>1. pc'[l] = "template" => pc[l] = "pvc"
      BY <1>2 DEF Holding
    <2> QED BY <2>1, Scaler
  <1>5. pc'[l] # "idle" => UpToDate(l)' \/ BeforeEdit(e'[l], Size', Members', tapps')
    BY <1>1, <1>3 DEF OInv, LoopInOrder, UpToDate
  <1>6. LoopInOrder(l)'
    BY <1>1, <1>2, <1>3, <1>4, <1>5 DEF LoopInOrder, UpToDate
  <1> QED BY <1>2, <1>6, LoopOnly

LEMMA ReturnHolds ==
    ASSUME OnlyOne, OInv, IInv', NEW l \in Loop, UNCHANGED <<userVars, tapps, etcdVars>>,
           fresh' # {} => Len(tapps) = 1, pc'[l] = "idle"
    PROVE  OInv'
  <1>1. LoopInOrder(l)' /\ pc'[l] \notin Scaling
    BY DEF LoopInOrder, Scaling, Removing
  <1> QED BY <1>1, LoopOnly

LEMMA FreshAlone ==
    ASSUME OInv, NEW l \in Loop
    PROVE  /\ fresh # {} => Len(tapps) = 1
           /\ l \in fresh => app[l] = TApp /\ Len(tapps) = 1
           /\ KeepCopy(l) => (fresh' # {} => Len(tapps) = 1)
           /\ \A label : TakeCached(l, label) => (fresh' # {} => Len(tapps) = 1)
  <1>1. fresh # {} => Len(tapps) = 1
    BY DEF OInv, CacheInOrder
  <1>2. l \in fresh => app[l] = TApp
    BY DEF OInv, IInv, LoopsOK, LoopOK
  <1> QED BY <1>1, <1>2 DEF KeepCopy, TakeCached

LEMMA BeginHolds == ASSUME OnlyOne, OInv, IInv', NEW l \in Loop, Begin(l) PROVE OInv'
  <1>1. /\ UNCHANGED <<userVars, tapps, etcdVars, fresh, app>> /\ pc'[l] = "tapp" /\ e'[l] = CachedSpec
    BY DEF Begin, OInv, IInv, TypeOK
  <1>2. /\ UNCHANGED <<versions, seen, tapps>> /\ Size' = Size /\ Members' = Members
        /\ Wanted' = Wanted
    BY <1>1, SameWorld
  <1>3. UpToDate(l)' \/ BeforeEdit(e'[l], Size', Members', tapps')
    <2>1. seen = Len(versions) => CachedSpec = Wanted
      BY DEF CachedSpec, Wanted
    <2> QED BY <1>1, <1>2, <2>1 DEF UpToDate, OInv, SpecInOrder
  <1>4. LoopInOrder(l)'
    BY <1>1, <1>3 DEF LoopInOrder, Scaling, Removing, Holding
  <1>5. pc'[l] \notin Scaling /\ (fresh' # {} => Len(tapps) = 1)
    BY <1>1, FreshAlone DEF Scaling
  <1> QED BY <1>1, <1>4, <1>5, LoopOnly

LEMMA Ready ==
    ASSUME OInv, CachedTApp.replicas > 0, Settled(CachedTApp)
    PROVE  0 \in Members /\ TrueReport(CachedTApp, Members, disk)
  <1>1. TrueReport(CachedTApp, Members, disk)
    BY Typed DEF OInv, ReportsTrue
  <1>2. CachedTApp.ready > 0
    BY Typed DEF Settled, OInv
  <1> QED BY <1>1, <1>2 DEF TrueReport

LEMMA ReadHolds == ASSUME OnlyOne, OInv, IInv', NEW l \in Loop, ReadTApp(l) PROVE OInv'
  <1> DEFINE r == CachedTApp.replicas
             size == e[l].size
  <1>1. pc[l] = "tapp" /\ r > 0 /\ UNCHANGED <<userVars, tapps, etcdVars>>
    BY DEF ReadTApp
  <1>2. /\ UNCHANGED <<versions, seen, tapps, learners, disk>> /\ CachedTApp' = CachedTApp
        /\ Size' = Size /\ Members' = Members /\ Wanted' = Wanted
    BY <1>1, SameWorld
  <1>3. /\ Size \in Nat /\ size \in Nat /\ r \in Nat /\ Wanted.size \in Nat
        /\ CachedTApp = tapps[1] /\ 1 \in 1 .. Len(tapps)
    BY Typed DEF OInv
  <1>4. UpToDate(l) \/ (BeforeEdit(e[l], Size, Members, tapps) /\ r = Size /\ size = Size)
    BY <1>1, <1>3 DEF OInv, LoopInOrder, BeforeEdit
  <1>5. r # size => UpToDate(l) /\ size = Wanted.size
    BY <1>4 DEF UpToDate
  <1>6. \/ r = Size
        \/ r = Size - 1 /\ Size <= Wanted.size /\ (AreMembers(Size) \/ Size = 1)
        \/ r = Size + 1 /\ AreMembers(Size) /\ Wanted.size <= Size
    BY DEF OInv, CacheInOrder
  <1>7. CASE size > r /\ ~Settled(CachedTApp) /\ Goto(l, "labels") /\ KeepCopy(l)
    <2>1. "labels" \in Label
      BY DEF Label
    <2> QED BY <1>1, <1>7, <2>1, Comes, Elsewhere, FreshAlone DEF OInv
  <1>8. ASSUME NEW label \in {"addList", "removeList", "template"}, TakeCached(l, label)
        PROVE  /\ pc'[l] = label /\ e' = e /\ app'[l] = CachedTApp
               /\ fresh' # {} => Len(tapps) = 1
    <2>1. label \in Label
      BY DEF Label, Holding
    <2> QED BY <1>8, <2>1, Taking, FreshAlone DEF OInv, IInv
  <1> HIDE DEF r, size
  <1>9. CASE size > r /\ Settled(CachedTApp) /\ TakeCached(l, "addList")
    <2>1. /\ pc'[l] = "addList" /\ e' = e /\ app'[l] = CachedTApp
          /\ fresh' # {} => Len(tapps) = 1
      BY <1>8, <1>9
    <2>2. UpToDate(l)' /\ r < Wanted.size
      BY <1>2, <1>3, <1>5, <1>9, <2>1 DEF UpToDate
    <2>3. 0 \in Members /\ TrueReport(CachedTApp, Members, disk)
      BY <1>1, <1>9, Ready DEF r
    <2>4. \/ r = Size /\ (AreMembers(Size) \/ AreMembers(Size + 1))
          \/ r = Size - 1 /\ AreMembers(Size)
      <3>1. ~AreMembers(0)
        BY <2>3 DEF AreMembers
      <3> QED BY <1>1, <1>3, <1>6, <2>2, <3>1 DEF OInv, InOrder, r
    <2>5. LoopInOrder(l)'
      BY <1>2, <2>1, <2>2, <2>4 DEF LoopInOrder, AreMembers, r
    <2> QED BY <1>1, <2>1, <2>3, <2>5, LoopOnly
  <1>10. CASE size < r /\ TakeCached(l, "removeList")
    <2>1. /\ pc'[l] = "removeList" /\ e' = e /\ app'[l] = CachedTApp
          /\ fresh' # {} => Len(tapps) = 1
      BY <1>8, <1>10
    <2>2. UpToDate(l)' /\ Wanted.size < r
      BY <1>2, <1>3, <1>5, <1>10, <2>1 DEF UpToDate
    <2>3. \/ r = Size /\ (AreMembers(Size) \/ AreMembers(Size - 1))
          \/ r = Size + 1 /\ AreMembers(Size)
      BY <1>3, <1>6, <2>2, Typed DEF OInv, InOrder
    <2>4. LoopInOrder(l)' /\ pc'[l] \notin Scaling
      BY <1>2, <2>1, <2>2, <2>3 DEF LoopInOrder, AreMembers, r, Scaling
    <2> QED BY <1>1, <2>1, <2>4, LoopOnly
  <1>11. CASE size = r /\ TakeCached(l, "template")
    <2>1. /\ pc'[l] = "template" /\ e' = e /\ app'[l] = CachedTApp
          /\ fresh' # {} => Len(tapps) = 1
      BY <1>8, <1>11
    <2>2. UpToDate(l)' \/ (BeforeEdit(e'[l], Size', Members', tapps') /\ app'[l].replicas = Size')
      BY <1>2, <1>4, <2>1 DEF UpToDate, r
    <2>3. LoopInOrder(l)' /\ pc'[l] \notin Scaling
      BY <2>1, <2>2 DEF LoopInOrder, Scaling, Removing
    <2> QED BY <1>1, <2>1, <2>3, LoopOnly
  <1> QED BY <1>7, <1>9, <1>10, <1>11 DEF ReadTApp, r, size

\* A question to etcd that is answered, or not.
LEMMA Asks ==
    ASSUME OInv, NEW l \in Loop, NEW label \in Label, Ask(l, Goto(l, label) /\ KeepCopy(l))
    PROVE  /\ fresh' # {} => Len(tapps) = 1
           /\ \/ pc'[l] = "idle"
              \/ pc'[l] = label /\ (label # "idle" => e'[l] = e[l])
                 /\ (label \in Holding => app'[l] = app[l])
  <1>1. PICK to \in {label, "idle"} : Goto(l, to) /\ KeepCopy(l)
    BY DEF Ask, Return
  <1>2. to \in Label /\ TypeOK /\ KeepCopy(l)
    BY <1>1 DEF Label, OInv, IInv
  <1>3. fresh' # {} => Len(tapps) = 1
    BY <1>2, FreshAlone
  <1>4. /\ pc'[l] = to /\ (to # "idle" => e'[l] = e[l])
        /\ to \in Holding => app'[l] = app[l]
    BY <1>1, <1>2, Going
  <1> QED BY <1>1, <1>3, <1>4

LEMMA AddListHolds == ASSUME OnlyOne, OInv, IInv', NEW l \in Loop, AddList(l) PROVE OInv'
  <1> DEFINE a == app[l].replicas
             label == IF Cardinality(Members) = a THEN "add" ELSE "grow"
  <1>1. /\ pc[l] = "addList" /\ UNCHANGED <<userVars, tapps, etcdVars>>
        /\ Ask(l, Goto(l, label) /\ KeepCopy(l))
    BY DEF AddList
  <1>2. label \in Label /\ label \in Holding \cap Scaling /\ pc[l] \in Scaling
    BY <1>1 DEF Label, Holding, Scaling
  <1>3. label \in {"add", "grow"} /\ (label = "add" <=> Cardinality(Members) = a)
    OBVIOUS
  <1> HIDE DEF label
  <1>4. /\ fresh' # {} => Len(tapps) = 1
        /\ pc'[l] = "idle" \/ (pc'[l] = label /\ e'[l] = e[l] /\ app'[l] = app[l])
    <2>1. label # "idle"
      BY <1>3
    <2> QED BY <1>1, <1>2, <2>1, Asks
  <1>5. CASE pc'[l] = label /\ e'[l] = e[l] /\ app'[l] = app[l]
    <2>1. UpToDate(l) /\ Size \in Nat /\ a \in Nat
      BY <1>2, Scaler, Typed DEF OInv
    <2>2. /\ UNCHANGED <<versions, seen>> /\ CachedTApp' = CachedTApp /\ Size' = Size
          /\ Members' = Members /\ Wanted' = Wanted
      BY <1>1, SameWorld
    <2>3. \/ a = Size /\ (AreMembers(Size) \/ AreMembers(Size + 1))
          \/ a = Size - 1 /\ AreMembers(Size)
      BY <1>1 DEF OInv, LoopInOrder
    <2>4. /\ AreMembers(Size) => Cardinality(Members) = Size
          /\ AreMembers(Size + 1) => Cardinality(Members) = Size + 1
      <3>1. Size + 1 \in Nat
        BY <2>1
      <3> QED BY <2>1, <3>1, Counted
    <2>5. /\ label = "add" => a = Size /\ AreMembers(Size)
          /\ label = "grow" => \/ a = Size /\ AreMembers(Size + 1)
                               \/ a = Size - 1 /\ AreMembers(Size)
      BY <1>3, <2>1, <2>3, <2>4
    <2>6. a = Size => CachedTApp.replicas = Size
      BY <1>2 DEF OInv, LoopInOrder
    <2>7. LoopInOrder(l)'
      BY <1>3, <1>5, <2>1, <2>2, <2>5, <2>6 DEF LoopInOrder, UpToDate, AreMembers
    <2>8. TrueReport(app'[l], Members, disk)
      BY <1>2, <1>5 DEF OInv, ReportsTrue
    <2> QED BY <1>1, <1>4, <2>7, <2>8, LoopOnly
  <1> QED BY <1>1, <1>4, <1>5, ReturnHolds

LEMMA RemoveListHolds ==
    ASSUME OnlyOne, OInv, IInv', NEW l \in Loop, RemoveList(l)
    PROVE  OInv'
  <1> DEFINE a == app[l].replicas
             label == IF LastInstance(l) \in Members THEN "remove" ELSE "shrink"
  <1>1. /\ pc[l] = "removeList" /\ UNCHANGED <<userVars, tapps, etcdVars>>
        /\ Ask(l, Goto(l, label) /\ KeepCopy(l))
    BY DEF RemoveList
  <1>2. /\ label \in Label /\ label \in Holding \cap Removing /\ pc[l] \in Removing
        /\ label \notin Scaling
    BY <1>1 DEF Label, Holding, Scaling, Removing
  <1>3. label \in {"remove", "shrink"} /\ (label = "remove" <=> a - 1 \in Members)
    BY DEF LastInstance
  <1> HIDE DEF label
  <1>4. /\ fresh' # {} => Len(tapps) = 1
        /\ pc'[l] = "idle" \/ (pc'[l] = label /\ e'[l] = e[l] /\ app'[l] = app[l])
    <2>1. label # "idle"
      BY <1>3
    <2> QED BY <1>1, <1>2, <2>1, Asks
  <1>5. CASE pc'[l] = label /\ e'[l] = e[l] /\ app'[l] = app[l]
    <2>1. UpToDate(l) /\ Size \in Nat /\ a \in Nat /\ 0 < a
      BY <1>2, Scaler, Typed DEF OInv
    <2>2. /\ UNCHANGED <<versions, seen>> /\ CachedTApp' = CachedTApp /\ Size' = Size
          /\ Members' = Members /\ Wanted' = Wanted
      BY <1>1, SameWorld
    <2>3. \/ a = Size /\ (AreMembers(Size) \/ AreMembers(Size - 1))
          \/ a = Size + 1 /\ AreMembers(Size)
      BY <1>1 DEF OInv, LoopInOrder
    <2>4. /\ label = "remove" => a = Size /\ AreMembers(Size)
          /\ label = "shrink" => \/ a = Size /\ AreMembers(Size - 1)
                                 \/ a = Size + 1 /\ AreMembers(Size)
      BY <1>3, <2>1, <2>3 DEF AreMembers
    <2>5. a = Size => CachedTApp.replicas = Size
      BY <1>2 DEF OInv, LoopInOrder
    <2>6. LoopInOrder(l)'
      BY <1>3, <1>5, <2>1, <2>2, <2>4, <2>5 DEF LoopInOrder, UpToDate, AreMembers
    <2> QED BY <1>1, <1>2, <1>4, <1>5, <2>6, LoopOnly
  <1> QED BY <1>1, <1>4, <1>5, ReturnHolds

LEMMA LabelsHold ==
    ASSUME OnlyOne, OInv, IInv', NEW l \in Loop,
           \/ Labels(l, "labels", "relabel", "learner")
           \/ Labels(l, "labels2", "relabel2", "idle")
    PROVE  OInv'
  <1>1. PICK here \in {"labels", "labels2"}, relabel \in {"relabel", "relabel2"},
             next \in {"learner", "idle"} : Labels(l, here, relabel, next)
    OBVIOUS
  <1>2. UNCHANGED <<userVars, tapps, etcdVars>> /\ pc[l] # "idle"
    BY <1>1 DEF Labels
  <1>3. CASE \E to \in {next, "idle"} : Goto(l, to) /\ KeepCopy(l)
    <2>1. PICK to \in {"learner", "idle"} : Goto(l, to) /\ KeepCopy(l)
      BY <1>3
    <2>2. to \in Label /\ (fresh' # {} => Len(tapps) = 1)
      BY <2>1, FreshAlone DEF Label
    <2>3. to = "idle" => Came(l, "learner")
      BY <2>1, <2>2, Comes DEF Came, OInv, Holding
    <2>4. to = "learner" => Came(l, "learner")
      BY <2>1, <2>2, Comes DEF OInv
    <2> QED BY <1>2, <2>2, <2>3, <2>4, Elsewhere
  <1>4. CASE TakeCached(l, relabel) /\ learners = {}
    <2>1. relabel \in Label /\ relabel \notin Scaling
      BY DEF Label, Holding, Scaling
    <2>2. /\ pc'[l] = relabel /\ e' = e /\ app'[l] = CachedTApp
          /\ fresh' # {} => Len(tapps) = 1
      BY <1>4, <2>1, Taking, FreshAlone DEF OInv, IInv
    <2>3. /\ UNCHANGED <<versions, seen, tapps, learners>> /\ Size' = Size
          /\ Members' = Members /\ Wanted' = Wanted
      BY <1>2, SameWorld
    <2>4. UpToDate(l) \/ (BeforeEdit(e[l], Size, Members, tapps) /\ CachedTApp.replicas = Size)
      BY <1>2, Typed DEF OInv, LoopInOrder, BeforeEdit
    <2>5. LoopInOrder(l)'
      BY <1>4, <2>2, <2>3, <2>4 DEF LoopInOrder, UpToDate, Scaling, Removing
    <2> QED BY <1>2, <2>1, <2>2, <2>5, LoopOnly
  <1> QED BY <1>1, <1>3, <1>4 DEF Labels, Ask, Return, AllVoting


-----------------------------------------------------------------------------
(***************************************************************************)
(* Steps of the loop that change the membership.                           *)
(***************************************************************************)
\* A loop that goes on at a label, or returns, after its step changed something.
LEMMA Lands ==
    ASSUME OInv, NEW l \in Loop, NEW label \in Label, NEW to \in {label, "idle"}, Goto(l, to)
    PROVE  /\ pc'[l] = to /\ (to # "idle" => e'[l] = e[l])
           /\ to \in Holding => app'[l] = app[l]
  <1>1. to \in Label /\ TypeOK
    BY DEF Label, OInv, IInv
  <1> QED BY <1>1, Going

LEMMA AddHolds == ASSUME OnlyOne, OInv, IInv', NEW l \in Loop, MemberAdd(l) PROVE OInv'
  <1> DEFINE a == app[l].replicas
  <1>1. /\ pc[l] = "add" /\ UNCHANGED <<userVars, tapps, running, disk>>
        /\ fresh' # {} => Len(tapps) = 1
    BY FreshAlone DEF MemberAdd
  <1>2. PICK to \in {"grow", "idle"} :
           /\ Goto(l, to)
           /\ \/ to = "idle" /\ UNCHANGED <<voters, learners>>
              \/ Members' = Members \cup {a}
                 /\ (learners' = learners \/ (e[l].learner = a /\ learners' = {a}))
    BY DEF MemberAdd, Change, Call, Return, Members
  <1>3. /\ pc'[l] = to /\ (to # "idle" => e'[l] = e[l] /\ app'[l] = app[l])
        /\ "grow" \notin {"relabel", "relabel2"} /\ "grow" \in Scaling
    <2>1. "grow" \in Label /\ "grow" \in Holding /\ "grow" \in Scaling
      BY DEF Label, Holding, Scaling
    <2> QED BY <1>2, <2>1, Lands
  <1>4. CASE to = "idle" /\ UNCHANGED <<voters, learners>>
    BY <1>1, <1>3, <1>4, ReturnHolds DEF etcdVars
  <1>5. CASE /\ Members' = Members \cup {a}
             /\ learners' = learners \/ (e[l].learner = a /\ learners' = {a})
    <2>1. pc[l] \in Scaling
      BY <1>1 DEF Scaling
    <2>2. /\ UpToDate(l) /\ a < Wanted.size /\ Settled(app[l]) /\ 0 < a
          /\ a = Size /\ AreMembers(Size) /\ CachedTApp.replicas = Size
      BY <1>1, <2>1, Scaler DEF OInv, LoopInOrder
    <2>3. /\ Size \in Nat /\ Wanted.size \in Nat
          /\ \A k \in 1 .. Len(tapps) : tapps[k].replicas \in Nat
          /\ CachedTApp = tapps[1] /\ Len(tapps) \in Nat \ {0}
      BY Typed DEF OInv
    <2>4. /\ UNCHANGED <<versions, seen, tapps, running, disk>> /\ TApp' = TApp
          /\ CachedTApp' = CachedTApp /\ Size' = Size /\ Wanted' = Wanted
          /\ CachedSpec' = CachedSpec
      BY <1>1 DEF userVars, TApp, CachedTApp, Size, Wanted, CachedSpec
    <2>5. AreMembers(Size + 1)'
      BY <1>5, <2>2, <2>3, <2>4 DEF AreMembers
    <2>6. InOrder'
      BY <2>2, <2>3, <2>4, <2>5 DEF InOrder, AreMembers
    <2>7. CacheInOrder'
      BY <1>1, <2>2, <2>3, <2>4 DEF OInv, CacheInOrder
    <2>8. SpecInOrder'
      BY <2>2, <2>4 DEF SpecInOrder, UpToDate
    <2>9. LoopInOrder(l)'
      BY <1>2, <1>3, <2>2, <2>4, <2>5 DEF LoopInOrder, UpToDate, AreMembers
    <2>10. \A i \in Members : disk[i] = "own"
      <3>1. TrueReport(app[l], Members, disk)
        BY <2>1 DEF OInv, ReportsTrue
      <3> QED BY <2>2, <2>3, <3>1 DEF TrueReport, AreMembers
    <2>11. Joined'
      BY <1>5, <2>2, <2>3, <2>4, <2>5, <2>10 DEF OInv, Joined, AreMembers
    <2>12. \A k \in 1 .. Len(tapps) : tapps[k].replicas = Size
      BY <2>2, <2>3 DEF OInv, CacheInOrder
    <2>13. \A t \in TAppVersion :
              t.replicas = Size /\ TrueReport(t, Members, disk) => TrueReport(t, Members', disk)
      BY <1>5, <2>2, <2>3 DEF TrueReport
    <2>14. ReportsTrue'
      <3>1. \A k \in 1 .. Len(tapps)' : TrueReport(tapps'[k], Members', disk')
        BY <2>4, <2>12, <2>13, Typed DEF OInv, ReportsTrue
      <3>2. pc'[l] \in Scaling => TrueReport(app'[l], Members', disk')
        <4>1. TrueReport(app[l], Members, disk) /\ app[l] \in TAppVersion
          BY <2>1, Typed DEF OInv, ReportsTrue
        <4>2. pc'[l] = "idle" => pc'[l] \notin Scaling
          BY DEF Scaling
        <4> QED BY <1>2, <1>3, <2>2, <2>4, <2>13, <4>1, <4>2
      <3> QED BY <3>1, <3>2 DEF ReportsTrue, OnlyOne
    <2>15. LabelsTrue'
      BY <1>5, <2>2, <2>3, <2>4 DEF OInv, LabelsTrue, UpToDate
    <2>16. \A k \in Loop : LoopInOrder(k)'
      BY <2>9 DEF OnlyOne
    <2> QED BY <2>6, <2>7, <2>8, <2>11, <2>14, <2>15, <2>16 DEF OInv
  <1> QED BY <1>2, <1>4, <1>5


LEMMA RemoveHolds == ASSUME OnlyOne, OInv, IInv', NEW l \in Loop, MemberRemove(l) PROVE OInv'
  <1> DEFINE a == app[l].replicas
             i == a - 1
  <1>1. /\ pc[l] = "remove" /\ UNCHANGED <<userVars, tapps>>
        /\ fresh' # {} => Len(tapps) = 1
    BY FreshAlone DEF MemberRemove
  <1>2. PICK to \in {"shrink", "idle"} :
           /\ Goto(l, to)
           /\ \/ to = "idle" /\ UNCHANGED etcdVars
              \/ /\ Members' = Members \ {i} /\ learners' \subseteq learners
                 /\ running' \subseteq running \ {i}
                 /\ disk' = [disk EXCEPT ![i] = IF @ = "own" THEN "old" ELSE @]
    BY DEF MemberRemove, Change, Call, Return, Members, LastInstance
  <1>3. /\ pc'[l] = to /\ (to # "idle" => e'[l] = e[l] /\ app'[l] = app[l])
        /\ to \notin Scaling
    <2>1. "shrink" \in Label /\ "shrink" \in Holding /\ to \notin Scaling
      BY DEF Label, Holding, Scaling
    <2> QED BY <1>2, <2>1, Lands
  <1>4. CASE to = "idle" /\ UNCHANGED etcdVars
    BY <1>1, <1>3, <1>4, ReturnHolds
  <1>5. CASE /\ Members' = Members \ {i} /\ learners' \subseteq learners
             /\ running' \subseteq running \ {i}
             /\ disk' = [disk EXCEPT ![i] = IF @ = "own" THEN "old" ELSE @]
    <2>1. pc[l] \in Removing /\ pc[l] \notin Scaling
      BY <1>1 DEF Removing, Scaling
    <2>2. /\ UpToDate(l) /\ Wanted.size < a
          /\ a = Size /\ AreMembers(Size) /\ CachedTApp.replicas = Size
      BY <1>1, <2>1, Scaler DEF OInv, LoopInOrder
    <2>3. /\ Size \in Nat /\ Wanted.size \in Nat \ {0}
          /\ \A k \in 1 .. Len(tapps) : tapps[k].replicas \in Nat
          /\ CachedTApp = tapps[1] /\ Len(tapps) \in Nat \ {0}
      BY Typed DEF OInv
    <2>4. /\ UNCHANGED <<versions, seen, tapps>> /\ TApp' = TApp
          /\ CachedTApp' = CachedTApp /\ Size' = Size /\ Wanted' = Wanted
      BY <1>1 DEF userVars, TApp, CachedTApp, Size, Wanted
    <2>5. AreMembers(Size - 1)'
      BY <1>5, <2>2, <2>3, <2>4 DEF AreMembers
    <2>6. InOrder'
      BY <2>2, <2>3, <2>4, <2>5 DEF InOrder, AreMembers
    <2>7. CacheInOrder'
      BY <1>1, <2>2, <2>3, <2>4 DEF OInv, CacheInOrder
    <2>8. SpecInOrder'
      BY <2>2, <2>4 DEF SpecInOrder, UpToDate
    <2>9. LoopInOrder(l)'
      BY <1>2, <1>3, <2>2, <2>4, <2>5 DEF LoopInOrder, UpToDate, AreMembers
    <2>10. /\ \A j \in Members : disk[j] = "own"
           /\ disk \in [Index -> {"none", "own", "old"}] /\ i \in Index /\ 0 # i
      <3>1. \A j \in Members : disk[j] = "own"
        BY <2>2, <2>3 DEF OInv, Joined
      <3>2. i \in Index /\ 0 # i
        BY <2>2, <2>3, Typed DEF OInv, Index
      <3> QED BY <3>1, <3>2 DEF OInv, IInv, TypeOK
    <2>11. /\ disk'[i] # "own" /\ \A j \in Index \ {i} : disk'[j] = disk[j]
           /\ Members \subseteq Index /\ running \subseteq Index
      BY <1>5, <2>10 DEF OInv, IInv, TypeOK, Members
    <2>12. Joined'
      BY <1>5, <2>10, <2>11 DEF OInv, Joined
    <2>13. \A t : TrueReport(t, Members, disk) => TrueReport(t, Members', disk')
      BY <1>5, <2>10, <2>11 DEF TrueReport
    <2>14. ReportsTrue'
      BY <1>3, <2>4, <2>13 DEF OInv, ReportsTrue, OnlyOne
    <2>15. LabelsTrue'
      BY <1>5, <2>4 DEF OInv, LabelsTrue
    <2>16. \A k \in Loop : LoopInOrder(k)'
      BY <2>9 DEF OnlyOne
    <2> QED BY <2>6, <2>7, <2>8, <2>12, <2>14, <2>15, <2>16 DEF OInv
  <1> QED BY <1>2, <1>4, <1>5

\* The members are the same ones, and what is known of their volumes is still true.
LEMMA SameMembers ==
    ASSUME OnlyOne, OInv, IInv', NEW l \in Loop, NEW label \in {"labels2", "template"},
           Came(l, label), label = "template" => pc[l] = "pvc",
           fresh' # {} => Len(tapps) = 1, UNCHANGED <<userVars, tapps, running>>,
           Members' = Members, learners' \subseteq learners, pc[l] # "idle",
           \A i \in running \cup Members : disk'[i] = disk[i],
           \A i \in Index : disk'[i] = "own" => disk[i] = "own"
    PROVE  OInv'
  <1>1. /\ UNCHANGED <<versions, seen, tapps, running>> /\ TApp' = TApp
        /\ CachedTApp' = CachedTApp /\ Size' = Size /\ Wanted' = Wanted
        /\ CachedSpec' = CachedSpec
    BY DEF userVars, TApp, CachedTApp, Size, Wanted, CachedSpec
  <1>2. InOrder' /\ CacheInOrder'
    BY <1>1 DEF OInv, InOrder, CacheInOrder, AreMembers
  <1>3. SpecInOrder'
    BY <1>1 DEF OInv, SpecInOrder
  <1>4. /\ pc'[l] \notin Scaling \cup Removing \cup {"pvc", "relabel", "relabel2"}
        /\ pc'[l] \notin {"addList", "add", "grow", "removeList", "remove", "shrink"}
        /\ pc'[l] \in Holding => pc'[l] = "template" /\ label = "template"
        /\ pc'[l] # "idle" => e'[l] = e[l]
    BY DEF Came, Scaling, Removing, Holding
  <1>5. pc'[l] = "template" => UpToDate(l)
    <2>1. pc'[l] = "template" => pc[l] = "pvc"
      BY <1>4 DEF Holding
    <2> QED BY <2>1, Scaler
  <1>6. pc'[l] # "idle" => UpToDate(l)' \/ BeforeEdit(e'[l], Size', Members', tapps')
    BY <1>1, <1>4 DEF OInv, LoopInOrder, UpToDate
  <1>7. \A k \in Loop : LoopInOrder(k)'
    <2>1. LoopInOrder(l)'
      BY <1>1, <1>4, <1>5, <1>6 DEF LoopInOrder, UpToDate
    <2> QED BY <2>1 DEF OnlyOne
  <1>8. Joined'
    BY <1>1 DEF OInv, Joined, AreMembers
  <1>9. \A t : TrueReport(t, Members, disk) => TrueReport(t, Members', disk')
    BY DEF TrueReport
  <1>10. ReportsTrue'
    BY <1>1, <1>4, <1>9 DEF OInv, ReportsTrue, OnlyOne
  <1>11. LabelsTrue'
    BY <1>1 DEF OInv, LabelsTrue
  <1> QED BY <1>2, <1>3, <1>7, <1>8, <1>10, <1>11 DEF OInv

LEMMA DeletePVCHolds ==
    ASSUME OnlyOne, OInv, IInv', NEW l \in Loop, DeletePVC(l)
    PROVE  OInv'
  <1> DEFINE i == LastInstance(l)
  <1>1. /\ pc[l] = "pvc" /\ UNCHANGED <<userVars, tapps, voters, learners, running>>
        /\ fresh' # {} => Len(tapps) = 1
    BY FreshAlone DEF DeletePVC
  <1>2. PICK to \in {"template", "idle"} :
            Goto(l, to) /\ (disk' = disk \/ disk' = [disk EXCEPT ![i] = "none"])
    BY DEF DeletePVC, Call, Return
  <1>3. Came(l, "template")
    BY <1>2, Lands DEF Came, Label, Holding
  <1>4. AreMembers(Size) /\ i = Size /\ Size \in Nat
    BY <1>1, Typed DEF OInv, LoopInOrder, LastInstance
  <1>5. i \notin Members /\ i \notin running
    <2>1. i \notin Members
      BY <1>4 DEF AreMembers
    <2>2. running \subseteq Members
      BY DEF OInv, Joined, IInv, TypeOK
    <2> QED BY <2>1, <2>2
  <1>6. /\ \A j \in running \cup Members : disk'[j] = disk[j]
        /\ \A j \in Index : disk'[j] = "own" => disk[j] = "own"
    <2>1. /\ disk \in [Index -> {"none", "own", "old"}]
          /\ running \subseteq Index /\ Members \subseteq Index
      BY DEF OInv, IInv, TypeOK, Members
    <2> HIDE DEF i
    <2> QED BY <1>2, <1>5, <2>1
  <1>7. Members' = Members
    BY <1>1 DEF Members
  <1> QED BY <1>1, <1>3, <1>6, <1>7, SameMembers

LEMMA PromoteHolds == ASSUME OnlyOne, OInv, IInv', NEW l \in Loop, Promote(l) PROVE OInv'
  <1>1. /\ pc[l] = "learner" /\ UNCHANGED <<userVars, tapps, running, disk>>
        /\ fresh' # {} => Len(tapps) = 1
    BY FreshAlone DEF Promote
  <1>2. PICK to \in {"labels2", "idle"} :
            Goto(l, to) /\ Members' = Members /\ learners' \subseteq learners
    BY DEF Promote, Change, Call, Return, Members
  <1>3. Came(l, "labels2")
    BY <1>2, Lands DEF Came, Label, Holding
  <1> QED BY <1>1, <1>2, <1>3, SameMembers


-----------------------------------------------------------------------------
(***************************************************************************)
(* Steps that write the TApp.                                              *)
(***************************************************************************)
\* The API server has one version more; the cache is as it was.
LEMMA Puts ==
    ASSUME IInv, NEW t \in TAppVersion, PutTApp(t)
    PROVE  /\ fresh' = {} /\ TApp' = t /\ Size' = t.replicas /\ CachedTApp' = CachedTApp
           /\ Len(tapps') = Len(tapps) + 1
           /\ \A k \in 1 .. Len(tapps) : tapps'[k] = tapps[k]
           /\ tapps'[Len(tapps) + 1] = t
  BY Typed, Put DEF IInv, TypeOK, PutTApp, Size, CachedTApp

\* An update of the TApp: of the current version, or the loop returns.
LEMMA Updates ==
    ASSUME OInv, NEW l \in Loop, NEW t \in TAppVersion, NEW label \in Label,
           UpdateTApp(l, t, label)
    PROVE  /\ \/ pc'[l] = "idle"
              \/ pc'[l] = label /\ e'[l] = e[l] /\ (label \in Holding => app'[l] = app[l])
           /\ \/ PutTApp(t) /\ app[l] = TApp /\ Len(tapps) = 1 /\ app[l].replicas = Size
              \/ UNCHANGED tapps /\ pc'[l] = "idle" /\ (fresh' # {} => Len(tapps) = 1)
  <1>1. PICK to \in {label, "idle"} :
           /\ Goto(l, to)
           /\ \/ l \in fresh /\ PutTApp(t)
              \/ UNCHANGED tapps /\ to = "idle" /\ fresh' \subseteq fresh
    BY DEF UpdateTApp, Call, Return
  <1>2. /\ pc'[l] = to /\ (to # "idle" => e'[l] = e[l])
        /\ to \in Holding => app'[l] = app[l]
    BY <1>1, Lands
  <1>3. fresh' \subseteq fresh => (fresh' # {} => Len(tapps) = 1)
    BY FreshAlone
  <1>4. l \in fresh => app[l] = TApp /\ Len(tapps) = 1
    BY FreshAlone
  <1> QED BY <1>1, <1>2, <1>3, <1>4 DEF Size

LEMMA CreateHolds == ASSUME OnlyOne, OInv, IInv', NEW l \in Loop, CreateTApp(l) PROVE OInv'
  <1> DEFINE t == SeedTApp(e[l])
  <1>1. pc[l] = "tapp" /\ UNCHANGED <<userVars, etcdVars>>
    BY DEF CreateTApp
  <1>2. PICK to \in {"labels", "idle"} :
           /\ Goto(l, to)
           /\ \/ TApp.replicas = 0 /\ PutTApp(t)
              \/ to = "idle" /\ UNCHANGED <<tapps, fresh>>
    BY DEF CreateTApp, Call, Return
  <1>3. pc'[l] = to /\ (to # "idle" => e'[l] = e[l]) /\ to \notin Holding \cup Scaling \cup Removing
    BY <1>2, Lands DEF Label, Holding, Scaling, Removing
  <1>4. CASE to = "idle" /\ UNCHANGED <<tapps, fresh>>
    BY <1>1, <1>3, <1>4, ReturnHolds, FreshAlone
  <1>5. CASE TApp.replicas = 0 /\ PutTApp(t)
    <2>1. e[l] \in Specs /\ t \in TAppVersion /\ t.replicas = 1 /\ t.ready = 0 /\ t.pods = 0
      BY Typed, SeedOK DEF OInv, SeedTApp
    <2> HIDE DEF t
    <2>2. Size = 0 /\ tapps = <<NoTApp>> /\ AreMembers(0) /\ UpToDate(l)
      <3>1. Size = 0 /\ tapps = <<NoTApp>>
        BY <1>5 DEF OInv, CacheInOrder, Size
      <3>2. AreMembers(0)
        BY <3>1, Typed DEF OInv, InOrder
      <3>3. ~BeforeEdit(e[l], Size, Members, tapps)
        BY <3>1, Typed DEF OInv, BeforeEdit
      <3> QED BY <1>1, <3>1, <3>2, <3>3 DEF OInv, LoopInOrder
    <2>3. /\ fresh' = {} /\ TApp' = t /\ Size' = 1 /\ Len(tapps') = 2
          /\ tapps'[1] = NoTApp /\ tapps'[2] = t /\ CachedTApp' = NoTApp
      BY <1>5, <2>1, <2>2, Puts DEF OInv, CachedTApp
    <2>4. /\ UNCHANGED <<versions, seen, learners, running, disk>> /\ Members' = Members
          /\ Wanted' = Wanted /\ Wanted.size \in Nat \ {0}
      BY <1>1, Typed DEF userVars, etcdVars, Members, Wanted, OInv
    <2>5. Members = {}
      BY <2>2 DEF AreMembers
    <2>6. InOrder' /\ CacheInOrder'
      BY <2>1, <2>2, <2>3, <2>4 DEF InOrder, CacheInOrder, AreMembers, NoTApp
    <2>7. SpecInOrder'
      BY <2>2, <2>4 DEF SpecInOrder, UpToDate
    <2>8. \A k \in Loop : LoopInOrder(k)'
      <3>1. LoopInOrder(l)'
        BY <1>2, <1>3, <2>2, <2>4 DEF LoopInOrder, UpToDate
      <3> QED BY <3>1 DEF OnlyOne
    <2>9. Joined' /\ LabelsTrue'
      BY <2>3, <2>4, <2>5 DEF OInv, Joined, LabelsTrue, Members
    <2>10. ReportsTrue'
      <3>1. \A k \in 1 .. 2 : TrueReport(tapps'[k], Members, disk)
        BY <2>1, <2>3, <2>5 DEF TrueReport, NoTApp, Settled
      <3>2. \A k \in Loop : pc'[k] \notin Scaling
        BY <1>3 DEF OnlyOne
      <3> QED BY <2>3, <2>4, <3>1, <3>2 DEF ReportsTrue
    <2> QED BY <2>6, <2>7, <2>8, <2>9, <2>10 DEF OInv
  <1> QED BY <1>2, <1>4, <1>5

LEMMA GrowHolds == ASSUME OnlyOne, OInv, IInv', NEW l \in Loop, Grow(l) PROVE OInv'
  <1> DEFINE t == GrowTApp(e[l], app[l])
             a == app[l].replicas
  <1>1. pc[l] = "grow" /\ UpdateTApp(l, t, "template") /\ UNCHANGED <<userVars, etcdVars>>
    BY DEF Grow
  <1>2. pc[l] \in Scaling /\ "template" \in Label /\ "template" \in Holding
    BY <1>1 DEF Scaling, Label, Holding
  <1>3. /\ UpToDate(l) /\ e[l].size = Wanted.size /\ a < Wanted.size /\ Settled(app[l])
        /\ 0 < a
    BY <1>2, Scaler
  <1>4. e[l] \in Specs /\ app[l] \in TAppVersion /\ Size \in Nat /\ Wanted.size \in Nat
    BY Typed DEF OInv
  <1>5. t \in TAppVersion /\ t.replicas = a + 1
    BY <1>3, <1>4, GrowOK
  <1>6. t.pods = app[l].pods /\ t.ready = app[l].ready
        /\ \A i \in 0 .. a : t.pool[i].voting =>
              (app[l].pool[IF i = a THEN 0 ELSE i].voting /\ (i = a => e[l].learner # a))
    BY DEF GrowTApp, Respecified
  <1> HIDE DEF t
  <1>7. /\ pc'[l] \in {"template", "idle"} /\ (pc'[l] # "idle" => e'[l] = e[l])
        /\ \/ PutTApp(t) /\ app[l] = TApp /\ Len(tapps) = 1 /\ a = Size
           \/ UNCHANGED tapps /\ pc'[l] = "idle" /\ (fresh' # {} => Len(tapps) = 1)
    BY <1>1, <1>2, <1>5, Updates
  <1>8. CASE UNCHANGED tapps /\ pc'[l] = "idle" /\ (fresh' # {} => Len(tapps) = 1)
    BY <1>1, <1>8, ReturnHolds
  <1>9. CASE PutTApp(t) /\ app[l] = TApp /\ Len(tapps) = 1 /\ a = Size
    <2>1. /\ fresh' = {} /\ TApp' = t /\ Size' = Size + 1 /\ Len(tapps') = 2
          /\ tapps'[1] = TApp /\ tapps'[2] = t /\ CachedTApp' = TApp
      BY <1>5, <1>9, Puts DEF OInv, CachedTApp, TApp
    <2>2. AreMembers(Size + 1)
      BY <1>1, <1>4, <1>9 DEF OInv, LoopInOrder
    <2>3. /\ UNCHANGED <<versions, seen, learners, running, disk>> /\ Members' = Members
          /\ Wanted' = Wanted
      BY <1>1 DEF userVars, etcdVars, Members, Wanted
    <2>4. InOrder' /\ CacheInOrder'
      <3>1. AreMembers(Size)'
        BY <2>1, <2>2, <2>3 DEF AreMembers
      <3>2. TApp.replicas = Size
        BY DEF Size
      <3> QED BY <1>3, <1>4, <1>5, <1>9, <2>1, <2>3, <3>1, <3>2 DEF InOrder, CacheInOrder
    <2>5. SpecInOrder'
      BY <1>3, <2>3 DEF SpecInOrder, UpToDate
    <2>6. \A k \in Loop : LoopInOrder(k)'
      <3>1. pc'[l] \notin Scaling \cup Removing
        BY <1>7 DEF Scaling, Removing
      <3>2. LoopInOrder(l)'
        BY <1>3, <1>7, <2>3, <3>1 DEF LoopInOrder, UpToDate
      <3> QED BY <3>2 DEF OnlyOne
    <2>7. Joined'
      BY <1>3, <1>4, <1>9, <2>1, <2>3 DEF OInv, Joined, AreMembers
    <2>8. ReportsTrue'
      <3>1. TrueReport(TApp, Members, disk)
        BY <1>2, <1>9 DEF OInv, ReportsTrue
      <3>2. TrueReport(t, Members, disk)
        BY <1>3, <1>4, <1>5, <1>6, <1>9, <3>1 DEF TrueReport, Settled
      <3>3. \A k \in Loop : pc'[k] \notin Scaling
        BY <1>7 DEF OnlyOne, Scaling
      <3>4. \A k \in 1 .. Len(tapps') : TrueReport(tapps'[k], Members, disk)
        BY <2>1, <3>1, <3>2
      <3> QED BY <2>3, <3>3, <3>4 DEF ReportsTrue
    <2>9. LabelsTrue'
      <3>1. \A i \in learners : i \in Nat /\ i <= Size
        BY <1>4, <2>2 DEF AreMembers, Members
      <3>2. Wanted = e[l]
        BY <1>3 DEF UpToDate
      <3>3. \A i \in learners : i < Size => ~TApp.pool[i].voting /\ i \in 0 .. a /\ i # a
        BY <1>4, <1>6, <1>9, <3>1 DEF OInv, LabelsTrue
      <3>4. Size \in learners => e[l].learner = a /\ a \in 0 .. a
        BY <1>4, <1>9, <3>2 DEF OInv, LabelsTrue
      <3>5. \A i \in learners : i < Size + 1 /\ ~t.pool[i].voting
        BY <1>4, <1>6, <1>9, <3>1, <3>3, <3>4
      <3> QED BY <2>1, <2>3, <3>5 DEF LabelsTrue
    <2> QED BY <2>4, <2>5, <2>6, <2>7, <2>8, <2>9 DEF OInv
  <1> QED BY <1>7, <1>8, <1>9


LEMMA ShrinkHolds == ASSUME OnlyOne, OInv, IInv', NEW l \in Loop, Shrink(l) PROVE OInv'
  <1> DEFINE t == ShrinkTApp(app[l])
             a == app[l].replicas
  <1>1. pc[l] = "shrink" /\ UpdateTApp(l, t, "pvc") /\ UNCHANGED <<userVars, etcdVars>>
    BY DEF Shrink
  <1>2. /\ pc[l] \in Removing /\ pc[l] \notin Scaling /\ "pvc" \in Label /\ "pvc" \in Holding
    BY <1>1 DEF Scaling, Removing, Label, Holding
  <1>3. UpToDate(l) /\ e[l].size = Wanted.size /\ Wanted.size < a /\ 0 < a
    BY <1>2, Scaler
  <1>4. app[l] \in TAppVersion /\ Size \in Nat /\ Wanted.size \in Nat \ {0}
    BY Typed DEF OInv
  <1>5. t \in TAppVersion /\ t.replicas = a - 1
    BY <1>3, <1>4, ShrinkOK
  <1>6. t.pods = app[l].pods /\ t.ready = app[l].ready
        /\ \A i \in 0 .. a - 2 : t.pool[i] = app[l].pool[i]
    BY DEF ShrinkTApp, Respecified
  <1> HIDE DEF t
  <1>7. /\ \/ pc'[l] = "idle"
           \/ pc'[l] = "pvc" /\ e'[l] = e[l] /\ app'[l] = app[l]
        /\ \/ PutTApp(t) /\ app[l] = TApp /\ Len(tapps) = 1 /\ a = Size
           \/ UNCHANGED tapps /\ pc'[l] = "idle" /\ (fresh' # {} => Len(tapps) = 1)
    BY <1>1, <1>2, <1>5, Updates
  <1>8. CASE UNCHANGED tapps /\ pc'[l] = "idle" /\ (fresh' # {} => Len(tapps) = 1)
    BY <1>1, <1>8, ReturnHolds
  <1>9. CASE PutTApp(t) /\ app[l] = TApp /\ Len(tapps) = 1 /\ a = Size
    <2>1. /\ fresh' = {} /\ TApp' = t /\ Size' = Size - 1 /\ Len(tapps') = 2
          /\ tapps'[1] = TApp /\ tapps'[2] = t /\ CachedTApp' = TApp
      BY <1>5, <1>9, Puts DEF OInv, CachedTApp, TApp
    <2>2. AreMembers(Size - 1)
      BY <1>1, <1>4, <1>9 DEF OInv, LoopInOrder
    <2>3. /\ UNCHANGED <<versions, seen, learners, running, disk>> /\ Members' = Members
          /\ Wanted' = Wanted
      BY <1>1 DEF userVars, etcdVars, Members, Wanted
    <2>4. AreMembers(Size)' /\ TApp.replicas = Size
      BY <2>1, <2>2, <2>3 DEF AreMembers, Size
    <2>5. InOrder' /\ CacheInOrder'
      BY <1>3, <1>4, <1>5, <1>9, <2>1, <2>3, <2>4 DEF InOrder, CacheInOrder
    <2>6. SpecInOrder'
      BY <1>3, <2>3 DEF SpecInOrder, UpToDate
    <2>7. \A k \in Loop : LoopInOrder(k)'
      <3>1. pc'[l] \notin Scaling \cup Removing
        BY <1>7 DEF Scaling, Removing
      <3>2. LoopInOrder(l)'
        BY <1>3, <1>4, <1>7, <1>9, <2>1, <2>3, <2>4, <3>1 DEF LoopInOrder, UpToDate
      <3> QED BY <3>2 DEF OnlyOne
    <2>8. \A j \in Members : disk[j] = "own"
      BY <1>3, <1>9 DEF OInv, Joined
    <2>9. Joined'
      BY <2>3, <2>8 DEF OInv, Joined
    <2>10. ReportsTrue'
      <3>1. TrueReport(TApp, Members, disk)
        BY <1>9, Typed DEF OInv, ReportsTrue
      <3>2. TrueReport(t, Members, disk)
        BY <1>6, <1>9, <2>8, <3>1 DEF TrueReport
      <3>3. \A k \in Loop : pc'[k] \notin Scaling
        BY <1>7 DEF OnlyOne, Scaling
      <3>4. \A k \in 1 .. Len(tapps') : TrueReport(tapps'[k], Members, disk)
        BY <2>1, <3>1, <3>2
      <3> QED BY <2>3, <3>3, <3>4 DEF ReportsTrue
    <2>11. LabelsTrue'
      <3>1. \A i \in learners : i \in 0 .. Size - 2
        BY <1>4, <2>2 DEF AreMembers, Members
      <3>2. \A i \in learners : i < Size - 1 /\ i < Size /\ t.pool[i] = TApp.pool[i]
        BY <1>4, <1>6, <1>9, <3>1
      <3> QED BY <2>1, <2>3, <3>2 DEF OInv, LabelsTrue
    <2> QED BY <2>5, <2>6, <2>7, <2>9, <2>10, <2>11 DEF OInv
  <1> QED BY <1>7, <1>8, <1>9

\* A version of the TApp with the same number of replicas.
LEMMA Rewritten ==
    ASSUME OnlyOne, OInv, IInv', NEW t \in TAppVersion, PutTApp(t), t.replicas = Size, 0 < Size,
           UNCHANGED <<userVars, etcdVars>>, TrueReport(t, Members, disk),
           \A i \in learners : i < Size => (t.pool[i].voting => TApp.pool[i].voting),
           \/ UNCHANGED <<pc, e, app>>
           \/ \A l \in Loop :
                 pc'[l] = "idle" \/ (pc'[l] \in {"labels", "learner"}
                                     /\ pc[l] # "idle" /\ e'[l] = e[l])
    PROVE  OInv'
  <1>1. /\ fresh' = {} /\ TApp' = t /\ Size' = Size /\ CachedTApp' = CachedTApp
        /\ Len(tapps') = Len(tapps) + 1 /\ Len(tapps) \in Nat \ {0}
        /\ \A k \in 1 .. Len(tapps) : tapps'[k] = tapps[k]
        /\ tapps'[Len(tapps) + 1] = t
    BY Puts, Typed DEF OInv
  <1>2. /\ UNCHANGED <<versions, seen, learners, running, disk>> /\ Members' = Members
        /\ Wanted' = Wanted /\ CachedSpec' = CachedSpec
    BY DEF userVars, etcdVars, Members, Wanted, CachedSpec
  <1>3. InOrder'
    BY <1>1, <1>2 DEF OInv, InOrder, AreMembers
  <1>4. CacheInOrder'
    <2>1. \A k \in 2 .. Len(tapps)' : tapps'[k].replicas = Size
      BY <1>1 DEF OInv, CacheInOrder
    <2> QED BY <1>1, <1>2, <2>1 DEF OInv, CacheInOrder, AreMembers
  <1>5. \A s \in Specs :
           BeforeEdit(s, Size, Members, tapps) => BeforeEdit(s, Size', Members', tapps')
    BY <1>1, <1>2 DEF BeforeEdit
  <1>6. SpecInOrder'
    BY <1>2, <1>5, Current DEF OInv, IInv, SpecInOrder
  <1>7. ASSUME NEW l \in Loop PROVE LoopInOrder(l)'
    <2>1. e[l] \in Specs /\ LoopInOrder(l)
      BY DEF OInv, IInv, TypeOK
    <2>2. CASE UNCHANGED <<pc, e, app>>
      BY <1>1, <1>2, <1>5, <2>1, <2>2 DEF LoopInOrder, UpToDate, AreMembers
    <2>3. CASE pc'[l] = "idle" \/ (pc'[l] \in {"labels", "learner"}
                                   /\ pc[l] # "idle" /\ e'[l] = e[l])
      BY <1>2, <1>5, <2>1, <2>3 DEF LoopInOrder, UpToDate, Scaling, Removing, Holding
    <2> QED BY <2>2, <2>3
  <1>8. Joined'
    BY <1>1, <1>2 DEF OInv, Joined, AreMembers
  <1>9. ReportsTrue'
    <2>1. \A k \in 1 .. Len(tapps)' : TrueReport(tapps'[k], Members, disk)
      BY <1>1 DEF OInv, ReportsTrue
    <2>2. \A l \in Loop : pc'[l] \in Scaling => TrueReport(app'[l], Members, disk)
      BY DEF OInv, ReportsTrue, Scaling
    <2> QED BY <1>2, <2>1, <2>2 DEF ReportsTrue
  <1>10. LabelsTrue'
    BY <1>1, <1>2 DEF OInv, LabelsTrue
  <1> QED BY <1>3, <1>4, <1>6, <1>7, <1>8, <1>9, <1>10 DEF OInv

LEMMA TemplateHolds ==
    ASSUME OnlyOne, OInv, IInv', NEW l \in Loop, UpdateTemplate(l)
    PROVE  OInv'
  <1> DEFINE t == Retemplate(e[l], app[l])
  <1>1. pc[l] = "template" /\ UNCHANGED <<userVars, etcdVars>>
    BY DEF UpdateTemplate
  <1>2. e[l] \in Specs /\ app[l] \in TAppVersion /\ app[l].replicas \in Nat
    BY Typed DEF OInv
  <1>3. /\ t \in TAppVersion /\ t.replicas = app[l].replicas /\ t.pods = app[l].pods
        /\ t.ready = app[l].ready
        /\ \A i \in DOMAIN app[l].pool : t.pool[i].voting = app[l].pool[i].voting
    BY <1>2, RetemplateOK DEF Retemplate, Respecified
  <1> HIDE DEF t
  <1>4. CASE NoFault /\ Goto(l, "labels") /\ KeepCopy(l) /\ UNCHANGED tapps
    <2>1. Came(l, "labels") /\ (fresh' # {} => Len(tapps) = 1)
      BY <1>4, Comes, FreshAlone DEF OInv, Label
    <2> QED BY <1>1, <1>4, <2>1, Elsewhere
  <1>5. CASE UpdateTApp(l, t, "labels")
    <2>1. "labels" \in Label
      BY DEF Label
    <2>2. /\ pc'[l] = "idle" \/ (pc'[l] = "labels" /\ e'[l] = e[l])
          /\ \/ PutTApp(t) /\ app[l] = TApp /\ app[l].replicas = Size
             \/ UNCHANGED tapps /\ pc'[l] = "idle" /\ (fresh' # {} => Len(tapps) = 1)
      BY <1>3, <1>5, <2>1, Updates
    <2>3. CASE UNCHANGED tapps /\ pc'[l] = "idle" /\ (fresh' # {} => Len(tapps) = 1)
      BY <1>1, <2>3, ReturnHolds
    <2>4. CASE PutTApp(t) /\ app[l] = TApp /\ app[l].replicas = Size
      <3>1. 0 < Size /\ Size \in Nat
        BY <1>1, <1>2, <2>4, TAppFields DEF OInv, IInv, LoopsOK, LoopOK, Holding
      <3>2. TrueReport(t, Members, disk)
        <4>1. TrueReport(TApp, Members, disk)
          BY Typed DEF OInv, ReportsTrue
        <4> QED BY <1>3, <2>4, <4>1 DEF TrueReport, Settled
      <3>3. \A i \in learners : i < Size => t.pool[i].voting = TApp.pool[i].voting
        <4>1. DOMAIN app[l].pool = 0 .. Size - 1
          BY <1>2, <2>4, TAppFields
        <4>2. \A i \in learners : i \in Nat
          BY DEF OInv, IInv, TypeOK, Index
        <4> QED BY <1>3, <2>4, <3>1, <4>1, <4>2
      <3>4. \A k \in Loop : pc'[k] = "idle" \/ (pc'[k] \in {"labels", "learner"}
                                               /\ pc[k] # "idle" /\ e'[k] = e[k])
        BY <1>1, <2>2 DEF OnlyOne
      <3> QED BY <1>1, <1>3, <2>4, <3>1, <3>2, <3>3, <3>4, Rewritten
    <2> QED BY <2>2, <2>3, <2>4
  <1> QED BY <1>4, <1>5 DEF UpdateTemplate, t


LEMMA RelabelHolds ==
    ASSUME OnlyOne, OInv, IInv', NEW l \in Loop,
           \/ RelabelTApp(l, "relabel", "learner") \/ RelabelTApp(l, "relabel2", "idle")
    PROVE  OInv'
  <1> DEFINE t == Relabel(app[l])
  <1>1. PICK next \in {"learner", "idle"} : UpdateTApp(l, t, next)
    BY DEF RelabelTApp
  <1>2. pc[l] \in {"relabel", "relabel2"} /\ UNCHANGED <<userVars, etcdVars>>
    BY DEF RelabelTApp
  <1>3. app[l] \in TAppVersion /\ app[l].replicas \in Nat /\ 0 < app[l].replicas /\ learners = {}
    BY <1>2, Typed, TAppFields DEF OInv, IInv, LoopsOK, LoopOK, LoopInOrder, Holding
  <1>4. t \in TAppVersion /\ t.replicas = app[l].replicas /\ t.pods = app[l].pods
        /\ t.ready = app[l].ready
    BY <1>3, RelabelOK DEF Relabel, Respecified
  <1> HIDE DEF t
  <1>5. next \in Label
    BY DEF Label
  <1>6. /\ pc'[l] = "idle" \/ (pc'[l] = next /\ e'[l] = e[l])
        /\ \/ PutTApp(t) /\ app[l] = TApp /\ app[l].replicas = Size
           \/ UNCHANGED tapps /\ pc'[l] = "idle" /\ (fresh' # {} => Len(tapps) = 1)
    BY <1>1, <1>4, <1>5, Updates
  <1>7. CASE UNCHANGED tapps /\ pc'[l] = "idle" /\ (fresh' # {} => Len(tapps) = 1)
    BY <1>2, <1>7, ReturnHolds
  <1>8. CASE PutTApp(t) /\ app[l] = TApp /\ app[l].replicas = Size
    <2>1. TrueReport(t, Members, disk)
      <3>1. TrueReport(TApp, Members, disk)
        BY Typed DEF OInv, ReportsTrue
      <3> QED BY <1>4, <1>8, <3>1 DEF TrueReport, Settled
    <2>2. \A k \in Loop : pc'[k] = "idle" \/ (pc'[k] \in {"labels", "learner"}
                                             /\ pc[k] # "idle" /\ e'[k] = e[k])
      BY <1>2, <1>6 DEF OnlyOne
    <2> QED BY <1>2, <1>3, <1>4, <1>8, <2>1, <2>2, Rewritten
  <1> QED BY <1>6, <1>7, <1>8

LEMMA ReportHolds == ASSUME OnlyOne, OInv, IInv', ReportStatus PROVE OInv'
  <1> DEFINE up == {i \in running : i < TApp.replicas}
             t == [replicas |-> TApp.replicas, pool |-> TApp.pool,
                   pods |-> TApp.replicas, ready |-> Cardinality(up)]
  <1>1. t # TApp /\ PutTApp(t) /\ UNCHANGED <<userVars, etcdVars, pc, e, app>>
    BY DEF ReportStatus
  <1>2. /\ Size \in 0 .. MaxSize /\ Size \in Nat /\ MaxSize \in Nat /\ TApp \in TAppVersion
        /\ running \subseteq Nat
    BY Typed DEF OInv, IInv, TypeOK, Index
  <1>3. IsFiniteSet(0 .. Size - 1) /\ Cardinality(0 .. Size - 1) = Size
    BY <1>2, Intervals
  <1>4. up \subseteq 0 .. Size - 1
    <2>1. TApp.replicas = Size
      BY DEF Size
    <2>2. \A i \in up : i \in Nat /\ i < Size
      BY <1>2, <2>1
    <2>3. \A i \in up : i \in 0 .. Size - 1
      <3> HIDE DEF up
      <3> QED BY <1>2, <2>2
    <2> QED BY <2>3
  <1>5. /\ IsFiniteSet(up) /\ Cardinality(up) \in Nat /\ Cardinality(up) <= Size
        /\ Cardinality(up) = Size => up = 0 .. Size - 1
    <2>1. /\ IsFiniteSet(up) /\ Cardinality(up) <= Cardinality(0 .. Size - 1)
          /\ Cardinality(up) = Cardinality(0 .. Size - 1) => up = 0 .. Size - 1
      BY <1>3, <1>4, FS_Subset
    <2> QED BY <1>3, <2>1, FS_CardinalityType
  <1>6. Cardinality(up) # 0 => up # {}
    BY FS_EmptySet
  <1>7. t \in TAppVersion /\ t.replicas = Size
    <2>1. Cardinality(up) \in 0 .. MaxSize
      BY <1>2, <1>5
    <2> QED BY <1>2, <2>1, TAppFields, TAppMade DEF Size
  <1>8. 0 < Size
    <2>1. SUFFICES ASSUME Size = 0 PROVE FALSE
      BY <1>2
    <2>2. tapps = <<NoTApp>>
      BY <2>1 DEF OInv, CacheInOrder
    <2>3. TApp = NoTApp
      BY <2>2 DEF TApp
    <2>4. Cardinality(up) = 0
      BY <1>5, <2>1
    <2> QED BY <1>1, <2>1, <2>3, <2>4 DEF NoTApp
  <1>9. TrueReport(t, Members, disk)
    <2>1. Cardinality(up) > 0 => 0 \in Members
      <3>1. Cardinality(up) > 0 => Members # {}
        <4>1. \A i \in up : i \in Members
          BY DEF OInv, Joined, IInv, TypeOK
        <4> QED BY <1>5, <1>6, <4>1
      <3>2. Members # {} => 0 \in Members
        BY <1>2 DEF OInv, InOrder, AreMembers
      <3> QED BY <3>1, <3>2
    <2>2. Settled(t) => \A i \in Members : i < Size => disk[i] = "own"
      <3>1. Settled(t) => up = 0 .. Size - 1
        BY <1>5, <1>7 DEF Settled
      <3>2. \A i \in Members : i < Size => i \in 0 .. Size - 1
        BY <1>2 DEF OInv, IInv, TypeOK, Members, Index
      <3> QED BY <3>1, <3>2 DEF OInv, Joined
    <2> QED BY <1>7, <2>1, <2>2 DEF TrueReport
  <1>10. \A i \in learners : i < Size => (t.pool[i].voting => TApp.pool[i].voting)
    OBVIOUS
  <1> HIDE DEF t
  <1> QED BY <1>1, <1>7, <1>8, <1>9, <1>10, Rewritten


-----------------------------------------------------------------------------
(***************************************************************************)
(* The steps of everything else.                                           *)
(***************************************************************************)
LEMMA EtcdSyncedHolds == ASSUME OnlyOne, OInv, IInv', EtcdSynced PROVE OInv'
  <1>1. seen < Len(versions) /\ seen' = seen + 1
        /\ UNCHANGED <<versions, tapps, etcdVars, loopVars, faults>>
    BY DEF EtcdSynced
  <1>2. /\ UNCHANGED <<tapps, voters, learners, running, disk, pc, e, app, fresh>>
        /\ TApp' = TApp /\ CachedTApp' = CachedTApp /\ Size' = Size /\ Members' = Members
        /\ Wanted' = Wanted
    BY <1>1 DEF etcdVars, loopVars, TApp, CachedTApp, Size, Members, Wanted
  <1>3. seen' = Len(versions)'
    BY <1>1, Typed DEF OInv, SpecInOrder
  <1>4. InOrder' /\ CacheInOrder' /\ SpecInOrder'
    BY <1>2, <1>3 DEF OInv, InOrder, CacheInOrder, SpecInOrder, AreMembers
  <1>5. ASSUME NEW l \in Loop PROVE LoopInOrder(l)'
    <2>1. LoopInOrder(l) /\ ~UpToDate(l)
      BY <1>1, Typed DEF OInv, UpToDate
    <2> QED BY <1>2, <2>1 DEF LoopInOrder, AreMembers
  <1>6. Joined' /\ ReportsTrue' /\ LabelsTrue'
    BY <1>2 DEF OInv, Joined, ReportsTrue, LabelsTrue, AreMembers
  <1> QED BY <1>4, <1>5, <1>6 DEF OInv

LEMMA TAppSyncedHolds == ASSUME OnlyOne, OInv, IInv', TAppSynced PROVE OInv'
  <1>1. Len(tapps) > 1 /\ tapps' = Tail(tapps) /\ UNCHANGED <<userVars, etcdVars, loopVars>>
    BY DEF TAppSynced
  <1>2. /\ UNCHANGED <<versions, seen, voters, learners, running, disk, pc, e, app, fresh>>
        /\ Members' = Members /\ Wanted' = Wanted /\ CachedSpec' = CachedSpec
    BY <1>1 DEF userVars, etcdVars, loopVars, Members, Wanted, CachedSpec
  <1>3. /\ Len(tapps') = Len(tapps) - 1 /\ Len(tapps) \in Nat \ {0}
        /\ \A k \in 1 .. Len(tapps') : tapps'[k] = tapps[k + 1]
        /\ TApp' = TApp /\ Size' = Size /\ CachedTApp' = tapps[2]
    BY <1>1, Typed DEF TApp, Size, CachedTApp, OInv, IInv, TypeOK
  <1>4. InOrder'
    BY <1>2, <1>3 DEF OInv, InOrder, AreMembers
  <1>5. \A k \in 1 .. Len(tapps') : tapps'[k].replicas = Size
    BY <1>3 DEF OInv, CacheInOrder
  <1>6. CacheInOrder'
    <2>1. Size # 0 /\ fresh = {}
      <3>1. Len(<<NoTApp>>) = 1
        OBVIOUS
      <3> QED BY <1>1, <3>1 DEF OInv, CacheInOrder
    <2>2. CachedTApp'.replicas = Size
      BY <1>1, <1>3 DEF OInv, CacheInOrder
    <2> QED BY <1>2, <1>3, <1>5, <2>1, <2>2 DEF CacheInOrder
  <1>7. \A s : BeforeEdit(s, Size, Members, tapps) => BeforeEdit(s, Size', Members', tapps')
    BY <1>2, <1>3, <1>5 DEF BeforeEdit
  <1>8. SpecInOrder'
    BY <1>2, <1>7 DEF OInv, SpecInOrder
  <1>9. ASSUME NEW l \in Loop PROVE LoopInOrder(l)'
    <2>1. CachedTApp'.replicas = Size
      BY <1>1, <1>3 DEF OInv, CacheInOrder
    <2> QED BY <1>2, <1>3, <1>7, <2>1 DEF OInv, LoopInOrder, UpToDate, AreMembers
  <1>10. Joined' /\ LabelsTrue'
    BY <1>2, <1>3 DEF OInv, Joined, LabelsTrue, AreMembers
  <1>11. ReportsTrue'
    BY <1>2, <1>3 DEF OInv, ReportsTrue
  <1> QED BY <1>4, <1>6, <1>8, <1>9, <1>10, <1>11 DEF OInv

LEMMA RestartHolds == ASSUME OnlyOne, OInv, IInv', Restart PROVE OInv'
  <1>1. /\ \A l \in Loop : pc'[l] = "idle"
        /\ fresh' = {} /\ seen' = Len(versions) /\ tapps' = <<TApp>>
        /\ UNCHANGED <<versions, voters, learners, running, disk>>
    BY DEF Restart, etcdVars
  <1>2. /\ TApp' = TApp /\ CachedTApp' = TApp /\ Size' = Size /\ Members' = Members
        /\ Wanted' = Wanted /\ Len(tapps') = 1 /\ tapps'[1] = TApp
    BY <1>1 DEF TApp, CachedTApp, Size, Members, Wanted
  <1>3. InOrder' /\ SpecInOrder'
    BY <1>1, <1>2 DEF OInv, InOrder, SpecInOrder, AreMembers
  <1>4. CacheInOrder'
    <2>1. Size = 0 => TApp = NoTApp
      <3>1. tapps = <<NoTApp>> => TApp = NoTApp
        BY DEF TApp
      <3> QED BY <3>1 DEF OInv, CacheInOrder
    <2> QED BY <1>1, <1>2, <2>1 DEF CacheInOrder, Size
  <1>5. \A l \in Loop : LoopInOrder(l)'
    BY <1>1 DEF LoopInOrder, Scaling, Removing
  <1>6. Joined' /\ LabelsTrue'
    BY <1>1, <1>2 DEF OInv, Joined, LabelsTrue, AreMembers
  <1>7. ReportsTrue'
    <2>1. TrueReport(TApp, Members, disk)
      BY Typed DEF OInv, ReportsTrue
    <2> QED BY <1>1, <1>2, <2>1 DEF ReportsTrue, Scaling
  <1> QED BY <1>3, <1>4, <1>5, <1>6, <1>7 DEF OInv

LEMMA EditHolds ==
    ASSUME OnlyOne, Patient, OInv, IInv', NEW s \in Specs, Edit(s)
    PROVE  OInv'
  <1>1. /\ Quiet /\ s # Wanted /\ versions' = Append(versions, s)
        /\ UNCHANGED <<seen, tapps, voters, learners, running, disk, pc, e, app, fresh>>
    BY DEF Edit, etcdVars, loopVars
  <1>2. /\ Size = Wanted.size /\ Members = 0 .. Size - 1 /\ running = Members
        /\ seen = Len(versions) /\ Len(tapps) = 1 /\ \A l \in Loop : pc[l] = "idle"
    BY <1>1 DEF Quiet, Converged, Size
  <1>3. /\ Len(versions') = Len(versions) + 1 /\ Wanted' = s /\ CachedSpec' = Wanted
        /\ Len(versions) \in Nat \ {0}
    BY <1>1, <1>2, Typed DEF OInv, IInv, TypeOK, Wanted, CachedSpec
  <1>4. /\ TApp' = TApp /\ CachedTApp' = CachedTApp /\ Size' = Size /\ Members' = Members
        /\ Size \in Nat /\ tapps[1] = TApp /\ CachedTApp = TApp /\ TApp.replicas = Size
    BY <1>1, <1>2, Typed DEF OInv, TApp, CachedTApp, Size, Members
  <1>5. InOrder' /\ CacheInOrder'
    BY <1>1, <1>2, <1>4 DEF OInv, InOrder, CacheInOrder, AreMembers
  <1>6. BeforeEdit(Wanted, Size, Members, tapps)
    BY <1>2, <1>4 DEF BeforeEdit
  <1>7. SpecInOrder'
    BY <1>1, <1>2, <1>3, <1>4, <1>6 DEF SpecInOrder
  <1>8. \A l \in Loop : LoopInOrder(l)' /\ pc'[l] \notin Scaling
    BY <1>1, <1>2 DEF LoopInOrder, Scaling, Removing
  <1>9. \A i \in Members : disk[i] = "own"
    BY <1>2 DEF OInv, Joined
  <1>10. Joined'
    BY <1>1, <1>4, <1>9 DEF OInv, Joined
  <1>11. ReportsTrue'
    BY <1>1, <1>4, <1>8 DEF OInv, ReportsTrue
  <1>12. LabelsTrue'
    <2>1. \A i \in learners : i < Size
      BY <1>2, <1>4 DEF Members
    <2> QED BY <1>1, <1>4, <2>1 DEF OInv, LabelsTrue
  <1> QED BY <1>5, <1>7, <1>8, <1>10, <1>11, <1>12 DEF OInv

\* Processes start and stop; a volume gets its member's data.
LEMMA Processes ==
    ASSUME OnlyOne, OInv, IInv', UNCHANGED <<userVars, tapps, loopVars, learners>>,
           Members' = Members,
           \A i \in Index : disk'[i] = "own" => i \in Members,
           \A i \in running' : disk'[i] = "own",
           \A i \in Members : disk[i] = "own" => disk'[i] = "own"
    PROVE  OInv'
  <1>1. /\ UNCHANGED <<versions, seen, tapps, pc, e, app, fresh>>
        /\ TApp' = TApp /\ CachedTApp' = CachedTApp /\ Size' = Size
        /\ Wanted' = Wanted /\ CachedSpec' = CachedSpec
    BY DEF userVars, loopVars, TApp, CachedTApp, Size, Wanted, CachedSpec
  <1>2. InOrder' /\ CacheInOrder' /\ SpecInOrder'
    BY <1>1 DEF OInv, InOrder, CacheInOrder, SpecInOrder, AreMembers
  <1>3. \A l \in Loop : LoopInOrder(l)'
    BY <1>1 DEF OInv, LoopInOrder, UpToDate, AreMembers
  <1>4. Joined'
    BY <1>1 DEF OInv, Joined, AreMembers
  <1>5. \A t : TrueReport(t, Members, disk) => TrueReport(t, Members', disk')
    BY DEF TrueReport
  <1>6. ReportsTrue' /\ LabelsTrue'
    BY <1>1, <1>5 DEF OInv, ReportsTrue, LabelsTrue
  <1> QED BY <1>2, <1>3, <1>4, <1>6 DEF OInv

\* Instance 0 starts the cluster.
LEMMA Bootstraps ==
    ASSUME OnlyOne, OInv, IInv', UNCHANGED <<userVars, tapps, loopVars, learners>>,
           Members = {}, 0 < Size, Members' = {0}, running' = running \cup {0},
           disk' = [disk EXCEPT ![0] = "own"]
    PROVE  OInv'
  <1>1. /\ UNCHANGED <<versions, seen, tapps, pc, e, app, fresh>>
        /\ TApp' = TApp /\ CachedTApp' = CachedTApp /\ Size' = Size
        /\ Wanted' = Wanted /\ CachedSpec' = CachedSpec
    BY DEF userVars, loopVars, TApp, CachedTApp, Size, Wanted, CachedSpec
  <1>2. /\ Size \in Nat /\ Wanted.size \in Nat \ {0} /\ CachedTApp.replicas \in Nat
        /\ \A l \in Loop : app[l].replicas \in Nat /\ e[l].size \in Nat
    BY Typed DEF OInv
  <1>3. \A n \in Nat : AreMembers(n) => n = 0
    <2>1. \A n \in Nat : n # 0 => 0 \in 0 .. n - 1
      OBVIOUS
    <2> QED BY <2>1 DEF AreMembers
  <1>4. Size = 1
    <2>1. Size + 1 \in Nat /\ Size - 1 \in Nat
      BY <1>2
    <2> QED BY <1>2, <1>3, <2>1 DEF OInv, InOrder
  <1>5. InOrder' /\ AreMembers(Size)'
    BY <1>1, <1>4 DEF InOrder, AreMembers
  <1>6. CacheInOrder'
    BY <1>1, <1>2, <1>3, <1>4, <1>5 DEF OInv, CacheInOrder
  <1>7. \A s : ~BeforeEdit(s, Size, Members, tapps)
    BY <1>2, <1>3, <1>4 DEF BeforeEdit, AreMembers
  <1>8. SpecInOrder'
    BY <1>1, <1>7 DEF OInv, SpecInOrder
  <1>9. \A l \in Loop : pc[l] \notin {"addList", "add", "grow", "removeList", "remove",
                                      "shrink", "pvc"}
    <2>1. SUFFICES ASSUME NEW l \in Loop,
                          pc[l] \in {"addList", "add", "grow", "removeList", "remove",
                                     "shrink", "pvc"}
                   PROVE  FALSE
      OBVIOUS
    <2>2. /\ 0 < app[l].replicas
          /\ pc[l] \in {"removeList", "remove", "shrink"} => Wanted.size < app[l].replicas
      BY <2>1, Scaler DEF Scaling, Removing
    <2>3. ~AreMembers(1) /\ ~AreMembers(2)
      BY <1>3
    <2> QED BY <1>2, <1>4, <2>1, <2>2, <2>3 DEF OInv, LoopInOrder
  <1>10. \A l \in Loop : LoopInOrder(l)'
    BY <1>1, <1>7, <1>9 DEF OInv, LoopInOrder, UpToDate, Scaling, Removing
  <1>11. /\ disk'[0] = "own" /\ \A i \in Index \ {0} : disk'[i] = disk[i]
         /\ \A i \in Index : disk[i] # "own"
         /\ running = {}
    BY Typed DEF OInv, IInv, TypeOK, Joined, Index
  <1>12. Joined' /\ LabelsTrue'
    BY <1>1, <1>11 DEF OInv, Joined, LabelsTrue
  <1>13. \A t : TrueReport(t, Members', disk')
    BY <1>11 DEF TrueReport
  <1>14. ReportsTrue'
    BY <1>13 DEF ReportsTrue
  <1> QED BY <1>5, <1>6, <1>8, <1>10, <1>12, <1>14 DEF OInv

LEMMA PodsHold ==
    ASSUME OnlyOne, OInv, IInv', NEW i \in Index, PodStart(i) \/ PodDelete(i) \/ PodCrash(i)
    PROVE  OInv'
  <1>1. /\ disk \in [Index -> {"none", "own", "old"}] /\ running \subseteq Index
        /\ Members \subseteq Index /\ Size \in Nat /\ i \in Nat
        /\ \A j \in Index : disk[j] = "own" => j \in Members
        /\ \A j \in running : disk[j] = "own"
    <2>1. i \in Nat /\ Size \in Nat
      BY Typed DEF OInv, Index
    <2> QED BY <2>1 DEF OInv, IInv, TypeOK, Members, Joined
  <1>2. CASE PodDelete(i) \/ PodCrash(i)
    <2>1. /\ UNCHANGED <<userVars, tapps, loopVars, learners, voters, disk>>
          /\ running' \subseteq running
      BY <1>2 DEF PodDelete, PodCrash
    <2>2. Members' = Members
      BY <2>1 DEF Members
    <2> QED BY <1>1, <2>1, <2>2, Processes
  <1>3. CASE PodStart(i)
    <2>1. /\ UNCHANGED <<userVars, tapps, loopVars, learners>> /\ i < Size
          /\ running' = running \cup {i} /\ disk' = [disk EXCEPT ![i] = "own"]
          /\ \/ i = 0 /\ disk[i] = "none" /\ voters = {} /\ voters' = {i}
             \/ i \in Members /\ voters' = voters
      BY <1>1, <1>3 DEF PodStart, Size
    <2>2. CASE i \in Members /\ Members' = Members
      BY <1>1, <2>1, <2>2, Processes
    <2>3. CASE i = 0 /\ voters = {} /\ voters' = {i} /\ disk[i] = "none"
      <3>1. CASE Members = {}
        <4>1. Members' = {0}
          BY <2>1, <2>3, <3>1 DEF Members
        <4> QED BY <2>1, <2>3, <3>1, <4>1, <1>1, Bootstraps
      <3>2. CASE Members # {}
        <4>1. 0 \in Members
          <5>1. \A n \in Int : AreMembers(n) => 0 \in Members
            BY <3>2 DEF AreMembers
          <5>2. Size + 1 \in Int /\ Size - 1 \in Int /\ Size \in Int
            BY <1>1
          <5> QED BY <5>1, <5>2 DEF OInv, InOrder
        <4>2. Members' = Members
          BY <2>1, <2>3, <4>1 DEF Members
        <4> QED BY <2>2, <2>3, <4>1, <4>2
      <3> QED BY <3>1, <3>2
    <2>4. voters' = voters => Members' = Members
      BY <2>1 DEF Members
    <2> QED BY <2>1, <2>2, <2>3, <2>4
  <1> QED BY <1>2, <1>3


LEMMA StutterHolds == ASSUME OnlyOne, OInv, IInv', UNCHANGED vars PROVE OInv'
  <1>1. UNCHANGED <<userVars, tapps, loopVars, learners>> /\ Members' = Members
        /\ UNCHANGED <<running, disk>>
    BY DEF vars, userVars, loopVars, Members
  <1>2. /\ \A i \in Index : disk[i] = "own" => i \in Members
        /\ \A i \in running : disk[i] = "own"
    BY DEF OInv, Joined
  <1> QED BY <1>1, <1>2, Processes

LEMMA InitHolds == ASSUME Init PROVE OInv
  <1>1. /\ seen = 1 /\ Len(versions) = 1 /\ tapps = <<NoTApp>> /\ Members = {}
        /\ learners = {} /\ running = {} /\ fresh = {}
        /\ \A i \in Index : disk[i] = "none"
        /\ \A l \in Loop : pc[l] = "idle"
    BY DEF Init, Members
  <1>2. Size = 0 /\ CachedTApp.replicas = 0 /\ Len(tapps) = 1 /\ tapps[1] = NoTApp
    BY <1>1 DEF Size, TApp, CachedTApp, NoTApp
  <1>3. InOrder /\ SpecInOrder
    BY <1>1, <1>2 DEF InOrder, SpecInOrder, AreMembers
  <1>4. CacheInOrder
    BY <1>1, <1>2 DEF CacheInOrder
  <1>5. \A l \in Loop : LoopInOrder(l)
    BY <1>1 DEF LoopInOrder, Scaling, Removing
  <1>6. Joined /\ LabelsTrue
    BY <1>1 DEF Joined, LabelsTrue
  <1>7. TrueReport(NoTApp, Members, disk)
    BY <1>1 DEF TrueReport, NoTApp
  <1>8. ReportsTrue
    BY <1>1, <1>2, <1>7 DEF ReportsTrue, Scaling
  <1> QED BY <1>3, <1>4, <1>5, <1>6, <1>8, InitOK DEF OInv

LEMMA NextHolds == ASSUME OnlyOne, Patient, OInv, [Next]_vars PROVE OInv'
  <1>1. IInv'
    BY NextOK DEF OInv
  <1>2. ASSUME NEW l \in Loop, Step(l) PROVE OInv'
    BY <1>1, <1>2, BeginHolds, CreateHolds, ReadHolds, AddListHolds, AddHolds, GrowHolds,
       RemoveListHolds, RemoveHolds, ShrinkHolds, DeletePVCHolds, TemplateHolds, LabelsHold,
       RelabelHolds, PromoteHolds DEF Step
  <1> QED BY <1>1, <1>2, EtcdSyncedHolds, TAppSyncedHolds, RestartHolds, ReportHolds, PodsHold,
             EditHolds, StutterHolds DEF Next

-----------------------------------------------------------------------------
(***************************************************************************)
(* What follows.                                                           *)
(***************************************************************************)
\* With one loop and a patient user, pods, members, caches and the loop's copies stay
\* in step, as OInv says, whatever fails.
THEOREM OrderInvariance == ASSUME OnlyOne, Patient PROVE Spec => []OInv
  <1>1. OInv /\ [Next]_vars => OInv'
    BY NextHolds
  <1> QED BY <1>1, InitHolds, PTL DEF Spec

\* A scaling is over in etcd and in the TApp before the next begins: pods and members
\* differ by one at most.
THEOREM PodsFollow == ASSUME OnlyOne, Patient PROVE Spec => []PodsFollowMembers
  <1>1. OInv => PodsFollowMembers
    <2>1. SUFFICES ASSUME OInv PROVE Cardinality(Members) - Size \in {-1, 0, 1}
      BY DEF PodsFollowMembers, Size
    <2>2. Size \in Nat /\ Wanted.size \in Nat
      BY <2>1, Typed DEF OInv
    <2>3. \A n \in Nat : AreMembers(n) => Cardinality(Members) = n
      BY Counted
    <2>4. CASE AreMembers(Size)
      BY <2>2, <2>3, <2>4
    <2>5. CASE AreMembers(Size + 1)
      BY <2>2, <2>3, <2>5
    <2>6. CASE AreMembers(Size - 1) /\ Wanted.size < Size
      BY <2>2, <2>3, <2>6
    <2>7. CASE AreMembers(0) /\ Size = 1
      BY <2>3, <2>7
    <2> QED BY <2>1, <2>4, <2>5, <2>6, <2>7 DEF OInv, InOrder
  <1> QED BY <1>1, OrderInvariance, PTL

LEMMA AtMostOne ==
    ASSUME NEW S, \A i, j \in S : i = j
    PROVE  Cardinality(S) <= 1
  <1>1. CASE S = {}
    BY <1>1, FS_EmptySet
  <1>2. CASE S # {}
    <2>1. PICK i : i \in S
      BY <1>2
    <2>2. S = {i}
      BY <2>1
    <2>3. Cardinality({i}) = 1
      BY FS_Singleton
    <2> QED BY <2>2, <2>3
  <1> QED BY <1>1, <1>2

\* A member is added only when the one before it has started, so that the cluster
\* never waits for two.
THEOREM OneJoins == ASSUME OnlyOne, Patient PROVE Spec => []OneUnstartedMember
  <1>1. OInv => OneUnstartedMember
    <2>1. SUFFICES ASSUME OInv PROVE OneUnstartedMember
      OBVIOUS
    <2> DEFINE S == {i \in Members : disk[i] # "own"}
    <2>2. \A i, j \in S : i = j
      <3>1. \A i \in S : i \in Nat /\ AreMembers(i + 1)
        BY <2>1 DEF OInv, Joined, IInv, TypeOK, Members, Index
      <3>2. \A i, j \in Nat : AreMembers(i + 1) /\ AreMembers(j + 1) => i = j
        BY DEF AreMembers
      <3> QED BY <3>1, <3>2
    <2>3. Cardinality(S) <= 1
      <3> HIDE DEF S
      <3> QED BY <2>2, AtMostOne
    <2> QED BY <2>3 DEF OneUnstartedMember
  <1> QED BY <1>1, OrderInvariance, PTL

\* "only voting members can be accessed by the client": the pod of a learner is made
\* without the label, and is labelled only when no learner is left.
THEOREM LearnersHidden == ASSUME OnlyOne, Patient PROVE Spec => []LearnersUnlabelled
  <1>1. OInv => LearnersUnlabelled
    <2>1. SUFFICES ASSUME OInv, NEW i \in Endpoints \cap learners PROVE FALSE
      BY DEF LearnersUnlabelled
    <2>2. i < Size /\ TApp.pool[i].voting
      BY DEF Endpoints, Size
    <2> QED BY <2>1, <2>2 DEF OInv, LabelsTrue
  <1> QED BY <1>1, OrderInvariance, PTL

\* "ensure new member add": for such a user the replica that is added is a member,
\* which it need not be for one who edits the spec while the cluster changes.
THEOREM GrowsAMember == ASSUME OnlyOne, Patient PROVE Spec => GrownReplicaIsMember
  <1>1. OInv /\ [Next]_vars
           => [0 < TApp.replicas /\ TApp.replicas < TApp'.replicas
                 => TApp.replicas \in Members]_vars
    <2>1. SUFFICES ASSUME OInv, [Next]_vars, 0 < TApp.replicas, TApp.replicas < TApp'.replicas
                   PROVE  TApp.replicas \in Members
      OBVIOUS
    <2>2. PICK l \in Loop : Grow(l) /\ l \in fresh
      BY <2>1, GrowStep DEF OInv
    <2>3. app[l].replicas = Size /\ pc[l] = "grow" /\ Size \in Nat
      BY <2>1, <2>2, FreshAlone, Typed DEF Grow, OInv, Size
    <2>4. AreMembers(Size + 1)
      BY <2>1, <2>3 DEF OInv, LoopInOrder
    <2> QED BY <2>3, <2>4 DEF AreMembers, Size
  <1> QED BY <1>1, OrderInvariance, PTL DEF Spec, GrownReplicaIsMember

-----------------------------------------------------------------------------
(***************************************************************************)
(* The refinement of ElasticCluster, but for its progress.                 *)
(***************************************************************************)
LEMMA JoinStep ==
    ASSUME OInv, NEW l \in Loop, MemberAdd(l)
    PROVE  Elastic!Join \/ UNCHANGED <<Wanted, Members>>
  <1> DEFINE n == app[l].replicas
  <1>1. pc[l] = "add" /\ pc[l] \in Scaling /\ Wanted' = Wanted
    BY DEF MemberAdd, Scaling, userVars, Wanted
  <1>2. n = Size /\ AreMembers(Size) /\ n < Wanted.size /\ Size \in Nat /\ Wanted.size \in Nat
    BY <1>1, Scaler, Typed DEF OInv, LoopInOrder
  <1>3. Members' = Members \/ Members' = Members \cup {n}
    BY DEF MemberAdd, Change, Call, Members
  <1>4. Members = 0 .. n - 1 /\ n \in 0 .. Wanted.size - 1
    BY <1>2 DEF AreMembers
  <1>5. CASE Members' = Members \cup {n}
    <2>1. Members' = 0 .. n
      BY <1>2, <1>4, <1>5
    <2> QED BY <1>1, <1>4, <2>1 DEF Elastic!Join
  <1> QED BY <1>1, <1>3, <1>5

LEMMA LeaveStep ==
    ASSUME OInv, NEW l \in Loop, MemberRemove(l)
    PROVE  Elastic!Leave \/ UNCHANGED <<Wanted, Members>>
  <1> DEFINE n == LastInstance(l)
  <1>1. pc[l] = "remove" /\ pc[l] \in Removing /\ pc[l] \notin Scaling /\ Wanted' = Wanted
    BY DEF MemberRemove, Scaling, Removing, userVars, Wanted
  <1>2. /\ n = Size - 1 /\ AreMembers(Size) /\ Wanted.size < Size
        /\ Size \in 0 .. MaxSize /\ Size \in Nat /\ MaxSize \in Nat /\ Wanted.size \in Nat
    BY <1>1, Scaler, Typed DEF OInv, LoopInOrder, LastInstance
  <1>3. Members' = Members \/ Members' = Members \ {n}
    BY DEF MemberRemove, Change, Call, Members, etcdVars
  <1> HIDE DEF n
  <1>4. Members = 0 .. n /\ n \in Wanted.size .. MaxSize - 1
    BY <1>2 DEF AreMembers
  <1>5. CASE Members' = Members \ {n}
    <2>1. Members' = 0 .. n - 1
      BY <1>2, <1>4, <1>5
    <2> QED BY <1>1, <1>4, <2>1 DEF Elastic!Leave
  <1> QED BY <1>1, <1>3, <1>5

LEMMA PodsStep ==
    ASSUME OInv, NEW i \in Index, PodStart(i) \/ PodDelete(i) \/ PodCrash(i)
    PROVE  Elastic!Join \/ UNCHANGED <<Wanted, Members>>
  <1>1. Wanted' = Wanted /\ Wanted.size \in Nat \ {0}
    BY Typed DEF OInv, PodStart, PodDelete, PodCrash, userVars, Wanted
  <1>2. Members' = Members \/ Members' = Members \cup {0}
    BY DEF PodStart, PodDelete, PodCrash, Members
  <1>3. CASE Members = {} /\ Members' = Members \cup {0}
    <2>1. Members = 0 .. 0 - 1 /\ Members' = 0 .. 0 /\ 0 \in 0 .. Wanted.size - 1
      BY <1>1, <1>3
    <2> QED BY <1>1, <2>1 DEF Elastic!Join
  <1>4. CASE Members # {}
    <2>1. 0 \in Members
      <3>1. \A n \in Int : AreMembers(n) => 0 \in Members
        BY <1>4 DEF AreMembers
      <3>2. Size + 1 \in Int /\ Size - 1 \in Int /\ Size \in Int
        BY Typed DEF OInv
      <3> QED BY <3>1, <3>2 DEF OInv, InOrder
    <2> QED BY <1>1, <1>2, <2>1
  <1> QED BY <1>1, <1>2, <1>3, <1>4

LEMMA ResizeStep ==
    ASSUME Patient, OInv, NEW s \in Specs, Edit(s)
    PROVE  Elastic!Resize
  <1>1. Members = 0 .. Wanted.size - 1 /\ versions' = Append(versions, s) /\ Members' = Members
    BY DEF Edit, Quiet, Converged, etcdVars, Members
  <1>2. Wanted' = s /\ s.size \in 1 .. MaxSize
    BY <1>1, SpecFields DEF OInv, IInv, TypeOK, Wanted
  <1> QED BY <1>1, <1>2 DEF Elastic!Resize

LEMMA ElasticStep ==
    ASSUME Patient, OInv, [Next]_vars
    PROVE  [Elastic!Next]_(Elastic!vars)
  <1>1. CASE UNCHANGED <<Wanted, Members>>
    BY <1>1 DEF Elastic!vars
  <1>2. ASSUME NEW l \in Loop, Step(l)
        PROVE  Elastic!Join \/ Elastic!Leave \/ UNCHANGED <<Wanted, Members>>
    <2>1. Promote(l) => UNCHANGED <<Wanted, Members>>
      BY DEF Promote, Change, Call, Members, userVars, Wanted
    <2>2. CASE MemberAdd(l) \/ MemberRemove(l) \/ Promote(l)
      BY <2>1, <2>2, JoinStep, LeaveStep
    <2>3. CASE ~(MemberAdd(l) \/ MemberRemove(l) \/ Promote(l))
      BY <1>2, <2>3 DEF Step, Wanted, Members, userVars, etcdVars, Begin, CreateTApp, ReadTApp,
                        AddList, Grow, RemoveList, Shrink, DeletePVC, UpdateTemplate, Labels,
                        RelabelTApp
    <2> QED BY <2>2, <2>3
  <1>3. CASE EtcdSynced \/ TAppSynced \/ ReportStatus \/ Restart \/ UNCHANGED vars
    <2>1. UNCHANGED <<Wanted, Members>>
      BY <1>3 DEF EtcdSynced, TAppSynced, ReportStatus, Restart, vars, userVars, etcdVars,
                  Wanted, Members
    <2> QED BY <1>1, <2>1
  <1>4. ASSUME Elastic!Join \/ Elastic!Leave \/ Elastic!Resize PROVE Elastic!Next
    BY <1>4 DEF Elastic!Next
  <1> QED BY <1>1, <1>2, <1>3, <1>4, PodsStep, ResizeStep DEF Next

\* A cluster whose user waits takes only the steps of ElasticCluster: every change of
\* the membership is a join at the end or a leave from it, towards the size asked for.
THEOREM RefinesElastic == ASSUME OnlyOne, Patient PROVE Spec => Elastic!Steps
  <1>1. Init => Elastic!Init
    <2>1. SUFFICES ASSUME Init PROVE Elastic!Init
      OBVIOUS
    <2>2. PICK s \in Specs : versions = <<s>>
      BY <2>1, ScalingAssumption DEF Init
    <2>3. Wanted = s /\ Members = {}
      BY <2>1, <2>2 DEF Init, Wanted, Members
    <2> QED BY <2>3, SpecFields DEF Elastic!Init
  <1>2. OInv /\ [Next]_vars => [Elastic!Next]_(Elastic!vars)
    BY ElasticStep
  <1> QED BY <1>1, <1>2, OrderInvariance, PTL DEF Spec, Elastic!Steps
=============================================================================
