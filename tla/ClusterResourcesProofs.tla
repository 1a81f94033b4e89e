---------------------- MODULE ClusterResourcesProofs ----------------------
(***************************************************************************)
(* What holds of ClusterResources for every set of loops, certificates and *)
(* specs, whatever the lag of the informers and the number of faults.      *)
(***************************************************************************)
EXTENDS ClusterResources, SequenceTheorems, TLAPS

-----------------------------------------------------------------------------
(***************************************************************************)
(* The inductive invariant.  A loop acts on what its informers have cached *)
(* but is judged by what the API server has: the invariant says what an    *)
(* older version tells of the current one.                                 *)
(***************************************************************************)
Versions(s) == {s[k] : k \in 1 .. Len(s)}

\* A service that was there is there; nothing deletes one.
ServicesStay ==
    \A s \in Versions(services) : /\ s.headless => Services.headless
                                  /\ s.access # "none" => Services.access # "none"

\* So are the secrets, until somebody deletes one; there never was another CA.
SecretsStay ==
    deletes = 0 =>
        \A s \in Versions(secrets) :
            /\ s.ca \in {0, Secrets.ca}
            /\ \A t \in Cert : s.cert[t] # NoCert => Secrets.cert[t] # NoCert

\* No certificate comes before its CA, and a loop signs with no other.
SignedByTheCA ==
    deletes = 0 =>
        /\ \A t \in Cert : Secrets.cert[t] # NoCert => /\ Secrets.ca > 0
                                                       /\ Secrets.cert[t].ca = Secrets.ca
        /\ \A l \in Loop : pc[l] = "cert" => signer[l] = Secrets.ca

\* What a loop has passed exists.
ServicesPassed ==
    \A l \in Loop :
        /\ pc[l] \notin {"idle", "headless"} => Services.headless
        /\ pc[l] \in {"poll", "ca", "cert", "tapp"} => Services.access # "none"
SecretsPassed ==
    deletes = 0 =>
        \A l \in Loop :
            /\ pc[l] = "tapp" => \A t \in e[l].auto : Secrets.cert[t] # NoCert
            /\ pc[l] = "cert" => \A t \in e[l].auto \ todo[l] : Secrets.cert[t] # NoCert

\* Until the first edit everyone means the same type of service.
AsCreated ==
    edits = 0 =>
        /\ \A l \in Loop : e[l] = spec
        /\ \A s \in Versions(services) : s.access \in {"none", AccessType(spec)}

IInv ==
    /\ TypeOK /\ ServicesStay /\ SecretsStay /\ SignedByTheCA
    /\ ServicesPassed /\ SecretsPassed /\ AsCreated /\ AddressKnown

-----------------------------------------------------------------------------
(***************************************************************************)
(* Versions.                                                               *)
(***************************************************************************)
LEMMA VersionsHave ==
    ASSUME NEW S, NEW s \in Seq(S), Len(s) \in 1 .. MaxLag + 1
    PROVE  /\ s[1] \in Versions(s) /\ Last(s) \in Versions(s)
           /\ Versions(s) \subseteq S
  <1>1. MaxLag \in Nat
    BY ResourcesAssumption
  <1>2. 1 \in 1 .. Len(s) /\ Len(s) \in 1 .. Len(s)
    BY <1>1
  <1>3. \A k \in 1 .. Len(s) : s[k] \in S
    BY ElementOfSeq
  <1> QED BY <1>2, <1>3 DEF Versions, Last

LEMMA Written ==
    ASSUME NEW S, NEW s \in Seq(S), Len(s) \in 1 .. MaxLag + 1, Len(s) <= MaxLag, NEW x \in S
    PROVE  LET q == Append(s, x)
           IN  /\ q \in Seq(S) /\ Len(q) \in 1 .. MaxLag + 1
               /\ q[1] = s[1] /\ Last(q) = x
               /\ Versions(q) = Versions(s) \cup {x}
  <1>0. MaxLag \in Nat /\ Len(s) \in Nat
    BY ResourcesAssumption, LenProperties
  <1> DEFINE q == Append(s, x)
  <1>1. /\ q \in Seq(S) /\ Len(q) = Len(s) + 1
        /\ \A k \in 1 .. Len(s) : q[k] = s[k]
        /\ q[Len(s) + 1] = x
    BY AppendProperties
  <1> HIDE DEF q
  <1>2. Len(q) \in 1 .. MaxLag + 1 /\ q[1] = s[1] /\ Last(q) = x
    BY <1>0, <1>1 DEF Last
  <1>3. Versions(q) = Versions(s) \cup {x}
    <2>1. 1 .. Len(q) = (1 .. Len(s)) \cup {Len(s) + 1}
      BY <1>0, <1>1
    <2> QED BY <2>1, <1>1 DEF Versions
  <1> QED BY <1>1, <1>2, <1>3 DEF q

LEMMA Delivered ==
    ASSUME NEW S, NEW s \in Seq(S), Len(s) \in 1 .. MaxLag + 1, Len(s) > 1
    PROVE  LET q == Tail(s)
           IN  /\ q \in Seq(S) /\ Len(q) \in 1 .. MaxLag + 1
               /\ Last(q) = Last(s)
               /\ Versions(q) \subseteq Versions(s)
  <1>0. MaxLag \in Nat /\ Len(s) \in Nat
    BY ResourcesAssumption, LenProperties
  <1> DEFINE q == Tail(s)
  <1>1. s # <<>>
    BY EmptySeq
  <1>2. q \in Seq(S) /\ Len(q) = Len(s) - 1 /\ \A k \in 1 .. Len(q) : q[k] = s[k + 1]
    BY <1>1, HeadTailProperties
  <1> HIDE DEF q
  <1>3. Len(q) \in 1 .. MaxLag + 1 /\ Last(q) = Last(s)
    BY <1>0, <1>2 DEF Last
  <1>4. Versions(q) \subseteq Versions(s)
    <2>1. \A k \in 1 .. Len(q) : k + 1 \in 1 .. Len(s)
      BY <1>0, <1>2
    <2> QED BY <2>1, <1>2 DEF Versions
  <1> QED BY <1>2, <1>3, <1>4 DEF q

LEMMA Relisted ==
    ASSUME NEW S, NEW x \in S
    PROVE  LET q == <<x>>
           IN  /\ q \in Seq(S) /\ Len(q) \in 1 .. MaxLag + 1
               /\ q[1] = x /\ Last(q) = x /\ Versions(q) = {x}
  BY ResourcesAssumption DEF Last, Versions

LEMMA NowAndCached ==
    ASSUME TypeOK
    PROVE  /\ Services \in ServicesType /\ services[1] \in ServicesType
           /\ Services \in Versions(services) /\ services[1] \in Versions(services)
           /\ Secrets \in SecretsType /\ secrets[1] \in SecretsType
           /\ Secrets \in Versions(secrets) /\ secrets[1] \in Versions(secrets)
  BY VersionsHave DEF TypeOK, Services, Secrets

LEMMA ServicesPut ==
    ASSUME TypeOK, NEW x \in ServicesType, PutServices(x)
    PROVE  /\ services' \in Seq(ServicesType) /\ Len(services') \in 1 .. MaxLag + 1
           /\ Services' = x
           /\ Versions(services)' = Versions(services) \cup {x}
  BY Written DEF TypeOK, PutServices, Services

LEMMA SecretsPut ==
    ASSUME TypeOK, NEW x \in SecretsType, PutSecrets(x)
    PROVE  /\ secrets' \in Seq(SecretsType) /\ Len(secrets') \in 1 .. MaxLag + 1
           /\ Secrets' = x
           /\ Versions(secrets)' = Versions(secrets) \cup {x}
  BY Written DEF TypeOK, PutSecrets, Secrets

LEMMA TAppPut ==
    ASSUME TypeOK, PutTApp
    PROVE  tapps' \in Seq(BOOLEAN) /\ Len(tapps') \in 1 .. MaxLag + 1
  BY Written, TRUE \in BOOLEAN DEF TypeOK, PutTApp

LEMMA HeadlessChanged ==
    ASSUME NEW s \in ServicesType, NEW b \in BOOLEAN
    PROVE  LET q == [s EXCEPT !.headless = b]
           IN  /\ q \in ServicesType /\ q.headless = b
               /\ q.access = s.access /\ q.address = s.address
  BY DEF ServicesType

LEMMA AccessChanged ==
    ASSUME NEW s \in ServicesType, NEW a \in {"none", "ClusterIP", "LoadBalancer"}
    PROVE  LET q == [s EXCEPT !.access = a]
           IN  /\ q \in ServicesType /\ q.access = a
               /\ q.headless = s.headless /\ q.address = s.address
  BY DEF ServicesType

LEMMA AddressChanged ==
    ASSUME NEW s \in ServicesType
    PROVE  LET q == [s EXCEPT !.address = ~@]
           IN  /\ q \in ServicesType
               /\ q.headless = s.headless /\ q.access = s.access
  BY DEF ServicesType

LEMMA CAChanged ==
    ASSUME NEW s \in SecretsType, NEW c \in CA
    PROVE  LET q == [s EXCEPT !.ca = c]
           IN  q \in SecretsType /\ q.ca = c /\ q.cert = s.cert
  BY DEF SecretsType

LEMMA CertChanged ==
    ASSUME NEW s \in SecretsType, NEW t \in Cert, NEW x \in [ca : CA, address : BOOLEAN]
    PROVE  LET q == [s EXCEPT !.cert[t] = x]
           IN  /\ q \in SecretsType /\ q.ca = s.ca /\ q.cert[t] = x
               /\ \A u \in Cert : u # t => q.cert[u] = s.cert[u]
  BY DEF SecretsType

-----------------------------------------------------------------------------
(***************************************************************************)
(* What a write may leave.                                                 *)
(***************************************************************************)
LEMMA ServicesGrow ==
    ASSUME IInv, NEW x \in ServicesType, PutServices(x),
           Services.headless => x.headless, Services.access # "none" => x.access # "none",
           edits = 0 => x.access \in {"none", AccessType(spec)},
           edits' = edits, spec' = spec
    PROVE  /\ ServicesStay'
           /\ Services.headless => Services'.headless
           /\ Services.access # "none" => Services'.access # "none"
           /\ edits' = 0 => \A s \in Versions(services)' : s.access \in {"none", AccessType(spec')}
  BY ServicesPut, NowAndCached DEF IInv, ServicesStay, AsCreated

LEMMA ServicesSame ==
    ASSUME IInv, Versions(services)' \subseteq Versions(services), Services' = Services,
           edits' = edits, spec' = spec
    PROVE  /\ ServicesStay'
           /\ edits' = 0 => \A s \in Versions(services)' : s.access \in {"none", AccessType(spec')}
  BY DEF IInv, ServicesStay, AsCreated

LEMMA Untouched ==
    ASSUME TypeOK
    PROVE  /\ UNCHANGED services => Services' = Services /\ Versions(services)' = Versions(services)
           /\ UNCHANGED secrets => Secrets' = Secrets /\ Versions(secrets)' = Versions(secrets)
  BY DEF Services, Secrets, Last, Versions

LEMMA SecretsSame ==
    ASSUME IInv, Versions(secrets)' \subseteq Versions(secrets), Secrets' = Secrets,
           deletes' = deletes
    PROVE  SecretsStay'
  BY DEF IInv, SecretsStay

-----------------------------------------------------------------------------
(***************************************************************************)
(* The steps of a sync.                                                    *)
(***************************************************************************)
Labels == {"idle", "headless", "access", "poll", "ca", "cert", "tapp"}

\* The loop l has gone to one of the labels.
Went(l, labels) ==
    /\ pc' \in [Loop -> Labels] /\ pc'[l] \in labels
    /\ \A k \in Loop : k # l => pc'[k] = pc[k]

LEMMA Going ==
    ASSUME TypeOK, NEW l \in Loop, NEW labels \in SUBSET Labels, NEW label \in labels,
           Goto(l, label)
    PROVE  pc'[l] = label /\ Went(l, labels)
  BY DEF TypeOK, Goto, Went, Labels

LEMMA Faults ==
    ASSUME TypeOK, Fault \/ NoFault
    PROVE  faults' \in 0 .. MaxFaults
  BY ResourcesAssumption DEF TypeOK, Fault, NoFault

LEMMA BeginHolds ==
    ASSUME IInv, NEW l \in Loop, Begin(l)
    PROVE  IInv'
  <1> USE DEF IInv, Begin, Goto, api, world
  <1>1. TypeOK'
    BY DEF TypeOK
  <1>2. Services' = Services /\ Versions(services)' = Versions(services)
        /\ Secrets' = Secrets /\ Versions(secrets)' = Versions(secrets)
    BY Untouched
  <1>3. ServicesStay' /\ SecretsStay'
    BY <1>2 DEF ServicesStay, SecretsStay
  <1>4. pc' = [pc EXCEPT ![l] = "headless"] /\ pc \in [Loop -> Labels]
    BY DEF TypeOK, Labels
  <1>5. SignedByTheCA'
    BY <1>2, <1>4 DEF SignedByTheCA
  <1>6. ServicesPassed' /\ SecretsPassed'
    BY <1>2, <1>4 DEF ServicesPassed, SecretsPassed, TypeOK
  <1>7. AsCreated' /\ AddressKnown'
    BY <1>2, <1>4 DEF AsCreated, AddressKnown, TypeOK
  <1> QED BY <1>1, <1>3, <1>5, <1>6, <1>7

\* A step that writes at most a service x and goes on to what it has passed.
LEMMA ServiceStepHolds ==
    ASSUME IInv, NEW l \in Loop, NEW x \in ServicesType,
           Went(l, {"idle", "access", "poll"}),
           Services.headless => x.headless, Services.access # "none" => x.access # "none",
           edits = 0 => x.access \in {"none", AccessType(spec)},
           PutServices(x) \/ UNCHANGED services,
           pc'[l] \in {"access", "poll"} => Services'.headless,
           pc'[l] = "poll" => Services'.access # "none",
           faults' \in 0 .. MaxFaults,
           UNCHANGED <<secrets, tapps, cas, spec, edits, deletes, e, recorded, todo, signer>>
    PROVE  IInv'
  <1>2. /\ services' \in Seq(ServicesType) /\ Len(services') \in 1 .. MaxLag + 1
        /\ ServicesStay'
        /\ Services.headless => Services'.headless
        /\ Services.access # "none" => Services'.access # "none"
        /\ edits' = 0 => \A s \in Versions(services)' : s.access \in {"none", AccessType(spec')}
    <2>1. CASE PutServices(x)
      BY <2>1, ServicesGrow, ServicesPut DEF IInv
    <2>2. CASE UNCHANGED services
      BY <2>2, ServicesSame, Untouched DEF IInv, TypeOK
    <2> QED BY <2>1, <2>2
  <1>4. TypeOK'
    BY <1>2 DEF IInv, TypeOK, Went, Labels
  <1>5. Secrets' = Secrets /\ Versions(secrets)' = Versions(secrets)
    BY Untouched DEF IInv
  <1>6. SecretsStay' /\ SignedByTheCA'
    BY <1>5, SecretsSame DEF IInv, SignedByTheCA, Went
  <1>7. ServicesPassed' /\ SecretsPassed'
    BY <1>2, <1>5 DEF IInv, ServicesPassed, SecretsPassed, Went
  <1>8. AsCreated' /\ AddressKnown'
    BY <1>2 DEF IInv, AsCreated, AddressKnown, Went
  <1> QED BY <1>2, <1>4, <1>6, <1>7, <1>8 DEF IInv

LEMMA HeadlessHolds ==
    ASSUME IInv, NEW l \in Loop, EnsureHeadless(l)
    PROVE  IInv'
  <1> DEFINE x == [Services EXCEPT !.headless = TRUE]
  <1>0. /\ x \in ServicesType /\ x.headless = TRUE
        /\ x.access = Services.access /\ x.address = Services.address
    BY NowAndCached, HeadlessChanged, TRUE \in BOOLEAN DEF IInv
  <1> HIDE DEF x
  <1>1. /\ Went(l, {"idle", "access", "poll"}) /\ pc'[l] # "poll"
        /\ pc'[l] = "access" => services[1].headless \/ PutServices(x)
        /\ PutServices(x) \/ UNCHANGED services
        /\ faults' \in 0 .. MaxFaults
        /\ UNCHANGED <<secrets, tapps, cas, spec, edits, deletes, e, recorded, todo, signer>>
    <2>1. \A label \in {"idle", "access", "poll"} :
            Goto(l, label) => pc'[l] = label /\ Went(l, {"idle", "access", "poll"})
      BY Going DEF IInv, Labels
    <2> QED BY <2>1, Faults DEF EnsureHeadless, Call, Return, world, x, IInv
  <1>2. pc'[l] = "access" => Services'.headless
    BY <1>0, <1>1, ServicesPut, NowAndCached, Untouched DEF IInv, ServicesStay
  <1>3. edits = 0 => x.access \in {"none", AccessType(spec)}
    BY <1>0, NowAndCached DEF IInv, AsCreated
  <1> QED BY <1>0, <1>1, <1>2, <1>3, ServiceStepHolds

LEMMA AccessHolds ==
    ASSUME IInv, NEW l \in Loop, EnsureAccess(l)
    PROVE  IInv'
  <1> DEFINE type == AccessType(e[l])
             x == [Services EXCEPT !.access = type]
  <1>4. type \in {"ClusterIP", "LoadBalancer"}
    BY DEF AccessType
  <1> HIDE DEF type
  <1>0. /\ x \in ServicesType /\ x.access = type
        /\ x.headless = Services.headless /\ x.address = Services.address
    <2>1. Services \in ServicesType
      BY NowAndCached DEF IInv
    <2>2. type \in {"none", "ClusterIP", "LoadBalancer"}
      BY <1>4
    <2> QED BY <2>1, <2>2, AccessChanged
  <1>3. edits = 0 => x.access \in {"none", AccessType(spec)}
    BY <1>0 DEF IInv, AsCreated, type
  <1> HIDE DEF x
  <1>1. /\ Went(l, {"idle", "access", "poll"}) /\ pc[l] = "access" /\ pc'[l] # "access"
        /\ pc'[l] = "poll" => services[1].access # "none" \/ PutServices(x)
        /\ PutServices(x) \/ UNCHANGED services
        /\ faults' \in 0 .. MaxFaults
        /\ UNCHANGED <<secrets, tapps, cas, spec, edits, deletes, e, recorded, todo, signer>>
    <2>1. \A label \in {"idle", "access", "poll"} :
            Goto(l, label) => pc'[l] = label /\ Went(l, {"idle", "access", "poll"})
      BY Going DEF IInv, Labels
    <2>2. /\ pc[l] = "access"
          /\ \/ Goto(l, "poll") /\ PutServices(x)
             \/ Goto(l, "idle") /\ (PutServices(x) \/ UNCHANGED services)
             \/ services[1].access = type /\ Goto(l, "poll") /\ UNCHANGED services
          /\ Fault \/ NoFault
          /\ UNCHANGED <<secrets, tapps, cas, spec, edits, deletes, e, recorded, todo, signer>>
      BY DEF EnsureAccess, Call, Return, world, x, type
    <2>3. faults' \in 0 .. MaxFaults
      BY <2>2, Faults DEF IInv
    <2>4. Went(l, {"idle", "access", "poll"}) /\ pc'[l] # "access"
      BY <2>1, <2>2
    <2>5. pc'[l] = "poll" => services[1].access # "none" \/ PutServices(x)
      BY <1>4, <2>1, <2>2
    <2> QED BY <2>2, <2>3, <2>4, <2>5
  <1>2. pc'[l] = "poll" => Services'.headless /\ Services'.access # "none"
    BY <1>0, <1>1, <1>4, ServicesPut, NowAndCached, Untouched DEF IInv, ServicesStay, ServicesPassed, SecretsPassed
  <1>5. /\ Services.headless => x.headless
        /\ Services.access # "none" => x.access # "none"
    BY <1>0, <1>4
  <1>6. /\ pc'[l] \in {"access", "poll"} => Services'.headless
        /\ pc'[l] = "poll" => Services'.access # "none"
    BY <1>1, <1>2
  <1> QED BY <1>0, <1>1, <1>3, <1>5, <1>6, ServiceStepHolds, Zenon

LEMMA PollHolds ==
    ASSUME IInv, NEW l \in Loop, Poll(l)
    PROVE  IInv'
  <1>1. /\ Went(l, {"idle", "ca"}) /\ pc[l] = "poll"
        /\ pc'[l] = "ca" => \/ services[1].access \notin {"LoadBalancer", "none"}
                             \/ recorded' = TRUE
        /\ faults' \in 0 .. MaxFaults
        /\ UNCHANGED <<services, secrets, tapps, cas, spec, edits, deletes, e, todo, signer>>
    <2>1. \A label \in {"idle", "ca"} :
            Goto(l, label) => pc'[l] = label /\ Went(l, {"idle", "ca"})
      BY Going DEF IInv, Labels
    <2>3. \/ pc'[l] = "ca" /\ Went(l, {"idle", "ca"})
          \/ pc'[l] = "idle" /\ Went(l, {"idle", "ca"})
      BY <2>1 DEF Poll, Return
    <2> QED BY <2>1, <2>3, Faults DEF Poll, Return, world, api, IInv
  <1>0. recorded' \in BOOLEAN /\ (recorded => recorded')
    <2>1. recorded' = TRUE \/ recorded' = recorded
      BY DEF Poll
    <2> QED BY <2>1, Zenon DEF IInv, TypeOK
  <1>2. /\ Services' = Services /\ Versions(services)' = Versions(services)
        /\ Secrets' = Secrets /\ Versions(secrets)' = Versions(secrets)
    BY <1>1, Untouched DEF IInv
  <1>3. TypeOK'
    BY <1>0, <1>1 DEF IInv, TypeOK, Went, Labels
  <1>4. ServicesStay' /\ SecretsStay' /\ SignedByTheCA' /\ AsCreated'
    BY <1>1, <1>2, ServicesSame, SecretsSame DEF IInv, SignedByTheCA, AsCreated, Went
  <1>5. ServicesPassed' /\ SecretsPassed'
    BY <1>1, <1>2 DEF IInv, ServicesPassed, SecretsPassed, Went
  <1>6. AddressKnown'
    <2>1. edits = 0 /\ e[l].lb /\ pc'[l] = "ca" => recorded'
      BY <1>1, NowAndCached DEF IInv, AsCreated, AccessType
    <2>2. ASSUME NEW k \in Loop, edits' = 0, pc'[k] \in {"ca", "cert", "tapp"}, e'[k].lb
          PROVE  recorded'
      <3>1. CASE k = l
        BY <1>1, <2>1, <2>2, <3>1 DEF Went
      <3>2. CASE k # l
        BY <1>0, <1>1, <2>2, <3>2 DEF IInv, AddressKnown, Went
      <3> QED BY <3>1, <3>2
    <2> QED BY <2>2 DEF AddressKnown
  <1> QED BY <1>3, <1>4, <1>5, <1>6 DEF IInv

\* A step that writes at most a secret in x, which keeps what there is.
LEMMA SecretStepHolds ==
    ASSUME IInv, NEW l \in Loop, NEW x \in SecretsType,
           Went(l, {"idle", "cert", "tapp"}), pc[l] \in {"ca", "cert"},
           PutSecrets(x) \/ UNCHANGED secrets,
           \A t \in Cert : Secrets.cert[t] # NoCert => x.cert[t] # NoCert,
           x.ca = Secrets.ca \/ Secrets.ca = 0,
           deletes = 0 => \A t \in Cert : x.cert[t] # NoCert => x.ca > 0 /\ x.cert[t].ca = x.ca,
           cas' \in CA, todo' \in [Loop -> SUBSET Cert], signer' \in [Loop -> CA],
           \A k \in Loop : k # l => todo'[k] = todo[k] /\ signer'[k] = signer[k],
           pc'[l] = "cert" => todo'[l] # {} /\ signer'[l] > 0,
           deletes = 0 /\ pc'[l] = "cert" =>
                /\ signer'[l] = Secrets'.ca
                /\ \A t \in e[l].auto \ todo'[l] : Secrets'.cert[t] # NoCert,
           deletes = 0 /\ pc'[l] = "tapp" => \A t \in e[l].auto : Secrets'.cert[t] # NoCert,
           faults' \in 0 .. MaxFaults,
           UNCHANGED <<services, tapps, spec, edits, deletes, e, recorded>>
    PROVE  IInv'
  <1>1. /\ secrets' \in Seq(SecretsType) /\ Len(secrets') \in 1 .. MaxLag + 1
        /\ Secrets' = x \/ Secrets' = Secrets
        /\ Versions(secrets)' \subseteq Versions(secrets) \cup {Secrets'}
    <2>1. CASE PutSecrets(x)
      BY <2>1, SecretsPut DEF IInv
    <2>2. CASE UNCHANGED secrets
      BY <2>2, Untouched DEF IInv, TypeOK
    <2> QED BY <2>1, <2>2
  <1>2. /\ Secrets'.ca = Secrets.ca \/ Secrets.ca = 0
        /\ \A t \in Cert : Secrets.cert[t] # NoCert => Secrets'.cert[t] # NoCert
    BY <1>1
  <1>3. Services' = Services /\ Versions(services)' = Versions(services)
    BY Untouched DEF IInv
  <1>4. TypeOK'
    BY <1>1 DEF IInv, TypeOK, Went, Labels
  <1>5. SecretsStay'
    BY <1>1, <1>2 DEF IInv, SecretsStay
  <1>6. ASSUME deletes = 0, NEW k \in Loop, k # l, pc[k] = "cert"
        PROVE  signer[k] = Secrets'.ca
    <2>1. signer[k] = Secrets.ca /\ signer[k] > 0
      BY <1>6 DEF IInv, SignedByTheCA, TypeOK
    <2> QED BY <1>2, <2>1
  <1>7. SignedByTheCA'
    <2>1. deletes = 0 => \A t \in Cert : Secrets'.cert[t] # NoCert =>
                            Secrets'.ca > 0 /\ Secrets'.cert[t].ca = Secrets'.ca
      BY <1>1 DEF IInv, SignedByTheCA
    <2>2. deletes = 0 => \A k \in Loop : pc'[k] = "cert" => signer'[k] = Secrets'.ca
      BY <1>6 DEF Went
    <2> QED BY <2>1, <2>2 DEF SignedByTheCA
  <1>10. ServicesPassed'
    BY <1>3 DEF IInv, ServicesPassed, Went
  <1>8. SecretsPassed'
    <2>2. ASSUME deletes = 0, NEW k \in Loop, pc'[k] = "tapp", NEW t \in e[k].auto
          PROVE  Secrets'.cert[t] # NoCert
      <3>1. t \in Cert
        BY ResourcesAssumption DEF IInv, TypeOK, SpecType
      <3> QED BY <1>2, <2>2, <3>1 DEF IInv, SecretsPassed, Went
    <2>3. ASSUME deletes = 0, NEW k \in Loop, pc'[k] = "cert", NEW t \in e[k].auto \ todo'[k]
          PROVE  Secrets'.cert[t] # NoCert
      <3>1. t \in Cert
        BY ResourcesAssumption DEF IInv, TypeOK, SpecType
      <3> QED BY <1>2, <2>3, <3>1 DEF IInv, SecretsPassed, Went
    <2>4. deletes' = 0 =>
            \A k \in Loop :
                /\ pc'[k] = "tapp" => \A t \in e'[k].auto : Secrets'.cert[t] # NoCert
                /\ pc'[k] = "cert" =>
                     \A t \in e'[k].auto \ todo'[k] : Secrets'.cert[t] # NoCert
      BY <2>2, <2>3
    <2> QED BY <2>4 DEF SecretsPassed
  <1>9. ServicesStay' /\ AsCreated' /\ AddressKnown'
    BY <1>3, ServicesSame DEF IInv, AsCreated, AddressKnown, Went
  <1> QED BY <1>4, <1>5, <1>7, <1>8, <1>9, <1>10 DEF IInv

LEMMA Taken ==
    ASSUME TypeOK, NEW l \in Loop, NEW certs \in SUBSET Cert, NEW ca \in CA, Take(l, certs, ca)
    PROVE  /\ todo' \in [Loop -> SUBSET Cert] /\ signer' \in [Loop -> CA]
           /\ \A k \in Loop : k # l => todo'[k] = todo[k] /\ signer'[k] = signer[k]
           /\ pc'[l] = "cert" => todo'[l] = certs /\ signer'[l] = ca
  <1>1. 0 \in CA
    BY ResourcesAssumption DEF CA
  <1> QED BY <1>1 DEF TypeOK, Take

LEMMA AutoIsCerts ==
    ASSUME TypeOK, NEW l \in Loop
    PROVE  e[l].auto \in SUBSET Cert
  BY ResourcesAssumption DEF TypeOK, SpecType

LEMMA CAHolds ==
    ASSUME IInv, NEW l \in Loop, EnsureCA(l)
    PROVE  IInv'
  <1> USE DEF IInv
  <1>1. \A label \in {"idle", "cert", "tapp"} :
          Goto(l, label) => pc'[l] = label /\ Went(l, {"idle", "cert", "tapp"})
    BY Going DEF Labels
  <1>2. pc[l] = "ca" /\ UNCHANGED <<services, tapps, spec, edits, deletes, e, recorded>>
    BY DEF EnsureCA, world
  <1>3. Secrets \in SecretsType
    BY NowAndCached
  <1>4. deletes = 0 => \A t \in Cert : Secrets.cert[t] # NoCert =>
                           Secrets.ca > 0 /\ Secrets.cert[t].ca = Secrets.ca
    BY DEF SignedByTheCA
  <1>5. CASE /\ e[l].auto = {} /\ NoFault /\ Goto(l, "tapp")
             /\ UNCHANGED <<secrets, todo, signer, cas>>
    <2>1. faults' \in 0 .. MaxFaults
      BY <1>5, Faults
    <2>2. pc'[l] = "tapp" /\ Went(l, {"idle", "cert", "tapp"})
      BY <1>1, <1>5
    <2>3. cas' \in CA /\ todo' \in [Loop -> SUBSET Cert] /\ signer' \in [Loop -> CA]
      BY <1>5 DEF TypeOK
    <2> QED BY <1>2, <1>3, <1>4, <1>5, <2>1, <2>2, <2>3, SecretStepHolds
  <1>6. CASE /\ e[l].auto # {} /\ secrets[1].ca > 0 /\ NoFault /\ Goto(l, "cert")
             /\ Take(l, e[l].auto, secrets[1].ca)
             /\ UNCHANGED <<secrets, cas>>
    <2>1. faults' \in 0 .. MaxFaults
      BY <1>6, Faults
    <2>2. pc'[l] = "cert" /\ Went(l, {"idle", "cert", "tapp"})
      BY <1>1, <1>6
    <2>3. secrets[1].ca \in CA
      BY NowAndCached DEF SecretsType
    <2>4. /\ todo' \in [Loop -> SUBSET Cert] /\ signer' \in [Loop -> CA]
          /\ \A k \in Loop : k # l => todo'[k] = todo[k] /\ signer'[k] = signer[k]
          /\ todo'[l] = e[l].auto /\ signer'[l] = secrets[1].ca
      BY <1>6, <2>2, <2>3, Taken, AutoIsCerts
    <2>5. deletes = 0 => signer'[l] = Secrets'.ca
      <3>1. Secrets' = Secrets
        BY <1>6, Untouched
      <3>2. deletes = 0 => secrets[1].ca \in {0, Secrets.ca}
        BY NowAndCached DEF SecretsStay
      <3> QED BY <1>6, <2>4, <3>1, <3>2
    <2>6. cas' \in CA
      BY <1>6 DEF TypeOK
    <2> QED BY <1>2, <1>3, <1>4, <1>6, <2>1, <2>2, <2>4, <2>5, <2>6, SecretStepHolds
  <1>7. CASE /\ e[l].auto # {} /\ secrets[1].ca = 0 /\ cas < MaxCAs
             /\ Call(l, Secrets.ca = 0,
                     PutSecrets([Secrets EXCEPT !.ca = cas + 1]) /\ cas' = cas + 1,
                     UNCHANGED <<secrets, cas>>, "cert")
             /\ Take(l, e[l].auto, cas')
    <2> DEFINE x == [Secrets EXCEPT !.ca = cas + 1]
    <2>0. cas + 1 \in CA /\ cas + 1 > 0 /\ cas \in CA
      BY <1>7, ResourcesAssumption DEF TypeOK, CA
    <2>1. x \in SecretsType /\ x.ca = cas + 1 /\ x.cert = Secrets.cert
      BY <1>3, <2>0, CAChanged
    <2> HIDE DEF x
    <2>2. /\ \/ Secrets.ca = 0 /\ PutSecrets(x) /\ cas' = cas + 1 /\ Goto(l, "cert")
             \/ Secrets.ca = 0 /\ PutSecrets(x) /\ cas' = cas + 1 /\ Goto(l, "idle")
             \/ UNCHANGED <<secrets, cas>> /\ Goto(l, "idle")
          /\ Fault \/ NoFault
      BY <1>7 DEF Call, Return, x
    <2>3. faults' \in 0 .. MaxFaults
      BY <2>2, Faults
    <2>4. Went(l, {"idle", "cert", "tapp"}) /\ pc'[l] # "tapp"
      BY <1>1, <2>2
    <2>5. pc'[l] = "cert" => PutSecrets(x) /\ cas' = cas + 1
      BY <1>1, <2>2
    <2>6. cas' \in CA
      BY <2>0, <2>2
    <2>7. /\ todo' \in [Loop -> SUBSET Cert] /\ signer' \in [Loop -> CA]
          /\ \A k \in Loop : k # l => todo'[k] = todo[k] /\ signer'[k] = signer[k]
          /\ pc'[l] = "cert" => todo'[l] = e[l].auto /\ signer'[l] = cas'
      BY <1>7, <2>6, Taken, AutoIsCerts
    <2>8. pc'[l] = "cert" => signer'[l] = Secrets'.ca
      BY <2>1, <2>5, <2>7, SecretsPut
    <2>9. CASE Secrets.ca = 0
      <3>1. deletes = 0 => \A t \in Cert : x.cert[t] # NoCert => x.ca > 0 /\ x.cert[t].ca = x.ca
        BY <1>4, <2>1, <2>9
      <3>2. PutSecrets(x) \/ UNCHANGED secrets
        BY <2>2
      <3>3. pc'[l] = "cert" => todo'[l] # {} /\ signer'[l] > 0
        BY <1>7, <2>0, <2>5, <2>7
      <3>4. deletes = 0 /\ pc'[l] = "cert" =>
                /\ signer'[l] = Secrets'.ca
                /\ \A t \in e[l].auto \ todo'[l] : Secrets'.cert[t] # NoCert
        BY <2>7, <2>8
      <3> QED BY <1>2, <2>1, <2>3, <2>4, <2>6, <2>7, <2>9, <3>1, <3>2, <3>3, <3>4, SecretStepHolds
    <2>10. CASE Secrets.ca # 0
      <3>1. UNCHANGED secrets /\ pc'[l] = "idle"
        BY <1>1, <2>2, <2>10
      <3> QED BY <1>2, <1>3, <1>4, <2>3, <2>4, <2>6, <2>7, <3>1, SecretStepHolds
    <2> QED BY <2>9, <2>10
  <1> QED BY <1>5, <1>6, <1>7 DEF EnsureCA

LEMMA SignedType ==
    ASSUME TypeOK, NEW l \in Loop
    PROVE  /\ Signed(l) \in [ca : CA, address : BOOLEAN] /\ Signed(l).ca = signer[l]
           /\ signer[l] > 0 => Signed(l) # NoCert
  <1>1. Signed(l) \in [ca : CA, address : BOOLEAN] /\ Signed(l).ca = signer[l]
    BY Zenon DEF TypeOK, Signed
  <1>2. signer[l] > 0 => Signed(l) # NoCert
    <2>1. NoCert.ca = 0
      BY DEF NoCert
    <2> QED BY <1>1, <2>1
  <1> QED BY <1>1, <1>2

LEMMA CertHolds ==
    ASSUME IInv, NEW l \in Loop, EnsureCert(l)
    PROVE  IInv'
  <1> USE DEF IInv
  <1>1. \A label \in {"idle", "cert", "tapp"} :
          Goto(l, label) => pc'[l] = label /\ Went(l, {"idle", "cert", "tapp"})
    BY Going DEF Labels
  <1>2. /\ pc[l] = "cert"
        /\ UNCHANGED <<services, tapps, cas, spec, edits, deletes, e, recorded>>
    BY DEF EnsureCert, world
  <1>3. /\ todo[l] \in SUBSET Cert /\ e[l].auto \in SUBSET Cert
        /\ signer[l] \in CA /\ signer[l] > 0 /\ cas' \in CA
    BY <1>2, AutoIsCerts DEF TypeOK
  <1> DEFINE rest(t) == todo[l] \ {t}
             next(t) == IF rest(t) = {} THEN "tapp" ELSE "cert"
             x(t) == [Secrets EXCEPT !.cert[t] = Signed(l)]
  <1>4. PICK t \in todo[l] :
          /\ \/ /\ secrets[1].cert[t] = NoCert
                /\ Call(l, Secrets.cert[t] = NoCert, PutSecrets(x(t)), UNCHANGED secrets, next(t))
             \/ /\ secrets[1].cert[t] # NoCert /\ NoFault /\ Goto(l, next(t))
                /\ UNCHANGED secrets
          /\ Take(l, rest(t), signer[l])
    BY DEF EnsureCert
  <1> DEFINE y == x(t)
  <1>5. t \in Cert /\ Secrets \in SecretsType
    BY <1>3, NowAndCached
  <1>6. /\ y \in SecretsType /\ y.ca = Secrets.ca /\ y.cert[t] = Signed(l)
        /\ \A u \in Cert : u # t => y.cert[u] = Secrets.cert[u]
    BY <1>5, SignedType, CertChanged
  <1> HIDE DEF y
  <1>7. /\ \/ PutSecrets(y) /\ Goto(l, next(t))
           \/ PutSecrets(y) /\ Goto(l, "idle")
           \/ UNCHANGED secrets /\ Goto(l, "idle")
           \/ secrets[1].cert[t] # NoCert /\ UNCHANGED secrets /\ Goto(l, next(t))
        /\ Fault \/ NoFault
        /\ Take(l, rest(t), signer[l])
    BY <1>4 DEF Call, Return, y
  <1>8. faults' \in 0 .. MaxFaults
    BY <1>7, Faults
  <1>9. /\ Went(l, {"idle", "cert", "tapp"})
        /\ pc'[l] # "idle" => \/ PutSecrets(y)
                              \/ secrets[1].cert[t] # NoCert /\ UNCHANGED secrets
        /\ pc'[l] = "cert" => rest(t) # {}
        /\ pc'[l] = "tapp" => rest(t) = {}
        /\ PutSecrets(y) \/ UNCHANGED secrets
    BY <1>1, <1>7
  <1>10. /\ todo' \in [Loop -> SUBSET Cert] /\ signer' \in [Loop -> CA]
         /\ \A k \in Loop : k # l => todo'[k] = todo[k] /\ signer'[k] = signer[k]
         /\ pc'[l] = "cert" => todo'[l] = rest(t) /\ signer'[l] = signer[l]
    <2>1. rest(t) \in SUBSET Cert
      BY <1>3
    <2> QED BY <1>3, <1>7, <2>1, Taken
  <1>11. Signed(l) # NoCert /\ Signed(l).ca = signer[l]
    BY <1>3, SignedType
  <1>12. deletes = 0 =>
            /\ signer[l] = Secrets.ca
            /\ \A u \in Cert : Secrets.cert[u] # NoCert =>
                    Secrets.ca > 0 /\ Secrets.cert[u].ca = Secrets.ca
            /\ \A u \in e[l].auto \ todo[l] : Secrets.cert[u] # NoCert
    BY <1>2 DEF SignedByTheCA, SecretsPassed
  <1>13. /\ Secrets'.ca = Secrets.ca
         /\ \A u \in Cert : Secrets.cert[u] # NoCert => Secrets'.cert[u] # NoCert
         /\ PutSecrets(y) => Secrets'.cert[t] # NoCert
    <2>1. CASE PutSecrets(y)
      BY <1>6, <1>11, <2>1, SecretsPut
    <2>2. CASE ~PutSecrets(y)
      BY <1>9, <2>2, Untouched
    <2> QED BY <2>1, <2>2
  <1>14. deletes = 0 /\ pc'[l] # "idle" => Secrets'.cert[t] # NoCert
    <2>1. deletes = 0 /\ secrets[1].cert[t] # NoCert => Secrets.cert[t] # NoCert
      BY <1>5, NowAndCached DEF SecretsStay
    <2> QED BY <1>5, <1>9, <1>13, <2>1
  <1>15. deletes = 0 /\ pc'[l] # "idle" =>
            \A u \in e[l].auto \ rest(t) : Secrets'.cert[u] # NoCert
    BY <1>3, <1>12, <1>13, <1>14
  <1>16. \A u \in Cert : Secrets.cert[u] # NoCert => y.cert[u] # NoCert
    BY <1>6, <1>11
  <1>17. deletes = 0 => \A u \in Cert : y.cert[u] # NoCert => y.ca > 0 /\ y.cert[u].ca = y.ca
    BY <1>3, <1>6, <1>11, <1>12
  <1>18. deletes = 0 /\ pc'[l] = "cert" =>
            /\ signer'[l] = Secrets'.ca
            /\ \A u \in e[l].auto \ todo'[l] : Secrets'.cert[u] # NoCert
    BY <1>10, <1>12, <1>13, <1>15
  <1>19. deletes = 0 /\ pc'[l] = "tapp" => \A u \in e[l].auto : Secrets'.cert[u] # NoCert
    BY <1>9, <1>15
  <1>20. pc'[l] = "cert" => todo'[l] # {} /\ signer'[l] > 0
    BY <1>3, <1>9, <1>10
  <1> QED BY <1>2, <1>3, <1>6, <1>8, <1>9, <1>10, <1>16, <1>17, <1>18, <1>19, <1>20, SecretStepHolds

LEMMA TAppHolds ==
    ASSUME IInv, NEW l \in Loop, EnsureTApp(l)
    PROVE  IInv'
  <1> USE DEF IInv
  <1>1. /\ pc' = [pc EXCEPT ![l] = "idle"]
        /\ PutTApp \/ UNCHANGED tapps
        /\ Fault \/ NoFault
        /\ UNCHANGED <<services, secrets, cas, spec, edits, deletes, e, recorded, todo, signer>>
    BY DEF EnsureTApp, Call, Goto, Return, world
  <1>2. /\ Services' = Services /\ Versions(services)' = Versions(services)
        /\ Secrets' = Secrets /\ Versions(secrets)' = Versions(secrets)
    BY <1>1, Untouched
  <1>3. faults' \in 0 .. MaxFaults
    BY <1>1, Faults
  <1>4. tapps' \in Seq(BOOLEAN) /\ Len(tapps') \in 1 .. MaxLag + 1
    BY <1>1, TAppPut DEF TypeOK
  <1>5. Went(l, {"idle"})
    BY <1>1, Going DEF Goto, Labels
  <1>6. TypeOK'
    BY <1>1, <1>3, <1>4, <1>5 DEF TypeOK, Went, Labels
  <1>7. ServicesStay' /\ SecretsStay' /\ AsCreated'
    BY <1>1, <1>2 DEF ServicesStay, SecretsStay, AsCreated
  <1>8. SignedByTheCA' /\ ServicesPassed' /\ SecretsPassed'
    BY <1>1, <1>2, <1>5 DEF SignedByTheCA, ServicesPassed, SecretsPassed, Went
  <1>9. AddressKnown'
    BY <1>1, <1>5 DEF AddressKnown, Went
  <1> QED BY <1>6, <1>7, <1>8, <1>9

LEMMA StepHolds ==
    ASSUME IInv, NEW l \in Loop, Step(l)
    PROVE  IInv'
  BY BeginHolds, HeadlessHolds, AccessHolds, PollHolds, CAHolds, CertHolds, TAppHolds DEF Step

-----------------------------------------------------------------------------
(***************************************************************************)
(* Everything else that moves.                                             *)
(***************************************************************************)
LEMMA EditHolds ==
    ASSUME IInv, NEW s \in Specs, Edit(s)
    PROVE  IInv'
  <1> USE DEF IInv, Edit, api, loopVars
  <1>1. edits' \in 0 .. MaxEdits /\ edits' # 0
    BY ResourcesAssumption DEF TypeOK
  <1>2. /\ Services' = Services /\ Versions(services)' = Versions(services)
        /\ Secrets' = Secrets /\ Versions(secrets)' = Versions(secrets)
    BY Untouched
  <1>3. TypeOK'
    BY <1>1 DEF TypeOK
  <1>4. ServicesStay' /\ SecretsStay' /\ SignedByTheCA' /\ ServicesPassed' /\ SecretsPassed'
    BY <1>2 DEF ServicesStay, SecretsStay, SignedByTheCA, ServicesPassed, SecretsPassed
  <1>5. AsCreated' /\ AddressKnown'
    BY <1>1 DEF AsCreated, AddressKnown
  <1> QED BY <1>3, <1>4, <1>5

LEMMA ProvisionHolds ==
    ASSUME IInv, Provision
    PROVE  IInv'
  <1> DEFINE x == [Services EXCEPT !.address = ~@]
  <1> USE DEF IInv
  <1>1. /\ x \in ServicesType
        /\ x.headless = Services.headless /\ x.access = Services.access
    BY NowAndCached, AddressChanged
  <1>2. PutServices(x)
        /\ UNCHANGED <<secrets, tapps, cas, spec, edits, deletes, pc, e, recorded, todo, signer,
                       faults>>
    BY DEF Provision, world, loopVars
  <1> HIDE DEF x
  <1>3. edits = 0 => x.access \in {"none", AccessType(spec)}
    BY <1>1, NowAndCached DEF AsCreated
  <1>4. /\ services' \in Seq(ServicesType) /\ Len(services') \in 1 .. MaxLag + 1
        /\ ServicesStay' /\ Services' = x
        /\ edits' = 0 => \A s \in Versions(services)' : s.access \in {"none", AccessType(spec')}
    BY <1>1, <1>2, <1>3, ServicesPut, ServicesGrow
  <1>5. Secrets' = Secrets /\ Versions(secrets)' = Versions(secrets)
    BY <1>2, Untouched
  <1>6. TypeOK'
    BY <1>2, <1>4 DEF TypeOK
  <1>7. SecretsStay' /\ SignedByTheCA' /\ SecretsPassed'
    BY <1>2, <1>5 DEF SecretsStay, SignedByTheCA, SecretsPassed
  <1>8. ServicesPassed' /\ AsCreated' /\ AddressKnown'
    BY <1>1, <1>2, <1>4 DEF ServicesPassed, AsCreated, AddressKnown
  <1> QED BY <1>4, <1>6, <1>7, <1>8

\* After a deletion nothing is claimed of the secrets.
LEMMA DeleteHolds ==
    ASSUME IInv, DeleteSecret
    PROVE  IInv'
  <1> USE DEF IInv
  <1>1. /\ deletes < MaxDeletes /\ deletes' = deletes + 1
        /\ UNCHANGED <<services, tapps, cas, spec, edits, pc, e, recorded, todo, signer, faults>>
    BY DEF DeleteSecret, loopVars
  <1>2. deletes' \in 0 .. MaxDeletes /\ deletes' # 0
    BY <1>1, ResourcesAssumption DEF TypeOK
  <1>3. secrets' \in Seq(SecretsType) /\ Len(secrets') \in 1 .. MaxLag + 1
    <2>1. Secrets \in SecretsType
      BY NowAndCached
    <2>2. 0 \in CA /\ NoCert \in [ca : CA, address : BOOLEAN]
      BY ResourcesAssumption DEF CA, NoCert
    <2>3. CASE PutSecrets([Secrets EXCEPT !.ca = 0])
      BY <2>1, <2>2, <2>3, CAChanged, SecretsPut
    <2>4. ASSUME NEW t \in Cert, PutSecrets([Secrets EXCEPT !.cert[t] = NoCert])
          PROVE  secrets' \in Seq(SecretsType) /\ Len(secrets') \in 1 .. MaxLag + 1
      BY <2>1, <2>2, <2>4, CertChanged, SecretsPut
    <2> QED BY <2>3, <2>4 DEF DeleteSecret
  <1>4. Services' = Services /\ Versions(services)' = Versions(services)
    BY <1>1, Untouched
  <1>5. TypeOK'
    BY <1>1, <1>2, <1>3 DEF TypeOK
  <1>6. SecretsStay' /\ SignedByTheCA' /\ SecretsPassed'
    BY <1>2 DEF SecretsStay, SignedByTheCA, SecretsPassed
  <1>7. ServicesStay' /\ ServicesPassed' /\ AsCreated' /\ AddressKnown'
    BY <1>1, <1>4 DEF ServicesStay, ServicesPassed, AsCreated, AddressKnown
  <1> QED BY <1>5, <1>6, <1>7

\* What an informer delivers takes nothing from what the API server has.
LEMMA DeliverHolds ==
    ASSUME IInv, DeliverServices \/ DeliverSecrets \/ DeliverTApp
    PROVE  IInv'
  <1> USE DEF IInv
  <1>1. /\ UNCHANGED <<cas, spec, edits, deletes, pc, e, recorded, todo, signer, faults>>
        /\ services' = services \/ (Len(services) > 1 /\ services' = Tail(services))
        /\ secrets' = secrets \/ (Len(secrets) > 1 /\ secrets' = Tail(secrets))
        /\ tapps' = tapps \/ (Len(tapps) > 1 /\ tapps' = Tail(tapps))
    BY DEF DeliverServices, DeliverSecrets, DeliverTApp, world, loopVars
  <1>2. /\ services' \in Seq(ServicesType) /\ Len(services') \in 1 .. MaxLag + 1
        /\ Services' = Services /\ Versions(services)' \subseteq Versions(services)
    <2>1. services \in Seq(ServicesType) /\ Len(services) \in 1 .. MaxLag + 1
      BY DEF TypeOK
    <2>2. CASE UNCHANGED services
      BY <2>1, <2>2, Untouched
    <2>3. CASE Len(services) > 1 /\ services' = Tail(services)
      BY <2>1, <2>3, Delivered DEF Services
    <2> QED BY <1>1, <2>2, <2>3
  <1>3. /\ secrets' \in Seq(SecretsType) /\ Len(secrets') \in 1 .. MaxLag + 1
        /\ Secrets' = Secrets /\ Versions(secrets)' \subseteq Versions(secrets)
    <2>1. secrets \in Seq(SecretsType) /\ Len(secrets) \in 1 .. MaxLag + 1
      BY DEF TypeOK
    <2>2. CASE UNCHANGED secrets
      BY <2>1, <2>2, Untouched
    <2>3. CASE Len(secrets) > 1 /\ secrets' = Tail(secrets)
      BY <2>1, <2>3, Delivered DEF Secrets
    <2> QED BY <1>1, <2>2, <2>3
  <1>4. tapps' \in Seq(BOOLEAN) /\ Len(tapps') \in 1 .. MaxLag + 1
    BY <1>1, Delivered DEF TypeOK
  <1>5. TypeOK'
    BY <1>1, <1>2, <1>3, <1>4 DEF TypeOK
  <1>6. ServicesStay' /\ SecretsStay' /\ AsCreated'
    BY <1>1, <1>2, <1>3 DEF ServicesStay, SecretsStay, AsCreated
  <1>7. SignedByTheCA' /\ ServicesPassed' /\ SecretsPassed' /\ AddressKnown'
    BY <1>1, <1>2, <1>3 DEF SignedByTheCA, ServicesPassed, SecretsPassed, AddressKnown
  <1> QED BY <1>5, <1>6, <1>7

LEMMA RestartHolds ==
    ASSUME IInv, Restart
    PROVE  IInv'
  <1> USE DEF IInv, Restart, world
  <1>1. faults' \in 0 .. MaxFaults
    BY Faults
  <1>2. Services \in ServicesType /\ Secrets \in SecretsType /\ Last(tapps) \in BOOLEAN
    BY NowAndCached, VersionsHave DEF TypeOK
  <1>3. /\ services' \in Seq(ServicesType) /\ Len(services') \in 1 .. MaxLag + 1
        /\ Services' = Services /\ Versions(services)' = {Services}
    BY <1>2, Relisted DEF Services
  <1>4. /\ secrets' \in Seq(SecretsType) /\ Len(secrets') \in 1 .. MaxLag + 1
        /\ Secrets' = Secrets /\ Versions(secrets)' = {Secrets}
    BY <1>2, Relisted DEF Secrets
  <1>5. tapps' \in Seq(BOOLEAN) /\ Len(tapps') \in 1 .. MaxLag + 1
    BY <1>2, Relisted
  <1>6. TypeOK'
    <2>1. 0 \in CA
      BY ResourcesAssumption DEF CA
    <2> QED BY <1>1, <1>3, <1>4, <1>5, <2>1 DEF TypeOK
  <1>7. ServicesStay' /\ SecretsStay'
    BY <1>3, <1>4 DEF ServicesStay, SecretsStay
  <1>8. SignedByTheCA' /\ ServicesPassed' /\ SecretsPassed'
    BY <1>3, <1>4 DEF SignedByTheCA, ServicesPassed, SecretsPassed
  <1>9. AsCreated' /\ AddressKnown'
    BY <1>3, NowAndCached DEF AsCreated, AddressKnown
  <1> QED BY <1>6, <1>7, <1>8, <1>9

-----------------------------------------------------------------------------
(***************************************************************************)
(* The theorems.                                                           *)
(***************************************************************************)
LEMMA InitHolds ==
    ASSUME Init
    PROVE  IInv
  <1> DEFINE s == [headless |-> FALSE, access |-> "none", address |-> FALSE]
             c == [ca |-> 0, cert |-> [t \in Cert |-> NoCert]]
  <1>1. 0 \in CA /\ 0 \in 0 .. MaxEdits /\ 0 \in 0 .. MaxDeletes /\ 0 \in 0 .. MaxFaults
    BY ResourcesAssumption DEF CA
  <1>2. s \in ServicesType /\ c \in SecretsType
    BY <1>1 DEF ServicesType, SecretsType, NoCert
  <1>3. /\ services \in Seq(ServicesType) /\ Len(services) \in 1 .. MaxLag + 1
        /\ Services = s /\ Versions(services) = {s}
    BY <1>2, Relisted DEF Init, Services
  <1>4. /\ secrets \in Seq(SecretsType) /\ Len(secrets) \in 1 .. MaxLag + 1
        /\ Secrets = c /\ Versions(secrets) = {c}
    BY <1>2, Relisted DEF Init, Secrets
  <1>5. tapps \in Seq(BOOLEAN) /\ Len(tapps) \in 1 .. MaxLag + 1
    BY Relisted, FALSE \in BOOLEAN DEF Init
  <1>6. TypeOK
    BY <1>1, <1>3, <1>4, <1>5, ResourcesAssumption, FALSE \in BOOLEAN DEF Init, TypeOK
  <1>7. ServicesStay /\ SecretsStay
    BY <1>3, <1>4 DEF ServicesStay, SecretsStay
  <1>8. SignedByTheCA /\ ServicesPassed /\ SecretsPassed
    BY <1>4 DEF Init, SignedByTheCA, ServicesPassed, SecretsPassed
  <1>9. AsCreated /\ AddressKnown
    BY <1>3 DEF Init, AsCreated, AddressKnown
  <1> QED BY <1>6, <1>7, <1>8, <1>9 DEF IInv

LEMMA NextHolds ==
    ASSUME IInv, [Next]_vars
    PROVE  IInv'
  <1>1. ASSUME NEW l \in Loop, Step(l) PROVE IInv'
    BY <1>1, StepHolds
  <1>2. ASSUME NEW s \in Specs, Edit(s) PROVE IInv'
    BY <1>2, EditHolds
  <1>3. CASE Provision \/ DeleteSecret \/ Restart
    BY <1>3, ProvisionHolds, DeleteHolds, RestartHolds
  <1>4. CASE DeliverServices \/ DeliverSecrets \/ DeliverTApp
    BY <1>4, DeliverHolds
  <1>5. CASE UNCHANGED vars
    BY <1>5 DEF vars, IInv, TypeOK, ServicesStay, SecretsStay, SignedByTheCA, ServicesPassed,
                SecretsPassed, AsCreated, AddressKnown, Services, Secrets, Last, Versions
  <1> QED BY <1>1, <1>2, <1>3, <1>4, <1>5 DEF Next

\* What the API server, its informers and the loops of sync make of the services and
\* secrets of a cluster stays within its types, and the invariant is inductive.
THEOREM ResourcesInvariance == Spec => []IInv
  BY InitHolds, NextHolds, PTL DEF Spec

\* Every variable has its type; a loop that signs certificates has a CA and some to sign.
THEOREM ResourcesTypes == Spec => []TypeOK
  <1>1. IInv => TypeOK
    BY DEF IInv
  <1> QED BY <1>1, ResourcesInvariance, PTL

\* The certificates at the API server are signed by the CA there, however many loops
\* generate them at once from caches that lag, and whichever calls are lost.
THEOREM OneCA == Spec => []CertsShareCA
  <1>1. IInv => CertsShareCA
    BY DEF IInv, SignedByTheCA, CertsShareCA
  <1> QED BY <1>1, ResourcesInvariance, PTL

\* When a loop makes the TApp, the services and each of the certificates its spec asks
\* for exist at the API server, although it looked for each in a cache.
THEOREM NothingMissing == Spec => []PodsCanMount
  <1>1. IInv => PodsCanMount
    BY DEF IInv, ServicesPassed, SecretsPassed, PodsCanMount
  <1> QED BY <1>1, ResourcesInvariance, PTL

\* A loop that exposes the cluster through a load balancer does not get to the
\* certificates before the status has the balancer's address.
THEOREM AddressFirst == Spec => []AddressKnown
  <1>1. IInv => AddressKnown
    BY DEF IInv
  <1> QED BY <1>1, ResourcesInvariance, PTL
=============================================================================
