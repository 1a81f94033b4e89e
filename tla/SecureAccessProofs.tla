------------------------ MODULE SecureAccessProofs ------------------------
(***************************************************************************)
(* What holds of SecureAccess for every number of members, CAs, deletions  *)
(* and faults, and every configuration that passes validation.             *)
(***************************************************************************)
EXTENDS SecureAccess, TLAPS

-----------------------------------------------------------------------------
(***************************************************************************)
(* The inductive invariant: while the CA lasts there is one certificate    *)
(* that a kind can have, wherever it has got to.                           *)
(***************************************************************************)
\* The CA that signs what is generated.
TheCA == IF spec.ownCA THEN store["ca"] ELSE SuppliedCA

\* What a member finds under a kind.
Right(k) ==
    IF k \in spec.external THEN Supplied(k)
    ELSE IF TheCA = Missing THEN Missing ELSE NewCert(k, TheCA)

\* A CA is self-signed, and the cache has no other.
CAKept ==
    ~caDeleted =>
        /\ cache["ca"] \in {Missing, store["ca"]}
        /\ store["ca"] # Missing => store["ca"] = CASecret(store["ca"].ca)

SignerRight == pc = "cert" => signer # Missing /\ (~caDeleted => signer = TheCA)

\* Old or new, at the API server or in the cache, a certificate is that of the CA.
CertsRight ==
    ~caDeleted =>
        \A k \in Kind : \A c \in {store[k], cache[k]} :
            c # Missing => TheCA # Missing /\ c = NewCert(k, TheCA)

\* Whenever a member has started and its volumes were refreshed.
MembersRight ==
    ~caDeleted =>
        \A m \in Running : \A k \in Mounted :
            /\ Right(k) # Missing
            /\ member[m].certs[k] = Right(k) /\ member[m].roots[k] = Right(k).ca

IInv == TypeOK /\ CAKept /\ SignerRight /\ CertsRight /\ MembersRight

-----------------------------------------------------------------------------
(***************************************************************************)
(* Certificates.                                                           *)
(***************************************************************************)
LEMMA NewCertIs ==
    ASSUME NEW k \in Kind, NEW c \in Certificate
    PROVE  /\ NewCert(k, c) \in Certificate
           /\ NewCert(k, c).ca = c.ca /\ NewCert(k, c).signer = c.signer
           /\ NewCert(k, c).usages = Usages(k) /\ NewCert(k, c).names = Names(k)
           /\ NewCert(k, c) # Missing
  <1>1. /\ Usages(k) \in SUBSET {"client", "server", "sign"}
        /\ Names(k) \in SUBSET {"access", "headless", "members", "extra"}
    BY DEF Kind, Usages, Names, DefaultDNSs
  <1>2. c.ca \in CA /\ c.signer \in CA
    BY DEF Certificate
  <1>3. NewCert(k, c) \in Certificate
    BY <1>1, <1>2 DEF NewCert, Certificate
  <1> QED BY <1>3, MissingAssumption DEF NewCert

LEMMA CASecretIs ==
    ASSUME NEW ca \in CA
    PROVE  /\ CASecret(ca) \in Certificate /\ CASecret(ca) # Missing
           /\ CASecret(ca).ca = ca /\ CASecret(ca).signer = ca
  BY MissingAssumption DEF CASecret, Certificate

LEMMA SuppliedIs ==
    /\ SuppliedCA \in Certificate /\ SuppliedCA # Missing
    /\ SuppliedCA.ca = UsersCA /\ SuppliedCA.signer = UsersCA
    /\ \A k \in Kind : Supplied(k) \in Certificate /\ Supplied(k) # Missing
  <1>1. UsersCA \in CA
    BY AccessAssumption DEF UsersCA, CA
  <1> DEFINE u == IF supply.caKey THEN {"sign"} ELSE {}
  <1>2. u \in SUBSET {"client", "server", "sign"}
    OBVIOUS
  <1> HIDE DEF u
  <1>3. /\ [CASecret(UsersCA) EXCEPT !.usages = u] \in Certificate
        /\ [CASecret(UsersCA) EXCEPT !.usages = u].ca = UsersCA
        /\ [CASecret(UsersCA) EXCEPT !.usages = u].signer = UsersCA
    BY <1>1, <1>2 DEF CASecret, Certificate
  <1>4. /\ SuppliedCA \in Certificate /\ SuppliedCA # Missing
        /\ SuppliedCA.ca = UsersCA /\ SuppliedCA.signer = UsersCA
    BY <1>3, MissingAssumption DEF SuppliedCA, u
  <1> QED BY <1>4, NewCertIs DEF Supplied

LEMMA SpecIs ==
    ASSUME TypeOK
    PROVE  /\ spec.auto \in SUBSET Kind /\ spec.external \in SUBSET Kind
           /\ spec.external \cap spec.auto = {}
           /\ Mounted = spec.external \cup spec.auto /\ Mounted \subseteq Kind
  BY AccessAssumption DEF TypeOK, SpecType, Validate, Mounted, IsSecure

LEMMA SecretTypes ==
    ASSUME TypeOK, NEW k \in Kind
    PROVE  /\ k \in Generated /\ "ca" \in Generated /\ k # "ca"
           /\ store[k] \in MaybeCert /\ cache[k] \in MaybeCert
           /\ Secret(store, k) \in MaybeCert
           /\ store["ca"] \in MaybeCert /\ TheCA \in MaybeCert
  <1>1. k \in Generated /\ "ca" \in Generated /\ k # "ca"
    BY DEF Kind, Generated
  <1> QED BY <1>1, SuppliedIs DEF TypeOK, Secret, MaybeCert, TheCA

\* What a member loads is right if what the API server has is.
LEMMA LoadsRight ==
    ASSUME TypeOK, CertsRight, ~caDeleted, NEW k \in Mounted, Secret(store, k) # Missing
    PROVE  Secret(store, k) = Right(k)
  BY SpecIs, SuppliedIs DEF CertsRight, Secret, Right

-----------------------------------------------------------------------------
(***************************************************************************)
(* The steps of a sync.                                                    *)
(***************************************************************************)
LEMMA FaultCounted ==
    ASSUME TypeOK, Fault \/ NoFault
    PROVE  faults' \in 0 .. MaxFaults
  BY AccessAssumption DEF TypeOK, Fault, NoFault

\* A step that changes neither a secret nor a member.
LEMMA NothingMade ==
    ASSUME IInv, TypeOK', SignerRight', UNCHANGED <<spec, supply, caDeleted, store, cache, member>>
    PROVE  IInv'
  <1>1. TheCA' = TheCA /\ \A k : Right(k)' = Right(k)
    BY DEF TheCA, Right, Supplied, SuppliedCA
  <1>2. CAKept' /\ CertsRight'
    BY <1>1 DEF IInv, CAKept, CertsRight
  <1>3. MembersRight'
    BY <1>1 DEF IInv, MembersRight, Running, Mounted, IsSecure
  <1> QED BY <1>2, <1>3 DEF IInv

LEMMA BeginHolds ==
    ASSUME IInv, Begin
    PROVE  IInv'
  <1> USE DEF Begin, Goto, world
  <1>1. TypeOK'
    BY DEF IInv, TypeOK, MaybeCert, Loaded, Mounted, IsSecure
  <1>2. SignerRight'
    BY DEF SignerRight
  <1> QED BY <1>1, <1>2, NothingMade

LEMMA AskHolds ==
    ASSUME IInv, Ask
    PROVE  IInv'
  <1> USE DEF Ask, Return, Goto, world
  <1>0. conn' \in {"ok", "unreachable", "refused", "failed"}
    BY DEF Dial
  <1>1. TypeOK'
    BY <1>0 DEF IInv, TypeOK, MaybeCert, Loaded, Mounted, IsSecure
  <1>2. SignerRight'
    BY DEF SignerRight
  <1> QED BY <1>1, <1>2, NothingMade

\* The informer's cache is what the API server has, of some names or of all.
LEMMA CacheCatchesUp ==
    ASSUME IInv, TypeOK', SignerRight',
           \A n \in Generated : cache'[n] \in {cache[n], store[n]},
           UNCHANGED <<spec, supply, caDeleted, store, member>>
    PROVE  IInv'
  <1>1. TheCA' = TheCA /\ \A k : Right(k)' = Right(k)
    BY DEF TheCA, Right, Supplied, SuppliedCA
  <1>2. "ca" \in Generated /\ Kind \subseteq Generated
    BY DEF Generated
  <1>3. CAKept'
    BY <1>2 DEF IInv, CAKept
  <1>4. CertsRight'
    BY <1>1, <1>2 DEF IInv, CertsRight
  <1>5. MembersRight'
    BY <1>1 DEF IInv, MembersRight, Running, Mounted, IsSecure
  <1> QED BY <1>3, <1>4, <1>5 DEF IInv

LEMMA PanicHolds ==
    ASSUME IInv, Panic
    PROVE  IInv'
  <1> USE DEF Panic, Return, Goto, world
  <1>1. TypeOK'
    BY DEF IInv, TypeOK, MaybeCert, Loaded, Mounted, IsSecure
  <1>2. SignerRight'
    BY DEF SignerRight
  <1> QED BY <1>1, <1>2, CacheCatchesUp

LEMMA RestartHolds ==
    ASSUME IInv, Restart
    PROVE  IInv'
  <1> USE DEF Restart, Return, Goto, world
  <1>0. faults' \in 0 .. MaxFaults
    BY FaultCounted DEF IInv
  <1>1. TypeOK'
    BY <1>0 DEF IInv, TypeOK, MaybeCert, Loaded, Mounted, IsSecure
  <1>2. SignerRight'
    BY DEF SignerRight
  <1> QED BY <1>1, <1>2, CacheCatchesUp

LEMMA DeliverHolds ==
    ASSUME IInv, NEW n \in Generated, Deliver(n)
    PROVE  IInv'
  <1> USE DEF Deliver, loop, world
  <1>1. TypeOK'
    BY DEF IInv, TypeOK, MaybeCert, Loaded, Mounted, IsSecure
  <1>2. TheCA' = TheCA
    BY DEF TheCA, SuppliedCA
  <1>3. SignerRight'
    BY <1>2 DEF IInv, SignerRight
  <1>4. \A m \in Generated : cache'[m] \in {cache[m], store[m]}
    BY DEF IInv, TypeOK
  <1> QED BY <1>1, <1>3, <1>4, CacheCatchesUp

\* A CA is made when there is none; then nothing can have been signed by it.
LEMMA CAMade ==
    ASSUME IInv, TypeOK', spec.ownCA, NEW ca \in CA, Create("ca", CASecret(ca)),
           pc' = "cert" => signer' = CASecret(ca),
           UNCHANGED <<spec, supply, caDeleted, cache, member>>
    PROVE  IInv'
  <1>1. /\ store["ca"] = Missing /\ TheCA = Missing
        /\ store'["ca"] = CASecret(ca) /\ TheCA' = CASecret(ca)
        /\ \A k \in Kind : store'[k] = store[k]
    <2>1. "ca" \in Generated /\ "ca" \notin Kind /\ Kind \subseteq Generated
      BY DEF Generated, Kind
    <2> QED BY <2>1 DEF Create, TheCA, IInv, TypeOK
  <1>2. SignerRight'
    BY <1>1, CASecretIs DEF SignerRight
  <1>3. CAKept'
    BY <1>1, CASecretIs DEF IInv, CAKept
  <1>4. CertsRight'
    BY <1>1 DEF IInv, CertsRight
  <1>5. MembersRight'
    <2>1. ASSUME NEW m \in Running, NEW k \in Mounted, ~caDeleted
          PROVE  /\ Right(k)' # Missing
                 /\ member[m].certs[k] = Right(k)' /\ member[m].roots[k] = Right(k)'.ca
      <3>1. Right(k) # Missing /\ member[m].certs[k] = Right(k) /\ member[m].roots[k] = Right(k).ca
        BY <2>1 DEF IInv, MembersRight
      <3>2. k \in spec.external
        BY <1>1, <3>1 DEF Right
      <3>3. Right(k)' = Right(k)
        BY <3>2 DEF Right, Supplied, SuppliedCA
      <3> QED BY <3>1, <3>3
    <2> QED BY <2>1 DEF MembersRight, Running, Mounted, IsSecure
  <1> QED BY <1>2, <1>3, <1>4, <1>5 DEF IInv

\* A certificate is signed by the CA at hand.
LEMMA CertMade ==
    ASSUME IInv, TypeOK', SignerRight', pc = "cert", NEW k \in Kind,
           Create(k, NewCert(k, signer)),
           UNCHANGED <<spec, supply, caDeleted, cache, member>>
    PROVE  IInv'
  <1>1. /\ store'[k] = NewCert(k, signer) /\ store'["ca"] = store["ca"]
        /\ \A j \in Kind : j # k => store'[j] = store[j]
    <2>1. "ca" \in Generated /\ k # "ca" /\ Kind \subseteq Generated
      BY DEF Generated, Kind
    <2> QED BY <2>1 DEF Create, IInv, TypeOK
  <1>2. TheCA' = TheCA /\ \A j : Right(j)' = Right(j)
    BY <1>1 DEF TheCA, Right, Supplied, SuppliedCA
  <1>3. ~caDeleted => signer # Missing /\ signer = TheCA
    BY DEF IInv, SignerRight
  <1>4. CAKept'
    BY <1>1 DEF IInv, CAKept
  <1>5. CertsRight'
    BY <1>1, <1>2, <1>3 DEF IInv, CertsRight
  <1>6. MembersRight'
    BY <1>2 DEF IInv, MembersRight, Running, Mounted, IsSecure
  <1> QED BY <1>4, <1>5, <1>6 DEF IInv

LEMMA CAHolds ==
    ASSUME IInv, EnsureCA
    PROVE  IInv'
  <1> USE DEF IInv
  <1>1. /\ pc = "ca"
        /\ UNCHANGED <<spec, supply, caDeleted, deletes, cache, member, conn>>
        /\ Fault \/ NoFault
    BY DEF EnsureCA, world
  <1>2. faults' \in 0 .. MaxFaults
    BY <1>1, FaultCounted
  <1>3. spec.auto \in SUBSET Kind
    BY SpecIs
  <1>4. /\ Mounted' = Mounted /\ Loaded' = Loaded
    BY <1>1 DEF Mounted, IsSecure, Loaded
  <1>5. ASSUME NEW certs \in SUBSET Kind, NEW ca \in MaybeCert, NEW label \in {"idle", "cert", "ask"},
               Goto(label, certs, ca), label = "cert" <=> certs # {},
               store' \in [Generated -> MaybeCert], cas' \in 0 .. MaxCAs
        PROVE  TypeOK'
    BY <1>1, <1>2, <1>4, <1>5 DEF TypeOK, Goto, MaybeCert
  <1>6. ASSUME spec.auto # {}, NEW ca \in Certificate, Goto("cert", spec.auto, ca),
               ~caDeleted => ca = TheCA, UNCHANGED <<store, cas>>
        PROVE  IInv'
    <2>1. TypeOK'
      BY <1>1, <1>2, <1>3, <1>4, <1>6 DEF TypeOK, Goto, MaybeCert
    <2>2. TheCA' = TheCA
      BY <1>1, <1>6 DEF TheCA, SuppliedCA
    <2>3. SignerRight'
      BY <1>1, <1>6, <2>2, MissingAssumption DEF SignerRight, Goto
    <2> QED BY <1>1, <1>6, <2>1, <2>3, NothingMade
  <1>7. ASSUME NEW ca \in MaybeCert, NEW label \in {"idle", "ask"}, Goto(label, {}, ca),
               UNCHANGED store, cas' \in 0 .. MaxCAs
        PROVE  IInv'
    <2>1. TypeOK'
      BY <1>1, <1>2, <1>4, <1>7 DEF TypeOK, Goto, MaybeCert
    <2>2. SignerRight'
      BY <1>7 DEF SignerRight, Goto
    <2> QED BY <1>1, <1>7, <2>1, <2>2, NothingMade
  <1>8. CASE Goto("ask", {}, Missing) /\ UNCHANGED <<store, cas>>
    BY <1>7, <1>8 DEF TypeOK, MaybeCert
  <1>9. CASE spec.auto # {} /\ ~spec.ownCA /\ Goto("cert", spec.auto, SuppliedCA)
             /\ UNCHANGED <<store, cas>>
    BY <1>6, <1>9, SuppliedIs DEF TheCA
  <1>10. CASE spec.auto # {} /\ spec.ownCA /\ cache["ca"] # Missing
              /\ Goto("cert", spec.auto, cache["ca"]) /\ UNCHANGED <<store, cas>>
    <2>1. cache["ca"] \in Certificate
      BY <1>10 DEF TypeOK, Generated, MaybeCert
    <2>2. ~caDeleted => cache["ca"] = TheCA
      BY <1>10 DEF CAKept, TheCA
    <2> QED BY <1>6, <1>10, <2>1, <2>2
  <1>11. CASE /\ spec.auto # {} /\ spec.ownCA /\ cas < MaxCAs /\ cas' = cas + 1
              /\ \/ Create("ca", CASecret(cas'))
                    /\ (Goto("cert", spec.auto, CASecret(cas')) \/ Return)
                 \/ Return /\ UNCHANGED store
    <2>1. cas' \in 0 .. MaxCAs /\ cas' \in CA
      BY <1>11, AccessAssumption DEF TypeOK, CA, UsersCA
    <2>2. CASE Return /\ UNCHANGED store
      BY <1>7, <2>1, <2>2 DEF Return, MaybeCert
    <2>3. CASE Create("ca", CASecret(cas'))
                  /\ (Goto("cert", spec.auto, CASecret(cas')) \/ Return)
      <3>1. store' \in [Generated -> MaybeCert] /\ CASecret(cas') \in MaybeCert
        BY <2>1, <2>3, CASecretIs DEF TypeOK, Create, MaybeCert
      <3>2. CASE Goto("cert", spec.auto, CASecret(cas'))
        <4>1. TypeOK'
          BY <1>3, <1>5, <1>11, <2>1, <3>1, <3>2
        <4>2. signer' = CASecret(cas')
          BY <3>2 DEF Goto
        <4> QED BY <1>1, <1>11, <2>1, <2>3, <4>1, <4>2, CAMade
      <3>3. CASE Return
        <4>1. TypeOK'
          BY <1>5, <2>1, <3>1, <3>3 DEF Return, MaybeCert
        <4>2. pc' = "idle"
          BY <3>3 DEF Return, Goto
        <4> QED BY <1>1, <1>11, <2>1, <2>3, <4>1, <4>2, CAMade
      <3> QED BY <2>3, <3>2, <3>3
    <2> QED BY <1>11, <2>2, <2>3
  <1> QED BY <1>8, <1>9, <1>10, <1>11 DEF EnsureCA

LEMMA CertHolds ==
    ASSUME IInv, EnsureCert
    PROVE  IInv'
  <1> USE DEF IInv
  <1> DEFINE Continue(k) == Goto(IF todo \ {k} = {} THEN "ask" ELSE "cert", todo \ {k}, signer)
  <1>1. /\ pc = "cert"
        /\ UNCHANGED <<spec, supply, caDeleted, deletes, cache, cas, member, conn>>
        /\ Fault \/ NoFault
    BY DEF EnsureCert, world
  <1>2. PICK k \in todo :
          /\ Continue(k) \/ Return
          /\ UNCHANGED store \/ Create(k, NewCert(k, signer))
    BY DEF EnsureCert
  <1>3. faults' \in 0 .. MaxFaults
    BY <1>1, FaultCounted
  <1>4. k \in Kind /\ k \in Generated /\ todo \ {k} \in SUBSET Kind /\ signer \in Certificate
    BY <1>1, <1>2 DEF TypeOK, Generated, SignerRight, MaybeCert
  <1>5. store' \in [Generated -> MaybeCert]
    BY <1>2, <1>4, NewCertIs DEF TypeOK, Create, MaybeCert
  <1>6. /\ todo' \in SUBSET Kind /\ (pc' = "cert") = (todo' # {}) /\ signer' \in MaybeCert
        /\ pc' \in {"idle", "ask", "cert"} /\ (pc' = "cert" => signer' = signer)
    <2>1. CASE Continue(k)
      BY <1>4, <2>1 DEF Goto, MaybeCert
    <2>2. CASE Return
      BY <2>2 DEF Goto, Return, MaybeCert
    <2> QED BY <1>2, <2>1, <2>2
  <1>7. TypeOK'
    BY <1>1, <1>3, <1>5, <1>6 DEF TypeOK, MaybeCert, Loaded, Mounted, IsSecure
  <1>8. TheCA' = TheCA
    <2>1. store'["ca"] = store["ca"]
      BY <1>2, <1>4 DEF Create, TypeOK, Kind, Generated
    <2> QED BY <1>1, <2>1 DEF TheCA, SuppliedCA
  <1>9. SignerRight'
    BY <1>1, <1>6, <1>8 DEF SignerRight
  <1>10. CASE UNCHANGED store
    BY <1>1, <1>7, <1>9, <1>10, NothingMade
  <1>11. CASE Create(k, NewCert(k, signer))
    BY <1>1, <1>4, <1>7, <1>9, <1>11, CertMade
  <1> QED BY <1>2, <1>10, <1>11

-----------------------------------------------------------------------------
(***************************************************************************)
(* Members and people.                                                     *)
(***************************************************************************)
\* A step of a member, which loads what is right.
LEMMA MemberHolds ==
    ASSUME IInv, NEW m \in Member,
           member' \in [Member -> Loaded \cup {Missing}],
           \A n \in Member : n # m => member'[n] = member[n],
           ~caDeleted /\ member'[m] # Missing =>
                \A k \in Mounted : /\ Right(k) # Missing
                                   /\ member'[m].certs[k] = Right(k)
                                   /\ member'[m].roots[k] = Right(k).ca,
           faults' \in 0 .. MaxFaults,
           UNCHANGED <<world, store, cache, cas, loop, conn>>
    PROVE  IInv'
  <1> USE DEF world, loop
  <1>1. TypeOK'
    BY DEF IInv, TypeOK, MaybeCert, Loaded, Mounted, IsSecure
  <1>2. TheCA' = TheCA /\ \A k : Right(k)' = Right(k)
    BY DEF TheCA, Right, Supplied, SuppliedCA
  <1>3. CAKept' /\ SignerRight' /\ CertsRight'
    BY <1>2 DEF IInv, CAKept, SignerRight, CertsRight
  <1>4. MembersRight'
    BY <1>2 DEF IInv, MembersRight, Running, Mounted, IsSecure
  <1> QED BY <1>1, <1>3, <1>4 DEF IInv

LEMMA StartHolds ==
    ASSUME IInv, NEW m \in Member, StartMember(m)
    PROVE  IInv'
  <1> DEFINE roots == [k \in Mounted |-> Secret(store, k).ca]
             certs == [k \in Mounted |-> Secret(store, k)]
             x == [roots |-> roots, certs |-> certs]
  <1> USE DEF IInv
  <1>1. /\ CanMount /\ member' = [member EXCEPT ![m] = x]
        /\ UNCHANGED <<world, store, cache, cas, loop, conn, faults>>
    BY DEF StartMember
  <1>2. \A k \in Mounted : Secret(store, k) \in Certificate /\ Secret(store, k) # Missing
    BY <1>1, SecretTypes, SpecIs DEF CanMount, MaybeCert
  <1>3. roots \in [Mounted -> CA] /\ certs \in [Mounted -> Certificate]
    BY <1>2 DEF Certificate
  <1>4. ~caDeleted => \A k \in Mounted : Right(k) = Secret(store, k)
    BY <1>2, LoadsRight
  <1>5. \A k \in Mounted : roots[k] = Secret(store, k).ca /\ certs[k] = Secret(store, k)
    OBVIOUS
  <1> HIDE DEF roots, certs
  <1>6. x \in Loaded /\ x.roots = roots /\ x.certs = certs
    BY <1>3 DEF Loaded
  <1> HIDE DEF x
  <1>7. /\ member' \in [Member -> Loaded \cup {Missing}] /\ member'[m] = x
        /\ \A n \in Member : n # m => member'[n] = member[n]
    BY <1>1, <1>6 DEF TypeOK
  <1>8. faults' \in 0 .. MaxFaults
    BY <1>1 DEF TypeOK
  <1>9. ~caDeleted =>
            \A k \in Mounted : /\ Right(k) # Missing
                               /\ member'[m].certs[k] = Right(k)
                               /\ member'[m].roots[k] = Right(k).ca
    BY <1>2, <1>4, <1>5, <1>6, <1>7
  <1> QED BY <1>1, <1>7, <1>8, <1>9, MemberHolds

\* The roots are not loaded again, and need not be.
LEMMA RefreshHolds ==
    ASSUME IInv, NEW m \in Member, NEW k \in Kind, RefreshVolume(m, k)
    PROVE  IInv'
  <1> DEFINE c == Secret(store, k)
             x == [member[m] EXCEPT !.certs[k] = c]
  <1> USE DEF IInv
  <1>1. /\ member[m] # Missing /\ k \in Mounted /\ c # Missing
        /\ member' = [member EXCEPT ![m] = x]
        /\ UNCHANGED <<world, store, cache, cas, loop, conn, faults>>
    BY DEF RefreshVolume
  <1>2. c \in Certificate
    BY <1>1, SecretTypes DEF MaybeCert
  <1>3. ~caDeleted => c = Right(k)
    BY <1>1, LoadsRight
  <1> HIDE DEF c
  <1>4. /\ x \in Loaded /\ x.roots = member[m].roots /\ x.certs[k] = c
        /\ \A j \in Mounted : j # k => x.certs[j] = member[m].certs[j]
    <2>1. member[m] \in Loaded
      BY <1>1 DEF TypeOK
    <2> QED BY <1>1, <1>2, <2>1 DEF Loaded
  <1> HIDE DEF x
  <1>5. /\ member' \in [Member -> Loaded \cup {Missing}] /\ member'[m] = x
        /\ \A n \in Member : n # m => member'[n] = member[n]
    BY <1>1, <1>4 DEF TypeOK
  <1>6. faults' \in 0 .. MaxFaults
    BY <1>1 DEF TypeOK
  <1>7. ~caDeleted =>
            \A j \in Mounted : /\ Right(j) # Missing
                               /\ member'[m].certs[j] = Right(j)
                               /\ member'[m].roots[j] = Right(j).ca
    BY <1>1, <1>3, <1>4, <1>5 DEF MembersRight, Running
  <1> QED BY <1>1, <1>5, <1>6, <1>7, MemberHolds

LEMMA StopHolds ==
    ASSUME IInv, NEW m \in Member, StopMember(m)
    PROVE  IInv'
  <1>1. /\ member' \in [Member -> Loaded \cup {Missing}] /\ member'[m] = Missing
        /\ \A n \in Member : n # m => member'[n] = member[n]
    BY DEF IInv, TypeOK, StopMember
  <1>2. faults' \in 0 .. MaxFaults
    BY FaultCounted DEF IInv, StopMember
  <1> QED BY <1>1, <1>2, MemberHolds DEF StopMember

\* Of the secrets, people may delete all but the CA.
LEMMA DeleteHolds ==
    ASSUME IInv, NEW n \in Generated, DeleteSecret(n)
    PROVE  IInv'
  <1> USE DEF IInv
  <1>1. /\ deletes < MaxDeletes /\ deletes' = deletes + 1
        /\ store' = [store EXCEPT ![n] = Missing]
        /\ UNCHANGED <<spec, supply, cache, cas, pc, todo, signer, member, conn, faults>>
    BY DEF DeleteSecret, loop
  <1>2. caDeleted' \in BOOLEAN /\ (~caDeleted' => ~caDeleted /\ n # "ca")
    BY Zenon DEF DeleteSecret, TypeOK
  <1>3. TypeOK'
    <2>1. deletes' \in 0 .. MaxDeletes
      BY <1>1, AccessAssumption DEF TypeOK
    <2>2. store' \in [Generated -> MaybeCert]
      BY <1>1 DEF TypeOK, MaybeCert
    <2> QED BY <1>1, <1>2, <2>1, <2>2 DEF TypeOK, MaybeCert, Loaded, Mounted, IsSecure
  <1>4. ~caDeleted' => TheCA' = TheCA /\ (\A k : Right(k)' = Right(k)) /\ store'["ca"] = store["ca"]
    <2>1. ~caDeleted' => store'["ca"] = store["ca"]
      BY <1>1, <1>2 DEF TypeOK, Generated
    <2> QED BY <1>1, <2>1 DEF TheCA, Right, Supplied, SuppliedCA
  <1>5. CAKept' /\ SignerRight'
    BY <1>1, <1>2, <1>4 DEF CAKept, SignerRight
  <1>6. CertsRight'
    <2>1. \A k \in Kind : store'[k] \in {store[k], Missing}
      BY <1>1 DEF TypeOK, Generated
    <2> QED BY <1>1, <1>2, <1>4, <2>1 DEF CertsRight
  <1>7. MembersRight'
    BY <1>1, <1>2, <1>4 DEF MembersRight, Running, Mounted, IsSecure
  <1> QED BY <1>3, <1>5, <1>6, <1>7

-----------------------------------------------------------------------------
(***************************************************************************)
(* The theorems.                                                           *)
(***************************************************************************)
LEMMA InitHolds ==
    ASSUME Init
    PROVE  IInv
  <1>1. TypeOK
    <2>1. (pc = "cert") = (todo # {})
      BY DEF Init
    <2>2. caDeleted \in BOOLEAN
      BY Zenon DEF Init
    <2>3. /\ store \in [Generated -> MaybeCert] /\ cache \in [Generated -> MaybeCert]
          /\ member \in [Member -> Loaded \cup {Missing}]
      BY DEF Init, MaybeCert
    <2> QED BY <2>1, <2>2, <2>3, AccessAssumption DEF Init, TypeOK, MaybeCert
  <1>2. store["ca"] = Missing /\ cache["ca"] = Missing
        /\ \A k \in Kind : store[k] = Missing /\ cache[k] = Missing
    BY DEF Init, Generated
  <1>3. CAKept /\ SignerRight /\ CertsRight
    BY <1>2 DEF Init, CAKept, SignerRight, CertsRight
  <1>4. MembersRight
    BY DEF Init, MembersRight, Running
  <1> QED BY <1>1, <1>3, <1>4 DEF IInv

LEMMA NextHolds ==
    ASSUME IInv, [Next]_vars
    PROVE  IInv'
  <1>1. CASE LoopStep \/ Restart
    BY <1>1, BeginHolds, CAHolds, CertHolds, AskHolds, PanicHolds, RestartHolds DEF LoopStep
  <1>2. ASSUME NEW n \in Generated, Deliver(n) \/ DeleteSecret(n)
        PROVE  IInv'
    BY <1>2, DeliverHolds, DeleteHolds
  <1>3. ASSUME NEW m \in Member, StartMember(m) \/ StopMember(m) \/ \E k \in Kind : RefreshVolume(m, k)
        PROVE  IInv'
    BY <1>3, StartHolds, StopHolds, RefreshHolds
  <1>4. CASE UNCHANGED vars
    <2>1. TheCA' = TheCA /\ \A k : Right(k)' = Right(k)
      BY <1>4 DEF vars, world, TheCA, Right, Supplied, SuppliedCA
    <2> QED BY <1>4, <2>1 DEF vars, world, loop, IInv, TypeOK, CAKept, SignerRight, CertsRight,
                             MembersRight, MaybeCert, Loaded, Running, Mounted, IsSecure
  <1> QED BY <1>1, <1>2, <1>3, <1>4 DEF Next

\* The secrets, what members load of them and the loop that makes them stay within
\* their types, and the invariant is inductive.
THEOREM AccessInvariance == Spec => []IInv
  BY InitHolds, NextHolds, PTL DEF Spec

\* Every variable has its type, and a loop that makes certificates has some to make.
THEOREM AccessTypes == Spec => []TypeOK
  <1>1. IInv => TypeOK
    BY DEF IInv
  <1> QED BY <1>1, AccessInvariance, PTL

LEMMA RightIs ==
    ASSUME IInv, NEW k \in Mounted, Right(k) # Missing, ~caDeleted
    PROVE  /\ Right(k).usages = Usages(k) /\ Right(k).names = Names(k)
           /\ Issuer(spec, k) = "user" => Right(k).ca = UsersCA /\ Right(k).signer = UsersCA
           /\ Issuer(spec, k) = "operator" =>
                store["ca"] # Missing /\ Right(k) = NewCert(k, store["ca"])
           /\ Right(k).signer = Right(k).ca
  <1>1. k \in Kind /\ TypeOK
    BY SpecIs DEF IInv
  <1>2. CASE k \in spec.external
    BY <1>1, <1>2, SuppliedIs, NewCertIs DEF Right, Supplied, Issuer
  <1>3. CASE k \notin spec.external /\ ~spec.ownCA
    BY <1>1, <1>3, SuppliedIs, NewCertIs DEF Right, TheCA, Issuer
  <1>4. CASE k \notin spec.external /\ spec.ownCA
    <2>1. store["ca"] # Missing /\ Right(k) = NewCert(k, store["ca"])
      BY <1>4 DEF Right, TheCA
    <2>2. store["ca"] \in Certificate
      BY <1>1, <2>1, SecretTypes DEF MaybeCert
    <2>3. store["ca"].signer = store["ca"].ca
      <3>1. store["ca"].ca \in CA
        BY <2>2 DEF Certificate
      <3>2. store["ca"] = CASecret(store["ca"].ca)
        BY <2>1 DEF IInv, CAKept
      <3> QED BY <3>1, <3>2, CASecretIs
    <2>4. Issuer(spec, k) = "operator"
      BY <1>4 DEF Issuer
    <2> QED BY <1>1, <2>1, <2>2, <2>3, <2>4, NewCertIs
  <1> QED BY <1>2, <1>3, <1>4

\* A member and the operator agree, through deletions, restarts and late reads, as long
\* as the CA is not deleted: what ClientConfig presents each member accepts.
THEOREM OperatorAccess == Spec => []OperatorAccepted
  <1>1. IInv => OperatorAccepted
    <2> SUFFICES ASSUME IInv, SameIssuer(spec), ~caDeleted, NEW m \in Running,
                        ClientSecret # Missing
                 PROVE  Accepts(m, "server", ClientSecret)
      BY DEF OperatorAccepted
    <2>1. "server" \in Mounted /\ "client" \in Mounted /\ TypeOK
      BY SpecIs DEF SameIssuer, IInv
    <2>2. Right("server") # Missing /\ member[m].roots["server"] = Right("server").ca
      BY <2>1 DEF IInv, MembersRight
    <2>3. ClientSecret = Right("client")
      BY <2>1, SpecIs DEF IInv, CertsRight, ClientSecret, Secret, Right
    <2>4. ClientSecret.signer = member[m].roots["server"]
      <3>1. CASE Issuer(spec, "server") = "user"
        BY <2>1, <2>2, <2>3, <3>1, RightIs DEF SameIssuer
      <3>2. CASE Issuer(spec, "server") = "operator"
        <4>1. /\ store["ca"] # Missing /\ Right("server") = NewCert("server", store["ca"])
              /\ Right("client") = NewCert("client", store["ca"])
          BY <2>1, <2>2, <2>3, <3>2, RightIs DEF SameIssuer
        <4>2. Right("client").signer = Right("client").ca
          BY <2>1, <2>3, RightIs
        <4> QED BY <2>2, <2>3, <4>1, <4>2 DEF NewCert
      <3> QED BY <3>1, <3>2 DEF Issuer
    <2>5. "client" \in ClientSecret.usages
      BY <2>1, <2>3, RightIs DEF Usages
    <2> QED BY <2>4, <2>5 DEF Accepts
  <1> QED BY <1>1, AccessInvariance, PTL

\* Two members that run accept each other as peers, and each its own gateway, whichever
\* of them started before a certificate was deleted and generated again.
THEOREM MembersTrustEachOther == Spec => []MembersTrust
  <1>1. IInv => MembersTrust
    <2> SUFFICES ASSUME IInv, ~caDeleted, NEW m \in Running, NEW n \in Running
                 PROVE  /\ IsPeerSecure =>
                            /\ Accepts(m, "peer", member[n].certs["peer"])
                            /\ "server" \in member[n].certs["peer"].usages
                            /\ "members" \in member[n].certs["peer"].names
                        /\ IsClientSecure => Accepts(m, "server", member[m].certs["server"])
      BY DEF MembersTrust
    <2>1. ASSUME NEW k \in Mounted, k # "client"
          PROVE  /\ Accepts(m, k, member[n].certs[k])
                 /\ member[n].certs[k].usages = {"client", "server"}
                 /\ member[n].certs[k].names = Names(k)
      <3>1. /\ Right(k) # Missing /\ member[n].certs[k] = Right(k)
            /\ member[m].roots[k] = Right(k).ca
        BY DEF IInv, MembersRight
      <3>2. /\ Right(k).usages = {"client", "server"} /\ Right(k).names = Names(k)
            /\ Right(k).signer = Right(k).ca
        BY <2>1, <3>1, RightIs DEF Usages
      <3> QED BY <3>1, <3>2 DEF Accepts
    <2>2. IsPeerSecure => "peer" \in Mounted
      BY DEF IsPeerSecure, Mounted, Kind
    <2>3. IsClientSecure => "server" \in Mounted
      BY DEF IsClientSecure, Mounted, Kind
    <2>4. "members" \in Names("peer")
      BY DEF Names, DefaultDNSs
    <2>5. IsClientSecure => Accepts(m, "server", member[m].certs["server"])
      <3>1. ASSUME "server" \in Mounted
            PROVE  Accepts(m, "server", member[m].certs["server"])
        <4>1. /\ Right("server") # Missing /\ member[m].certs["server"] = Right("server")
              /\ member[m].roots["server"] = Right("server").ca
          BY <3>1 DEF IInv, MembersRight
        <4>2. /\ "client" \in Right("server").usages
              /\ Right("server").signer = Right("server").ca
          BY <3>1, <4>1, RightIs DEF Usages
        <4> QED BY <4>1, <4>2 DEF Accepts
      <3> QED BY <2>3, <3>1
    <2> QED BY <2>1, <2>2, <2>4, <2>5
  <1> QED BY <1>1, AccessInvariance, PTL
=============================================================================
