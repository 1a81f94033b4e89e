---------------------------- MODULE SecureAccess ----------------------------
(***************************************************************************)
(* Who can talk to whom over TLS: the certificates the operator generates, *)
(* those a user supplies, what the members of the etcd cluster load of     *)
(* them, and the client configuration the operator builds for itself.      *)
(*                                                                         *)
(* A certificate is what its holder's partner verifies of it: the CA that  *)
(* signed it, its extended key usages and its alternative names.  Secrets  *)
(* are deleted by people and made again by the next sync, which reads them *)
(* in an informer's cache; members start, restart and see a new secret in  *)
(* their volume at times of their own.                                     *)
(* (secure/certificate.go, utils/tls.go; ensureCert and ClientConfig in    *)
(* etcd.go.  How etcd and the kubelet use secrets is not in the            *)
(* repository: it is modelled from the arguments and volumes of tapp.go.)  *)
(***************************************************************************)
EXTENDS Integers, FiniteSets

CONSTANTS
    Missing,    \* no secret; a member that is down
    Member,     \* the members of the etcd cluster
    Specs,      \* the TLS configurations: [external, auto, ownCA]
    Supplies,   \* what users put in the secrets they supply: [caKey, keys]
    MaxCAs,     \* bound on the CAs ever generated
    MaxDeletes, \* bound on the secrets people delete
    MaxFaults   \* bound on failed calls, restarts of members and of the operator

Kind == {"server", "peer", "client"}

\* external, auto: the kinds a user supplies and has generated; ownCA:
\* ExternalCASecret is empty, so that the operator generates the CA.
SpecType == [external : SUBSET Kind, auto : SUBSET Kind, ownCA : BOOLEAN]

\* caKey: the supplied CA comes with its private key; keys: the supplied secrets
\* hold keys of the names the code reads (pem) or the comments give (crt).
SupplyType == [caKey : BOOLEAN, keys : {"pem", "crt"}]

\* The configurations a webhook lets pass.
Validate(s) == s.external \cap s.auto = {}

ASSUME AccessAssumption ==
    /\ Specs \subseteq {s \in SpecType : Validate(s)} /\ Supplies \subseteq SupplyType
    /\ MaxCAs \in Nat /\ MaxDeletes \in Nat /\ MaxFaults \in Nat

UsersCA == 0
CA == UsersCA .. MaxCAs

\* ca: the certificate in ca.pem; signer: the CA of the certificate itself.
Certificate ==
    [ca : CA, signer : CA, usages : SUBSET {"client", "server", "sign"},
     names : SUBSET {"access", "headless", "members", "extra"}]

ASSUME MissingAssumption == Missing \notin Certificate

VARIABLES
    spec,       \* the EtcdCluster
    supply,     \* what its user supplied
    store,      \* the secret of each name at the API server
    cache,      \* and in the informer's cache
    cas,        \* the CAs generated so far
    pc,         \* where the loop is in sync
    todo,       \* the certificates it has yet to look at
    signer,     \* the CA secret it has at hand
    member,     \* what each member has loaded, Missing if it is down
    conn,       \* how the operator's last attempt to reach a member ended
    caDeleted, deletes, faults

loop == <<pc, todo, signer>>
world == <<spec, supply, caDeleted, deletes>>
vars == <<world, store, cache, cas, loop, member, conn, faults>>

Generated == Kind \cup {"ca"}

-----------------------------------------------------------------------------
(***************************************************************************)
(* Certificates.                                                           *)
(***************************************************************************)
IsSecure(s, k) == k \in s.external \cup s.auto
IsClientSecure == IsSecure(spec, "server")
IsPeerSecure == IsSecure(spec, "peer")
Mounted == {k \in Kind : IsSecure(spec, k)}

\* A self-signed CA and its key.
CASecret(ca) == [ca |-> ca, signer |-> ca, usages |-> {"sign"}, names |-> {}]

\* A mutant: a peer's certificate is for serving only.
ServingUsages(k) == IF k = "client" THEN {"client"} ELSE {"server"}

\* Members are clients too: of their peers, and of their own gateway.
Usages(k) == IF k = "client" THEN {"client"} ELSE {"client", "server"}

DefaultDNSs == {"access", "headless", "members"}
Names(k) ==
    CASE k = "server" -> DefaultDNSs \cup {"extra"}
      [] k = "peer"   -> DefaultDNSs
      [] k = "client" -> {}

\* GenerateCertAndKey wants the certificate and the key of a CA.
CanSign(ca) == "sign" \in ca.usages

NewCert(k, ca) ==
    [ca |-> ca.ca, signer |-> ca.signer, usages |-> Usages(k), names |-> Names(k)]

\* What a user supplies, all of it signed by one CA of their own.
SuppliedCA == [CASecret(UsersCA) EXCEPT !.usages = IF supply.caKey THEN {"sign"} ELSE {}]
Supplied(k) == NewCert(k, SuppliedCA)

\* The secret of a kind that the volumes of a member name.
Secret(secrets, k) == IF k \in spec.external THEN Supplied(k) ELSE secrets[k]

-----------------------------------------------------------------------------
(***************************************************************************)
(* ensureCert.                                                             *)
(***************************************************************************)
Fault == faults < MaxFaults /\ faults' = faults + 1
NoFault == faults' = faults

Goto(label, certs, ca) == pc' = label /\ todo' = certs /\ signer' = ca
Return == Goto("idle", {}, Missing)

\* A secret is created, or it exists already and the sync ends; or the call fails.
Create(n, cert) ==
    /\ store[n] = Missing
    /\ store' = [store EXCEPT ![n] = cert]

\* A mutant: ExternalCASecret is forgotten, every certificate is signed by the
\* operator's own CA.
EnsureOwnCA ==
    /\ pc = "ca" /\ NoFault
    /\ \/ cache["ca"] # Missing /\ Goto("cert", spec.auto, cache["ca"]) /\ UNCHANGED <<store, cas>>
       \/ /\ cache["ca"] = Missing /\ cas < MaxCAs
          /\ cas' = cas + 1
          /\ \/ Create("ca", CASecret(cas')) /\ Goto("cert", spec.auto, CASecret(cas'))
             \/ store["ca"] # Missing /\ Return /\ UNCHANGED store
    /\ UNCHANGED <<world, cache, member, conn>>

\* The CA, if anything is to be generated: the one supplied, the one there is, or
\* a new one.
EnsureCA ==
    /\ pc = "ca"
    /\ \/ /\ spec.auto = {} /\ NoFault /\ Goto("ask", {}, Missing)
          /\ UNCHANGED <<store, cas>>
       \/ /\ spec.auto # {} /\ ~spec.ownCA
          /\ NoFault /\ Goto("cert", spec.auto, SuppliedCA)
          /\ UNCHANGED <<store, cas>>
       \/ /\ spec.auto # {} /\ spec.ownCA /\ cache["ca"] # Missing
          /\ NoFault /\ Goto("cert", spec.auto, cache["ca"])
          /\ UNCHANGED <<store, cas>>
       \/ /\ spec.auto # {} /\ spec.ownCA /\ cache["ca"] = Missing /\ cas < MaxCAs
          /\ cas' = cas + 1
          /\ \/ /\ Create("ca", CASecret(cas'))
                /\ \/ NoFault /\ Goto("cert", spec.auto, CASecret(cas'))
                   \/ Fault /\ Return
             \/ store["ca"] # Missing /\ NoFault /\ Return /\ UNCHANGED store
    /\ UNCHANGED <<world, cache, member, conn>>

\* A mutant: certificates are generated along with their CA, not one by one.
EnsureCertsOfNewCA ==
    /\ pc = "cert"
    /\ \E k \in todo :
          LET rest == todo \ {k}
              Continue == Goto(IF rest = {} THEN "ask" ELSE "cert", rest, signer)
          IN  \/ /\ store[k] = Missing /\ cache["ca"] = Missing
                 /\ Create(k, NewCert(k, signer)) /\ NoFault /\ Continue
              \/ /\ store[k] # Missing \/ cache["ca"] # Missing
                 /\ NoFault /\ Continue /\ UNCHANGED store
    /\ UNCHANGED <<world, cache, cas, member, conn>>

\* The certificates one by one, in any order; one that is in the cache is not
\* looked at, and the first error ends the sync.
EnsureCert ==
    /\ pc = "cert"
    /\ \E k \in todo :
          LET rest == todo \ {k}
              Continue == Goto(IF rest = {} THEN "ask" ELSE "cert", rest, signer)
          IN  \/ cache[k] # Missing /\ NoFault /\ Continue /\ UNCHANGED store
              \/ /\ cache[k] = Missing /\ CanSign(signer)
                 /\ \/ /\ Create(k, NewCert(k, signer))
                       /\ \/ NoFault /\ Continue
                          \/ Fault /\ Return
                    \/ store[k] # Missing /\ NoFault /\ Return /\ UNCHANGED store
              \/ cache[k] = Missing /\ ~CanSign(signer) /\ NoFault /\ Return /\ UNCHANGED store
    /\ UNCHANGED <<world, cache, cas, member, conn>>

Begin ==
    /\ pc = "idle"
    /\ Goto("ca", {}, Missing)
    /\ UNCHANGED <<world, store, cache, cas, member, conn, faults>>

-----------------------------------------------------------------------------
(***************************************************************************)
(* The members: the kubelet mounts secrets, etcd loads them.               *)
(***************************************************************************)
\* The TApp is there once a sync has got as far as asking the members.
Deployed == conn # "none"
CanMount == \A k \in Mounted : Secret(store, k) # Missing

\* etcd finds its files by the names in its arguments, ca.pem, server.pem, ...
CanLoad == supply.keys = "pem" \/ {"server", "peer"} \cap spec.external = {}

\* The roots are those of the start; the certificates follow the volume.
StartMember(m) ==
    /\ member[m] = Missing /\ Deployed /\ CanMount /\ CanLoad
    /\ member' = [member EXCEPT ![m] =
                    [roots |-> [k \in Mounted |-> Secret(store, k).ca],
                     certs |-> [k \in Mounted |-> Secret(store, k)]]]
    /\ UNCHANGED <<world, store, cache, cas, loop, conn, faults>>

RefreshVolume(m, k) ==
    /\ member[m] # Missing /\ k \in Mounted
    /\ Secret(store, k) \notin {Missing, member[m].certs[k]}
    /\ member' = [member EXCEPT ![m].certs[k] = Secret(store, k)]
    /\ UNCHANGED <<world, store, cache, cas, loop, conn, faults>>

StopMember(m) ==
    /\ member[m] # Missing /\ Fault
    /\ member' = [member EXCEPT ![m] = Missing]
    /\ UNCHANGED <<world, store, cache, cas, loop, conn>>

\* trusted-ca-file makes etcd ask for a client certificate and verify it.
Accepts(m, k, cert) == cert.signer = member[m].roots[k] /\ "client" \in cert.usages

-----------------------------------------------------------------------------
(***************************************************************************)
(* The operator's own access: ClientConfig, Client and a first call.       *)
(***************************************************************************)
\* The client certificate, external before generated.
ClientSecret == Secret(cache, "client")
IsNil == ~IsSecure(spec, "client")

\* X509KeyPair finds no certificate under the name client.pem.
Readable == supply.keys = "pem" \/ "client" \notin spec.external

Plain == ~IsClientSecure
Panics == ~Plain /\ IsNil
Fails == ~Plain /\ (ClientSecret = Missing \/ ~Readable)
Running == {m \in Member : member[m] # Missing}

\* The service leads to any member; the operator verifies nothing of it
\* (InsecureSkipVerify), the member verifies the operator.
Dial ==
    \/ Running = {} /\ conn' = "unreachable"
    \/ \E m \in Running :
          conn' = IF Plain \/ Accepts(m, "server", ClientSecret) THEN "ok" ELSE "refused"

Ask ==
    /\ pc = "ask" /\ ~Panics
    /\ IF Fails THEN conn' = "failed" ELSE Dial
    /\ Return
    /\ UNCHANGED <<world, store, cache, cas, member, faults>>

\* secret.Data of a nil secret: the loop's goroutine takes the process with it.
Panic ==
    /\ pc = "ask" /\ Panics
    /\ conn' = "panic"
    /\ cache' = store
    /\ Return
    /\ UNCHANGED <<world, store, cas, member, faults>>

-----------------------------------------------------------------------------
(***************************************************************************)
(* Everything else that moves.                                             *)
(***************************************************************************)
Deliver(n) ==
    /\ cache[n] # store[n]
    /\ cache' = [cache EXCEPT ![n] = store[n]]
    /\ UNCHANGED <<world, store, cas, loop, member, conn, faults>>

DeleteSecret(n) ==
    /\ store[n] # Missing
    /\ deletes < MaxDeletes /\ deletes' = deletes + 1
    /\ caDeleted' = (caDeleted \/ n = "ca")
    /\ store' = [store EXCEPT ![n] = Missing]
    /\ UNCHANGED <<spec, supply, cache, cas, loop, member, conn, faults>>

Restart ==
    /\ Fault
    /\ cache' = store
    /\ Return
    /\ UNCHANGED <<world, store, cas, member, conn>>

Init ==
    /\ spec \in Specs /\ supply \in Supplies
    /\ store = [n \in Generated |-> Missing] /\ cache = store
    /\ cas = 0
    /\ pc = "idle" /\ todo = {} /\ signer = Missing
    /\ member = [m \in Member |-> Missing]
    /\ conn = "none"
    /\ caDeleted = FALSE /\ deletes = 0 /\ faults = 0

LoopStep == Begin \/ EnsureCA \/ EnsureCert \/ Ask \/ Panic

Next ==
    \/ LoopStep \/ Restart
    \/ \E n \in Generated : Deliver(n) \/ DeleteSecret(n)
    \/ \E m \in Member :
        StartMember(m) \/ StopMember(m) \/ \E k \in Kind : RefreshVolume(m, k)

\* The loop goes on, the informer delivers, the kubelet starts members.
Fairness ==
    /\ WF_vars(LoopStep)
    /\ \A n \in Generated : WF_vars(Deliver(n))
    /\ \A m \in Member : WF_vars(StartMember(m))

Spec == Init /\ [][Next]_vars /\ Fairness

-----------------------------------------------------------------------------
(***************************************************************************)
(* Properties.                                                             *)
(***************************************************************************)
MaybeCert == Certificate \cup {Missing}
Loaded == [roots : [Mounted -> CA], certs : [Mounted -> Certificate]]

TypeOK ==
    /\ spec \in Specs /\ supply \in Supplies
    /\ store \in [Generated -> MaybeCert] /\ cache \in [Generated -> MaybeCert]
    /\ cas \in 0 .. MaxCAs
    /\ pc \in {"idle", "ca", "cert", "ask"}
    /\ todo \subseteq Kind /\ (pc = "cert") = (todo # {}) /\ signer \in MaybeCert
    /\ member \in [Member -> Loaded \cup {Missing}]
    /\ conn \in {"none", "ok", "unreachable", "refused", "failed", "panic"}
    /\ caDeleted \in BOOLEAN /\ deletes \in 0 .. MaxDeletes /\ faults \in 0 .. MaxFaults

\* The CA that signs the certificate of a kind, as the configuration has it.
Issuer(s, k) ==
    IF k \in s.external \/ ~s.ownCA THEN "user" ELSE "operator"
SameIssuer(s) ==
    {"server", "client"} \subseteq s.external \cup s.auto
        /\ Issuer(s, "server") = Issuer(s, "client")

\* If the server's and the client's certificate are to come from one CA, each member
\* accepts the operator's certificate whichever secrets but the CA were deleted and
\* made again, whoever restarted, and whatever the loop has read too late.
OperatorAccepted ==
    SameIssuer(spec) /\ ~caDeleted =>
        \A m \in Running : ClientSecret # Missing => Accepts(m, "server", ClientSecret)

\* What one member presents to another, as a client and as a server, the other accepts,
\* by signature, usage and name; and a member's gateway is accepted by the member.
MembersTrust ==
    ~caDeleted =>
        \A m, n \in Running :
            /\ IsPeerSecure =>
                /\ Accepts(m, "peer", member[n].certs["peer"])
                /\ "server" \in member[n].certs["peer"].usages
                /\ "members" \in member[n].certs["peer"].names
            /\ IsClientSecure => Accepts(m, "server", member[m].certs["server"])

\* The operator reaches its cluster in the end and for good, whatever was deleted but
\* the CA and whichever calls failed, if what the user supplied is complete.
OperatorConnects ==
    (/\ SameIssuer(spec) \/ ~IsClientSecure
     /\ supply.keys = "pem" /\ (supply.caKey \/ spec.ownCA)
     /\ []~caDeleted) => <>[](conn = "ok")
=============================================================================
