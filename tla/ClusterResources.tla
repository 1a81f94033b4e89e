------------------------- MODULE ClusterResources -------------------------
(***************************************************************************)
(* What a sync creates before the TApp: the headless and the access        *)
(* service, the CA and the certificates, each as a secret of its own.      *)
(*                                                                         *)
(* Every step looks in an informer's cache and creates what is missing     *)
(* there; the API server refuses what exists already.  The server's        *)
(* certificate names the address of the load balancer, so the loop polls   *)
(* for it first.  Several loops may do this at once (see ClusterController *)
(* for how), calls fail, and people delete secrets.                        *)
(***************************************************************************)
EXTENDS Integers, Sequences

CONSTANTS
    Loop,       \* control loops that sync this cluster
    Cert,       \* the kinds of certificate; "server" is one
    Specs,      \* the specs a user may ask for: [lb, auto]
    InitSpecs,  \* those a cluster may be created with
    MaxEdits,   \* bound on the edits of the spec
    MaxDeletes, \* bound on the secrets people delete
    MaxCAs,     \* bound on the CAs ever generated
    MaxLag,     \* bound on the versions an informer has yet to deliver
    MaxFaults   \* bound on failed calls, lost answers and restarts

\* lb: an annotation asks for a load balancer; auto: the certificates to generate.
SpecType == [lb : BOOLEAN, auto : SUBSET Cert]

ASSUME ResourcesAssumption ==
    /\ "server" \in Cert
    /\ Specs \subseteq SpecType /\ InitSpecs \subseteq Specs /\ InitSpecs # {}
    /\ {MaxEdits, MaxDeletes, MaxCAs, MaxFaults} \subseteq Nat /\ MaxLag \in Nat \ {0}

CA == 0 .. MaxCAs
NoCert == [ca |-> 0, address |-> FALSE]

VARIABLES
    spec,       \* the EtcdCluster, as its lister has it
    services,   \* versions of [headless, access, address]: cached, ..., current
    secrets,    \* versions of [ca, cert]: cached, ..., current
    tapps,      \* versions of "there is a TApp": cached, ..., current
    pc,         \* where each loop is in sync
    e,          \* each loop's c.etcd
    recorded,   \* the status of the EtcdCluster has the balancer's address
    todo,       \* the certificates each loop has yet to look at
    signer,     \* the CA each loop has at hand
    cas,        \* the CAs generated so far
    edits, deletes, faults

api == <<services, secrets, tapps, cas>>
world == <<spec, edits, deletes>>
vars == <<spec, services, secrets, tapps, pc, e, recorded, todo, signer, cas, edits,
          deletes, faults>>

Last(s) == s[Len(s)]
Services == Last(services)
Secrets == Last(secrets)

-----------------------------------------------------------------------------
Fault == faults < MaxFaults /\ faults' = faults + 1
NoFault == faults' = faults

Goto(l, label) == pc' = [pc EXCEPT ![l] = label]
Return(l) == Goto(l, "idle")

\* A write: refused, or it takes effect; a fault loses the call or the answer.
Call(l, Accepted, Effect, Unchanged, label) ==
    \/ Accepted /\ Effect /\ \/ NoFault /\ Goto(l, label)
                             \/ Fault /\ Return(l)
    \/ ~Accepted /\ Unchanged /\ NoFault /\ Return(l)
    \/ Accepted /\ Unchanged /\ Fault /\ Return(l)

PutServices(s) == Len(services) <= MaxLag /\ services' = Append(services, s)
PutSecrets(s) == Len(secrets) <= MaxLag /\ secrets' = Append(secrets, s)
PutTApp == Len(tapps) <= MaxLag /\ tapps' = Append(tapps, TRUE)

Begin(l) ==
    /\ pc[l] = "idle"
    /\ e' = [e EXCEPT ![l] = spec]
    /\ Goto(l, "headless")
    /\ UNCHANGED <<api, world, recorded, todo, signer, faults>>

\* ensureService: the headless service, ...
EnsureHeadless(l) ==
    /\ pc[l] = "headless"
    /\ \/ /\ ~services[1].headless
          /\ Call(l, ~Services.headless, PutServices([Services EXCEPT !.headless = TRUE]),
                  UNCHANGED services, "access")
       \/ /\ services[1].headless /\ NoFault /\ Goto(l, "access") /\ UNCHANGED services
    /\ UNCHANGED <<secrets, tapps, cas, world, e, recorded, todo, signer>>

\* The cached access service is the current one.
AccessCurrent ==
    \A k \in 1 .. Len(services) : /\ services[k].access = services[1].access
                                  /\ services[k].address = services[1].address

AccessType(s) == IF s.lb THEN "LoadBalancer" ELSE "ClusterIP"

\* Mutant: the access service is made, never changed.
EnsureAccessOnce(l) ==
    /\ pc[l] = "access"
    /\ \/ /\ services[1].access = "none"
          /\ Call(l, Services.access = "none",
                     PutServices([Services EXCEPT !.access = AccessType(e[l])]),
                     UNCHANGED services, "poll")
       \/ services[1].access # "none" /\ NoFault /\ Goto(l, "poll") /\ UNCHANGED services
    /\ UNCHANGED <<secrets, tapps, cas, world, e, recorded, todo, signer>>

\* ... then the access service, made or changed to the type its provider applies.
EnsureAccess(l) ==
    LET type == AccessType(e[l])
        cached == services[1].access
        Write == PutServices([Services EXCEPT !.access = type])
    IN  /\ pc[l] = "access"
        /\ \/ cached = "none" /\ Call(l, Services.access = "none", Write,
                                      UNCHANGED services, "poll")
           \/ cached \notin {"none", type} /\ Call(l, AccessCurrent, Write,
                                                   UNCHANGED services, "poll")
           \/ cached = type /\ NoFault /\ Goto(l, "poll") /\ UNCHANGED services
        /\ UNCHANGED <<secrets, tapps, cas, world, e, recorded, todo, signer>>

\* Mutant: a service without an address will do.
PollOnce(l) ==
    /\ pc[l] = "poll" /\ NoFault
    /\ Goto(l, "ca")
    /\ recorded' = (recorded \/ services[1].address)
    /\ UNCHANGED <<api, world, e, todo, signer>>

\* ensureLoadBalancerStatus: poll the cached service for an address until a timeout;
\* a service of another type needs none, one that is not cached yet is an error.
Poll(l) ==
    LET s == services[1]
    IN  /\ pc[l] = "poll"
        /\ \/ s.access # "LoadBalancer" /\ s.access # "none" /\ NoFault /\ Goto(l, "ca")
              /\ UNCHANGED recorded
           \/ /\ s.access = "LoadBalancer" /\ s.address /\ NoFault /\ Goto(l, "ca")
              /\ recorded' = TRUE
           \/ (s.access = "none" \/ (s.access = "LoadBalancer" /\ ~s.address))
              /\ NoFault /\ Return(l) /\ UNCHANGED recorded
           \/ Fault /\ Return(l) /\ UNCHANGED recorded
        /\ UNCHANGED <<api, world, e, todo, signer>>

\* What a loop that goes on with the certificates has at hand.
Take(l, certs, ca) ==
    /\ todo' = [todo EXCEPT ![l] = IF pc'[l] = "cert" THEN certs ELSE {}]
    /\ signer' = [signer EXCEPT ![l] = IF pc'[l] = "cert" THEN ca ELSE 0]

\* Mutant: a CA that exists already is no reason to stop.
EnsureCAUnlessExists(l) ==
    /\ pc[l] = "ca" /\ NoFault
    /\ Goto(l, IF e[l].auto = {} THEN "tapp" ELSE "cert")
    /\ \/ /\ secrets[1].ca = 0 /\ cas < MaxCAs
          /\ cas' = cas + 1
          /\ IF Secrets.ca = 0 THEN PutSecrets([Secrets EXCEPT !.ca = cas']) ELSE UNCHANGED secrets
          /\ Take(l, e[l].auto, cas')
       \/ secrets[1].ca > 0 /\ Take(l, e[l].auto, secrets[1].ca) /\ UNCHANGED <<secrets, cas>>
    /\ UNCHANGED <<services, tapps, world, e, recorded>>

\* ensureCert: the CA, unless no certificate is to be generated.
EnsureCA(l) ==
    /\ pc[l] = "ca"
    /\ \/ e[l].auto = {} /\ NoFault /\ Goto(l, "tapp") /\ UNCHANGED <<secrets, todo, signer, cas>>
       \/ /\ e[l].auto # {} /\ secrets[1].ca > 0 /\ NoFault /\ Goto(l, "cert")
          /\ Take(l, e[l].auto, secrets[1].ca)
          /\ UNCHANGED <<secrets, cas>>
       \/ /\ e[l].auto # {} /\ secrets[1].ca = 0 /\ cas < MaxCAs
          /\ Call(l, Secrets.ca = 0,
                     PutSecrets([Secrets EXCEPT !.ca = cas + 1]) /\ cas' = cas + 1,
                     UNCHANGED <<secrets, cas>>, "cert")
          /\ Take(l, e[l].auto, cas')
    /\ UNCHANGED <<services, tapps, world, e, recorded>>

Signed(l) == [ca |-> signer[l], address |-> recorded]

\* Mutant: one certificate for a sync.
EnsureCertOnce(l) ==
    /\ pc[l] = "cert"
    /\ \E t \in todo[l] :
          \/ /\ secrets[1].cert[t] = NoCert
             /\ Call(l, Secrets.cert[t] = NoCert,
                     PutSecrets([Secrets EXCEPT !.cert[t] = Signed(l)]),
                     UNCHANGED secrets, "tapp")
          \/ /\ secrets[1].cert[t] # NoCert /\ NoFault /\ Goto(l, "tapp")
             /\ UNCHANGED secrets
    /\ Take(l, {}, 0)
    /\ UNCHANGED <<services, tapps, cas, world, e, recorded>>

\* The certificates, in any order (the code ranges over a map).
EnsureCert(l) ==
    /\ pc[l] = "cert"
    /\ \E t \in todo[l] :
          LET rest == todo[l] \ {t}
              next == IF rest = {} THEN "tapp" ELSE "cert"
          IN  /\ \/ /\ secrets[1].cert[t] = NoCert
                    /\ Call(l, Secrets.cert[t] = NoCert,
                            PutSecrets([Secrets EXCEPT !.cert[t] = Signed(l)]),
                            UNCHANGED secrets, next)
                 \/ /\ secrets[1].cert[t] # NoCert /\ NoFault /\ Goto(l, next)
                    /\ UNCHANGED secrets
              /\ Take(l, rest, signer[l])
    /\ UNCHANGED <<services, tapps, cas, world, e, recorded>>

\* ensureTApp, of which only the creation matters here.
EnsureTApp(l) ==
    /\ pc[l] = "tapp"
    /\ \/ ~tapps[1] /\ Call(l, ~Last(tapps), PutTApp, UNCHANGED tapps, "idle")
       \/ tapps[1] /\ NoFault /\ Return(l) /\ UNCHANGED tapps
    /\ UNCHANGED <<services, secrets, cas, world, e, recorded, todo, signer>>

Step(l) ==
    \/ Begin(l) \/ EnsureHeadless(l) \/ EnsureAccess(l) \/ Poll(l)
    \/ EnsureCA(l) \/ EnsureCert(l) \/ EnsureTApp(l)

-----------------------------------------------------------------------------
(***************************************************************************)
(* Everything else that moves.                                             *)
(***************************************************************************)
loopVars == <<pc, e, recorded, todo, signer>>

Edit(s) ==
    /\ edits < MaxEdits /\ s # spec
    /\ spec' = s /\ edits' = edits + 1
    /\ UNCHANGED <<api, loopVars, deletes, faults>>

\* The cloud gives a load balancer an address, and takes it from any other service.
Provision ==
    /\ Services.address # (Services.access = "LoadBalancer")
    /\ PutServices([Services EXCEPT !.address = ~@])
    /\ UNCHANGED <<secrets, tapps, cas, world, loopVars, faults>>

DeleteSecret ==
    /\ deletes < MaxDeletes /\ deletes' = deletes + 1
    /\ \/ Secrets.ca > 0 /\ PutSecrets([Secrets EXCEPT !.ca = 0])
       \/ \E t \in Cert : /\ Secrets.cert[t] # NoCert
                          /\ PutSecrets([Secrets EXCEPT !.cert[t] = NoCert])
    /\ UNCHANGED <<services, tapps, cas, loopVars, spec, edits, faults>>

DeliverServices ==
    /\ Len(services) > 1 /\ services' = Tail(services)
    /\ UNCHANGED <<secrets, tapps, cas, world, loopVars, faults>>
DeliverSecrets ==
    /\ Len(secrets) > 1 /\ secrets' = Tail(secrets)
    /\ UNCHANGED <<services, tapps, cas, world, loopVars, faults>>
DeliverTApp ==
    /\ Len(tapps) > 1 /\ tapps' = Tail(tapps)
    /\ UNCHANGED <<services, secrets, cas, world, loopVars, faults>>

Restart ==
    /\ Fault
    /\ services' = <<Services>> /\ secrets' = <<Secrets>> /\ tapps' = <<Last(tapps)>>
    /\ pc' = [l \in Loop |-> "idle"]
    /\ e' = [l \in Loop |-> spec]
    /\ todo' = [l \in Loop |-> {}] /\ signer' = [l \in Loop |-> 0]
    /\ UNCHANGED <<cas, world, recorded>>

Init ==
    /\ spec \in InitSpecs
    /\ services = <<[headless |-> FALSE, access |-> "none", address |-> FALSE]>>
    /\ secrets = <<[ca |-> 0, cert |-> [t \in Cert |-> NoCert]]>>
    /\ tapps = <<FALSE>>
    /\ pc = [l \in Loop |-> "idle"]
    /\ e = [l \in Loop |-> spec]
    /\ recorded = FALSE
    /\ todo = [l \in Loop |-> {}] /\ signer = [l \in Loop |-> 0]
    /\ cas = 0 /\ edits = 0 /\ deletes = 0 /\ faults = 0

Next ==
    \/ \E l \in Loop : Step(l)
    \/ \E s \in Specs : Edit(s)
    \/ Provision \/ DeleteSecret \/ Restart
    \/ DeliverServices \/ DeliverSecrets \/ DeliverTApp

Spec == Init /\ [][Next]_vars

\* Loops go on, informers deliver, the cloud provisions.
Fairness ==
    /\ \A l \in Loop : WF_vars(Step(l))
    /\ WF_vars(Provision)
    /\ WF_vars(DeliverServices) /\ WF_vars(DeliverSecrets) /\ WF_vars(DeliverTApp)

FairSpec == Spec /\ Fairness

-----------------------------------------------------------------------------
ServicesType == [headless : BOOLEAN, access : {"none", "ClusterIP", "LoadBalancer"},
                 address : BOOLEAN]
SecretsType == [ca : CA, cert : [Cert -> [ca : CA, address : BOOLEAN]]]

\* Every variable has its type; a loop that signs has a CA to sign with.
TypeOK ==
    /\ spec \in Specs
    /\ services \in Seq(ServicesType) /\ Len(services) \in 1 .. MaxLag + 1
    /\ secrets \in Seq(SecretsType) /\ Len(secrets) \in 1 .. MaxLag + 1
    /\ tapps \in Seq(BOOLEAN) /\ Len(tapps) \in 1 .. MaxLag + 1
    /\ pc \in [Loop -> {"idle", "headless", "access", "poll", "ca", "cert", "tapp"}]
    /\ e \in [Loop -> Specs] /\ recorded \in BOOLEAN
    /\ todo \in [Loop -> SUBSET Cert] /\ signer \in [Loop -> CA]
    /\ \A l \in Loop : pc[l] = "cert" => todo[l] # {} /\ signer[l] > 0
    /\ cas \in CA
    /\ edits \in 0 .. MaxEdits /\ deletes \in 0 .. MaxDeletes /\ faults \in 0 .. MaxFaults

\* As long as nobody deletes a secret all certificates are signed by the one CA there
\* is, whatever the loops read too late and whichever calls fail half-way.
CertsShareCA ==
    deletes = 0 => \A t \in Cert : Secrets.cert[t] # NoCert => Secrets.cert[t].ca = Secrets.ca

\* As long as nobody deletes a secret, a loop that makes the TApp leaves no pod to wait
\* for a service or a certificate: all that it asked for exist at the API server.
PodsCanMount ==
    deletes = 0 =>
        \A l \in Loop : pc[l] = "tapp" =>
            /\ Services.headless /\ Services.access # "none"
            /\ \A t \in e[l].auto : Secrets.cert[t] # NoCert

\* "poll until load-balancer type service created": a loop that is to expose the
\* cluster through a load balancer knows its address when it goes on to the
\* certificates.  (After an edit the cached service may still be of the other type.)
AddressKnown ==
    edits = 0 => \A l \in Loop : pc[l] \in {"ca", "cert", "tapp"} /\ e[l].lb => recorded

\* Everything the last spec asks for comes to exist, also after a call that failed or a
\* secret that was deleted.
ResourcesReady ==
    <>[](/\ Services.headless /\ Services.access = AccessType(spec)
         /\ \A t \in spec.auto : Secrets.cert[t] # NoCert
         /\ Last(tapps))
=============================================================================
