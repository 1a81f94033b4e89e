------------------------- MODULE ClusterController -------------------------
(***************************************************************************)
(* Which control loops exist, and what wakes them.                         *)
(*                                                                         *)
(* Changes of EtcdCluster objects reach the informer's cache, then the     *)
(* event handlers, which run concurrently with the workers of the work     *)
(* queue.  A worker looks the object up in the cache and, under the        *)
(* controller's lock, starts a control loop for the object's UID or sends  *)
(* an event to the loop there is; the handler of a deletion stops the loop *)
(* and forgets it.  (Controller in etcdcluster_controller.go; Run, Update  *)
(* and Stop of Cluster in etcd.go.)                                        *)
(***************************************************************************)
EXTENDS Integers, Sequences, FiniteSets

CONSTANTS
    Name,        \* names of EtcdCluster objects
    Worker,      \* workers of the work queue
    MaxUid,      \* bound on the objects ever created
    MaxGen,      \* bound on the versions of an object
    MaxRestarts, \* bound on restarts of the operator
    MaxLoops     \* bound on the loops ever started by one operator process

Uid == 1 .. MaxUid

\* An object is known by its UID and a version; None stands for no object.
Object == [uid : Uid, gen : 1 .. MaxGen]
None == [uid |-> 0, gen |-> 0]

ASSUME ControllerAssumption ==
    /\ MaxUid \in Nat /\ MaxGen \in Nat \ {0} /\ MaxRestarts \in Nat /\ MaxLoops \in Nat
    /\ "nothing" \notin Name

VARIABLES
    api,        \* the current object of each name
    created,    \* the number of objects created so far
    watch,      \* states of each name the informer has yet to receive
    cache,      \* the informer's cache
    notes,      \* notifications the handlers have yet to run for
    dirty,      \* keys that wait in the work queue
    at,         \* where each worker is: idle, look or control
    key,        \* the key each worker is processing
    found,      \* the object each worker has looked up
    clusters,   \* the loop that c.clusters holds for a UID, 0 if none
    loops,      \* every loop ever started: [name, uid, state, stop, event, sends, read]
    gauge,      \* metrics.ClustersTotal
    restarts

apiVars == <<api, created, watch>>
workerVars == <<at, key, found>>
vars == <<api, created, watch, cache, notes, dirty, at, key, found, clusters, loops,
          gauge, restarts>>

Loops == 1 .. Len(loops)
Processing == {key[w] : w \in {v \in Worker : at[v] # "idle"}}

-----------------------------------------------------------------------------
(***************************************************************************)
(* The API server and the informer.                                        *)
(***************************************************************************)
Publish(n, o) ==
    /\ api' = [api EXCEPT ![n] = o]
    /\ watch' = [watch EXCEPT ![n] = Append(@, o)]
    /\ UNCHANGED <<cache, notes, dirty, workerVars, clusters, loops, gauge, restarts>>

Create(n) ==
    /\ api[n] = None /\ created < MaxUid
    /\ created' = created + 1
    /\ Publish(n, [uid |-> created + 1, gen |-> 1])

Edit(n) ==
    /\ api[n] # None /\ api[n].gen < MaxGen
    /\ Publish(n, [api[n] EXCEPT !.gen = @ + 1])
    /\ UNCHANGED created

Delete(n) ==
    /\ api[n] # None
    /\ Publish(n, None)
    /\ UNCHANGED created

\* The cache takes the next state of the name; the handlers are told, later.
Deliver(n) ==
    LET old == cache[n]
        new == Head(watch[n])
        note == IF new = None THEN [name |-> n, kind |-> "delete", uid |-> old.uid]
                              ELSE [name |-> n, kind |-> "enqueue", uid |-> new.uid]
    IN  /\ watch[n] # <<>>
        /\ cache' = [cache EXCEPT ![n] = new]
        /\ watch' = [watch EXCEPT ![n] = Tail(@)]
        /\ notes' = IF old = new THEN notes ELSE Append(notes, note)
        /\ UNCHANGED <<api, created, dirty, workerVars, clusters, loops, gauge, restarts>>

\* The watch breaks: the informer lists again and misses what came in between.
Relist(n) ==
    /\ Len(watch[n]) > 1
    /\ watch' = [watch EXCEPT ![n] = <<api[n]>>]
    /\ UNCHANGED <<api, created, cache, notes, dirty, workerVars, clusters, loops, gauge,
                   restarts>>

-----------------------------------------------------------------------------
(***************************************************************************)
(* The handlers.                                                           *)
(***************************************************************************)

\* Mutant: the loop is not forgotten.
StopControlKeeps(u) ==
    /\ loops' = IF clusters[u] = 0 THEN loops ELSE [loops EXCEPT ![clusters[u]].stop = TRUE]
    /\ UNCHANGED clusters

\* StopControl: close stopCh and forget the loop.
StopControl(u) ==
    /\ loops' = IF clusters[u] = 0 THEN loops ELSE [loops EXCEPT ![clusters[u]].stop = TRUE]
    /\ clusters' = [clusters EXCEPT ![u] = 0]

\* addEtcd and updateEtcd only put the key in the queue; deleteEtcd stops the loop.
Handle ==
    LET note == Head(notes)
    IN  /\ notes # <<>>
        /\ notes' = Tail(notes)
        /\ \/ /\ note.kind = "enqueue"
              /\ dirty' = dirty \cup {note.name}
              /\ UNCHANGED <<clusters, loops, gauge>>
           \/ /\ note.kind = "delete"
              /\ gauge' = gauge - 1
              /\ StopControl(note.uid)
              /\ UNCHANGED dirty
        /\ UNCHANGED <<apiVars, cache, workerVars, restarts>>

\* A change of an owned TApp or Service, or a resync of the informer, puts the key
\* in the queue if the cached object is still the owner.
OwnedEvent(n) ==
    /\ cache[n] # None
    /\ dirty' = dirty \cup {n}
    /\ UNCHANGED <<apiVars, cache, notes, workerVars, clusters, loops, gauge, restarts>>

-----------------------------------------------------------------------------
(***************************************************************************)
(* The workers.                                                            *)
(***************************************************************************)

\* The queue never gives a key to two workers at once.
Take(w, n) ==
    /\ at[w] = "idle"
    /\ n \in dirty \ Processing
    /\ dirty' = dirty \ {n}
    /\ at' = [at EXCEPT ![w] = "look"]
    /\ key' = [key EXCEPT ![w] = n]
    /\ UNCHANGED <<apiVars, cache, notes, found, clusters, loops, gauge, restarts>>

Done(w) ==
    /\ at' = [at EXCEPT ![w] = "idle"]
    /\ key' = [key EXCEPT ![w] = "nothing"]
    /\ found' = [found EXCEPT ![w] = None]

\* Mutant: the object may have gone, unnoticed.
LookUpUnchecked(w) ==
    /\ at[w] = "look"
    /\ at' = [at EXCEPT ![w] = "control"]
    /\ found' = [found EXCEPT ![w] = cache[key[w]]]
    /\ UNCHANGED <<key, apiVars, cache, notes, dirty, clusters, loops, gauge, restarts>>

\* syncEtcd: the object may have gone; else a copy of it is handed on.
LookUp(w) ==
    /\ at[w] = "look"
    /\ \/ cache[key[w]] = None /\ Done(w)
       \/ /\ cache[key[w]] # None
          /\ at' = [at EXCEPT ![w] = "control"]
          /\ found' = [found EXCEPT ![w] = cache[key[w]]]
          /\ UNCHANGED key
    /\ UNCHANGED <<apiVars, cache, notes, dirty, clusters, loops, gauge, restarts>>

NewLoop(n, u) ==
    [name |-> n, uid |-> u, state |-> "new", stop |-> FALSE, event |-> FALSE,
     sends |-> 1, read |-> None]

\* updateEtcdCluster: "go Update" to the loop of the UID, or "go Run" and "go Update"
\* of a new one.  Pending sends beyond one make no difference.
UpdateEtcdCluster(w) ==
    LET u == found[w].uid
    IN  /\ at[w] = "control"
        /\ \/ /\ clusters[u] # 0
              /\ loops' = [loops EXCEPT ![clusters[u]].sends = 1]
              /\ UNCHANGED clusters
           \/ /\ clusters[u] = 0 /\ Len(loops) < MaxLoops
              /\ loops' = Append(loops, NewLoop(key[w], u))
              /\ clusters' = [clusters EXCEPT ![u] = Len(loops) + 1]
        /\ Done(w)
        /\ UNCHANGED <<apiVars, cache, notes, dirty, gauge, restarts>>

-----------------------------------------------------------------------------
(***************************************************************************)
(* A loop and the goroutines that send to it.                              *)
(***************************************************************************)
Elsewhere == <<apiVars, cache, notes, dirty, workerVars, clusters, restarts>>

\* Run begins.
Start(l) ==
    /\ loops[l].state = "new"
    /\ loops' = [loops EXCEPT ![l].state = "select"]
    /\ gauge' = gauge + 1
    /\ UNCHANGED Elsewhere

\* Update: a send that does not block, into a channel with room for one event.
Send(l) ==
    /\ loops[l].sends > 0
    /\ loops' = [loops EXCEPT ![l].sends = 0, ![l].event = TRUE]
    /\ UNCHANGED <<gauge, Elsewhere>>

\* sync reads the cached object of the loop's name, whatever its UID.
Sync(l, event) ==
    loops' = [loops EXCEPT ![l].state = "syncing", ![l].event = event,
                           ![l].read = cache[loops[l].name]]

SelectEvent(l) ==
    /\ loops[l].state = "select" /\ loops[l].event
    /\ Sync(l, FALSE)
    /\ UNCHANGED <<gauge, Elsewhere>>

SelectTick(l) ==
    /\ loops[l].state = "select"
    /\ Sync(l, loops[l].event)
    /\ UNCHANGED <<gauge, Elsewhere>>

\* Mutant: the break leaves the select, not the loop around it.
SelectStopBreaks(l) ==
    /\ loops[l].state = "select" /\ loops[l].stop
    /\ UNCHANGED <<loops, gauge, Elsewhere>>

SelectStop(l) ==
    /\ loops[l].state = "select" /\ loops[l].stop
    /\ loops' = [loops EXCEPT ![l].state = "returned"]
    /\ UNCHANGED <<gauge, Elsewhere>>

\* Mutant: the channel is drained after the sync it woke up.
SyncEndDrains(l) ==
    /\ loops[l].state = "syncing"
    /\ loops' = [loops EXCEPT ![l].state = "select", ![l].event = FALSE]
    /\ UNCHANGED <<gauge, Elsewhere>>

SyncEnd(l) ==
    /\ loops[l].state = "syncing"
    /\ loops' = [loops EXCEPT ![l].state = "select"]
    /\ UNCHANGED <<gauge, Elsewhere>>

-----------------------------------------------------------------------------
\* The operator process restarts; its informers list what there is.
Restart ==
    /\ restarts < MaxRestarts
    /\ restarts' = restarts + 1
    /\ watch' = [n \in Name |-> IF api[n] = None THEN <<>> ELSE <<api[n]>>]
    /\ cache' = [n \in Name |-> None]
    /\ notes' = <<>> /\ dirty' = {}
    /\ at' = [w \in Worker |-> "idle"] /\ key' = [w \in Worker |-> "nothing"]
    /\ found' = [w \in Worker |-> None]
    /\ clusters' = [u \in Uid |-> 0] /\ loops' = <<>> /\ gauge' = 0
    /\ UNCHANGED <<api, created>>

Init ==
    /\ api = [n \in Name |-> None] /\ created = 0
    /\ watch = [n \in Name |-> <<>>]
    /\ cache = [n \in Name |-> None]
    /\ notes = <<>> /\ dirty = {}
    /\ at = [w \in Worker |-> "idle"] /\ key = [w \in Worker |-> "nothing"]
    /\ found = [w \in Worker |-> None]
    /\ clusters = [u \in Uid |-> 0] /\ loops = <<>> /\ gauge = 0
    /\ restarts = 0

LoopStep(l) ==
    Start(l) \/ Send(l) \/ SelectEvent(l) \/ SelectTick(l) \/ SelectStop(l) \/ SyncEnd(l)

Next ==
    \/ \E n \in Name : \/ Create(n) \/ Edit(n) \/ Delete(n)
                       \/ Deliver(n) \/ Relist(n) \/ OwnedEvent(n)
    \/ Handle
    \/ \E w \in Worker : LookUp(w) \/ UpdateEtcdCluster(w) \/ \E n \in Name : Take(w, n)
    \/ \E l \in Loops : LoopStep(l)
    \/ Restart

Spec == Init /\ [][Next]_vars

(***************************************************************************)
(* The informer, the handlers, the workers and the goroutines run.  A      *)
(* select among ready channels is random: it does not miss one for ever.   *)
(* The tickers are given no fairness, so nothing rests on them.            *)
(***************************************************************************)
Fairness ==
    /\ \A n \in Name : WF_vars(Deliver(n))
    /\ WF_vars(Handle)
    /\ \A w \in Worker : /\ WF_vars(LookUp(w) \/ UpdateEtcdCluster(w))
                         /\ \A n \in Name : SF_vars(Take(w, n))
    /\ \A l \in 1 .. MaxLoops :
          /\ WF_vars(l \in Loops /\ (Start(l) \/ SyncEnd(l)))
          /\ WF_vars(l \in Loops /\ Send(l))
          /\ SF_vars(l \in Loops /\ SelectEvent(l))
          /\ SF_vars(l \in Loops /\ SelectStop(l))

FairSpec == Spec /\ Fairness

-----------------------------------------------------------------------------
Loop == [name : Name, uid : Uid, state : {"new", "select", "syncing", "returned"},
         stop : BOOLEAN, event : BOOLEAN, sends : 0 .. 1, read : Object \cup {None}]

Note == [name : Name, kind : {"enqueue", "delete"}, uid : Uid]

\* Every variable has its type: in particular a loop is started, and stopped, only
\* for the UID of an object that existed.
TypeOK ==
    /\ api \in [Name -> Object \cup {None}] /\ created \in 0 .. MaxUid
    /\ watch \in [Name -> Seq(Object \cup {None})]
    /\ cache \in [Name -> Object \cup {None}]
    /\ notes \in Seq(Note)
    /\ dirty \subseteq Name
    /\ at \in [Worker -> {"idle", "look", "control"}]
    /\ key \in [Worker -> Name \cup {"nothing"}]
    /\ found \in [Worker -> Object \cup {None}]
    /\ \A w \in Worker : /\ at[w] # "idle" => key[w] \in Name
                         /\ at[w] = "control" => found[w] \in Object
    /\ clusters \in [Uid -> 0 .. MaxLoops]
    /\ loops \in Seq(Loop) /\ Len(loops) <= MaxLoops
    /\ gauge \in Int
    /\ restarts \in 0 .. MaxRestarts

\* The loops of c.clusters are the ones that are not stopped, one for each UID.
\* So no stopCh is closed twice, which would panic, and no two loops of one UID run
\* on, however the workers and the handler of a deletion interleave.
MappedIsUnstopped ==
    /\ \A u \in Uid : clusters[u] # 0 => /\ clusters[u] \in Loops
                                         /\ loops[clusters[u]].uid = u
                                         /\ ~loops[clusters[u]].stop
    /\ \A l \in Loops : ~loops[l].stop => clusters[loops[l].uid] = l

\* No wake-up is lost: while the loop of a cached object has not read that version,
\* something is on its way that will make it, though the queue merges keys, a
\* worker may hold an older copy and the event channel drops all but one event.
WakeUpPending ==
    \A n \in Name : cache[n] # None =>
        \/ n \in dirty \cup Processing
        \/ \E k \in 1 .. Len(notes) : notes[k].name = n /\ notes[k].kind = "enqueue"
        \/ LET l == clusters[cache[n].uid]
           IN  /\ l # 0
               /\ loops[l].read = cache[n] \/ loops[l].event \/ loops[l].sends > 0

\* Without any tick of a timer, the last version of each object is in the end read
\* by its loop.
LastVersionRead ==
    <>[](\A n \in Name : api[n] # None =>
            LET l == clusters[api[n].uid] IN l # 0 /\ loops[l].read = api[n])

\* Run returns once Stop was called, although a tick or an event may win the select.
StoppedReturns ==
    \A l \in 1 .. MaxLoops :
        (l \in Loops /\ loops[l].stop) ~> (l \in Loops => loops[l].state = "returned" \/ ~loops[l].stop)
=============================================================================
