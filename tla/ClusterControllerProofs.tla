---------------------- MODULE ClusterControllerProofs ----------------------
(***************************************************************************)
(* What holds of ClusterController for every number of names, workers,     *)
(* objects, versions, loops and restarts.                                  *)
(***************************************************************************)
EXTENDS ClusterController, SequenceTheorems, TLAPS

-----------------------------------------------------------------------------
(***************************************************************************)
(* The inductive invariant.                                                *)
(***************************************************************************)
\* Something that is in motion says that u is the UID of an object named n.
Known(n, u) ==
    \/ api[n].uid = u \/ cache[n].uid = u
    \/ \E k \in 1 .. Len(watch[n]) : watch[n][k].uid = u
    \/ \E k \in 1 .. Len(notes) : notes[k].name = n /\ notes[k].uid = u
    \/ \E w \in Worker : at[w] = "control" /\ key[w] = n /\ found[w].uid = u
    \/ \E l \in Loops : loops[l].name = n /\ loops[l].uid = u

\* A UID is of one name, and only objects that were created have one.
UidsNamed ==
    \A n \in Name, u \in Uid : Known(n, u) =>
        /\ u <= created
        /\ \A m \in Name : Known(m, u) => m = n

\* What the informer receives ends with what the API server has, and once an object
\* is gone its UID does not come again.
InOrder(n) ==
    LET s == watch[n]
    IN  /\ IF s = <<>> THEN api[n] = cache[n] ELSE api[n] = s[Len(s)]
        /\ \A j, k \in 1 .. Len(s) :
            j < k /\ s[j] = None /\ cache[n] # None => s[k].uid # cache[n].uid
        /\ \A i, j, k \in 1 .. Len(s) :
            i < j /\ j < k /\ s[j] = None /\ s[i] # None => s[k].uid # s[i].uid
WatchesInOrder == \A n \in Name : InOrder(n)

\* An object whose deletion is yet to be handled is nowhere to come.
Buried(n, u) ==
    /\ api[n].uid # u /\ cache[n].uid # u
    /\ \A k \in 1 .. Len(watch[n]) : watch[n][k].uid # u
DeletedAreGone ==
    \A k \in 1 .. Len(notes) : notes[k].kind = "delete" => Buried(notes[k].name, notes[k].uid)

\* What will make the loop of the cached object of n read it: of the workers only
\* one that has yet to look, or that has found an object of the same UID.
Enqueued(n) == \E k \in 1 .. Len(notes) : notes[k].name = n /\ notes[k].kind = "enqueue"
Worked(n) ==
    \E w \in Worker :
        key[w] = n /\ (at[w] = "look" \/ (at[w] = "control" /\ found[w].uid = cache[n].uid))
Woken(n) ==
    LET l == clusters[cache[n].uid]
    IN  l # 0 /\ (loops[l].read = cache[n] \/ loops[l].event \/ loops[l].sends > 0)
Waking == \A n \in Name : cache[n] # None => n \in dirty \/ Enqueued(n) \/ Worked(n) \/ Woken(n)

IInv ==
    TypeOK /\ MappedIsUnstopped /\ UidsNamed /\ WatchesInOrder /\ DeletedAreGone /\ Waking

-----------------------------------------------------------------------------
(***************************************************************************)
(* Sequences and loops.                                                    *)
(***************************************************************************)
LEMMA OneReplaced ==
    ASSUME NEW S, NEW s \in Seq(S), NEW k \in 1 .. Len(s), NEW e \in S
    PROVE  LET t == [s EXCEPT ![k] = e]
           IN  /\ t \in Seq(S) /\ Len(t) = Len(s)
               /\ t[k] = e
               /\ \A i \in 1 .. Len(s) : i # k => t[i] = s[i]
  <1>1. k \in DOMAIN s /\ DOMAIN s = 1 .. Len(s)
    BY LenProperties
  <1> QED BY <1>1, ExceptSeq

LEMMA ObjectsAreSome ==
    /\ \A o \in Object : o # None /\ o.uid \in Uid /\ o.gen \in 1 .. MaxGen
    /\ None.uid = 0 /\ None.uid \notin Uid
    /\ \A o \in Object \cup {None} : o = None <=> o.uid = 0
  BY DEF Object, None, Uid

LEMMA LoopFields ==
    ASSUME NEW r \in Loop
    PROVE  /\ r.name \in Name /\ r.uid \in Uid
           /\ r.state \in {"new", "select", "syncing", "returned"}
           /\ r.stop \in BOOLEAN /\ r.event \in BOOLEAN /\ r.sends \in 0 .. 1
           /\ r.read \in Object \cup {None}
  BY DEF Loop

LEMMA LoopChanged ==
    ASSUME NEW r \in Loop
    PROVE  /\ [r EXCEPT !.stop = TRUE] \in Loop
           /\ [r EXCEPT !.sends = 1] \in Loop
           /\ [r EXCEPT !.sends = 0, !.event = TRUE] \in Loop
           /\ \A s \in {"select", "returned"} : [r EXCEPT !.state = s] \in Loop
           /\ \A b \in BOOLEAN, o \in Object \cup {None} :
                [r EXCEPT !.state = "syncing", !.event = b, !.read = o] \in Loop
  <1>0. 0 \in 0 .. 1 /\ 1 \in 0 .. 1
    OBVIOUS
  <1>1. ASSUME NEW q \in Loop, NEW b \in BOOLEAN PROVE [q EXCEPT !.stop = b] \in Loop
    BY <1>1 DEF Loop
  <1>2. ASSUME NEW q \in Loop, NEW b \in BOOLEAN PROVE [q EXCEPT !.event = b] \in Loop
    BY <1>2 DEF Loop
  <1>3. ASSUME NEW q \in Loop, NEW n \in 0 .. 1 PROVE [q EXCEPT !.sends = n] \in Loop
    BY <1>3 DEF Loop
  <1>4. ASSUME NEW q \in Loop, NEW s \in {"select", "syncing", "returned"}
        PROVE  [q EXCEPT !.state = s] \in Loop
    BY <1>4 DEF Loop
  <1>5. ASSUME NEW q \in Loop, NEW o \in Object \cup {None}
        PROVE  [q EXCEPT !.read = o] \in Loop
    BY <1>5 DEF Loop
  <1>6. [r EXCEPT !.stop = TRUE] \in Loop /\ [r EXCEPT !.sends = 1] \in Loop
    BY <1>0, <1>1, <1>3, Zenon
  <1>7. [r EXCEPT !.sends = 0, !.event = TRUE] \in Loop
    <2>1. [r EXCEPT !.sends = 0] \in Loop
      BY <1>0, <1>3, Zenon
    <2> QED BY <2>1, <1>2
  <1>8. ASSUME NEW b \in BOOLEAN, NEW o \in Object \cup {None}
        PROVE  [r EXCEPT !.state = "syncing", !.event = b, !.read = o] \in Loop
    <2>1. [r EXCEPT !.state = "syncing", !.event = b] \in Loop
      BY <1>2, <1>4
    <2> QED BY <2>1, <1>5
  <1> QED BY <1>4, <1>6, <1>7, <1>8

LEMMA StopChanged ==
    ASSUME NEW r \in Loop
    PROVE  LET q == [r EXCEPT !.stop = TRUE]
           IN  /\ q \in Loop /\ q.stop
               /\ q.name = r.name /\ q.uid = r.uid
               /\ q.read = r.read /\ q.event = r.event /\ q.sends = r.sends
  <1>1. ASSUME NEW b \in BOOLEAN
        PROVE  LET q == [r EXCEPT !.stop = b]
               IN  /\ q.stop = b
                   /\ q.name = r.name /\ q.uid = r.uid
                   /\ q.read = r.read /\ q.event = r.event /\ q.sends = r.sends
    BY <1>1 DEF Loop
  <1> QED BY <1>1, LoopChanged, Zenon

-----------------------------------------------------------------------------
(***************************************************************************)
(* The API server.                                                         *)
(***************************************************************************)
\* As long as nothing new is known, nothing new is named.
LEMMA NothingNew ==
    ASSUME UidsNamed, created' = created,
           \A n \in Name, u \in Uid : Known(n, u)' => Known(n, u)
    PROVE  UidsNamed'
  BY DEF UidsNamed

LEMMA PublishHolds ==
    ASSUME IInv, NEW n \in Name, NEW o \in Object \cup {None}, Publish(n, o),
           created' \in 0 .. MaxUid,
           \/ o = None /\ created' = created
           \/ api[n] # None /\ o # None /\ o.uid = api[n].uid /\ created' = created
           \/ api[n] = None /\ o # None /\ o.uid = created + 1 /\ created' = created + 1
    PROVE  IInv'
  <1> USE DEF IInv
  <1> DEFINE S == Object \cup {None}
             W == watch[n]
             V == Append(W, o)
  <1>1. /\ api' = [api EXCEPT ![n] = o] /\ watch' = [watch EXCEPT ![n] = V]
        /\ UNCHANGED <<cache, notes, dirty, at, key, found, clusters, loops, gauge, restarts>>
    BY DEF Publish, workerVars
  <1>2. W \in Seq(S) /\ Len(W) \in Nat
    BY LenProperties DEF TypeOK
  <1>3. /\ V \in Seq(S) /\ Len(V) = Len(W) + 1 /\ V # <<>> /\ V[Len(W) + 1] = o
        /\ \A k \in 1 .. Len(W) : V[k] = W[k]
    BY <1>2, AppendProperties
  <1> HIDE DEF V
  <1>4. /\ \A m \in Name : m # n => watch'[m] = watch[m] /\ api'[m] = api[m]
        /\ watch'[n] = V /\ api'[n] = o
    BY <1>1 DEF TypeOK
  <1>5. TypeOK'
    BY <1>1, <1>3 DEF TypeOK
  <1>6. MappedIsUnstopped'
    BY <1>1 DEF MappedIsUnstopped, Loops
  <1>7. ASSUME NEW m \in Name, NEW u \in Uid, Known(m, u)'
        PROVE  Known(m, u) \/ (m = n /\ u = created + 1 /\ created' = created + 1)
    <2>1. CASE m # n
      BY <1>1, <1>4, <1>7, <2>1 DEF Known, Loops
    <2>2. CASE m = n
      <3>1. o.uid = u => api[n].uid = u \/ (u = created + 1 /\ created' = created + 1)
        BY ObjectsAreSome
      <3>2. ASSUME NEW k \in 1 .. Len(V), V[k].uid = u
            PROVE  o.uid = u \/ \E j \in 1 .. Len(W) : W[j].uid = u
        BY <1>2, <1>3, <3>2
      <3> QED BY <1>1, <1>4, <1>7, <2>2, <3>1, <3>2 DEF Known, Loops
    <2> QED BY <2>1, <2>2
  <1>8. UidsNamed'
    <2>1. created \in Nat /\ Uid \subseteq Nat
      BY ControllerAssumption DEF TypeOK, Uid
    <2>2. created' >= created
      BY <2>1
    <2> SUFFICES ASSUME NEW m \in Name, NEW u \in Uid, Known(m, u)'
                 PROVE  u <= created' /\ \A q \in Name : Known(q, u)' => q = m
      BY DEF UidsNamed
    <2>3. u \in Nat
      BY <2>1
    <2>4. CASE u # created + 1
      BY <1>7, <2>1, <2>2, <2>3, <2>4 DEF UidsNamed
    <2>5. CASE u = created + 1
      <3>1. \A q \in Name : ~Known(q, u)
        BY <2>1, <2>5 DEF UidsNamed
      <3> QED BY <1>7, <2>1, <2>5, <3>1
    <2> QED BY <2>4, <2>5
  <1>9. \A u \in Uid : Known(n, u) => u # created + 1
    BY ControllerAssumption DEF UidsNamed, TypeOK, Uid
  <1>10. ASSUME NEW u \in Uid, Known(n, u), api[n] # None => api[n].uid # u
         PROVE  o.uid # u
    BY <1>9, <1>10, ObjectsAreSome
  <1>11. ASSUME NEW u \in Uid, Known(n, u), NEW j \in 1 .. Len(W), W[j] = None,
                \A k \in 1 .. Len(W) : j < k => W[k].uid # u
         PROVE  o.uid # u
    <2>1. W # <<>> /\ api[n] = W[Len(W)]
      BY <1>2, <1>11 DEF WatchesInOrder, InOrder
    <2>2. api[n] # None => j < Len(W)
      BY <1>2, <1>11, <2>1
    <2> QED BY <1>2, <1>10, <1>11, <2>1, <2>2, ObjectsAreSome
  <1>12. WatchesInOrder'
    <2> SUFFICES ASSUME NEW m \in Name PROVE InOrder(m)'
      BY DEF WatchesInOrder
    <2>1. CASE m # n
      BY <1>1, <1>4, <2>1 DEF WatchesInOrder, InOrder
    <2>2. CASE m = n
      <3>1. V # <<>> /\ api'[n] = V[Len(V)]
        BY <1>2, <1>3, <1>4
      <3>2. ASSUME NEW j \in 1 .. Len(V), NEW k \in 1 .. Len(V),
                   j < k, V[j] = None, cache[n] # None
            PROVE  V[k].uid # cache[n].uid
        <4>1. j \in 1 .. Len(W) /\ W[j] = None /\ (k \in 1 .. Len(W) \/ V[k] = o)
          BY <1>2, <1>3, <3>2
        <4>2. \A i \in 1 .. Len(W) : j < i => W[i].uid # cache[n].uid
          BY <3>2, <4>1 DEF WatchesInOrder, InOrder
        <4>3. cache[n].uid \in Uid /\ Known(n, cache[n].uid)
          BY <3>2, ObjectsAreSome DEF TypeOK, Known
        <4> QED BY <1>3, <1>11, <3>2, <4>1, <4>2, <4>3
      <3>3. ASSUME NEW i \in 1 .. Len(V), NEW j \in 1 .. Len(V), NEW k \in 1 .. Len(V),
                   i < j, j < k, V[j] = None, V[i] # None
            PROVE  V[k].uid # V[i].uid
        <4>1. /\ i \in 1 .. Len(W) /\ W[i] = V[i]
              /\ j \in 1 .. Len(W) /\ W[j] = None /\ (k \in 1 .. Len(W) \/ V[k] = o)
          BY <1>2, <1>3, <3>3
        <4>2. \A h \in 1 .. Len(W) : j < h => W[h].uid # W[i].uid
          BY <3>3, <4>1 DEF WatchesInOrder, InOrder
        <4>3. W[i] \in Object
          BY <1>2, <3>3, <4>1, ElementOfSeq
        <4>4. W[i].uid \in Uid /\ Known(n, W[i].uid)
          BY <4>1, <4>3, ObjectsAreSome DEF Known
        <4> QED BY <1>3, <1>11, <3>3, <4>1, <4>2, <4>4
      <3> QED BY <1>1, <1>4, <2>2, <3>1, <3>2, <3>3 DEF InOrder
    <2> QED BY <2>1, <2>2
  <1>13. DeletedAreGone'
    <2> SUFFICES ASSUME NEW k \in 1 .. Len(notes), notes[k].kind = "delete"
                 PROVE  Buried(notes[k].name, notes[k].uid)'
      BY <1>1 DEF DeletedAreGone
    <2> DEFINE q == notes[k].name
               u == notes[k].uid
    <2>1. q \in Name /\ u \in Uid /\ Known(q, u) /\ Buried(q, u)
      <3>1. notes[k] \in Note
        BY ElementOfSeq DEF TypeOK
      <3> QED BY <3>1 DEF Note, Known, DeletedAreGone
    <2>2. CASE q # n
      BY <1>1, <1>4, <2>1, <2>2 DEF Buried
    <2>3. CASE q = n
      <3>1. o.uid # u
        BY <1>10, <2>1, <2>3 DEF Buried
      <3> QED BY <1>1, <1>2, <1>3, <1>4, <2>1, <2>3, <3>1 DEF Buried
    <2> QED BY <2>2, <2>3
  <1>14. Waking'
    BY <1>1 DEF Waking, Enqueued, Worked, Woken
  <1> QED BY <1>5, <1>6, <1>8, <1>12, <1>13, <1>14

-----------------------------------------------------------------------------
(***************************************************************************)
(* The informer.                                                           *)
(***************************************************************************)
LEMMA DeliverHolds ==
    ASSUME IInv, NEW n \in Name, Deliver(n)
    PROVE  IInv'
  <1> USE DEF IInv
  <1> DEFINE S == Object \cup {None}
             W == watch[n]
             T == Tail(W)
             note == IF W[1] = None THEN [name |-> n, kind |-> "delete", uid |-> cache[n].uid]
                                    ELSE [name |-> n, kind |-> "enqueue", uid |-> W[1].uid]
             N == Append(notes, note)
  <1>1. W # <<>> /\ W \in Seq(S) /\ Len(W) \in Nat /\ Len(W) >= 1 /\ Head(W) = W[1]
    BY EmptySeq, LenProperties DEF TypeOK, Deliver
  <1>2. T \in Seq(S) /\ Len(T) = Len(W) - 1 /\ \A k \in 1 .. Len(T) : T[k] = W[k + 1]
    BY <1>1, HeadTailProperties
  <1>3. W[1] \in S /\ cache[n] \in S
    BY <1>1, ElementOfSeq DEF TypeOK
  <1>4. /\ cache' = [cache EXCEPT ![n] = W[1]]
        /\ watch' = [watch EXCEPT ![n] = T]
        /\ notes' = IF cache[n] = W[1] THEN notes ELSE N
        /\ UNCHANGED <<api, created, dirty, at, key, found, clusters, loops, gauge, restarts>>
    BY <1>1 DEF Deliver, workerVars
  <1>5. /\ \A m \in Name : m # n => watch'[m] = watch[m] /\ cache'[m] = cache[m]
        /\ watch'[n] = T /\ cache'[n] = W[1]
    BY <1>4 DEF TypeOK
  <1>6. cache[n] # W[1] => note \in Note
    BY <1>3, ObjectsAreSome DEF Note
  <1>7. /\ Len(notes) \in Nat
        /\ cache[n] # W[1] => N \in Seq(Note)
        /\ Len(N) = Len(notes) + 1 /\ N[Len(notes) + 1] = note
        /\ \A k \in 1 .. Len(notes) : N[k] = notes[k]
    BY <1>6, AppendProperties, LenProperties DEF TypeOK
  <1> HIDE DEF T, N
  <1>8. \A k \in 1 .. Len(notes') :
           \/ k \in 1 .. Len(notes) /\ notes'[k] = notes[k]
           \/ cache[n] # W[1] /\ notes'[k] = note
    BY <1>4, <1>7
  <1>9. note.name = n /\ (note.uid = W[1].uid \/ note.uid = cache[n].uid)
    OBVIOUS
  <1>10. TypeOK'
    BY <1>2, <1>3, <1>4, <1>7 DEF TypeOK
  <1>11. MappedIsUnstopped'
    BY <1>4 DEF MappedIsUnstopped, Loops
  <1>12. UidsNamed'
    <2> SUFFICES ASSUME NEW m \in Name, NEW u \in Uid, Known(m, u)'
                 PROVE  Known(m, u)
      BY <1>4, NothingNew
    <2> HIDE DEF note
    <2>1. W[1].uid = u => Known(n, u)
      BY <1>1 DEF Known
    <2>2. cache[n].uid = u => Known(n, u)
      BY DEF Known
    <2>3. (\E k \in 1 .. Len(notes') : notes'[k].name = m /\ notes'[k].uid = u) => Known(m, u)
      BY <1>8, <1>9, <2>1, <2>2 DEF Known
    <2>4. (\E k \in 1 .. Len(watch'[m]) : watch'[m][k].uid = u) => Known(m, u)
      BY <1>1, <1>2, <1>5 DEF Known
    <2>5. cache'[m].uid = u => Known(m, u)
      BY <1>5, <2>1 DEF Known
    <2> QED BY <1>4, <2>3, <2>4, <2>5 DEF Known, Loops
  <1>13. WatchesInOrder'
    <2> SUFFICES ASSUME NEW m \in Name PROVE InOrder(m)'
      BY DEF WatchesInOrder
    <2>1. CASE m # n
      BY <1>4, <1>5, <2>1 DEF WatchesInOrder, InOrder
    <2>2. CASE m = n
      <3>1. InOrder(n)
        BY DEF WatchesInOrder
      <3>2. IF T = <<>> THEN api'[n] = cache'[n] ELSE api'[n] = T[Len(T)]
        <4>1. T = <<>> <=> Len(T) = 0
          BY <1>2, EmptySeq
        <4>2. api[n] = W[Len(W)]
          BY <1>1, <3>1 DEF InOrder
        <4> QED BY <1>1, <1>2, <1>4, <1>5, <4>1, <4>2
      <3>3. ASSUME NEW j \in 1 .. Len(T), NEW k \in 1 .. Len(T),
                   j < k, T[j] = None, cache'[n] # None
            PROVE  T[k].uid # cache'[n].uid
        BY <1>1, <1>2, <1>5, <3>1, <3>3 DEF InOrder
      <3>4. ASSUME NEW i \in 1 .. Len(T), NEW j \in 1 .. Len(T), NEW k \in 1 .. Len(T),
                   i < j, j < k, T[j] = None, T[i] # None
            PROVE  T[k].uid # T[i].uid
        <4>1. /\ i + 1 \in 1 .. Len(W) /\ j + 1 \in 1 .. Len(W) /\ k + 1 \in 1 .. Len(W)
              /\ i + 1 < j + 1 /\ j + 1 < k + 1
          BY <1>1, <1>2, <3>4
        <4>2. T[i] = W[i + 1] /\ T[j] = W[j + 1] /\ T[k] = W[k + 1]
          BY <1>2
        <4> QED BY <3>1, <3>4, <4>1, <4>2 DEF InOrder
      <3> QED BY <1>5, <2>2, <3>2, <3>3, <3>4 DEF InOrder
    <2> QED BY <2>1, <2>2
  <1>14. DeletedAreGone'
    <2> SUFFICES ASSUME NEW k \in 1 .. Len(notes'), notes'[k].kind = "delete",
                        NEW q, q = notes'[k].name, NEW u, u = notes'[k].uid
                 PROVE  Buried(q, u)'
      BY DEF DeletedAreGone
    <2>1. CASE k \in 1 .. Len(notes) /\ notes'[k] = notes[k]
      <3>1. q \in Name /\ Buried(q, u)
        <4>1. notes[k] \in Note
          BY <2>1, ElementOfSeq DEF TypeOK
        <4> QED BY <2>1, <4>1 DEF Note, DeletedAreGone
      <3>2. CASE q # n
        BY <1>4, <1>5, <2>1, <3>1, <3>2 DEF Buried
      <3>3. CASE q = n
        <4>1. \A i \in 1 .. Len(W) : W[i].uid # u
          BY <3>1, <3>3 DEF Buried
        <4>2. ASSUME NEW i \in 1 .. Len(T) PROVE T[i].uid # u
          <5>1. i + 1 \in 1 .. Len(W) /\ T[i] = W[i + 1]
            BY <1>1, <1>2
          <5> QED BY <4>1, <5>1
        <4> QED BY <1>1, <1>4, <1>5, <3>1, <3>3, <4>1, <4>2 DEF Buried
      <3> QED BY <3>2, <3>3
    <2>2. CASE cache[n] # W[1] /\ notes'[k] = note
      <3>1. W[1] = None /\ cache[n] # None /\ q = n /\ u = cache[n].uid
        BY <2>2
      <3>2. cache[n].uid \in Uid /\ cache[n].uid # 0
        BY <1>3, <3>1, ObjectsAreSome
      <3>3. InOrder(n) /\ api[n] = W[Len(W)]
        BY <1>1 DEF WatchesInOrder, InOrder
      <3>4. \A i \in 1 .. Len(W) : W[i].uid # cache[n].uid
        BY <1>1, <3>1, <3>2, <3>3, ObjectsAreSome DEF InOrder
      <3>5. \A i \in 1 .. Len(T) : T[i].uid # cache[n].uid
        BY <1>1, <1>2, <3>4
      <3> QED BY <1>1, <1>4, <1>5, <3>1, <3>3, <3>4, <3>5 DEF Buried
    <2> QED BY <1>8, <2>1, <2>2
  <1>15. Waking'
    <2> SUFFICES ASSUME NEW m \in Name, cache'[m] # None
                 PROVE  m \in dirty' \/ Enqueued(m)' \/ Worked(m)' \/ Woken(m)'
      BY DEF Waking
    <2>1. Enqueued(m) => Enqueued(m)'
      BY <1>4, <1>7 DEF Enqueued
    <2>2. CASE cache'[m] = cache[m]
      BY <1>4, <2>1, <2>2 DEF Waking, Worked, Woken
    <2>3. CASE cache'[m] # cache[m]
      <3>1. m = n /\ W[1] # None /\ cache[n] # W[1]
        BY <1>5, <2>3
      <3>2. N[Len(notes) + 1].name = n /\ N[Len(notes) + 1].kind = "enqueue"
        BY <1>7, <3>1
      <3> QED BY <1>4, <1>7, <3>1, <3>2 DEF Enqueued
    <2> QED BY <2>2, <2>3
  <1> QED BY <1>10, <1>11, <1>12, <1>13, <1>14, <1>15

LEMMA RelistHolds ==
    ASSUME IInv, NEW n \in Name, Relist(n)
    PROVE  IInv'
  <1> USE DEF IInv
  <1>1. /\ watch' = [watch EXCEPT ![n] = <<api[n]>>]
        /\ UNCHANGED <<api, created, cache, notes, dirty, at, key, found, clusters, loops,
                       gauge, restarts>>
    BY DEF Relist, workerVars
  <1>2. /\ \A m \in Name : m # n => watch'[m] = watch[m]
        /\ watch'[n] = <<api[n]>>
        /\ Len(<<api[n]>>) = 1 /\ <<api[n]>>[1] = api[n] /\ <<api[n]>> # <<>>
    BY <1>1 DEF TypeOK
  <1>3. TypeOK'
    BY <1>1, <1>2 DEF TypeOK
  <1>4. MappedIsUnstopped' /\ Waking'
    BY <1>1 DEF MappedIsUnstopped, Loops, Waking, Enqueued, Worked, Woken
  <1>5. UidsNamed'
    <2> SUFFICES ASSUME NEW m \in Name, NEW u \in Uid, Known(m, u)'
                 PROVE  Known(m, u)
      BY <1>1, NothingNew
    <2>1. (\E k \in 1 .. Len(watch'[m]) : watch'[m][k].uid = u) => Known(m, u)
      BY <1>2 DEF Known
    <2> QED BY <1>1, <2>1 DEF Known, Loops
  <1>6. WatchesInOrder'
    BY <1>1, <1>2 DEF WatchesInOrder, InOrder
  <1>7. DeletedAreGone'
    <2> SUFFICES ASSUME NEW k \in 1 .. Len(notes), notes[k].kind = "delete"
                 PROVE  Buried(notes[k].name, notes[k].uid)'
      BY <1>1 DEF DeletedAreGone
    <2>1. notes[k].name \in Name /\ Buried(notes[k].name, notes[k].uid)
      <3>1. notes[k] \in Note
        BY ElementOfSeq DEF TypeOK
      <3> QED BY <3>1 DEF Note, DeletedAreGone
    <2> QED BY <1>1, <1>2, <2>1 DEF Buried
  <1> QED BY <1>3, <1>4, <1>5, <1>6, <1>7

-----------------------------------------------------------------------------
(***************************************************************************)
(* The handlers and the workers: the API server and the cache stay as they *)
(* are, and no note is added.                                              *)
(***************************************************************************)
LEMMA SameObjects ==
    ASSUME IInv, UNCHANGED <<api, created, watch, cache>>,
           notes' = notes \/ (notes # <<>> /\ notes' = Tail(notes)),
           \A n \in Name, u \in Uid : Known(n, u)' => Known(n, u)
    PROVE  UidsNamed' /\ WatchesInOrder' /\ DeletedAreGone'
  <1> USE DEF IInv
  <1>1. WatchesInOrder'
    BY DEF WatchesInOrder, InOrder
  <1>2. \A k \in 1 .. Len(notes') : \E j \in 1 .. Len(notes) : notes'[k] = notes[j]
    <2>1. CASE notes' = notes
      BY <2>1
    <2>2. CASE notes # <<>> /\ notes' = Tail(notes)
      BY <2>2, HeadTailProperties, LenProperties DEF TypeOK
    <2> QED BY <2>1, <2>2
  <1>3. DeletedAreGone'
    BY <1>2 DEF DeletedAreGone, Buried
  <1> QED BY <1>1, <1>3, NothingNew

LEMMA HandleHolds ==
    ASSUME IInv, Handle
    PROVE  IInv'
  <1> USE DEF IInv
  <1> DEFINE note == notes[1]
             c == clusters[note.uid]
  <1>1. /\ notes # <<>> /\ notes \in Seq(Note) /\ Len(notes) \in Nat /\ Len(notes) >= 1
        /\ Head(notes) = note /\ note \in Note
    BY EmptySeq, LenProperties, ElementOfSeq DEF TypeOK, Handle
  <1>2. /\ notes' = Tail(notes) /\ notes' \in Seq(Note) /\ Len(notes') = Len(notes) - 1
        /\ \A k \in 1 .. Len(notes') : notes'[k] = notes[k + 1]
    BY <1>1, HeadTailProperties DEF Handle
  <1>3. UNCHANGED <<api, created, watch, cache, at, key, found, restarts>>
    BY DEF Handle, apiVars, workerVars
  <1>4. note.name \in Name /\ note.uid \in Uid /\ Known(note.name, note.uid)
    BY <1>1 DEF Note, Known
  <1>5. \A m \in Name, u \in Uid :
           (\E k \in 1 .. Len(notes') : notes'[k].name = m /\ notes'[k].uid = u) =>
           (\E k \in 1 .. Len(notes) : notes[k].name = m /\ notes[k].uid = u)
    BY <1>1, <1>2
  <1>6. ASSUME NEW m \in Name, Enqueued(m)
        PROVE  Enqueued(m)' \/ (note.name = m /\ note.kind = "enqueue")
    <2>1. PICK k \in 1 .. Len(notes) : notes[k].name = m /\ notes[k].kind = "enqueue"
      BY <1>6 DEF Enqueued
    <2>2. CASE k = 1
      BY <2>1, <2>2
    <2>3. CASE k # 1
      <3>1. k - 1 \in 1 .. Len(notes') /\ (k - 1) + 1 = k
        BY <1>1, <1>2, <2>3
      <3>2. notes'[k - 1] = notes[k]
        BY <1>2, <3>1
      <3> QED BY <2>1, <3>1, <3>2 DEF Enqueued
    <2> QED BY <2>2, <2>3
  <1>7. CASE note.kind = "enqueue" /\ dirty' = dirty \cup {note.name} /\ UNCHANGED <<clusters, loops, gauge>>
    <2>1. TypeOK' /\ MappedIsUnstopped'
      BY <1>2, <1>3, <1>4, <1>7 DEF TypeOK, MappedIsUnstopped, Loops
    <2>2. UidsNamed' /\ WatchesInOrder' /\ DeletedAreGone'
      <3>1. \A m \in Name, u \in Uid : Known(m, u)' => Known(m, u)
        BY <1>3, <1>5, <1>7 DEF Known, Loops
      <3> QED BY <1>1, <1>2, <1>3, <3>1, SameObjects
    <2>3. Waking'
      BY <1>3, <1>6, <1>7 DEF Waking, Worked, Woken
    <2> QED BY <2>1, <2>2, <2>3
  <1>8. CASE note.kind = "delete" /\ gauge' = gauge - 1 /\ StopControl(note.uid) /\ UNCHANGED dirty
    <2>1. /\ clusters' = [clusters EXCEPT ![note.uid] = 0]
          /\ loops' = IF c = 0 THEN loops ELSE [loops EXCEPT ![c].stop = TRUE]
      BY <1>8 DEF StopControl
    <2>2. c # 0 => c \in 1 .. Len(loops) /\ loops[c].uid = note.uid
      BY <1>4 DEF MappedIsUnstopped, Loops
    <2>3. /\ loops' \in Seq(Loop) /\ Len(loops') = Len(loops)
          /\ \A l \in 1 .. Len(loops) : l # c => loops'[l] = loops[l]
          /\ c # 0 => loops'[c] = [loops[c] EXCEPT !.stop = TRUE]
      <3>1. CASE c = 0
        BY <2>1, <3>1 DEF TypeOK
      <3>2. CASE c # 0
        <4> DEFINE r == [loops[c] EXCEPT !.stop = TRUE]
        <4>1. loops[c] \in Loop /\ loops \in Seq(Loop)
          BY <2>2, <3>2, ElementOfSeq DEF TypeOK
        <4>2. r \in Loop
          BY <4>1, LoopChanged
        <4>3. loops' = [loops EXCEPT ![c] = r]
          BY <2>1, <3>2
        <4> HIDE DEF r
        <4>4. /\ loops' \in Seq(Loop) /\ Len(loops') = Len(loops) /\ loops'[c] = r
              /\ \A l \in 1 .. Len(loops) : l # c => loops'[l] = loops[l]
          BY <2>2, <3>2, <4>1, <4>2, <4>3, OneReplaced
        <4> QED BY <4>4 DEF r
      <3> QED BY <3>1, <3>2
    <2>4. \A l \in 1 .. Len(loops) :
            /\ loops[l] \in Loop
            /\ loops'[l].name = loops[l].name /\ loops'[l].uid = loops[l].uid
            /\ loops'[l].read = loops[l].read /\ loops'[l].event = loops[l].event
            /\ loops'[l].sends = loops[l].sends
      <3> SUFFICES ASSUME NEW l \in 1 .. Len(loops)
                   PROVE  /\ loops[l] \in Loop
                          /\ loops'[l].name = loops[l].name /\ loops'[l].uid = loops[l].uid
                          /\ loops'[l].read = loops[l].read /\ loops'[l].event = loops[l].event
                          /\ loops'[l].sends = loops[l].sends
        OBVIOUS
      <3>1. loops[l] \in Loop
        BY ElementOfSeq DEF TypeOK
      <3>2. CASE l # c
        BY <2>3, <3>1, <3>2
      <3>3. CASE l = c
        <4>1. loops'[l] = [loops[l] EXCEPT !.stop = TRUE]
          BY <2>3, <3>3
        <4> QED BY <3>1, <4>1, StopChanged
      <3> QED BY <3>2, <3>3
    <2>5. c # 0 => loops'[c].stop
      <3>1. c # 0 => loops[c] \in Loop /\ loops'[c] = [loops[c] EXCEPT !.stop = TRUE]
        BY <2>2, <2>3, <2>4
      <3> HIDE DEF c
      <3> QED BY <3>1, StopChanged, Zenon
    <2>6. TypeOK'
      BY <1>2, <1>3, <1>4, <1>8, <2>1, <2>3, ControllerAssumption DEF TypeOK
    <2>7. MappedIsUnstopped'
      <3>1. \A u \in Uid : clusters'[u] = IF u = note.uid THEN 0 ELSE clusters[u]
        BY <1>4, <2>1 DEF TypeOK
      <3>2. ASSUME NEW u \in Uid, clusters'[u] # 0
            PROVE  /\ clusters'[u] \in 1 .. Len(loops')
                   /\ loops'[clusters'[u]].uid = u
                   /\ ~loops'[clusters'[u]].stop
        <4>1. u # note.uid /\ clusters'[u] = clusters[u]
          BY <3>1, <3>2
        <4>2. clusters[u] \in 1 .. Len(loops) /\ loops[clusters[u]].uid = u /\ ~loops[clusters[u]].stop
          BY <3>2, <4>1 DEF MappedIsUnstopped, Loops
        <4>3. clusters[u] # c
          BY <2>2, <3>2, <4>1, <4>2
        <4> QED BY <2>3, <4>1, <4>2, <4>3
      <3>3. ASSUME NEW l \in 1 .. Len(loops'), ~loops'[l].stop
            PROVE  clusters'[loops'[l].uid] = l
        <4>1. l # c /\ loops'[l] = loops[l] /\ loops[l] \in Loop /\ l # 0
          BY <2>3, <2>4, <2>5, <3>3
        <4>2. clusters[loops[l].uid] = l
          BY <2>3, <3>3, <4>1 DEF MappedIsUnstopped, Loops
        <4> QED BY <3>1, <4>1, <4>2, LoopFields
      <3> QED BY <3>2, <3>3 DEF MappedIsUnstopped, Loops
    <2>8. UidsNamed' /\ WatchesInOrder' /\ DeletedAreGone'
      <3>1. \A m \in Name, u \in Uid : Known(m, u)' => Known(m, u)
        BY <1>3, <1>5, <2>3, <2>4 DEF Known, Loops
      <3> QED BY <1>1, <1>2, <1>3, <3>1, SameObjects
    <2>9. Waking'
      <3> SUFFICES ASSUME NEW m \in Name, cache[m] # None
                   PROVE  m \in dirty' \/ Enqueued(m)' \/ Worked(m)' \/ Woken(m)'
        BY <1>3 DEF Waking
      <3>1. cache[m].uid \in Uid /\ Known(m, cache[m].uid)
        BY ObjectsAreSome DEF TypeOK, Known
      <3>2. cache[m].uid # note.uid
        <4>1. Buried(note.name, note.uid)
          BY <1>1, <1>8 DEF DeletedAreGone
        <4> QED BY <1>4, <3>1, <4>1 DEF UidsNamed, Buried
      <3>3. Woken(m) => Woken(m)'
        <4>1. clusters'[cache[m].uid] = clusters[cache[m].uid]
          BY <2>1, <3>1, <3>2 DEF TypeOK
        <4>2. clusters[cache[m].uid] # 0 => clusters[cache[m].uid] \in 1 .. Len(loops)
          BY <3>1 DEF MappedIsUnstopped, Loops
        <4> QED BY <1>3, <2>4, <4>1, <4>2 DEF Woken
      <3> QED BY <1>3, <1>6, <1>8, <3>3 DEF Waking, Worked
    <2> QED BY <2>6, <2>7, <2>8, <2>9
  <1> QED BY <1>1, <1>7, <1>8 DEF Handle

LEMMA OwnedEventHolds ==
    ASSUME IInv, NEW n \in Name, OwnedEvent(n)
    PROVE  IInv'
  <1> USE DEF IInv
  <1>1. /\ dirty' = dirty \cup {n}
        /\ UNCHANGED <<api, created, watch, cache, notes, at, key, found, clusters, loops,
                       gauge, restarts>>
    BY DEF OwnedEvent, apiVars, workerVars
  <1>2. TypeOK' /\ MappedIsUnstopped'
    BY <1>1 DEF TypeOK, MappedIsUnstopped, Loops
  <1>3. UidsNamed' /\ WatchesInOrder' /\ DeletedAreGone'
    <2>1. \A m \in Name, u \in Uid : Known(m, u)' => Known(m, u)
      BY <1>1 DEF Known, Loops
    <2> QED BY <1>1, <2>1, SameObjects
  <1>4. Waking'
    BY <1>1 DEF Waking, Enqueued, Worked, Woken
  <1> QED BY <1>2, <1>3, <1>4

LEMMA TakeHolds ==
    ASSUME IInv, NEW w \in Worker, NEW n \in Name, Take(w, n)
    PROVE  IInv'
  <1> USE DEF IInv
  <1>1. /\ at[w] = "idle" /\ n \in dirty
        /\ dirty' = dirty \ {n}
        /\ at' = [at EXCEPT ![w] = "look"] /\ key' = [key EXCEPT ![w] = n]
        /\ UNCHANGED <<api, created, watch, cache, notes, found, clusters, loops, gauge,
                       restarts>>
    BY DEF Take, apiVars
  <1>2. /\ at'[w] = "look" /\ key'[w] = n
        /\ \A v \in Worker : v # w => at'[v] = at[v] /\ key'[v] = key[v]
    BY <1>1 DEF TypeOK
  <1>3. TypeOK'
    <2>1. at' \in [Worker -> {"idle", "look", "control"}] /\ key' \in [Worker -> Name \cup {"nothing"}]
      BY <1>1 DEF TypeOK
    <2> QED BY <1>1, <1>2, <2>1 DEF TypeOK
  <1>4. MappedIsUnstopped'
    BY <1>1 DEF MappedIsUnstopped, Loops
  <1>5. UidsNamed' /\ WatchesInOrder' /\ DeletedAreGone'
    <2>1. \A m \in Name, u \in Uid : Known(m, u)' => Known(m, u)
      BY <1>1, <1>2 DEF Known, Loops
    <2> QED BY <1>1, <2>1, SameObjects
  <1>6. Waking'
    <2> SUFFICES ASSUME NEW m \in Name, cache[m] # None
                 PROVE  m \in dirty' \/ Enqueued(m)' \/ Worked(m)' \/ Woken(m)'
      BY <1>1 DEF Waking
    <2>1. m = n => Worked(m)'
      BY <1>2 DEF Worked
    <2>2. Worked(m) => Worked(m)'
      BY <1>1, <1>2 DEF Worked
    <2>3. (Enqueued(m) => Enqueued(m)') /\ (Woken(m) => Woken(m)')
      BY <1>1 DEF Enqueued, Woken
    <2> QED BY <1>1, <2>1, <2>2, <2>3 DEF Waking
  <1> QED BY <1>3, <1>4, <1>5, <1>6

LEMMA BusyWorker ==
    ASSUME TypeOK, NEW w \in Worker
    PROVE  /\ at[w] # "idle" => key[w] \in Name
           /\ at[w] = "control" => found[w] \in Object
  <1>1. \A v \in Worker : /\ at[v] # "idle" => key[v] \in Name
                          /\ at[v] = "control" => found[v] \in Object
    BY DEF TypeOK
  <1> QED BY <1>1

LEMMA LookUpHolds ==
    ASSUME IInv, NEW w \in Worker, LookUp(w)
    PROVE  IInv'
  <1> USE DEF IInv
  <1> DEFINE n == key[w]
  <1>0. /\ at[w] = "look"
        /\ UNCHANGED <<api, created, watch, cache, notes, dirty, clusters, loops, gauge,
                       restarts>>
    BY DEF LookUp, apiVars
  <1>1. n \in Name /\ cache[n] \in Object \cup {None}
    <2>1. at[w] # "idle"
      BY <1>0
    <2>2. n \in Name
      BY <2>1, BusyWorker
    <2> QED BY <2>2 DEF TypeOK
  <1>2. MappedIsUnstopped'
    BY <1>0, <1>1 DEF MappedIsUnstopped, Loops
  <1>3. \A m \in Name : (Enqueued(m) => Enqueued(m)') /\ (Woken(m) => Woken(m)')
    BY <1>0, <1>1 DEF Enqueued, Woken
  <1>4. CASE cache[n] = None /\ Done(w)
    <2>1. /\ at' = [at EXCEPT ![w] = "idle"]
          /\ key' = [key EXCEPT ![w] = "nothing"]
          /\ found' = [found EXCEPT ![w] = None]
      BY <1>4 DEF Done
    <2>2. /\ at'[w] = "idle"
          /\ \A v \in Worker : v # w => at'[v] = at[v] /\ key'[v] = key[v] /\ found'[v] = found[v]
      BY <2>1 DEF TypeOK
    <2>3. TypeOK'
      <3>1. /\ at' \in [Worker -> {"idle", "look", "control"}]
            /\ key' \in [Worker -> Name \cup {"nothing"}]
            /\ found' \in [Worker -> Object \cup {None}]
        BY <2>1 DEF TypeOK
      <3> QED BY <1>0, <1>1, <2>2, <3>1 DEF TypeOK
    <2>4. UidsNamed' /\ WatchesInOrder' /\ DeletedAreGone'
      <3>1. \A m \in Name, u \in Uid : Known(m, u)' => Known(m, u)
        BY <1>0, <1>1, <2>2 DEF Known, Loops
      <3> QED BY <1>0, <1>1, <3>1, SameObjects
    <2>5. \A m \in Name : m # n => (Worked(m) => Worked(m)')
      BY <1>0, <1>1, <2>2 DEF Worked
    <2> QED BY <1>0, <1>1, <1>2, <1>3, <1>4, <2>3, <2>4, <2>5 DEF Waking
  <1>5. CASE /\ cache[n] # None /\ at' = [at EXCEPT ![w] = "control"]
             /\ found' = [found EXCEPT ![w] = cache[n]] /\ UNCHANGED key
    <2>1. /\ at'[w] = "control" /\ found'[w] = cache[n] /\ cache[n] \in Object
          /\ \A v \in Worker : v # w => at'[v] = at[v] /\ found'[v] = found[v]
      BY <1>0, <1>1, <1>5 DEF TypeOK
    <2>2. TypeOK'
      <3>1. /\ at' \in [Worker -> {"idle", "look", "control"}]
            /\ found' \in [Worker -> Object \cup {None}]
        BY <1>0, <1>1, <1>5 DEF TypeOK
      <3> QED BY <1>0, <1>1, <1>5, <2>1, <3>1 DEF TypeOK
    <2>3. UidsNamed' /\ WatchesInOrder' /\ DeletedAreGone'
      <3>1. \A m \in Name, u \in Uid : Known(m, u)' => Known(m, u)
        BY <1>0, <1>1, <1>5, <2>1 DEF Known, Loops
      <3> QED BY <1>0, <1>1, <3>1, SameObjects
    <2>4. \A m \in Name : Worked(m) => Worked(m)'
      BY <1>0, <1>1, <1>5, <2>1 DEF Worked
    <2> QED BY <1>0, <1>1, <1>2, <1>3, <2>2, <2>3, <2>4 DEF Waking
  <1> QED BY <1>4, <1>5 DEF LookUp

LEMMA UpdateEtcdClusterHolds ==
    ASSUME IInv, NEW w \in Worker, UpdateEtcdCluster(w)
    PROVE  IInv'
  <1> USE DEF IInv
  <1> DEFINE n == key[w]
             u == found[w].uid
             c == clusters[u]
  <1>1. /\ at[w] = "control" /\ Done(w)
        /\ UNCHANGED <<api, created, watch, cache, notes, dirty, gauge, restarts>>
    BY DEF UpdateEtcdCluster, apiVars
  <1>2. n \in Name /\ found[w] \in Object /\ u \in Uid /\ Known(n, u)
    <2>1. at[w] # "idle"
      BY <1>1
    <2>2. n \in Name /\ found[w] \in Object
      BY <1>1, <2>1, BusyWorker
    <2> QED BY <1>1, <2>2, ObjectsAreSome DEF Known
  <1>3. /\ at' = [at EXCEPT ![w] = "idle"]
        /\ key' = [key EXCEPT ![w] = "nothing"]
        /\ found' = [found EXCEPT ![w] = None]
    BY <1>1 DEF Done
  <1>4. /\ at' \in [Worker -> {"idle", "look", "control"}]
        /\ key' \in [Worker -> Name \cup {"nothing"}]
        /\ found' \in [Worker -> Object \cup {None}]
        /\ at'[w] = "idle"
        /\ \A v \in Worker : v # w => at'[v] = at[v] /\ key'[v] = key[v] /\ found'[v] = found[v]
    BY <1>3 DEF TypeOK
  <1>5. \A v \in Worker : /\ at'[v] # "idle" => key'[v] \in Name
                          /\ at'[v] = "control" => found'[v] \in Object
    BY <1>4 DEF TypeOK
  <1>6. \A m \in Name : cache[m].uid # u /\ Worked(m) => Worked(m)'
    BY <1>1, <1>4 DEF Worked
  <1>7. \A m \in Name : Enqueued(m) => Enqueued(m)'
    BY <1>1 DEF Enqueued
  <1>8. /\ loops \in Seq(Loop) /\ Len(loops) \in Nat
        /\ \A l \in 1 .. Len(loops) : loops[l] \in Loop
    BY LenProperties, ElementOfSeq DEF TypeOK
  <1>9. CASE c # 0 /\ loops' = [loops EXCEPT ![c].sends = 1] /\ UNCHANGED clusters
    <2> DEFINE r == [loops[c] EXCEPT !.sends = 1]
    <2>1. c \in 1 .. Len(loops)
      BY <1>2, <1>9 DEF MappedIsUnstopped, Loops
    <2>2. r \in Loop /\ loops' = [loops EXCEPT ![c] = r]
      BY <1>8, <1>9, <2>1, LoopChanged
    <2>3. /\ r.name = loops[c].name /\ r.uid = loops[c].uid /\ r.stop = loops[c].stop
          /\ r.read = loops[c].read /\ r.event = loops[c].event /\ r.sends = 1
      BY <1>8, <2>1 DEF Loop
    <2> HIDE DEF r
    <2>4. /\ loops' \in Seq(Loop) /\ Len(loops') = Len(loops) /\ loops'[c] = r
          /\ \A l \in 1 .. Len(loops) : l # c => loops'[l] = loops[l]
      BY <1>8, <2>1, <2>2, OneReplaced
    <2>5. \A l \in 1 .. Len(loops) :
             /\ loops'[l].name = loops[l].name /\ loops'[l].uid = loops[l].uid
             /\ loops'[l].stop = loops[l].stop
             /\ loops'[l].read = loops[l].read /\ loops'[l].event = loops[l].event
             /\ loops'[l].sends = loops[l].sends \/ loops'[l].sends = 1
      BY <2>3, <2>4
    <2>6. TypeOK'
      BY <1>1, <1>4, <1>5, <1>9, <2>4 DEF TypeOK
    <2>7. MappedIsUnstopped'
      BY <1>9, <2>4, <2>5 DEF MappedIsUnstopped, Loops
    <2>8. UidsNamed' /\ WatchesInOrder' /\ DeletedAreGone'
      <3>1. \A m \in Name, v \in Uid : Known(m, v)' => Known(m, v)
        BY <1>1, <1>4, <2>4, <2>5 DEF Known, Loops
      <3> QED BY <1>1, <3>1, SameObjects
    <2>9. Waking'
      <3> SUFFICES ASSUME NEW m \in Name, cache[m] # None
                   PROVE  m \in dirty' \/ Enqueued(m)' \/ Worked(m)' \/ Woken(m)'
        BY <1>1 DEF Waking
      <3>1. cache[m].uid \in Uid
        BY ObjectsAreSome DEF TypeOK
      <3>2. clusters[cache[m].uid] # 0 => clusters[cache[m].uid] \in 1 .. Len(loops)
        BY <3>1 DEF MappedIsUnstopped, Loops
      <3>3. Woken(m) => Woken(m)'
        BY <1>1, <1>9, <2>5, <3>2 DEF Woken
      <3>4. cache[m].uid = u => Woken(m)'
        BY <1>1, <1>9, <2>3, <2>4 DEF Woken
      <3> QED BY <1>1, <1>6, <1>7, <3>3, <3>4 DEF Waking
    <2> QED BY <2>6, <2>7, <2>8, <2>9
  <1>10. CASE /\ c = 0 /\ Len(loops) < MaxLoops
              /\ loops' = Append(loops, NewLoop(n, u))
              /\ clusters' = [clusters EXCEPT ![u] = Len(loops) + 1]
    <2> DEFINE r == NewLoop(n, u)
    <2>1. r \in Loop /\ r.name = n /\ r.uid = u /\ r.sends = 1
      BY <1>2 DEF NewLoop, Loop
    <2>2. ~r.stop
      BY Zenon DEF NewLoop
    <2> HIDE DEF r
    <2>3. /\ loops' \in Seq(Loop) /\ Len(loops') = Len(loops) + 1
          /\ loops'[Len(loops) + 1] = r
          /\ \A l \in 1 .. Len(loops) : loops'[l] = loops[l]
      BY <1>8, <1>10, <2>1, AppendProperties DEF r
    <2>4. \A v \in Uid : clusters'[v] = IF v = u THEN Len(loops) + 1 ELSE clusters[v]
      BY <1>2, <1>10 DEF TypeOK
    <2>5. TypeOK'
      <3>1. Len(loops) + 1 \in 0 .. MaxLoops
        BY <1>8, <1>10, ControllerAssumption
      <3>2. clusters' \in [Uid -> 0 .. MaxLoops]
        BY <1>10, <3>1 DEF TypeOK
      <3>3. Len(loops') <= MaxLoops
        BY <1>8, <1>10, <2>3, ControllerAssumption
      <3> QED BY <1>1, <1>4, <1>5, <2>3, <3>2, <3>3 DEF TypeOK
    <2>6. MappedIsUnstopped'
      <3>1. ASSUME NEW v \in Uid, clusters'[v] # 0
            PROVE  /\ clusters'[v] \in 1 .. Len(loops')
                   /\ loops'[clusters'[v]].uid = v
                   /\ ~loops'[clusters'[v]].stop
        <4>1. CASE v = u
          BY <1>8, <2>1, <2>2, <2>3, <2>4, <4>1
        <4>2. CASE v # u
          <5>1. clusters'[v] = clusters[v]
            BY <2>4, <4>2
          <5>2. /\ clusters[v] \in 1 .. Len(loops)
                /\ loops[clusters[v]].uid = v /\ ~loops[clusters[v]].stop
            BY <3>1, <5>1 DEF MappedIsUnstopped, Loops
          <5> QED BY <1>8, <2>3, <5>1, <5>2
        <4> QED BY <4>1, <4>2
      <3>2. ASSUME NEW l \in 1 .. Len(loops'), ~loops'[l].stop
            PROVE  clusters'[loops'[l].uid] = l
        <4>1. CASE l = Len(loops) + 1
          BY <1>2, <2>1, <2>3, <2>4, <4>1
        <4>2. CASE l # Len(loops) + 1
          <5>1. l \in 1 .. Len(loops) /\ loops'[l] = loops[l]
            BY <1>8, <2>3, <4>2
          <5>2. loops[l].uid \in Uid /\ clusters[loops[l].uid] = l
            BY <1>8, <3>2, <5>1, LoopFields DEF MappedIsUnstopped, Loops
          <5>3. loops[l].uid # u
            BY <1>10, <5>1, <5>2
          <5> QED BY <2>4, <5>1, <5>2, <5>3
        <4> QED BY <4>1, <4>2
      <3> QED BY <3>1, <3>2 DEF MappedIsUnstopped, Loops
    <2>7. UidsNamed' /\ WatchesInOrder' /\ DeletedAreGone'
      <3> SUFFICES ASSUME NEW m \in Name, NEW v \in Uid, Known(m, v)' PROVE Known(m, v)
        BY <1>1, SameObjects
      <3>1. (\E l \in 1 .. Len(loops') : loops'[l].name = m /\ loops'[l].uid = v) =>
            (m = n /\ v = u) \/ (\E l \in 1 .. Len(loops) : loops[l].name = m /\ loops[l].uid = v)
        BY <1>8, <2>1, <2>3
      <3> QED BY <1>1, <1>2, <1>4, <3>1 DEF Known, Loops
    <2>8. Waking'
      <3> SUFFICES ASSUME NEW m \in Name, cache[m] # None
                   PROVE  m \in dirty' \/ Enqueued(m)' \/ Worked(m)' \/ Woken(m)'
        BY <1>1 DEF Waking
      <3>1. cache[m].uid \in Uid
        BY ObjectsAreSome DEF TypeOK
      <3>2. clusters[cache[m].uid] # 0 => clusters[cache[m].uid] \in 1 .. Len(loops)
        BY <3>1 DEF MappedIsUnstopped, Loops
      <3>3. cache[m].uid = u => Woken(m)'
        <4>1. cache[m].uid = u => clusters'[cache'[m].uid] = Len(loops) + 1
          BY <1>1, <2>4, <3>1
        <4> QED BY <1>8, <2>1, <2>3, <4>1, <1>1 DEF Woken
      <3>4. cache[m].uid # u /\ Woken(m) => Woken(m)'
        BY <1>1, <2>3, <2>4, <3>1, <3>2 DEF Woken
      <3> QED BY <1>1, <1>6, <1>7, <3>3, <3>4 DEF Waking
    <2> QED BY <2>5, <2>6, <2>7, <2>8
  <1> QED BY <1>9, <1>10 DEF UpdateEtcdCluster

-----------------------------------------------------------------------------
(***************************************************************************)
(* The loops.  Most steps change the record of one loop: they keep its     *)
(* object and its stop flag, and what would wake it.                       *)
(***************************************************************************)
\* The loop with this record reads the object without another event, or has read it.
Rouses(r, o) == r.read = o \/ r.event \/ r.sends > 0

LEMMA LoopEdited ==
    ASSUME IInv, NEW l \in 1 .. Len(loops), NEW r \in Loop,
           loops' = [loops EXCEPT ![l] = r], Elsewhere' = Elsewhere, gauge' \in Int,
           r.name = loops[l].name, r.uid = loops[l].uid, r.stop = loops[l].stop,
           \A n \in Name : cache[n] # None /\ cache[n].uid = loops[l].uid =>
               (Rouses(loops[l], cache[n]) => Rouses(r, cache[n]))
    PROVE  IInv'
  <1> USE DEF IInv
  <1>1. UNCHANGED <<api, created, watch, cache, notes, dirty, at, key, found, clusters, restarts>>
    BY DEF Elsewhere, apiVars, workerVars
  <1>2. loops \in Seq(Loop) /\ Len(loops) \in Nat
    BY LenProperties DEF TypeOK
  <1>3. /\ loops' \in Seq(Loop) /\ Len(loops') = Len(loops) /\ loops'[l] = r
        /\ \A k \in 1 .. Len(loops) : k # l => loops'[k] = loops[k]
    BY <1>2, OneReplaced
  <1>4. \A k \in 1 .. Len(loops) :
           /\ loops'[k].name = loops[k].name /\ loops'[k].uid = loops[k].uid
           /\ loops'[k].stop = loops[k].stop
    BY <1>3
  <1>5. TypeOK'
    BY <1>1, <1>3 DEF TypeOK
  <1>6. MappedIsUnstopped'
    BY <1>1, <1>3, <1>4 DEF MappedIsUnstopped, Loops
  <1>7. UidsNamed' /\ WatchesInOrder' /\ DeletedAreGone'
    <2>1. \A m \in Name, u \in Uid : Known(m, u)' => Known(m, u)
      BY <1>1, <1>3, <1>4 DEF Known, Loops
    <2> QED BY <1>1, <2>1, SameObjects
  <1>8. Waking'
    <2> SUFFICES ASSUME NEW m \in Name, cache[m] # None, Woken(m)
                 PROVE  Woken(m)'
      BY <1>1 DEF Waking, Enqueued, Worked
    <2> DEFINE u == cache[m].uid
    <2>1. u \in Uid
      BY ObjectsAreSome DEF TypeOK
    <2>2. clusters[u] # 0 /\ clusters[u] \in 1 .. Len(loops) /\ loops[clusters[u]].uid = u
      BY <2>1 DEF Woken, MappedIsUnstopped, Loops
    <2>3. CASE clusters[u] = l
      BY <1>1, <1>3, <2>2, <2>3 DEF Woken, Rouses
    <2>4. CASE clusters[u] # l
      BY <1>1, <1>3, <2>2, <2>4 DEF Woken
    <2> QED BY <2>3, <2>4
  <1> QED BY <1>5, <1>6, <1>7, <1>8

\* The cached object of a loop's UID is the one of the loop's name.
LEMMA OwnObject ==
    ASSUME IInv, NEW l \in 1 .. Len(loops), NEW n \in Name,
           cache[n] # None, cache[n].uid = loops[l].uid
    PROVE  loops[l].name = n
  <1> USE DEF IInv
  <1>1. loops[l].name \in Name /\ loops[l].uid \in Uid
    <2>1. loops[l] \in Loop
      BY ElementOfSeq DEF TypeOK
    <2> QED BY <2>1, LoopFields
  <1>2. Known(n, loops[l].uid) /\ Known(loops[l].name, loops[l].uid)
    BY DEF Known, Loops
  <1> QED BY <1>1, <1>2 DEF UidsNamed

LEMMA SyncHolds ==
    ASSUME IInv, NEW l \in 1 .. Len(loops), NEW e \in BOOLEAN, Sync(l, e),
           gauge' = gauge, Elsewhere' = Elsewhere
    PROVE  IInv'
  <1> DEFINE o == cache[loops[l].name]
             r == [loops[l] EXCEPT !.state = "syncing", !.event = e, !.read = o]
  <1>1. loops[l] \in Loop /\ loops[l].name \in Name /\ o \in Object \cup {None} /\ gauge \in Int
    <2>1. loops[l] \in Loop
      BY ElementOfSeq DEF TypeOK, IInv
    <2> QED BY <2>1, LoopFields DEF TypeOK, IInv
  <1>2. r \in Loop
    BY <1>1, LoopChanged
  <1>3. loops' = [loops EXCEPT ![l] = r]
    BY DEF Sync
  <1>4. /\ r.name = loops[l].name /\ r.uid = loops[l].uid /\ r.stop = loops[l].stop
        /\ r.read = o
    BY <1>1 DEF Loop
  <1>5. \A n \in Name : cache[n] # None /\ cache[n].uid = loops[l].uid => r.read = cache[n]
    BY <1>4, OwnObject
  <1> HIDE DEF r
  <1> QED BY <1>1, <1>2, <1>3, <1>4, <1>5, LoopEdited DEF Rouses

LEMMA LoopStepHolds ==
    ASSUME IInv, NEW l \in Loops, LoopStep(l)
    PROVE  IInv'
  <1>1. l \in 1 .. Len(loops) /\ loops[l] \in Loop /\ gauge \in Int
    BY ElementOfSeq DEF IInv, TypeOK, Loops
  <1>2. ASSUME NEW s \in {"select", "returned"}, loops' = [loops EXCEPT ![l].state = s],
               gauge' \in Int, Elsewhere' = Elsewhere
        PROVE  IInv'
    <2> DEFINE r == [loops[l] EXCEPT !.state = s]
    <2>1. r \in Loop /\ loops' = [loops EXCEPT ![l] = r]
      BY <1>1, <1>2, LoopChanged
    <2>2. /\ r.name = loops[l].name /\ r.uid = loops[l].uid /\ r.stop = loops[l].stop
          /\ r.read = loops[l].read /\ r.event = loops[l].event /\ r.sends = loops[l].sends
      BY <1>1 DEF Loop
    <2> HIDE DEF r
    <2>3. \A o : Rouses(loops[l], o) => Rouses(r, o)
      BY <2>2 DEF Rouses
    <2> QED BY <1>1, <1>2, <2>1, <2>2, <2>3, LoopEdited
  <1>3. CASE Start(l)
    BY <1>1, <1>2, <1>3 DEF Start
  <1>4. CASE SelectStop(l)
    BY <1>1, <1>2, <1>4 DEF SelectStop
  <1>5. CASE SyncEnd(l)
    BY <1>1, <1>2, <1>5 DEF SyncEnd
  <1>6. CASE Send(l)
    <2> DEFINE r == [loops[l] EXCEPT !.sends = 0, !.event = TRUE]
    <2>1. r \in Loop /\ loops' = [loops EXCEPT ![l] = r] /\ gauge' = gauge /\ Elsewhere' = Elsewhere
      BY <1>1, <1>6, LoopChanged DEF Send
    <2>2. /\ r.name = loops[l].name /\ r.uid = loops[l].uid /\ r.stop = loops[l].stop
          /\ r.event
      BY <1>1 DEF Loop
    <2> HIDE DEF r
    <2> QED BY <1>1, <2>1, <2>2, LoopEdited DEF Rouses
  <1>7. CASE SelectEvent(l)
    BY <1>1, <1>7, SyncHolds DEF SelectEvent
  <1>8. CASE SelectTick(l)
    BY <1>1, <1>8, SyncHolds, LoopFields DEF SelectTick
  <1> QED BY <1>3, <1>4, <1>5, <1>6, <1>7, <1>8 DEF LoopStep

-----------------------------------------------------------------------------
(***************************************************************************)
(* The operator process, and all steps together.                           *)
(***************************************************************************)
\* Nothing is cached, queued or started, and what there is has names and UIDs.
NothingRunning ==
    /\ api \in [Name -> Object \cup {None}] /\ created \in 0 .. MaxUid /\ gauge \in Int
    /\ restarts \in 0 .. MaxRestarts
    /\ watch \in [Name -> Seq(Object \cup {None})]
    /\ \A n \in Name : watch[n] = IF api[n] = None THEN <<>> ELSE <<api[n]>>
    /\ \A n \in Name : api[n] # None =>
          /\ api[n].uid <= created
          /\ \A m \in Name : api[m].uid = api[n].uid => m = n
    /\ cache = [n \in Name |-> None] /\ notes = <<>> /\ dirty = {}
    /\ at = [w \in Worker |-> "idle"] /\ key = [w \in Worker |-> "nothing"]
    /\ found = [w \in Worker |-> None] /\ clusters = [u \in Uid |-> 0] /\ loops = <<>>

LEMMA NothingRuns == NothingRunning => IInv
  <1> SUFFICES ASSUME NothingRunning PROVE IInv
    OBVIOUS
  <1> USE DEF NothingRunning
  <1>1. Len(notes) = 0 /\ Len(loops) = 0 /\ notes \in Seq(Note) /\ loops \in Seq(Loop)
    BY EmptySeq
  <1>2. TypeOK
    BY <1>1, ControllerAssumption DEF TypeOK
  <1>3. MappedIsUnstopped /\ DeletedAreGone /\ Waking
    BY <1>1 DEF MappedIsUnstopped, Loops, DeletedAreGone, Waking
  <1>4. ASSUME NEW n \in Name, NEW k \in 1 .. Len(watch[n])
        PROVE  k = 1 /\ Len(watch[n]) = 1 /\ watch[n][k] = api[n]
    <2>1. CASE api[n] = None
      <3>1. watch[n] = <<>> /\ Len(watch[n]) = 0
        BY <2>1
      <3> QED BY <3>1
    <2>2. CASE api[n] # None
      <3>1. watch[n] = <<api[n]>> /\ Len(watch[n]) = 1
        BY <2>2
      <3> QED BY <3>1
    <2> QED BY <2>1, <2>2
  <1>5. ASSUME NEW n \in Name, NEW u \in Uid, Known(n, u)
        PROVE  api[n] # None /\ api[n].uid = u
    BY <1>1, <1>4, <1>5, ObjectsAreSome DEF Known, Loops
  <1>6. UidsNamed
    <2> SUFFICES ASSUME NEW n \in Name, NEW u \in Uid, Known(n, u)
                 PROVE  u <= created /\ \A m \in Name : Known(m, u) => m = n
      BY DEF UidsNamed
    <2>1. api[n] # None /\ api[n].uid = u
      BY <1>5
    <2>2. \A m \in Name : Known(m, u) => api[m].uid = u
      BY <1>5
    <2> QED BY <2>1, <2>2
  <1>7. WatchesInOrder
    <2> SUFFICES ASSUME NEW n \in Name PROVE InOrder(n)
      BY DEF WatchesInOrder
    <2>1. IF watch[n] = <<>> THEN api[n] = cache[n] ELSE api[n] = watch[n][Len(watch[n])]
      <3>1. CASE api[n] = None
        BY <3>1
      <3>2. CASE api[n] # None
        <4>1. watch[n] = <<api[n]>>
          BY <3>2
        <4>2. <<api[n]>> # <<>> /\ <<api[n]>>[Len(<<api[n]>>)] = api[n]
          OBVIOUS
        <4> QED BY <4>1, <4>2, Zenon
      <3> QED BY <3>1, <3>2
    <2> QED BY <1>4, <2>1 DEF InOrder
  <1> QED BY <1>2, <1>3, <1>6, <1>7 DEF IInv

LEMMA InitHolds == Init => IInv
  <1> SUFFICES ASSUME Init PROVE IInv
    OBVIOUS
  <1>1. /\ api \in [Name -> Object \cup {None}] /\ created \in 0 .. MaxUid /\ gauge \in Int
        /\ restarts \in 0 .. MaxRestarts /\ watch \in [Name -> Seq(Object \cup {None})]
        /\ \A n \in Name : api[n] = None /\ watch[n] = <<>>
    BY ControllerAssumption, EmptySeq DEF Init
  <1> QED BY <1>1, NothingRuns DEF Init, NothingRunning

LEMMA RestartHolds ==
    ASSUME IInv, Restart
    PROVE  IInv'
  <1> USE DEF IInv
  <1>1. /\ api \in [Name -> Object \cup {None}] /\ created \in 0 .. MaxUid
        /\ restarts' \in 0 .. MaxRestarts /\ UNCHANGED <<api, created>> /\ gauge' \in Int
    BY ControllerAssumption DEF Restart, TypeOK
  <1>2. /\ watch' \in [Name -> Seq(Object \cup {None})]
        /\ \A n \in Name : watch'[n] = IF api[n] = None THEN <<>> ELSE <<api[n]>>
    <2>1. watch' = [n \in Name |-> IF api[n] = None THEN <<>> ELSE <<api[n]>>]
      BY DEF Restart
    <2>2. ASSUME NEW n \in Name
          PROVE  (IF api[n] = None THEN <<>> ELSE <<api[n]>>) \in Seq(Object \cup {None})
      <3>1. <<>> \in Seq(Object \cup {None}) /\ <<api[n]>> \in Seq(Object \cup {None})
        BY <1>1, EmptySeq
      <3> QED BY <3>1, Zenon
    <2> QED BY <2>1, <2>2, Zenon
  <1>3. ASSUME NEW n \in Name, api[n] # None
        PROVE  /\ api[n].uid <= created
               /\ \A m \in Name : api[m].uid = api[n].uid => m = n
    <2>1. api[n].uid \in Uid
      BY <1>1, <1>3, ObjectsAreSome
    <2> QED BY <2>1 DEF UidsNamed, Known
  <1>4. /\ cache' = [n \in Name |-> None] /\ notes' = <<>> /\ dirty' = {}
        /\ at' = [w \in Worker |-> "idle"] /\ key' = [w \in Worker |-> "nothing"]
        /\ found' = [w \in Worker |-> None]
        /\ clusters' = [u \in Uid |-> 0] /\ loops' = <<>>
    BY DEF Restart
  <1>5. NothingRunning'
    BY <1>1, <1>2, <1>3, <1>4 DEF NothingRunning
  <1> QED BY <1>5, NothingRuns, PTL

LEMMA NextHolds ==
    ASSUME IInv, [Next]_vars
    PROVE  IInv'
  <1>1. CASE UNCHANGED vars
    BY <1>1 DEF vars, IInv, TypeOK, MappedIsUnstopped, UidsNamed, Known, WatchesInOrder, InOrder,
                DeletedAreGone, Buried, Waking, Enqueued, Worked, Woken, Loops
  <1>2. ASSUME NEW n \in Name, Create(n) \/ Edit(n) \/ Delete(n) PROVE IInv'
    <2>1. /\ api[n] \in Object \cup {None} /\ None \in Object \cup {None}
          /\ created \in 0 .. MaxUid /\ created \in Nat
      BY ControllerAssumption DEF IInv, TypeOK
    <2>2. CASE Create(n)
      <3> DEFINE o == [uid |-> created + 1, gen |-> 1]
      <3>1. created + 1 \in Uid /\ 1 \in 1 .. MaxGen
        BY <2>1, <2>2, ControllerAssumption DEF Create, Uid
      <3>2. o \in Object
        BY <3>1 DEF Object
      <3>3. o # None /\ o.uid = created + 1
        BY <3>2, ObjectsAreSome
      <3> QED BY <2>1, <2>2, <3>1, <3>2, <3>3, PublishHolds, ControllerAssumption DEF Create, Uid
    <2>3. CASE Edit(n)
      <3> DEFINE o == [api[n] EXCEPT !.gen = @ + 1]
      <3>1. api[n] \in Object /\ api[n].gen < MaxGen
        BY <2>1, <2>3 DEF Edit
      <3>2. o \in Object /\ o.uid = api[n].uid
        BY <3>1, ControllerAssumption DEF Object
      <3> QED BY <2>1, <2>3, <3>1, <3>2, ObjectsAreSome, PublishHolds DEF Edit
    <2>4. CASE Delete(n)
      BY <2>1, <2>4, PublishHolds DEF Delete
    <2> QED BY <1>2, <2>2, <2>3, <2>4
  <1>3. ASSUME NEW n \in Name, Deliver(n) \/ Relist(n) \/ OwnedEvent(n) PROVE IInv'
    BY <1>3, DeliverHolds, RelistHolds, OwnedEventHolds
  <1>4. ASSUME NEW w \in Worker,
               LookUp(w) \/ UpdateEtcdCluster(w) \/ \E n \in Name : Take(w, n)
        PROVE  IInv'
    BY <1>4, LookUpHolds, UpdateEtcdClusterHolds, TakeHolds
  <1> QED BY <1>1, <1>2, <1>3, <1>4, HandleHolds, LoopStepHolds, RestartHolds DEF Next

\* In every reachable state: what the loops, the informer, the notifications and the
\* workers know of a name agrees, as the conjuncts of IInv say.
THEOREM ControllerInvariance == Spec => []IInv
  BY InitHolds, NextHolds, PTL DEF Spec

\* The variables of the controller keep their types.
THEOREM ControllerTypeCorrect == Spec => []TypeOK
  <1>1. IInv => TypeOK
    BY DEF IInv
  <1> QED BY <1>1, ControllerInvariance, PTL

\* The map of loops holds the loops that are not stopped, one for each UID: a
\* deletion closes each stop channel once and leaves no second loop running.
THEOREM MapIsExact == Spec => []MappedIsUnstopped
  <1>1. IInv => MappedIsUnstopped
    BY DEF IInv
  <1> QED BY <1>1, ControllerInvariance, PTL

\* Whatever the queue merges, the event channel drops and the workers interleave,
\* something is always on its way that makes the loop of a cached object read it.
THEOREM NoWakeUpLost == Spec => []WakeUpPending
  <1>1. IInv => WakeUpPending
    <2> SUFFICES ASSUME IInv, NEW n \in Name, cache[n] # None
                 PROVE  \/ n \in dirty \cup Processing
                        \/ Enqueued(n)
                        \/ Woken(n)
      BY DEF WakeUpPending, Enqueued, Woken
    <2>1. Worked(n) => n \in Processing
      BY DEF Worked, Processing
    <2> QED BY <2>1 DEF IInv, Waking
  <1> QED BY <1>1, ControllerInvariance, PTL
=============================================================================
