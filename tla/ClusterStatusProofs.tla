------------------------ MODULE ClusterStatusProofs ------------------------
(***************************************************************************)
(* What holds of ClusterStatus for every size, every number of edits,      *)
(* changes and faults, and however far the informer is behind.             *)
(***************************************************************************)
EXTENDS ClusterStatus, SequenceTheorems, TLAPS

-----------------------------------------------------------------------------
(***************************************************************************)
(* The inductive invariant: what a copy of the object may differ in from   *)
(* the version it is of.                                                   *)
(***************************************************************************)
Alike(a, b) ==
    /\ a.size = b.size /\ a.paused = b.paused /\ a.phase = b.phase
    /\ a.members = b.members /\ a.lb = b.lb

\* ensurePausedStatus is the only one to change an object in place.
CopyOf(o, version) ==
    Alike(o, version) /\ o.controlPaused \in {version.controlPaused, version.paused}

CacheIsCopy == CopyOf(cached, objs[1])
AliasIsCache == alias => e = cached

\* As long as the API server would take a write of c.etcd, c.etcd is a copy of the
\* current version.
FreshIsCopy == fresh => CopyOf(e, Current)

SawTheSize == pc = "running" => saw = e.size

\* The record is never ahead of the members, and never behind those about to be recorded.
RosterAhead ==
    /\ roster <= changes /\ listed <= roster /\ Current.members <= roster
    /\ pc \in {"record", "record2"} => Current.members <= listed

IInv == TypeOK /\ CacheIsCopy /\ AliasIsCache /\ FreshIsCopy /\ SawTheSize /\ RosterAhead

-----------------------------------------------------------------------------
(***************************************************************************)
(* Objects and their versions.                                             *)
(***************************************************************************)
LEMMA ObjectFields ==
    ASSUME NEW o \in Object
    PROVE  /\ o.size \in 1 .. MaxSize /\ o.paused \in BOOLEAN /\ o.phase \in Phase
           /\ o.controlPaused \in BOOLEAN /\ o.members \in Roster /\ o.lb \in BOOLEAN
  BY DEF Object

LEMMA PhaseSet ==
    ASSUME NEW o \in Object, NEW p \in Phase
    PROVE  LET q == [o EXCEPT !.phase = p]
           IN  /\ q \in Object /\ q.phase = p
               /\ q.size = o.size /\ q.paused = o.paused /\ q.controlPaused = o.controlPaused
               /\ q.members = o.members /\ q.lb = o.lb
  BY DEF Object

LEMMA PauseSet ==
    ASSUME NEW o \in Object, NEW b \in BOOLEAN
    PROVE  LET q == [o EXCEPT !.controlPaused = b]
           IN  /\ q \in Object /\ q.controlPaused = b
               /\ q.size = o.size /\ q.paused = o.paused /\ q.phase = o.phase
               /\ q.members = o.members /\ q.lb = o.lb
  BY DEF Object

LEMMA MembersSet ==
    ASSUME NEW o \in Object, NEW r \in Roster
    PROVE  LET q == [o EXCEPT !.members = r]
           IN  /\ q \in Object /\ q.members = r
               /\ q.size = o.size /\ q.paused = o.paused /\ q.controlPaused = o.controlPaused
               /\ q.phase = o.phase /\ q.lb = o.lb
  BY DEF Object

LEMMA BalancerSet ==
    ASSUME NEW o \in Object, NEW b \in BOOLEAN
    PROVE  LET q == [o EXCEPT !.lb = b]
           IN  /\ q \in Object /\ q.lb = b
               /\ q.size = o.size /\ q.paused = o.paused /\ q.controlPaused = o.controlPaused
               /\ q.phase = o.phase /\ q.members = o.members
  BY DEF Object

\* What is stored of a status write.
LEMMA StatusSet ==
    ASSUME NEW c \in Object, NEW o \in Object
    PROVE  LET q == [c EXCEPT !.phase = o.phase, !.controlPaused = o.controlPaused,
                              !.members = o.members, !.lb = o.lb]
           IN  /\ q \in Object
               /\ q.size = c.size /\ q.paused = c.paused
               /\ q.phase = o.phase /\ q.controlPaused = o.controlPaused
               /\ q.members = o.members /\ q.lb = o.lb
  <1> DEFINE p == [c EXCEPT !.phase = o.phase]
             r == [p EXCEPT !.controlPaused = o.controlPaused]
             s == [r EXCEPT !.members = o.members]
             t == [s EXCEPT !.lb = o.lb]
  <1>1. p \in Object /\ p.size = c.size /\ p.paused = c.paused /\ p.phase = o.phase
    BY ObjectFields, PhaseSet
  <1> HIDE DEF p
  <1>2. /\ r \in Object /\ r.size = p.size /\ r.paused = p.paused /\ r.phase = p.phase
        /\ r.controlPaused = o.controlPaused
    BY <1>1, ObjectFields, PauseSet
  <1> HIDE DEF r
  <1>3. /\ s \in Object /\ s.size = r.size /\ s.paused = r.paused /\ s.phase = r.phase
        /\ s.controlPaused = r.controlPaused /\ s.members = o.members
    BY <1>2, ObjectFields, MembersSet
  <1> HIDE DEF s
  <1>4. /\ t \in Object /\ t.size = s.size /\ t.paused = s.paused /\ t.phase = s.phase
        /\ t.controlPaused = s.controlPaused /\ t.members = s.members /\ t.lb = o.lb
    BY <1>3, ObjectFields, BalancerSet
  <1> HIDE DEF t
  <1>5. t = [c EXCEPT !.phase = o.phase, !.controlPaused = o.controlPaused,
                      !.members = o.members, !.lb = o.lb]
    BY DEF t, s, r, p
  <1> QED BY <1>1, <1>2, <1>3, <1>4, <1>5

LEMMA CurrentIs ==
    ASSUME TypeOK
    PROVE  Current \in Object /\ objs[1] \in Object
  <1>1. Len(objs) \in 1 .. Len(objs) /\ 1 \in 1 .. Len(objs)
    BY StatusAssumption DEF TypeOK
  <1> QED BY <1>1, ElementOfSeq DEF TypeOK, Current

LEMMA Appended ==
    ASSUME TypeOK, Len(objs) <= MaxLag, NEW o \in Object, objs' = Append(objs, o)
    PROVE  /\ objs' \in Seq(Object) /\ Len(objs') \in 1 .. MaxLag + 1
           /\ objs'[1] = objs[1] /\ Current' = o
  <1>0. MaxLag \in Nat /\ Len(objs) \in Nat /\ Len(objs) >= 1
    BY StatusAssumption DEF TypeOK
  <1>1. /\ objs' \in Seq(Object) /\ Len(objs') = Len(objs) + 1
        /\ \A k \in 1 .. Len(objs) : objs'[k] = objs[k]
        /\ objs'[Len(objs) + 1] = o
    BY AppendProperties DEF TypeOK
  <1> QED BY <1>0, <1>1 DEF Current

LEMMA Delivered ==
    ASSUME TypeOK, Deliver
    PROVE  /\ objs' \in Seq(Object) /\ Len(objs') \in 1 .. MaxLag + 1
           /\ objs'[1] = objs[2] /\ objs[2] \in Object /\ Current' = Current
  <1>0. MaxLag \in Nat /\ Len(objs) \in Nat /\ Len(objs) > 1 /\ Len(objs) <= MaxLag + 1
    BY StatusAssumption DEF TypeOK, Deliver
  <1>1. objs # <<>>
    BY <1>0, EmptySeq
  <1>2. /\ objs' \in Seq(Object) /\ Len(objs') = Len(objs) - 1
        /\ \A k \in 1 .. Len(objs') : objs'[k] = objs[k + 1]
    BY <1>1, HeadTailProperties DEF TypeOK, Deliver
  <1>3. Len(objs') \in 1 .. MaxLag + 1 /\ objs'[1] = objs[2] /\ Current' = Current
    BY <1>0, <1>2 DEF Current
  <1>4. objs[2] \in Object
    BY <1>0, ElementOfSeq DEF TypeOK
  <1> QED BY <1>2, <1>3, <1>4

-----------------------------------------------------------------------------
(***************************************************************************)
(* What a step may do to the record.                                       *)
(***************************************************************************)
RunningStep == Current.phase # "Running" /\ Current'.phase = "Running" => saw = Current.size
MembersStep == Current'.members >= Current.members
PauseStep ==
    Current'.controlPaused # Current.controlPaused => Current'.controlPaused = Current.paused

RecordsRight == RunningStep /\ MembersStep /\ PauseStep

LEMMA NothingRecorded ==
    ASSUME TypeOK, Current' = Current
    PROVE  RecordsRight
  <1>1. Current.members \in Int
    BY CurrentIs, ObjectFields, StatusAssumption DEF Roster
  <1> QED BY <1>1 DEF RecordsRight, RunningStep, MembersStep, PauseStep

LEMMA FaultCounted ==
    ASSUME TypeOK, Fault \/ NoFault
    PROVE  faults' \in 0 .. MaxFaults
  BY StatusAssumption DEF TypeOK, Fault, NoFault

\* A write that is not older than the record, and right where it differs, leaves it so.
LEMMA Updated ==
    ASSUME IInv, NEW o \in Object, NEW label, NEW keep, UpdateStatus(o, label, keep),
           fresh => /\ o.phase \in {Current.phase, "Pending", "Creating"} \/ saw = Current.size
                    /\ o.members >= Current.members /\ o.members <= roster
                    /\ o.controlPaused \in {Current.controlPaused, Current.paused}
    PROVE  /\ objs' \in Seq(Object) /\ Len(objs') \in 1 .. MaxLag + 1
           /\ objs'[1] = objs[1] /\ Current'.members <= roster
           /\ RecordsRight
           /\ faults' \in 0 .. MaxFaults
           /\ \/ objs' = objs /\ fresh' = fresh /\ pc' = "idle"
              \/ /\ fresh /\ Current'.size = Current.size /\ Current'.paused = Current.paused
                 /\ Current'.phase = o.phase /\ Current'.controlPaused = o.controlPaused
                 /\ Current'.members = o.members /\ Current'.lb = o.lb
                 /\ \/ pc' = label /\ fresh' = keep
                    \/ pc' = "idle" /\ fresh' = FALSE
  <1>1. /\ Fault \/ NoFault
        /\ \/ objs' = objs /\ fresh' = fresh /\ pc' = "idle"
           \/ /\ fresh /\ Put(o)
              /\ \/ pc' = label /\ fresh' = keep
                 \/ pc' = "idle" /\ fresh' = FALSE
    BY DEF UpdateStatus, Goto, Return
  <1>2. TypeOK /\ faults' \in 0 .. MaxFaults
    BY <1>1, FaultCounted DEF IInv
  <1>3. CASE objs' = objs /\ fresh' = fresh /\ pc' = "idle"
    <2>1. Current' = Current
      BY <1>3 DEF Current
    <2> QED BY <1>2, <1>3, <2>1, NothingRecorded DEF IInv, TypeOK, RosterAhead
  <1>4. CASE /\ fresh /\ Put(o)
             /\ \/ pc' = label /\ fresh' = keep
                \/ pc' = "idle" /\ fresh' = FALSE
    <2> DEFINE q == [Current EXCEPT !.phase = o.phase, !.controlPaused = o.controlPaused,
                                    !.members = o.members, !.lb = o.lb]
    <2>1. /\ q \in Object
          /\ q.size = Current.size /\ q.paused = Current.paused
          /\ q.phase = o.phase /\ q.controlPaused = o.controlPaused
          /\ q.members = o.members /\ q.lb = o.lb
      BY <1>2, CurrentIs, StatusSet
    <2>2. Len(objs) <= MaxLag /\ objs' = Append(objs, q)
      BY <1>4 DEF Put
    <2> HIDE DEF q
    <2>3. /\ objs' \in Seq(Object) /\ Len(objs') \in 1 .. MaxLag + 1
          /\ objs'[1] = objs[1] /\ Current' = q
      BY <1>2, <2>1, <2>2, Appended
    <2>4. RunningStep
      BY <1>4, <2>1, <2>3 DEF RunningStep
    <2>5. MembersStep
      BY <1>4, <2>1, <2>3 DEF MembersStep
    <2>6. PauseStep
      BY <1>4, <2>1, <2>3 DEF PauseStep
    <2>7. Current'.members <= roster
      BY <1>4, <2>1, <2>3
    <2> QED BY <1>2, <1>4, <2>1, <2>3, <2>4, <2>5, <2>6, <2>7 DEF RecordsRight
  <1> QED BY <1>1, <1>3, <1>4

-----------------------------------------------------------------------------
(***************************************************************************)
(* The steps of the loop.                                                  *)
(***************************************************************************)
\* A loop that goes on keeps what it sent, and its object is no longer the informer's.
LEMMA WriteAndKeep ==
    ASSUME IInv, NEW o \in Object, NEW keep \in BOOLEAN,
           NEW label \in {"pause", "members", "learner", "status"},
           UpdateStatus(o, label, keep), Keep(o, label),
           o.size = e.size, o.paused = e.paused, o.controlPaused = e.controlPaused,
           o.phase \in {e.phase, "Creating"},
           fresh => o.members >= Current.members /\ o.members <= roster,
           UNCHANGED <<cached, saw, listed, world>>
    PROVE  IInv' /\ RecordsRight
  <1> USE DEF IInv
  <1>1. fresh => /\ e.size = Current.size /\ e.paused = Current.paused /\ e.phase = Current.phase
                 /\ e.controlPaused \in {Current.controlPaused, Current.paused}
    BY DEF FreshIsCopy, CopyOf, Alike
  <1>2. fresh => /\ o.phase \in {Current.phase, "Pending", "Creating"}
                 /\ o.members >= Current.members /\ o.members <= roster
                 /\ o.controlPaused \in {Current.controlPaused, Current.paused}
    BY <1>1
  <1>3. /\ objs' \in Seq(Object) /\ Len(objs') \in 1 .. MaxLag + 1
        /\ objs'[1] = objs[1] /\ Current'.members <= roster
        /\ RecordsRight
        /\ faults' \in 0 .. MaxFaults
        /\ \/ objs' = objs /\ fresh' = fresh /\ pc' = "idle"
           \/ /\ fresh /\ Current'.size = Current.size /\ Current'.paused = Current.paused
              /\ Current'.phase = o.phase /\ Current'.controlPaused = o.controlPaused
              /\ Current'.members = o.members /\ Current'.lb = o.lb
              /\ \/ pc' = label /\ fresh' = keep
                 \/ pc' = "idle" /\ fresh' = FALSE
    BY <1>2, Updated
  <1>4. /\ e' = IF pc' = label THEN o ELSE e
        /\ alias' \in BOOLEAN /\ (alias' => pc' # label /\ alias)
    BY Zenon DEF Keep
  <1>5. pc' \in {"idle", "pause", "members", "learner", "status"} /\ fresh' \in BOOLEAN
    BY <1>3 DEF TypeOK
  <1>6. e' \in Object
    BY <1>4 DEF TypeOK
  <1>7. TypeOK'
    BY <1>3, <1>4, <1>5, <1>6 DEF TypeOK, world
  <1>8. CacheIsCopy' /\ AliasIsCache'
    BY <1>3, <1>4 DEF CacheIsCopy, CopyOf, Alike, AliasIsCache
  <1>9. FreshIsCopy'
    <2>1. CASE objs' = objs /\ fresh' = fresh /\ pc' = "idle"
      <3>1. Current' = Current /\ e' = e
        BY <1>4, <2>1 DEF Current
      <3> QED BY <2>1, <3>1 DEF FreshIsCopy, CopyOf, Alike
    <2>2. CASE pc' = "idle" /\ fresh' = FALSE
      BY <2>2 DEF FreshIsCopy
    <2>3. CASE /\ fresh /\ Current'.size = Current.size /\ Current'.paused = Current.paused
               /\ Current'.phase = o.phase /\ Current'.controlPaused = o.controlPaused
               /\ Current'.members = o.members /\ Current'.lb = o.lb
               /\ pc' = label
      <3>1. e' = o
        BY <1>4, <2>3
      <3> QED BY <1>1, <2>3, <3>1 DEF FreshIsCopy, CopyOf, Alike
    <2> QED BY <1>3, <2>1, <2>2, <2>3
  <1>10. SawTheSize' /\ RosterAhead'
    BY <1>3, <1>5 DEF SawTheSize, RosterAhead, world
  <1> QED BY <1>3, <1>7, <1>8, <1>9, <1>10

\* The loop goes elsewhere, and nothing is written.
LEMMA WentOn ==
    ASSUME IInv, UNCHANGED <<objs, cached, e, alias, fresh>>,
           pc' \in {"idle", "phase", "pause", "lb", "members", "record", "learner",
                    "members2", "record2", "status", "running"},
           saw' \in 0 .. MaxSize, listed' \in Roster, faults' \in 0 .. MaxFaults,
           roster' \in Roster, changes' \in 0 .. MaxChanges,
           pc' = "running" => saw' = e.size,
           roster <= roster', roster' <= changes', listed' <= roster',
           pc' \in {"record", "record2"} => listed' = roster,
           UNCHANGED <<ready, ingress, edits>>
    PROVE  IInv' /\ RecordsRight
  <1> USE DEF IInv
  <1>1. Current' = Current
    BY DEF Current
  <1>2. TypeOK'
    BY DEF TypeOK
  <1>3. CacheIsCopy' /\ AliasIsCache' /\ FreshIsCopy'
    BY <1>1 DEF CacheIsCopy, AliasIsCache, FreshIsCopy, CopyOf, Alike
  <1>4. SawTheSize'
    BY DEF SawTheSize
  <1>5. RosterAhead'
    <2>1. Current.members \in Int /\ roster \in Int /\ roster' \in Int
      BY CurrentIs, ObjectFields, StatusAssumption DEF Roster, TypeOK
    <2> QED BY <1>1, <2>1 DEF RosterAhead
  <1> QED BY <1>1, <1>2, <1>3, <1>4, <1>5, NothingRecorded

LEMMA BeginHolds ==
    ASSUME IInv, Begin
    PROVE  IInv' /\ RecordsRight
  <1> USE DEF IInv, Begin, Goto, world
  <1>1. Current' = Current
    BY DEF Current
  <1>2. (fresh' => Len(objs) = 1) /\ fresh' \in BOOLEAN /\ alias' \in BOOLEAN
    BY Zenon
  <1>3. TypeOK'
    BY <1>2 DEF TypeOK
  <1>4. CacheIsCopy' /\ AliasIsCache'
    BY DEF CacheIsCopy, AliasIsCache, CopyOf, Alike
  <1>5. FreshIsCopy'
    <2>1. fresh' => Current = objs[1]
      BY <1>2 DEF Current
    <2> QED BY <1>1, <2>1 DEF CacheIsCopy, FreshIsCopy, CopyOf, Alike
  <1>6. SawTheSize' /\ RosterAhead'
    BY <1>1 DEF SawTheSize, RosterAhead
  <1> QED BY <1>1, <1>3, <1>4, <1>5, <1>6, NothingRecorded

LEMMA RosterKnown ==
    ASSUME IInv
    PROVE  /\ roster \in Roster /\ roster \in Nat /\ roster <= changes
           /\ listed \in Roster /\ listed \in Nat /\ listed <= roster /\ Current.members \in Nat
           /\ faults \in 0 .. MaxFaults /\ changes \in 0 .. MaxChanges
           /\ saw \in 0 .. MaxSize
  BY CurrentIs, ObjectFields, StatusAssumption DEF IInv, TypeOK, RosterAhead, Roster

LEMMA CopyMembers ==
    ASSUME IInv
    PROVE  fresh => e.members >= Current.members /\ e.members <= roster
  BY RosterKnown DEF IInv, FreshIsCopy, CopyOf, Alike, RosterAhead

LEMMA MarkCreatingHolds ==
    ASSUME IInv, MarkCreating
    PROVE  IInv' /\ RecordsRight
  <1> DEFINE o == [e EXCEPT !.phase = "Creating"]
  <1>1. e \in Object /\ "Creating" \in Phase
    BY DEF IInv, TypeOK, Phase
  <1>2. /\ o \in Object /\ o.phase = "Creating"
        /\ o.size = e.size /\ o.paused = e.paused /\ o.controlPaused = e.controlPaused
        /\ o.members = e.members /\ o.lb = e.lb
    BY <1>1, PhaseSet
  <1> HIDE DEF o
  <1>3. CASE UpdateStatus(o, "pause", TRUE) /\ Keep(o, "pause")
             /\ UNCHANGED <<cached, saw, listed, world>>
    BY <1>2, <1>3, CopyMembers, WriteAndKeep, TRUE \in BOOLEAN
  <1>4. CASE NoFault /\ Goto("pause") /\ UNCHANGED <<objs, e, alias, fresh, cached, saw, listed, world>>
    BY <1>4, RosterKnown, FaultCounted, WentOn DEF Goto, IInv, world
  <1> QED BY <1>3, <1>4 DEF MarkCreating, o

\* The pause is set in the object, and perhaps in the informer's, before it is written.
LEMMA EnsurePausedHolds ==
    ASSUME IInv, EnsurePaused
    PROVE  IInv' /\ RecordsRight
  <1> DEFINE o == [e EXCEPT !.controlPaused = e.paused]
             label == IF e.paused THEN "idle" ELSE "lb"
  <1> USE DEF IInv
  <1>1. e \in Object /\ e.paused \in BOOLEAN
    BY ObjectFields DEF TypeOK
  <1>2. /\ o \in Object /\ o.controlPaused = e.paused
        /\ o.size = e.size /\ o.paused = e.paused /\ o.phase = e.phase
        /\ o.members = e.members /\ o.lb = e.lb
    BY <1>1, PauseSet
  <1> HIDE DEF o
  <1>3. label \in {"idle", "lb"}
    OBVIOUS
  <1> HIDE DEF label
  <1>4. UNCHANGED <<saw, listed, ready, roster, ingress, edits, changes>>
    BY DEF EnsurePaused, world
  <1>5. CASE Touch(o) /\ UpdateStatus(o, label, FALSE)
    <2>1. fresh => /\ e.size = Current.size /\ e.paused = Current.paused
                   /\ e.phase = Current.phase /\ e.members = Current.members /\ e.lb = Current.lb
      BY DEF FreshIsCopy, CopyOf, Alike
    <2>2. fresh => /\ o.phase \in {Current.phase, "Pending", "Creating"}
                   /\ o.members >= Current.members /\ o.members <= roster
                   /\ o.controlPaused \in {Current.controlPaused, Current.paused}
      BY <1>2, <2>1, CopyMembers
    <2>3. /\ objs' \in Seq(Object) /\ Len(objs') \in 1 .. MaxLag + 1
          /\ objs'[1] = objs[1] /\ Current'.members <= roster
          /\ RecordsRight
          /\ faults' \in 0 .. MaxFaults
          /\ \/ objs' = objs /\ fresh' = fresh /\ pc' = "idle"
             \/ pc' \in {"idle", "lb"} /\ fresh' = FALSE
      BY <1>2, <1>3, <1>5, <2>2, Updated
    <2>4. /\ e' = o /\ alias' = alias /\ cached' = IF alias THEN o ELSE cached
      BY <1>5 DEF Touch
    <2>5. TypeOK'
      BY <1>2, <1>4, <2>3, <2>4 DEF TypeOK
    <2>6. CacheIsCopy'
      <3>1. CASE alias
        BY <1>2, <2>3, <2>4, <3>1 DEF CacheIsCopy, AliasIsCache, CopyOf, Alike
      <3>2. CASE ~alias
        BY <2>3, <2>4, <3>2 DEF CacheIsCopy, CopyOf, Alike
      <3> QED BY <3>1, <3>2
    <2>7. AliasIsCache'
      BY <2>4 DEF AliasIsCache
    <2>8. FreshIsCopy'
      <3>1. CASE fresh' = FALSE
        BY <3>1 DEF FreshIsCopy
      <3>2. CASE objs' = objs /\ fresh' = fresh
        <4>1. Current' = Current
          BY <3>2 DEF Current
        <4> QED BY <1>2, <2>1, <2>4, <3>2, <4>1 DEF FreshIsCopy, CopyOf, Alike
      <3> QED BY <2>3, <3>1, <3>2
    <2>9. SawTheSize' /\ RosterAhead'
      BY <1>4, <2>3 DEF SawTheSize, RosterAhead
    <2> QED BY <2>3, <2>5, <2>6, <2>7, <2>8, <2>9
  <1>6. CASE NoFault /\ Goto(label) /\ UNCHANGED <<objs, cached, e, alias, fresh>>
    BY <1>3, <1>4, <1>6, RosterKnown, FaultCounted, WentOn DEF Goto
  <1> QED BY <1>5, <1>6 DEF EnsurePaused, o, label

LEMMA BalancerHolds ==
    ASSUME IInv, EnsureLoadBalancer
    PROVE  IInv' /\ RecordsRight
  <1> DEFINE o == [e EXCEPT !.lb = TRUE]
  <1>1. e \in Object
    BY DEF IInv, TypeOK
  <1>2. /\ o \in Object /\ o.phase = e.phase
        /\ o.size = e.size /\ o.paused = e.paused /\ o.controlPaused = e.controlPaused
        /\ o.members = e.members
    BY <1>1, BalancerSet, TRUE \in BOOLEAN
  <1> HIDE DEF o
  <1>3. CASE UpdateStatus(o, "members", TRUE) /\ Keep(o, "members")
             /\ UNCHANGED <<cached, saw, listed, world>>
    BY <1>2, <1>3, CopyMembers, WriteAndKeep, TRUE \in BOOLEAN
  <1>4. CASE /\ Fault \/ NoFault
             /\ pc' \in {"members", "idle"}
             /\ UNCHANGED <<objs, e, alias, fresh, cached, saw, listed, world>>
    BY <1>4, RosterKnown, FaultCounted, WentOn DEF IInv, world
  <1> QED BY <1>3, <1>4 DEF EnsureLoadBalancer, Goto, Return, o

LEMMA ListHolds ==
    ASSUME IInv, NEW here, NEW record \in {"record", "record2"}, NEW next \in {"learner", "status"},
           ListMembers(here, record, next)
    PROVE  IInv' /\ RecordsRight
  <1>1. /\ Fault \/ NoFault
        /\ \/ pc' = next /\ listed' = listed
           \/ pc' = record /\ listed' = roster
           \/ pc' = "idle" /\ listed' = listed
        /\ UNCHANGED <<objs, cached, e, alias, fresh, saw, world>>
    BY DEF ListMembers, Goto, Return
  <1> QED BY <1>1, RosterKnown, FaultCounted, WentOn DEF IInv, world

LEMMA RecordHolds ==
    ASSUME IInv, NEW here \in {"record", "record2"}, NEW next \in {"learner", "status"},
           RecordMembers(here, next)
    PROVE  IInv' /\ RecordsRight
  <1> DEFINE o == [e EXCEPT !.members = listed]
  <1>1. e \in Object /\ listed \in Roster
    BY DEF IInv, TypeOK
  <1>2. /\ o \in Object /\ o.phase = e.phase /\ o.members = listed
        /\ o.size = e.size /\ o.paused = e.paused /\ o.controlPaused = e.controlPaused
    BY <1>1, MembersSet
  <1> HIDE DEF o
  <1>3. o.members >= Current.members /\ o.members <= roster
    BY <1>2, RosterKnown DEF IInv, RosterAhead, RecordMembers
  <1>4. CASE UpdateStatus(o, next, FALSE) /\ Keep(o, next)
             /\ UNCHANGED <<cached, saw, listed, world>>
    BY <1>2, <1>3, <1>4, WriteAndKeep, FALSE \in BOOLEAN
  <1>5. CASE NoFault /\ pc' = next /\ UNCHANGED <<objs, e, alias, fresh, cached, saw, listed, world>>
    BY <1>5, RosterKnown, FaultCounted, WentOn DEF IInv, world
  <1> QED BY <1>4, <1>5 DEF RecordMembers, Goto, o

LEMMA LearnerHolds ==
    ASSUME IInv, EnsureLearner
    PROVE  IInv' /\ RecordsRight
  <1>1. /\ Fault \/ NoFault
        /\ pc' \in {"status", "members2", "idle"}
        /\ \/ roster' = roster /\ changes' = changes
           \/ changes < MaxChanges /\ roster' = roster + 1 /\ changes' = changes + 1
        /\ UNCHANGED <<objs, cached, e, alias, fresh, saw, listed, ready, ingress, edits>>
    BY DEF EnsureLearner, Goto, Return
  <1>2. /\ roster' \in Roster /\ changes' \in 0 .. MaxChanges
        /\ roster <= roster' /\ roster' <= changes' /\ listed <= roster'
    BY <1>1, RosterKnown, StatusAssumption DEF Roster
  <1> QED BY <1>1, <1>2, RosterKnown, FaultCounted, WentOn DEF IInv

LEMMA CompareHolds ==
    ASSUME IInv, NEW here, CompareSize(here)
    PROVE  IInv' /\ RecordsRight
  <1>1. /\ pc' \in {"running", "idle"} /\ saw' = ready /\ (pc' = "running" => ready = e.size)
        /\ UNCHANGED <<objs, cached, e, alias, fresh, listed, world, faults>>
    BY DEF CompareSize, Goto
  <1>2. ready \in 0 .. MaxSize
    BY DEF IInv, TypeOK
  <1> QED BY <1>1, <1>2, RosterKnown, WentOn DEF world

LEMMA MarkRunningHolds ==
    ASSUME IInv, MarkRunning
    PROVE  IInv' /\ RecordsRight
  <1> DEFINE o == [e EXCEPT !.phase = "Running"]
  <1> USE DEF IInv
  <1>1. e \in Object /\ "Running" \in Phase
    BY DEF TypeOK, Phase
  <1>2. /\ o \in Object /\ o.members = e.members /\ o.controlPaused = e.controlPaused
    BY <1>1, PhaseSet
  <1> HIDE DEF o
  <1>3. /\ pc = "running" /\ UpdateStatus(o, "idle", FALSE)
        /\ UNCHANGED <<cached, e, alias, saw, listed, ready, roster, ingress, edits, changes>>
    BY DEF MarkRunning, world, o
  <1>4. fresh => /\ saw = Current.size
                 /\ o.members >= Current.members /\ o.members <= roster
                 /\ o.controlPaused \in {Current.controlPaused, Current.paused}
    BY <1>2, <1>3, CopyMembers DEF SawTheSize, FreshIsCopy, CopyOf, Alike
  <1>5. /\ objs' \in Seq(Object) /\ Len(objs') \in 1 .. MaxLag + 1
        /\ objs'[1] = objs[1] /\ Current'.members <= roster
        /\ RecordsRight
        /\ faults' \in 0 .. MaxFaults
        /\ pc' = "idle"
        /\ \/ objs' = objs /\ fresh' = fresh
           \/ fresh' = FALSE
    BY <1>2, <1>3, <1>4, Updated
  <1>6. TypeOK'
    BY <1>3, <1>5 DEF TypeOK
  <1>7. CacheIsCopy' /\ AliasIsCache'
    BY <1>3, <1>5 DEF CacheIsCopy, AliasIsCache, CopyOf, Alike
  <1>8. FreshIsCopy'
    BY <1>3, <1>5 DEF FreshIsCopy, CopyOf, Alike, Current
  <1>9. SawTheSize' /\ RosterAhead'
    BY <1>3, <1>5 DEF SawTheSize, RosterAhead
  <1> QED BY <1>5, <1>6, <1>7, <1>8, <1>9

-----------------------------------------------------------------------------
(***************************************************************************)
(* Everything else that moves.                                             *)
(***************************************************************************)
\* An edit leaves the status alone, and c.etcd without the current resourceVersion.
LEMMA EditHolds ==
    ASSUME IInv, NEW o \in Object, Edit(o),
           o.phase = Current.phase, o.members = Current.members,
           o.controlPaused = Current.controlPaused
    PROVE  IInv' /\ RecordsRight
  <1> USE DEF IInv
  <1>1. /\ edits < MaxEdits /\ Len(objs) <= MaxLag /\ objs' = Append(objs, o)
        /\ edits' = edits + 1 /\ fresh' = FALSE
        /\ UNCHANGED <<cached, e, alias, pc, saw, listed, ready, roster, ingress, changes, faults>>
    BY DEF Edit
  <1>2. /\ objs' \in Seq(Object) /\ Len(objs') \in 1 .. MaxLag + 1
        /\ objs'[1] = objs[1] /\ Current' = o
    BY <1>1, Appended
  <1>3. TypeOK'
    <2>1. edits' \in 0 .. MaxEdits
      BY <1>1, StatusAssumption DEF TypeOK
    <2>2. fresh' \in BOOLEAN
      BY <1>1
    <2> QED BY <1>1, <1>2, <2>1, <2>2 DEF TypeOK
  <1>4. CacheIsCopy' /\ AliasIsCache' /\ FreshIsCopy'
    BY <1>1, <1>2 DEF CacheIsCopy, AliasIsCache, FreshIsCopy, CopyOf, Alike
  <1>5. SawTheSize' /\ RosterAhead'
    BY <1>1, <1>2 DEF SawTheSize, RosterAhead
  <1>6. RecordsRight
    BY <1>2, RosterKnown DEF RecordsRight, RunningStep, MembersStep, PauseStep
  <1> QED BY <1>3, <1>4, <1>5, <1>6

LEMMA ResizeHolds ==
    ASSUME IInv, NEW n \in 1 .. MaxSize, Resize(n)
    PROVE  IInv' /\ RecordsRight
  <1> DEFINE o == [Current EXCEPT !.size = n]
  <1>1. /\ o \in Object /\ o.phase = Current.phase /\ o.members = Current.members
        /\ o.controlPaused = Current.controlPaused
    BY CurrentIs DEF IInv, Object
  <1> QED BY <1>1, EditHolds DEF Resize

LEMMA PauseHolds ==
    ASSUME IInv, NEW b \in BOOLEAN, Pause(b)
    PROVE  IInv' /\ RecordsRight
  <1> DEFINE o == [Current EXCEPT !.paused = b]
  <1>1. /\ o \in Object /\ o.phase = Current.phase /\ o.members = Current.members
        /\ o.controlPaused = Current.controlPaused
    BY CurrentIs DEF IInv, Object
  <1> QED BY <1>1, EditHolds DEF Pause

LEMMA DeliverHolds ==
    ASSUME IInv, Deliver
    PROVE  IInv' /\ RecordsRight
  <1> USE DEF IInv
  <1>1. /\ cached' = objs[2] /\ alias' = FALSE
        /\ UNCHANGED <<e, fresh, pc, saw, listed, ready, roster, ingress, edits, changes, faults>>
    BY DEF Deliver, world
  <1>2. /\ objs' \in Seq(Object) /\ Len(objs') \in 1 .. MaxLag + 1
        /\ objs'[1] = objs[2] /\ objs[2] \in Object /\ Current' = Current
    BY Delivered
  <1>3. TypeOK'
    BY <1>1, <1>2 DEF TypeOK
  <1>4. CacheIsCopy' /\ AliasIsCache' /\ FreshIsCopy'
    BY <1>1, <1>2 DEF CacheIsCopy, AliasIsCache, FreshIsCopy, CopyOf, Alike
  <1>5. SawTheSize' /\ RosterAhead'
    BY <1>1, <1>2 DEF SawTheSize, RosterAhead
  <1> QED BY <1>2, <1>3, <1>4, <1>5, NothingRecorded

LEMMA ChangeHolds ==
    ASSUME IInv, Change
    PROVE  IInv' /\ RecordsRight
  <1> USE DEF IInv
  <1>1. /\ changes < MaxChanges /\ changes' = changes + 1
        /\ ready' \in 0 .. MaxSize /\ roster' \in {roster, roster + 1} /\ ingress' \in BOOLEAN
        /\ UNCHANGED <<objs, cached, e, alias, fresh, pc, saw, listed, edits, faults>>
    BY DEF Change, TypeOK
  <1>2. /\ Current' = Current /\ changes' \in 0 .. MaxChanges /\ roster' \in Roster
        /\ roster' <= changes' /\ roster <= roster'
    BY <1>1, RosterKnown, StatusAssumption DEF Current, Roster
  <1>3. TypeOK'
    BY <1>1, <1>2 DEF TypeOK
  <1>4. CacheIsCopy' /\ AliasIsCache' /\ FreshIsCopy' /\ SawTheSize'
    BY <1>1, <1>2 DEF CacheIsCopy, AliasIsCache, FreshIsCopy, SawTheSize, CopyOf, Alike
  <1>5. RosterAhead'
    BY <1>1, <1>2, RosterKnown DEF RosterAhead
  <1> QED BY <1>2, <1>3, <1>4, <1>5, NothingRecorded

LEMMA RestartHolds ==
    ASSUME IInv, Restart
    PROVE  IInv' /\ RecordsRight
  <1> USE DEF IInv, Restart, world
  <1>1. Current \in Object /\ faults' \in 0 .. MaxFaults
    BY CurrentIs, FaultCounted
  <1>2. /\ objs' \in Seq(Object) /\ Len(objs') \in 1 .. MaxLag + 1
        /\ objs'[1] = Current /\ Current' = Current
    BY <1>1, StatusAssumption DEF Current
  <1>3. TypeOK'
    <2>1. 0 \in Roster /\ 0 \in 0 .. MaxSize
      BY StatusAssumption DEF Roster
    <2>2. alias' \in BOOLEAN /\ fresh' \in BOOLEAN
      OBVIOUS
    <2> QED BY <1>1, <1>2, <2>1, <2>2 DEF TypeOK
  <1>4. CacheIsCopy' /\ AliasIsCache' /\ FreshIsCopy' /\ SawTheSize'
    BY <1>2 DEF CacheIsCopy, AliasIsCache, FreshIsCopy, SawTheSize, CopyOf, Alike
  <1>5. RosterAhead'
    BY <1>2, RosterKnown DEF RosterAhead
  <1> QED BY <1>2, <1>3, <1>4, <1>5, NothingRecorded

-----------------------------------------------------------------------------
(***************************************************************************)
(* The theorems.                                                           *)
(***************************************************************************)
LEMMA InitHolds ==
    ASSUME Init
    PROVE  IInv
  <1>1. e \in Object /\ e.members = 0
    <2>1. PICK n \in 1 .. MaxSize, phase \in {"Pending", "Creating"}, b \in BOOLEAN :
            e = [size |-> n, paused |-> b, phase |-> phase, controlPaused |-> FALSE,
                 members |-> 0, lb |-> FALSE]
      BY DEF Init
    <2>2. 0 \in Roster /\ phase \in Phase /\ FALSE \in BOOLEAN
      BY StatusAssumption DEF Roster, Phase
    <2> HIDE DEF Roster, Phase
    <2> QED BY <2>1, <2>2 DEF Object
  <1>2. objs = <<e>> /\ Current = e /\ objs[1] = e /\ Len(objs) = 1 /\ objs \in Seq(Object)
    BY <1>1 DEF Init, Current
  <1>3. TypeOK
    <2>1. 0 \in Roster /\ 0 \in 0 .. MaxSize /\ 1 \in 1 .. MaxLag + 1
          /\ 0 \in 0 .. MaxEdits /\ 0 \in 0 .. MaxChanges /\ 0 \in 0 .. MaxFaults
      BY StatusAssumption DEF Roster
    <2>2. alias \in BOOLEAN /\ fresh \in BOOLEAN /\ ingress \in BOOLEAN
      BY DEF Init
    <2> QED BY <1>1, <1>2, <2>1, <2>2 DEF Init, TypeOK
  <1>4. CacheIsCopy /\ AliasIsCache /\ FreshIsCopy /\ SawTheSize
    BY <1>2 DEF Init, CacheIsCopy, AliasIsCache, FreshIsCopy, SawTheSize, CopyOf, Alike
  <1>5. RosterAhead
    BY <1>1, <1>2 DEF Init, RosterAhead
  <1> QED BY <1>3, <1>4, <1>5 DEF IInv

LEMMA NextHolds ==
    ASSUME IInv, [Next]_vars
    PROVE  IInv' /\ RecordsRight
  <1>1. CASE Step
    BY <1>1, BeginHolds, MarkCreatingHolds, EnsurePausedHolds, BalancerHolds, ListHolds,
       RecordHolds, LearnerHolds, CompareHolds, MarkRunningHolds DEF Step
  <1>2. CASE StatusTick
    BY <1>2, CompareHolds DEF StatusTick
  <1>3. CASE Deliver \/ Change \/ Restart
    BY <1>3, DeliverHolds, ChangeHolds, RestartHolds
  <1>4. CASE (\E n \in 1 .. MaxSize : Resize(n)) \/ (\E b \in BOOLEAN : Pause(b))
    BY <1>4, ResizeHolds, PauseHolds
  <1>5. CASE UNCHANGED vars
    <2>1. Current' = Current
      BY <1>5 DEF vars, Current
    <2>2. IInv'
      BY <1>5, <2>1 DEF vars, world, IInv, TypeOK, CacheIsCopy, AliasIsCache, FreshIsCopy,
                        SawTheSize, RosterAhead, CopyOf, Alike
    <2> QED BY <2>1, <2>2, NothingRecorded DEF IInv
  <1> QED BY <1>1, <1>2, <1>3, <1>4, <1>5 DEF Next

\* Every copy of the EtcdCluster that the loop and its informer hold is what its version
\* was but for the pause, and the record never runs ahead of the members.
THEOREM StatusInvariance == Spec => []IInv
  <1>1. IInv /\ [Next]_vars => IInv'
    BY NextHolds
  <1> QED BY <1>1, InitHolds, PTL DEF Spec

\* Every variable has its type; no phase but the three is ever recorded.
THEOREM StatusTypes == Spec => []TypeOK
  <1>1. IInv => TypeOK
    BY DEF IInv
  <1> QED BY <1>1, StatusInvariance, PTL

\* syncStatus records "Running" only when the ready replicas it saw are as many as the
\* current spec asks for, though its c.etcd may be that of any earlier sync.
THEOREM RunsAtItsSize == Spec => RunningIsOfThisSize
  <1>1. IInv /\ [Next]_vars => [Current.phase # "Running" /\ Current'.phase = "Running"
                                    => saw = Current.size]_vars
    BY NextHolds DEF RecordsRight, RunningStep
  <1> QED BY <1>1, StatusInvariance, PTL DEF Spec, RunningIsOfThisSize

\* No status write, from whatever copy it is made, puts an older list of members over a
\* newer one.
THEOREM MembersOnlyNewer == Spec => MembersNeverOlder
  <1>1. IInv /\ [Next]_vars => [Current'.members >= Current.members]_vars
    BY NextHolds DEF RecordsRight, MembersStep
  <1> QED BY <1>1, StatusInvariance, PTL DEF Spec, MembersNeverOlder

\* When the recorded pause changes it becomes what the label says at that time, though
\* ensurePausedStatus sets it in the shared object before and without the write.
THEOREM PauseIsTheLabels == Spec => PauseRecordedRight
  <1>1. IInv /\ [Next]_vars => [Current'.controlPaused # Current.controlPaused
                                    => Current'.controlPaused = Current.paused]_vars
    BY NextHolds DEF RecordsRight, PauseStep
  <1> QED BY <1>1, StatusInvariance, PTL DEF Spec, PauseRecordedRight
=============================================================================
