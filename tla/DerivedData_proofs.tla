------------------------- MODULE DerivedData_proofs -------------------------
(* Proofs about DerivedData for any number of items, handlers, retries and    *)
(* faults, whatever the messages name: no announced change is forgotten       *)
(* without a cause, no message is multiplied, and only the holder of a lock   *)
(* works on titles.                                                           *)
EXTENDS DerivedData, RabbitConsumer, FiniteSetTheorems, TLAPS

RunSet == [pc : {"idle", "locking", "reading", "writing"}, item : Items \cup {NoItem},
           n : Retries, val : 0..MaxChanges, todo : SUBSET {1, 2}, owns : BOOLEAN]

Typed ==
  /\ src \in [Items -> 0..MaxChanges] /\ told \in [Items -> 0..MaxChanges]
  /\ changes \in 0..MaxChanges /\ \A i \in Items : told[i] <= src[i] /\ src[i] <= changes
  /\ unsent \in [Items -> Nat]
  /\ queue \in [Items -> [Retries -> Nat]]
  /\ cell = [i \in Items |-> cell[i]] /\ \A i \in Items : cell[i] \in [Cells(i) -> 0..src[i]]
  /\ lock \in [Items -> Handlers \cup {Free}] /\ run \in [Handlers -> RunSet]
  /\ lost \in [Items -> BOOLEAN] /\ regressed \in [Items -> BOOLEAN]
  /\ skipped \in [Items -> BOOLEAN] /\ expired \in BOOLEAN /\ faults \in 0..MaxFaults

\* A handler has an item while it runs, and never a version that is not there.
RunFits(q) ==
  /\ q.pc = "idle" <=> q.item = NoItem
  /\ q.owns => q.pc # "idle"
  /\ q.item \in Items => q.val <= src[q.item] /\ q.todo \subseteq Cells(q.item)

\* There are no more messages than changes, whether a message is not out yet, in
\* a queue or not acknowledged by its handler: retries and redeliveries multiply
\* none.
Messages(i) == {x \in Retries \X Nat : x[2] \in 1..queue[i][x[1]]}
Owners(i)   == {h \in Handlers : run[h].item = i /\ run[h].owns}
Carried(i)  ==
  /\ IsFiniteSet(Messages(i)) /\ IsFiniteSet(Owners(i))
  /\ unsent[i] + Cardinality(Messages(i)) + Cardinality(Owners(i)) <= changes

\* What was announced and is not derived is on its way: it is still to be read,
\* or a handler that has read it has not lost a column of it to another.
Fresh(h, i) ==
  /\ run[h].item = i /\ run[h].owns
  /\ run[h].pc = "writing" => /\ run[h].val >= told[i]
                              /\ \A k \in Cells(i) \ run[h].todo : cell[i][k] >= told[i]
Underway(i) ==
  \/ unsent[i] > 0 \/ (\E n \in Retries : queue[i][n] > 0) \/ \E h \in Handlers : Fresh(h, i)
Derived(i)  == Underway(i) \/ UpToDate(i) \/ Excused(i)

\* Whoever works on titles holds their lock.
Holding ==
  ~expired => \A h \in Handlers :
    run[h].item \in Titles /\ run[h].pc \in {"reading", "writing"} => lock[run[h].item] = h

DerivedInv ==
  /\ Typed /\ Holding /\ \A h \in Handlers : RunFits(run[h])
  /\ \A i \in Items : Carried(i) /\ Derived(i)

-----------------------------------------------------------------------------
\* One message more for i, or one less.
LEMMA OneMore ==
  ASSUME Typed, NEW i \in Items, NEW n \in Retries, queue' = [queue EXCEPT ![i][n] = @ + 1],
         IsFiniteSet(Messages(i))
  PROVE  /\ queue' \in [Items -> [Retries -> Nat]]
         /\ \A j \in Items \ {i} : queue'[j] = queue[j] /\ Messages(j)' = Messages(j)
         /\ queue'[i][n] > 0 /\ \A k \in Retries : queue'[i][k] >= queue[i][k]
         /\ IsFiniteSet(Messages(i))' /\ Cardinality(Messages(i))' = Cardinality(Messages(i)) + 1
<1>1. queue \in [Items -> [Retries -> Nat]]
  BY DEF Typed
<1>2. /\ queue' \in [Items -> [Retries -> Nat]]
      /\ \A j \in Items \ {i} : queue'[j] = queue[j]
      /\ \A k \in Retries : queue'[i][k] = IF k = n THEN queue[i][n] + 1 ELSE queue[i][k]
  BY <1>1
<1>3. \A j \in Items \ {i} : Messages(j)' = Messages(j)
  BY <1>2 DEF Messages
<1>4. PICK x : x = <<n, queue[i][n] + 1>>
  OBVIOUS
<1>5. x \notin Messages(i) /\ Messages(i)' = Messages(i) \cup {x}
  BY <1>1, <1>2, <1>4 DEF Messages
<1>6. /\ IsFiniteSet(Messages(i) \cup {x})
      /\ Cardinality(Messages(i) \cup {x}) = Cardinality(Messages(i)) + 1
  BY <1>5, FS_AddElement
<1>7. queue'[i][n] > 0 /\ \A k \in Retries : queue'[i][k] >= queue[i][k]
  BY <1>1, <1>2
<1> QED
  BY <1>2, <1>3, <1>5, <1>6, <1>7

LEMMA OneLess ==
  ASSUME Typed, NEW i \in Items, NEW n \in Retries, queue[i][n] > 0,
         queue' = [queue EXCEPT ![i][n] = @ - 1], IsFiniteSet(Messages(i))
  PROVE  /\ queue' \in [Items -> [Retries -> Nat]]
         /\ \A j \in Items \ {i} : queue'[j] = queue[j] /\ Messages(j)' = Messages(j)
         /\ IsFiniteSet(Messages(i))' /\ Cardinality(Messages(i))' = Cardinality(Messages(i)) - 1
<1>1. queue \in [Items -> [Retries -> Nat]] /\ queue[i][n] \in Nat
  BY DEF Typed
<1>2. /\ \A j \in Items \ {i} : queue'[j] = queue[j]
      /\ \A k \in Retries : queue'[i][k] = IF k = n THEN queue[i][n] - 1 ELSE queue[i][k]
  BY <1>1
<1>3. queue' \in [Items -> [Retries -> Nat]]
  <2>1. \A j \in Items, k \in Retries : queue'[j][k] \in Nat
    BY <1>1, <1>2
  <2>2. DOMAIN queue' = Items /\ \A j \in Items : queue'[j] = [k \in Retries |-> queue'[j][k]]
    BY <1>1
  <2> QED
    BY <2>1, <2>2
<1>4. \A j \in Items \ {i} : Messages(j)' = Messages(j)
  BY <1>2 DEF Messages
<1>5. PICK x : x = <<n, queue[i][n]>>
  OBVIOUS
<1>6. x \in Messages(i) /\ Messages(i)' = Messages(i) \ {x}
  <2>2. \A k \in Retries, b \in Nat :
          b \in 1..queue'[i][k] <=> b \in 1..queue[i][k] /\ ~(k = n /\ b = queue[i][n])
    <3>1. \A k \in Retries : queue[i][k] \in Nat
      BY DEF Typed
    <3> QED
      BY <1>1, <1>2, <3>1
  <2>3. \A y \in Retries \X Nat :
          y[2] \in 1..queue'[i][y[1]] <=> y[2] \in 1..queue[i][y[1]] /\ y # x
    BY <1>5, <2>2
  <2>4. Messages(i)' = Messages(i) \ {x}
    BY <2>3 DEF Messages
  <2> QED
    BY <1>1, <1>5, <2>4 DEF Messages
<1>7. /\ IsFiniteSet(Messages(i) \ {x})
      /\ Cardinality(Messages(i) \ {x}) = Cardinality(Messages(i)) - 1
  BY <1>6, FS_RemoveElement
<1> QED
  BY <1>2, <1>3, <1>4, <1>6, <1>7

\* A handler goes on to q; what it owned it keeps, gives back to the queue, or
\* has done with.
LEMMA OwnersStep ==
  ASSUME Typed, \A i \in Items : Carried(i), NEW h \in Handlers, RunFits(run[h]),
         NEW q \in RunSet, run' = [run EXCEPT ![h] = q], UNCHANGED <<src, told, changes, unsent>>,
         q.owns => run[h].owns /\ q.item = run[h].item,
         \/ UNCHANGED queue
         \/ /\ run[h].owns /\ ~q.owns
            /\ \E n \in Retries : queue' = [queue EXCEPT ![run[h].item][n] = @ + 1]
  PROVE  /\ \A i \in Items : Carried(i)'
         /\ queue' \in [Items -> [Retries -> Nat]]
<1>1. run \in [Handlers -> RunSet] /\ run' \in [Handlers -> RunSet] /\ run'[h] = q
      /\ \A g \in Handlers \ {h} : run'[g] = run[g]
  BY DEF Typed
<1>2. ASSUME NEW i \in Items
      PROVE  /\ Carried(i) /\ Cardinality(Messages(i)) \in Nat /\ Cardinality(Owners(i)) \in Nat
             /\ unsent[i] \in Nat /\ changes \in Nat
  BY FS_CardinalityType DEF Carried, Typed
<1>3. ASSUME NEW i \in Items
      PROVE  /\ IsFiniteSet(Owners(i))' /\ Cardinality(Owners(i))' \in Nat
             /\ Cardinality(Owners(i))' <= Cardinality(Owners(i))
             /\ run[h].owns /\ ~q.owns /\ run[h].item = i =>
                  Cardinality(Owners(i))' = Cardinality(Owners(i)) - 1
  <2>1. Owners(i)' = Owners(i) \/ (h \in Owners(i) /\ Owners(i)' = Owners(i) \ {h})
    BY <1>1 DEF Owners
  <2>2. run[h].owns /\ ~q.owns /\ run[h].item = i =>
          h \in Owners(i) /\ Owners(i)' = Owners(i) \ {h}
    BY <1>1 DEF Owners
  <2>3. IsFiniteSet(Owners(i))
    BY <1>2 DEF Carried
  <2>4. /\ IsFiniteSet(Owners(i) \ {h})
        /\ h \in Owners(i) => Cardinality(Owners(i) \ {h}) = Cardinality(Owners(i)) - 1
        /\ Cardinality(Owners(i) \ {h}) \in Nat
    BY <2>3, FS_RemoveElement, FS_CardinalityType
  <2>5. CASE Owners(i)' = Owners(i)
    <3>1. ~(run[h].owns /\ ~q.owns /\ run[h].item = i)
      BY <2>2, <2>5
    <3> QED
      BY <1>2, <2>3, <2>5, <3>1
  <2>6. CASE h \in Owners(i) /\ Owners(i)' = Owners(i) \ {h}
    BY <1>2, <2>4, <2>6
  <2> QED
    BY <2>1, <2>5, <2>6
<1>4. CASE UNCHANGED queue
  <2>1. ASSUME NEW i \in Items PROVE Carried(i)'
    <3>1. Messages(i)' = Messages(i) /\ unsent'[i] = unsent[i] /\ changes' = changes
      BY <1>4 DEF Messages, tables
    <3> QED
      BY <1>2, <1>3, <3>1 DEF Carried
  <2> QED
    BY <1>4, <2>1 DEF Typed
<1>5. ASSUME run[h].owns, ~q.owns, NEW n \in Retries,
             queue' = [queue EXCEPT ![run[h].item][n] = @ + 1]
      PROVE  (\A i \in Items : Carried(i)') /\ queue' \in [Items -> [Retries -> Nat]]
  <2>1. PICK m \in Items : m = run[h].item
    BY <1>1, <1>5 DEF RunFits, RunSet
  <2>2. IsFiniteSet(Messages(m))
    BY <1>2 DEF Carried
  <2>3. /\ queue' \in [Items -> [Retries -> Nat]]
        /\ \A j \in Items \ {m} : queue'[j] = queue[j] /\ Messages(j)' = Messages(j)
        /\ IsFiniteSet(Messages(m))' /\ Cardinality(Messages(m))' = Cardinality(Messages(m)) + 1
    BY <1>5, <2>1, <2>2, OneMore
  <2>4. Carried(m)'
    BY <1>2, <1>3, <1>5, <2>1, <2>3 DEF Carried
  <2>5. ASSUME NEW i \in Items \ {m} PROVE Carried(i)'
    BY <1>2, <1>3, <2>3 DEF Carried
  <2> QED
    BY <2>3, <2>4, <2>5
<1> QED
  BY <1>4, <1>5

\* An item of which nothing changes.
LEMMA Untouched ==
  ASSUME NEW i \in Items, Derived(i), told'[i] = told[i], unsent'[i] = unsent[i],
         cell'[i] = cell[i], lost'[i] = lost[i], regressed'[i] = regressed[i],
         skipped'[i] = skipped[i],
         \A n \in Retries : queue[i][n] > 0 => queue'[i][n] > 0,
         \A h \in Handlers : Fresh(h, i) => Fresh(h, i)'
  PROVE  Derived(i)'
BY DEF Derived, Underway, UpToDate, Excused

LEMMA IdleTyped == Idle \in RunSet /\ Idle.pc = "idle" /\ Idle.item = NoItem /\ ~Idle.owns
BY DerivedAssumption DEF Idle, RunSet, Retries

-----------------------------------------------------------------------------
\* The publishers: a change, and the message that goes out or does not.
LEMMA PublisherStep ==
  ASSUME DerivedInv, NEW i \in Items,
         \/ \E m \in Named[i] : Change(i, m)
         \/ PublishUpdate(i) \/ LosePublish(i)
  PROVE  DerivedInv'
<1>1. /\ Typed /\ Holding /\ \A h \in Handlers : RunFits(run[h])
      /\ \A j \in Items : Carried(j) /\ Derived(j)
  BY DEF DerivedInv
<1>2. UNCHANGED <<cell, lock, run, regressed, skipped, expired>>
  BY DEF Change, PublishUpdate, LosePublish, hist, tables
<1>3. Holding'
  BY <1>1, <1>2 DEF Holding
<1>4. \A j \in Items : Owners(j)' = Owners(j)
  BY <1>2 DEF Owners
<1>5. ASSUME NEW j \in Items
      PROVE  /\ Carried(j) /\ Cardinality(Messages(j)) \in Nat /\ Cardinality(Owners(j)) \in Nat
             /\ unsent[j] \in Nat /\ src[j] \in Nat /\ told[j] \in Nat /\ changes \in Nat
             /\ told[j] <= src[j] /\ src[j] <= changes
  BY <1>1, FS_CardinalityType DEF Carried, Typed
<1>6. ASSUME NEW m \in Named[i], Change(i, m) PROVE DerivedInv'
  <2>1. /\ changes < MaxChanges /\ changes' = changes + 1 /\ src' = [src EXCEPT ![i] = @ + 1]
        /\ told' = IF m = i THEN [told EXCEPT ![i] = src[i] + 1] ELSE told
        /\ unsent' = [j \in Items |-> IF j = m THEN unsent[j] + 1 ELSE unsent[j]]
        /\ UNCHANGED <<queue, lost, faults>>
    BY <1>6 DEF Change, hist, tables
  <2>2. /\ src'[i] = src[i] + 1 /\ \A j \in Items \ {i} : src'[j] = src[j] /\ told'[j] = told[j]
        /\ told'[i] = IF m = i THEN src[i] + 1 ELSE told[i]
        /\ \A j \in Items : unsent'[j] = IF j = m THEN unsent[j] + 1 ELSE unsent[j]
        /\ changes' \in 0..MaxChanges
    BY <1>1, <2>1, DerivedAssumption DEF Typed
  <2>3. \A j \in Items : /\ src'[j] \in 0..MaxChanges /\ told'[j] \in 0..MaxChanges
                        /\ told'[j] <= src'[j] /\ src'[j] <= changes' /\ src[j] <= src'[j]
                        /\ unsent'[j] \in Nat /\ unsent'[j] <= unsent[j] + 1
                        /\ unsent[j] <= unsent'[j]
    BY <1>1, <1>5, <2>1, <2>2, DerivedAssumption DEF Typed
  <2>4. Typed'
    <3>1. src' \in [Items -> 0..MaxChanges]
      BY <1>1, <2>1, <2>3 DEF Typed
    <3>2. told' \in [Items -> 0..MaxChanges]
      BY <1>1, <2>1, <2>3 DEF Typed
    <3>3. unsent' \in [Items -> Nat]
      BY <2>1, <2>3
    <3>4. \A j \in Items : cell[j] \in [Cells(j) -> 0..src'[j]]
      <4>1. \A j \in Items : src[j] \in Nat /\ src'[j] \in Nat /\ src[j] <= src'[j]
        BY <1>5, <2>2
      <4> QED
        BY <1>1, <4>1 DEF Typed
    <3> QED
      BY <1>1, <1>2, <2>1, <2>2, <2>3, <3>1, <3>2, <3>3, <3>4 DEF Typed
  <2>5. ASSUME NEW h \in Handlers PROVE RunFits(run[h])'
    <3>1. run[h].val \in Nat
      BY <1>1 DEF Typed, RunSet
    <3>2. run[h].item \in Items => run[h].val <= src'[run[h].item]
      BY <1>1, <1>5, <2>2, <3>1 DEF RunFits
    <3> QED
      BY <1>1, <1>2, <3>2 DEF RunFits
  <2>6. ASSUME NEW j \in Items PROVE Carried(j)' /\ Derived(j)'
    <3>1. Messages(j)' = Messages(j)
      BY <2>1 DEF Messages
    <3>2. Carried(j)'
      BY <1>4, <1>5, <2>1, <2>3, <3>1 DEF Carried
    <3>3. CASE j = m
      BY <1>5, <2>2, <3>2, <3>3 DEF Derived, Underway
    <3>4. CASE j # m
      <4>1. told'[j] = told[j] /\ unsent'[j] = unsent[j]
        BY <2>2, <3>4
      <4>2. \A h \in Handlers : Fresh(h, j) => Fresh(h, j)'
        BY <1>2, <4>1 DEF Fresh
      <4> QED
        BY <1>1, <1>2, <2>1, <3>2, <4>1, <4>2, Untouched
    <3> QED
      BY <3>2, <3>3, <3>4
  <2> QED
    BY <1>3, <2>4, <2>5, <2>6 DEF DerivedInv
<1>7. CASE PublishUpdate(i) \/ LosePublish(i)
  <2>1. /\ unsent[i] > 0 /\ unsent' = [unsent EXCEPT ![i] = @ - 1]
        /\ UNCHANGED <<src, told, changes>>
    BY <1>7 DEF PublishUpdate, LosePublish, tables
  <2>2. /\ unsent'[i] = unsent[i] - 1 /\ unsent' \in [Items -> Nat]
        /\ \A j \in Items \ {i} : unsent'[j] = unsent[j]
    <3>1. /\ unsent'[i] = unsent[i] - 1 /\ \A j \in Items \ {i} : unsent'[j] = unsent[j]
          /\ unsent[i] - 1 \in Nat
      BY <1>1, <1>5, <2>1 DEF Typed
    <3> QED
      BY <1>1, <2>1, <3>1 DEF Typed
  <2>3. \A h \in Handlers : RunFits(run[h])'
    BY <1>1, <1>2, <2>1 DEF RunFits
  <2>4. \A h \in Handlers, j \in Items : Fresh(h, j) => Fresh(h, j)'
    BY <1>2, <2>1 DEF Fresh
  <2>5. CASE PublishUpdate(i)
    <3>1. queue' = [queue EXCEPT ![i][0] = @ + 1] /\ UNCHANGED <<lost, faults>>
      BY <2>5 DEF PublishUpdate, hist, tables
    <3>2. 0 \in Retries /\ IsFiniteSet(Messages(i))
      BY <1>5, DerivedAssumption DEF Retries, Carried
    <3>3. /\ queue' \in [Items -> [Retries -> Nat]]
          /\ \A j \in Items \ {i} : queue'[j] = queue[j] /\ Messages(j)' = Messages(j)
          /\ queue'[i][0] > 0
          /\ IsFiniteSet(Messages(i))' /\ Cardinality(Messages(i))' = Cardinality(Messages(i)) + 1
      BY <1>1, <3>1, <3>2, OneMore
    <3>4. Typed'
      BY <1>1, <1>2, <2>1, <2>2, <3>1, <3>3 DEF Typed
    <3>5. Carried(i)' /\ Derived(i)'
      BY <1>4, <1>5, <2>1, <2>2, <3>2, <3>3 DEF Carried, Derived, Underway
    <3>6. ASSUME NEW j \in Items \ {i} PROVE Carried(j)' /\ Derived(j)'
      <4>1. Carried(j)'
        BY <1>4, <1>5, <2>1, <2>2, <3>3 DEF Carried
      <4> QED
        BY <1>1, <1>2, <2>1, <2>2, <2>4, <3>1, <3>3, <4>1, Untouched
    <3> QED
      BY <1>3, <2>3, <3>4, <3>5, <3>6 DEF DerivedInv
  <2>6. CASE LosePublish(i)
    <3>1. /\ lost' = [lost EXCEPT ![i] = @ \/ ~UpToDate(i)] /\ UNCHANGED queue
          /\ faults < MaxFaults /\ faults' = faults + 1
      BY <2>6 DEF LosePublish
    <3>2. Typed'
      <4>1. lost' \in [Items -> BOOLEAN]
        BY <1>1, <3>1 DEF Typed
      <4>2. faults' \in 0..MaxFaults
        BY <1>1, <3>1, DerivedAssumption DEF Typed
      <4> QED
        BY <1>1, <1>2, <2>1, <2>2, <3>1, <4>1, <4>2 DEF Typed
    <3>3. ASSUME NEW j \in Items PROVE Carried(j)' /\ Derived(j)'
      <4>1. Messages(j)' = Messages(j)
        BY <3>1 DEF Messages
      <4>2. Carried(j)'
        BY <1>4, <1>5, <2>1, <2>2, <4>1 DEF Carried
      <4>3. CASE j = i
        <5>1. lost'[i] \/ UpToDate(i)
          BY <1>1, <3>1 DEF Typed
        <5>2. UpToDate(i) => UpToDate(i)'
          BY <1>2, <2>1 DEF UpToDate
        <5> QED
          BY <4>2, <4>3, <5>1, <5>2 DEF Derived, Excused
      <4>4. CASE j # i
        <5>1. lost'[j] = lost[j]
          BY <1>1, <3>1, <4>4 DEF Typed
        <5> QED
          BY <1>1, <1>2, <2>1, <2>2, <2>4, <3>1, <4>2, <4>4, <5>1, Untouched
      <4> QED
        BY <4>2, <4>3, <4>4
    <3> QED
      BY <1>3, <2>3, <3>2, <3>3 DEF DerivedInv
  <2> QED
    BY <1>7, <2>5, <2>6
<1> QED
  BY <1>6, <1>7

\* The lock expires under its holder, or after the holder has gone.
LEMMA ExpiryStep ==
  ASSUME DerivedInv, NEW i \in Items, LockExpires(i)
  PROVE  DerivedInv'
<1>1. /\ Typed /\ Holding /\ \A h \in Handlers : RunFits(run[h])
      /\ \A j \in Items : Carried(j) /\ Derived(j)
  BY DEF DerivedInv
<1>2. /\ lock[i] # Free /\ lock' = [lock EXCEPT ![i] = Free]
      /\ UNCHANGED <<src, told, changes, unsent, queue, cell, run, lost, regressed, skipped>>
      /\ IF run[lock[i]].item = i /\ run[lock[i]].pc # "locking"
         THEN faults < MaxFaults /\ faults' = faults + 1 /\ expired' = TRUE
         ELSE UNCHANGED <<expired, faults>>
  BY DEF LockExpires, hist, tables
<1>3. Typed'
  <2>1. faults' \in 0..MaxFaults
    BY <1>1, <1>2, DerivedAssumption DEF Typed
  <2>2. expired' \in BOOLEAN
    BY <1>1, <1>2 DEF Typed
  <2> QED
    BY <1>1, <1>2, <2>1, <2>2 DEF Typed
<1>4. Holding'
  <2> SUFFICES ASSUME ~expired', NEW h \in Handlers, run[h].item \in Titles,
                      run[h].pc \in {"reading", "writing"}
               PROVE  lock'[run[h].item] = h
    BY <1>2 DEF Holding
  <2>1. lock[run[h].item] = h /\ ~expired
    BY <1>1, <1>2 DEF Holding
  <2>2. run[h].item # i
    BY <1>2, <2>1
  <2> QED
    BY <1>1, <1>2, <2>1, <2>2, DerivedAssumption DEF Typed
<1>5. ASSUME NEW j \in Items PROVE Carried(j)' /\ Derived(j)'
  <2>1. Messages(j)' = Messages(j) /\ Owners(j)' = Owners(j)
    BY <1>2 DEF Messages, Owners
  <2> QED
    BY <1>1, <1>2, <2>1 DEF Carried, Derived, Underway, Fresh, UpToDate, Excused
<1>6. \A h \in Handlers : RunFits(run[h])'
  BY <1>1, <1>2 DEF RunFits
<1> QED
  BY <1>3, <1>4, <1>5, <1>6 DEF DerivedInv

LEMMA DeliverStep ==
  ASSUME DerivedInv, NEW h \in Handlers, Deliver(h)
  PROVE  DerivedInv'
<1>1. /\ Typed /\ Holding /\ \A g \in Handlers : RunFits(run[g])
      /\ \A j \in Items : Carried(j) /\ Derived(j)
  BY DEF DerivedInv
<1>2. PICK i \in Items, n \in Retries :
        /\ queue[i][n] > 0 /\ queue' = [queue EXCEPT ![i][n] = @ - 1]
        /\ run' = [run EXCEPT ![h] =
                    [Idle EXCEPT !.pc = IF i \in Titles THEN "locking" ELSE "reading",
                                 !.item = i, !.n = n, !.owns = TRUE]]
  BY DEF Deliver
<1>3. run[h].pc = "idle" /\ UNCHANGED <<src, told, changes, unsent, cell, lock, lost, regressed, skipped, expired, faults>>
  BY DEF Deliver, hist, tables
<1>4. PICK q : q = [Idle EXCEPT !.pc = IF i \in Titles THEN "locking" ELSE "reading",
                                !.item = i, !.n = n, !.owns = TRUE]
  OBVIOUS
<1>5. /\ q \in RunSet /\ q.item = i /\ q.owns /\ q.pc = IF i \in Titles THEN "locking" ELSE "reading"
      /\ q.val = 0 /\ q.todo = {}
  <2>1. Idle.val = 0 /\ Idle.todo = {}
    BY DEF Idle
  <2>2. (IF i \in Titles THEN "locking" ELSE "reading") \in {"locking", "reading"}
    OBVIOUS
  <2>3. i \in Items \cup {NoItem}
    OBVIOUS
  <2> HIDE DEF Idle
  <2> QED
    BY <1>4, <2>1, <2>2, <2>3, IdleTyped DEF RunSet
<1>6. /\ run \in [Handlers -> RunSet] /\ run' \in [Handlers -> RunSet] /\ run'[h] = q
      /\ \A g \in Handlers \ {h} : run'[g] = run[g]
  BY <1>1, <1>2, <1>4, <1>5 DEF Typed
<1>7. ASSUME NEW j \in Items
      PROVE  /\ Carried(j) /\ Cardinality(Messages(j)) \in Nat /\ Cardinality(Owners(j)) \in Nat
             /\ unsent[j] \in Nat /\ src[j] \in Nat
  BY <1>1, FS_CardinalityType DEF Carried, Typed
<1>8. /\ queue' \in [Items -> [Retries -> Nat]]
      /\ \A j \in Items \ {i} : queue'[j] = queue[j] /\ Messages(j)' = Messages(j)
      /\ IsFiniteSet(Messages(i))' /\ Cardinality(Messages(i))' = Cardinality(Messages(i)) - 1
  BY <1>1, <1>2, <1>7, OneLess DEF Carried
<1>9. /\ h \notin Owners(i) /\ Owners(i)' = Owners(i) \cup {h}
      /\ \A j \in Items \ {i} : Owners(j)' = Owners(j)
  BY <1>1, <1>3, <1>5, <1>6 DEF Owners, RunFits
<1>10. Typed'
  BY <1>1, <1>3, <1>6, <1>8 DEF Typed
<1>11. Carried(i)'
  <2>1. IsFiniteSet(Owners(i))' /\ Cardinality(Owners(i))' = Cardinality(Owners(i)) + 1
    BY <1>7, <1>9, FS_AddElement DEF Carried
  <2> QED
    BY <1>3, <1>7, <1>8, <2>1 DEF Carried
<1>12. Derived(i)'
  BY <1>5, <1>6 DEF Derived, Underway, Fresh
<1>13. ASSUME NEW j \in Items \ {i} PROVE Carried(j)' /\ Derived(j)'
  <2>1. Carried(j)'
    BY <1>3, <1>7, <1>8, <1>9 DEF Carried
  <2>2. \A g \in Handlers : Fresh(g, j) => Fresh(g, j)'
    BY <1>1, <1>3, <1>6 DEF Fresh, RunFits
  <2> QED
    BY <1>1, <1>3, <1>8, <2>1, <2>2, Untouched
<1>14. \A g \in Handlers : RunFits(run[g])'
  BY <1>1, <1>3, <1>5, <1>6, <1>7, DerivedAssumption DEF RunFits
<1>15. Holding'
  BY <1>1, <1>3, <1>5, <1>6 DEF Holding
<1> QED
  BY <1>10, <1>11, <1>12, <1>13, <1>14, <1>15 DEF DerivedInv

\* A handler that goes on, or stops: everything but what becomes of the item
\* it works on.
LEMMA HandlerStep ==
  ASSUME DerivedInv, NEW h \in Handlers, NEW m \in Items, m = run[h].item, NEW q \in RunSet,
         run' = [run EXCEPT ![h] = q], RunFits(q), UNCHANGED <<src, told, changes, unsent>>,
         q.owns => run[h].owns, q.item \in {m, NoItem},
         \/ UNCHANGED queue
         \/ /\ run[h].owns /\ ~q.owns
            /\ \E n \in Retries : queue' = [queue EXCEPT ![m][n] = @ + 1],
         cell' = [i \in Items |-> cell'[i]], \A i \in Items : cell'[i] \in [Cells(i) -> 0..src[i]],
         lock' \in [Items -> Handlers \cup {Free}],
         lost' \in [Items -> BOOLEAN], regressed' \in [Items -> BOOLEAN],
         skipped' \in [Items -> BOOLEAN], expired' \in BOOLEAN, faults' \in 0..MaxFaults,
         \A i \in Items \ {m} : /\ cell'[i] = cell[i] /\ lost'[i] = lost[i]
                                /\ regressed'[i] = regressed[i]
                                /\ skipped'[i] = skipped[i],
         Derived(m)',
         Holding'
  PROVE  DerivedInv'
<1>1. /\ Typed /\ \A g \in Handlers : RunFits(run[g])
      /\ \A j \in Items : Carried(j) /\ Derived(j)
  BY DEF DerivedInv
<1>2. run' \in [Handlers -> RunSet] /\ run'[h] = q /\ \A g \in Handlers \ {h} : run'[g] = run[g]
  BY <1>1 DEF Typed
<1>3. q.owns => q.item = run[h].item
  BY DerivedAssumption DEF RunFits
<1>4. (\A i \in Items : Carried(i)') /\ queue' \in [Items -> [Retries -> Nat]]
  BY <1>1, <1>3, OwnersStep
<1>5. Typed'
  BY <1>1, <1>2, <1>4 DEF Typed
<1>6. \A g \in Handlers : RunFits(run[g])'
  BY <1>1, <1>2 DEF RunFits
<1>7. ASSUME NEW i \in Items \ {m} PROVE Derived(i)'
  <2>1. \A g \in Handlers : Fresh(g, i) => Fresh(g, i)'
    BY <1>2 DEF Fresh
  <2>2. queue'[i] = queue[i]
    BY <1>1 DEF Typed
  <2> QED
    BY <1>1, <2>1, <2>2, Untouched
<1>8. \A i \in Items : Derived(i)'
  BY <1>7
<1> QED
  BY <1>4, <1>5, <1>6, <1>8 DEF DerivedInv

\* What a step that writes nothing leaves of an item: h alone has changed.
LEMMA StillDerived ==
  ASSUME Typed, NEW i \in Items, Derived(i), NEW h \in Handlers, NEW q, run' = [run EXCEPT ![h] = q],
         UNCHANGED <<src, told, changes, unsent>>, cell'[i] = cell[i], regressed'[i] = regressed[i],
         lost[i] => lost'[i], skipped[i] => skipped'[i],
         \A n \in Retries : queue[i][n] > 0 => queue'[i][n] > 0,
         Fresh(h, i) => Underway(i)' \/ UpToDate(i)' \/ Excused(i)'
  PROVE  Derived(i)'
<1>1. \A g \in Handlers \ {h} : run'[g] = run[g]
  BY DEF Typed
<1>2. CASE \E g \in Handlers \ {h} : Fresh(g, i)
  BY <1>1, <1>2 DEF Derived, Underway, Fresh
<1>3. CASE Fresh(h, i)
  BY <1>3 DEF Derived
<1>4. CASE UpToDate(i) \/ Excused(i)
  BY <1>4 DEF Derived, UpToDate, Excused
<1>5. CASE unsent[i] > 0 \/ \E n \in Retries : queue[i][n] > 0
  BY <1>5 DEF Derived, Underway
<1> QED
  BY <1>2, <1>3, <1>4, <1>5 DEF Derived, Underway

\* What the steps of a running handler start from.
LEMMA Running ==
  ASSUME DerivedInv, NEW h \in Handlers, run[h].pc # "idle"
  PROVE  /\ Typed /\ Holding /\ RunFits(run[h]) /\ run[h] \in RunSet /\ run[h].item \in Items
         /\ \A j \in Items : Derived(j)
<1>1. RunFits(run[h]) /\ run[h] \in RunSet
  BY DEF DerivedInv, Typed
<1> QED
  BY <1>1 DEF DerivedInv, RunFits, RunSet

LEMMA LockStep ==
  ASSUME DerivedInv, NEW h \in Handlers, Acquire(h) \/ Skip(h)
  PROVE  DerivedInv'
<1>1. run[h].pc = "locking" /\ UNCHANGED <<src, told, changes, unsent, queue, cell, lost, regressed, expired, faults>>
  BY DEF Acquire, Skip, hist, tables
<1>2. /\ Typed /\ Holding /\ RunFits(run[h]) /\ run[h] \in RunSet /\ run[h].item \in Items
      /\ \A j \in Items : Derived(j)
  BY <1>1, Running
<1>3. PICK m \in Items : m = run[h].item
  BY <1>2
<1>4. CASE Acquire(h)
  <2>1. /\ lock[m] = Free /\ lock' = [lock EXCEPT ![m] = h] /\ UNCHANGED skipped
        /\ run' = [run EXCEPT ![h].pc = "reading"]
    BY <1>3, <1>4 DEF Acquire, hist, tables
  <2>2. PICK q : q = [run[h] EXCEPT !.pc = "reading"]
    OBVIOUS
  <2>3. run' = [run EXCEPT ![h] = q]
    BY <2>1, <2>2
  <2>4. /\ q \in RunSet /\ q.pc = "reading" /\ q.item = m /\ q.owns = run[h].owns
        /\ q.val = run[h].val /\ q.todo = run[h].todo
    BY <1>2, <1>3, <2>2 DEF RunSet
  <2>5. RunFits(q)
    BY <1>1, <1>2, <1>3, <2>4, DerivedAssumption DEF RunFits
  <2>6. Fresh(h, m)' <=> run[h].owns
    BY <1>2, <2>3, <2>4 DEF Fresh, Typed
  <2>7. Derived(m)'
    <3>1. Fresh(h, m) => Underway(m)'
      BY <2>6 DEF Fresh, Underway
    <3> QED
      BY <1>1, <1>2, <2>1, <2>3, <3>1, StillDerived
  <2>8. lock' \in [Items -> Handlers \cup {Free}]
    BY <1>2, <2>1 DEF Typed
  <2>9. Holding'
    <3> SUFFICES ASSUME ~expired, NEW g \in Handlers, run'[g].item \in Titles,
                        run'[g].pc \in {"reading", "writing"}
                 PROVE  lock'[run'[g].item] = g
      BY <1>1 DEF Holding
    <3>1. CASE g = h
      BY <1>2, <2>1, <2>3, <2>4, <3>1 DEF Typed
    <3>2. CASE g # h
      <4>1. run'[g] = run[g] /\ lock[run[g].item] = g
        BY <1>2, <2>3, <3>2 DEF Typed, Holding
      <4>2. run[g].item # m
        BY <2>1, <4>1, DerivedAssumption
      <4> QED
        BY <1>2, <2>1, <4>1, <4>2, DerivedAssumption DEF Typed
    <3> QED
      BY <3>1, <3>2
  <2> QED
    BY <1>1, <1>2, <1>3, <2>1, <2>3, <2>4, <2>5, <2>7, <2>8, <2>9, HandlerStep DEF Typed
<1>5. CASE Skip(h)
  <2>1. /\ skipped' = [skipped EXCEPT ![m] = @ \/ ~UpToDate(m)] /\ UNCHANGED lock
        /\ run' = [run EXCEPT ![h] = Idle]
    BY <1>3, <1>5 DEF Skip
  <2>2. /\ skipped' \in [Items -> BOOLEAN] /\ (skipped'[m] \/ UpToDate(m))
        /\ \A i \in Items \ {m} : skipped'[i] = skipped[i]
    BY <1>2, <2>1 DEF Typed
  <2>3. Derived(m)'
    BY <1>1, <2>2 DEF Derived, Excused, UpToDate
  <2>4. RunFits(Idle)
    BY IdleTyped, DerivedAssumption DEF RunFits
  <2>5. Holding'
    BY <1>1, <1>2, <2>1, IdleTyped DEF Holding, Typed
  <2> QED
    <3>1. /\ cell' = [i \in Items |-> cell'[i]] /\ \A i \in Items : cell'[i] \in [Cells(i) -> 0..src[i]]
          /\ lock' \in [Items -> Handlers \cup {Free}] /\ lost' \in [Items -> BOOLEAN]
          /\ regressed' \in [Items -> BOOLEAN] /\ expired' \in BOOLEAN /\ faults' \in 0..MaxFaults
      BY <1>1, <1>2, <2>1 DEF Typed
    <3> QED
      BY <1>1, <1>3, <2>1, <2>2, <2>3, <2>4, <2>5, <3>1, IdleTyped, HandlerStep
<1> QED
  BY <1>4, <1>5

LEMMA ReadStep ==
  ASSUME DerivedInv, NEW h \in Handlers, Read(h)
  PROVE  DerivedInv'
<1>1. /\ run[h].pc = "reading"
      /\ UNCHANGED <<src, told, changes, unsent, queue, cell, lock, lost, regressed, skipped, expired, faults>>
  BY DEF Read, hist, tables
<1>2. /\ Typed /\ Holding /\ RunFits(run[h]) /\ run[h] \in RunSet /\ run[h].item \in Items
      /\ \A j \in Items : Derived(j)
  BY <1>1, Running
<1>3. PICK m \in Items : m = run[h].item
  BY <1>2
<1>4. run' = [run EXCEPT ![h].pc = "writing", ![h].val = src[m], ![h].todo = Cells(m)]
  BY <1>3 DEF Read
<1>5. PICK q : q = [run[h] EXCEPT !.pc = "writing", !.val = src[m], !.todo = Cells(m)]
  OBVIOUS
<1>6. run' = [run EXCEPT ![h] = q]
  BY <1>2, <1>4, <1>5 DEF Typed, RunSet
<1>7. src[m] \in 0..MaxChanges /\ Cells(m) \in SUBSET {1, 2}
  BY <1>2 DEF Typed, Cells
<1>8. /\ q \in RunSet /\ q.pc = "writing" /\ q.item = m /\ q.owns = run[h].owns
      /\ q.val = src[m] /\ q.todo = Cells(m)
  BY <1>2, <1>3, <1>5, <1>7 DEF RunSet
<1>9. RunFits(q)
  BY <1>1, <1>2, <1>3, <1>7, <1>8, DerivedAssumption DEF RunFits
<1>10. Derived(m)'
  <2>1. Fresh(h, m) => Fresh(h, m)'
    BY <1>1, <1>2, <1>6, <1>8 DEF Fresh, Typed
  <2> QED
    BY <1>1, <1>2, <1>6, <2>1, StillDerived DEF Underway
<1>11. Holding'
  BY <1>1, <1>2, <1>3, <1>6, <1>8 DEF Holding, Typed
<1> QED
  BY <1>1, <1>2, <1>3, <1>6, <1>8, <1>9, <1>10, <1>11, HandlerStep DEF Typed

LEMMA WriteStep ==
  ASSUME DerivedInv, NEW h \in Handlers, Write(h)
  PROVE  DerivedInv'
<1>1. /\ run[h].pc = "writing" /\ run[h].todo # {}
      /\ UNCHANGED <<src, told, changes, unsent, queue, lock, expired, faults>>
  BY DEF Write, tables
<1>2. /\ Typed /\ Holding /\ RunFits(run[h]) /\ run[h] \in RunSet /\ run[h].item \in Items
      /\ \A j \in Items : Derived(j)
  BY <1>1, Running
<1>3. PICK m \in Items : m = run[h].item
  BY <1>2
<1>4. PICK k : k = CHOOSE c \in run[h].todo : \A d \in run[h].todo : c <= d
  OBVIOUS
<1>5. k \in run[h].todo /\ k \in Cells(m)
  <2>1. run[h].todo \subseteq {1, 2} /\ run[h].todo \subseteq Cells(m)
    BY <1>2, <1>3 DEF RunSet, RunFits
  <2>2. \E c \in run[h].todo : \A d \in run[h].todo : c <= d
    BY <1>1, <2>1
  <2> QED
    BY <1>4, <2>1, <2>2
<1>6. PICK v : v = run[h].val
  OBVIOUS
<1>7. PICK good : good = (\A c \in Cells(m) : cell'[m][c] >= told[m])
  OBVIOUS
<1>8. /\ cell' = [cell EXCEPT ![m][k] = v]
      /\ run' = [run EXCEPT ![h].todo = @ \ {k}]
      /\ regressed' = [regressed EXCEPT ![m] = ~good /\ (@ \/ v < cell[m][k])]
      /\ lost' = [lost EXCEPT ![m] = @ /\ ~good]
      /\ skipped' = [skipped EXCEPT ![m] = @ /\ ~good]
  BY <1>3, <1>4, <1>6, <1>7 DEF Write
<1>9. v \in Nat /\ src[m] \in Nat /\ v <= src[m] /\ told[m] \in Nat
  BY <1>2, <1>3, <1>6 DEF RunFits, RunSet, Typed
<1>10. /\ cell' = [i \in Items |-> cell'[i]] /\ \A i \in Items \ {m} : cell'[i] = cell[i]
       /\ cell'[m] \in [Cells(m) -> 0..src[m]]
       /\ \A c \in Cells(m) : cell'[m][c] = IF c = k THEN v ELSE cell[m][c]
  <2>1. cell = [i \in Items |-> cell[i]] /\ cell[m] \in [Cells(m) -> 0..src[m]]
    BY <1>2 DEF Typed
  <2>2. cell' = [i \in Items |-> IF i = m THEN [cell[m] EXCEPT ![k] = v] ELSE cell[i]]
    BY <1>8, <2>1
  <2>3. v \in 0..src[m]
    BY <1>9
  <2>4. cell'[m] = [cell[m] EXCEPT ![k] = v]
    BY <2>2
  <2>5. /\ cell'[m] \in [Cells(m) -> 0..src[m]]
        /\ \A c \in Cells(m) : cell'[m][c] = IF c = k THEN v ELSE cell[m][c]
    BY <1>5, <2>1, <2>3, <2>4
  <2> QED
    BY <2>2, <2>5
<1>11. PICK q : q = [run[h] EXCEPT !.todo = @ \ {k}]
  OBVIOUS
<1>12. run' = [run EXCEPT ![h] = q]
  BY <1>2, <1>8, <1>11 DEF Typed
<1>13. /\ q \in RunSet /\ q.pc = "writing" /\ q.item = m /\ q.owns = run[h].owns
       /\ q.val = v /\ q.todo = run[h].todo \ {k}
  BY <1>1, <1>2, <1>3, <1>6, <1>11 DEF RunSet
<1>14. RunFits(q)
  BY <1>1, <1>2, <1>3, <1>6, <1>13 DEF RunFits
<1>15. /\ lost' \in [Items -> BOOLEAN] /\ regressed' \in [Items -> BOOLEAN]
       /\ skipped' \in [Items -> BOOLEAN]
       /\ \A i \in Items \ {m} : /\ lost'[i] = lost[i] /\ regressed'[i] = regressed[i]
                                 /\ skipped'[i] = skipped[i]
  BY <1>2, <1>7, <1>8 DEF Typed
<1>16. ~good => /\ regressed'[m] <=> regressed[m] \/ v < cell[m][k]
                /\ lost'[m] = lost[m] /\ skipped'[m] = skipped[m]
  BY <1>2, <1>7, <1>8 DEF Typed
<1>17. cell[m][k] \in Nat
  BY <1>2, <1>5 DEF Typed
<1>18. Derived(m)'
  <2>1. CASE good
    BY <1>1, <1>7, <2>1 DEF Derived, UpToDate
  <2>2. CASE ~good /\ Excused(m)
    BY <1>16, <2>2 DEF Derived, Excused
  <2>3. CASE unsent[m] > 0 \/ \E n \in Retries : queue[m][n] > 0
    BY <1>1, <2>3 DEF Derived, Underway
  <2>4. CASE ~good /\ UpToDate(m)
    <3>1. cell[m][k] >= told[m] /\ ~(v >= told[m])
      BY <1>5, <1>7, <1>10, <2>4 DEF UpToDate
    <3>2. v < cell[m][k]
      BY <1>9, <1>17, <3>1
    <3> QED
      BY <1>16, <2>4, <3>2 DEF Derived, Excused
  <2>5. ASSUME ~good, NEW g \in Handlers, Fresh(g, m) PROVE Derived(m)'
    <3>1. CASE g = h
      <4>1. v >= told[m] /\ \A c \in Cells(m) \ run[h].todo : cell[m][c] >= told[m]
        BY <1>1, <1>6, <2>5, <3>1 DEF Fresh
      <4>2. \A c \in Cells(m) \ q.todo : cell'[m][c] >= told[m]
        BY <1>10, <1>13, <4>1
      <4>3. run'[h] = q
        BY <1>2, <1>12 DEF Typed
      <4>4. Fresh(h, m)'
        BY <1>1, <1>13, <2>5, <3>1, <4>1, <4>2, <4>3 DEF Fresh
      <4> QED
        BY <4>4 DEF Derived, Underway
    <3>2. CASE g # h /\ v < cell[m][k]
      BY <1>16, <2>5, <3>2 DEF Derived, Excused
    <3>3. CASE g # h /\ ~(v < cell[m][k])
      <4>1. run'[g] = run[g]
        BY <1>2, <1>12, <3>3 DEF Typed
      <4>2. run[g].pc = "writing" => \A c \in Cells(m) \ run[g].todo : cell'[m][c] >= told[m]
        <5> SUFFICES ASSUME run[g].pc = "writing", NEW c \in Cells(m) \ run[g].todo
                     PROVE  cell'[m][c] >= told[m]
          OBVIOUS
        <5>1. cell[m][c] >= told[m]
          BY <2>5 DEF Fresh
        <5>2. c = k => v >= told[m]
          BY <1>9, <1>17, <3>3, <5>1
        <5> QED
          BY <1>10, <5>1, <5>2
      <4>3. Fresh(g, m)'
        BY <1>1, <2>5, <4>1, <4>2 DEF Fresh
      <4> QED
        BY <4>3 DEF Derived, Underway
    <3> QED
      BY <3>1, <3>2, <3>3
  <2> QED
    BY <1>2, <2>1, <2>2, <2>3, <2>4, <2>5 DEF Derived, Underway
<1>19. Holding'
  BY <1>1, <1>2, <1>3, <1>12, <1>13 DEF Holding, Typed
<1>20. \A i \in Items : cell'[i] \in [Cells(i) -> 0..src[i]]
  BY <1>2, <1>10 DEF Typed
<1>21. q.item \in {m, NoItem} /\ (q.owns => run[h].owns)
  BY <1>13
<1> QED
  BY <1>1, <1>2, <1>3, <1>10, <1>12, <1>13, <1>14, <1>15, <1>18, <1>19, <1>20, <1>21, HandlerStep
     DEF Typed

\* A message goes back for another try, or to the dead-letter queue.
LEMMA Retried ==
  ASSUME Typed, NEW m \in Items, IsFiniteSet(Messages(m)), NEW n \in Retries, Retry(m, n)
  PROVE  /\ UNCHANGED queue \/ \E k \in Retries : queue' = [queue EXCEPT ![m][k] = @ + 1]
         /\ lost' \in [Items -> BOOLEAN] /\ \A i \in Items \ {m} : lost'[i] = lost[i]
         /\ lost[m] => lost'[m]
         /\ lost'[m] \/ UpToDate(m) \/ \E k \in Retries : queue'[m][k] > 0
         /\ \A k \in Retries : queue[m][k] > 0 => queue'[m][k] > 0
<1>1. CASE n < MaxRetries
  <2>1. n + 1 \in Retries
    BY <1>1, DerivedAssumption DEF Retries
  <2>2. queue' = [queue EXCEPT ![m][n + 1] = @ + 1] /\ UNCHANGED lost
    BY <1>1 DEF Retry
  <2>3. queue'[m][n + 1] > 0 /\ \A k \in Retries : queue'[m][k] >= queue[m][k]
    BY <2>1, <2>2, OneMore
  <2>4. \A k \in Retries : queue[m][k] \in Nat /\ queue'[m][k] \in Nat
    BY <2>1, <2>2, OneMore DEF Typed
  <2> QED
    BY <2>1, <2>2, <2>3, <2>4 DEF Typed
<1>2. CASE ~(n < MaxRetries)
  BY <1>2 DEF Retry, Typed
<1> QED
  BY <1>1, <1>2

\* Only the handler that holds the lock can free it.
LEMMA UnlockedStep ==
  ASSUME Typed, Holding, NEW h \in Handlers, Unlocked(h), run[h].item \in Items,
         NEW q, run' = [run EXCEPT ![h] = q], q.pc = "idle", UNCHANGED expired
  PROVE  lock' \in [Items -> Handlers \cup {Free}] /\ Holding'
<1>1. PICK m \in Items : m = run[h].item
  OBVIOUS
<1>2. lock' = [lock EXCEPT ![m] = IF @ = h THEN Free ELSE @]
  BY <1>1 DEF Unlocked
<1>3. lock' \in [Items -> Handlers \cup {Free}]
  BY <1>2 DEF Typed
<1>4. Holding'
  <2> SUFFICES ASSUME ~expired, NEW g \in Handlers, run'[g].item \in Titles,
                      run'[g].pc \in {"reading", "writing"}
               PROVE  lock'[run'[g].item] = g
    BY DEF Holding
  <2>1. g # h /\ run'[g] = run[g]
    BY DEF Typed
  <2>2. lock[run[g].item] = g
    BY <2>1 DEF Holding
  <2> QED
    BY <1>2, <2>1, <2>2, DerivedAssumption DEF Typed
<1> QED
  BY <1>3, <1>4

LEMMA EndStep ==
  ASSUME DerivedInv, NEW h \in Handlers, Finish(h) \/ Throw(h) \/ Timeout(h) \/ Crash(h)
  PROVE  DerivedInv'
<1>1. /\ run[h].pc # "idle"
      /\ UNCHANGED <<src, told, changes, unsent, cell, regressed, skipped, expired>>
  BY DEF Finish, Throw, Timeout, Crash, hist, tables
<1>2. /\ Typed /\ Holding /\ RunFits(run[h]) /\ run[h] \in RunSet /\ run[h].item \in Items
      /\ \A j \in Items : Derived(j)
  BY <1>1, Running
<1>3. PICK m \in Items : m = run[h].item
  BY <1>2
<1>4. PICK n \in Retries : n = run[h].n
  BY <1>2 DEF RunSet
<1>5. /\ cell' = [i \in Items |-> cell'[i]] /\ \A i \in Items : cell'[i] \in [Cells(i) -> 0..src[i]]
      /\ regressed' \in [Items -> BOOLEAN] /\ skipped' \in [Items -> BOOLEAN]
      /\ expired' \in BOOLEAN
      /\ \A i \in Items : /\ cell'[i] = cell[i] /\ regressed'[i] = regressed[i]
                          /\ skipped'[i] = skipped[i]
  BY <1>1, <1>2 DEF Typed
<1>6. RunFits(Idle)
  BY IdleTyped, DerivedAssumption DEF RunFits
<1>7. IsFiniteSet(Messages(m))
  BY DEF DerivedInv, Carried
<1>8. CASE Finish(h)
  <2>1. /\ run[h].pc = "writing" /\ run[h].todo = {} /\ Unlocked(h)
        /\ run' = [run EXCEPT ![h] = Idle] /\ UNCHANGED <<queue, lost, faults>>
    BY <1>8 DEF Finish, hist, tables
  <2>2. lock' \in [Items -> Handlers \cup {Free}] /\ Holding'
    BY <1>1, <1>2, <2>1, IdleTyped, UnlockedStep
  <2>3. Fresh(h, m) => UpToDate(m)'
    BY <1>1, <2>1 DEF Fresh, UpToDate
  <2>4. Derived(m)'
    BY <1>1, <1>2, <2>1, <2>3, StillDerived
  <2>5. lost' \in [Items -> BOOLEAN] /\ faults' \in 0..MaxFaults
    BY <1>2, <2>1 DEF Typed
  <2> QED
    BY <1>1, <1>3, <1>5, <1>6, <2>1, <2>2, <2>4, <2>5, IdleTyped, HandlerStep
<1>9. CASE Throw(h)
  <2>1. /\ Unlocked(h) /\ run' = [run EXCEPT ![h] = Idle]
        /\ IF run[h].owns THEN Retry(m, n) ELSE UNCHANGED <<queue, lost>>
        /\ UNCHANGED faults \/ (faults < MaxFaults /\ faults' = faults + 1)
    BY <1>3, <1>4, <1>9 DEF Throw
  <2>2. lock' \in [Items -> Handlers \cup {Free}] /\ Holding'
    BY <1>1, <1>2, <2>1, IdleTyped, UnlockedStep
  <2>3. faults' \in 0..MaxFaults
    BY <1>2, <2>1, DerivedAssumption DEF Typed
  <2>4. CASE run[h].owns
    <3>1. /\ UNCHANGED queue \/ \E k \in Retries : queue' = [queue EXCEPT ![m][k] = @ + 1]
          /\ lost' \in [Items -> BOOLEAN] /\ \A i \in Items \ {m} : lost'[i] = lost[i]
          /\ lost[m] => lost'[m]
          /\ lost'[m] \/ UpToDate(m) \/ \E k \in Retries : queue'[m][k] > 0
          /\ \A k \in Retries : queue[m][k] > 0 => queue'[m][k] > 0
      BY <1>2, <1>7, <2>1, <2>4, Retried
    <3>2. Derived(m)'
      BY <1>1, <3>1 DEF Derived, Underway, Excused, UpToDate
    <3> QED
      BY <1>1, <1>3, <1>5, <1>6, <2>1, <2>2, <2>3, <2>4, <3>1, <3>2, IdleTyped, HandlerStep
  <2>5. CASE ~run[h].owns
    <3>1. ~Fresh(h, m)
      BY <2>5 DEF Fresh
    <3>2. Derived(m)'
      BY <1>1, <1>2, <2>1, <2>5, <3>1, StillDerived
    <3>3. lost' \in [Items -> BOOLEAN] /\ \A i \in Items : lost'[i] = lost[i]
      BY <1>2, <2>1, <2>5 DEF Typed
    <3> QED
      BY <1>1, <1>3, <1>5, <1>6, <2>1, <2>2, <2>3, <2>5, <3>2, <3>3, IdleTyped, HandlerStep
  <2> QED
    BY <2>4, <2>5
<1>10. CASE Timeout(h)
  <2>1. /\ run[h].owns /\ Retry(m, n) /\ run' = [run EXCEPT ![h].owns = FALSE]
        /\ faults < MaxFaults /\ faults' = faults + 1 /\ UNCHANGED lock
    BY <1>3, <1>4, <1>10 DEF Timeout
  <2>2. PICK q : q = [run[h] EXCEPT !.owns = FALSE]
    OBVIOUS
  <2>3. run' = [run EXCEPT ![h] = q]
    BY <2>1, <2>2
  <2>4. /\ q \in RunSet /\ q.pc = run[h].pc /\ q.item = m /\ ~q.owns
        /\ q.val = run[h].val /\ q.todo = run[h].todo
    BY <1>2, <1>3, <2>2 DEF RunSet
  <2>5. RunFits(q)
    BY <1>2, <1>3, <2>4 DEF RunFits
  <2>6. /\ UNCHANGED queue \/ \E k \in Retries : queue' = [queue EXCEPT ![m][k] = @ + 1]
        /\ lost' \in [Items -> BOOLEAN] /\ \A i \in Items \ {m} : lost'[i] = lost[i]
        /\ lost'[m] \/ UpToDate(m) \/ \E k \in Retries : queue'[m][k] > 0
    BY <1>2, <1>7, <2>1, Retried
  <2>7. Derived(m)'
    BY <1>1, <2>6 DEF Derived, Underway, Excused, UpToDate
  <2>8. faults' \in 0..MaxFaults /\ lock' \in [Items -> Handlers \cup {Free}]
    BY <1>2, <2>1, DerivedAssumption DEF Typed
  <2>9. Holding'
    BY <1>1, <1>2, <1>3, <2>1, <2>3, <2>4 DEF Holding, Typed
  <2> QED
    <3>1. \/ UNCHANGED queue
          \/ run[h].owns /\ ~q.owns /\ \E k \in Retries : queue' = [queue EXCEPT ![m][k] = @ + 1]
      BY <2>1, <2>4, <2>6
    <3>2. (q.owns => run[h].owns) /\ q.item \in {m, NoItem}
      BY <2>4
    <3>3. q \in RunSet
      BY <2>4
    <3> QED
      BY <1>1, <1>3, <1>5, <2>3, <2>5, <2>6, <2>7, <2>8, <2>9, <3>1, <3>2, <3>3, HandlerStep
<1>11. CASE Crash(h)
  <2>1. /\ run' = [run EXCEPT ![h] = Idle] /\ UNCHANGED <<lock, lost>>
        /\ queue' = IF run[h].owns THEN [queue EXCEPT ![m][n] = @ + 1] ELSE queue
        /\ faults < MaxFaults /\ faults' = faults + 1
    BY <1>3, <1>4, <1>11 DEF Crash, hist, tables
  <2>2. faults' \in 0..MaxFaults /\ lock' \in [Items -> Handlers \cup {Free}]
        /\ lost' \in [Items -> BOOLEAN]
    BY <1>2, <2>1, DerivedAssumption DEF Typed
  <2>3. Holding'
    BY <1>1, <1>2, <2>1, IdleTyped DEF Holding, Typed
  <2>4. run[h].owns => queue'[m][n] > 0
    BY <1>2, <1>7, <2>1, OneMore
  <2>5. Derived(m)'
    <3>1. CASE run[h].owns
      BY <2>4, <3>1 DEF Derived, Underway
    <3>2. CASE ~run[h].owns
      BY <1>1, <1>2, <2>1, <3>2, StillDerived DEF Fresh
    <3> QED
      BY <3>1, <3>2
  <2> QED
    BY <1>1, <1>3, <1>5, <1>6, <2>1, <2>2, <2>3, <2>5, IdleTyped, HandlerStep
<1> QED
  BY <1>8, <1>9, <1>10, <1>11

-----------------------------------------------------------------------------
LEMMA InitInv == Init => DerivedInv
<1> SUFFICES ASSUME Init PROVE DerivedInv
  OBVIOUS
<1>1. Typed
  <2>1. 0 \in 0..MaxChanges /\ 0 \in 0..MaxFaults
    BY DerivedAssumption
  <2>2. \A i \in Items : src[i] = 0 /\ told[i] = 0 /\ cell[i] = [k \in Cells(i) |-> 0]
    BY DEF Init
  <2>3. ASSUME NEW i \in Items PROVE cell[i] \in [Cells(i) -> 0..src[i]]
    <3>0. src[i] = 0 /\ 0 \in 0..0
      BY DEF Init
    <3>1. 0 \in 0..src[i]
      BY <3>0
    <3>2. cell[i] = [k \in Cells(i) |-> 0]
      BY <2>2
    <3> DEFINE V == 0..src[i]
    <3>3. 0 \in V
      BY <3>1
    <3> HIDE DEF V
    <3>4. [k \in Cells(i) |-> 0] \in [Cells(i) -> V]
      BY <3>3
    <3> QED
      BY <3>2, <3>4 DEF V
  <2>4. cell = [i \in Items |-> cell[i]]
    BY DEF Init
  <2>5. run \in [Handlers -> RunSet]
    BY IdleTyped DEF Init
  <2>6. /\ src \in [Items -> 0..MaxChanges] /\ told \in [Items -> 0..MaxChanges]
        /\ changes = 0 /\ changes \in 0..MaxChanges /\ unsent \in [Items -> Nat]
        /\ queue \in [Items -> [Retries -> Nat]]
        /\ lock \in [Items -> Handlers \cup {Free}] /\ lost \in [Items -> BOOLEAN]
        /\ regressed \in [Items -> BOOLEAN] /\ skipped \in [Items -> BOOLEAN]
        /\ expired \in BOOLEAN /\ faults \in 0..MaxFaults
    BY <2>1 DEF Init
  <2> QED
    BY <2>2, <2>3, <2>4, <2>5, <2>6 DEF Typed
<1>2. \A h \in Handlers : run[h].pc = "idle" /\ run[h].item = NoItem /\ ~run[h].owns
  BY IdleTyped DEF Init
<1>3. Holding /\ \A h \in Handlers : RunFits(run[h])
  BY <1>2, DerivedAssumption DEF Holding, RunFits
<1>4. ASSUME NEW i \in Items PROVE Carried(i) /\ Derived(i)
  <2>1. \A n \in Retries : queue[i][n] = 0
    BY DEF Init
  <2>2. Messages(i) = {} /\ Owners(i) = {}
    BY <1>2, <2>1 DEF Messages, Owners
  <2>3. unsent[i] = 0 /\ changes = 0
    BY DEF Init
  <2>4. UpToDate(i)
    <3>1. \A k \in Cells(i) : cell[i][k] = 0
      BY DEF Init
    <3>2. told[i] = 0
      BY DEF Init
    <3> QED
      BY <3>1, <3>2 DEF UpToDate
  <2>5. IsFiniteSet({}) /\ Cardinality({}) = 0
    BY FS_EmptySet
  <2> QED
    BY <2>2, <2>3, <2>4, <2>5 DEF Carried, Derived
<1> QED
  BY <1>1, <1>3, <1>4 DEF DerivedInv

LEMMA NextInv == DerivedInv /\ [Next]_vars => DerivedInv'
<1> SUFFICES ASSUME DerivedInv, [Next]_vars PROVE DerivedInv'
  OBVIOUS
<1>1. CASE UNCHANGED vars
  <2>1. UNCHANGED <<src, told, changes, unsent, queue, cell, lock, run, lost, regressed, skipped, expired, faults>>
    BY <1>1 DEF vars, tables, hist
  <2>2. \A i \in Items : Messages(i)' = Messages(i) /\ Owners(i)' = Owners(i)
    BY <2>1 DEF Messages, Owners
  <2>3. \A i \in Items : Carried(i)' /\ Derived(i)'
    BY <2>1, <2>2 DEF DerivedInv, Carried, Derived, Underway, Fresh, UpToDate, Excused
  <2>4. Typed' /\ Holding' /\ \A h \in Handlers : RunFits(run[h])'
    BY <2>1 DEF DerivedInv, Typed, Holding, RunFits
  <2> QED
    BY <2>3, <2>4 DEF DerivedInv
<1> QED
  BY <1>1, PublisherStep, ExpiryStep, DeliverStep, LockStep, ReadStep, WriteStep, EndStep
     DEF Next, Step

\* No announced change is forgotten, no message multiplied, no lock shared.
THEOREM DerivedHolds == Spec => []DerivedInv
<1> QED
  BY InitInv, NextInv, PTL DEF Spec

\* Once nothing is under way for an item, its derived columns are at least as
\* new as the last change that was announced for it, except for the causes the
\* code leaves open.
THEOREM AccurateAlways == Spec => []AccurateAtRest
<1>1. DerivedInv => AccurateAtRest
  <2> SUFFICES ASSUME DerivedInv PROVE AccurateAtRest
    OBVIOUS
  <2>1. Typed /\ \A h \in Handlers : RunFits(run[h])
    BY DEF DerivedInv
  <2>2. ASSUME NEW i \in Items
        PROVE  unsent[i] \in 0..MaxChanges /\ \A n \in Retries : queue[i][n] \in 0..MaxChanges
    <3>1. /\ Carried(i) /\ Cardinality(Messages(i)) \in Nat /\ Cardinality(Owners(i)) \in Nat
          /\ unsent[i] \in Nat /\ changes \in 0..MaxChanges
      BY <2>1, FS_CardinalityType DEF DerivedInv, Carried, Typed
    <3>2. ASSUME NEW n \in Retries PROVE queue[i][n] \in Nat /\ queue[i][n] <= Cardinality(Messages(i))
      <4>1. PICK q \in Nat : q = queue[i][n]
        BY <2>1 DEF Typed
      <4>2. PICK f : f = [j \in 1..q |-> <<n, j>>]
        OBVIOUS
      <4>3. f \in Injection(1..q, Messages(i))
        BY <4>1, <4>2 DEF Injection, IsInjective, Messages
      <4>4. Cardinality(1..q) <= Cardinality(Messages(i))
        BY <3>1, <4>3, FS_Injection DEF Carried
      <4>5. Cardinality(1..q) = q
        BY FS_Interval
      <4> QED
        BY <4>1, <4>4, <4>5
    <3> QED
      BY <3>1, <3>2, DerivedAssumption DEF Carried
  <2>3. queue \in [Items -> [Retries -> 0..MaxChanges]] /\ unsent \in [Items -> 0..MaxChanges]
    <3>1. \A i \in Items : queue[i] \in [Retries -> 0..MaxChanges]
      BY <2>1, <2>2 DEF Typed
    <3> QED
      BY <2>1, <2>2, <3>1 DEF Typed
  <2>4. \A h \in Handlers : run[h].pc \in {"idle", "locking", "reading", "writing"}
    BY <2>1 DEF Typed, RunSet
  <2>5. TypeOK
    <3>1. \A i \in Items : told[i] \in 0..src[i]
      BY <2>1 DEF Typed
    <3> QED
      BY <2>1, <2>3, <2>4, <3>1 DEF TypeOK, Typed
  <2>6. ASSUME NEW i \in Items, AtRest(i) PROVE UpToDate(i) \/ Excused(i)
    <3>1. ~Underway(i)
      BY <2>6 DEF AtRest, Underway, Fresh, Busy
    <3> QED
      BY <3>1 DEF DerivedInv, Derived
  <2> QED
    BY <2>5, <2>6 DEF AccurateAtRest
<1> QED
  BY <1>1, DerivedHolds, PTL

\* Only one handler works on the titles of a course, until a lock expires; and
\* a lock is freed by its expiry or by the end of the handler that holds it.
THEOREM LocksHold == Spec => LockHolds
<1>1. DerivedInv => TitlesExclusive
  <2> SUFFICES ASSUME DerivedInv, ~expired, NEW i \in Titles
               PROVE  Cardinality({h \in Busy(i) : run[h].pc # "locking"}) <= 1
    BY DEF TitlesExclusive
  <2>1. PICK S : S = {h \in Busy(i) : run[h].pc # "locking"}
    OBVIOUS
  <2>2. ASSUME NEW h \in S PROVE lock[i] = h
    <3>1. /\ h \in Handlers /\ run[h].item = i /\ run[h].pc # "locking" /\ run[h] \in RunSet
          /\ RunFits(run[h])
      BY <2>1 DEF Busy, DerivedInv, Typed
    <3>2. run[h].pc \in {"reading", "writing"}
      BY <3>1, DerivedAssumption DEF RunFits, RunSet
    <3> QED
      BY <3>1, <3>2 DEF DerivedInv, Holding
  <2>3. S \subseteq {lock[i]}
    BY <2>2
  <2>4. IsFiniteSet({lock[i]}) /\ Cardinality({lock[i]}) = 1
    BY FS_Singleton
  <2>5. Cardinality(S) <= 1
    BY <2>3, <2>4, FS_Subset
  <2> QED
    BY <2>1, <2>5
<1> DEFINE Owned ==
      \A i \in Items, h \in Handlers :
        (lock[i] = h /\ lock'[i] # h) =>
          lock'[i] = Free /\ (run' = run \/ (run[h].item = i /\ run'[h] = Idle))
<1>2. DerivedInv /\ [Next]_vars => [Owned]_vars
  <2> SUFFICES ASSUME DerivedInv, Next, NEW i \in Items, NEW h \in Handlers,
                      lock[i] = h, lock'[i] # h
               PROVE  lock'[i] = Free /\ (run' = run \/ (run[h].item = i /\ run'[h] = Idle))
    OBVIOUS
  <2>1. lock \in [Items -> Handlers \cup {Free}] /\ run \in [Handlers -> RunSet] /\ h # Free
    BY DerivedAssumption DEF DerivedInv, Typed
  <2>2. \/ \E j \in Items : LockExpires(j)
        \/ \E g \in Handlers : Acquire(g) \/ Finish(g) \/ Throw(g)
    BY DEF Next, Step, Change, PublishUpdate, LosePublish, Deliver, Skip, Read, Write, Timeout, Crash
  <2>3. ASSUME NEW j \in Items, LockExpires(j) PROVE lock'[i] = Free /\ run' = run
    BY <2>1, <2>3 DEF LockExpires
  <2>4. ASSUME NEW g \in Handlers, Acquire(g) PROVE FALSE
    BY <2>1, <2>4 DEF Acquire
  <2>5. ASSUME NEW g \in Handlers, Finish(g) \/ Throw(g)
        PROVE  lock'[i] = Free /\ run[h].item = i /\ run'[h] = Idle
    <3>1. lock' = [lock EXCEPT ![run[g].item] = IF @ = g THEN Free ELSE @]
          /\ run' = [run EXCEPT ![g] = Idle]
      BY <2>5 DEF Finish, Throw, Unlocked
    <3>2. run[g].item = i /\ g = h
      BY <2>1, <3>1
    <3> QED
      BY <2>1, <3>1, <3>2
  <2> QED
    BY <2>2, <2>3, <2>4, <2>5
<1> QED
  BY <1>1, <1>2, DerivedHolds, PTL DEF Spec, LockHolds, OwnRelease

-----------------------------------------------------------------------------
\* Every action keeps the types (libs/rmq: the consumer, its broker).
THEOREM TypeCorrect == ConsumerSpec => []ConsumerTypeOK
<1> USE ConstantsAssumption DEF ConsumerTypeOK, CopySet, Queues, Places, Live, Move
<1>1. ConsumerInit => ConsumerTypeOK
  BY DEF ConsumerInit
<1>2. ConsumerTypeOK /\ [ConsumerNext]_consumerVars => ConsumerTypeOK'
  <2> SUFFICES ASSUME ConsumerTypeOK, [ConsumerNext]_consumerVars PROVE ConsumerTypeOK'
    OBVIOUS
  <2>1. ASSUME NEW m \in Msgs, Publish(m) PROVE ConsumerTypeOK'
    BY <2>1 DEF Publish
  <2>2. ASSUME NEW s \in Slots, DelayExpires(s) PROVE ConsumerTypeOK'
    BY <2>2 DEF DelayExpires
  <2>3. ASSUME NEW s \in Slots, NEW w \in Workers, DeliverCopy(s, w) PROVE ConsumerTypeOK'
    <3>1. copy[s] \in CopySet
      BY <2>3 DEF DeliverCopy
    <3>2. Move(copy[s], copy[s].q, "running", w) \in CopySet
      BY <3>1
    <3>3. copy' \in [Slots -> CopySet \cup {NoCopy}]
      BY <2>3, <3>2 DEF DeliverCopy
    <3>4. starts' \in [Msgs -> Nat]
      BY <2>3, <3>1 DEF DeliverCopy
    <3> QED
      BY <2>3, <3>3, <3>4 DEF DeliverCopy
  <2>4. ASSUME NEW s \in Slots, HandlerReturns(s) PROVE ConsumerTypeOK'
    BY <2>4 DEF HandlerReturns, HoldsCopy
  <2>5. ASSUME NEW s \in Slots, AckHandled(s) PROVE ConsumerTypeOK'
    BY <2>5 DEF AckHandled, HoldsCopy
  <2>6. ASSUME NEW s \in Slots, PublishRetry(s) PROVE ConsumerTypeOK'
    BY <2>6 DEF PublishRetry, HoldsCopy
  <2>7. ASSUME NEW s \in Slots, AckRetried(s) PROVE ConsumerTypeOK'
    BY <2>7 DEF AckRetried, HoldsCopy
  <2>8. ASSUME NEW s \in Slots, NackToDlq(s) PROVE ConsumerTypeOK'
    BY <2>8 DEF NackToDlq, HoldsCopy
  <2>9. ASSUME NEW w \in Workers, ConsumerCrash(w) PROVE ConsumerTypeOK'
    BY <2>9 DEF ConsumerCrash, Requeue
  <2>10. ASSUME NEW w \in Workers, Restart(w) PROVE ConsumerTypeOK'
    BY <2>10 DEF Restart
  <2>11. ASSUME NEW w \in Workers, ConnectionClosed(w) PROVE ConsumerTypeOK'
    BY <2>11 DEF ConnectionClosed, Requeue
  <2>12. CASE UNCHANGED consumerVars
    BY <2>12 DEF consumerVars
  <2> QED
    BY <2>1, <2>2, <2>3, <2>4, <2>5, <2>6, <2>7, <2>8, <2>9, <2>10, <2>11, <2>12
    DEF ConsumerNext, CopyStep
<1> QED
  BY <1>1, <1>2, PTL DEF ConsumerSpec

-----------------------------------------------------------------------------
\* Copies, outcomes and handler starts belong to messages that were published.
FromSent ==
  /\ \A s \in Slots : Live(s) => copy[s].msg \in sent
  /\ Settled \subseteq sent
  /\ \A m \in Msgs : m \notin sent => starts[m] = 0

\* Message m has an outcome or a copy that is not about to be acknowledged away.
Covered(m) == m \in Settled \/ \E s \in Slots : Pending(s) /\ copy[s].msg = m

\* The strengthening behind AtLeastOnce: what keeps a message without outcome
\* in the broker is a copy that is not about to be acknowledged away.
NoMessageLost ==
  \A m \in sent : Covered(m)

LEMMA FromSentInvariant == ConsumerSpec => []FromSent
<1> USE DEF ConsumerTypeOK, CopySet, Queues, Places, Live, Move, FromSent, Settled
<1>1. ConsumerInit => FromSent
  BY DEF ConsumerInit
<1>2. ConsumerTypeOK /\ FromSent /\ [ConsumerNext]_consumerVars => FromSent'
  <2> SUFFICES ASSUME ConsumerTypeOK, FromSent, [ConsumerNext]_consumerVars PROVE FromSent'
    OBVIOUS
  <2>1. ASSUME NEW m \in Msgs, Publish(m) PROVE FromSent'
    BY <2>1 DEF Publish
  <2>2. ASSUME NEW s \in Slots, DelayExpires(s) PROVE FromSent'
    BY <2>2 DEF DelayExpires
  <2>3. ASSUME NEW s \in Slots, NEW w \in Workers, DeliverCopy(s, w) PROVE FromSent'
    BY <2>3 DEF DeliverCopy
  <2>4. ASSUME NEW s \in Slots, HandlerReturns(s) PROVE FromSent'
    BY <2>4 DEF HandlerReturns, HoldsCopy
  <2>5. ASSUME NEW s \in Slots, AckHandled(s) PROVE FromSent'
    BY <2>5 DEF AckHandled, HoldsCopy
  <2>6. ASSUME NEW s \in Slots, PublishRetry(s) PROVE FromSent'
    BY <2>6 DEF PublishRetry, HoldsCopy
  <2>7. ASSUME NEW s \in Slots, AckRetried(s) PROVE FromSent'
    BY <2>7 DEF AckRetried, HoldsCopy
  <2>8. ASSUME NEW s \in Slots, NackToDlq(s) PROVE FromSent'
    BY <2>8 DEF NackToDlq, HoldsCopy
  <2>9. ASSUME NEW w \in Workers, ConsumerCrash(w) PROVE FromSent'
    BY <2>9 DEF ConsumerCrash, Requeue
  <2>10. ASSUME NEW w \in Workers, Restart(w) PROVE FromSent'
    BY <2>10 DEF Restart
  <2>11. ASSUME NEW w \in Workers, ConnectionClosed(w) PROVE FromSent'
    BY <2>11 DEF ConnectionClosed, Requeue
  <2>12. CASE UNCHANGED consumerVars
    BY <2>12 DEF consumerVars
  <2> QED
    BY <2>1, <2>2, <2>3, <2>4, <2>5, <2>6, <2>7, <2>8, <2>9, <2>10, <2>11, <2>12
    DEF ConsumerNext, CopyStep
<1> QED
  BY <1>1, <1>2, TypeCorrect, PTL DEF ConsumerSpec

LEMMA CoverKept ==
  ASSUME NoMessageLost, sent' = sent,
         \A n \in sent : Covered(n) => Covered(n)'
  PROVE  NoMessageLost'
BY DEF NoMessageLost

\* No published message disappears from the broker before its outcome,
\* whatever crash or lost connection falls between a retry and its ack.
THEOREM NoLoss == ConsumerSpec => []NoMessageLost
<1> USE ConstantsAssumption DEF ConsumerTypeOK, CopySet, Queues, Places, Live, Move, Pending, Covered, Settled
<1>1. ConsumerInit => NoMessageLost
  BY DEF ConsumerInit, NoMessageLost
<1>2. ConsumerTypeOK /\ NoMessageLost /\ [ConsumerNext]_consumerVars => NoMessageLost'
  <2> SUFFICES ASSUME ConsumerTypeOK, NoMessageLost, [ConsumerNext]_consumerVars PROVE NoMessageLost'
    OBVIOUS
  <2>1. ASSUME NEW m \in Msgs, Publish(m) PROVE NoMessageLost'
    <3>1. \A n \in sent : Covered(n) => Covered(n)'
      BY <2>1 DEF Publish
    <3>2. Covered(m)'
      BY <2>1 DEF Publish
    <3> QED
      BY <2>1, <3>1, <3>2 DEF Publish, NoMessageLost
  <2>2. ASSUME NEW s \in Slots, DelayExpires(s) PROVE NoMessageLost'
    <3>1. \A n \in sent : Covered(n) => Covered(n)'
      BY <2>2 DEF DelayExpires
    <3> QED
      BY <2>2, <3>1, CoverKept DEF DelayExpires
  <2>3. ASSUME NEW s \in Slots, NEW w \in Workers, DeliverCopy(s, w) PROVE NoMessageLost'
    <3>1. \A n \in sent : Covered(n) => Covered(n)'
      BY <2>3 DEF DeliverCopy
    <3> QED
      BY <2>3, <3>1, CoverKept DEF DeliverCopy
  <2>4. ASSUME NEW s \in Slots, HandlerReturns(s) PROVE NoMessageLost'
    <3>1. \A n \in sent : Covered(n) => Covered(n)'
      BY <2>4 DEF HandlerReturns, HoldsCopy
    <3> QED
      BY <2>4, <3>1, CoverKept DEF HandlerReturns, HoldsCopy
  <2>5. ASSUME NEW s \in Slots, AckHandled(s) PROVE NoMessageLost'
    <3>1. \A n \in sent : Covered(n) => Covered(n)'
      BY <2>5 DEF AckHandled, HoldsCopy
    <3> QED
      BY <2>5, <3>1, CoverKept DEF AckHandled, HoldsCopy
  <2>6. ASSUME NEW s \in Slots, PublishRetry(s) PROVE NoMessageLost'
    <3>1. PICK t \in Slots :
            /\ ~Live(t)
            /\ copy' = [copy EXCEPT
                          ![t] = [msg |-> copy[s].msg, retry |-> copy[s].retry + 1,
                                  q |-> copy[s].q, at |-> "delayed", by |-> NoWorker],
                          ![s] = Move(@, @.q, "retried", @.by)]
      BY <2>6 DEF PublishRetry
    <3>2. Pending(t)' /\ copy'[t].msg = copy[s].msg
      BY <2>6, <3>1 DEF PublishRetry, HoldsCopy
    <3>3. \A n \in sent : Covered(n) => Covered(n)'
      BY <2>6, <3>1, <3>2 DEF PublishRetry, HoldsCopy
    <3> QED
      BY <2>6, <3>3, CoverKept DEF PublishRetry
  <2>7. ASSUME NEW s \in Slots, AckRetried(s) PROVE NoMessageLost'
    <3>1. \A n \in sent : Covered(n) => Covered(n)'
      BY <2>7 DEF AckRetried, HoldsCopy
    <3> QED
      BY <2>7, <3>1, CoverKept DEF AckRetried, HoldsCopy
  <2>8. ASSUME NEW s \in Slots, NackToDlq(s) PROVE NoMessageLost'
    <3>1. \A n \in sent : Covered(n) => Covered(n)'
      BY <2>8 DEF NackToDlq, HoldsCopy
    <3> QED
      BY <2>8, <3>1, CoverKept DEF NackToDlq, HoldsCopy
  <2>9. ASSUME NEW w \in Workers, ConsumerCrash(w) PROVE NoMessageLost'
    <3>1. \A n \in sent : Covered(n) => Covered(n)'
      BY <2>9 DEF ConsumerCrash, Requeue
    <3> QED
      BY <2>9, <3>1, CoverKept DEF ConsumerCrash, Requeue
  <2>10. ASSUME NEW w \in Workers, Restart(w) PROVE NoMessageLost'
    <3>1. \A n \in sent : Covered(n) => Covered(n)'
      BY <2>10 DEF Restart
    <3> QED
      BY <2>10, <3>1, CoverKept DEF Restart
  <2>11. ASSUME NEW w \in Workers, ConnectionClosed(w) PROVE NoMessageLost'
    <3>1. \A n \in sent : Covered(n) => Covered(n)'
      BY <2>11 DEF ConnectionClosed, Requeue
    <3> QED
      BY <2>11, <3>1, CoverKept DEF ConnectionClosed, Requeue
  <2>12. CASE UNCHANGED consumerVars
    BY <2>12 DEF consumerVars, NoMessageLost
  <2> QED
    BY <2>1, <2>2, <2>3, <2>4, <2>5, <2>6, <2>7, <2>8, <2>9, <2>10, <2>11, <2>12
    DEF ConsumerNext, CopyStep
<1> QED
  BY <1>1, <1>2, TypeCorrect, PTL DEF ConsumerSpec

-----------------------------------------------------------------------------
LEMMA RequeueKeepsLive ==
  ASSUME ConsumerTypeOK, NEW w \in Workers, Requeue(w)
  PROVE  LiveMsgs' = LiveMsgs
<1> USE ConstantsAssumption
    DEF ConsumerTypeOK, CopySet, Queues, Places, Live, Move, LiveMsgs, CopiesOf
<1>1. ASSUME NEW s \in Slots
      PROVE  /\ (copy'[s] # NoCopy) <=> (copy[s] # NoCopy)
             /\ copy[s] # NoCopy => copy'[s].msg = copy[s].msg
  <2>1. CASE Live(s) /\ copy[s].by = w
    <3>1. copy'[s] = Move(copy[s], copy[s].q, "ready", NoWorker)
      BY <2>1 DEF Requeue
    <3>2. copy[s] \in CopySet
      BY <2>1
    <3>3. copy'[s] \in CopySet /\ copy'[s].msg = copy[s].msg
      BY <3>1, <3>2
    <3> QED
      BY <2>1, <3>2, <3>3
  <2>2. CASE ~(Live(s) /\ copy[s].by = w)
    BY <2>2 DEF Requeue
  <2> QED
    BY <2>1, <2>2
<1> QED
  BY <1>1

\* The consumer implements at-least-once delivery (Delivery.tla).
THEOREM Refinement == ConsumerSpec => AtLeastOnce
<1> USE ConstantsAssumption
    DEF ConsumerTypeOK, CopySet, Queues, Places, Live, Move, LiveMsgs, CopiesOf
<1>1. ConsumerInit => D!Init
  BY DEF ConsumerInit, D!Init
<1>2. ConsumerTypeOK /\ FromSent /\ NoMessageLost /\ [ConsumerNext]_consumerVars => [D!Next]_D!vars
  <2> SUFFICES ASSUME ConsumerTypeOK, FromSent, NoMessageLost, [ConsumerNext]_consumerVars
               PROVE  D!Next \/ UNCHANGED D!vars
    OBVIOUS
  <2>1. ASSUME NEW m \in Msgs, Publish(m) PROVE D!Next
    <3>1. LiveMsgs' = LiveMsgs \cup {m}
      BY <2>1 DEF Publish
    <3>2. D!Send(m)
      BY <2>1, <3>1 DEF Publish, D!Send
    <3> QED
      BY <3>2 DEF D!Next
  <2>2. ASSUME NEW s \in Slots, DelayExpires(s) PROVE UNCHANGED D!vars
    <3>1. LiveMsgs' = LiveMsgs
      BY <2>2 DEF DelayExpires
    <3> QED
      BY <2>2, <3>1 DEF DelayExpires, D!vars
  <2>3. ASSUME NEW s \in Slots, NEW w \in Workers, DeliverCopy(s, w) PROVE UNCHANGED D!vars
    <3>1. LiveMsgs' = LiveMsgs
      BY <2>3 DEF DeliverCopy
    <3> QED
      BY <2>3, <3>1 DEF DeliverCopy, D!vars
  <2>4. ASSUME NEW s \in Slots, HandlerReturns(s) PROVE UNCHANGED D!vars
    <3>1. LiveMsgs' = LiveMsgs
      BY <2>4 DEF HandlerReturns, HoldsCopy
    <3> QED
      BY <2>4, <3>1 DEF HandlerReturns, D!vars
  <2>5. ASSUME NEW s \in Slots, AckHandled(s) PROVE D!Next
    <3>0. PICK m \in Msgs : m = copy[s].msg
      BY <2>5 DEF AckHandled, HoldsCopy
    <3>1. m \in Msgs /\ m \in LiveMsgs
      BY <2>5, <3>0 DEF AckHandled, HoldsCopy
    <3>2. LiveMsgs' \in {LiveMsgs, LiveMsgs \ {m}}
      BY <2>5, <3>0 DEF AckHandled, HoldsCopy
    <3>3. D!Settle(m)
      BY <2>5, <3>0, <3>1, <3>2 DEF AckHandled, D!Settle
    <3> QED
      BY <3>1, <3>3 DEF D!Next
  <2>6. ASSUME NEW s \in Slots, PublishRetry(s) PROVE UNCHANGED D!vars
    <3>1. LiveMsgs' = LiveMsgs
      BY <2>6 DEF PublishRetry, HoldsCopy
    <3> QED
      BY <2>6, <3>1 DEF PublishRetry, D!vars
  <2>7. ASSUME NEW s \in Slots, AckRetried(s) PROVE D!Next \/ UNCHANGED D!vars
    <3>0. PICK m \in Msgs : m = copy[s].msg
      BY <2>7 DEF AckRetried, HoldsCopy
    <3>1. m \in Msgs /\ m \in LiveMsgs /\ m \in sent
      BY <2>7, <3>0 DEF AckRetried, HoldsCopy, FromSent
    <3>2. CASE m \in Settled
      <4>1. LiveMsgs' \in {LiveMsgs, LiveMsgs \ {m}}
        BY <2>7, <3>0 DEF AckRetried, HoldsCopy
      <4>2. D!Forget(m) \/ UNCHANGED D!vars
        BY <2>7, <3>0, <3>1, <3>2, <4>1 DEF AckRetried, Settled, D!Forget, D!vars
      <4> QED
        BY <3>1, <4>2 DEF D!Next
    <3>3. CASE m \notin Settled
      <4>1. PICK t \in Slots : Pending(t) /\ copy[t].msg = m
        BY <3>0, <3>1, <3>3 DEF NoMessageLost, Covered
      <4>2. t # s
        BY <2>7, <3>0, <4>1 DEF AckRetried, HoldsCopy, Pending
      <4>3. LiveMsgs' = LiveMsgs
        BY <2>7, <3>0, <4>1, <4>2 DEF AckRetried, HoldsCopy, Pending
      <4> QED
        BY <2>7, <3>0, <4>3 DEF AckRetried, D!vars
    <3> QED
      BY <3>2, <3>3
  <2>8. ASSUME NEW s \in Slots, NackToDlq(s) PROVE D!Next \/ UNCHANGED D!vars
    <3>0. PICK m \in Msgs : m = copy[s].msg
      BY <2>8 DEF NackToDlq, HoldsCopy
    <3>1. m \in Msgs /\ m \in LiveMsgs
      BY <2>8, <3>0 DEF NackToDlq, HoldsCopy
    <3>2. CASE copy[s].q = "main"
      <4>1. LiveMsgs' = LiveMsgs
        BY <2>8, <3>0, <3>2 DEF NackToDlq, HoldsCopy
      <4> QED
        BY <2>8, <3>0, <3>2, <4>1 DEF NackToDlq, D!vars
    <3>3. CASE copy[s].q # "main"
      <4>1. LiveMsgs' \in {LiveMsgs, LiveMsgs \ {m}}
        BY <2>8, <3>0, <3>3 DEF NackToDlq, HoldsCopy
      <4>2. D!Settle(m)
        BY <2>8, <3>0, <3>1, <3>3, <4>1 DEF NackToDlq, D!Settle
      <4> QED
        BY <3>1, <4>2 DEF D!Next
    <3> QED
      BY <3>2, <3>3
  <2>9. ASSUME NEW w \in Workers, ConsumerCrash(w) PROVE UNCHANGED D!vars
    <3>1. LiveMsgs' = LiveMsgs
      BY <2>9, RequeueKeepsLive DEF ConsumerCrash
    <3> QED
      BY <2>9, <3>1 DEF ConsumerCrash, D!vars
  <2>10. ASSUME NEW w \in Workers, Restart(w) PROVE UNCHANGED D!vars
    BY <2>10 DEF Restart, D!vars
  <2>11. ASSUME NEW w \in Workers, ConnectionClosed(w) PROVE UNCHANGED D!vars
    <3>1. LiveMsgs' = LiveMsgs
      BY <2>11, RequeueKeepsLive DEF ConnectionClosed
    <3> QED
      BY <2>11, <3>1 DEF ConnectionClosed, D!vars
  <2>12. CASE UNCHANGED consumerVars
    BY <2>12 DEF consumerVars, D!vars
  <2> QED
    BY <2>1, <2>2, <2>3, <2>4, <2>5, <2>6, <2>7, <2>8, <2>9, <2>10, <2>11, <2>12
    DEF ConsumerNext, CopyStep
<1> QED
  BY <1>1, <1>2, TypeCorrect, FromSentInvariant, NoLoss, PTL
  DEF ConsumerSpec, AtLeastOnce, D!Spec

-----------------------------------------------------------------------------
\* The handler starts behind a copy: one for every retry, the one in progress,
\* and for a copy in the dead-letter queue the last one of the work queue.
StartsBehind(c) ==
  c.retry + (IF c.q = "dlq" THEN 1 ELSE 0)
          + (IF c.at \in {"running", "handled", "retried"} THEN 1 ELSE 0)

\* Strengthening of GivenUpAfterAllAttempts.
EnoughStarts ==
  /\ \A s \in Slots : Live(s) => /\ starts[copy[s].msg] >= StartsBehind(copy[s])
                                 /\ copy[s].q = "dlq" => copy[s].retry = MAX_RETRIES
  /\ \A m \in parked \cup dropped : starts[m] > MAX_RETRIES + 1

\* A message reaches the dead-letter queue, and leaves through it, only after
\* all its attempts (x-retry-count, the nack, the dead-letter exchange).
THEOREM GivenUp == ConsumerSpec => []GivenUpAfterAllAttempts
<1> USE ConstantsAssumption
    DEF ConsumerTypeOK, CopySet, Queues, Places, Live, Move, StartsBehind, EnoughStarts
<1>1. ConsumerInit => EnoughStarts
  BY DEF ConsumerInit
<1>2. ConsumerTypeOK /\ EnoughStarts /\ [ConsumerNext]_consumerVars => EnoughStarts'
  <2> SUFFICES ASSUME ConsumerTypeOK, EnoughStarts, [ConsumerNext]_consumerVars PROVE EnoughStarts'
    OBVIOUS
  <2>1. ASSUME NEW m \in Msgs, Publish(m) PROVE EnoughStarts'
    BY <2>1 DEF Publish
  <2>2. ASSUME NEW s \in Slots, DelayExpires(s) PROVE EnoughStarts'
    BY <2>2 DEF DelayExpires
  <2>3. ASSUME NEW s \in Slots, NEW w \in Workers, DeliverCopy(s, w) PROVE EnoughStarts'
    BY <2>3 DEF DeliverCopy
  <2>4. ASSUME NEW s \in Slots, HandlerReturns(s) PROVE EnoughStarts'
    BY <2>4 DEF HandlerReturns, HoldsCopy
  <2>5. ASSUME NEW s \in Slots, AckHandled(s) PROVE EnoughStarts'
    BY <2>5 DEF AckHandled, HoldsCopy
  <2>6. ASSUME NEW s \in Slots, PublishRetry(s) PROVE EnoughStarts'
    BY <2>6 DEF PublishRetry, HoldsCopy
  <2>7. ASSUME NEW s \in Slots, AckRetried(s) PROVE EnoughStarts'
    BY <2>7 DEF AckRetried, HoldsCopy
  <2>8. ASSUME NEW s \in Slots, NackToDlq(s) PROVE EnoughStarts'
    BY <2>8 DEF NackToDlq, HoldsCopy
  <2>9. ASSUME NEW w \in Workers, ConsumerCrash(w) PROVE EnoughStarts'
    BY <2>9 DEF ConsumerCrash, Requeue
  <2>10. ASSUME NEW w \in Workers, Restart(w) PROVE EnoughStarts'
    BY <2>10 DEF Restart
  <2>11. ASSUME NEW w \in Workers, ConnectionClosed(w) PROVE EnoughStarts'
    BY <2>11 DEF ConnectionClosed, Requeue
  <2>12. CASE UNCHANGED consumerVars
    BY <2>12 DEF consumerVars
  <2> QED
    BY <2>1, <2>2, <2>3, <2>4, <2>5, <2>6, <2>7, <2>8, <2>9, <2>10, <2>11, <2>12
    DEF ConsumerNext, CopyStep
<1>3. ConsumerTypeOK /\ EnoughStarts => GivenUpAfterAllAttempts
  BY DEF GivenUpAfterAllAttempts
<1> QED
  BY <1>1, <1>2, <1>3, TypeCorrect, PTL DEF ConsumerSpec

-----------------------------------------------------------------------------
\* Strengthening of UndisturbedOnce: without disturbances
\* the one pending copy accounts for exactly the starts so far.
Undisturbed ==
  crashes + closes = 0 =>
    /\ \A s, t \in Slots :
         Pending(s) /\ Pending(t) /\ copy[s].msg = copy[t].msg => s = t
    /\ \A s \in Slots : Pending(s) => /\ copy[s].msg \notin Settled
                                     /\ starts[copy[s].msg] <= StartsBehind(copy[s])
    /\ handled \cap (parked \cup dropped) = {}
    /\ parked \cap dropped = {}
    /\ \A m \in Msgs : starts[m] <= MAX_RETRIES + 2

\* Retries alone never fork a message or run its handler more than allowed.
THEOREM UndisturbedOutcome == ConsumerSpec => []UndisturbedOnce
<1> USE ConstantsAssumption
    DEF ConsumerTypeOK, CopySet, Queues, Places, Live, Move, StartsBehind, Pending,
        Settled, Undisturbed, FromSent
<1>1. ConsumerInit => Undisturbed
  BY DEF ConsumerInit
<1>2. ConsumerTypeOK /\ FromSent /\ Undisturbed /\ [ConsumerNext]_consumerVars => Undisturbed'
  <2> SUFFICES ASSUME ConsumerTypeOK, FromSent, Undisturbed, [ConsumerNext]_consumerVars PROVE Undisturbed'
    OBVIOUS
  <2>1. ASSUME NEW m \in Msgs, Publish(m) PROVE Undisturbed'
    BY <2>1 DEF Publish
  <2>2. ASSUME NEW s \in Slots, DelayExpires(s) PROVE Undisturbed'
    BY <2>2 DEF DelayExpires
  <2>3. ASSUME NEW s \in Slots, NEW w \in Workers, DeliverCopy(s, w) PROVE Undisturbed'
    BY <2>3 DEF DeliverCopy
  <2>4. ASSUME NEW s \in Slots, HandlerReturns(s) PROVE Undisturbed'
    BY <2>4 DEF HandlerReturns, HoldsCopy
  <2>5. ASSUME NEW s \in Slots, AckHandled(s) PROVE Undisturbed'
    BY <2>5 DEF AckHandled, HoldsCopy
  <2>6. ASSUME NEW s \in Slots, PublishRetry(s) PROVE Undisturbed'
    BY <2>6 DEF PublishRetry, HoldsCopy
  <2>7. ASSUME NEW s \in Slots, AckRetried(s) PROVE Undisturbed'
    BY <2>7 DEF AckRetried, HoldsCopy
  <2>8. ASSUME NEW s \in Slots, NackToDlq(s) PROVE Undisturbed'
    BY <2>8 DEF NackToDlq, HoldsCopy
  <2>9. ASSUME NEW w \in Workers, ConsumerCrash(w) PROVE Undisturbed'
    BY <2>9 DEF ConsumerCrash, Requeue
  <2>10. ASSUME NEW w \in Workers, Restart(w) PROVE Undisturbed'
    BY <2>10 DEF Restart
  <2>11. ASSUME NEW w \in Workers, ConnectionClosed(w) PROVE Undisturbed'
    BY <2>11 DEF ConnectionClosed, Requeue
  <2>12. CASE UNCHANGED consumerVars
    BY <2>12 DEF consumerVars
  <2> QED
    BY <2>1, <2>2, <2>3, <2>4, <2>5, <2>6, <2>7, <2>8, <2>9, <2>10, <2>11, <2>12
    DEF ConsumerNext, CopyStep
<1>3. Undisturbed => UndisturbedOnce
  BY DEF UndisturbedOnce
<1> QED
  BY <1>1, <1>2, <1>3, TypeCorrect, FromSentInvariant, PTL DEF ConsumerSpec
=============================================================================
