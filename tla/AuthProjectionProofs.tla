------------------------- MODULE AuthProjectionProofs -------------------------
(***************************************************************************)
(* The auth projection keeps its promise, for any projects, keys, batches, *)
(* edits and faults: AuthInv is inductive, what it implies, and the        *)
(* refinement of BoundedCopy.  The types and what the operators With, Max, *)
(* Version, apply and Queue return come first.                             *)
(***************************************************************************)
EXTENDS AuthProjectionInvariant, FiniteSetTheorems, TLAPS

-----------------------------------------------------------------------------
(* Numbers and finite sets. *)

LEMMA LeastNat ==
  ASSUME NEW T \in SUBSET Nat, T # {}
  PROVE  \E n \in T : \A m \in T : n <= m
<1> DEFINE R == OpToRel(<, Nat)
<1>1. IsWellFoundedOn(R, Nat)
  BY NatLessThanWellFounded
<1>2. \A m, n \in Nat : m < n => <<m, n>> \in R
  BY DEF OpToRel
<1> HIDE DEF R
<1>3. PICK n \in T : \A m \in T : ~(<<m, n>> \in R)
  BY <1>1, WFMin
<1>4. \A m \in T : ~(m < n)
  BY <1>2, <1>3, Zenon
<1>. QED  BY <1>4

LEMMA MaxOfBounded ==
  ASSUME NEW S \in SUBSET Nat, NEW b \in Nat, S # {}, \A s \in S : s <= b
  PROVE  Max(S) \in S
<1> DEFINE T == {n \in Nat : b - n \in S}
<1>1. PICK n \in T : \A m \in T : n <= m
  <2>1. PICK s \in S : TRUE
    OBVIOUS
  <2>2. b - s \in T
    OBVIOUS
  <2>. QED  BY <2>2, LeastNat
<1>2. \A y \in S : b - n >= y
  <2>1. \A y \in S : b - y \in T
    OBVIOUS
  <2>2. \A y \in S : n <= b - y
    <3> HIDE DEF T
    <3>. QED  BY <1>1, <2>1
  <2>. QED  BY <2>2
<1>. QED  BY <1>2 DEF Max

LEMMA MaxOfTwo ==
  ASSUME NEW m \in Nat, NEW n \in Nat
  PROVE  Max({m, n}) = IF m >= n THEN m ELSE n
<1>1. PICK b \in Nat : m <= b /\ n <= b
  OBVIOUS
<1> DEFINE x == IF m >= n THEN m ELSE n
<1>2. x \in {m, n} /\ \A y \in {m, n} : x >= y
  OBVIOUS
<1>3. Max({m, n}) \in {m, n} /\ \A y \in {m, n} : Max({m, n}) >= y
  BY <1>2 DEF Max
<1>. QED  BY <1>3

LEMMA GoneIsLast == Gone \in Nat /\ Gone = MaxEdits + 2 /\ MaxEdits \in Nat
BY AuthProjectionAssumption DEF Gone

\* Records with bounded ids are finitely many.
LEMMA BoundedRecords ==
  ASSUME NEW S \in SUBSET Change, NEW b \in Nat, \A c \in S : c.id \in 1 .. b
  PROVE  IsFiniteSet(S)
<1> DEFINE T == (1 .. b) \X Row
           f == [c \in S |-> <<c.id, c.row>>]
<1>1. IsFiniteSet(1 .. b)
  BY FS_Interval
<1>2. IsFiniteSet(T)
  BY <1>1, FS_Product, AuthProjectionAssumption DEF AuthProjectionAssumption
<1>3. f \in Injection(S, T)
  BY DEF Change, Injection, IsInjective
<1>. QED  BY <1>2, <1>3, FS_Injection

-----------------------------------------------------------------------------
(* A row and what leaves with it. *)

LEMMA WithSelf == \A r : r \in With(r)
BY DEF With

LEMMA WithRows ==
  ASSUME NEW r \in Row
  PROVE  With(r) \subseteq Row
BY DEF With, Members, Row

\* Only a project takes others along, and those are its keys and branches.
LEMMA WithOther ==
  ASSUME NEW r \in Row, NEW s \in With(r), s # r
  PROVE  /\ r \in Project /\ s \in Member /\ ProjectOf[s] = r
         /\ With(s) = {s}
BY AuthProjectionAssumption DEF With, Members, AuthProjectionAssumption

LEMMA WithProject ==
  ASSUME NEW m \in Member
  PROVE  ProjectOf[m] \in Row /\ ProjectOf[m] \in Project /\ m \in With(ProjectOf[m])
BY AuthProjectionAssumption DEF With, Members, Row, AuthProjectionAssumption

LEMMA WithWithin ==
  ASSUME NEW r \in Row, NEW s \in With(r)
  PROVE  With(s) \subseteq With(r)
BY WithOther, WithSelf

-----------------------------------------------------------------------------
(* Deliveries. *)

\* The version at which a row is delivered is the id of a change of it.
LEMMA VersionOfChange ==
  ASSUME NEW d \in Delivery, NEW b \in Nat, \A c \in d.changes : c.id \in 1 .. b,
         NEW r \in Named(d)
  PROVE  \E c \in d.changes : c.row = r /\ Version(d, r) = c.id
<1> DEFINE S == {c.id : c \in {e \in d.changes : e.row = r}}
<1>1. S \in SUBSET Nat /\ S # {} /\ \A s \in S : s <= b
  BY DEF Named
<1>2. Max(S) \in S
  BY <1>1, MaxOfBounded
<1>. QED  BY <1>2 DEF Version

\* Removed are the rows that are gone, and what leaves with them.
LEMMA RemovedRows ==
  ASSUME NEW d, NEW r
  PROVE  r \in Removed(d) <=> \E s \in Named(d) : d.rows[s] = Gone /\ r \in With(s)
BY DEF Removed

LEMMA IdleType == Idle \in Delivery /\ Unchecked \in Check /\ NoTransaction \in [id : Nat, content : 0 .. Gone]
BY GoneIsLast DEF Idle, Delivery, State, NoContents, Unchecked, Check, NoTransaction

LEMMA StepType ==
  ASSUME NEW d \in Delivery, NEW h \in State
  PROVE  /\ [d EXCEPT !.step = "applied"] \in Delivery
         /\ [d EXCEPT !.step = "emptied", !.at = h] \in Delivery
         /\ d.at \in State /\ d.rows \in [Row -> 0 .. Gone] /\ d.changes \subseteq Change
BY DEF Delivery

LEMMA ApplyType ==
  ASSUME TypeOK, NEW d \in Delivery, NEW b \in Nat, \A c \in d.changes : c.id \in 1 .. b
  PROVE  apply(d) \in [Row -> Copied]
<1>1. SUFFICES ASSUME NEW r \in Row, r \in Named(d), r \notin Removed(d)
               PROVE  [content |-> d.rows[r], version |-> Version(d, r)] \in Copied
  <2>1. Missing \in Copied
    BY GoneIsLast DEF Missing, Copied
  <2>2. copy \in [Row -> Copied]
    BY DEF TypeOK
  <2>. QED  BY <1>1, <2>1, <2>2 DEF apply
<1>2. d.rows[r] \in 0 .. Gone /\ d.rows[r] # Gone
  <2>1. d.rows[r] # Gone
    BY <1>1, WithSelf, RemovedRows
  <2>. QED  BY <2>1 DEF Delivery
<1>3. Version(d, r) \in Nat
  BY VersionOfChange, <1>1
<1>. QED  BY <1>2, <1>3, GoneIsLast DEF Copied

LEMMA ApplyInRegionType ==
  ASSUME TypeOK, NEW d \in Delivery, NEW b \in Nat, \A c \in d.changes : c.id \in 1 .. b,
         ApplyInRegion(d)
  PROVE  /\ copy' \in [Row -> Copied] /\ region' \in RegionState
         /\ floor' \in [Row -> Contents]
         /\ epochs' \in Nat /\ overtaken' \subseteq Row /\ lost' \subseteq Row
<1>1. copy' \in [Row -> Copied]
  BY ApplyType DEF ApplyInRegion
<1>2. region' \in RegionState
  <2>1. (region.marked \/ d.drained) \in BOOLEAN
    OBVIOUS
  <2>2. region \in RegionState /\ region.round + 1 \in Nat
    BY DEF TypeOK, RegionState
  <2>. QED  BY <2>1, <2>2 DEF ApplyInRegion, RegionState
<1>3. floor' \in [Row -> Contents]
  <2>1. \A r \in Row : floor[r] \in Contents /\ d.rows[r] \in 0 .. Gone
    BY DEF TypeOK, Delivery
  <2>2. \A r \in Row : Max({floor[r], d.rows[r]}) \in Contents
    BY <2>1, MaxOfTwo, GoneIsLast DEF Contents
  <2>. QED  BY <2>2 DEF ApplyInRegion, TypeOK
<1>. QED  BY <1>1, <1>2, <1>3 DEF ApplyInRegion, TypeOK

LEMMA EmptyRegionType ==
  ASSUME TypeOK, NEW d, EmptyRegion(d)
  PROVE  /\ copy' \in [Row -> Copied] /\ region' \in RegionState
         /\ epochs' \in Nat /\ UNCHANGED <<floor, overtaken, lost>>
BY GoneIsLast DEF EmptyRegion, TypeOK, Missing, Copied, RegionState, history

-----------------------------------------------------------------------------
(* Rows queued. *)

\* What is queued goes under the next ids.
LEMMA QueueIds ==
  ASSUME TypeOK, NEW rows \in SUBSET Row, Queue(rows)
  PROVE  /\ pending' \subseteq Change /\ pending \subseteq pending'
         /\ nextId' \in Nat /\ nextId <= nextId'
         /\ \A c \in pending' \ pending : c.row \in rows /\ c.id \in nextId .. nextId' - 1
         /\ \A r \in rows : \E c \in pending' : c.row = r
         /\ overtaken' = overtaken \cup {r \in rows : ~Free(r)}
<1> DEFINE Before(r) == {s \in rows : Rank[s] < Rank[r]}
<1>1. IsFiniteSet(rows)
  BY FS_Subset, AuthProjectionAssumption DEF AuthProjectionAssumption
<1>2. Cardinality(rows) \in Nat
  BY <1>1, FS_CardinalityType
<1>3. ASSUME NEW r \in rows
      PROVE  Cardinality(Before(r)) \in Nat /\ Cardinality(Before(r)) < Cardinality(rows)
  <2>1. Before(r) \in SUBSET rows /\ r \notin Before(r)
    BY AuthProjectionAssumption DEF AuthProjectionAssumption
  <2>2. IsFiniteSet(Before(r)) /\ Cardinality(Before(r)) <= Cardinality(rows)
        /\ Cardinality(Before(r)) # Cardinality(rows)
    BY <1>1, <2>1, FS_Subset
  <2>3. Cardinality(Before(r)) \in Nat
    BY <2>2, FS_CardinalityType
  <2>. QED  BY <1>2, <2>2, <2>3
<1>4. nextId \in Nat /\ pending \subseteq Change
  BY DEF TypeOK
<1>5. /\ pending' = pending \cup {[id |-> nextId + Cardinality(Before(r)), row |-> r] : r \in rows}
      /\ nextId' = nextId + Cardinality(rows)
  BY DEF Queue
<1> HIDE DEF Before
<1>6. \A r \in rows : /\ nextId + Cardinality(Before(r)) \in Nat
                      /\ nextId + Cardinality(Before(r)) \in nextId .. nextId' - 1
  BY <1>2, <1>3, <1>4, <1>5
<1>7. pending' \subseteq Change
  BY <1>4, <1>5, <1>6 DEF Change
<1>8. \A c \in pending' \ pending : c.row \in rows /\ c.id \in nextId .. nextId' - 1
  BY <1>5, <1>6
<1>9. ASSUME NEW r \in rows PROVE \E c \in pending' : c.row = r
  <2>1. [id |-> nextId + Cardinality(Before(r)), row |-> r] \in pending'
    BY <1>5
  <2>. QED  BY <2>1
<1>10. pending \subseteq pending' /\ nextId' \in Nat /\ nextId <= nextId'
  BY <1>2, <1>4, <1>5
<1>11. overtaken' = overtaken \cup {r \in rows : ~Free(r)}
  BY DEF Queue
<1>. QED  BY <1>7, <1>8, <1>9, <1>10, <1>11

LEMMA QueueType ==
  ASSUME TypeOK, NEW rows \in SUBSET Row, Queue(rows)
  PROVE  pending' \subseteq Change /\ nextId' \in Nat /\ overtaken' \subseteq Row
BY QueueIds DEF TypeOK

-----------------------------------------------------------------------------
(* Steps. *)

LEMMA TypeInit == ASSUME Init PROVE TypeOK
<1>1. Missing \in Copied
  BY GoneIsLast DEF Missing, Copied
<1>2. NoBackup \in Backups
  BY DEF Backups
<1>. QED  BY <1>1, <1>2, IdleType, GoneIsLast, AuthProjectionAssumption
          DEF AuthProjectionAssumption, Init, TypeOK, Contents, State, RegionState

\* What the invariant adds to the types that types need: transactions hold
\* contents, and ids are bounded.
LEMMA TypedHome ==
  ASSUME AuthInv
  PROVE  /\ TypeOK
         /\ nextId - 1 \in Nat
         /\ \A r \in Row : ~Free(r) => open[r].content \in Contents
         /\ \A c \in delivery.changes : c.id \in 1 .. nextId - 1
         /\ \A c \in orphan.changes : c.id \in 1 .. nextId - 1
<1>1. /\ TypeOK /\ edits \in 0 .. MaxEdits /\ nextId \in Nat
      /\ \A r \in Row : row[r] \in Contents
  BY DEF AuthInv, TypeOK
<1>2. \A r \in Row : ~Free(r) => open[r].content \in row[r] + 1 .. edits + 1 \cup {Gone}
  BY DEF AuthInv, HomeInv, OpenFits
<1>3. \A r \in Row : ~Free(r) => open[r].content \in Contents
  BY <1>1, <1>2, GoneIsLast DEF Contents
<1>4. nextId >= 1
  BY DEF AuthInv, HomeInv
<1>5. /\ \A c \in delivery.changes : c.id \in 1 .. nextId - 1
      /\ \A c \in orphan.changes : c.id \in 1 .. nextId - 1
  BY DEF AuthInv, HomeInv, Earlier
<1>. QED  BY <1>1, <1>3, <1>4, <1>5

LEMMA TypeHome ==
  ASSUME AuthInv, NEW r \in Row, NEW content \in {edits + 2, Gone},
         Write(r, content) \/ Commit(r) \/ Confirm(r)
  PROVE  TypeOK'
<1>. USE TypedHome, GoneIsLast DEF TypeOK, Contents, homeVars, regionVars, history
<1>1. CASE Write(r, content)
  <2>1. [id |-> nextId, content |-> content] \in [id : Nat, content : 0 .. Gone]
    BY <1>1 DEF Write
  <2>2. nextId' \in Nat /\ edits' \in 0 .. MaxEdits
    BY <1>1 DEF Write
  <2>. QED  BY <1>1, <2>1, <2>2 DEF Write
<1>2. CASE Commit(r)
  <2>1. row' \in [Row -> Contents]
    BY <1>2 DEF Commit
  <2>2. pending' \subseteq Change
    BY <1>2 DEF Commit, Change
  <2>3. open' \in [Row -> [id : Nat, content : 0 .. Gone]]
    BY <1>2, IdleType DEF Commit
  <2>. QED  BY <1>2, <2>1, <2>2, <2>3 DEF Commit
<1>3. CASE Confirm(r)
  BY <1>3 DEF Confirm
<1>. QED  BY <1>1, <1>2, <1>3

LEMMA TypeRecordLost ==
  ASSUME AuthInv, NEW c \in pending, RecordLost(c)
  PROVE  TypeOK'
<1>1. c.row \in Row
  BY TypedHome DEF TypeOK, Change
<1>. QED  BY <1>1, WithRows, TypedHome, AuthProjectionAssumption
          DEF TypeOK, RecordLost, Fault, regionVars, AuthProjectionAssumption

LEMMA StaleType ==
  ASSUME NEW c \in Check
  PROVE  [c EXCEPT !.step = "stale", !.content = 0] \in Check
<1>1. 0 \in 0 .. Gone
  BY GoneIsLast
<1>. QED  BY <1>1 DEF Check

LEMMA TypeCheck ==
  ASSUME AuthInv,
         (\E r \in Row : ReadCopy(r)) \/ ReadHome \/ QueueStale
  PROVE  TypeOK'
<1>. USE TypedHome DEF homeVars, regionVars, history
<1>1. ASSUME NEW r \in Row, ReadCopy(r) PROVE TypeOK'
  <2>1. copy[r].content \in 0 .. Gone
    BY GoneIsLast DEF TypeOK, Copied
  <2>2. check' \in Check
    BY <1>1, <2>1 DEF ReadCopy, Check
  <2>. QED  BY <1>1, <2>2 DEF ReadCopy, TypeOK
<1>2. CASE ReadHome
  <2>1. check' \in Check
    <3>1. [check EXCEPT !.step = "stale", !.content = 0] \in Check
      BY StaleType DEF TypeOK
    <3>. QED  BY <1>2, <3>1, IdleType DEF ReadHome
  <2>. QED  BY <1>2, <2>1 DEF ReadHome, TypeOK
<1>3. CASE QueueStale
  <2>1. check.rows \in SUBSET Row
    BY DEF TypeOK, Check
  <2>2. pending' \subseteq Change /\ nextId' \in Nat /\ overtaken' \subseteq Row
    BY <1>3, <2>1, QueueType DEF QueueStale, TypeOK
  <2>. QED  BY <1>3, <2>2, IdleType DEF QueueStale, TypeOK
<1>. QED  BY <1>1, <1>2, <1>3

LEMMA TypeDelivery ==
  ASSUME AuthInv, Begin \/ Apply \/ CopyMoved \/ DeliveryFails \/ Resync
  PROVE  TypeOK'
<1>. USE TypedHome DEF homeVars, regionVars, history
<1>1. delivery \in Delivery /\ home \in State
  BY DEF TypeOK
<1>2. CASE Begin
  <2>1. row \in [Row -> 0 .. Gone] /\ Changes \subseteq Change
    BY DEF TypeOK, Contents, Changes
  <2>2. delivery' \in Delivery
    BY <1>1, <1>2, <2>1 DEF Begin, Delivery, Drained
  <2>. QED  BY <1>2, <2>2 DEF Begin, TypeOK
<1>3. CASE Apply
  BY <1>1, <1>3, StepType, ApplyInRegionType DEF Apply, TypeOK
<1>4. CASE CopyMoved \/ DeliveryFails
  BY <1>4, IdleType DEF CopyMoved, DeliveryFails, TypeOK
<1>5. CASE Resync
  <2>1. [epoch |-> epochs', round |-> 0] \in State /\ epochs' \in Nat
    BY <1>5, EmptyRegionType DEF Resync, State
  <2>. QED  BY <1>1, <1>5, <2>1, StepType, EmptyRegionType DEF Resync, TypeOK
<1>. QED  BY <1>2, <1>3, <1>4, <1>5

\* Home's part of a delivery or of a resync.
LEMMA RecordType ==
  ASSUME AuthInv, RecordDelivered \/ RecordResync
  PROVE  /\ pending' \subseteq Change /\ nextId' \in Nat /\ home' \in State
         /\ overtaken' \subseteq Row
<1>. USE TypedHome
<1>1. CASE RecordDelivered
  BY <1>1 DEF RecordDelivered, TypeOK, State
<1>2. CASE RecordResync
  BY <1>2, QueueType, StepType DEF RecordResync, TypeOK
<1>. QED  BY <1>1, <1>2

LEMMA TypeCommit ==
  ASSUME AuthInv, CommitDelivery \/ CommitResync \/ LateLock
  PROVE  TypeOK'
<1>. USE TypedHome DEF regionVars
<1>1. CASE CommitDelivery \/ CommitResync
  BY <1>1, RecordType, IdleType DEF CommitDelivery, CommitResync, TypeOK
<1>2. CASE LateLock
  <2>1. row \in [Row -> 0 .. Gone] /\ home \in State
    BY DEF TypeOK, Contents
  <2>2. orphan' \in Delivery
    BY <1>2, <2>1, IdleType DEF LateLock, Idle, Delivery
  <2>3. faults' \in 0 .. MaxFaults
    BY <1>2, AuthProjectionAssumption DEF LateLock, Fault, TypeOK, AuthProjectionAssumption
  <2>. QED  BY <1>2, <2>2, <2>3, RecordType, IdleType DEF LateLock, TypeOK
<1>. QED  BY <1>1, <1>2

LEMMA TypeOrphan ==
  ASSUME AuthInv, HomeLost \/ OrphanEnds
  PROVE  TypeOK'
<1>. USE TypedHome DEF homeVars, regionVars, history
<1>1. CASE HomeLost
  <2>1. faults' \in 0 .. MaxFaults
    BY <1>1, AuthProjectionAssumption DEF HomeLost, Fault, TypeOK, AuthProjectionAssumption
  <2>. QED  BY <1>1, <2>1, IdleType DEF HomeLost, TypeOK
<1>2. CASE OrphanEnds
  <2>1. orphan \in Delivery
    BY DEF TypeOK
  <2>2. /\ copy' \in [Row -> Copied] /\ region' \in RegionState /\ epochs' \in Nat
        /\ floor' \in [Row -> Contents] /\ overtaken' \subseteq Row /\ lost' \subseteq Row
    <3>1. CASE ApplyInRegion(orphan)
      BY <3>1, <2>1, ApplyInRegionType
    <3>2. CASE EmptyRegion(orphan)
      BY <3>2, EmptyRegionType DEF TypeOK
    <3>3. CASE UNCHANGED <<regionVars, epochs, history>>
      BY <3>3 DEF TypeOK
    <3>. QED  BY <1>2, <3>1, <3>2, <3>3 DEF OrphanEnds
  <2>. QED  BY <1>2, <2>2, IdleType DEF OrphanEnds, TypeOK
<1>. QED  BY <1>1, <1>2

\* What the backup holds.
LEMMA BackupType ==
  ASSUME TypeOK
  PROVE  /\ backup.of = "home" =>
              /\ backup.tables.row \in [Row -> Contents] /\ backup.tables.pending \subseteq Change
              /\ backup.tables.nextId \in Nat /\ backup.tables.home \in State
         /\ backup.of = "region" =>
              backup.tables.copy \in [Row -> Copied] /\ backup.tables.region \in RegionState
<1>1. backup \in Backups
  BY DEF TypeOK
<1>. QED  BY <1>1 DEF Backups, NoBackup

LEMMA TypeRestore ==
  ASSUME AuthInv, TakeBackup \/ RestoreHome \/ RestoreRegion
  PROVE  TypeOK'
<1>. USE TypedHome DEF homeVars, regionVars, history
<1>1. CASE TakeBackup
  <2>1. backup' \in Backups
    BY <1>1 DEF TakeBackup, Backups, Home, Region, TypeOK
  <2>. QED  BY <1>1, <2>1 DEF TakeBackup, TypeOK
<1>2. NoBackup \in Backups
  BY DEF Backups
<1>3. Fault => faults' \in 0 .. MaxFaults
  BY AuthProjectionAssumption DEF Fault, TypeOK, AuthProjectionAssumption
<1>4. region \in RegionState => [region EXCEPT !.marked = FALSE] \in RegionState
  BY DEF RegionState
<1>5. CASE RestoreHome
  <2>1. open' \in [Row -> [id : Nat, content : 0 .. Gone]]
    BY <1>5, IdleType DEF RestoreHome
  <2>. QED  BY <1>2, <1>3, <1>4, <1>5, <2>1, BackupType DEF RestoreHome, TypeOK
<1>6. CASE RestoreRegion
  <2>1. region' \in RegionState
    BY <1>6, BackupType DEF RestoreRegion, RegionState
  <2>. QED  BY <1>2, <1>3, <1>6, <2>1, BackupType DEF RestoreRegion, TypeOK
<1>. QED  BY <1>1, <1>5, <1>6

\* Every step keeps the types.
LEMMA TypeStep ==
  ASSUME AuthInv, [Next]_vars
  PROVE  TypeOK'
<1>1. CASE UNCHANGED vars
  BY <1>1, TypedHome DEF TypeOK, vars, homeVars, regionVars, history
<1>. QED  BY <1>1, TypeHome, TypeRecordLost, TypeCheck, TypeDelivery, TypeCommit, TypeOrphan, TypeRestore
          DEF Next, Deliver


-----------------------------------------------------------------------------
(* Rows whose record was not removed. *)

LEMMA SafeKept == Safe \subseteq Kept /\ Kept \subseteq Row
BY DEF Safe, Kept

LEMMA KeptShrinks ==
  ASSUME lost \subseteq lost', overtaken \subseteq overtaken'
  PROVE  Kept' \subseteq Kept /\ Safe' \subseteq Safe /\ Safe' \subseteq Kept'
BY DEF Safe, Kept

\* A kept row's project is kept.
LEMMA KeptTogether ==
  ASSUME HomeInv, NEW r \in Row, NEW s \in With(r), s \in Kept
  PROVE  r \in Kept
BY DEF HomeInv, Kept

LEMMA CurrentShrinks ==
  ASSUME NEW rows, NEW records, NEW copied, Current(Kept, Safe, rows, records, copied),
         Kept' \subseteq Kept, Safe' \subseteq Safe
  PROVE  Current(Kept', Safe', rows, records, copied)
BY DEF Current

LEMMA InStepShrinks ==
  ASSUME NEW rows, NEW opened, NEW records, NEW next, NEW copied,
         InStep(Kept, Safe, rows, opened, records, next, copied),
         Kept' \subseteq Kept, Safe' \subseteq Safe
  PROVE  InStep(Kept', Safe', rows, opened, records, next, copied)
BY CurrentShrinks DEF InStep, Passes

-----------------------------------------------------------------------------
(* Steps of home. Rows that change are recorded, and records that go take    *)
(* their rows out of the promise.                                            *)

\* What the changes S do not bring up to date is still, or then, recorded.
Follows(S) ==
  \A r \in Kept' :
    /\ RecordedIn(r, row, pending \ S) => RecordedIn(r, row', pending' \ S)
    /\ row'[r] = row[r] \/ RecordedIn(r, row', pending' \ S)

\* Records are added under ids drawn now, or when their transaction began.
Records ==
  /\ nextId <= nextId'
  /\ \A c \in pending' : \/ c \in pending \/ c.id >= nextId
                         \/ open[c.row] # NoTransaction /\ c.id = open[c.row].id
  /\ \A c \in pending \ pending' : c.row \in lost'
  /\ \A r \in Row : open'[r] = open[r] \/ open'[r] = NoTransaction \/ open'[r].id >= nextId

HomeMoves ==
  /\ Records
  /\ edits <= edits' /\ \A r \in Row : row[r] <= row'[r]
  /\ lost \subseteq lost' /\ overtaken \subseteq overtaken'
  /\ Follows({}) /\ Follows(delivery.changes) /\ Follows(orphan.changes)
  /\ UNCHANGED <<home, copy, region, delivery, orphan, epochs, floor, backup>>

LEMMA CurrentFollows ==
  ASSUME NEW S, NEW copied, Follows(S),
         Kept' \subseteq Kept, Safe' \subseteq Safe, Safe' \subseteq Kept',
         Current(Kept, Safe, row, pending \ S, copied)
  PROVE  Current(Kept', Safe', row', pending' \ S, copied)
BY DEF Follows, Current

LEMMA InStepFollows ==
  ASSUME TypeOK, TypeOK', Records, NEW S, NEW copied \in [Row -> Copied], Follows(S),
         Kept' \subseteq Kept, Safe' \subseteq Safe, Safe' \subseteq Kept',
         InStep(Kept, Safe, row, open, pending \ S, nextId, copied)
  PROVE  InStep(Kept', Safe', row', open', pending' \ S, nextId', copied)
<1>1. Current(Kept', Safe', row', pending' \ S, copied)
  BY CurrentFollows DEF InStep
<1>2. Passes(Safe', open', pending' \ S, nextId', copied)
  <2> SUFFICES ASSUME NEW r \in Safe'
               PROVE  /\ copied[r].version < nextId'
                      /\ \A c \in pending' \ S : c.row = r => copied[r].version < c.id
                      /\ open'[r] # NoTransaction => copied[r].version < open'[r].id
    BY DEF Passes
  <2>1. r \in Safe /\ r \in Row
    BY SafeKept
  <2>2. /\ copied[r].version \in Nat /\ nextId \in Nat /\ nextId' \in Nat
        /\ open[r].id \in Nat /\ open'[r].id \in Nat
        /\ \A c \in pending' : c.id \in Nat
    BY <2>1 DEF TypeOK, Copied, Change
  <2>3. /\ copied[r].version < nextId
        /\ \A c \in pending \ S : c.row = r => copied[r].version < c.id
        /\ open[r] # NoTransaction => copied[r].version < open[r].id
    BY <2>1 DEF InStep, Passes
  <2>. QED  BY <2>1, <2>2, <2>3 DEF Records
<1>. QED  BY <1>1, <1>2 DEF InStep

LEMMA SnapshotFollows ==
  ASSUME TypeOK, TypeOK', Records, NEW d \in Delivery, Follows(d.changes),
         Kept' \subseteq Kept, Safe' \subseteq Safe, Safe' \subseteq Kept',
         Earlier(d.changes, open, nextId, Safe),
         Snapshot(d, Kept, Safe, row, pending)
  PROVE  Snapshot(d, Kept', Safe', row', pending')
<1>1. \A c \in d.changes : c \in pending' \/ c.row \notin Kept'
  BY DEF Snapshot, Records, Kept
<1>2. ASSUME NEW c \in d.changes, NEW e \in pending' \ d.changes, c.row = e.row, c.row \in Safe'
      PROVE  c.id < e.id
  <2>1. /\ c.id \in Nat /\ e.id \in Nat /\ nextId \in Nat /\ c.row \in Row /\ c.row \in Safe
        /\ c.id \in 1 .. nextId - 1
    BY <1>2 DEF TypeOK, Delivery, Change, Earlier
  <2>2. CASE e \in pending
    BY <1>2, <2>1, <2>2 DEF Snapshot
  <2>3. CASE e.id >= nextId
    BY <2>1, <2>3
  <2>4. CASE open[e.row] # NoTransaction /\ e.id = open[e.row].id
    BY <1>2, <2>1, <2>4 DEF Earlier
  <2>. QED  BY <2>2, <2>3, <2>4 DEF Records
<1>3. \A r \in Kept' : d.rows[r] = row'[r] \/ RecordedIn(r, row', pending' \ d.changes)
  BY DEF Snapshot, Follows
<1>. QED  BY <1>1, <1>2, <1>3 DEF Snapshot

\* d may be applied in the next state.
ApplicableNext(d) ==
  /\ Snapshot(d, Kept', Safe', row', pending')
  /\ \A r \in Kept' : floor'[r] <= d.rows[r]
  /\ d.drained => Current(Kept', Safe', d.rows, d.changes, copy')

LEMMA ApplicableFollows ==
  ASSUME AuthInv, TypeOK', HomeMoves, NEW d \in Delivery, Follows(d.changes),
         Earlier(d.changes, open, nextId, Safe), Applicable(d)
  PROVE  ApplicableNext(d)
<1>1. Kept' \subseteq Kept /\ Safe' \subseteq Safe /\ Safe' \subseteq Kept'
  BY KeptShrinks DEF HomeMoves
<1>2. Snapshot(d, Kept', Safe', row', pending')
  BY <1>1, SnapshotFollows DEF Applicable, HomeMoves, AuthInv
<1>3. d.drained => Current(Kept', Safe', d.rows, d.changes, copy')
  BY <1>1, CurrentShrinks DEF Applicable, HomeMoves
<1>. QED  BY <1>1, <1>2, <1>3 DEF Applicable, ApplicableNext, HomeMoves

LEMMA SnapshotFitsNext ==
  ASSUME TypeOK, TypeOK', NEW d \in Delivery, SnapshotFits(d, row, edits),
         edits <= edits', \A r \in Row : row[r] <= row'[r]
  PROVE  SnapshotFits(d, row', edits')
<1> SUFFICES ASSUME d.step # "idle"
             PROVE  /\ RowsFit(d.rows, edits')
                    /\ \A r \in Row : d.rows[r] \in Contents /\ d.rows[r] <= row'[r]
  BY DEF SnapshotFits
<1>1. /\ edits \in Nat /\ edits' \in Nat
      /\ \A r \in Row : row[r] \in Nat /\ row'[r] \in Nat /\ d.rows[r] \in Nat
  BY GoneIsLast DEF TypeOK, Contents, Delivery
<1>2. RowsFit(d.rows, edits) /\ \A r \in Row : d.rows[r] \in Contents /\ d.rows[r] <= row[r]
  BY DEF SnapshotFits
<1>3. RowsFit(d.rows, edits')
  BY <1>1, <1>2 DEF RowsFit
<1>4. \A r \in Row : d.rows[r] <= row'[r]
  BY <1>1, <1>2
<1>. QED  BY <1>2, <1>3, <1>4

\* Home's steps leave the rest of the invariant.

LEMMA HomeMovesFacts ==
  ASSUME AuthInv, HomeMoves
  PROVE  /\ TypeOK /\ Records
         /\ Kept' \subseteq Kept /\ Safe' \subseteq Safe /\ Safe' \subseteq Kept'
         /\ delivery \in Delivery /\ orphan \in Delivery /\ copy \in [Row -> Copied]
         /\ pending \ {} = pending /\ pending' \ {} = pending'
BY KeptShrinks DEF HomeMoves, AuthInv, TypeOK

LEMMA HomeMovesCopy ==
  ASSUME AuthInv, TypeOK', HomeMoves
  PROVE  CopyInv' /\ BackupInv'
<1>. USE HomeMovesFacts
<1>1. ASSUME NEW copied \in [Row -> Copied],
             InStep(Kept, Safe, row, open, pending, nextId, copied)
      PROVE  InStep(Kept', Safe', row', open', pending', nextId', copied)
  <2>1. Follows({})
    BY DEF HomeMoves
  <2>2. InStep(Kept, Safe, row, open, pending \ {}, nextId, copied)
    BY <1>1
  <2>3. InStep(Kept', Safe', row', open', pending' \ {}, nextId', copied)
    BY <2>1, <2>2, InStepFollows
  <2>. QED  BY <2>3
<1>2. CopyInv'
  BY <1>1 DEF CopyInv, AuthInv, HomeMoves
<1>3. ASSUME backup.of = "home" PROVE BackupOfHome(backup.tables)'
  <2>1. /\ BackupOfHome(backup.tables)
        /\ backup.tables.row \in [Row -> Contents]
    BY <1>3, BackupType DEF AuthInv, BackupInv
  <2>2. RowsFit(backup.tables.row, edits')
    BY <2>1, GoneIsLast DEF BackupOfHome, RowsFit, TypeOK, Contents, HomeMoves
  <2>. QED  BY <2>1, <2>2, InStepShrinks DEF BackupOfHome, HomeMoves
<1>4. ASSUME backup.of = "region" PROVE BackupOfRegion(backup.tables)'
  <2>1. /\ BackupOfRegion(backup.tables)
        /\ backup.tables.copy \in [Row -> Copied]
    BY <1>4, BackupType DEF AuthInv, BackupInv
  <2>. QED  BY <1>1, <2>1 DEF BackupOfRegion, HomeMoves
<1>5. UNCHANGED backup
  BY DEF HomeMoves
<1>. QED  BY <1>2, <1>3, <1>4, <1>5 DEF BackupInv

LEMMA HomeMovesDelivery ==
  ASSUME AuthInv, TypeOK', HomeMoves
  PROVE  DeliveryInv' /\ OrphanInv'
<1>. USE HomeMovesFacts
<1>1. /\ UNCHANGED <<home, copy, region, delivery, orphan, epochs>>
      /\ Follows(delivery.changes) /\ Follows(orphan.changes)
  BY DEF HomeMoves
<1>2. /\ Earlier(delivery.changes, open, nextId, Safe)
      /\ Earlier(orphan.changes, open, nextId, Safe)
      /\ SnapshotFits(delivery, row, edits) /\ SnapshotFits(orphan, row, edits)
  BY DEF AuthInv, HomeInv, DeliveryInv, OrphanInv
<1>3. SnapshotFits(delivery, row', edits') /\ SnapshotFits(orphan, row', edits')
  BY <1>2, SnapshotFitsNext DEF HomeMoves
<1>4. Applicable(delivery) => Applicable(delivery)'
  BY <1>1, <1>2, ApplicableFollows DEF ApplicableNext, Applicable
<1>5. Applicable(orphan) => Applicable(orphan)'
  BY <1>1, <1>2, ApplicableFollows DEF ApplicableNext, Applicable
<1>6. InStep(Kept, Safe, row, open, pending \ delivery.changes, nextId, copy)
        => InStep(Kept', Safe', row', open', pending' \ delivery.changes, nextId', copy)
  BY <1>1, InStepFollows
<1>7. DeliveryInv'
  BY <1>1, <1>3, <1>4, <1>6 DEF AuthInv, DeliveryInv
<1>8. OrphanInv'
  BY <1>1, <1>3, <1>5 DEF AuthInv, OrphanInv
<1>. QED  BY <1>7, <1>8

LEMMA HomeMovesMarked ==
  ASSUME AuthInv, TypeOK', HomeMoves
  PROVE  MarkedInv'
<1>. USE HomeMovesFacts
<1> SUFFICES ASSUME region.marked
             PROVE  /\ region'.epoch = home'.epoch
                    /\ Current(Kept', Safe', row', pending', copy')
                    /\ Answers(Kept', Safe', floor', row', copy')
  BY DEF MarkedInv, HomeMoves
<1>1. /\ UNCHANGED <<home, copy, region, floor>> /\ Follows({})
      /\ \A r \in Row : row[r] <= row'[r]
  BY DEF HomeMoves
<1>2. /\ region.epoch = home.epoch
      /\ Current(Kept, Safe, row, pending, copy)
      /\ Answers(Kept, Safe, floor, row, copy)
  BY DEF AuthInv, MarkedInv
<1>3. Current(Kept', Safe', row', pending' \ {}, copy)
  BY <1>1, <1>2, CurrentFollows
<1>4. \A r \in Row : /\ row[r] \in Nat /\ row'[r] \in Nat /\ floor[r] \in Nat
                     /\ copy[r].content \in Nat
  BY GoneIsLast DEF TypeOK, Contents, Copied
<1>5. \A r \in Row : copy[r].content \in floor[r] .. row[r] => copy[r].content \in floor[r] .. row'[r]
  BY <1>1, <1>4
<1>6. Answers(Kept', Safe', floor, row', copy)
  BY <1>2, <1>5, SafeKept DEF Answers
<1>. QED  BY <1>1, <1>2, <1>3, <1>6

LEMMA HomeMovesKeeps ==
  ASSUME AuthInv, TypeOK', HomeInv', HomeMoves
  PROVE  AuthInv'
BY HomeMovesCopy, HomeMovesDelivery, HomeMovesMarked DEF AuthInv

-----------------------------------------------------------------------------
(* Write. *)

LEMMA HomeTyped ==
  ASSUME AuthInv
  PROVE  /\ nextId \in Nat /\ nextId >= 1 /\ edits \in Nat /\ epochs \in Nat
         /\ \A r \in Row : /\ row[r] \in Nat /\ row[r] >= 1 /\ row[r] <= Gone
                           /\ floor[r] \in Nat /\ floor[r] <= row[r]
                           /\ open[r].id \in Nat /\ open[r].content \in Nat
                           /\ open[r].content <= Gone
         /\ \A c \in pending : c.id \in Nat /\ c.row \in Row
         /\ \A c \in delivery.changes : c.id \in Nat /\ c.row \in Row
         /\ \A c \in orphan.changes : c.id \in Nat /\ c.row \in Row
BY GoneIsLast DEF AuthInv, HomeInv, TypeOK, Contents, Change, Delivery

LEMMA FreeIsNothing == \A r : Free(r) <=> open[r] = NoTransaction
BY DEF Free

LEMMA HomeParts ==
  ASSUME AuthInv
  PROVE  /\ RowsFit(row, edits) /\ RecordsFit(pending, nextId)
         /\ \A r \in Row : open[r] # NoTransaction => OpenFits(r, open, row, nextId, edits)
         /\ Earlier(pending, open, nextId, Safe)
         /\ Earlier(delivery.changes, open, nextId, Safe)
         /\ Earlier(orphan.changes, open, nextId, Safe)
         /\ \A r \in Row : floor[r] <= row[r]
         /\ \A r \in lost : With(r) \subseteq lost
BY FreeIsNothing DEF AuthInv, HomeInv

LEMMA WriteHome ==
  ASSUME AuthInv, TypeOK', NEW r \in Row, NEW content \in {edits + 2, Gone}, Write(r, content)
  PROVE  HomeInv'
<1>. USE HomeTyped, GoneIsLast
<1>1. /\ UNCHANGED <<row, pending, delivery, orphan, floor, lost, overtaken>>
      /\ nextId' = nextId + 1 /\ edits' = edits + 1 /\ edits' <= MaxEdits
      /\ open[r] = NoTransaction /\ row[r] # Gone
      /\ r \in Member => open[ProjectOf[r]].content # Gone
      /\ content = Gone => \A m \in With(r) : open[m] = NoTransaction
  BY DEF Write, history, TypeOK, Free
<1>2. /\ open'[r] = [id |-> nextId, content |-> content]
      /\ \A s \in Row \ {r} : open'[s] = open[s]
  BY DEF Write, TypeOK
<1>3. open'[r] # NoTransaction
  BY <1>2 DEF NoTransaction
<1>4. RowsFit(row, edits')
  BY <1>1, HomeParts DEF RowsFit
<1>5. RecordsFit(pending, nextId')
  BY <1>1, HomeParts DEF RecordsFit
<1>6. \A s \in Row \ {r} : open'[s].id # nextId
  BY <1>2, HomeParts DEF OpenFits, NoTransaction
<1>7. OpenFits(r, open', row, nextId', edits')
  <2>1. nextId \in 1 .. nextId' - 1
    BY <1>1
  <2>2. content \in row[r] + 1 .. edits' + 1 \cup {Gone}
    BY <1>1, HomeParts DEF RowsFit
  <2>3. content = Gone => \A m \in With(r) \ {r} : open'[m] = NoTransaction
    BY <1>1, <1>2, WithRows
  <2>. QED  BY <1>1, <1>2, <1>6, <2>1, <2>2, <2>3 DEF OpenFits
<1>8. ASSUME NEW s \in Row \ {r}, open[s] # NoTransaction
      PROVE  OpenFits(s, open', row, nextId', edits')
  <2>1. OpenFits(s, open, row, nextId, edits)
    BY <1>8, HomeParts
  <2>2. open'[s].id \in 1 .. nextId' - 1 /\ open'[s].id # open'[r].id
    BY <1>1, <1>2, <2>1 DEF OpenFits
  <2>3. open'[s].content \in row[s] + 1 .. edits' + 1 \cup {Gone} /\ row[s] # Gone
    BY <1>1, <1>2, <2>1 DEF OpenFits
  <2>4. ASSUME open[s].content = Gone, NEW m \in With(s) \ {s} PROVE open'[m] = NoTransaction
    <3>1. m # r
      BY <1>1, <2>4, WithOther
    <3>2. open[m] = NoTransaction /\ m \in Row
      BY <2>1, <2>4, WithRows DEF OpenFits
    <3>. QED  BY <1>2, <3>1, <3>2
  <2>5. \A q \in Row : open'[q].id = open'[s].id => q = s
    BY <1>2, <2>1, <2>2 DEF OpenFits
  <2>. QED  BY <1>2, <2>2, <2>3, <2>4, <2>5 DEF OpenFits
<1>9. ASSUME NEW S, Earlier(S, open, nextId, Safe) PROVE Earlier(S, open', nextId', Safe)
  <2>1. \A c \in S : c.id \in 1 .. nextId - 1
    BY <1>9 DEF Earlier
  <2>2. \A c \in S : c.id \in 1 .. nextId' - 1 /\ c.id # nextId /\ c.id < nextId
    BY <1>1, <2>1
  <2>. QED  BY <1>2, <1>9, <2>2 DEF Earlier
<1>10. Safe' = Safe
  BY <1>1 DEF Safe
<1>11. nextId' >= 1
  BY <1>1
<1>12. \A s \in Row : open'[s] # NoTransaction => OpenFits(s, open', row', nextId', edits')
  BY <1>1, <1>2, <1>7, <1>8
<1>13. \A s \in Row : ~Free(s)' => OpenFits(s, open, row, nextId, edits)'
  BY <1>12 DEF Free
<1>. QED  BY <1>1, <1>4, <1>5, <1>9, <1>10, <1>11, <1>13, HomeParts DEF HomeInv

LEMMA WriteStep ==
  ASSUME AuthInv, TypeOK', NEW r \in Row, NEW content \in {edits + 2, Gone}, Write(r, content)
  PROVE  AuthInv'
<1>1. /\ UNCHANGED <<row, pending, home, copy, region, delivery, orphan, epochs, floor, lost, overtaken, backup>>
      /\ nextId' = nextId + 1 /\ edits' = edits + 1
  BY DEF Write, history, regionVars
<1>2. \A s \in Row : open'[s] = open[s] \/ open'[s].id >= nextId
  BY HomeTyped DEF Write, TypeOK
<1>3. Records
  BY <1>1, <1>2, HomeTyped DEF Records
<1>4. \A S : Follows(S)
  BY <1>1 DEF Follows
<1>5. edits <= edits' /\ \A s \in Row : row[s] <= row'[s]
  BY <1>1, HomeTyped
<1>6. HomeMoves
  BY <1>1, <1>3, <1>4, <1>5 DEF HomeMoves
<1>. QED  BY <1>6, WriteHome, HomeMovesKeeps

-----------------------------------------------------------------------------
(* Commit. *)

\* A commit changes its row, and with a project that goes what belongs to it.
LEMMA CommitRows ==
  ASSUME AuthInv, NEW r \in Row, Commit(r)
  PROVE  /\ OpenFits(r, open, row, nextId, edits)
         /\ row'[r] = open[r].content
         /\ \A s \in Row \ {r} : \/ row'[s] = row[s]
                                 \/ row'[s] = Gone /\ open[r].content = Gone /\ s \in With(r)
         /\ open[r].content = Gone => \A s \in With(r) : row'[s] = Gone
         /\ open'[r] = NoTransaction
         /\ \A s \in Row \ {r} : open'[s] = open[s]
BY HomeParts, WithRows, WithSelf DEF Commit, Free, AuthInv, TypeOK

LEMMA CommitHome ==
  ASSUME AuthInv, TypeOK', NEW r \in Row, Commit(r)
  PROVE  HomeInv' /\ \A s \in Row : row[s] <= row'[s]
<1>. USE HomeTyped, CommitRows, GoneIsLast
<1>1. /\ UNCHANGED <<nextId, edits, delivery, orphan, floor, lost, overtaken>>
      /\ pending' = pending \cup {[id |-> open[r].id, row |-> r]}
  BY DEF Commit, history
<1>2. /\ open[r].content \in row[r] + 1 .. edits + 1 \cup {Gone} /\ row[r] # Gone
      /\ open[r].id \in 1 .. nextId - 1
      /\ open[r].content = Gone => \A m \in With(r) \ {r} : open[m] = NoTransaction
      /\ \A s \in Row : open[s].id = open[r].id => s = r
  BY DEF OpenFits
<1>3. \A s \in Row : row[s] <= row'[s]
  BY <1>2
<1>4. RowsFit(row', edits)
  <2> SUFFICES ASSUME NEW s \in Row
               PROVE  /\ row'[s] <= edits + 1 \/ row'[s] = Gone
                      /\ row'[s] = Gone => \A m \in With(s) : row'[m] = Gone
    BY DEF RowsFit
  <2>1. row'[s] <= edits + 1 \/ row'[s] = Gone
    BY <1>2, HomeParts DEF RowsFit
  <2>2. ASSUME row'[s] = Gone, NEW m \in With(s) PROVE row'[m] = Gone
    <3>1. m \in Row
      BY WithRows
    <3>2. CASE s = r
      BY <2>2, <3>2
    <3>3. CASE s # r /\ row[s] = Gone
      <4>1. row[m] = Gone
        BY <3>3, HomeParts DEF RowsFit
      <4>2. row'[m] \in 1 .. Gone /\ row[m] <= row'[m]
        BY <1>3, <3>1 DEF TypeOK, Contents
      <4>. QED  BY <4>1, <4>2
    <3>4. CASE s # r /\ s \in With(r) /\ open[r].content = Gone
      BY <3>4, <2>2, WithOther
    <3>. QED  BY <2>2, <3>2, <3>3, <3>4
  <2>. QED  BY <2>1, <2>2
<1>5. RecordsFit(pending', nextId)
  BY <1>1, <1>2, HomeParts DEF RecordsFit
<1>6. ASSUME NEW s \in Row, open'[s] # NoTransaction
      PROVE  OpenFits(s, open', row', nextId, edits)
  <2>1. s # r /\ open'[s] = open[s] /\ OpenFits(s, open, row, nextId, edits)
    BY <1>6, HomeParts
  <2>2. row'[s] = row[s]
    BY <1>2, <1>6, <2>1
  <2>3. \A q \in Row : open'[q].id = open'[s].id => q = s
    BY <2>1 DEF OpenFits, NoTransaction
  <2>4. open'[s].content = Gone => \A m \in With(s) \ {s} : open'[m] = NoTransaction
    BY <2>1, WithRows DEF OpenFits
  <2>. QED  BY <2>1, <2>2, <2>3, <2>4 DEF OpenFits
<1>7. ASSUME NEW S, Earlier(S, open, nextId, Safe) PROVE Earlier(S, open', nextId, Safe)
  BY <1>7 DEF Earlier
<1>8. Earlier({[id |-> open[r].id, row |-> r]}, open', nextId, Safe)
  <2>1. \A s \in Row : open'[s] # NoTransaction => s # r /\ open[r].id # open'[s].id
    BY <1>2
  <2>. QED  BY <1>2, <2>1 DEF Earlier
<1>9. Earlier(pending', open', nextId, Safe)
  BY <1>1, <1>7, <1>8, HomeParts DEF Earlier
<1>10. Safe' = Safe
  BY <1>1 DEF Safe
<1>11. \A s \in Row : ~Free(s)' => OpenFits(s, open, row, nextId, edits)'
  BY <1>1, <1>6 DEF Free
<1>12. \A s \in Row : floor'[s] <= row'[s]
  <2>1. \A s \in Row : row'[s] \in Nat
    BY DEF TypeOK, Contents
  <2>. QED  BY <1>1, <1>3, <2>1
<1>. QED  BY <1>1, <1>3, <1>4, <1>5, <1>7, <1>9, <1>10, <1>11, <1>12, HomeParts DEF HomeInv

LEMMA CommitStep ==
  ASSUME AuthInv, TypeOK', NEW r \in Row, Commit(r)
  PROVE  AuthInv'
<1>1. /\ UNCHANGED <<nextId, edits, home, copy, region, delivery, orphan, epochs, floor, lost, overtaken, backup>>
      /\ pending' = pending \cup {[id |-> open[r].id, row |-> r]}
      /\ open[r] # NoTransaction
  BY DEF Commit, Free, history, regionVars
<1>2. Records
  BY <1>1, HomeTyped, CommitRows DEF Records
<1>3. ASSUME NEW S, [id |-> open[r].id, row |-> r] \notin S PROVE Follows(S)
  <2>1. [id |-> open[r].id, row |-> r] \in pending' \ S
    BY <1>1, <1>3
  <2>2. \A s \in Row : row[s] = Gone => row'[s] = Gone
    BY CommitRows, GoneIsLast DEF OpenFits
  <2>3. ASSUME NEW s \in Kept', RecordedIn(s, row, pending \ S)
        PROVE  RecordedIn(s, row', pending' \ S)
    <3>1. PICK c \in pending \ S : c.row = s \/ (s \in With(c.row) /\ row[c.row] = Gone)
      BY <2>3 DEF RecordedIn
    <3>2. c.row \in Row /\ c \in pending' \ S
      BY <1>1, HomeTyped
    <3>. QED  BY <2>2, <3>1, <3>2 DEF RecordedIn
  <2>4. ASSUME NEW s \in Kept', row'[s] # row[s]
        PROVE  RecordedIn(s, row', pending' \ S)
    <3>1. s \in Row
      BY DEF Kept
    <3>2. s = r \/ (s \in With(r) /\ row'[r] = Gone)
      BY <2>4, <3>1, CommitRows
    <3>. QED  BY <2>1, <3>2 DEF RecordedIn
  <2>. QED  BY <2>3, <2>4 DEF Follows
<1>4. \A c \in delivery.changes \cup orphan.changes : c.id # open[r].id
  BY <1>1, HomeParts DEF Earlier
<1>5. Follows({}) /\ Follows(delivery.changes) /\ Follows(orphan.changes)
  BY <1>3, <1>4
<1>6. HomeMoves
  BY <1>1, <1>2, <1>5, CommitHome, HomeTyped DEF HomeMoves
<1>. QED  BY <1>6, CommitHome, HomeMovesKeeps

-----------------------------------------------------------------------------
(* RecordLost. *)

LEMMA RecordLostStep ==
  ASSUME AuthInv, TypeOK', NEW c \in pending, RecordLost(c)
  PROVE  AuthInv'
<1>1. /\ UNCHANGED <<row, open, nextId, edits, home, copy, region, delivery, orphan, epochs, floor, overtaken, backup>>
      /\ pending' = pending \ {c} /\ lost' = lost \cup With(c.row)
      /\ c.row \in Row
  BY HomeTyped DEF RecordLost, Fault, regionVars
<1>2. Safe' \subseteq Safe
  BY <1>1 DEF Safe
<1>3. HomeInv'
  <2>1. ASSUME NEW S, Earlier(S, open, nextId, Safe) PROVE Earlier(S, open, nextId, Safe')
    BY <1>2, <2>1 DEF Earlier
  <2>2. Earlier(pending', open, nextId, Safe')
    BY <1>1, <2>1, HomeParts DEF Earlier
  <2>3. \A r \in lost' : With(r) \subseteq lost'
    <3>1. \A r \in With(c.row) : With(r) \subseteq With(c.row)
      BY <1>1, WithWithin
    <3>. QED  BY <1>1, <3>1, HomeParts
  <2>4. RecordsFit(pending', nextId)
    BY <1>1, HomeParts DEF RecordsFit
  <2>5. \A r \in Row : ~Free(r)' => OpenFits(r, open, row, nextId, edits)'
    BY <1>1, HomeParts DEF Free
  <2>. QED  BY <1>1, <2>1, <2>2, <2>3, <2>4, <2>5, HomeParts, HomeTyped DEF HomeInv
<1>4. Records
  BY <1>1, WithSelf, HomeTyped DEF Records
<1>5. ASSUME NEW S PROVE Follows(S)
  <2>1. ASSUME NEW r \in Kept', RecordedIn(r, row, pending \ S)
        PROVE  RecordedIn(r, row', pending' \ S)
    <3>1. r \notin With(c.row)
      BY <1>1 DEF Kept
    <3>2. PICK e \in pending \ S : e.row = r \/ (r \in With(e.row) /\ row[e.row] = Gone)
      BY <2>1 DEF RecordedIn
    <3>3. e # c
      BY <3>1, <3>2, WithSelf
    <3>. QED  BY <1>1, <3>2, <3>3 DEF RecordedIn
  <2>. QED  BY <1>1, <2>1 DEF Follows
<1>6. edits <= edits' /\ \A r \in Row : row[r] <= row'[r]
  BY <1>1, HomeTyped
<1>7. HomeMoves
  BY <1>1, <1>4, <1>5, <1>6 DEF HomeMoves
<1>. QED  BY <1>3, <1>7, HomeMovesKeeps

-----------------------------------------------------------------------------
(* Rows queued. *)

LEMMA QueueHome ==
  ASSUME AuthInv, TypeOK', NEW rows \in SUBSET Row, Queue(rows),
         UNCHANGED <<row, open, edits, floor, lost>>
  PROVE  /\ RowsFit(row', edits') /\ nextId' >= 1
         /\ RecordsFit(pending', nextId')
         /\ \A r \in Row : ~Free(r)' => OpenFits(r, open', row', nextId', edits')
         /\ Earlier(pending', open', nextId', Safe')
         /\ \A S : Earlier(S, open, nextId, Safe) => Earlier(S, open', nextId', Safe')
         /\ \A r \in Row : floor'[r] <= row'[r]
         /\ \A r \in lost' : With(r) \subseteq lost'
<1>. USE HomeTyped
<1>1. /\ nextId' \in Nat /\ nextId <= nextId'
      /\ \A c \in pending' \ pending : c.row \in rows /\ c.id \in nextId .. nextId' - 1
      /\ overtaken' = overtaken \cup {r \in rows : ~Free(r)}
  BY QueueIds DEF AuthInv
<1>2. Safe' \subseteq Safe
  BY <1>1 DEF Safe
<1>3. RecordsFit(pending', nextId')
  BY <1>1, HomeParts DEF RecordsFit
<1>4. \A r \in Row : open[r] # NoTransaction => OpenFits(r, open, row, nextId', edits)
  BY <1>1, HomeParts DEF OpenFits
<1>5. ASSUME NEW S, Earlier(S, open, nextId, Safe) PROVE Earlier(S, open, nextId', Safe')
  <2>1. \A c \in S : c.id \in 1 .. nextId - 1
    BY <1>5 DEF Earlier
  <2>2. \A c \in S : c.id \in 1 .. nextId' - 1
    BY <1>1, <2>1
  <2>. QED  BY <1>2, <1>5, <2>2 DEF Earlier
<1>6. ASSUME NEW c \in pending' \ pending, NEW r \in Row, open[r] # NoTransaction
      PROVE  c.id # open[r].id /\ ~(c.row = r /\ r \in Safe')
  <2>1. open[r].id \in 1 .. nextId - 1
    BY <1>6, HomeParts DEF OpenFits
  <2>2. c.row = r => r \in overtaken'
    BY <1>1, <1>6 DEF Free
  <2>3. r \in Safe' => r \notin overtaken'
    BY DEF Safe
  <2>. QED  BY <1>1, <2>1, <2>2, <2>3
<1>7. Earlier(pending', open, nextId', Safe')
  <2>1. \A c \in pending' : c.id \in 1 .. nextId' - 1
    BY <1>3 DEF RecordsFit
  <2>. QED  BY <1>5, <1>6, <2>1, HomeParts DEF Earlier
<1>8. \A r \in Row : ~Free(r)' => OpenFits(r, open', row', nextId', edits')
  BY <1>4 DEF Free
<1>. QED  BY <1>1, <1>3, <1>5, <1>7, <1>8, HomeParts

LEMMA QueueStaleStep ==
  ASSUME AuthInv, TypeOK', QueueStale
  PROVE  AuthInv'
<1>1. UNCHANGED <<row, open, edits, home, copy, region, delivery, orphan, epochs, floor, lost, backup>>
  BY DEF QueueStale, regionVars
<1>2. CASE Queue(check.rows)
  <2>1. check.rows \in SUBSET Row
    BY DEF AuthInv, TypeOK, Check
  <2>2. HomeInv'
    BY <1>1, <1>2, <2>1, QueueHome, HomeParts DEF HomeInv
  <2>3. /\ nextId \in Nat /\ nextId' \in Nat /\ nextId <= nextId' /\ pending \subseteq pending'
        /\ \A c \in pending' \ pending : c.id \in nextId .. nextId' - 1
        /\ overtaken \subseteq overtaken'
    BY <1>2, <2>1, QueueIds, HomeTyped DEF AuthInv
  <2>4. Records
    BY <1>1, <2>3 DEF Records
  <2>5. \A S : Follows(S)
    BY <1>1, <2>3 DEF Follows, RecordedIn
  <2>6. edits <= edits' /\ \A r \in Row : row[r] <= row'[r]
    BY <1>1, HomeTyped
  <2>7. HomeMoves
    BY <1>1, <2>3, <2>4, <2>5, <2>6 DEF HomeMoves
  <2>. QED  BY <2>2, <2>7, HomeMovesKeeps
<1>3. CASE UNCHANGED <<pending, nextId, overtaken>>
  <2>1. UNCHANGED <<HomeInv, CopyInv, DeliveryInv, OrphanInv, MarkedInv, BackupInv>>
    BY <1>1, <1>3 DEF HomeInv, CopyInv, DeliveryInv, OrphanInv, MarkedInv, BackupInv, Kept, Safe, Free,
       BackupOfHome, BackupOfRegion, Applicable
  <2>. QED  BY <2>1 DEF AuthInv
<1>. QED  BY <1>2, <1>3 DEF QueueStale

-----------------------------------------------------------------------------
(* What the invariant says of home holds where home and the promise's rows    *)
(* do not change.                                                            *)

HomeStill == UNCHANGED <<row, open, pending, nextId, lost, overtaken, edits>>

LEMMA StillParts ==
  ASSUME HomeStill
  PROVE  Kept' = Kept /\ Safe' = Safe
BY DEF HomeStill, Kept, Safe

LEMMA HomeStillHome ==
  ASSUME AuthInv, HomeStill, \A r \in Row : floor'[r] <= row[r],
         Earlier(delivery'.changes, open, nextId, Safe),
         Earlier(orphan'.changes, open, nextId, Safe)
  PROVE  HomeInv'
<1>1. \A r \in Row : ~Free(r)' => OpenFits(r, open, row, nextId, edits)'
  BY HomeParts DEF Free, HomeStill
<1>. QED  BY <1>1, HomeParts, HomeTyped, StillParts DEF HomeInv, HomeStill

\* Nothing the invariant speaks of changes but the deliveries' bookkeeping.
LEMMA Untouched ==
  ASSUME AuthInv, TypeOK', HomeStill,
         UNCHANGED <<home, copy, region, delivery, orphan, epochs, floor, backup>>
  PROVE  AuthInv'
<1>. USE StillParts DEF HomeStill
<1>1. HomeInv'
  BY HomeStillHome, HomeParts
<1>2. CopyInv' /\ MarkedInv'
  BY DEF AuthInv, CopyInv, MarkedInv
<1>3. Applicable(delivery)' = Applicable(delivery) /\ Applicable(orphan)' = Applicable(orphan)
  BY DEF Applicable
<1>4. DeliveryInv' /\ OrphanInv'
  BY <1>3 DEF AuthInv, DeliveryInv, OrphanInv
<1>5. BackupInv'
  BY DEF AuthInv, BackupInv, BackupOfHome, BackupOfRegion
<1>. QED  BY <1>1, <1>2, <1>4, <1>5 DEF AuthInv

LEMMA CheckStep ==
  ASSUME AuthInv, TypeOK', (\E r \in Row : ReadCopy(r)) \/ ReadHome \/ UNCHANGED vars
  PROVE  AuthInv'
<1>1. /\ HomeStill
      /\ UNCHANGED <<home, copy, region, delivery, orphan, epochs, floor, backup>>
  BY DEF ReadCopy, ReadHome, vars, homeVars, regionVars, history, HomeStill
<1>. QED  BY <1>1, Untouched

-----------------------------------------------------------------------------
(* Deliveries that begin, and end without effect. *)

\* The oldest changes: what is left was recorded under later ids.
LEMMA OldestChanges ==
  ASSUME AuthInv
  PROVE  /\ Changes \subseteq pending
         /\ \A c \in Changes, e \in pending \ Changes : c.id < e.id
         /\ Drained => Changes = pending
<1> DEFINE Before(c) == {d \in pending : d.id < c.id}
<1>1. nextId - 1 \in Nat /\ pending \in SUBSET Change
  BY HomeTyped DEF AuthInv, TypeOK
<1>2. IsFiniteSet(pending)
  BY <1>1, BoundedRecords, HomeParts DEF RecordsFit
<1>3. Cardinality(pending) \in Nat /\ Batch \in Nat
  BY <1>2, FS_CardinalityType, AuthProjectionAssumption DEF AuthProjectionAssumption
<1>4. ASSUME NEW c \in pending
      PROVE  IsFiniteSet(Before(c)) /\ Cardinality(Before(c)) \in Nat
  BY <1>2, FS_Subset, FS_CardinalityType
<1>5. ASSUME NEW c \in Changes, NEW e \in pending \ Changes PROVE c.id < e.id
  <2>1. c \in pending /\ Cardinality(Before(c)) < Batch /\ ~(Cardinality(Before(e)) < Batch)
    BY <1>5 DEF Changes
  <2>2. ASSUME e.id <= c.id PROVE FALSE
    <3>1. Before(e) \in SUBSET Before(c)
      BY <2>1, <2>2, HomeTyped
    <3>2. Cardinality(Before(e)) <= Cardinality(Before(c))
      BY <1>4, <2>1, <3>1, FS_Subset
    <3>. QED  BY <1>3, <1>4, <2>1, <3>2
  <2>. QED  BY <2>1, <2>2, HomeTyped
<1>6. ASSUME Drained, NEW c \in pending PROVE c \in Changes
  <2>1. Before(c) \in SUBSET pending /\ c \notin Before(c)
    BY HomeTyped
  <2>2. Cardinality(Before(c)) <= Cardinality(pending) /\ Cardinality(Before(c)) # Cardinality(pending)
    BY <1>2, <2>1, FS_Subset
  <2>. QED  BY <1>3, <1>4, <1>6, <2>2 DEF Drained, Changes
<1>. QED  BY <1>5, <1>6 DEF Changes

LEMMA BeginStep ==
  ASSUME AuthInv, TypeOK', Begin
  PROVE  AuthInv'
<1>1. /\ HomeStill
      /\ UNCHANGED <<home, copy, region, orphan, epochs, floor, backup>>
      /\ delivery.step = "idle"
      /\ delivery' = [step |-> IF Matching(home) THEN "matched" ELSE "mismatched", at |-> home,
                      rows |-> row, changes |-> Changes, drained |-> Drained]
  BY DEF Begin, homeVars, regionVars, history, HomeStill
<1>. USE StillParts
<1>2. /\ delivery'.at = home /\ delivery'.rows = row /\ delivery'.changes = Changes
      /\ delivery'.drained = Drained /\ delivery'.step \in {"matched", "mismatched"}
  BY <1>1
<1>3. HomeInv'
  BY <1>1, <1>2, OldestChanges, HomeParts, HomeStillHome DEF Earlier
<1>4. CopyInv' /\ MarkedInv'
  BY <1>1 DEF AuthInv, CopyInv, MarkedInv, HomeStill
<1>5. ASSUME Match(home, region)
      PROVE  Applicable(delivery)'
  <2>1. Snapshot(delivery', Kept, Safe, row, pending)
    BY <1>2, OldestChanges DEF Snapshot
  <2>2. Drained => Current(Kept, Safe, row, Changes, copy)
    BY <1>5, OldestChanges DEF AuthInv, CopyInv, InStep
  <2>3. \A r \in Kept : floor[r] <= row[r]
    BY HomeParts, SafeKept
  <2>. QED  BY <1>1, <1>2, <2>1, <2>2, <2>3 DEF Applicable, HomeStill
<1>6. SnapshotFits(delivery', row, edits)
  <2>1. \A r \in Row : row[r] \in Contents /\ row[r] <= row[r]
    BY HomeTyped DEF AuthInv, TypeOK
  <2>. QED  BY <1>2, <2>1, HomeParts DEF SnapshotFits
<1>7. DeliveryInv'
  BY <1>1, <1>2, <1>5, <1>6 DEF AuthInv, CopyInv, DeliveryInv, HomeStill
<1>8. Applicable(orphan)' = Applicable(orphan)
  BY <1>1 DEF Applicable, HomeStill
<1>9. OrphanInv'
  BY <1>1, <1>2, <1>8 DEF AuthInv, OrphanInv, HomeStill
<1>10. BackupInv'
  BY <1>1, <1>2 DEF AuthInv, BackupInv, BackupOfHome, BackupOfRegion, HomeStill
<1>. QED  BY <1>3, <1>4, <1>7, <1>9, <1>10 DEF AuthInv

LEMMA IdleDelivery ==
  /\ Idle.step = "idle" /\ Idle.at = [epoch |-> 0, round |-> 0] /\ Idle.changes = {}
  /\ \A opened, next, safe : Earlier(Idle.changes, opened, next, safe)
  /\ \A rows, last : SnapshotFits(Idle, rows, last)
BY DEF Idle, Earlier, SnapshotFits

\* No delivery: nothing to say of it.
LEMMA NoDelivery ==
  ASSUME TypeOK', delivery' = Idle
  PROVE  DeliveryInv'
<1>1. epochs' \in Nat
  BY DEF TypeOK
<1>. QED  BY <1>1, IdleDelivery DEF DeliveryInv

LEMMA NoOrphan ==
  ASSUME TypeOK', orphan' = Idle
  PROVE  OrphanInv'
<1>1. epochs' \in Nat
  BY DEF TypeOK
<1>. QED  BY <1>1, IdleDelivery DEF OrphanInv

LEMMA EndsStep ==
  ASSUME AuthInv, TypeOK', CopyMoved \/ DeliveryFails \/ HomeLost
  PROVE  AuthInv'
<1>1. /\ HomeStill
      /\ UNCHANGED <<home, copy, region, epochs, floor, backup>>
      /\ delivery' = Idle
      /\ \/ orphan' = orphan
         \/ orphan' = delivery /\ delivery.step \in {"matched", "mismatched"}
  BY DEF CopyMoved, DeliveryFails, HomeLost, homeVars, regionVars, history, HomeStill
<1>. USE StillParts
<1>2. HomeInv'
  BY <1>1, IdleDelivery, HomeParts, HomeStillHome
<1>3. CopyInv' /\ MarkedInv'
  BY <1>1 DEF AuthInv, CopyInv, MarkedInv, HomeStill
<1>4. OrphanInv'
  <2>1. CASE orphan' = orphan
    <3>1. Applicable(orphan)' = Applicable(orphan)
      BY <1>1, <2>1 DEF Applicable, HomeStill
    <3>. QED  BY <1>1, <2>1, <3>1, IdleDelivery DEF AuthInv, OrphanInv, HomeStill
  <2>2. CASE orphan' = delivery /\ delivery.step \in {"matched", "mismatched"}
    <3>1. Applicable(orphan)' = Applicable(delivery)
      BY <1>1, <2>2 DEF Applicable, HomeStill
    <3>2. home.round <= home.round
      BY DEF AuthInv, TypeOK, State
    <3>. QED  BY <1>1, <2>2, <3>1, <3>2, IdleDelivery DEF AuthInv, DeliveryInv, OrphanInv, HomeStill
  <2>. QED  BY <1>1, <2>1, <2>2
<1>5. BackupInv'
  BY <1>1, IdleDelivery DEF AuthInv, BackupInv, BackupOfHome, BackupOfRegion, HomeStill
<1>. QED  BY <1>1, <1>2, <1>3, <1>4, <1>5, NoDelivery DEF AuthInv

-----------------------------------------------------------------------------
(* What a delivery leaves in the copy. *)

\* A row that a record covers together with its project is recorded with it.
LEMMA RecordedWith ==
  ASSUME TypeOK, NEW rows, NEW records \in SUBSET Change, NEW p \in Row, NEW r \in With(p),
         rows[p] = Gone, RecordedIn(p, rows, records)
  PROVE  RecordedIn(r, rows, records)
<1>1. PICK c \in records : c.row = p \/ (p \in With(c.row) /\ rows[c.row] = Gone)
  BY DEF RecordedIn
<1>2. c.row \in Row
  BY DEF Change
<1>3. r \in With(c.row) /\ rows[c.row] = Gone
  BY <1>1, <1>2, WithWithin
<1>. QED  BY <1>3 DEF RecordedIn

\* A row that is gone in the delivery's snapshot, and was missing from the copy
\* or is covered by a change delivered, is missing then.
LEMMA AppliedGone ==
  ASSUME TypeOK, NEW d \in Delivery, NEW r \in Row, d.rows[r] = Gone,
         \/ copy[r] = Missing \/ r \in Named(d) \/ r \in Removed(d)
  PROVE  apply(d)[r] = Missing
<1>1. r \in Named(d) => r \in Removed(d)
  BY WithSelf, RemovedRows
<1>. QED  BY <1>1 DEF apply

\* A row that a change delivers passes the fence.
LEMMA AppliedNamed ==
  ASSUME AuthInv, NEW d \in Delivery, Earlier(d.changes, open, nextId, Safe),
         Passes(Safe, open, pending, nextId, copy),
         \A c \in d.changes : c \in pending \/ c.row \notin Kept,
         NEW r \in Safe, r \in Named(d), r \notin Removed(d)
  PROVE  /\ apply(d)[r].content = d.rows[r]
         /\ \E c \in d.changes : c.row = r /\ apply(d)[r].version = c.id
<1>1. nextId - 1 \in Nat /\ \A c \in d.changes : c.id \in 1 .. nextId - 1
  BY HomeTyped DEF Earlier
<1>2. PICK c \in d.changes : c.row = r /\ Version(d, r) = c.id
  BY <1>1, VersionOfChange
<1>3. copy[r].version < c.id
  BY <1>2, SafeKept DEF Passes
<1>4. apply(d)[r] = [content |-> d.rows[r], version |-> Version(d, r)]
  BY <1>2, <1>3, SafeKept DEF apply
<1>. QED  BY <1>2, <1>4

\* Applied in a copy in step with home, a delivery leaves it in step with what
\* is then recorded.
LEMMA AppliedInStep ==
  ASSUME AuthInv, NEW d \in Delivery, Earlier(d.changes, open, nextId, Safe),
         InStep(Kept, Safe, row, open, pending, nextId, copy),
         Snapshot(d, Kept, Safe, row, pending)
  PROVE  InStep(Kept, Safe, row, open, pending \ d.changes, nextId, apply(d))
<1> DEFINE rest == pending \ d.changes
<1>1. TypeOK /\ rest \in SUBSET Change /\ \A c \in pending : c.row \in Row /\ c.id \in Nat
  BY HomeTyped DEF AuthInv, TypeOK
<1>2. /\ \A c \in d.changes : c \in pending \/ c.row \notin Kept
      /\ \A c \in d.changes, e \in rest : c.row = e.row /\ c.row \in Safe => c.id < e.id
      /\ \A r \in Kept : d.rows[r] = row[r] \/ RecordedIn(r, row, rest)
  BY DEF Snapshot
<1>3. Current(Kept, Safe, row, pending, copy) /\ Passes(Safe, open, pending, nextId, copy)
  BY DEF InStep
<1> HIDE DEF rest
<1>4. \A r \in Row : RecordedIn(r, row, pending) /\ ~RecordedIn(r, row, rest) =>
        \E c \in d.changes : c.row \in Row /\ (c.row = r \/ (r \in With(c.row) /\ row[c.row] = Gone))
  BY <1>1 DEF RecordedIn, rest
\* What the rest does not record has left home with a project, which the
\* delivery removes.
<1>5. ASSUME NEW r \in Kept, RecordedIn(r, row, pending), ~RecordedIn(r, row, rest)
      PROVE  r \in Named(d) \/ r \in Removed(d)
  <2>1. PICK c \in d.changes : c.row \in Row /\ (c.row = r \/ (r \in With(c.row) /\ row[c.row] = Gone))
    BY <1>4, <1>5, SafeKept
  <2>2. CASE c.row = r
    BY <2>2 DEF Named
  <2>3. CASE r \in With(c.row) /\ row[c.row] = Gone
    <3>1. c.row \in Kept
      BY <2>1, <2>3, KeptTogether DEF AuthInv
    <3>2. ~RecordedIn(c.row, row, rest)
      BY <1>1, <1>5, <2>1, <2>3, RecordedWith
    <3>3. d.rows[c.row] = Gone
      BY <1>2, <2>3, <3>1, <3>2
    <3>. QED  BY <2>3, <3>3, RemovedRows DEF Named
  <2>. QED  BY <2>1, <2>2, <2>3
<1>6. ASSUME NEW r \in Kept, row[r] = Gone, ~RecordedIn(r, row, rest)
      PROVE  apply(d)[r] = Missing
  <2>1. d.rows[r] = Gone /\ r \in Row
    BY <1>2, <1>6, SafeKept
  <2>2. copy[r] = Missing \/ RecordedIn(r, row, pending)
    BY <1>3, <1>6 DEF Current
  <2>. QED  BY <1>1, <1>5, <1>6, <2>1, <2>2, AppliedGone
<1>7. ASSUME NEW r \in Safe, ~RecordedIn(r, row, rest)
      PROVE  apply(d)[r] = Missing \/ apply(d)[r].content = row[r]
  <2>1. d.rows[r] = row[r] /\ r \in Kept /\ r \in Row
    BY <1>2, <1>7, SafeKept
  <2>2. CASE r \in Removed(d)
    BY <2>1, <2>2 DEF apply
  <2>3. CASE r \in Named(d) /\ r \notin Removed(d)
    <3>1. apply(d)[r].content = d.rows[r]
      BY <1>2, <1>3, <2>3, AppliedNamed
    <3>. QED  BY <2>1, <3>1
  <2>4. CASE r \notin Named(d) /\ r \notin Removed(d)
    <3>1. apply(d)[r] = copy[r] /\ ~RecordedIn(r, row, pending)
      BY <1>5, <1>7, <2>1, <2>4 DEF apply
    <3>. QED  BY <1>3, <3>1 DEF Current
  <2>. QED  BY <2>2, <2>3, <2>4
<1>8. Current(Kept, Safe, row, rest, apply(d))
  BY <1>6, <1>7 DEF Current
<1>9. Passes(Safe, open, rest, nextId, apply(d))
  <2> SUFFICES ASSUME NEW r \in Safe
               PROVE  /\ apply(d)[r].version < nextId
                      /\ \A c \in rest : c.row = r => apply(d)[r].version < c.id
                      /\ open[r] # NoTransaction => apply(d)[r].version < open[r].id
    BY DEF Passes
  <2>1. r \in Kept /\ r \in Row
    BY SafeKept
  <2>2. /\ \A c \in rest : c \in pending /\ c.id \in 1 .. nextId - 1
        /\ open[r] # NoTransaction => open[r].id \in 1 .. nextId - 1
    BY <2>1, HomeParts DEF rest, RecordsFit, OpenFits
  <2>3. CASE r \in Removed(d)
    <3>1. apply(d)[r].version = 0
      BY <2>1, <2>3 DEF apply, Missing
    <3>. QED  BY <2>2, <3>1, HomeTyped
  <2>4. CASE r \in Named(d) /\ r \notin Removed(d)
    <3>1. PICK c \in d.changes : c.row = r /\ apply(d)[r].version = c.id
      BY <1>2, <1>3, <2>4, AppliedNamed
    <3>. QED  BY <1>2, <2>1, <3>1, HomeTyped DEF Earlier
  <2>5. CASE r \notin Named(d) /\ r \notin Removed(d)
    BY <1>3, <2>1, <2>2, <2>5 DEF apply, Passes
  <2>. QED  BY <2>3, <2>4, <2>5
<1>. QED  BY <1>8, <1>9 DEF InStep, rest

\* One that is drained leaves the copy as its snapshot was.
LEMMA AppliedDrained ==
  ASSUME AuthInv, NEW d \in Delivery, Earlier(d.changes, open, nextId, Safe),
         Passes(Safe, open, pending, nextId, copy),
         \A c \in d.changes : c \in pending \/ c.row \notin Kept,
         Current(Kept, Safe, d.rows, d.changes, copy)
  PROVE  /\ \A r \in Kept : d.rows[r] = Gone => apply(d)[r] = Missing
         /\ \A r \in Safe : apply(d)[r] = Missing \/ apply(d)[r].content = d.rows[r]
<1>1. TypeOK
  BY DEF AuthInv
<1>2. \A r \in Row : RecordedIn(r, d.rows, d.changes) => r \in Named(d) \/ r \in Removed(d)
  BY RemovedRows DEF RecordedIn, Named
<1>3. \A r \in Kept : d.rows[r] = Gone => apply(d)[r] = Missing
  BY <1>1, <1>2, AppliedGone, SafeKept DEF Current
<1>4. ASSUME NEW r \in Safe
      PROVE  apply(d)[r] = Missing \/ apply(d)[r].content = d.rows[r]
  <2>1. r \in Row
    BY SafeKept
  <2>2. CASE r \in Removed(d)
    BY <2>1, <2>2 DEF apply
  <2>3. CASE r \in Named(d) /\ r \notin Removed(d)
    BY <2>3, AppliedNamed
  <2>4. CASE r \notin Named(d) /\ r \notin Removed(d)
    BY <1>2, <2>1, <2>4 DEF apply, Current
  <2>. QED  BY <2>2, <2>3, <2>4
<1>. QED  BY <1>3, <1>4

-----------------------------------------------------------------------------
(* A delivery is applied in the region, by its process or by what the process *)
(* left under way.                                                           *)

LEMMA ApplyRegion ==
  ASSUME AuthInv, TypeOK', NEW d \in Delivery, ApplyInRegion(d), d.at = home
  PROVE  /\ Match(home, region) /\ home.epoch # 0
         /\ InStep(Kept, Safe, row, open, pending, nextId, copy)
         /\ region'.epoch = home.epoch /\ region'.round = home.round + 1
         /\ region'.marked = (region.marked \/ d.drained)
         /\ home.epoch \in Nat /\ home.round \in Nat /\ d.step = "matched"
BY DEF AuthInv, ApplyInRegion, Matching, Match, CopyInv, TypeOK, RegionState, State

\* What was not answered is not, what is answered is as new as it was.
LEMMA ApplyAnswers ==
  ASSUME AuthInv, NEW d \in Delivery, Applicable(d), SnapshotFits(d, row, edits),
         d.step = "matched", Answers(Kept, Safe, floor, row, copy)
  PROVE  Answers(Kept, Safe, floor, row, apply(d))
<1>1. /\ TypeOK
      /\ \A r \in Row : /\ floor[r] \in Nat /\ row[r] \in Nat /\ d.rows[r] \in Nat
                        /\ floor[r] <= Gone /\ d.rows[r] <= Gone /\ d.rows[r] <= row[r]
  BY HomeTyped, GoneIsLast DEF AuthInv, SnapshotFits, Contents
<1>2. \A r \in Kept : floor[r] <= d.rows[r]
  BY DEF Applicable
<1>3. ASSUME NEW r \in Kept, floor[r] = Gone, copy[r] = Missing
      PROVE  apply(d)[r] = Missing
  <2>1. r \in Row /\ d.rows[r] = Gone
    BY <1>1, <1>2, <1>3, SafeKept, GoneIsLast
  <2>. QED  BY <1>1, <1>3, <2>1, AppliedGone
<1>4. ASSUME NEW r \in Kept, Hidden(r, floor, copy)
      PROVE  Hidden(r, floor, apply(d))
  <2>1. ProjectOf[r] \in Kept
    BY <1>4, WithProject, KeptTogether DEF Hidden, AuthInv
  <2>. QED  BY <1>3, <1>4, <2>1 DEF Hidden
<1>5. ASSUME NEW r \in Safe
      PROVE  \/ apply(d)[r] = Missing \/ Hidden(r, floor, apply(d))
             \/ apply(d)[r].content \in floor[r] .. row[r]
  <2>1. r \in Row /\ r \in Kept
    BY SafeKept
  <2>2. \/ apply(d)[r] = Missing \/ apply(d)[r] = copy[r]
        \/ apply(d)[r].content = d.rows[r]
    BY <2>1 DEF apply
  <2>3. d.rows[r] \in floor[r] .. row[r]
    BY <1>1, <1>2, <2>1
  <2>4. copy[r] = Missing \/ Hidden(r, floor, copy) \/ copy[r].content \in floor[r] .. row[r]
    BY DEF Answers
  <2>. QED  BY <1>4, <2>1, <2>2, <2>3, <2>4
<1>. QED  BY <1>3, <1>4, <1>5 DEF Answers

LEMMA ApplyKeeps ==
  ASSUME AuthInv, TypeOK', NEW d \in Delivery, ApplyInRegion(d), d.at = home,
         Applicable(d), SnapshotFits(d, row, edits), Earlier(d.changes, open, nextId, Safe),
         HomeStill, UNCHANGED <<home, epochs, backup>>
  PROVE  /\ InStep(Kept, Safe, row, open, pending \ d.changes, nextId, copy')
         /\ \A r \in Row : floor'[r] <= row[r]
         /\ CopyInv' /\ MarkedInv'
<1>. USE ApplyRegion, StillParts
<1>1. copy' = apply(d) /\ epochs \in Nat /\ d.drained \in BOOLEAN
  BY HomeTyped DEF ApplyInRegion, Delivery
<1>2. InStep(Kept, Safe, row, open, pending \ d.changes, nextId, copy')
  BY <1>1, AppliedInStep DEF Applicable
<1>3. \A r \in Row : /\ floor[r] \in Nat /\ d.rows[r] \in Nat /\ d.rows[r] <= row[r]
                     /\ row[r] \in Nat /\ row[r] <= Gone /\ floor[r] <= row[r]
  BY HomeTyped, GoneIsLast DEF SnapshotFits, Contents
<1>4. /\ ~d.drained => floor' = floor
      /\ d.drained => \A r \in Row : floor'[r] = IF floor[r] >= d.rows[r] THEN floor[r] ELSE d.rows[r]
  <2>1. \A r \in Row : Max({floor[r], d.rows[r]}) = IF floor[r] >= d.rows[r] THEN floor[r] ELSE d.rows[r]
    BY <1>3, MaxOfTwo
  <2>2. floor' = IF d.drained THEN [r \in Row |-> Max({floor[r], d.rows[r]})] ELSE floor
    BY DEF ApplyInRegion
  <2>. QED  BY <2>1, <2>2
<1>5. \A r \in Row : floor'[r] <= row[r]
  BY <1>1, <1>3, <1>4
<1>6. CopyInv'
  BY DEF CopyInv, AuthInv, Match
<1>7. Current(Kept, Safe, row, pending, copy')
  BY <1>2 DEF InStep, Current, RecordedIn
<1>8. CASE ~d.drained
  <2>1. region.marked => Answers(Kept, Safe, floor, row, copy)
    BY DEF AuthInv, MarkedInv
  <2>2. region'.marked => Answers(Kept, Safe, floor', row, copy')
    BY <1>1, <1>4, <1>8, <2>1, ApplyAnswers
  <2>. QED  BY <1>2, <1>5, <1>6, <1>7, <2>2 DEF MarkedInv, HomeStill
<1>9. CASE d.drained
  <2>1. /\ \A r \in Kept : d.rows[r] = Gone => copy'[r] = Missing
        /\ \A r \in Safe : copy'[r] = Missing \/ copy'[r].content = d.rows[r]
    BY <1>1, <1>9, AppliedDrained DEF Applicable, Snapshot, InStep
  <2>2. \A r \in Kept : r \in Row /\ floor'[r] = d.rows[r]
    BY <1>3, <1>4, <1>9, SafeKept DEF Applicable
  <2>3. \A r \in Safe : copy'[r] = Missing \/ copy'[r].content \in floor'[r] .. row[r]
    BY <1>3, <2>1, <2>2, SafeKept
  <2>4. Answers(Kept, Safe, floor', row, copy')
    BY <2>1, <2>2, <2>3 DEF Answers
  <2>. QED  BY <1>2, <1>5, <1>6, <1>7, <2>4 DEF MarkedInv, HomeStill
<1>. QED  BY <1>1, <1>8, <1>9

LEMMA ApplyBackup ==
  ASSUME AuthInv, TypeOK', NEW d \in Delivery, ApplyInRegion(d), d.at = home,
         HomeStill, UNCHANGED <<home, epochs, backup>>, delivery'.step # "emptied"
  PROVE  BackupInv'
<1>. USE ApplyRegion, StillParts
<1>1. ASSUME backup.of = "home" PROVE BackupOfHome(backup.tables)'
  <2>1. BackupOfHome(backup.tables) /\ backup.tables.home \in State
    BY <1>1, BackupType DEF AuthInv, BackupInv
  <2>2. ~Match(backup.tables.home, region')
    BY <2>1 DEF BackupOfHome, Match, State
  <2>. QED  BY <2>1, <2>2 DEF BackupOfHome, HomeStill
<1>2. ASSUME backup.of = "region" PROVE BackupOfRegion(backup.tables)'
  <2>1. BackupOfRegion(backup.tables) /\ backup.tables.region \in RegionState
    BY <1>2, BackupType DEF AuthInv, BackupInv
  <2>2. backup.tables.region.epoch = home.epoch => backup.tables.region.round <= home.round
    BY <2>1 DEF BackupOfRegion, Match
  <2>3. backup.tables.region.round \in Nat
    BY <2>1 DEF RegionState
  <2>. QED  BY <2>1, <2>2, <2>3 DEF BackupOfRegion, HomeStill
<1>. QED  BY <1>1, <1>2 DEF BackupInv

LEMMA ApplyStep ==
  ASSUME AuthInv, TypeOK', Apply
  PROVE  AuthInv'
<1>1. /\ HomeStill /\ ApplyInRegion(delivery)
      /\ UNCHANGED <<home, orphan, epochs, backup>>
      /\ delivery' = [delivery EXCEPT !.step = "applied"]
  BY DEF Apply, ApplyInRegion, homeVars, HomeStill
<1>2. delivery \in Delivery /\ orphan \in Delivery
  BY DEF AuthInv, TypeOK
<1>3. /\ delivery'.step = "applied" /\ delivery'.at = delivery.at /\ delivery'.rows = delivery.rows
      /\ delivery'.changes = delivery.changes
  BY <1>1, <1>2 DEF Delivery
<1>4. /\ delivery.at = home /\ Applicable(delivery) /\ SnapshotFits(delivery, row, edits)
      /\ Earlier(delivery.changes, open, nextId, Safe) /\ delivery.step = "matched"
      /\ delivery.at.epoch <= epochs
  BY <1>1, HomeParts DEF AuthInv, DeliveryInv, ApplyInRegion, Matching, Match
<1>5. /\ InStep(Kept, Safe, row, open, pending \ delivery.changes, nextId, copy')
      /\ \A r \in Row : floor'[r] <= row[r]
      /\ CopyInv' /\ MarkedInv' /\ BackupInv'
  BY <1>1, <1>2, <1>3, <1>4, ApplyKeeps, ApplyBackup
<1>6. /\ Match(home, region) /\ region'.epoch = home.epoch /\ region'.round = home.round + 1
      /\ home.round \in Nat
  BY <1>1, <1>2, <1>4, ApplyRegion
<1>. USE StillParts
<1>7. HomeInv'
  BY <1>1, <1>3, <1>5, HomeParts, HomeStillHome
<1>8. SnapshotFits(delivery', row, edits)
  BY <1>3, <1>4 DEF SnapshotFits
<1>9. DeliveryInv'
  BY <1>1, <1>3, <1>4, <1>5, <1>6, <1>8 DEF DeliveryInv, HomeStill
<1>10. OrphanInv'
  <2>1. orphan.at \in State
    BY <1>2 DEF Delivery
  <2>2. orphan.step = "matched" => ~Match(orphan.at, region')
    BY <1>6, <2>1 DEF AuthInv, OrphanInv, Match, State
  <2>. QED  BY <1>1, <2>2 DEF AuthInv, OrphanInv, HomeStill
<1>. QED  BY <1>5, <1>7, <1>9, <1>10 DEF AuthInv

-----------------------------------------------------------------------------
(* The region is emptied under a new epoch. *)

LEMMA EmptyKeeps ==
  ASSUME AuthInv, TypeOK', NEW d, EmptyRegion(d), HomeStill,
         UNCHANGED <<home, backup>>,
         delivery'.step = "applied" => delivery.step = "applied",
         delivery'.step = "emptied" => \/ delivery'.at.epoch = epochs + 1
                                       \/ delivery.step = "emptied" /\ delivery' = delivery
  PROVE  CopyInv' /\ MarkedInv' /\ BackupInv'
<1>. USE StillParts
<1>1. /\ region' = [epoch |-> epochs + 1, round |-> 0, marked |-> FALSE]
      /\ epochs' = epochs + 1 /\ UNCHANGED floor /\ epochs \in Nat
      /\ home \in State /\ home.epoch <= epochs
  BY HomeTyped DEF EmptyRegion, history, AuthInv, TypeOK, CopyInv
<1>2. CopyInv'
  BY <1>1 DEF CopyInv, Match, State
<1>3. MarkedInv'
  BY <1>1 DEF MarkedInv
<1>4. ASSUME backup.of = "home" PROVE BackupOfHome(backup.tables)'
  <2>1. BackupOfHome(backup.tables) /\ backup.tables.home \in State
    BY <1>4, BackupType DEF AuthInv, BackupInv
  <2>2. ~Match(backup.tables.home, region')
    BY <1>1, <2>1 DEF BackupOfHome, Match, State
  <2>. QED  BY <2>1, <2>2 DEF BackupOfHome, HomeStill
<1>5. ASSUME backup.of = "region" PROVE BackupOfRegion(backup.tables)'
  <2>1. BackupOfRegion(backup.tables) /\ backup.tables.region \in RegionState
    BY <1>5, BackupType DEF AuthInv, BackupInv
  <2>2. backup.tables.region.epoch <= epochs /\ backup.tables.region.epoch \in Nat
    BY <2>1 DEF BackupOfRegion, RegionState
  <2>. QED  BY <1>1, <2>1, <2>2 DEF BackupOfRegion, HomeStill
<1>. QED  BY <1>2, <1>3, <1>4, <1>5 DEF BackupInv

LEMMA ResyncStep ==
  ASSUME AuthInv, TypeOK', Resync
  PROVE  AuthInv'
<1>1. /\ HomeStill /\ EmptyRegion(delivery)
      /\ UNCHANGED <<home, orphan, backup, floor>>
      /\ delivery' = [delivery EXCEPT !.step = "emptied", !.at = [epoch |-> epochs', round |-> 0]]
      /\ epochs' = epochs + 1 /\ copy' = [r \in Row |-> Missing]
      /\ region' = [epoch |-> epochs + 1, round |-> 0, marked |-> FALSE]
  BY DEF Resync, EmptyRegion, homeVars, history, HomeStill
<1>2. /\ delivery \in Delivery /\ orphan \in Delivery /\ orphan.at \in State /\ home \in State
      /\ epochs \in Nat /\ home.epoch <= epochs /\ orphan.at.epoch <= epochs
      /\ home.epoch \in Nat /\ orphan.at.epoch \in Nat
  BY HomeTyped DEF AuthInv, TypeOK, Delivery, CopyInv, OrphanInv, State
<1>3. /\ delivery'.step = "emptied" /\ delivery'.at = [epoch |-> epochs + 1, round |-> 0]
      /\ delivery'.rows = delivery.rows /\ delivery'.changes = delivery.changes
  BY <1>1, <1>2 DEF Delivery
<1>. USE StillParts
<1>4. HomeInv'
  BY <1>1, <1>3, HomeParts, HomeStillHome
<1>5. CopyInv' /\ MarkedInv' /\ BackupInv'
  BY <1>1, <1>3, EmptyKeeps
<1>6. SnapshotFits(delivery', row, edits)
  BY <1>1, <1>3 DEF SnapshotFits, AuthInv, DeliveryInv, EmptyRegion
<1>7. DeliveryInv'
  BY <1>1, <1>2, <1>3, <1>6 DEF DeliveryInv, HomeStill
<1>8. OrphanInv'
  BY <1>1, <1>2 DEF AuthInv, OrphanInv, HomeStill, Match
<1>. QED  BY <1>4, <1>5, <1>7, <1>8 DEF AuthInv

LEMMA OrphanStep ==
  ASSUME AuthInv, TypeOK', OrphanEnds
  PROVE  AuthInv'
<1>1. /\ UNCHANGED <<row, open, pending, nextId, home, delivery, backup, edits>>
      /\ orphan' = Idle
  BY DEF OrphanEnds, homeVars
<1>2. /\ delivery \in Delivery /\ orphan \in Delivery /\ delivery.at \in State /\ home \in State
      /\ epochs \in Nat /\ home.epoch <= epochs /\ delivery.at.epoch <= epochs
      /\ home.epoch \in Nat /\ delivery.at.epoch \in Nat /\ home.round \in Nat
  BY HomeTyped DEF AuthInv, TypeOK, Delivery, CopyInv, DeliveryInv, State
<1>3. OrphanInv'
  BY <1>1, NoOrphan
<1>4. Earlier(delivery.changes, open, nextId, Safe) /\ Earlier(orphan'.changes, open, nextId, Safe)
  BY <1>1, IdleDelivery, HomeParts
<1>. USE StillParts
<1>5. CASE ApplyInRegion(orphan)
  <2>1. HomeStill /\ UNCHANGED epochs
    BY <1>1, <1>5 DEF ApplyInRegion, HomeStill
  <2>2. /\ orphan.at = home /\ delivery.step \notin {"applied", "emptied"} /\ Applicable(orphan)
        /\ SnapshotFits(orphan, row, edits) /\ Earlier(orphan.changes, open, nextId, Safe)
    BY <1>5, HomeParts DEF AuthInv, OrphanInv, ApplyInRegion, Matching, Match
  <2>3. /\ \A r \in Row : floor'[r] <= row[r]
        /\ CopyInv' /\ MarkedInv' /\ BackupInv'
    BY <1>1, <1>2, <1>5, <2>1, <2>2, ApplyKeeps, ApplyBackup
  <2>4. HomeInv'
    BY <1>1, <1>4, <2>1, <2>3, HomeStillHome
  <2>5. region'.round = home.round + 1
    BY <1>2, <1>5, <2>2, ApplyRegion
  <2>6. DeliveryInv'
    BY <1>1, <1>2, <2>1, <2>2, <2>5 DEF AuthInv, DeliveryInv, HomeStill, Match
  <2>. QED  BY <1>3, <2>3, <2>4, <2>6 DEF AuthInv
<1>6. CASE EmptyRegion(orphan)
  <2>1. /\ HomeStill /\ UNCHANGED floor /\ epochs' = epochs + 1
        /\ region' = [epoch |-> epochs + 1, round |-> 0, marked |-> FALSE]
    BY <1>1, <1>6 DEF EmptyRegion, HomeStill, history
  <2>2. CopyInv' /\ MarkedInv' /\ BackupInv'
    BY <1>1, <1>6, <2>1, EmptyKeeps
  <2>3. HomeInv'
    BY <1>1, <1>4, <2>1, HomeParts, HomeStillHome
  <2>4. DeliveryInv'
    BY <1>1, <1>2, <2>1, IdleDelivery DEF AuthInv, DeliveryInv, HomeStill, Match
  <2>. QED  BY <1>3, <2>2, <2>3, <2>4 DEF AuthInv
<1>7. CASE UNCHANGED <<regionVars, epochs, history>>
  <2>1. HomeStill /\ UNCHANGED <<copy, region, epochs, floor>>
    BY <1>1, <1>7 DEF regionVars, history, HomeStill
  <2>2. HomeInv'
    BY <1>1, <1>4, <2>1, HomeParts, HomeStillHome
  <2>3. CopyInv' /\ MarkedInv'
    BY <1>1, <2>1 DEF AuthInv, CopyInv, MarkedInv, HomeStill
  <2>4. Applicable(delivery)' = Applicable(delivery)
    BY <1>1, <2>1 DEF Applicable, HomeStill
  <2>5. delivery.step = "emptied" => orphan'.at.epoch < delivery.at.epoch
    BY <1>1, <1>2, IdleDelivery DEF AuthInv, DeliveryInv
  <2>6. DeliveryInv'
    BY <1>1, <2>1, <2>4, <2>5 DEF AuthInv, DeliveryInv, HomeStill
  <2>7. BackupInv'
    BY <1>1, <2>1 DEF AuthInv, BackupInv, BackupOfHome, BackupOfRegion, HomeStill
  <2>. QED  BY <1>3, <2>2, <2>3, <2>6, <2>7 DEF AuthInv
<1>. QED  BY <1>5, <1>6, <1>7 DEF OrphanEnds

-----------------------------------------------------------------------------
(* Home records a delivery. *)

\* Home's transaction is over, and with it the delivery; an orphan may be left
\* that only empties the copy.
HomeCommits ==
  /\ UNCHANGED <<row, open, copy, region, epochs, floor, lost, backup, edits>>
  /\ delivery' = Idle
  /\ \/ orphan' = orphan
     \/ orphan' = [Idle EXCEPT !.step = "mismatched", !.at = home, !.rows = row]

LEMMA LeftBehind ==
  ASSUME AuthInv, TypeOK', HomeCommits
  PROVE  /\ Earlier(orphan'.changes, open, nextId, Safe)
         /\ SnapshotFits(orphan', row, edits) /\ orphan'.at.epoch <= epochs
         /\ orphan' = orphan \/ orphan'.step = "mismatched"
<1>1. CASE orphan' = orphan
  BY <1>1, HomeParts DEF AuthInv, OrphanInv
<1>2. CASE orphan' = [Idle EXCEPT !.step = "mismatched", !.at = home, !.rows = row]
  <2>1. /\ orphan'.step = "mismatched" /\ orphan'.at = home /\ orphan'.rows = row
        /\ orphan'.changes = {}
    BY <1>2 DEF Idle
  <2>2. \A r \in Row : row[r] \in Contents /\ row[r] <= row[r]
    BY HomeTyped DEF AuthInv, TypeOK
  <2>. QED  BY <2>1, <2>2, HomeParts DEF Earlier, SnapshotFits, AuthInv, CopyInv
<1>. QED  BY <1>1, <1>2 DEF HomeCommits

LEMMA DeliveredStep ==
  ASSUME AuthInv, TypeOK', RecordDelivered, HomeCommits
  PROVE  AuthInv'
<1>1. /\ delivery.step = "applied" /\ delivery.at = home
      /\ pending' = pending \ delivery.changes
      /\ UNCHANGED <<nextId, overtaken>>
      /\ home \in State /\ home.round \in Nat /\ home'.epoch = home.epoch /\ home'.round = home.round + 1
  BY DEF RecordDelivered, AuthInv, DeliveryInv, TypeOK, State
<1>2. UNCHANGED <<row, open, copy, region, epochs, floor, lost, backup, edits>> /\ delivery' = Idle
  BY DEF HomeCommits
<1>3. Kept' = Kept /\ Safe' = Safe
  BY <1>1, <1>2 DEF Kept, Safe
<1>4. region.epoch = home.epoch =>
        /\ region.round = home.round + 1
        /\ InStep(Kept, Safe, row, open, pending', nextId, copy)
  BY <1>1 DEF AuthInv, DeliveryInv
<1>5. HomeInv'
  <2>1. Earlier(pending', open, nextId, Safe) /\ RecordsFit(pending', nextId)
    BY <1>1, HomeParts DEF Earlier, RecordsFit
  <2>2. \A r \in Row : ~Free(r)' => OpenFits(r, open, row, nextId, edits)'
    BY <1>1, <1>2, HomeParts DEF Free
  <2>. QED  BY <1>1, <1>2, <1>3, <2>1, <2>2, HomeParts, HomeTyped, LeftBehind, IdleDelivery DEF HomeInv
<1>6. CopyInv'
  BY <1>1, <1>2, <1>3, <1>4 DEF AuthInv, CopyInv, Match
<1>7. MarkedInv'
  BY <1>1, <1>2, <1>3, <1>4 DEF AuthInv, MarkedInv, InStep
<1>8. OrphanInv'
  <2>1. orphan.at \in State
    BY DEF AuthInv, TypeOK, Delivery
  <2>2. orphan.step = "matched" =>
          /\ orphan.at.epoch = home'.epoch => orphan.at.round <= home'.round
          /\ ~Match(orphan.at, region')
    BY <1>1, <1>2, <2>1 DEF AuthInv, OrphanInv, State
  <2>3. orphan.step \in {"idle", "matched", "mismatched"}
    BY DEF AuthInv, OrphanInv
  <2>. QED  BY <1>1, <1>2, <2>2, <2>3, LeftBehind DEF OrphanInv
<1>9. BackupInv'
  <2>1. ASSUME backup.of = "home" PROVE BackupOfHome(backup.tables)'
    <3>1. BackupOfHome(backup.tables) /\ backup.tables.home \in State
      BY <2>1, BackupType DEF AuthInv, BackupInv
    <3>2. backup.tables.home.epoch = home'.epoch => backup.tables.home.round <= home'.round
      BY <1>1, <3>1 DEF BackupOfHome, State
    <3>. QED  BY <1>1, <1>2, <1>3, <3>1, <3>2 DEF BackupOfHome
  <2>2. ASSUME backup.of = "region" PROVE BackupOfRegion(backup.tables)'
    <3>1. BackupOfRegion(backup.tables)
      BY <2>2 DEF AuthInv, BackupInv
    <3>2. ~Match(home', backup.tables.region)
      BY <1>1, <3>1 DEF BackupOfRegion, Match
    <3>. QED  BY <1>1, <1>2, <3>1, <3>2, IdleDelivery DEF BackupOfRegion
  <2>. QED  BY <1>2, <2>1, <2>2 DEF BackupInv
<1>. QED  BY <1>2, <1>5, <1>6, <1>7, <1>8, <1>9, NoDelivery DEF AuthInv

LEMMA ResyncedStep ==
  ASSUME AuthInv, TypeOK', RecordResync, HomeCommits
  PROVE  AuthInv'
<1> DEFINE rows == {r \in Row : delivery.rows[r] # Gone}
<1>1. /\ delivery.step = "emptied" /\ Queue(rows) /\ home' = delivery.at
      /\ rows \in SUBSET Row
  BY DEF RecordResync
<1>2. UNCHANGED <<row, open, copy, region, epochs, floor, lost, backup, edits>> /\ delivery' = Idle
  BY DEF HomeCommits
<1> HIDE DEF rows
<1>3. /\ nextId \in Nat /\ nextId' \in Nat /\ nextId <= nextId' /\ overtaken \subseteq overtaken'
      /\ epochs \in Nat /\ home \in State /\ delivery.at \in State
  BY <1>1, QueueIds, HomeTyped DEF AuthInv, TypeOK, Delivery
<1>4. Kept' = Kept /\ Safe' \subseteq Safe
  BY <1>2, <1>3 DEF Kept, Safe
<1>5. /\ ~region.marked /\ delivery.at.round = 0 /\ delivery.at.epoch <= epochs
      /\ home.epoch < delivery.at.epoch /\ orphan.at.epoch < delivery.at.epoch
      /\ region.epoch = delivery.at.epoch => region.round = 0 /\ \A r \in Row : copy[r] = Missing
  BY <1>1 DEF AuthInv, DeliveryInv
<1>6. HomeInv'
  <2>1. Earlier(orphan'.changes, open', nextId', Safe')
    BY <1>1, <1>2, QueueHome, LeftBehind
  <2>. QED  BY <1>1, <1>2, <2>1, QueueHome, IdleDelivery DEF HomeInv
<1>7. CopyInv'
  <2>1. ASSUME \A r \in Row : copy[r] = Missing
        PROVE  InStep(Kept', Safe', row, open, pending', nextId', copy)
    <3>1. \A r \in Row : open[r] # NoTransaction => open[r].id >= 1
      BY HomeParts, HomeTyped DEF OpenFits
    <3>2. \A c \in pending' : c.id >= 1
      BY <1>3, <1>6 DEF HomeInv, RecordsFit
    <3>3. nextId' >= 1
      BY <1>6 DEF HomeInv
    <3>4. \A c \in pending' : c.id \in Nat
      BY DEF TypeOK, Change
    <3>5. Current(Kept', Safe', row, pending', copy)
      BY <2>1, <1>4, SafeKept DEF Current
    <3>6. \A r \in Safe' : r \in Row /\ copy[r].version = 0
      BY <2>1, <1>4, SafeKept DEF Missing
    <3>7. Passes(Safe', open, pending', nextId', copy)
      BY <1>3, <3>1, <3>2, <3>3, <3>4, <3>6, HomeTyped DEF Passes
    <3>. QED  BY <3>5, <3>7 DEF InStep
  <2>. QED  BY <1>1, <1>2, <1>5, <2>1 DEF AuthInv, CopyInv, Match
<1>8. MarkedInv'
  BY <1>2, <1>5 DEF MarkedInv
<1>9. OrphanInv'
  <2>1. orphan.at.epoch # delivery.at.epoch
    BY <1>3, <1>5 DEF AuthInv, TypeOK, Delivery, State
  <2>. QED  BY <1>1, <1>2, <2>1, LeftBehind DEF AuthInv, OrphanInv
<1>10. BackupInv'
  <2>1. ASSUME backup.of = "home" PROVE BackupOfHome(backup.tables)'
    <3>1. BackupOfHome(backup.tables) /\ backup.tables.home \in State
      BY <2>1, BackupType DEF AuthInv, BackupInv
    <3>2. backup.tables.home.epoch < delivery.at.epoch
      BY <1>3, <1>5, <3>1 DEF BackupOfHome, State
    <3>3. backup.tables.home.epoch <= home'.epoch /\ backup.tables.home.epoch # home'.epoch
      BY <1>1, <1>3, <3>1, <3>2 DEF State
    <3>. QED  BY <1>1, <1>2, <1>4, <3>1, <3>3, InStepShrinks DEF BackupOfHome
  <2>2. ASSUME backup.of = "region" PROVE BackupOfRegion(backup.tables)'
    <3>1. BackupOfRegion(backup.tables) /\ backup.tables.region \in RegionState
      BY <2>2, BackupType DEF AuthInv, BackupInv
    <3>2. ~Match(home', backup.tables.region)
      BY <1>1, <1>3, <3>1 DEF BackupOfRegion, Match, State, RegionState
    <3>. QED  BY <1>1, <1>2, <3>1, <3>2, IdleDelivery DEF BackupOfRegion
  <2>. QED  BY <1>2, <2>1, <2>2 DEF BackupInv
<1>. QED  BY <1>2, <1>6, <1>7, <1>8, <1>9, <1>10, NoDelivery DEF AuthInv

LEMMA RecordStep ==
  ASSUME AuthInv, TypeOK', CommitDelivery \/ CommitResync \/ LateLock
  PROVE  AuthInv'
<1>1. HomeCommits
  BY DEF CommitDelivery, CommitResync, LateLock, HomeCommits, regionVars
<1>2. RecordDelivered \/ RecordResync
  BY DEF CommitDelivery, CommitResync, LateLock
<1>. QED  BY <1>1, <1>2, DeliveredStep, ResyncedStep

-----------------------------------------------------------------------------
(* A confirmation. *)

LEMMA ConfirmStep ==
  ASSUME AuthInv, TypeOK', NEW r \in Row, Confirm(r)
  PROVE  AuthInv'
<1>1. /\ HomeStill
      /\ UNCHANGED <<home, copy, region, delivery, orphan, epochs, backup>>
      /\ r \notin inFlight
      /\ r \in Member => row[ProjectOf[r]] # Gone
      /\ floor' = [s \in Row |-> IF s = r \/ (row[r] = Gone /\ s \in With(r)) THEN row[r] ELSE floor[s]]
  BY DEF Confirm, homeVars, regionVars, HomeStill
<1>. USE StillParts
<1>2. TypeOK /\ \A s \in Row : /\ row[s] \in Nat /\ floor[s] \in Nat /\ floor[s] <= row[s]
                               /\ row[s] <= Gone
  BY HomeTyped DEF AuthInv
\* Nothing recorded covers the row.
<1>3. ASSUME NEW records \in SUBSET pending PROVE ~RecordedIn(r, row, records)
  <2> SUFFICES ASSUME NEW c \in records, c.row = r \/ (r \in With(c.row) /\ row[c.row] = Gone)
               PROVE  FALSE
    BY DEF RecordedIn
  <2>1. c.row # r /\ c.row \in Row
    BY <1>1, HomeTyped DEF inFlight
  <2>2. r \in Member /\ ProjectOf[r] = c.row
    BY <2>1, WithOther
  <2>. QED  BY <1>1, <2>1, <2>2
<1>4. \A s \in Row : row[r] = Gone /\ s \in With(r) => row[s] = Gone
  BY HomeParts DEF RowsFit
<1>5. \A s \in Row : floor'[s] <= row[s] /\ floor[s] <= floor'[s]
  BY <1>1, <1>2, <1>4
<1>6. HomeInv'
  BY <1>1, <1>5, HomeParts, HomeStillHome
<1>7. CopyInv'
  BY <1>1 DEF AuthInv, CopyInv, HomeStill
<1>8. ASSUME NEW d \in Delivery, d.step # "idle", Applicable(d), SnapshotFits(d, row, edits)
      PROVE  \A s \in Kept : floor'[s] <= d.rows[s]
  <2>1. r \in Kept => d.rows[r] = row[r]
    BY <1>3, <1>8 DEF Applicable, Snapshot
  <2> SUFFICES ASSUME NEW s \in Kept PROVE floor'[s] <= d.rows[s]
    OBVIOUS
  <2>2. s \in Row /\ d.rows[s] \in Nat
    BY <1>8, SafeKept DEF Delivery
  <2>3. CASE s = r
    BY <1>1, <1>2, <2>1, <2>2, <2>3
  <2>4. CASE s # r /\ row[r] = Gone /\ s \in With(r)
    <3>1. d.rows[r] = Gone
      BY <2>1, <2>4, KeptTogether DEF AuthInv
    <3>2. d.rows[s] = Gone
      BY <1>8, <2>4, <3>1 DEF SnapshotFits, RowsFit
    <3>. QED  BY <1>1, <2>2, <2>4, <3>2
  <2>5. CASE s # r /\ ~(row[r] = Gone /\ s \in With(r))
    BY <1>1, <1>8, <2>2, <2>5 DEF Applicable
  <2>. QED  BY <2>3, <2>4, <2>5
<1>9. /\ delivery \in Delivery /\ orphan \in Delivery
      /\ SnapshotFits(delivery, row, edits) /\ SnapshotFits(orphan, row, edits)
  BY <1>2 DEF TypeOK, AuthInv, DeliveryInv, OrphanInv
<1>10. delivery.step # "idle" /\ Applicable(delivery) => Applicable(delivery)'
  BY <1>1, <1>8, <1>9 DEF Applicable, HomeStill
<1>11. orphan.step # "idle" /\ Applicable(orphan) => Applicable(orphan)'
  BY <1>1, <1>8, <1>9 DEF Applicable, HomeStill
<1>12. DeliveryInv'
  BY <1>1, <1>10 DEF AuthInv, DeliveryInv, HomeStill
<1>13. OrphanInv'
  BY <1>1, <1>11 DEF AuthInv, OrphanInv, HomeStill
<1>14. MarkedInv'
  <2> SUFFICES ASSUME region.marked
               PROVE  Answers(Kept, Safe, floor', row, copy)
    BY <1>1 DEF AuthInv, MarkedInv, HomeStill
  <2>1. Current(Kept, Safe, row, pending, copy) /\ Answers(Kept, Safe, floor, row, copy)
    BY DEF AuthInv, MarkedInv
  <2>2. r \in Kept /\ row[r] = Gone => copy[r] = Missing
    BY <1>3, <2>1 DEF Current
  <2>3. r \in Safe => copy[r] = Missing \/ copy[r].content = row[r]
    BY <1>3, <2>1 DEF Current
  <2>4. ASSUME NEW s \in Kept, Hidden(s, floor, copy) PROVE Hidden(s, floor', copy)
    <3>1. ProjectOf[s] \in Row /\ ProjectOf[s] \in Project
      BY <2>4, WithProject DEF Hidden
    <3>2. floor'[ProjectOf[s]] \in Nat /\ floor'[ProjectOf[s]] <= Gone
      BY <3>1, GoneIsLast DEF TypeOK, Contents
    <3>3. floor'[ProjectOf[s]] = Gone
      BY <1>2, <1>5, <2>4, <3>1, <3>2, GoneIsLast DEF Hidden
    <3>. QED  BY <2>4, <3>3 DEF Hidden
  <2>5. ASSUME NEW s \in Kept, s # r, row[r] = Gone, s \in With(r) PROVE Hidden(s, floor', copy)
    <3>1. r \in Kept /\ s \in Member /\ ProjectOf[s] = r
      BY <2>5, KeptTogether, WithOther DEF AuthInv
    <3>2. floor'[r] = Gone
      BY <1>1, <2>5
    <3>. QED  BY <2>2, <2>5, <3>1, <3>2 DEF Hidden
  <2>6. ASSUME NEW s \in Kept, floor'[s] = Gone PROVE copy[s] = Missing \/ Hidden(s, floor', copy)
    <3>1. s \in Row
      BY SafeKept
    <3>2. CASE s = r
      BY <1>1, <2>2, <2>6, <3>1, <3>2
    <3>3. CASE s # r /\ row[r] = Gone /\ s \in With(r)
      BY <2>5, <3>3
    <3>4. CASE s # r /\ ~(row[r] = Gone /\ s \in With(r))
      BY <1>1, <2>1, <2>4, <2>6, <3>1, <3>4 DEF Answers
    <3>. QED  BY <3>2, <3>3, <3>4
  <2>7. ASSUME NEW s \in Safe
        PROVE  copy[s] = Missing \/ Hidden(s, floor', copy) \/ copy[s].content \in floor'[s] .. row[s]
    <3>1. s \in Row /\ s \in Kept
      BY SafeKept
    <3>2. CASE s = r
      BY <1>1, <1>2, <2>3, <3>1, <3>2
    <3>3. CASE s # r /\ row[r] = Gone /\ s \in With(r)
      BY <2>5, <3>1, <3>3
    <3>4. CASE s # r /\ ~(row[r] = Gone /\ s \in With(r))
      BY <1>1, <2>1, <2>4, <3>1, <3>4 DEF Answers
    <3>. QED  BY <3>2, <3>3, <3>4
  <2>. QED  BY <2>6, <2>7 DEF Answers
<1>15. BackupInv'
  BY <1>1 DEF AuthInv, BackupInv, BackupOfHome, BackupOfRegion, HomeStill
<1>. QED  BY <1>6, <1>7, <1>12, <1>13, <1>14, <1>15 DEF AuthInv

-----------------------------------------------------------------------------
(* Backups. *)

LEMMA TakeBackupStep ==
  ASSUME AuthInv, TypeOK', TakeBackup
  PROVE  AuthInv'
<1>1. /\ HomeStill
      /\ UNCHANGED <<home, copy, region, delivery, orphan, epochs, floor>>
      /\ delivery = Idle /\ \A r \in Row : open[r] = NoTransaction
      /\ backup' \in {[of |-> "home", tables |-> Home], [of |-> "region", tables |-> Region]}
  BY DEF TakeBackup, NothingUnderWay, Free, homeVars, regionVars, history, HomeStill
<1>. USE StillParts
<1>2. HomeInv'
  BY <1>1, HomeParts, HomeStillHome
<1>3. CopyInv' /\ MarkedInv'
  BY <1>1 DEF AuthInv, CopyInv, MarkedInv, HomeStill
<1>4. DeliveryInv' /\ OrphanInv'
  <2>1. Applicable(delivery)' = Applicable(delivery) /\ Applicable(orphan)' = Applicable(orphan)
    BY <1>1 DEF Applicable, HomeStill
  <2>. QED  BY <1>1, <2>1 DEF AuthInv, DeliveryInv, OrphanInv, HomeStill
<1>5. open = NothingOpen
  BY <1>1 DEF AuthInv, TypeOK, NothingOpen
<1>6. /\ home.epoch \in Nat /\ home.round \in Nat /\ region.epoch \in Nat /\ region.round \in Nat
      /\ home.epoch <= epochs /\ region.epoch <= epochs
      /\ Match(home, region) => InStep(Kept, Safe, row, open, pending, nextId, copy)
  BY DEF AuthInv, TypeOK, State, RegionState, CopyInv
<1>7. ASSUME backup' = [of |-> "home", tables |-> Home] PROVE BackupInv'
  <2>1. /\ backup'.of = "home" /\ backup'.tables.row = row /\ backup'.tables.pending = pending
        /\ backup'.tables.nextId = nextId /\ backup'.tables.home = home
    BY <1>7 DEF Home
  <2>2. BackupOfHome(backup.tables)'
    BY <1>1, <1>5, <1>6, <2>1, HomeParts, HomeTyped DEF BackupOfHome, HomeStill
  <2>. QED  BY <2>1, <2>2 DEF BackupInv
<1>8. ASSUME backup' = [of |-> "region", tables |-> Region] PROVE BackupInv'
  <2>1. backup'.of = "region" /\ backup'.tables.copy = copy /\ backup'.tables.region = region
    BY <1>8 DEF Region
  <2>2. BackupOfRegion(backup.tables)'
    BY <1>1, <1>6, <2>1, IdleDelivery DEF BackupOfRegion, HomeStill
  <2>. QED  BY <2>1, <2>2 DEF BackupInv
<1>. QED  BY <1>1, <1>2, <1>3, <1>4, <1>7, <1>8 DEF AuthInv

LEMMA RestoreHomeStep ==
  ASSUME AuthInv, TypeOK', RestoreHome
  PROVE  AuthInv'
<1> DEFINE b == backup.tables
<1>1. /\ row' = b.row /\ pending' = b.pending /\ nextId' = b.nextId /\ home' = b.home
      /\ \A r \in Row : open'[r] = NoTransaction
      /\ open' = NothingOpen /\ region' = [region EXCEPT !.marked = FALSE] /\ floor' = row'
      /\ backup' = NoBackup /\ delivery' = Idle /\ orphan' = Idle
      /\ UNCHANGED <<copy, epochs, overtaken, lost, edits>>
  BY DEF RestoreHome, NothingUnderWay, NothingOpen
<1>2. BackupOfHome(b) /\ b.home \in State
  BY BackupType DEF RestoreHome, AuthInv, BackupInv
<1> HIDE DEF b
<1>3. Kept' = Kept /\ Safe' = Safe
  BY <1>1 DEF Kept, Safe
<1>4. HomeInv'
  <2>1. \A r \in Row : Free(r)'
    BY <1>1 DEF Free
  <2>2. Earlier(pending', open', nextId', Safe')
    BY <1>1, <1>2 DEF Earlier, BackupOfHome, RecordsFit
  <2>3. \A r \in Row : floor'[r] <= row'[r]
    BY <1>1 DEF TypeOK, Contents
  <2>. QED  BY <1>1, <1>2, <2>1, <2>2, <2>3, IdleDelivery, HomeParts DEF HomeInv, BackupOfHome
<1>5. /\ region \in RegionState /\ region'.epoch = region.epoch /\ region'.round = region.round
      /\ region'.marked = FALSE
  BY <1>1 DEF AuthInv, TypeOK, RegionState
<1>6. CopyInv'
  <2>1. home'.epoch <= epochs /\ region.epoch <= epochs
    BY <1>1, <1>2, HomeTyped DEF BackupOfHome, AuthInv, CopyInv, TypeOK, State
  <2>. QED  BY <1>1, <1>2, <1>3, <1>5, <2>1 DEF CopyInv, BackupOfHome, Match
<1>7. MarkedInv' /\ BackupInv'
  BY <1>1, <1>5 DEF MarkedInv, BackupInv, NoBackup
<1>. QED  BY <1>1, <1>4, <1>6, <1>7, NoDelivery, NoOrphan DEF AuthInv

LEMMA RestoreRegionStep ==
  ASSUME AuthInv, TypeOK', RestoreRegion
  PROVE  AuthInv'
<1> DEFINE b == backup.tables
<1>1. /\ copy' = b.copy /\ region' = [b.region EXCEPT !.marked = FALSE]
      /\ backup' = NoBackup /\ delivery' = Idle /\ orphan' = Idle
      /\ HomeStill /\ UNCHANGED <<home, epochs, floor>>
  BY DEF RestoreRegion, NothingUnderWay, homeVars, history, HomeStill
<1>2. BackupOfRegion(b) /\ b.region \in RegionState
  BY BackupType DEF RestoreRegion, AuthInv, BackupInv
<1> HIDE DEF b
<1>. USE StillParts
<1>3. HomeInv'
  BY <1>1, IdleDelivery, HomeParts, HomeStillHome
<1>4. region'.epoch = b.region.epoch /\ region'.round = b.region.round /\ region'.marked = FALSE
  BY <1>1, <1>2 DEF RegionState
<1>5. CopyInv'
  BY <1>1, <1>2, <1>4 DEF AuthInv, CopyInv, BackupOfRegion, Match, HomeStill
<1>6. MarkedInv' /\ BackupInv'
  BY <1>1, <1>4 DEF MarkedInv, BackupInv, NoBackup
<1>. QED  BY <1>1, <1>3, <1>5, <1>6, NoDelivery, NoOrphan DEF AuthInv

-----------------------------------------------------------------------------
(* The invariant. *)

LEMMA AuthInit == ASSUME Init PROVE AuthInv
<1>1. TypeOK
  BY TypeInit
<1>2. /\ \A r \in Row : row[r] = 1 /\ floor[r] = 1 /\ open[r] = NoTransaction
      /\ pending = {} /\ nextId = 1 /\ lost = {} /\ edits = 0 /\ epochs = 0
      /\ home = [epoch |-> 0, round |-> 0]
      /\ region = [epoch |-> 0, round |-> 0, marked |-> FALSE]
      /\ delivery = Idle /\ orphan = Idle /\ backup = NoBackup
  BY DEF Init
<1>3. HomeInv
  BY <1>2, IdleDelivery, GoneIsLast DEF HomeInv, RowsFit, RecordsFit, Earlier, Free
<1>4. CopyInv /\ MarkedInv /\ BackupInv
  BY <1>2 DEF CopyInv, Match, MarkedInv, BackupInv, NoBackup
<1>5. DeliveryInv /\ OrphanInv
  BY <1>2, IdleDelivery DEF DeliveryInv, OrphanInv
<1>. QED  BY <1>1, <1>3, <1>4, <1>5 DEF AuthInv

LEMMA AuthStep ==
  ASSUME AuthInv, [Next]_vars
  PROVE  AuthInv'
<1>1. TypeOK'
  BY TypeStep
<1>2. ASSUME NEW r \in Row,
             \/ \E content \in {edits + 2, Gone} : Write(r, content)
             \/ Commit(r) \/ Confirm(r)
      PROVE  AuthInv'
  BY <1>1, <1>2, WriteStep, CommitStep, ConfirmStep
<1>3. ASSUME Begin \/ Deliver \/ HomeLost PROVE AuthInv'
  BY <1>1, <1>3, BeginStep, ApplyStep, EndsStep, ResyncStep, RecordStep DEF Deliver
<1>4. ASSUME LateLock \/ OrphanEnds PROVE AuthInv'
  BY <1>1, <1>4, RecordStep, OrphanStep
<1>5. ASSUME (\E r \in Row : ReadCopy(r)) \/ ReadHome \/ QueueStale \/ UNCHANGED vars PROVE AuthInv'
  BY <1>1, <1>5, CheckStep, QueueStaleStep
<1>6. ASSUME TakeBackup \/ RestoreHome \/ RestoreRegion PROVE AuthInv'
  BY <1>1, <1>6, TakeBackupStep, RestoreHomeStep, RestoreRegionStep
<1>. QED  BY <1>1, <1>2, <1>3, <1>4, <1>5, <1>6, RecordLostStep DEF Next

\* While home and a region agree on epoch and round, whatever the copy misses is
\* recorded and will pass the fence; a delivery that lost its home transaction
\* can be applied only while home is where it began (deliver.ts, resync,
\* capture triggers and reconcileRegionCopy together).
THEOREM AuthInvariant == Spec => []AuthInv
<1>1. Init => AuthInv
  BY AuthInit
<1>2. AuthInv /\ [Next]_vars => AuthInv'
  BY AuthStep
<1>. QED  BY <1>1, <1>2, PTL DEF Spec

-----------------------------------------------------------------------------
(* What follows. *)

\* Every variable keeps its type, and with it the copy: contents of no row that
\* is gone are ever written to it.
THEOREM AuthTypes == Spec => []TypeOK
<1>1. AuthInv => TypeOK
  BY DEF AuthInv
<1>. QED  BY <1>1, AuthInvariant, PTL

\* A row removed at home before the watermark, or confirmed removed, is never
\* answered (deliver.ts, confirm.ts, read.ts), whatever is lost, restored or
\* overtaken.
THEOREM RemovedStayGone == Spec => []RemovedIsGone
<1>1. AuthInv => RemovedIsGone
  <2> SUFFICES ASSUME AuthInv, NEW r \in Row \ lost, floor[r] = Gone, region.marked
               PROVE  copy[r].content = 0 \/ (r \in Member /\ copy[ProjectOf[r]] = Missing)
    BY DEF RemovedIsGone, Answer
  <2>1. copy[r] = Missing \/ Hidden(r, floor, copy)
    BY DEF AuthInv, MarkedInv, Answers, Kept
  <2>. QED  BY <2>1 DEF Hidden, Missing
<1>. QED  BY <1>1, AuthInvariant, PTL

\* While home and region agree on epoch and round, what the copy holds and home
\* does not is in a recorded change: rounds and epochs (state.ts, deliver.ts)
\* tell that nothing else was missed.
THEOREM AgreementCurrent == Spec => []AgreementIsCurrent
<1>1. AuthInv => AgreementIsCurrent
  <2> SUFFICES ASSUME AuthInv, Matching(home), NEW r \in Row \ (lost \cup overtaken)
               PROVE  copy[r] = Missing \/ copy[r].content = row[r] \/ \E c \in pending : r \in With(c.row)
    BY DEF AgreementIsCurrent
  <2>1. Current(Kept, Safe, row, pending, copy)
    BY DEF AuthInv, CopyInv, InStep, Matching, Match
  <2>2. copy[r] = Missing \/ copy[r].content = row[r] \/ RecordedIn(r, row, pending)
    BY <2>1 DEF Current, Safe
  <2>. QED  BY <2>2, WithSelf DEF RecordedIn
<1>. QED  BY <1>1, AuthInvariant, PTL

-----------------------------------------------------------------------------
(* The refinement of BoundedCopy. *)

\* What BoundedCopy sees answered.
Shown == [r \in Row |-> IF r \in lost \cup overtaken \/ Answer(r) = 0 THEN -1 ELSE Answer(r)]

ShownIsAllowed ==
  /\ Shown \in [Row -> Nat \cup {-1}]
  /\ \A r \in Row : Shown[r] # -1 => Shown[r] \in floor[r] .. row[r]

LEMMA ShownAllowed == AuthInv => ShownIsAllowed
<1> SUFFICES ASSUME AuthInv PROVE ShownIsAllowed
  OBVIOUS
<1>1. ASSUME NEW r \in Row PROVE Answer(r) \in Nat
  BY GoneIsLast DEF AuthInv, TypeOK, Copied, Answer
<1>2. ASSUME NEW r \in Safe, Answer(r) # 0 PROVE Answer(r) \in floor[r] .. row[r]
  <2>1. /\ region.marked /\ copy[r].content # 0 /\ Answer(r) = copy[r].content
        /\ ~Hidden(r, floor, copy)
    BY <1>2 DEF Answer, Hidden
  <2>2. copy[r] # Missing
    BY <2>1 DEF Missing
  <2>. QED  BY <2>1, <2>2 DEF AuthInv, MarkedInv, Answers
<1>. QED  BY <1>1, <1>2 DEF ShownIsAllowed, Shown, Safe

\* Home's contents change when a change commits and when home is restored.
LEMMA RowsChange ==
  ASSUME AuthInv, [Next]_vars, row' # row
  PROVE  RestoreHome \/ \E r \in Row : Commit(r)
BY DEF Next, vars, homeVars, regionVars, history, Deliver, Write, Confirm, ReadCopy, RecordLost,
       Begin, Apply, CopyMoved, CommitDelivery, DeliveryFails, Resync, CommitResync,
       HomeLost, LateLock, OrphanEnds, ReadHome, QueueStale, TakeBackup, RestoreRegion

\* The oldest contents that may be answered move up, but for a restore.
LEMMA FloorMoves ==
  ASSUME AuthInv, AuthInv', [Next]_vars, ~RestoreHome
  PROVE  \A r \in Row : floor[r] <= floor'[r]
<1>1. \A r \in Row : floor[r] \in Nat /\ floor'[r] \in Nat
  BY GoneIsLast DEF AuthInv, TypeOK, Contents
<1>2. UNCHANGED floor => \A r \in Row : floor[r] <= floor'[r]
  BY <1>1
<1>3. ASSUME NEW d \in Delivery, ApplyInRegion(d) PROVE \A r \in Row : floor[r] <= floor'[r]
  <2>1. \A r \in Row : d.rows[r] \in Nat
    BY GoneIsLast DEF Delivery
  <2>2. \A r \in Row : Max({floor[r], d.rows[r]}) = IF floor[r] >= d.rows[r] THEN floor[r] ELSE d.rows[r]
    BY <1>1, <2>1, MaxOfTwo
  <2>3. floor' = IF d.drained THEN [r \in Row |-> Max({floor[r], d.rows[r]})] ELSE floor
    BY <1>3 DEF ApplyInRegion
  <2>. QED  BY <1>1, <2>1, <2>2, <2>3
<1>4. delivery \in Delivery /\ orphan \in Delivery
  BY DEF AuthInv, TypeOK
<1>5. ASSUME Apply \/ OrphanEnds PROVE \A r \in Row : floor[r] <= floor'[r]
  BY <1>2, <1>3, <1>4, <1>5 DEF Apply, OrphanEnds, EmptyRegion, history
<1>6. ASSUME NEW r \in Row, Confirm(r) PROVE \A s \in Row : floor[s] <= floor'[s]
  <2>1. \A s \in Row : row[r] = Gone /\ s \in With(r) => row[s] = Gone
    BY HomeParts DEF RowsFit
  <2>2. \A s \in Row : floor'[s] = row[s] \/ floor'[s] = floor[s]
    BY <1>6, <2>1 DEF Confirm
  <2>. QED  BY <1>1, <2>2, HomeTyped
<1>7. \/ UNCHANGED floor \/ Apply \/ OrphanEnds \/ \E r \in Row : Confirm(r)
  BY DEF Next, vars, homeVars, regionVars, history, Deliver, Write, Commit, ReadCopy, RecordLost,
         Begin, CopyMoved, CommitDelivery, DeliveryFails, Resync, EmptyRegion, CommitResync,
         HomeLost, LateLock, ReadHome, QueueStale, TakeBackup, RestoreRegion
<1>. QED  BY <1>2, <1>5, <1>6, <1>7

LEMMA BoundedInit == ASSUME Init PROVE Bounded!Init
<1>1. row \in [Row -> Nat] /\ floor = row
  BY DEF Init
<1>2. \A r \in Row : Answer(r) = 0
  BY DEF Init, Answer
<1>. QED  BY <1>1, <1>2 DEF Bounded!Init, Bounded!Contents, Bounded!Nothing

\* Every step is one of BoundedCopy's: a commit is a change, a restore of home a
\* restore, and whatever else happens leaves answers that are allowed.
LEMMA BoundedStep ==
  ASSUME AuthInv, AuthInv', [Next]_vars
  PROVE  Bounded!Next
<1>1. /\ row \in [Row -> Nat] /\ floor \in [Row -> Nat] /\ row' \in [Row -> Nat] /\ floor' \in [Row -> Nat]
  BY GoneIsLast DEF AuthInv, TypeOK, Contents
<1>2. CASE RestoreHome
  <2>1. floor' = row' /\ ~region'.marked
    BY <1>2 DEF RestoreHome, AuthInv, TypeOK, RegionState
  <2>2. Shown' = [r \in Row |-> -1]
    BY <2>1 DEF Shown, Answer
  <2>3. Bounded!Restore
    BY <1>1, <2>1, <2>2 DEF Bounded!Restore, Bounded!Contents, Bounded!Nothing, Shown
  <2>. QED  BY <2>3 DEF Bounded!Next
<1>3. ASSUME NEW r \in Row, Commit(r) PROVE Bounded!Next
  <2>1. UNCHANGED <<floor, copy, region, lost, overtaken>>
    BY <1>3 DEF Commit, regionVars, history
  <2>2. Shown' = Shown
    BY <2>1 DEF Shown, Answer
  <2>3. \A s \in Row : row'[s] >= row[s]
    <3>1. \A s \in Row : row[s] <= row'[s]
      BY <1>3, CommitHome DEF AuthInv
    <3>. QED  BY <1>1, <3>1
  <2>4. Bounded!Change
    BY <1>1, <2>1, <2>2, <2>3 DEF Bounded!Change, Bounded!Contents, Shown
  <2>. QED  BY <2>4 DEF Bounded!Next
<1>4. CASE ~RestoreHome /\ row' = row
  <2>1. \A r \in Row : floor'[r] \in floor[r] .. row[r]
    <3>1. \A r \in Row : floor[r] <= floor'[r]
      BY <1>4, FloorMoves
    <3>2. \A r \in Row : floor'[r] <= row'[r]
      BY DEF AuthInv, HomeInv
    <3>. QED  BY <1>1, <1>4, <3>1, <3>2
  <2>2. /\ Shown' \in [Row -> Nat \cup {-1}]
        /\ \A r \in Row : Shown'[r] # -1 => Shown'[r] \in floor'[r] .. row'[r]
    <3>1. ShownIsAllowed'
      BY ShownAllowed, PTL
    <3>. QED  BY <3>1 DEF ShownIsAllowed
  <2>3. Bounded!Deliver
    BY <1>1, <1>4, <2>1, <2>2 DEF Bounded!Deliver, Bounded!Contents, Bounded!Allowed, Bounded!Nothing, Shown
  <2>. QED  BY <2>3 DEF Bounded!Next
<1>. QED  BY <1>2, <1>3, <1>4, RowsChange

\* The copy implements BoundedCopy: what it answers, home has held since the
\* watermark (deliver.ts:18-19) and since each confirmed change (confirm.ts:21),
\* but for rows whose record was removed or overtaken.
THEOREM CopyKeepsItsPromise == Spec => KeepsItsPromise
<1>1. Init => Bounded!Init
  BY BoundedInit
<1>2. AuthInv /\ AuthInv' /\ [Next]_vars => [Bounded!Next]_(Bounded!vars)
  BY BoundedStep
<1>. QED  BY <1>1, <1>2, AuthInvariant, PTL DEF Spec, KeepsItsPromise, Bounded!Spec
===============================================================================
