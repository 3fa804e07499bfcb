----------------------- MODULE AuthProjectionInvariant ------------------------
(***************************************************************************)
(* The inductive invariant of AuthProjection: why epoch and round are      *)
(* enough to tell that a copy misses nothing but what is recorded at home, *)
(* and why what it answers under a watermark was not replaced before it.   *)
(***************************************************************************)
EXTENDS AuthProjection

\* Rows whose record was not removed, and those the fence has not overtaken.
Kept == Row \ lost
Safe == Row \ (lost \cup overtaken)

-----------------------------------------------------------------------------
(* Home. *)

\* A project that is gone has taken its keys and branches along.
RowsFit(rows, last) ==
  \A r \in Row : /\ rows[r] <= last + 1 \/ rows[r] = Gone
                 /\ rows[r] = Gone => \A m \in With(r) : rows[m] = Gone

RecordsFit(records, next) == \A c \in records : c.id \in 1 .. next - 1

\* A transaction holds newer contents than the row, and has drawn an id of its
\* own.
OpenFits(r, opened, rows, next, last) ==
  /\ opened[r].id \in 1 .. next - 1
  /\ opened[r].content \in rows[r] + 1 .. last + 1 \cup {Gone} /\ rows[r] # Gone
  /\ opened[r].content = Gone => \A m \in With(r) \ {r} : opened[m] = NoTransaction
  /\ \A s \in Row : opened[s].id = opened[r].id => s = r

\* Records are of other transactions than the open ones, and, of the same row,
\* of earlier ones.
Earlier(records, opened, next, safe) ==
  \A c \in records :
    /\ c.id \in 1 .. next - 1
    /\ \A r \in Row : opened[r] # NoTransaction =>
         /\ c.id # opened[r].id
         /\ c.row = r /\ r \in safe => c.id < opened[r].id

HomeInv ==
  /\ RowsFit(row, edits)
  /\ nextId >= 1
  /\ RecordsFit(pending, nextId)
  /\ \A r \in Row : ~Free(r) => OpenFits(r, open, row, nextId, edits)
  /\ Earlier(pending, open, nextId, Safe)
  /\ Earlier(delivery.changes, open, nextId, Safe)
  /\ Earlier(orphan.changes, open, nextId, Safe)
  /\ \A r \in Row : floor[r] <= row[r]
  /\ \A r \in lost : With(r) \subseteq lost

-----------------------------------------------------------------------------
(* A copy in step with home. *)

\* A record brings the row up to date.
RecordedIn(r, rows, records) ==
  \E c \in records : c.row = r \/ (r \in With(c.row) /\ rows[c.row] = Gone)

\* What the copied rows miss is recorded.
Current(kept, safe, rows, records, copied) ==
  /\ \A r \in kept : rows[r] = Gone =>
       copied[r] = Missing \/ RecordedIn(r, rows, records)
  /\ \A r \in safe :
       copied[r] = Missing \/ copied[r].content = rows[r] \/ RecordedIn(r, rows, records)

\* And the fence lets it pass, as it will what is recorded next.
Passes(safe, opened, records, next, copied) ==
  \A r \in safe :
    /\ copied[r].version < next
    /\ \A c \in records : c.row = r => copied[r].version < c.id
    /\ opened[r] # NoTransaction => copied[r].version < opened[r].id

InStep(kept, safe, rows, opened, records, next, copied) ==
  /\ Current(kept, safe, rows, records, copied)
  /\ Passes(safe, opened, records, next, copied)

Match(h, g) == h.epoch # 0 /\ g.epoch = h.epoch /\ g.round = h.round

-----------------------------------------------------------------------------
(* Deliveries. *)

\* The snapshot of a delivery: what has changed since is recorded by others than
\* the changes it delivers, and later.
Snapshot(d, kept, safe, rows, records) ==
  /\ \A c \in d.changes : c \in records \/ c.row \notin kept
  /\ \A c \in d.changes, e \in records \ d.changes :
       c.row = e.row /\ c.row \in safe => c.id < e.id
  /\ \A r \in kept : d.rows[r] = rows[r] \/ RecordedIn(r, rows, records \ d.changes)

\* One that may still be applied.
Applicable(d) ==
  /\ Snapshot(d, Kept, Safe, row, pending)
  /\ \A r \in Kept : floor[r] <= d.rows[r]
  /\ d.drained => Current(Kept, Safe, d.rows, d.changes, copy)

SnapshotFits(d, rows, last) ==
  d.step # "idle" =>
    /\ RowsFit(d.rows, last)
    /\ \A r \in Row : d.rows[r] \in Contents /\ d.rows[r] <= rows[r]

\* Home has not moved since it began; and what it applied in the region is what
\* home will say once it commits.
DeliveryInv ==
  /\ SnapshotFits(delivery, row, edits)
  /\ delivery.at.epoch <= epochs
  /\ delivery.step \in {"matched", "mismatched", "applied"} => delivery.at = home
  /\ delivery.step = "matched" /\ Match(delivery.at, region) => Applicable(delivery)
  /\ delivery.step = "applied" /\ region.epoch = home.epoch =>
       /\ region.round = home.round + 1
       /\ InStep(Kept, Safe, row, open, pending \ delivery.changes, nextId, copy)
  /\ delivery.step = "emptied" =>
       /\ ~region.marked
       /\ delivery.at.round = 0
       /\ home.epoch < delivery.at.epoch /\ orphan.at.epoch < delivery.at.epoch
       /\ region.epoch = delivery.at.epoch =>
            region.round = 0 /\ \A r \in Row : copy[r] = Missing

\* An orphan can be applied only while home is where it began.
OrphanInv ==
  /\ SnapshotFits(orphan, row, edits)
  /\ orphan.at.epoch <= epochs
  /\ orphan.step \in {"idle", "matched", "mismatched"}
  /\ orphan.step = "matched" =>
       /\ orphan.at.epoch = home.epoch => orphan.at.round <= home.round
       /\ Match(orphan.at, region) =>
            /\ orphan.at = home /\ delivery.step \notin {"applied", "emptied"}
            /\ Applicable(orphan)

-----------------------------------------------------------------------------
(* What the region answers. *)

\* Its project is gone, and known to be.
Hidden(r, oldest, copied) ==
  r \in Member /\ oldest[ProjectOf[r]] = Gone /\ copied[ProjectOf[r]] = Missing

\* What is removed is not answered; what is answered is new enough, and no newer
\* than home.
Answers(kept, safe, oldest, rows, copied) ==
  /\ \A r \in kept : oldest[r] = Gone => copied[r] = Missing \/ Hidden(r, oldest, copied)
  /\ \A r \in safe : \/ copied[r] = Missing \/ Hidden(r, oldest, copied)
                     \/ copied[r].content \in oldest[r] .. rows[r]

MarkedInv ==
  region.marked =>
    /\ region.epoch = home.epoch
    /\ Current(Kept, Safe, row, pending, copy)
    /\ Answers(Kept, Safe, floor, row, copy)

-----------------------------------------------------------------------------
(* Backups: a side that is restored is in step with the other, or out of     *)
(* match with it.                                                            *)

NothingOpen == [r \in Row |-> NoTransaction]

BackupOfHome(b) ==
  /\ RowsFit(b.row, edits)
  /\ b.nextId >= 1 /\ RecordsFit(b.pending, b.nextId)
  /\ b.home.epoch <= home.epoch
  /\ b.home.epoch = home.epoch => b.home.round <= home.round
  /\ Match(b.home, region) =>
       InStep(Kept, Safe, b.row, NothingOpen, b.pending, b.nextId, copy)

BackupOfRegion(b) ==
  /\ b.region.epoch <= epochs
  /\ b.region.epoch = region.epoch => b.region.round <= region.round
  /\ delivery.step = "applied" =>
       ~(b.region.epoch = home.epoch /\ b.region.round = home.round + 1)
  /\ delivery.step = "emptied" => b.region.epoch < delivery.at.epoch
  /\ Match(home, b.region) => InStep(Kept, Safe, row, open, pending, nextId, b.copy)

BackupInv ==
  /\ backup.of = "home" => BackupOfHome(backup.tables)
  /\ backup.of = "region" => BackupOfRegion(backup.tables)

-----------------------------------------------------------------------------
CopyInv ==
  /\ home.epoch <= epochs /\ region.epoch <= epochs
  /\ Match(home, region) => InStep(Kept, Safe, row, open, pending, nextId, copy)

\* The inductive invariant. While both sides agree on epoch and round, what the
\* copy misses is recorded, and the fence lets it pass: so a delivery of all
\* that is recorded leaves nothing missing, and may set the watermark.
AuthInv ==
  /\ TypeOK
  /\ HomeInv /\ CopyInv /\ DeliveryInv /\ OrphanInv /\ MarkedInv /\ BackupInv
=============================================================================
