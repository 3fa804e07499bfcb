------------------------ MODULE ChangeLedgerTruthProofs ------------------------
(***************************************************************************)
(* That History tells the truth: until a process dies and where no owner   *)
(* is slow, the status of a change is what the catalog shows, a restored   *)
(* change has no request left, and its restore can be taken back.          *)
(***************************************************************************)
EXTENDS ChangeLedgerClaimProofs

Told == Known /\ TruthInv

-----------------------------------------------------------------------------
(* What a step of call w leaves of rows, and of what other calls know.     *)

Others(w) == \A u \in Worker \ {w} : Same(u)

\* A sealed row keeps its evidence and verdict, a doubtful restore stays so, and
\* only the settlement of a restore says who undid a change.
KeptEvidence(w, m) ==
  /\ row[m].sealed => row'[m].sealed /\ SameRecord(m) /\ row'[m].confirmed = row[m].confirmed
  /\ row[m].kind = "recovery" /\ row[m].sealed /\ row[m].status \in Doubtful
       => row'[m].status = row[m].status
  /\ row'[m].status = "unopened" => row[m].status = "unopened"
  /\ row'[m].recoveredById # row[m].recoveredById =>
       \/ row'[m].recoveredById = NoChange /\ ~row[m].sealed
       \/ /\ w \in Worker /\ pc[w] = "settling" /\ m = job[w].change
          /\ row'[m].recoveredById = job[w].record

\* The record another call makes is its own.
KeptRecord(w, m) ==
  \A u \in Worker \ {w} :
    /\ Works(u, m) => row'[m] = row[m]
    /\ pc[u] = "settling" /\ job[u].record = m => row'[m].status = row[m].status

KeptRow(w, m) == KeptEvidence(w, m) /\ KeptRecord(w, m) /\ ConfirmedFits(m)'

KeptRows(w) == \A m \in ChangeId : KeptRow(w, m)

LEMMA KeptSealed ==
  ASSUME NEW w, KeptRows(w)
  PROVE  SealedStay /\ \A m \in ChangeId : row[m].sealed => row'[m].confirmed = row[m].confirmed
BY DEF KeptRows, KeptRow, KeptEvidence, SealedStay

\* A restore that could not be confirmed never is.
LEMMA UnconfirmedStays ==
  ASSUME Known, NEW w, KeptRows(w), NEW n, Unconfirmed(n)
  PROVE  Unconfirmed(n)'
<1>. PICK m \in Recorded : /\ row[m].kind = "recovery" /\ Subject(m) = n
                           /\ row[m].status \in Doubtful
  BY DEF Unconfirmed, Doubtful
<1>1. m \in ChangeId /\ row[m].status \in Doubtful
  BY DEF Recorded
<1>2. row[m].sealed
  BY <1>1 DEF Known, EvidenceInv, EvidenceFits, Doubtful
<1>3. SealedStay /\ KeptEvidence(w, m)
  BY <1>1, KeptSealed DEF KeptRows, KeptRow
<1>4. SameRecord(m) /\ row'[m].status = row[m].status
  BY <1>1, <1>2, <1>3 DEF KeptEvidence
<1>5. Subject(m)' = Subject(m)
  BY <1>1, <1>3, <1>4, SubjectStays DEF Known, Base, TypeInv, RowsFit, SameRecord
<1>6. m \in Recorded'
  BY <1>1, <1>4 DEF Recorded, Doubtful
<1>. QED  BY <1>1, <1>4, <1>5, <1>6 DEF Unconfirmed, SameRecord, Doubtful

\* Whatever a call does, or decides, it does to a change whose evidence is sealed.
LEMMA OwnSealed ==
  ASSUME Told, NEW w \in Worker, NEW c, c = job[w].change, c # NoChange
  PROVE  c \in ChangeId /\ row[c].sealed
<1>1. /\ c \in ChangeId /\ AskingFits(w)
      /\ pc[w] \notin Deciding => Restorable(c)
  BY OwnJob, OwnChange DEF Job, Told, Known, Base, TruthInv
<1>. QED  BY <1>1 DEF AskingFits, Deciding, Restorable

\* What call u knows of a restore, another's step leaves true.
LEMMA RestoringStays ==
  ASSUME Told, NEW w, KeptRows(w), Others(w), NEW u \in Worker \ {w}
  PROVE  RestoringFits(u)'
<1>. PICK c : c = job[u].change
  OBVIOUS
<1>. PICK r : r = job[u].record
  OBVIOUS
<1>. SUFFICES ASSUME c # NoChange PROVE RestoringFits(u)'
  BY DEF Others, Same, RestoringFits
<1>1. pc'[u] = pc[u] /\ job'[u] = job[u] /\ RestoringFits(u) /\ AskingFits(u)
  BY DEF Others, Same, Told, TruthInv
<1>2. StepFits(pc[u], job[u]) /\ ClaimFits(u)
  BY <1>1, OwnJob DEF Known, Base, Told, ClaimInv, ClaimsFit
<1>3. c \in ChangeId /\ row[c].sealed
  BY OwnSealed
<1>4. /\ SameRecord(c) /\ row'[c].confirmed = row[c].confirmed
      /\ Unconfirmed(c) => Unconfirmed(c)'
  BY <1>3, KeptSealed, UnconfirmedStays DEF SealedStay, Told
<1>5. (row[c].kind = "recovery" => row[c].confirmed /\ job[u].from \in Standing)'
  BY <1>1, <1>4 DEF RestoringFits, SameRecord
<1>6. ASSUME pc[u] \in HasRecord \cup {"settling"}
      PROVE  /\ r \in ChangeId /\ r # NoChange
             /\ row'[r].checkpoint = row[r].checkpoint
             /\ pc[u] \in {"verifying", "settling"} => row'[r].footprint = row[r].footprint
             /\ pc[u] = "settling" => row[r].sealed /\ row'[r].status = row[r].status
                                      /\ row'[r].confirmed = row[r].confirmed
  <2>1. r \in ChangeId /\ r # NoChange
    BY <1>2, <1>6 DEF StepFits, HasRecord, Applying, ChangeId, NoChange
  <2>2. KeptRecord(w, r) /\ KeptEvidence(w, r)
    BY <2>1 DEF KeptRows, KeptRow
  <2>3. CASE pc[u] \in HasRecord
    <3>1. row'[r] = row[r]
      BY <2>2, <2>3 DEF KeptRecord, Works
    <3>. QED  BY <2>1, <2>3, <3>1 DEF HasRecord, Applying
  <2>4. CASE pc[u] = "settling"
    <3>1. row[r].sealed /\ row'[r].status = row[r].status
      BY <1>2, <2>2, <2>4 DEF ClaimFits, KeptRecord
    <3>. QED  BY <2>1, <2>2, <2>4, <3>1 DEF KeptEvidence, SameRecord
  <2>. QED  BY <1>6, <2>3, <2>4
<1>7. ASSUME pc[u] \in HasRecord \cup {"settling"}, NEW n \in ChangeId
      PROVE  row'[n].recoveredById # r
  <2>1. row[n].recoveredById # r /\ KeptEvidence(w, n) /\ r # NoChange
    BY <1>1, <1>6, <1>7 DEF RestoringFits, KeptRows, KeptRow
  <2>2. CASE row'[n].recoveredById = row[n].recoveredById \/ row'[n].recoveredById = NoChange
    BY <2>1, <2>2
  <2>3. CASE /\ w \in Worker /\ pc[w] = "settling" /\ n = job[w].change
             /\ row'[n].recoveredById = job[w].record
    <3>. SUFFICES ASSUME job[w].record = r PROVE FALSE
      BY <2>3
    <3>1. /\ row[r].sealed /\ row[r].recoversId = n /\ Claims(w, n)
      BY <2>3, OwnClaim DEF Told, Known, ClaimInv, ClaimsFit, ClaimFits, Claiming
    <3>2. pc[u] = "settling"
      <4>1. pc[u] \in HasRecord => ~row[r].sealed
        BY OwnRecord DEF Told, Known
      <4>. QED  BY <1>7, <3>1, <4>1
    <3>3. row[r].recoversId = c /\ Claims(u, c)
      BY <1>2, <3>2, OwnClaim DEF ClaimFits, Claiming, Told
    <3>4. row[n].recoveryClaim = w /\ row[n].recoveryClaim = u
      BY <2>3, <3>1, <3>3, ClaimOwned DEF Told
    <3>. QED  BY <3>4
  <2>. QED  BY <2>1, <2>2, <2>3 DEF KeptEvidence
<1>8. (pc[u] \in HasRecord \cup {"settling"} =>
         /\ \A n \in ChangeId : row[n].recoveredById # r
         /\ row[c].kind = "change" /\ ~Unconfirmed(c) =>
              \A t \in row[c].footprint : c \in row[r].checkpoint[t])'
  BY <1>1, <1>4, <1>6, <1>7 DEF RestoringFits, SameRecord
<1>9. (pc[u] \in {"verifying", "settling"} =>
         /\ row[r].footprint # {}
         /\ row[c].kind = "change" /\ ~Unconfirmed(c) =>
              row[c].footprint \subseteq row[r].footprint)'
  BY <1>1, <1>4, <1>6 DEF RestoringFits, SameRecord, HasRecord
<1>10. (pc[u] = "settling" => \/ row[r].status = "healthy" /\ row[r].confirmed
                              \/ row[r].status \in Doubtful)'
  BY <1>1, <1>6 DEF RestoringFits
<1>. QED  BY <1>1, <1>5, <1>8, <1>9, <1>10 DEF RestoringFits

-----------------------------------------------------------------------------
(* What a step that undoes nothing and settles nothing leaves true.        *)

\* No row is ended by the step, and none that was is taken further.
EndedStay == \A m \in ChangeId :
  row[m].status \in Ended \/ row'[m].status \in Ended => row'[m].status = row[m].status

UndoneStay == \A m \in ChangeId : Undone(m)' <=> Undone(m)

\* The changes that closed are where they were.
Unmoved(m) == (Gone(m) => Gone(m)') /\ (InForce(m) => InForce(m)')

LiveStays == \A m \in ChangeId : row[m].sealed /\ row[m].kind = "change" => Unmoved(m)

LEMMA SameLive ==
  ASSUME UNCHANGED live, NEW w, KeptRows(w)
  PROVE  LiveStays
BY KeptSealed DEF LiveStays, Unmoved, Gone, InForce, SealedStay, SameRecord

LEMMA UndoneSame ==
  ASSUME EndedStay, NEW w, Others(w),
         w \in Worker => \A m \in ChangeId : Midway(w, m)' <=> Midway(w, m)
  PROVE  UndoneStay
<1>. SUFFICES ASSUME NEW m \in ChangeId PROVE Undone(m)' <=> Undone(m)
  BY DEF UndoneStay
<1>1. \A u \in Worker : Midway(u, m)' <=> Midway(u, m)
  BY DEF Others, Same, Midway
<1>2. row'[m].status \in Ended <=> row[m].status \in Ended
  BY DEF EndedStay
<1>. QED  BY <1>1, <1>2 DEF Undone

\* Whose restore is committed has its claim.
LEMMA MidwayClaims ==
  ASSUME Told, NEW u \in Worker, NEW m \in ChangeId, Midway(u, m)
  PROVE  Claims(u, m) /\ row[m].status = "recovering" /\ row[m].sealed
<1>1. Claims(u, m)
  BY DEF Midway, Claims, Claiming, ChangeId, NoChange
<1>. QED  BY <1>1, ClaimOwned DEF Told

LEMMA UndoneSealed ==
  ASSUME Told, NEW m \in ChangeId, Undone(m)
  PROVE  row[m].sealed
BY MidwayClaims, HeldSealed DEF Undone, Ended, Held, Told

\* A change is in the catalog or out of it, as before.
LEMMA PresenceStays ==
  ASSUME Told, NEW w, KeptRows(w), NEW n \in ChangeId, row[n].sealed,
         row[n].kind = "change" => Unmoved(n),
         row'[n].status = "restored" <=> row[n].status = "restored",
         row[n].status = "restored" => row'[n].recoveredById = row[n].recoveredById,
         UndoneStay
  PROVE  PresenceFits(n)'
<1>. SUFFICES ASSUME row'[n].kind = "change", ~Unconfirmed(n)'
              PROVE  IF Absent(n)' THEN Gone(n)' ELSE InForce(n)'
  BY DEF PresenceFits
<1>1. row[n].kind = "change" /\ ~Unconfirmed(n)
  BY KeptSealed, UnconfirmedStays DEF Told, SealedStay, SameRecord
<1>2. PresenceFits(n) /\ RestoredFits(n)
  BY DEF Told, TruthInv
<1>3. IF Absent(n) THEN Gone(n) ELSE InForce(n)
  BY <1>1, <1>2 DEF PresenceFits
<1>4. row[n].status = "restored" => row[n].recoveredById \in ChangeId
  BY <1>1, <1>2 DEF RestoredFits
<1>5. Absent(n)' <=> Absent(n)
  BY <1>4 DEF Absent, UndoneStay
<1>. QED  BY <1>1, <1>3, <1>5 DEF Unmoved

\* One that closes at this step has done what its row says.
LEMMA ClosingPresence ==
  ASSUME Told, NEW n \in ChangeId, ~row[n].sealed, EndedStay, UndoneStay,
         row'[n].sealed /\ row'[n].kind = "change" => InForce(n)'
  PROVE  PresenceFits(n)'
<1>1. ~Undone(n)
  BY UndoneSealed
<1>2. ~Absent(n)'
  BY <1>1 DEF UndoneStay, Absent
<1>. QED  BY <1>2 DEF PresenceFits

\* A row that is ended after the step is being followed up, or was as before.
EndedFollowed(m) ==
  row'[m].status \in Ended =>
    Followed(m)' \/ (row[m].status \in Ended /\ (Followed(m) => Followed(m)'))

\* The restore a change names, as long as the step does not settle that change.
LEMMA RestoredStays ==
  ASSUME Told, NEW w, KeptRows(w), NEW n \in ChangeId,
         row'[n].status = "restored" => row[n].status = "restored",
         row[n].sealed => row'[n].recoveredById = row[n].recoveredById,
         row'[n].recoveredById \in {row[n].recoveredById, NoChange},
         \A m \in ChangeId : row[m].kind = "recovery" /\ row[m].recoversId = n
                               => EndedFollowed(m)
  PROVE  RestoredFits(n)'
<1>. PICK r : r = row[n].recoveredById
  OBVIOUS
<1>1. RestoredFits(n) /\ KeptEvidence(w, n) /\ r \in {NoChange} \cup ChangeId
  BY GetType DEF Told, TruthInv, KeptRows, KeptRow, Known, Base, TypeInv, Row
<1>2. row'[n].recoveredById \in {r, NoChange}
  OBVIOUS
<1>3. (row[n].recoveredById # NoChange => row[row[n].recoveredById].status # "unopened")'
  <2>. SUFFICES ASSUME r # NoChange PROVE row'[r].status # "unopened"
    BY <1>2
  <2>1. row[r].status # "unopened" /\ KeptEvidence(w, r)
    BY <1>1 DEF RestoredFits, KeptRows, KeptRow
  <2>. QED  BY <2>1 DEF KeptEvidence
<1>. SUFFICES ASSUME row'[n].kind = "change", row'[n].status = "restored"
              PROVE  RestoredFits(n)'
  BY <1>3 DEF RestoredFits
<1>4. row[n].status = "restored"
  OBVIOUS
<1>5. row[n].sealed
  BY <1>4, HeldSealed DEF Told, Held
<1>6. /\ row[n].kind = "change" /\ row'[n].recoveredById = r
      /\ row'[n].footprint = row[n].footprint
  BY <1>1, <1>2, <1>5 DEF KeptEvidence, SameRecord
<1>7. /\ r \in ChangeId /\ row[r].kind = "recovery" /\ row[r].recoversId = n
      /\ row[r].sealed /\ row[r].confirmed /\ row[r].footprint # {}
      /\ row[r].status \in Ended => Followed(r)
  BY <1>1, <1>4, <1>6 DEF RestoredFits
<1>8. /\ row'[r].kind = "recovery" /\ row'[r].recoversId = n
      /\ row'[r].sealed /\ row'[r].confirmed /\ row'[r].footprint = row[r].footprint
      /\ row'[r].checkpoint = row[r].checkpoint
  BY <1>7 DEF KeptRows, KeptRow, KeptEvidence, SameRecord
<1>9. row'[r].status \in Ended => Followed(r)'
  BY <1>7 DEF EndedFollowed
<1>10. (~Unconfirmed(n) => \A t \in row[n].footprint :
                             t \in row[r].footprint /\ n \in row[r].checkpoint[t])'
  BY <1>1, <1>4, <1>6, <1>8, UnconfirmedStays DEF RestoredFits, Told
<1>. QED  BY <1>3, <1>6, <1>7, <1>8, <1>9, <1>10 DEF RestoredFits

\* The request to restore m, if there is one, is not forgotten.
Answerable(m) == Answering(m)' \/ (EndedFollowed(m) /\ ~Answering(m))

LEMMA AskedStays ==
  ASSUME Told, NEW w, KeptRows(w), NEW n \in ChangeId,
         n \in asked' => n \in asked /\ (row[n].kind = "change" => Answerable(n))
  PROVE  AskedFits(n)'
<1>. SUFFICES ASSUME n \in asked' PROVE AskedFits(n)'
  BY DEF AskedFits
<1>1. /\ row[n].kind = "change" /\ row[n].sealed
      /\ row[n].status \in Ended => Followed(n) \/ Answering(n)
  BY DEF Told, TruthInv, AskedFits
<1>2. row'[n].kind = "change" /\ row'[n].sealed
  BY <1>1, KeptSealed DEF SealedStay, SameRecord
<1>3. row'[n].status \in Ended => Followed(n)' \/ Answering(n)'
  BY <1>1 DEF EndedFollowed, Answerable
<1>. QED  BY <1>2, <1>3 DEF AskedFits

\* The row of a change that is attended to goes on being so, or is finished with.
Attends(w, n) ==
  /\ ~row'[n].late
  /\ row'[n].status = "recovering" =>
       \/ w \in Worker /\ Claims(w, n)'
       \/ row[n].status = "recovering" /\ (w \in Worker => ~Claims(w, n))
  /\ row'[n].status \in {"applying", "verifying"} =>
       \/ w \in Worker /\ Works(w, n)'
       \/ row[n].status \in {"applying", "verifying"} /\ (w \in Worker => ~Works(w, n))
  /\ row'[n].sealed \/ row'[n].status \in Unsettled

LEMMA AttendedStays ==
  ASSUME Told, NEW w, Others(w), NEW n \in ChangeId, Attends(w, n)
  PROVE  AttendedFits(n)'
<1>1. AttendedFits(n)
  BY DEF Told, TruthInv
<1>2. \A u \in Worker \ {w} : (Claims(u, n) => Claims(u, n)') /\ (Works(u, n) => Works(u, n)')
  BY DEF Others, Same, Claims, Works
<1>3. row'[n].status = "recovering" => \E u \in Worker : Claims(u, n)'
  BY <1>1, <1>2 DEF AttendedFits, Attends
<1>4. row'[n].status \in {"applying", "verifying"} => \E u \in Worker : Works(u, n)'
  BY <1>1, <1>2 DEF AttendedFits, Attends
<1>. QED  BY <1>3, <1>4 DEF AttendedFits, Attends, Unsettled

\* Another call is no nearer to asking what has been answered.
LEMMA AskingStays ==
  ASSUME Told, NEW w, KeptRows(w), Others(w), NEW u \in Worker \ {w},
         UNCHANGED live \/ pc[u] \notin HasRecord,
         pc[u] = "requesting" /\ Undone(job[u].change)' => Undone(job[u].change)
  PROVE  AskingFits(u)'
<1>. PICK c : c = job[u].change
  OBVIOUS
<1>. PICK r : r = job[u].record
  OBVIOUS
<1>1. pc'[u] = pc[u] /\ job'[u] = job[u] /\ AskingFits(u)
  BY DEF Others, Same, Told, TruthInv
<1>2. c # NoChange => c \in ChangeId /\ row[c].sealed
  BY OwnSealed
<1>3. c # NoChange => row'[c].kind = row[c].kind /\ row'[c].sealed
  BY <1>2, KeptSealed DEF SealedStay, SameRecord
<1>6. pc[u] \in {"declined", "keeping", "answering"} => c # NoChange
  BY OwnJob DEF StepFits, Told, Known, Base, ChangeId, NoChange
<1>4. ASSUME pc[u] = "verifying", c = NoChange PROVE InForce(r)'
  <2>1. Works(u, r) /\ r \in ChangeId /\ pc[u] \in HasRecord
    BY <1>4, OwnRecord DEF Works, HasRecord, Told, Known
  <2>2. row'[r] = row[r] /\ UNCHANGED live
    BY <2>1 DEF KeptRows, KeptRow, KeptRecord
  <2>. QED  BY <1>1, <1>4, <2>2 DEF AskingFits, InForce
<1>5. ASSUME pc[u] = "failing" PROVE row'[r].kind = "change"
  <2>1. r \in ChangeId /\ row[r].sealed /\ row[r].kind = "change"
    BY <1>1, <1>5 DEF Told, Known, Base, CallsFit, ChangeFits, Restorable, AskingFits
  <2>. QED  BY <2>1, KeptSealed DEF SealedStay, SameRecord
<1>. QED  BY <1>1, <1>3, <1>4, <1>5, <1>6 DEF AskingFits

-----------------------------------------------------------------------------
(* A quiet step: nothing is committed, settled or followed up by it.        *)

\* Its rows: what is sealed stays, what closes has done what it says, and what
\* is in progress has somebody who is at it.
RowsQuiet(w) ==
  /\ KeptRows(w) /\ EndedStay
  /\ \A m \in ChangeId : Attends(w, m)
  /\ \A m \in ChangeId : ~row[m].sealed /\ row'[m].sealed /\ row'[m].kind = "change"
                           => InForce(m)'

CallQuiet(w) ==
  /\ Others(w)
  /\ w \in Worker => /\ pc[w] \notin {"following", "settling", "answering"}
                     /\ \A m \in ChangeId : Midway(w, m)' <=> Midway(w, m)

AskedQuiet == \A m \in ChangeId : m \in asked' =>
  m \in asked \/ (row'[m].kind = "change" /\ row'[m].sealed /\ row'[m].status \notin Ended)

LiveQuiet(w) ==
  UNCHANGED live \/ (LiveStays /\ \A u \in Worker \ {w} : pc[u] \notin HasRecord)

LEMMA QuietStep ==
  ASSUME Told, NEW w, RowsQuiet(w), CallQuiet(w), AskedQuiet, LiveQuiet(w),
         w \in Worker => RestoringFits(w)' /\ AskingFits(w)'
  PROVE  TruthInv'
<1>1. KeptRows(w) /\ EndedStay /\ Others(w)
  BY DEF RowsQuiet, CallQuiet
<1>2. LiveStays
  BY <1>1, SameLive DEF LiveQuiet
<1>3. UndoneStay
  BY <1>1, UndoneSame DEF CallQuiet
<1>4. \A m \in ChangeId : EndedFollowed(m) /\ Answerable(m)
  BY <1>1 DEF CallQuiet, Others, Same, Followed, Answering, Answerable, EndedFollowed, EndedStay
<1>5. ASSUME NEW n \in ChangeId
      PROVE  /\ AttendedFits(n)' /\ PresenceFits(n)' /\ RestoredFits(n)'
             /\ ConfirmedFits(n)' /\ AskedFits(n)'
  <2>1. AttendedFits(n)'
    BY <1>1, AttendedStays DEF RowsQuiet
  <2>2. PresenceFits(n)'
    <3>1. CASE row[n].sealed
      <4>1. row[n].kind = "change" => Unmoved(n)
        BY <1>2, <3>1 DEF LiveStays
      <4>2. row'[n].status = "restored" <=> row[n].status = "restored"
        BY <1>1 DEF EndedStay, Ended
      <4>3. row'[n].recoveredById = row[n].recoveredById
        BY <1>1, <3>1 DEF KeptRows, KeptRow, KeptEvidence, CallQuiet
      <4>. QED  BY <1>1, <1>3, <3>1, <4>1, <4>2, <4>3, PresenceStays
    <3>2. CASE ~row[n].sealed
      <4>1. row'[n].sealed /\ row'[n].kind = "change" => InForce(n)'
        BY <3>2 DEF RowsQuiet
      <4>. QED  BY <1>1, <1>3, <3>2, <4>1, ClosingPresence
    <3>. QED  BY <3>1, <3>2
  <2>3. RestoredFits(n)'
    <3>1. row'[n].status = "restored" => row[n].status = "restored"
      BY <1>1 DEF EndedStay, Ended
    <3>2. /\ row[n].sealed => row'[n].recoveredById = row[n].recoveredById
          /\ row'[n].recoveredById \in {row[n].recoveredById, NoChange}
      BY <1>1 DEF KeptRows, KeptRow, KeptEvidence, CallQuiet
    <3>. QED  BY <1>1, <1>4, <3>1, <3>2, RestoredStays
  <2>4. ConfirmedFits(n)'
    BY <1>1 DEF KeptRows, KeptRow
  <2>5. AskedFits(n)'
    <3>1. CASE n \in asked' => n \in asked
      BY <1>1, <1>4, <3>1, AskedStays
    <3>2. CASE row'[n].kind = "change" /\ row'[n].sealed /\ row'[n].status \notin Ended
      BY <3>2 DEF AskedFits
    <3>. QED  BY <3>1, <3>2 DEF AskedQuiet
  <2>. QED  BY <2>1, <2>2, <2>3, <2>4, <2>5
<1>6. ASSUME NEW u \in Worker \ {w}
      PROVE  RestoringFits(u)' /\ AskingFits(u)'
  <2>1. RestoringFits(u)'
    BY <1>1, RestoringStays
  <2>2. UNCHANGED live \/ pc[u] \notin HasRecord
    BY DEF LiveQuiet
  <2>3. pc[u] = "requesting" /\ Undone(job[u].change)' => Undone(job[u].change)
    <3>1. pc[u] = "requesting" => job[u].change \in ChangeId
      BY OwnJob DEF StepFits, Told, Known, Base
    <3>2. job'[u] = job[u]
      BY <1>1 DEF Others, Same
    <3>. QED  BY <1>3, <3>1, <3>2 DEF UndoneStay
  <2>4. AskingFits(u)'
    BY <1>1, <2>2, <2>3, AskingStays
  <2>. QED  BY <2>1, <2>4
<1>. QED  BY <1>5, <1>6 DEF TruthInv

-----------------------------------------------------------------------------
(* Which rows a step writes.                                               *)

\* Call w goes on claiming and working on what it did.
CallKeeps(w, m) ==
  w \in Worker => (Claims(w, m) => Claims(w, m)') /\ (Works(w, m) => Works(w, m)')

LEMMA SameAttends ==
  ASSUME Told, NEW w, NEW m \in ChangeId, row'[m] = row[m], CallKeeps(w, m)
  PROVE  Attends(w, m)
<1>1. AttendedFits(m)
  BY DEF Told, TruthInv
<1>. QED  BY <1>1 DEF AttendedFits, Attends, CallKeeps, Unsettled

LEMMA SameKept ==
  ASSUME Told, NEW w, NEW m \in ChangeId, row'[m] = row[m]
  PROVE  KeptRow(w, m)
<1>1. KeptEvidence(w, m) /\ KeptRecord(w, m)
  BY DEF KeptEvidence, KeptRecord, SameRecord
<1>2. ConfirmedFits(m)'
  BY DEF Told, TruthInv, ConfirmedFits
<1>. QED  BY <1>1, <1>2 DEF KeptRow

LEMMA NoneQuiet ==
  ASSUME Told, NEW w, UNCHANGED row, \A m \in ChangeId : CallKeeps(w, m)
  PROVE  RowsQuiet(w)
<1>1. KeptRows(w) /\ \A m \in ChangeId : Attends(w, m)
  BY SameKept, SameAttends DEF KeptRows
<1>. QED  BY <1>1 DEF RowsQuiet, EndedStay

\* Nobody else works on the row a call has open, nor on one not opened yet.
LEMMA NobodyElse ==
  ASSUME Told, NEW w \in Worker, NEW n \in ChangeId,
         Works(w, n) \/ row[n].status = "unopened", NEW u \in Worker \ {w}
  PROVE  ~Works(u, n)
<1>. SUFFICES ASSUME Works(u, n) PROVE FALSE
  OBVIOUS
<1>1. lock = u /\ row[n].status \in {"applying", "verifying"}
  BY OwnRecord DEF Works, RecordFits, HasRecord, Applying, Told, Known
<1>2. Works(w, n) => lock = w
  BY OwnRecord DEF Works, Told, Known
<1>. QED  BY <1>1, <1>2

\* A call writes the row it has open, or opens one.
LEMMA PutOwn ==
  ASSUME Told, NEW w \in Worker, NEW n \in ChangeId, NEW r, ~row[n].sealed,
         row' = [row EXCEPT ![n] = r], Works(w, n) \/ row[n].status = "unopened",
         r.status \notin Ended \cup {"unopened", "recovering"}, ~r.late,
         r.recoveredById = row[n].recoveredById \/ r.recoveredById = NoChange,
         r.sealed \/ r.status \in Unsettled,
         r.status \in {"applying", "verifying"} => Works(w, n)',
         r.kind = "recovery" /\ r.confirmed => r.status \in Standing,
         r.sealed /\ r.kind = "change" => InForce(n)',
         \A m \in ChangeId \ {n} : CallKeeps(w, m)
  PROVE  RowsQuiet(w)
<1>1. row'[n] = r /\ \A m \in ChangeId \ {n} : row'[m] = row[m]
  BY DEF Told, Known, Base, TypeInv, TypeOK
<1>2. row[n].status \notin Ended
  BY OwnRecord DEF Works, RecordFits, HasRecord, Applying, Ended, Told, Known
<1>3. \A m \in ChangeId \ {n} : KeptRow(w, m) /\ Attends(w, m)
  BY <1>1, SameKept, SameAttends
<1>4. KeptEvidence(w, n)
  BY <1>1 DEF KeptEvidence
<1>5. KeptRecord(w, n)
  <2>1. \A u \in Worker \ {w} : ~Works(u, n)
    BY NobodyElse
  <2>2. \A u \in Worker : ~(pc[u] = "settling" /\ job[u].record = n)
    BY DEF Told, Known, ClaimInv, ClaimsFit, ClaimFits
  <2>. QED  BY <2>1, <2>2 DEF KeptRecord
<1>6. ConfirmedFits(n)'
  BY <1>1 DEF ConfirmedFits
<1>7. Attends(w, n)
  BY <1>1 DEF Attends
<1>8. EndedStay
  BY <1>1, <1>2 DEF EndedStay
<1>9. KeptRows(w)
  BY <1>3, <1>4, <1>5, <1>6 DEF KeptRows, KeptRow
<1>. QED  BY <1>1, <1>3, <1>7, <1>8, <1>9 DEF RowsQuiet

\* Some row that closed moves on, without anything being undone by it.
LEMMA PutMoved ==
  ASSUME Told, NEW w, NEW n \in ChangeId, NEW r, row[n].sealed, Moves(n, r),
         row' = [row EXCEPT ![n] = r],
         r.confirmed = row[n].confirmed, r.recoveredById = row[n].recoveredById, ~r.late,
         row[n].status \notin Ended, r.status \notin Ended,
         row[n].kind = "recovery" =>
           /\ row[n].confirmed /\ r.status \in Standing \cup {"recovering"}
           /\ row[n].status = "healthy" => \E m \in ChangeId : row[m].recoveredById = n,
         r.status = "recovering" =>
           \/ w \in Worker /\ Claims(w, n)'
           \/ row[n].status = "recovering" /\ (w \in Worker => ~Claims(w, n)),
         \A m \in ChangeId \ {n} : CallKeeps(w, m)
  PROVE  RowsQuiet(w)
<1>1. row'[n] = r /\ \A m \in ChangeId \ {n} : row'[m] = row[m]
  BY DEF Told, Known, Base, TypeInv, TypeOK
<1>2. row[n].status \notin Unsettled /\ r.status \notin Unsettled /\ r.sealed
  BY DEF Told, Known, Base, RowsFit, RowFits, Moves, Unsettled
<1>3. \A m \in ChangeId \ {n} : KeptRow(w, m) /\ Attends(w, m)
  BY <1>1, SameKept, SameAttends
<1>4. row[n].kind = "recovery" => row[n].status \notin Doubtful
  BY DEF Told, TruthInv, ConfirmedFits, Standing, Ended, Doubtful
<1>5. KeptEvidence(w, n)
  BY <1>1, <1>2, <1>4 DEF KeptEvidence, Moves, SameRecord, Unsettled
<1>6. KeptRecord(w, n)
  <2>1. \A u \in Worker : ~Works(u, n)
    BY OwnRecord DEF Works, Told, Known
  <2>2. ASSUME NEW u \in Worker, pc[u] = "settling", job[u].record = n
        PROVE  FALSE
    <3>1. row[n].kind = "recovery" /\ job[u].change # NoChange
      BY <2>2, OwnClaim DEF Told, Known, ClaimInv, ClaimsFit, ClaimFits, Claiming, ChangeId, NoChange
    <3>2. /\ \A m \in ChangeId : row[m].recoveredById # n
          /\ row[n].status = "healthy" \/ row[n].status \in Doubtful
      BY <2>2, <3>1 DEF Told, TruthInv, RestoringFits
    <3>. QED  BY <1>4, <3>1, <3>2
  <2>. QED  BY <2>1, <2>2 DEF KeptRecord
<1>7. ConfirmedFits(n)'
  BY <1>1 DEF ConfirmedFits, Moves
<1>8. Attends(w, n)
  BY <1>1, <1>2 DEF Attends, Unsettled
<1>9. EndedStay
  BY <1>1 DEF EndedStay
<1>10. KeptRows(w)
  BY <1>3, <1>5, <1>6, <1>7 DEF KeptRows, KeptRow
<1>. QED  BY <1>1, <1>3, <1>8, <1>9, <1>10 DEF RowsQuiet

-----------------------------------------------------------------------------
(* What the call itself knows after its step.                              *)

LEMMA GotoQuiet ==
  ASSUME Told, NEW w \in Worker, NEW s, NEW j, Goto(w, s, j),
         pc[w] \notin {"following", "settling", "answering"},
         \/ /\ s \notin {"committed", "verifying", "settling"}
            /\ pc[w] \in {"committed", "verifying"} => job[w].change = NoChange
         \/ /\ s \in {"verifying", "settling"} /\ pc[w] \in {"committed", "verifying"}
            /\ j.change = job[w].change
         \/ s = "verifying" /\ job[w].change = NoChange /\ j.change = NoChange
  PROVE  CallQuiet(w) /\ pc'[w] = s /\ job'[w] = j
<1>1. pc'[w] = s /\ job'[w] = j /\ \A u \in Worker \ {w} : Same(u)
  BY DEF Goto, Same, Told, Known, Base, TypeInv, TypeOK
<1>2. \A m \in ChangeId : Midway(w, m)' <=> Midway(w, m)
  BY <1>1 DEF Midway, ChangeId, NoChange
<1>. QED  BY <1>1, <1>2 DEF CallQuiet, Others

LEMMA LeaveQuiet ==
  ASSUME Told, NEW w \in Worker, Leave(w),
         pc[w] \notin {"following", "settling", "answering", "committed"},
         pc[w] = "verifying" => job[w].change = NoChange
  PROVE  CallQuiet(w) /\ pc'[w] = "idle" /\ job'[w] = NoJob
BY GotoQuiet DEF Leave

\* What it knows of the change it restores, while it has no record open.
LEMMA StillRestoring ==
  ASSUME Told, NEW w \in Worker, KeptRows(w), NEW s, NEW j, pc'[w] = s, job'[w] = j,
         s \notin HasRecord \cup {"settling"}, j.change = job[w].change,
         j.from = job[w].from \/ j.from \in Standing
  PROVE  RestoringFits(w)'
<1>. PICK c : c = job[w].change
  OBVIOUS
<1>. SUFFICES ASSUME c # NoChange PROVE RestoringFits(w)'
  BY DEF RestoringFits
<1>1. c \in ChangeId /\ row[c].sealed
  BY OwnSealed
<1>2. row'[c].kind = row[c].kind /\ row'[c].confirmed = row[c].confirmed
  BY <1>1, KeptSealed DEF SealedStay, SameRecord
<1>3. row[c].kind = "recovery" => row[c].confirmed /\ job[w].from \in Standing
  BY DEF Told, TruthInv, RestoringFits
<1>4. s \notin {"verifying", "settling"}
  BY DEF HasRecord
<1>. QED  BY <1>2, <1>3, <1>4 DEF RestoringFits

LEMMA NothingRestored ==
  ASSUME NEW w \in Worker, job'[w].change = NoChange
  PROVE  RestoringFits(w)'
BY DEF RestoringFits

\* A step that is not about asking anybody.
LEMMA NothingAsked ==
  ASSUME Told, NEW w \in Worker, KeptRows(w), NEW s, NEW j, pc'[w] = s, job'[w] = j,
         s \notin {"reconciling", "declined", "keeping", "answering", "failing", "requesting"},
         s = "verifying" => j.change # NoChange,
         s = "asking" => j.mode = "automatic",
         \/ j.then # "asking" /\ j.mode # "automatic"
         \/ j.change = job[w].change /\ j.mode = job[w].mode
            /\ (j.then = "asking" => job[w].then = "asking" \/ j.mode = "automatic")
  PROVE  AskingFits(w)'
<1>1. AskingFits(w)
  BY DEF Told, TruthInv
<1>2. ASSUME j.change = job[w].change, j.mode = job[w].mode, j.mode = "automatic",
             j.change # NoChange
      PROVE  row'[j.change].kind = "change"
  <2>1. j.change \in ChangeId /\ row[j.change].sealed
    BY <1>2, OwnSealed
  <2>. QED  BY <1>1, <1>2, <2>1, KeptSealed DEF AskingFits, SealedStay, SameRecord
<1>. QED  BY <1>1, <1>2 DEF AskingFits

\* A step that goes on to decide of change n.
LEMMA DecidesNext ==
  ASSUME Told, NEW w \in Worker, KeptRows(w), NEW s \in Deciding \ {"reconciling"}, NEW j,
         pc'[w] = s, job'[w] = j, NEW n \in ChangeId, j.change = n,
         row[n].kind = "change", row[n].sealed, j.then = "asking" => j.mode = "automatic"
  PROVE  RestoringFits(w)' /\ AskingFits(w)'
<1>1. row'[n].kind = "change" /\ row'[n].sealed
  BY KeptSealed DEF SealedStay, SameRecord
<1>. QED  BY <1>1 DEF RestoringFits, AskingFits, Deciding, HasRecord

LEMMA IdleAsks ==
  ASSUME Told, NEW w \in Worker, KeptRows(w), pc'[w] = "idle", job'[w] = NoJob
  PROVE  RestoringFits(w)' /\ AskingFits(w)'
BY NothingRestored, NothingAsked DEF NoJob

\* The call returns, having settled nothing.
LEMMA LeavingTells ==
  ASSUME Told, NEW w \in Worker, RowsQuiet(w), Leave(w), AskedQuiet, UNCHANGED live,
         pc[w] \notin {"following", "settling", "answering", "committed"},
         pc[w] = "verifying" => job[w].change = NoChange
  PROVE  TruthInv'
<1>1. CallQuiet(w) /\ pc'[w] = "idle" /\ job'[w] = NoJob
  BY LeaveQuiet
<1>2. RestoringFits(w)' /\ AskingFits(w)'
  BY <1>1, IdleAsks DEF RowsQuiet
<1>. QED  BY <1>1, <1>2, QuietStep DEF LiveQuiet

\* A call that claims and works on nothing, or on the one row it writes.
LEMMA ElseKeeps ==
  ASSUME Told, NEW w \in Worker, NEW n \in ChangeId,
         pc[w] \in HasRecord => job[w].record = n,
         pc[w] \in Claiming \cup {"verifying"} =>
           \/ job[w].change = n \/ job[w].change = NoChange
           \/ pc'[w] \in Claiming \cup {"verifying"} /\ job'[w].change = job[w].change
  PROVE  \A m \in ChangeId \ {n} : CallKeeps(w, m)
BY DEF CallKeeps, Claims, Works, HasRecord, ChangeId, NoChange

LEMMA FreeKeeps ==
  ASSUME Told, NEW w \in Worker, pc[w] \notin HasRecord,
         pc[w] \in Claiming \cup {"verifying"} =>
           pc'[w] \in Claiming \cup {"verifying"} /\ job'[w].change = job[w].change
  PROVE  \A m : CallKeeps(w, m)
BY DEF CallKeeps, Claims, Works, HasRecord

LEMMA SameAsked ==
  ASSUME asked' \subseteq asked
  PROVE  AskedQuiet
BY DEF AskedQuiet

-----------------------------------------------------------------------------
(* The work of a change.                                                   *)

\* A row not opened yet names nothing and is named by nothing.
LEMMA UnopenedUnnamed ==
  ASSUME Told, NEW n \in ChangeId, NextId(n)
  PROVE  /\ row[n].status = "unopened" /\ ~row[n].sealed
         /\ \A m \in ChangeId : row[m].recoveredById # n
<1>1. row[n].status = "unopened"
  BY DEF NextId, ChangeId
<1>2. \A m \in ChangeId : row[m].recoveredById # n
  <2>. SUFFICES ASSUME NEW m \in ChangeId, row[m].recoveredById = n PROVE FALSE
    OBVIOUS
  <2>. QED  BY <1>1 DEF Told, TruthInv, RestoredFits, ChangeId, NoChange
<1>. QED  BY <1>1, <1>2, UnopenedUnsealed DEF Told, Known

LEMMA OpenQuiet ==
  ASSUME Told, NEW w \in Worker, NEW n \in ChangeId, NextId(n), NEW kind, NEW c,
         row' = [row EXCEPT ![n] = allocateRow(kind, c)], Works(w, n)',
         \A m \in ChangeId \ {n} : CallKeeps(w, m)
  PROVE  RowsQuiet(w) /\ row'[n] = allocateRow(kind, c)
<1>. PICK r : r = allocateRow(kind, c)
  OBVIOUS
<1>1. /\ r.status = "applying" /\ ~r.late /\ r.recoveredById = NoChange
      /\ ~r.sealed /\ ~r.confirmed
  BY DEF allocateRow, NoRow
<1>2. row[n].status = "unopened" /\ ~row[n].sealed
  BY UnopenedUnnamed
<1>3. RowsQuiet(w)
  BY <1>1, <1>2, PutOwn DEF Ended, Unsettled
<1>. QED  BY <1>3 DEF Told, Known, Base, TypeInv, TypeOK

LEMMA OpenChangeTells ==
  ASSUME Told, NEW w \in Worker, OpenChange(w)
  PROVE  TruthInv'
<1>. PICK n \in ChangeId :
       /\ NextId(n)
       /\ row' = [row EXCEPT ![n] = allocateRow("change", NoChange)]
       /\ Goto(w, "working", [NoJob EXCEPT !.record = n])
  BY DEF OpenChange
<1>. PICK j : j = [NoJob EXCEPT !.record = n]
  OBVIOUS
<1>1. pc[w] = "idle" /\ UNCHANGED <<live, asked>>
  BY DEF OpenChange
<1>2. j.record = n /\ j.change = NoChange /\ j.mode = "manual" /\ j.then = "idle"
  BY DEF NoJob
<1>3. CallQuiet(w) /\ pc'[w] = "working" /\ job'[w] = j
  BY <1>1, <1>2, GotoQuiet
<1>4. Works(w, n)' /\ \A m \in ChangeId \ {n} : CallKeeps(w, m)
  BY <1>1, <1>2, <1>3, ElseKeeps DEF Works, HasRecord, Applying, Claiming
<1>5. RowsQuiet(w)
  BY <1>4, OpenQuiet
<1>6. RestoringFits(w)' /\ AskingFits(w)'
  BY <1>2, <1>3, <1>5, NothingRestored, NothingAsked DEF RowsQuiet
<1>. QED  BY <1>1, <1>3, <1>5, <1>6, SameAsked, QuietStep DEF LiveQuiet

LEMMA RunStatementTells ==
  ASSUME Told, NEW w \in Worker, RunStatement(w)
  PROVE  TruthInv'
<1>. PICK n : n = job[w].record
  OBVIOUS
<1>1. pc[w] = "working" /\ UNCHANGED <<row, asked, pc, job>>
  BY DEF RunStatement
<1>2. /\ n \in ChangeId /\ ~row[n].sealed /\ lock = w
      /\ \A u \in Worker \ {w} : pc[u] \notin HasRecord
  BY <1>1, OwnRecord DEF HasRecord, Told, Known
<1>3. CallQuiet(w) /\ \A m \in ChangeId : CallKeeps(w, m)
  BY <1>1 DEF CallQuiet, Others, Same, Midway, CallKeeps, Claims, Works
<1>4. RowsQuiet(w)
  BY <1>1, <1>3, NoneQuiet
<1>5. LiveStays
  <2>. SUFFICES ASSUME NEW m \in ChangeId, row[m].sealed PROVE Unmoved(m)
    BY DEF LiveStays
  <2>1. PICK t \in Table : live' = [live EXCEPT ![t] = @ \cup {n}]
    BY DEF RunStatement
  <2>2. \A x \in Table : m \in live'[x] <=> m \in live[x]
    BY <1>2, <2>1 DEF Told, Known, Base, TypeInv, TypeOK, Catalog
  <2>3. Gone(m) => Gone(m)'
    BY <2>2 DEF Gone
  <2>4. InForce(m) => InForce(m)'
    <3>1. row[m].footprint \subseteq Table
      BY GetType DEF Told, Known, Base, TypeInv, Row
    <3>. QED  BY <1>1, <2>2, <3>1 DEF InForce
  <2>. QED  BY <2>3, <2>4 DEF Unmoved
<1>6. RestoringFits(w)' /\ AskingFits(w)'
  <2>1. job[w].change = NoChange
    BY <1>1, OwnJob DEF StepFits, Told, Known, Base
  <2>2. pc[w] # "reconciling"
    BY <1>1
  <2>. QED  BY <1>1, <1>4, <2>1, <2>2, NothingRestored, NothingAsked DEF RowsQuiet
<1>. QED  BY <1>1, <1>2, <1>3, <1>4, <1>5, <1>6, SameAsked, QuietStep DEF LiveQuiet

\* A call that ends the work it has open and returns.
LEMMA EndsOwn ==
  ASSUME Told, NEW w \in Worker, NEW n \in ChangeId, n = job[w].record, NEW r,
         pc[w] \in HasRecord, job[w].change = NoChange, Leave(w),
         row' = [row EXCEPT ![n] = r],
         r.status \notin Ended \cup {"unopened", "recovering", "applying", "verifying"},
         ~r.late, r.recoveredById = row[n].recoveredById \/ r.recoveredById = NoChange,
         r.sealed \/ r.status \in Unsettled, ~(r.kind = "recovery" /\ r.confirmed),
         r.sealed => InForce(n)', UNCHANGED <<live, asked>>
  PROVE  TruthInv'
<1>1. Works(w, n) /\ ~row[n].sealed /\ pc[w] # "committed"
  BY OwnRecord, OwnJob DEF Works, Told, Known, Base, StepFits, Claiming, ChangeId, NoChange
<1>2. \A m \in ChangeId \ {n} : CallKeeps(w, m)
  BY ElseKeeps
<1>3. RowsQuiet(w)
  BY <1>1, <1>2, PutOwn
<1>4. pc[w] \notin {"following", "settling", "answering", "committed"}
  BY <1>1 DEF HasRecord, Applying
<1>. QED  BY <1>3, <1>4, SameAsked, LeavingTells

LEMMA DiscardChangeTells ==
  ASSUME Told, NEW w \in Worker, DiscardChange(w)
  PROVE  TruthInv'
<1>. PICK n : n = job[w].record
  OBVIOUS
<1>. PICK r : r = [NoRow EXCEPT !.status = "withdrawn"]
  OBVIOUS
<1>1. pc[w] = "working" /\ Leave(w) /\ row' = [row EXCEPT ![n] = r] /\ UNCHANGED <<live, asked>>
  BY DEF DiscardChange
<1>2. /\ r.status = "withdrawn" /\ ~r.late /\ r.recoveredById = NoChange
      /\ ~r.sealed /\ r.kind = "change"
  BY DEF NoRow
<1>3. n \in ChangeId /\ job[w].change = NoChange /\ pc[w] \in HasRecord
  BY <1>1, OwnRecord, OwnJob DEF HasRecord, Applying, StepFits, Told, Known, Base
<1>. QED  BY <1>1, <1>2, <1>3, EndsOwn DEF Ended, Unsettled

\* One whose change failed, and that goes on to recover it, or leaves it.
LEMMA FailsOwn ==
  ASSUME Told, NEW w \in Worker, NEW n \in ChangeId, n = job[w].record, NEW r,
         pc[w] \in HasRecord, job[w].change = NoChange, CloseFailing(w),
         row' = [row EXCEPT ![n] = r],
         r.status \in {"partially_applied", "verification_failed"}, ~r.late,
         r.recoveredById = row[n].recoveredById, r.sealed, r.kind = "change",
         InForce(n)', UNCHANGED <<live, asked>>
  PROVE  TruthInv'
<1>2. Works(w, n) /\ ~row[n].sealed
  BY OwnRecord DEF Works, Told, Known
<1>3. CASE Leave(w)
  BY <1>3, EndsOwn DEF Ended
<1>4. CASE Goto(w, "failing", job[w])
  <2>1. CallQuiet(w) /\ pc'[w] = "failing" /\ job'[w] = job[w]
    BY <1>4, GotoQuiet DEF HasRecord, Applying
  <2>2. \A m \in ChangeId \ {n} : CallKeeps(w, m)
    BY ElseKeeps
  <2>3. RowsQuiet(w)
    BY <1>2, <2>2, PutOwn DEF Ended
  <2>4. row'[n].kind = "change"
    BY DEF Told, Known, Base, TypeInv, TypeOK
  <2>5. RestoringFits(w)'
    BY <2>1, NothingRestored
  <2>6. AskingFits(w)'
    BY <2>1, <2>4 DEF AskingFits, Told, TruthInv
  <2>. QED  BY <2>1, <2>3, <2>5, <2>6, SameAsked, QuietStep DEF LiveQuiet
<1>. QED  BY <1>3, <1>4 DEF CloseFailing

LEMMA ApplyFailedTells ==
  ASSUME Told, NEW w \in Worker, ApplyFailed(w)
  PROVE  TruthInv'
<1>. PICK n : n = job[w].record
  OBVIOUS
<1>. PICK nothing : nothing = (diffCatalogs(row[n].checkpoint, live) = {})
  OBVIOUS
<1>. PICK s : s = IF nothing THEN "failed" ELSE "partially_applied"
  OBVIOUS
<1>. PICK r : r = closed(n, s)
  OBVIOUS
<1>1. /\ pc[w] = "working" /\ row' = [row EXCEPT ![n] = r] /\ UNCHANGED <<live, asked>>
      /\ IF nothing THEN Leave(w) ELSE CloseFailing(w)
  BY DEF ApplyFailed
<1>2. /\ n \in ChangeId /\ job[w].change = NoChange /\ row[n].kind = "change"
      /\ row[n] \in Row /\ pc[w] \in HasRecord
  BY <1>1, OwnRecord, OwnJob DEF RecordFits, HasRecord, Applying, StepFits, Told, Known, Base
<1>3. /\ r.status = s /\ r.sealed /\ ~r.late /\ r.kind = "change"
      /\ r.recoveredById = row[n].recoveredById
      /\ r.footprint = diffCatalogs(row[n].checkpoint, live)
  BY <1>2 DEF closed, withEvidence, Row
<1>4. InForce(n)'
  <2>1. row'[n] = r
    BY <1>1, <1>2 DEF Told, Known, Base, TypeInv, TypeOK
  <2>. QED  BY <1>1, <1>3, <2>1, WorkShows DEF InForce, Told, Known
<1>5. CASE nothing
  BY <1>1, <1>2, <1>3, <1>4, <1>5, EndsOwn DEF Ended
<1>6. CASE ~nothing
  <2>1. r.status = "partially_applied" /\ CloseFailing(w)
    BY <1>1, <1>3, <1>6
  <2>. QED  BY <1>1, <1>2, <1>3, <1>4, <2>1, FailsOwn
<1>. QED  BY <1>5, <1>6

-----------------------------------------------------------------------------
(* The record of a restore.                                                *)

\* What a restore knows of the change it is about, while its record is open.
LEMMA OwnRestoring ==
  ASSUME Told, NEW w \in Worker, KeptRows(w), pc[w] \in HasRecord, job'[w] = job[w],
         NEW c, c = job[w].change, c # NoChange, NEW r, r = job[w].record,
         row'[r].checkpoint = row[r].checkpoint
  PROVE  /\ c \in ChangeId /\ row[c].sealed
         /\ row'[c].kind = row[c].kind /\ row'[c].footprint = row[c].footprint
         /\ row[c].kind = "recovery" => row'[c].confirmed /\ job[w].from \in Standing
         /\ \A n \in ChangeId : row'[n].recoveredById # r
         /\ Unconfirmed(c) => Unconfirmed(c)'
         /\ row[c].kind = "change" /\ ~Unconfirmed(c) =>
              \A t \in row[c].footprint : c \in row'[r].checkpoint[t]
<1>1. c \in ChangeId /\ row[c].sealed
  BY OwnSealed
<1>2. SameRecord(c) /\ row'[c].confirmed = row[c].confirmed
  BY <1>1, KeptSealed DEF SealedStay
<1>3. RestoringFits(w) /\ r \in ChangeId
  BY OwnRecord DEF Told, TruthInv, Known
<1>4. \A n \in ChangeId : row'[n].recoveredById # r
  BY <1>3 DEF RestoringFits, KeptRows, KeptRow, KeptEvidence, HasRecord, Applying,
              ChangeId, NoChange
<1>5. Unconfirmed(c) => Unconfirmed(c)'
  BY UnconfirmedStays DEF Told
<1>. QED  BY <1>1, <1>2, <1>3, <1>4, <1>5 DEF RestoringFits, SameRecord

\* The catalog a restore has committed no longer shows the change.
LEMMA CommittedShows ==
  ASSUME Told, NEW w \in Worker, pc[w] = "committed", NEW c, c = job[w].change,
         NEW r, r = job[w].record, row[c].kind = "change", ~Unconfirmed(c)
  PROVE  row[c].footprint \subseteq diffCatalogs(row[r].checkpoint, live)
<1>1. c \in ChangeId /\ c # NoChange /\ Claims(w, c)
  BY OwnClaim DEF Told, Known, Claiming, ChangeId, NoChange
<1>2. Undone(c) /\ row[c].status = "recovering" /\ row[c].sealed
  BY <1>1, MidwayClaims DEF Undone, Midway
<1>3. Gone(c)
  BY <1>1, <1>2 DEF Told, TruthInv, PresenceFits, Absent
<1>4. \A t \in row[c].footprint : c \in row[r].checkpoint[t]
  BY <1>1 DEF Told, TruthInv, RestoringFits, HasRecord, Applying
<1>5. row[c].footprint \subseteq Table
  BY <1>1, GetType DEF Told, Known, Base, TypeInv, Row
<1>. QED  BY <1>3, <1>4, <1>5 DEF Gone, diffCatalogs

LEMMA AppliedTells ==
  ASSUME Told, NEW w \in Worker, Applied(w)
  PROVE  TruthInv'
<1>. PICK n : n = job[w].record
  OBVIOUS
<1>. PICK c : c = job[w].change
  OBVIOUS
<1>. PICK r : r = withEvidence(n, "verifying")
  OBVIOUS
<1>. PICK D : D = diffCatalogs(row[n].checkpoint, live)
  OBVIOUS
<1>1. /\ pc[w] \in {"working", "committed"} /\ row' = [row EXCEPT ![n] = r]
      /\ UNCHANGED <<live, asked>> /\ Goto(w, "verifying", job[w]) /\ D # {}
  BY DEF Applied
<1>2. n \in ChangeId /\ row[n] \in Row /\ pc[w] \in HasRecord /\ ~row[n].sealed
  BY <1>1, OwnRecord DEF HasRecord, Applying, Told, Known
<1>3. /\ r.status = "verifying" /\ r.sealed = row[n].sealed /\ r.late = row[n].late
      /\ r.kind = row[n].kind /\ r.recoveredById = row[n].recoveredById
      /\ r.confirmed = row[n].confirmed /\ r.checkpoint = row[n].checkpoint
      /\ r.footprint = D
  BY <1>2 DEF withEvidence, Row
<1>4. row[n].late = FALSE /\ (row[n].kind = "recovery" => ~row[n].confirmed)
  <2>1. AttendedFits(n) /\ ConfirmedFits(n) /\ row[n].status = "applying"
    BY <1>1, <1>2 DEF Told, TruthInv, Known, Base, CallsFit, RecordFits, Applying
  <2>. QED  BY <1>2, <2>1 DEF AttendedFits, ConfirmedFits, Standing, Ended, Row
<1>5. /\ CallQuiet(w) /\ pc'[w] = "verifying" /\ job'[w] = job[w] /\ row'[n] = r
  <2>1. pc[w] = "working" => c = NoChange
    BY OwnJob DEF StepFits, Told, Known, Base
  <2>. QED  BY <1>1, <1>2, <2>1, GotoQuiet DEF Told, Known, Base, TypeInv, TypeOK
<1>6. RowsQuiet(w)
  <2>1. Works(w, n) /\ Works(w, n)'
    BY <1>2, <1>5 DEF Works, HasRecord
  <2>2. \A m \in ChangeId \ {n} : CallKeeps(w, m)
    BY <1>2, <1>5, ElseKeeps
  <2>. QED  BY <1>1, <1>2, <1>3, <1>4, <2>1, <2>2, PutOwn DEF Ended, Unsettled
<1>7. KeptRows(w)
  BY <1>6 DEF RowsQuiet
<1>8. RestoringFits(w)'
  <2>. SUFFICES ASSUME c # NoChange PROVE RestoringFits(w)'
    BY <1>5, NothingRestored
  <2>1. pc[w] = "committed"
    BY <1>1, OwnJob DEF StepFits, Told, Known, Base
  <2>2. row'[n].checkpoint = row[n].checkpoint
    BY <1>3, <1>5
  <2>3. /\ row'[c].kind = row[c].kind /\ row'[c].footprint = row[c].footprint
        /\ row[c].kind = "recovery" => row'[c].confirmed /\ job[w].from \in Standing
        /\ \A m \in ChangeId : row'[m].recoveredById # n
        /\ Unconfirmed(c) => Unconfirmed(c)'
        /\ row[c].kind = "change" /\ ~Unconfirmed(c) =>
              \A t \in row[c].footprint : c \in row'[n].checkpoint[t]
    BY <1>2, <1>5, <1>7, <2>2, OwnRestoring
  <2>4. row[c].kind = "change" /\ ~Unconfirmed(c) => row[c].footprint \subseteq D
    BY <2>1, CommittedShows
  <2>. QED  BY <1>1, <1>3, <1>5, <2>3, <2>4 DEF RestoringFits
<1>9. AskingFits(w)'
  <2>1. CASE c # NoChange
    BY <1>5, <1>7, <2>1, <1>1, NothingAsked
  <2>2. CASE c = NoChange
    <3>1. pc[w] = "working"
      <4>1. StepFits(pc[w], job[w])
        BY OwnJob DEF Told, Known, Base
      <4>2. pc[w] = "committed" => c \in ChangeId
        BY <4>1 DEF StepFits, Claiming
      <4>. QED  BY <1>1, <2>2, <4>2 DEF ChangeId, NoChange
    <3>2. InForce(n)'
      BY <1>1, <1>3, <1>5, <3>1, WorkShows DEF InForce, Told, Known
    <3>. QED  BY <1>5, <2>2, <3>2 DEF AskingFits, Told, TruthInv
  <2>. QED  BY <2>1, <2>2
<1>. QED  BY <1>1, <1>5, <1>6, <1>8, <1>9, SameAsked, QuietStep DEF LiveQuiet

\* A restore that has not committed yet finds its change where it was.
LEMMA StillThere ==
  ASSUME Told, NEW w \in Worker, pc[w] \in Claiming \ {"committed", "settling"},
         NEW c, c = job[w].change, row[c].kind = "change", ~Unconfirmed(c)
  PROVE  InForce(c)
<1>1. /\ c \in ChangeId /\ row[c].status = "recovering" /\ row[c].recoveryClaim = w
      /\ row[c].sealed
  BY OwnClaim DEF Told, Known, Restorable
<1>2. \A u \in Worker : ~Midway(u, c)
  <2>. SUFFICES ASSUME NEW u \in Worker, Midway(u, c) PROVE FALSE
    OBVIOUS
  <2>1. Claims(u, c)
    BY <1>1, MidwayClaims
  <2>2. u = w
    BY <1>1, <2>1, ClaimOwned DEF Told
  <2>. QED  BY <2>2 DEF Midway, Claiming
<1>3. ~Absent(c)
  BY <1>1, <1>2 DEF Absent, Undone, Ended
<1>. QED  BY <1>1, <1>3 DEF Told, TruthInv, PresenceFits

LEMMA OpenRecordTells ==
  ASSUME Told, NEW w \in Worker, OpenRecord(w)
  PROVE  TruthInv'
<1>. PICK c : c = job[w].change
  OBVIOUS
<1>. PICK n \in ChangeId :
       /\ NextId(n)
       /\ row' = [row EXCEPT ![n] = allocateRow("recovery", c)]
       /\ Goto(w, "restoring", [job[w] EXCEPT !.record = n])
  BY DEF OpenRecord
<1>. PICK j : j = [job[w] EXCEPT !.record = n]
  OBVIOUS
<1>1. pc[w] = "queued" /\ UNCHANGED <<live, asked>>
  BY DEF OpenRecord
<1>2. /\ j.record = n /\ j.change = c /\ j.mode = job[w].mode /\ j.then = job[w].then
      /\ j.from = job[w].from
  BY OwnJob DEF Job, Told, Known, Base
<1>3. CallQuiet(w) /\ pc'[w] = "restoring" /\ job'[w] = j
  BY <1>1, <1>2, GotoQuiet
<1>4. Works(w, n)' /\ \A m \in ChangeId \ {n} : CallKeeps(w, m)
  BY <1>1, <1>2, <1>3, ElseKeeps DEF Works, HasRecord, Applying, Claiming
<1>5. RowsQuiet(w) /\ row'[n] = allocateRow("recovery", c)
  <2>1. NextId(n) /\ row' = [row EXCEPT ![n] = allocateRow("recovery", c)]
    OBVIOUS
  <2>2. RowsQuiet(w)
    BY <1>4, <2>1, OpenQuiet
  <2>. QED  BY <2>1, <2>2 DEF Told, Known, Base, TypeInv, TypeOK
<1>6. KeptRows(w)
  BY <1>5 DEF RowsQuiet
<1>7. RestoringFits(w)'
  <2>1. /\ c \in ChangeId /\ row[c].sealed
        /\ row[c].kind = "recovery" => row[c].confirmed /\ job[w].from \in Standing
    BY <1>1, OwnClaim DEF Told, Known, Restorable, TruthInv, RestoringFits, Claiming,
                          ChangeId, NoChange
  <2>2. SameRecord(c) /\ row'[c].confirmed = row[c].confirmed
    BY <1>6, <2>1, KeptSealed DEF SealedStay
  <2>3. \A m \in ChangeId : row'[m].recoveredById # n
    <3>1. \A m \in ChangeId : row[m].recoveredById # n
      BY UnopenedUnnamed
    <3>. QED  BY <1>1, <1>6, <3>1 DEF KeptRows, KeptRow, KeptEvidence, ChangeId, NoChange
  <2>4. row[c].kind = "change" /\ ~Unconfirmed(c)' => InForce(c)
    BY <1>1, <1>6, StillThere, UnconfirmedStays DEF Claiming, Told
  <2>5. row'[n].checkpoint = live
    <3>1. allocateRow("recovery", c).checkpoint = live
      BY DEF allocateRow, NoRow
    <3>. QED  BY <1>5, <3>1
  <2>6. row[c].kind = "change" /\ ~Unconfirmed(c)' =>
          \A t \in row[c].footprint : c \in row'[n].checkpoint[t]
    BY <2>4, <2>5 DEF InForce
  <2>. QED  BY <1>2, <1>3, <2>1, <2>2, <2>3, <2>6 DEF RestoringFits, SameRecord
<1>8. AskingFits(w)'
  BY <1>1, <1>2, <1>3, <1>6, NothingAsked
<1>. QED  BY <1>1, <1>3, <1>5, <1>7, <1>8, SameAsked, QuietStep DEF LiveQuiet

\* A restore that ends without having done anything.
LEMMA WithdrawnTells ==
  ASSUME Told, NEW w \in Worker, pc[w] = "restoring", NEW n, n = job[w].record, NEW r, NEW j,
         row' = [row EXCEPT ![n] = r], Goto(w, "returning", j), UNCHANGED <<live, asked>>,
         r.status \in {"withdrawn", "failed"}, ~r.late, ~(r.kind = "recovery" /\ r.confirmed),
         r.recoveredById = row[n].recoveredById \/ r.recoveredById = NoChange,
         r.sealed \/ r.status = "withdrawn", ~(r.sealed /\ r.kind = "change"),
         j.change = job[w].change, j.mode = job[w].mode,
         j.from = job[w].from \/ j.from = "recovery_failed",
         j.then = "asking" => j.mode = "automatic"
  PROVE  TruthInv'
<1>1. n \in ChangeId /\ Works(w, n) /\ ~row[n].sealed
  BY OwnRecord DEF Works, HasRecord, Applying, Told, Known
<1>2. CallQuiet(w) /\ pc'[w] = "returning" /\ job'[w] = j
  BY GotoQuiet
<1>3. \A m \in ChangeId \ {n} : CallKeeps(w, m)
  BY <1>1, <1>2, ElseKeeps DEF Claiming
<1>4. RowsQuiet(w)
  BY <1>1, <1>3, PutOwn DEF Ended, Unsettled
<1>5. KeptRows(w)
  BY <1>4 DEF RowsQuiet
<1>6. RestoringFits(w)'
  BY <1>2, <1>5, StillRestoring DEF Standing, HasRecord, Applying
<1>7. AskingFits(w)'
  BY <1>2, <1>5, NothingAsked
<1>. QED  BY <1>2, <1>4, <1>6, <1>7, SameAsked, QuietStep DEF LiveQuiet

LEMMA RefuseRestoreTells ==
  ASSUME Told, NEW w \in Worker, RefuseRestore(w)
  PROVE  TruthInv'
<1>. PICK then \in {"asking", "stopping"} :
       LeaveRecord(w, "returning", [job[w] EXCEPT !.then =
            IF job[w].mode = "automatic" THEN then ELSE "idle"])
  BY DEF RefuseRestore
<1>. PICK j : j = [job[w] EXCEPT !.then = IF job[w].mode = "automatic" THEN then ELSE "idle"]
  OBVIOUS
<1>. PICK r : r = [NoRow EXCEPT !.status = "withdrawn"]
  OBVIOUS
<1>1. /\ pc[w] = "restoring" /\ row' = [row EXCEPT ![job[w].record] = r]
      /\ UNCHANGED <<live, asked>> /\ Goto(w, "returning", j)
  BY DEF RefuseRestore, LeaveRecord
<1>2. /\ r.status = "withdrawn" /\ ~r.late /\ ~r.confirmed /\ r.recoveredById = NoChange
      /\ ~r.sealed
  BY DEF NoRow
<1>3. /\ j.change = job[w].change /\ j.mode = job[w].mode /\ j.from = job[w].from
      /\ j.then = "asking" => j.mode = "automatic"
  BY OwnJob DEF Job, Told, Known, Base
<1>. QED  BY <1>1, <1>2, <1>3, WithdrawnTells

LEMMA RestoreFailedTells ==
  ASSUME Told, NEW w \in Worker, RestoreFailed(w)
  PROVE  TruthInv'
<1>. PICK n : n = job[w].record
  OBVIOUS
<1>. PICK automatic : automatic = (job[w].mode = "automatic")
  OBVIOUS
<1>. PICK j : j = [job[w] EXCEPT !.from = IF automatic THEN "recovery_failed" ELSE @,
                                 !.then = IF automatic THEN "stopping" ELSE "idle"]
  OBVIOUS
<1>. PICK r : r = closed(n, "failed")
  OBVIOUS
<1>1. /\ pc[w] = "restoring" /\ row' = [row EXCEPT ![n] = r]
      /\ UNCHANGED <<live, asked>> /\ Goto(w, "returning", j)
  BY DEF RestoreFailed, LeaveRecord
<1>2. /\ n \in ChangeId /\ row[n] \in Row /\ row[n].status = "applying" /\ row[n].kind = "recovery"
  <2>1. /\ n \in ChangeId /\ row[n] \in Row /\ RecordFits(w) /\ job[w].change \in ChangeId
    BY <1>1, OwnRecord, OwnClaim DEF HasRecord, Applying, Claiming, Told, Known
  <2>. QED  BY <1>1, <2>1 DEF RecordFits, HasRecord, Applying, ChangeId, NoChange
<1>3. ~row[n].confirmed
  BY <1>2 DEF Told, TruthInv, ConfirmedFits, Standing, Ended
<1>4. /\ r.status = "failed" /\ ~r.late /\ ~r.confirmed /\ r.kind = "recovery"
      /\ r.recoveredById = row[n].recoveredById /\ r.sealed
  BY <1>2, <1>3 DEF closed, withEvidence, Row
<1>5. job[w] \in Job
  BY OwnJob DEF Told, Known, Base
<1>6. /\ j.change = job[w].change /\ j.mode = job[w].mode
      /\ j.from = job[w].from \/ j.from = "recovery_failed"
      /\ j.then # "asking"
  BY <1>5 DEF Job
<1>. QED  BY <1>1, <1>4, <1>6, WithdrawnTells

LEMMA VerifiedTells ==
  ASSUME Told, NEW w \in Worker, Verified(w)
  PROVE  TruthInv'
<1>. PICK n : n = job[w].record
  OBVIOUS
<1>. PICK c : c = job[w].change
  OBVIOUS
<1>0. PICK status \in {"healthy", "verification_failed", "unverified"} :
       /\ row' = [row EXCEPT ![n] = [@ EXCEPT !.status = status, !.sealed = TRUE,
                                              !.confirmed = (status = "healthy"),
                                              !.late = FALSE]]
       /\ IF c # NoChange THEN LeaveRecord(w, "settling", job[w])
          ELSE IF status = "verification_failed" THEN CloseFailing(w)
          ELSE Leave(w)
  BY DEF Verified
<1>9. PICK r : r = [row[n] EXCEPT !.status = status, !.sealed = TRUE,
                                  !.confirmed = (status = "healthy"), !.late = FALSE]
  OBVIOUS
<1>1. pc[w] = "verifying" /\ UNCHANGED <<live, asked>>
  BY DEF Verified
<1>2. /\ n \in ChangeId /\ row[n] \in Row /\ RecordFits(w) /\ ~row[n].sealed
      /\ pc[w] \in HasRecord
  BY <1>1, OwnRecord DEF HasRecord, Told, Known
<1>3. row' = [row EXCEPT ![n] = r] /\ row'[n] = r
  BY <1>0, <1>2, <1>9 DEF Told, Known, Base, TypeInv, TypeOK
<1>4. /\ r.status = status /\ r.sealed /\ ~r.late /\ r.kind = row[n].kind
      /\ r.confirmed = (status = "healthy") /\ r.recoveredById = row[n].recoveredById
      /\ r.checkpoint = row[n].checkpoint /\ r.footprint = row[n].footprint
  BY <1>2, <1>9 DEF Row
<1>5. CASE c = NoChange
  <2>1. r.kind = "change"
    BY <1>2, <1>4, <1>5 DEF RecordFits
  <2>2. InForce(n)'
    <3>1. InForce(n)
      BY <1>1, <1>5 DEF Told, TruthInv, AskingFits
    <3>. QED  BY <1>1, <1>3, <1>4, <3>1 DEF InForce
  <2>3. CASE status = "verification_failed"
    <3>1. CloseFailing(w) /\ r.status = "verification_failed" /\ r.sealed /\ ~r.late
      BY <1>0, <1>4, <1>5, <2>3
    <3>2. row' = [row EXCEPT ![n] = r] /\ r.recoveredById = row[n].recoveredById
      BY <1>3, <1>4
    <3>3. /\ n \in ChangeId /\ pc[w] = "verifying" /\ job[w].change = NoChange
          /\ UNCHANGED <<live, asked>>
      BY <1>1, <1>2, <1>5
    <3>. QED  BY <1>2, <2>1, <2>2, <3>1, <3>2, <3>3, FailsOwn
  <2>4. CASE status # "verification_failed"
    <3>1. Leave(w) /\ r.status \in {"healthy", "unverified"} /\ r.sealed /\ ~r.late
      BY <1>0, <1>4, <1>5, <2>4
    <3>2. row' = [row EXCEPT ![n] = r] /\ r.recoveredById = row[n].recoveredById
      BY <1>3, <1>4
    <3>. QED  BY <1>1, <1>2, <1>5, <2>1, <2>2, <3>1, <3>2, EndsOwn DEF Ended
  <2>. QED  BY <2>3, <2>4
<1>6. CASE c # NoChange
  <2>1. r.kind = "recovery"
    BY <1>2, <1>4, <1>6 DEF RecordFits
  <2>2. CallQuiet(w) /\ pc'[w] = "settling" /\ job'[w] = job[w]
    BY <1>0, <1>1, <1>6, GotoQuiet DEF LeaveRecord
  <2>3. \A m \in ChangeId \ {n} : CallKeeps(w, m)
    BY <1>2, <2>2, ElseKeeps DEF Claiming
  <2>4. RowsQuiet(w)
    <3>1. Works(w, n)
      BY <1>2 DEF Works
    <3>2. r.kind = "recovery" /\ r.confirmed => r.status \in Standing
      BY <1>4 DEF Standing
    <3>. QED  BY <1>2, <1>3, <1>4, <2>1, <2>3, <3>1, <3>2, PutOwn DEF Ended
  <2>5. KeptRows(w)
    BY <2>4 DEF RowsQuiet
  <2>6. RestoringFits(w)'
    <3>1. row'[n].checkpoint = row[n].checkpoint
      BY <1>3, <1>4
    <3>2. /\ row'[c].kind = row[c].kind /\ row'[c].footprint = row[c].footprint
          /\ row[c].kind = "recovery" => row'[c].confirmed /\ job[w].from \in Standing
          /\ \A m \in ChangeId : row'[m].recoveredById # n
          /\ Unconfirmed(c) => Unconfirmed(c)'
          /\ row[c].kind = "change" /\ ~Unconfirmed(c) =>
                \A t \in row[c].footprint : c \in row'[n].checkpoint[t]
      BY <1>2, <1>6, <2>2, <2>5, <3>1, OwnRestoring
    <3>3. /\ row[n].footprint # {}
          /\ row[c].kind = "change" /\ ~Unconfirmed(c) =>
               row[c].footprint \subseteq row[n].footprint
      BY <1>1, <1>6 DEF Told, TruthInv, RestoringFits
    <3>4. (row'[n].status = "healthy" /\ row'[n].confirmed) \/ row'[n].status \in Doubtful
      BY <1>3, <1>4 DEF Doubtful
    <3>. QED  BY <1>3, <1>4, <2>2, <3>2, <3>3, <3>4 DEF RestoringFits
  <2>7. AskingFits(w)'
    BY <1>1, <2>2, <2>5, NothingAsked
  <2>. QED  BY <1>1, <2>2, <2>4, <2>6, <2>7, SameAsked, QuietStep DEF LiveQuiet
<1>. QED  BY <1>5, <1>6

-----------------------------------------------------------------------------
(* Claims, taken and given back.                                           *)

\* A restore that may be taken back was confirmed, and is the last of its change.
LEMMA ReapplicableConfirmed ==
  ASSUME Told, NEW n \in ChangeId, NEW mode, Available(n, mode), row[n].kind = "recovery"
  PROVE  /\ row[n].confirmed /\ row[n].status \in Standing
         /\ \E m \in ChangeId : row[m].recoveredById = n
<1>. PICK m : m = row[n].recoversId
  OBVIOUS
<1>1. m \in ChangeId
  BY DEF Told, Known, Base, RowsFit, RowFits, Restorable
<1>2. row[m].kind = "change" /\ row[m].recoveredById = n /\ row[m].status = "restored"
  BY DEF Available, reapplicable
<1>3. row[n].confirmed
  BY <1>1, <1>2 DEF Told, TruthInv, RestoredFits
<1>4. row[n].status \in IN_EFFECT \cup RECOVERY_OWED
  BY DEF Available, restorableFrom, RECOVERY_OWED
<1>5. row[n].status \in Standing \cup Ended \cup {"recovering"}
  BY <1>3 DEF Told, TruthInv, ConfirmedFits
<1>. QED  BY <1>1, <1>2, <1>3, <1>4, <1>5 DEF Standing, Ended, IN_EFFECT, RECOVERY_OWED

\* The row of a change that may be restored is read.
LEMMA LoadTells ==
  ASSUME Told, NEW w \in Worker, NEW n \in ChangeId, NEW mode \in RecoveryMode,
         Available(n, mode), Load(w, n, mode), pc[w] \in {"idle", "failing"},
         mode = "automatic" => row[n].kind = "change",
         UNCHANGED <<row, live>>, asked' \subseteq asked
  PROVE  TruthInv'
<1>. PICK j : j = [NoJob EXCEPT !.mode = mode, !.change = n]
  OBVIOUS
<1>1. Goto(w, "loaded", j)
  BY DEF Load
<1>2. j.change = n /\ j.mode = mode /\ j.then = "idle" /\ j.from = "healthy"
  BY DEF NoJob
<1>3. CallQuiet(w) /\ pc'[w] = "loaded" /\ job'[w] = j
  BY <1>1, GotoQuiet
<1>4. RowsQuiet(w)
  <2>1. \A m \in ChangeId : CallKeeps(w, m)
    BY FreeKeeps DEF Claiming, HasRecord
  <2>. QED  BY <2>1, NoneQuiet
<1>5. RestoringFits(w)'
  <2>1. row[n].kind = "recovery" => row[n].confirmed
    BY ReapplicableConfirmed
  <2>. QED  BY <1>2, <1>3, <2>1 DEF RestoringFits, HasRecord, Standing
<1>6. AskingFits(w)'
  BY <1>2, <1>3 DEF AskingFits
<1>. QED  BY <1>3, <1>4, <1>5, <1>6, SameAsked, QuietStep DEF LiveQuiet

\* Its claim is won by the status it has by then: a restore whose claim can be won
\* was confirmed, and is still the last of its change.
LEMMA ClaimTells ==
  ASSUME Told, NEW w \in Worker, Claim(w)
  PROVE  TruthInv'
<1>. PICK n : n = job[w].change
  OBVIOUS
<1>. PICK mode : mode = job[w].mode
  OBVIOUS
<1>. PICK r : r = claimRecovery(n, w)
  OBVIOUS
<1>. PICK j : j = [job[w] EXCEPT !.from = row[n].status]
  OBVIOUS
<1>1. /\ pc[w] = "loaded" /\ mayClaim(n, mode) /\ UNCHANGED <<live, asked>>
      /\ row' = [row EXCEPT ![n] = r] /\ Goto(w, "claimed", j)
  BY DEF Claim
<1>2. /\ n \in ChangeId /\ n # NoChange /\ row[n].sealed /\ Restorable(n)
      /\ row[n] \in Row /\ job[w] \in Job
  <2>1. n \in ChangeId /\ job[w] \in Job
    BY <1>1, OwnJob DEF StepFits, Told, Known, Base
  <2>2. n # NoChange
    BY <2>1 DEF ChangeId, NoChange
  <2>. QED  BY <1>1, <2>1, <2>2, OwnChange, GetType
            DEF Deciding, Restorable, Told, Known, Base, TypeInv
<1>3. j.change = n /\ j.mode = mode /\ j.then = job[w].then /\ j.from = row[n].status
  BY <1>2 DEF Job
<1>4. /\ r.status = "recovering" /\ ~r.late /\ r.confirmed = row[n].confirmed
      /\ r.recoveredById = row[n].recoveredById /\ Moves(n, r)
  BY <1>1, <1>2, ClaimMoves DEF claimRecovery, Row, Told, Known
<1>5. row[n].status \in restorableFrom("manual") /\ row[n].status \notin Ended \cup {"recovering"}
  BY <1>1 DEF mayClaim, restorableFrom, RECOVERY_OWED, IN_EFFECT, Ended
<1>6. CallQuiet(w) /\ pc'[w] = "claimed" /\ job'[w] = j
  BY <1>1, GotoQuiet
<1>7. Claims(w, n)' /\ \A m \in ChangeId : CallKeeps(w, m)
  BY <1>1, <1>2, <1>3, <1>6, FreeKeeps DEF Claims, Claiming, HasRecord
<1>8. row[n].kind = "recovery" =>
        /\ row[n].confirmed /\ row[n].status \in Standing
        /\ \E m \in ChangeId : row[m].recoveredById = n
  <2>. SUFFICES ASSUME row[n].kind = "recovery"
                PROVE  /\ row[n].confirmed /\ row[n].status \in Standing
                       /\ \E m \in ChangeId : row[m].recoveredById = n
    OBVIOUS
  <2>1. row[n].confirmed /\ row[n].status \in Standing
    BY <1>2, <1>5 DEF Told, TruthInv, RestoringFits, ConfirmedFits
  <2>2. Reappliable(n) /\ row[n].recoversId \in ChangeId
    BY <1>1, <1>2, <1>5 DEF LoadedFits, Told, Known, ClaimInv, Restorable
  <2>. QED  BY <2>1, <2>2 DEF Reappliable
<1>9. RowsQuiet(w)
  BY <1>1, <1>2, <1>4, <1>5, <1>7, <1>8, PutMoved DEF Ended
<1>10. row'[n].kind = row[n].kind /\ row'[n].confirmed = row[n].confirmed
  BY <1>1, <1>2, <1>4 DEF Moves, Told, Known, Base, TypeInv, TypeOK
<1>11. RestoringFits(w)'
  BY <1>3, <1>6, <1>8, <1>10 DEF RestoringFits, HasRecord
<1>12. AskingFits(w)'
  <2>1. AskingFits(w)
    BY DEF Told, TruthInv
  <2>. QED  BY <1>2, <1>3, <1>6, <1>10, <2>1 DEF AskingFits
<1>. QED  BY <1>1, <1>6, <1>9, <1>11, <1>12, SameAsked, QuietStep DEF LiveQuiet

LEMMA BeginRestoreTells ==
  ASSUME Told, NEW w \in Worker,
         StartRestore(w) \/ ApproveRestore(w) \/ RecoverAutomatically(w)
  PROVE  TruthInv'
<1>1. ASSUME StartRestore(w) PROVE TruthInv'
  <2>1. PICK n \in ChangeId, mode \in {"manual", "repair"} :
          Available(n, mode) /\ Load(w, n, mode)
    BY <1>1 DEF StartRestore
  <2>2. pc[w] = "idle" /\ UNCHANGED <<row, live, asked>>
    BY <1>1 DEF StartRestore
  <2>. QED  BY <2>1, <2>2, LoadTells DEF RecoveryMode
<1>2. ASSUME ApproveRestore(w) PROVE TruthInv'
  <2>1. PICK n \in asked :
          /\ asked' = asked \ {n}
          /\ IF Available(n, "manual") THEN Load(w, n, "manual") ELSE UNCHANGED <<pc, job>>
    BY <1>2 DEF ApproveRestore
  <2>2. pc[w] = "idle" /\ UNCHANGED <<row, live>> /\ n \in ChangeId
    BY <1>2 DEF ApproveRestore, Told, Known, Base, TypeInv, TypeOK
  <2>3. CASE Available(n, "manual")
    BY <2>1, <2>2, <2>3, LoadTells DEF RecoveryMode
  <2>4. CASE ~Available(n, "manual")
    <3>1. UNCHANGED <<row, pc, job>> /\ asked' \subseteq asked
      BY <2>1, <2>2, <2>4
    <3>2. CallQuiet(w) /\ \A m \in ChangeId : CallKeeps(w, m)
      BY <2>2, <3>1 DEF CallQuiet, Others, Same, Midway, CallKeeps, Claims, Works
    <3>3. RowsQuiet(w)
      BY <3>1, <3>2, NoneQuiet
    <3>4. KeptRows(w)
      BY <3>3 DEF RowsQuiet
    <3>5. RestoringFits(w)'
      BY <2>2, <3>1, <3>4, StillRestoring DEF HasRecord, Applying
    <3>6. AskingFits(w)'
      BY <2>2, <3>1, <3>4, NothingAsked
    <3>. QED  BY <2>2, <3>1, <3>2, <3>3, <3>5, <3>6, SameAsked, QuietStep DEF LiveQuiet
  <2>. QED  BY <2>3, <2>4
<1>3. ASSUME RecoverAutomatically(w) PROVE TruthInv'
  <2>. PICK n : n = job[w].record
    OBVIOUS
  <2>1. pc[w] = "failing" /\ UNCHANGED <<row, live, asked>>
    BY <1>3 DEF RecoverAutomatically
  <2>2. n \in ChangeId /\ row[n].kind = "change"
    BY <2>1, OwnJob DEF StepFits, Told, Known, Base, TruthInv, AskingFits
  <2>3. CASE Available(n, "automatic")
    <3>1. Load(w, n, "automatic")
      BY <1>3, <2>3 DEF RecoverAutomatically
    <3>. QED  BY <2>1, <2>2, <2>3, <3>1, LoadTells DEF RecoveryMode
  <2>4. CASE ~Available(n, "automatic")
    <3>1. Leave(w) /\ UNCHANGED row
      BY <1>3, <2>4 DEF RecoverAutomatically
    <3>2. RowsQuiet(w)
      <4>1. \A m \in ChangeId : CallKeeps(w, m)
        BY <2>1, FreeKeeps DEF HasRecord, Applying, Claiming
      <4>. QED  BY <3>1, <4>1, NoneQuiet
    <3>. QED  BY <2>1, <3>1, <3>2, SameAsked, LeavingTells
  <2>. QED  BY <2>3, <2>4
<1>. QED  BY <1>1, <1>2, <1>3

LEMMA ClaimLostTells ==
  ASSUME Told, NEW w \in Worker, ClaimLost(w)
  PROVE  TruthInv'
<1>1. pc[w] = "loaded" /\ Leave(w) /\ UNCHANGED <<row, live, asked>>
  BY DEF ClaimLost
<1>2. RowsQuiet(w)
  <2>1. \A m \in ChangeId : CallKeeps(w, m)
    BY <1>1, FreeKeeps DEF HasRecord, Claiming
  <2>. QED  BY <1>1, <2>1, NoneQuiet
<1>. QED  BY <1>1, <1>2, SameAsked, LeavingTells

\* Steps that write no row and go on from one step to the next.
LEMMA WaitingTells ==
  ASSUME Told, NEW w \in Worker, PauseRecovery(w) \/ LockRefused(w)
  PROVE  TruthInv'
<1>1. UNCHANGED <<row, live, asked>>
  BY DEF PauseRecovery, LockRefused
<1>2. ASSUME PauseRecovery(w) PROVE TruthInv'
  <2>. PICK j : j = [NoJob EXCEPT !.mode = "automatic", !.change = job[w].record]
    OBVIOUS
  <2>1. pc[w] = "failing" /\ Goto(w, "asking", j)
    BY <1>2 DEF PauseRecovery
  <2>2. j.change = job[w].record /\ j.mode = "automatic" /\ j.then = "idle"
    BY DEF NoJob
  <2>3. row[job[w].record].kind = "change"
    BY <2>1 DEF Told, TruthInv, AskingFits
  <2>4. CallQuiet(w) /\ pc'[w] = "asking" /\ job'[w] = j
    BY <2>1, GotoQuiet
  <2>5. RowsQuiet(w)
    <3>1. \A m \in ChangeId : CallKeeps(w, m)
      BY <2>1, FreeKeeps DEF HasRecord, Applying, Claiming
    <3>. QED  BY <1>1, <3>1, NoneQuiet
  <2>6. RestoringFits(w)' /\ AskingFits(w)'
    BY <1>1, <2>2, <2>3, <2>4 DEF RestoringFits, AskingFits, HasRecord, Applying
  <2>. QED  BY <1>1, <2>4, <2>5, <2>6, SameAsked, QuietStep DEF LiveQuiet
<1>3. ASSUME LockRefused(w) PROVE TruthInv'
  <2>1. pc[w] = "queued" /\ Goto(w, "returning", job[w])
    BY <1>3 DEF LockRefused
  <2>2. CallQuiet(w) /\ pc'[w] = "returning" /\ job'[w] = job[w]
    BY <2>1, GotoQuiet
  <2>3. RowsQuiet(w)
    <3>1. \A m \in ChangeId : CallKeeps(w, m)
      BY <2>1, <2>2, FreeKeeps DEF HasRecord, Applying, Claiming
    <3>. QED  BY <1>1, <3>1, NoneQuiet
  <2>4. KeptRows(w)
    BY <2>3 DEF RowsQuiet
  <2>5. RestoringFits(w)'
    BY <2>1, <2>2, <2>4, StillRestoring DEF HasRecord, Applying
  <2>6. AskingFits(w)'
    BY <2>1, <2>2, <2>4, NothingAsked
  <2>. QED  BY <1>1, <2>2, <2>3, <2>5, <2>6, SameAsked, QuietStep DEF LiveQuiet
<1>. QED  BY <1>2, <1>3

LEMMA RecordStartedTells ==
  ASSUME Told, NEW w \in Worker, RecordStarted(w)
  PROVE  TruthInv'
<1>. PICK c : c = job[w].change
  OBVIOUS
<1>. PICK r : r = [row[c] EXCEPT !.started = [mode |-> job[w].mode, from |-> job[w].from]]
  OBVIOUS
<1>1. /\ pc[w] = "claimed" /\ UNCHANGED <<live, asked>> /\ Goto(w, "queued", job[w])
      /\ row' = [row EXCEPT ![c].started = [mode |-> job[w].mode, from |-> job[w].from]]
  BY DEF RecordStarted
<1>2. /\ c \in ChangeId /\ row[c].status = "recovering" /\ row[c].sealed /\ row[c] \in Row
      /\ c # NoChange
  BY <1>1, OwnClaim DEF Claiming, Restorable, Told, Known, ChangeId, NoChange
<1>3. row' = [row EXCEPT ![c] = r] /\ row'[c] = r
  BY <1>1, <1>2 DEF Told, Known, Base, TypeInv, TypeOK
<1>4. /\ r.status = "recovering" /\ r.confirmed = row[c].confirmed /\ r.late = row[c].late
      /\ r.recoveredById = row[c].recoveredById
  BY <1>2 DEF Row
<1>5. Moves(c, r)
  BY <1>2, <1>3, RecordStartedFits DEF RowsMove, Told, Known
<1>6. ~row[c].late /\ (row[c].kind = "recovery" => row[c].confirmed)
  BY <1>2 DEF Told, TruthInv, AttendedFits, RestoringFits
<1>7. CallQuiet(w) /\ pc'[w] = "queued" /\ job'[w] = job[w]
  BY <1>1, GotoQuiet
<1>8. Claims(w, c)' /\ \A m \in ChangeId : CallKeeps(w, m)
  BY <1>1, <1>2, <1>7, FreeKeeps DEF Claims, Claiming, HasRecord, Applying
<1>9. RowsQuiet(w)
  BY <1>2, <1>3, <1>4, <1>5, <1>6, <1>8, PutMoved DEF Ended
<1>10. KeptRows(w)
  BY <1>9 DEF RowsQuiet
<1>11. RestoringFits(w)'
  BY <1>1, <1>7, <1>10, StillRestoring DEF HasRecord, Applying
<1>12. AskingFits(w)'
  BY <1>1, <1>7, <1>10, NothingAsked
<1>. QED  BY <1>1, <1>7, <1>9, <1>11, <1>12, SameAsked, QuietStep DEF LiveQuiet

LEMMA GiveBackTells ==
  ASSUME Told, NEW w \in Worker, GiveBack(w)
  PROVE  TruthInv'
<1>. PICK c : c = job[w].change
  OBVIOUS
<1>. PICK to : to = job[w].from
  OBVIOUS
<1>. PICK r : r = releaseRecovery(c, w, to)
  OBVIOUS
<1>1. /\ pc[w] = "returning" /\ row' = [row EXCEPT ![c] = r] /\ UNCHANGED <<live, asked>>
      /\ IF job[w].then = "idle" THEN Leave(w) ELSE Goto(w, job[w].then, job[w])
  BY DEF GiveBack
<1>2. /\ c \in ChangeId /\ Owns(c, w) /\ row[c] \in Row /\ row[c].sealed /\ c # NoChange
      /\ row[c].status = "recovering"
  BY <1>1, OwnClaim DEF Claiming, Restorable, Owns, Told, Known, ChangeId, NoChange
<1>3. to \in ReturnTo /\ Moves(c, r)
  <2>1. to \in ReturnTo
    BY <1>1, <1>2, OwnChange DEF Deciding, Told, Known
  <2>. QED  BY <1>2, <2>1, ReleaseMoves DEF Released, Told, Known
<1>4. /\ r.status = to /\ ~r.late /\ r.confirmed = row[c].confirmed
      /\ r.recoveredById = row[c].recoveredById
  BY <1>2 DEF releaseRecovery, Row
<1>5. to \notin Ended /\ to # "recovering"
  BY <1>3 DEF ReturnTo, IN_EFFECT, RECOVERY_OWED, Ended
<1>6. row[c].kind = "recovery" => row[c].confirmed /\ to \in Standing
  BY <1>2 DEF Told, TruthInv, RestoringFits
<1>7. RowsQuiet(w)
  <2>1. \A m \in ChangeId \ {c} : CallKeeps(w, m)
    BY <1>1, <1>2, ElseKeeps DEF HasRecord, Applying
  <2>. QED  BY <1>1, <1>2, <1>3, <1>4, <1>5, <1>6, <2>1, PutMoved DEF Ended
<1>8. KeptRows(w)
  BY <1>7 DEF RowsQuiet
<1>9. CASE job[w].then = "idle"
  <2>1. Leave(w)
    BY <1>1, <1>9
  <2>. QED  BY <1>1, <1>7, <2>1, SameAsked, LeavingTells
<1>10. CASE job[w].then # "idle"
  <2>1. Goto(w, job[w].then, job[w])
    BY <1>1, <1>10
  <2>2. job[w].then \in {"asking", "stopping"}
    BY <1>10, OwnJob DEF Job, Told, Known, Base
  <2>3. CallQuiet(w) /\ pc'[w] = job[w].then /\ job'[w] = job[w]
    BY <1>1, <2>1, <2>2, GotoQuiet
  <2>4. RestoringFits(w)'
    BY <1>1, <1>8, <2>2, <2>3, StillRestoring DEF HasRecord, Applying
  <2>5. AskingFits(w)'
    <3>1. job[w].then = "asking" => job[w].mode = "automatic"
      BY DEF Told, TruthInv, AskingFits
    <3>. QED  BY <1>1, <1>8, <2>2, <2>3, <3>1, NothingAsked
  <2>. QED  BY <1>1, <1>7, <2>3, <2>4, <2>5, SameAsked, QuietStep DEF LiveQuiet
<1>. QED  BY <1>9, <1>10

-----------------------------------------------------------------------------
(* Decisions.                                                              *)

\* A row that waits for a person, or goes on to.
LEMMA TransitionQuiet ==
  ASSUME Told, NEW w, NEW n \in ChangeId, NEW from, NEW to,
         from \subseteq RECOVERY_OWED,
         to \in {"manual_intervention_required", "awaiting_approval", "kept"},
         row' = [row EXCEPT ![n] = transition(n, from, to)],
         row[n].kind = "recovery" => row[n].confirmed /\ to = "manual_intervention_required",
         \A m \in ChangeId : CallKeeps(w, m)
  PROVE  RowsQuiet(w)
<1>. PICK r : r = transition(n, from, to)
  OBVIOUS
<1>1. CASE transitions(n, from, to)
  <2>1. row[n] \in Row /\ row[n].status \in RECOVERY_OWED
    BY <1>1, GetType DEF transitions, Told, Known, Base, TypeInv
  <2>2. /\ r.status = to /\ r.confirmed = row[n].confirmed /\ r.late = row[n].late
        /\ r.recoveredById = row[n].recoveredById
    BY <1>1, <2>1 DEF transition, Row
  <2>3. row[n].sealed /\ ~row[n].late
    BY <2>1 DEF Told, TruthInv, AttendedFits, RECOVERY_OWED
  <2>4. Moves(n, r)
    <3>1. from \cap {"applying", "verifying", "recovering"} = {}
      BY DEF RECOVERY_OWED
    <3>2. to \notin Unsettled \cup {"recovering"}
      BY DEF Unsettled
    <3>. QED  BY <3>1, <3>2, TransitionMoves DEF Told, Known
  <2>5. row[n].status \notin Ended /\ r.status \notin Ended /\ row[n].status # "healthy"
    BY <2>1, <2>2 DEF Ended, RECOVERY_OWED
  <2>. QED  BY <2>2, <2>3, <2>4, <2>5, PutMoved DEF Standing
<1>2. CASE ~transitions(n, from, to)
  <2>1. r = row[n]
    BY <1>2 DEF transition
  <2>2. UNCHANGED row
    BY <2>1 DEF Told, Known, Base, TypeInv, TypeOK
  <2>. QED  BY <2>2, NoneQuiet
<1>. QED  BY <1>1, <1>2

LEMMA StopAndEscalateTells ==
  ASSUME Told, NEW w \in Worker, StopAndEscalate(w)
  PROVE  TruthInv'
<1>. PICK c : c = job[w].change
  OBVIOUS
<1>. PICK from : from = {"recovery_failed", "verification_failed", "partially_applied",
                         "awaiting_approval"}
  OBVIOUS
<1>1. /\ pc[w] = "stopping" /\ Leave(w) /\ UNCHANGED <<live, asked>>
      /\ row' = [row EXCEPT ![c] = transition(c, from, "manual_intervention_required")]
  BY DEF StopAndEscalate
<1>2. c \in ChangeId /\ from \subseteq RECOVERY_OWED
  BY <1>1, OwnJob DEF StepFits, Told, Known, Base, RECOVERY_OWED
<1>3. row[c].kind = "recovery" => row[c].confirmed
  BY <1>2 DEF Told, TruthInv, RestoringFits, ChangeId, NoChange
<1>4. \A m \in ChangeId : CallKeeps(w, m)
  BY <1>1, FreeKeeps DEF HasRecord, Applying, Claiming
<1>5. RowsQuiet(w)
  BY <1>1, <1>2, <1>3, <1>4, TransitionQuiet
<1>. QED  BY <1>1, <1>5, SameAsked, LeavingTells

LEMMA EscalateTells ==
  ASSUME Told, NEW w \in Worker, Escalate(w)
  PROVE  TruthInv'
<1>. PICK c : c = job[w].change
  OBVIOUS
<1>. PICK owed : owed = {"verification_failed", "partially_applied", "recovery_failed"}
  OBVIOUS
<1>1. /\ pc[w] = "asking" /\ UNCHANGED <<live, asked>>
      /\ row' = [row EXCEPT ![c] = transition(c, owed, "awaiting_approval")]
      /\ IF transitions(c, owed, "awaiting_approval")
         THEN Goto(w, "requesting", job[w]) ELSE Leave(w)
  BY DEF Escalate
<1>2. /\ c \in ChangeId /\ c # NoChange /\ owed \subseteq RECOVERY_OWED /\ row[c] \in Row
      /\ row[c].sealed
  <2>1. c \in ChangeId
    BY <1>1, OwnJob DEF StepFits, Told, Known, Base
  <2>2. c # NoChange
    BY <2>1 DEF ChangeId, NoChange
  <2>. QED  BY <2>1, <2>2, GetType, OwnSealed DEF RECOVERY_OWED, Told, Known, Base, TypeInv
<1>3. row[c].kind = "change" /\ job[w].mode = "automatic"
  BY <1>1, <1>2 DEF Told, TruthInv, AskingFits
<1>4. \A m \in ChangeId : CallKeeps(w, m)
  BY <1>1, FreeKeeps DEF HasRecord, Applying, Claiming
<1>5. RowsQuiet(w)
  BY <1>1, <1>2, <1>3, <1>4, TransitionQuiet
<1>6. KeptRows(w)
  BY <1>5 DEF RowsQuiet
<1>7. CASE ~transitions(c, owed, "awaiting_approval")
  <2>1. Leave(w)
    BY <1>1, <1>7
  <2>. QED  BY <1>1, <1>5, <2>1, SameAsked, LeavingTells
<1>8. CASE transitions(c, owed, "awaiting_approval")
  <2>1. Goto(w, "requesting", job[w])
    BY <1>1, <1>8
  <2>2. CallQuiet(w) /\ pc'[w] = "requesting" /\ job'[w] = job[w]
    BY <1>1, <2>1, GotoQuiet
  <2>3. RestoringFits(w)'
    BY <1>1, <1>6, <2>2, StillRestoring DEF HasRecord, Applying
  <2>4. ~Undone(c)
    <3>1. row[c].status \in owed
      BY <1>8 DEF transitions
    <3>2. \A u \in Worker : ~Midway(u, c)
      BY <1>2, <3>1, MidwayClaims
    <3>. QED  BY <3>1, <3>2 DEF Undone, Ended
  <2>5. ~Undone(c)'
    <3>1. UndoneStay
      BY <1>5, <2>2, UndoneSame DEF RowsQuiet, CallQuiet
    <3>. QED  BY <1>2, <2>4, <3>1 DEF UndoneStay
  <2>6. row'[c].kind = "change"
    BY <1>2, <1>3, <1>6, KeptSealed DEF SealedStay, SameRecord
  <2>7. AskingFits(w)'
    BY <1>3, <2>2, <2>5, <2>6 DEF AskingFits
  <2>. QED  BY <1>1, <1>5, <2>2, <2>3, <2>7, SameAsked, QuietStep DEF LiveQuiet
<1>. QED  BY <1>7, <1>8

LEMMA RequestApprovalTells ==
  ASSUME Told, NEW w \in Worker, RequestApproval(w)
  PROVE  TruthInv'
<1>. PICK c : c = job[w].change
  OBVIOUS
<1>1. /\ pc[w] = "requesting" /\ Leave(w) /\ UNCHANGED <<row, live>>
      /\ asked' = asked \cup {c}
  BY DEF RequestApproval
<1>2. /\ c \in ChangeId /\ c # NoChange /\ row[c].sealed
  <2>1. c \in ChangeId
    BY <1>1, OwnJob DEF StepFits, Told, Known, Base
  <2>2. c # NoChange
    BY <2>1 DEF ChangeId, NoChange
  <2>. QED  BY <2>1, <2>2, OwnSealed
<1>3. row[c].kind = "change" /\ row[c].status \notin Ended
  BY <1>1, <1>2 DEF Told, TruthInv, AskingFits, Undone
<1>4. AskedQuiet
  BY <1>1, <1>2, <1>3 DEF AskedQuiet
<1>5. RowsQuiet(w)
  <2>1. \A m \in ChangeId : CallKeeps(w, m)
    BY <1>1, FreeKeeps DEF HasRecord, Applying, Claiming
  <2>. QED  BY <1>1, <2>1, NoneQuiet
<1>. QED  BY <1>1, <1>4, <1>5, LeavingTells

\* A change is kept, or the request to restore it is declined first.
LEMMA KeepsTells ==
  ASSUME Told, NEW w \in Worker, Keeps(w)
  PROVE  TruthInv'
<1>1. UNCHANGED live /\ keepableFrom \subseteq RECOVERY_OWED
  BY DEF Keeps, KeepChange, FollowKeep, DeclineRequest, KeepDeclined, keepableFrom,
         RECOVERY_OWED
<1>2. \A m \in ChangeId : CallKeeps(w, m)
  BY FreeKeeps DEF Keeps, KeepChange, FollowKeep, DeclineRequest, KeepDeclined, HasRecord,
                   Claiming
<1>3. ASSUME KeepChange(w) PROVE TruthInv'
  <2>1. PICK n \in ChangeId :
          /\ row[n].kind = "change" /\ row[n].status \in keepableFrom
          /\ row' = kept(n) /\ Goto(w, "keeping", [NoJob EXCEPT !.change = n])
    BY <1>3 DEF KeepChange
  <2>. PICK j : j = [NoJob EXCEPT !.change = n]
    OBVIOUS
  <2>2. pc[w] = "idle" /\ UNCHANGED asked /\ j.change = n /\ j.then = "idle"
    BY <1>3 DEF KeepChange, NoJob
  <2>3. row[n].sealed
    BY <2>1 DEF Told, TruthInv, AttendedFits, keepableFrom
  <2>4. CallQuiet(w) /\ pc'[w] = "keeping" /\ job'[w] = j
    BY <2>1, <2>2, GotoQuiet
  <2>5. RowsQuiet(w)
    BY <1>1, <1>2, <2>1, TransitionQuiet DEF kept
  <2>6. RestoringFits(w)' /\ AskingFits(w)'
    BY <2>1, <2>2, <2>3, <2>4, <2>5, DecidesNext DEF RowsQuiet, Deciding
  <2>. QED  BY <1>1, <2>2, <2>4, <2>5, <2>6, SameAsked, QuietStep DEF LiveQuiet
<1>4. ASSUME FollowKeep(w) PROVE TruthInv'
  <2>. PICK c : c = job[w].change
    OBVIOUS
  <2>1. /\ pc[w] = "keeping" /\ UNCHANGED <<row, asked>>
        /\ Goto(w, "answering", job[w]) \/ Leave(w)
    BY <1>4 DEF FollowKeep, FindRequest
  <2>2. RowsQuiet(w)
    BY <1>2, <2>1, NoneQuiet
  <2>3. CASE Leave(w)
    BY <1>1, <2>1, <2>2, <2>3, SameAsked, LeavingTells
  <2>4. CASE Goto(w, "answering", job[w])
    <3>1. /\ c \in ChangeId /\ row[c].kind = "change" /\ row[c].sealed
          /\ job[w].then = "asking" => job[w].mode = "automatic"
      BY <2>1, OwnJob DEF StepFits, Told, Known, Base, TruthInv, AskingFits
    <3>2. CallQuiet(w) /\ pc'[w] = "answering" /\ job'[w] = job[w]
      BY <2>1, <2>4, GotoQuiet
    <3>3. RestoringFits(w)' /\ AskingFits(w)'
      BY <2>2, <3>1, <3>2, DecidesNext DEF RowsQuiet, Deciding
    <3>. QED  BY <1>1, <2>1, <2>2, <3>2, <3>3, SameAsked, QuietStep DEF LiveQuiet
  <2>. QED  BY <2>1, <2>3, <2>4
<1>5. ASSUME DeclineRequest(w) PROVE TruthInv'
  <2>1. PICK n \in asked :
          asked' = asked \ {n} /\ Goto(w, "declined", [NoJob EXCEPT !.change = n])
    BY <1>5 DEF DeclineRequest
  <2>. PICK j : j = [NoJob EXCEPT !.change = n]
    OBVIOUS
  <2>2. pc[w] = "idle" /\ UNCHANGED row /\ j.change = n /\ j.then = "idle"
    BY <1>5 DEF DeclineRequest, NoJob
  <2>3. n \in ChangeId /\ row[n].kind = "change" /\ row[n].sealed
    <3>1. n \in ChangeId
      BY DEF Told, Known, Base, TypeInv, TypeOK
    <3>. QED  BY <3>1 DEF Told, TruthInv, AskedFits
  <2>4. CallQuiet(w) /\ pc'[w] = "declined" /\ job'[w] = j
    BY <2>1, <2>2, GotoQuiet
  <2>5. RowsQuiet(w)
    BY <1>2, <2>2, NoneQuiet
  <2>6. RestoringFits(w)' /\ AskingFits(w)'
    BY <2>2, <2>3, <2>4, <2>5, DecidesNext DEF RowsQuiet, Deciding
  <2>. QED  BY <1>1, <2>1, <2>4, <2>5, <2>6, SameAsked, QuietStep DEF LiveQuiet
<1>6. ASSUME KeepDeclined(w) PROVE TruthInv'
  <2>. PICK c : c = job[w].change
    OBVIOUS
  <2>1. pc[w] = "declined" /\ row' = kept(c) /\ Leave(w) /\ UNCHANGED asked
    BY <1>6 DEF KeepDeclined
  <2>2. c \in ChangeId /\ row[c].kind = "change"
    BY <2>1, OwnJob DEF StepFits, Told, Known, Base, TruthInv, AskingFits
  <2>3. RowsQuiet(w)
    BY <1>1, <1>2, <2>1, <2>2, TransitionQuiet DEF kept
  <2>. QED  BY <1>1, <2>1, <2>3, SameAsked, LeavingTells
<1>. QED  BY <1>3, <1>4, <1>5, <1>6 DEF Keeps

\* An owner's own statement is no change's, and waits for none that is open.
LEMMA ChangeOutsideTells ==
  ASSUME Told, ChangeOutside
  PROVE  TruthInv'
<1>1. UNCHANGED <<row, asked, pc, job>> /\ \A u \in Worker : pc[u] \notin HasRecord
  BY DEF ChangeOutside
<1>2. NoWorker \notin Worker
  BY ConstantsAssumption
<1>3. CallQuiet(NoWorker) /\ \A m \in ChangeId : CallKeeps(NoWorker, m)
  BY <1>1, <1>2 DEF CallQuiet, Others, Same, CallKeeps
<1>4. RowsQuiet(NoWorker)
  BY <1>1, <1>3, NoneQuiet
<1>5. LiveStays
  <2>. SUFFICES ASSUME NEW m \in ChangeId PROVE Unmoved(m)
    BY DEF LiveStays
  <2>1. \A t \in Table : m \in live'[t] <=> m \in live[t]
    BY BystandersCalm DEF Told, Known, SameOn
  <2>2. row[m].footprint \subseteq Table
    BY GetType DEF Told, Known, Base, TypeInv, Row
  <2>. QED  BY <1>1, <2>1, <2>2 DEF Unmoved, Gone, InForce
<1>. QED  BY <1>1, <1>2, <1>3, <1>4, <1>5, SameAsked, QuietStep DEF LiveQuiet

-----------------------------------------------------------------------------
(* The steps that undo a change, and tell.                                 *)

\* What any step has to leave true of rows and of other calls.
LEMMA TellsStep ==
  ASSUME Told, NEW w, KeptRows(w), Others(w), \A m \in ChangeId : Attends(w, m),
         \A n \in ChangeId : PresenceFits(n)' /\ RestoredFits(n)' /\ AskedFits(n)',
         \A u \in Worker \ {w} : UNCHANGED live \/ pc[u] \notin HasRecord,
         \A u \in Worker \ {w} :
           pc[u] = "requesting" /\ Undone(job[u].change)' => Undone(job[u].change),
         w \in Worker => RestoringFits(w)' /\ AskingFits(w)'
  PROVE  TruthInv'
<1>1. \A n \in ChangeId : AttendedFits(n)' /\ ConfirmedFits(n)'
  BY AttendedStays DEF KeptRows, KeptRow
<1>2. ASSUME NEW u \in Worker \ {w}
      PROVE  RestoringFits(u)' /\ AskingFits(u)'
  <2>1. RestoringFits(u)'
    BY RestoringStays
  <2>2. AskingFits(u)'
    BY AskingStays
  <2>. QED  BY <2>1, <2>2
<1>. QED  BY <1>1, <1>2 DEF TruthInv

\* But for c, everything is as undone as before.
UndoneBut(c) == \A m \in ChangeId \ {c} : Undone(m)' <=> Undone(m)

LEMMA PresenceBut ==
  ASSUME Told, NEW w, KeptRows(w), NEW c, UndoneBut(c), NEW n \in ChangeId, n # c,
         row[n].kind = "change" /\ row[n].sealed =>
           /\ Unmoved(n)
           /\ row'[n].status = "restored" <=> row[n].status = "restored"
           /\ row'[n].recoveredById = row[n].recoveredById
           /\ row[n].status = "restored" => row[n].recoveredById # c,
         ~row[n].sealed => ~row'[n].sealed
  PROVE  PresenceFits(n)'
<1>. SUFFICES ASSUME row'[n].kind = "change", row'[n].sealed, ~Unconfirmed(n)'
              PROVE  IF Absent(n)' THEN Gone(n)' ELSE InForce(n)'
  BY DEF PresenceFits
<1>0. row[n].sealed
  OBVIOUS
<1>1. row[n].kind = "change" /\ ~Unconfirmed(n)
  BY <1>0, KeptSealed, UnconfirmedStays DEF Told, SealedStay, SameRecord
<1>2. PresenceFits(n) /\ RestoredFits(n)
  BY DEF Told, TruthInv
<1>3. IF Absent(n) THEN Gone(n) ELSE InForce(n)
  BY <1>0, <1>1, <1>2 DEF PresenceFits
<1>4. row[n].status = "restored" => row[n].recoveredById \in ChangeId \ {c}
  BY <1>0, <1>1, <1>2 DEF RestoredFits
<1>5. Undone(n)' <=> Undone(n)
  BY DEF UndoneBut
<1>6. row[n].status = "restored" =>
        (Undone(row[n].recoveredById)' <=> Undone(row[n].recoveredById))
  BY <1>0, <1>1, <1>4 DEF UndoneBut
<1>7. Absent(n)' <=> Absent(n)
  BY <1>0, <1>1, <1>5, <1>6 DEF Absent
<1>. QED  BY <1>0, <1>1, <1>3, <1>7 DEF Unmoved

\* A restored change names a restore of itself, and that is no change.
LEMMA NamesItsRestore ==
  ASSUME Told, NEW n \in ChangeId, row[n].kind = "change", row[n].status = "restored"
  PROVE  LET r == row[n].recoveredById IN
         r \in ChangeId /\ row[r].kind = "recovery" /\ row[r].recoversId = n
BY DEF Told, TruthInv, RestoredFits

\* The requests to restore c are found or answered, its restore followed up.
LEMMA AnswersTell ==
  ASSUME Told, NEW w \in Worker, pc[w] \in {"following", "answering"},
         UNCHANGED <<row, live>>, asked' \subseteq asked,
         NEW c \in ChangeId, c = job[w].change, row[c].kind = "change", row[c].sealed,
         \/ Leave(w) /\ c \notin asked'
         \/ Goto(w, "answering", job[w])
  PROVE  TruthInv'
<1>1. /\ Others(w)
      /\ \/ pc'[w] = "idle" /\ job'[w] = NoJob /\ c \notin asked'
         \/ pc'[w] = "answering" /\ job'[w] = job[w]
  BY DEF Leave, Goto, Others, Same, Told, Known, Base, TypeInv, TypeOK
<1>2. KeptRows(w) /\ EndedStay /\ \A m \in ChangeId : Attends(w, m)
  <2>1. \A m \in ChangeId : CallKeeps(w, m)
    BY FreeKeeps DEF HasRecord, Claiming
  <2>. QED  BY <2>1, NoneQuiet DEF RowsQuiet
<1>3. UndoneStay
  <2>1. \A m : ~Midway(w, m) /\ ~Midway(w, m)'
    BY <1>1 DEF Midway
  <2>. QED  BY <1>1, <1>2, <2>1, UndoneSame
<1>4. \A m \in ChangeId \ {c} :
        (Followed(m) => Followed(m)') /\ (Answering(m) => Answering(m)')
  BY <1>1 DEF Others, Same, Followed, Answering
<1>5. \A m \in ChangeId \ {c} : EndedFollowed(m) /\ Answerable(m)
  BY <1>4 DEF EndedFollowed, Answerable
<1>6. c \in asked' => Answerable(c)
  BY <1>1 DEF Answerable, Answering
<1>7. ASSUME NEW n \in ChangeId
      PROVE  PresenceFits(n)' /\ RestoredFits(n)' /\ AskedFits(n)'
  <2>1. PresenceFits(n)'
    <3>1. row[n].sealed /\ row[n].kind = "change" => Unmoved(n)
      BY <1>2, SameLive DEF LiveStays
    <3>2. CASE row[n].sealed
      BY <1>2, <1>3, <3>1, <3>2, PresenceStays
    <3>3. CASE ~row[n].sealed
      BY <3>3 DEF PresenceFits
    <3>. QED  BY <3>2, <3>3
  <2>2. RestoredFits(n)'
    <3>1. \A m \in ChangeId : row[m].kind = "recovery" => EndedFollowed(m)
      BY <1>5
    <3>. QED  BY <1>2, <3>1, RestoredStays
  <2>3. AskedFits(n)'
    BY <1>2, <1>5, <1>6, AskedStays
  <2>. QED  BY <2>1, <2>2, <2>3
<1>8. RestoringFits(w)' /\ AskingFits(w)'
  <2>1. CASE pc'[w] = "idle" /\ job'[w] = NoJob
    BY <1>2, <2>1, IdleAsks
  <2>2. CASE pc'[w] = "answering" /\ job'[w] = job[w]
    <3>1. job[w].then = "asking" => job[w].mode = "automatic"
      BY DEF Told, TruthInv, AskingFits
    <3>. QED  BY <1>2, <2>2, <3>1, DecidesNext DEF Deciding
  <2>. QED  BY <1>1, <2>1, <2>2
<1>9. \A u \in Worker \ {w} :
        pc[u] = "requesting" /\ Undone(job[u].change)' => Undone(job[u].change)
  <2>. SUFFICES ASSUME NEW u \in Worker \ {w}, pc[u] = "requesting", Undone(job[u].change)'
                PROVE  Undone(job[u].change)
    OBVIOUS
  <2>1. job[u].change \in ChangeId /\ job'[u] = job[u]
    BY <1>1, OwnJob DEF StepFits, Told, Known, Base, Others, Same
  <2>. QED  BY <1>3, <2>1 DEF UndoneStay
<1>. QED  BY <1>1, <1>2, <1>7, <1>8, <1>9, TellsStep

LEMMA AnswerRequestTells ==
  ASSUME Told, NEW w \in Worker, AnswerRequest(w)
  PROVE  TruthInv'
<1>. PICK c : c = job[w].change
  OBVIOUS
<1>1. /\ pc[w] = "answering" /\ Leave(w) /\ UNCHANGED <<row, live>>
      /\ asked' = asked \ {c}
  BY DEF AnswerRequest, answered
<1>2. c \in ChangeId /\ row[c].kind = "change" /\ row[c].sealed
  BY <1>1, OwnJob DEF StepFits, Told, Known, Base, TruthInv, AskingFits
<1>. QED  BY <1>1, <1>2, AnswersTell

\* A change whose last restore is being followed up was put back by it.
LEMMA FollowRestoreTells ==
  ASSUME Told, NEW w \in Worker, FollowRestore(w)
  PROVE  TruthInv'
<1>. PICK c : c = job[w].change
  OBVIOUS
<1>1. pc[w] = "following" /\ UNCHANGED <<live, asked>>
  BY DEF FollowRestore
<1>2. c \in ChangeId /\ Restorable(c) /\ c # NoChange
  <2>1. c \in ChangeId
    BY <1>1, OwnJob DEF StepFits, Told, Known, Base
  <2>. QED  BY <1>1, <2>1, OwnChange DEF Told, Known, ChangeId, NoChange, Deciding
<1>7. CASE row[c].kind = "change"
  <2>1. /\ UNCHANGED row
        /\ \/ Leave(w) /\ c \notin asked'
           \/ Goto(w, "answering", job[w])
    BY <1>1, <1>7 DEF FollowRestore, FindRequest
  <2>. QED  BY <1>1, <1>2, <1>7, <2>1, AnswersTell DEF Restorable
<1>8. CASE row[c].kind = "recovery"
  <2>. PICK n : n = row[c].recoversId
    OBVIOUS
  <2>. PICK r : r = transition(n, {"restored"}, "healthy")
    OBVIOUS
  <2>1. row' = [row EXCEPT ![n] = r] /\ UNCHANGED asked /\ Leave(w)
    BY <1>8 DEF FollowRestore, reapplied
  <2>20. Others(w) /\ pc'[w] = "idle" /\ job'[w] = NoJob
    BY <2>1 DEF Leave, Goto, Others, Same, Told, Known, Base, TypeInv, TypeOK
  <2>21. \A m \in ChangeId : CallKeeps(w, m)
    BY <1>1, FreeKeeps DEF HasRecord, Claiming
  <2>22. \A m : ~Midway(w, m) /\ ~Midway(w, m)'
    BY <1>1, <2>20 DEF Midway
  <2>23. /\ \A m \in ChangeId \ {c} : Followed(m) => Followed(m)'
         /\ \A m \in ChangeId : Answering(m) => Answering(m)'
    BY <1>1, <2>20 DEF Others, Same, Followed, Answering
  <2>2. /\ n \in ChangeId /\ row[n].kind = "change" /\ row[n].sealed /\ n # c
        /\ row[n].status = "restored" /\ row[n].recoveredById = c /\ row[c].status \in Ended
        /\ row[n] \in Row
    <3>1. n \in ChangeId /\ row[n].kind = "change" /\ row[n].sealed
      BY <1>2, <1>8 DEF Restorable
    <3>2. Following(w)
      BY <1>1, <1>8 DEF Told, Known, ClaimInv, ClaimsFit, ClaimFits
    <3>. QED  BY <1>8, <3>1, <3>2, GetType
              DEF Following, Reappliable, Ended, Told, Known, Base, TypeInv
  <2>3. r = [row[n] EXCEPT !.status = "healthy"]
    BY <2>2 DEF transition, transitions, canTransition, TRANSITIONS, ChangeStatus
  <2>4. /\ r.status = "healthy" /\ r.recoveredById = row[n].recoveredById
        /\ r.late = row[n].late /\ r.confirmed = row[n].confirmed
    BY <2>2, <2>3 DEF Row
  <2>5. /\ row'[n] = r /\ \A m \in ChangeId \ {n} : row'[m] = row[m]
    BY <2>1, <2>2 DEF Told, Known, Base, TypeInv, TypeOK
  <2>6. Moves(n, r)
    <3>1. {"restored"} \cap {"applying", "verifying", "recovering"} = {}
          /\ "healthy" \notin Unsettled \cup {"recovering"}
      BY DEF Unsettled
    <3>. QED  BY <2>2, <3>1, TransitionMoves DEF Told, Known
  <2>7. \A m \in ChangeId \ {n} : KeptRow(w, m) /\ Attends(w, m)
    BY <2>21, <2>5, SameKept, SameAttends
  <2>8. KeptRow(w, n) /\ Attends(w, n)
    <3>1. KeptEvidence(w, n)
      BY <2>2, <2>4, <2>5, <2>6 DEF KeptEvidence, Moves, SameRecord
    <3>2. KeptRecord(w, n)
      <4>1. \A u \in Worker : ~Works(u, n)
        BY <2>2, OwnRecord DEF Works, Told, Known
      <4>2. \A u \in Worker : ~(pc[u] = "settling" /\ job[u].record = n)
        BY <2>2 DEF Told, Known, ClaimInv, ClaimsFit, ClaimFits
      <4>. QED  BY <4>1, <4>2 DEF KeptRecord
    <3>3. ConfirmedFits(n)'
      BY <2>2, <2>5, <2>6 DEF ConfirmedFits, Moves
    <3>4. Attends(w, n)
      <4>1. ~row[n].late
        BY <2>2 DEF Told, TruthInv, AttendedFits
      <4>. QED  BY <2>2, <2>4, <2>5, <2>6, <4>1 DEF Attends, Moves
    <3>. QED  BY <3>1, <3>2, <3>3, <3>4 DEF KeptRow
  <2>9. KeptRows(w) /\ \A m \in ChangeId : Attends(w, m)
    BY <2>7, <2>8 DEF KeptRows
  <2>10. /\ UndoneBut(n) /\ Undone(n) /\ Undone(c)
         /\ ~Undone(n)'
    <3>1. \A u \in Worker, m \in ChangeId : Midway(u, m)' <=> Midway(u, m)
      BY <2>20, <2>22 DEF Others, Same, Midway
    <3>2. UndoneBut(n)
      BY <2>5, <3>1 DEF UndoneBut, Undone
    <3>3. \A u \in Worker : ~Midway(u, n)
      BY <2>2, MidwayClaims
    <3>4. ~Undone(n)'
      BY <2>2, <2>4, <2>5, <3>1, <3>3 DEF Undone, Ended
    <3>. QED  BY <2>2, <3>2, <3>4 DEF Undone, Ended
  <2>11. \A m \in ChangeId \ {n} : row[m].kind = "change" /\ row[m].status = "restored" =>
                                     row[m].recoveredById \notin {n, c}
    BY <2>2, NamesItsRestore
  <2>12. PresenceFits(n)'
    <3>. SUFFICES ASSUME ~Unconfirmed(n)' PROVE InForce(n)'
      BY <2>10 DEF PresenceFits, Absent
    <3>1. ~Unconfirmed(n) /\ ~Absent(n)
      BY <2>2, <2>9, <2>10, UnconfirmedStays DEF Told, Absent
    <3>2. InForce(n)
      BY <2>2, <3>1 DEF Told, TruthInv, PresenceFits
    <3>3. row'[n].footprint = row[n].footprint
      BY <2>5, <2>6 DEF Moves
    <3>. QED  BY <1>1, <3>2, <3>3 DEF InForce
  <2>13. \A m \in ChangeId : row[m].sealed /\ row[m].kind = "change" => Unmoved(m)
    BY <1>1, <2>9, SameLive DEF LiveStays
  <2>14. ASSUME NEW m \in ChangeId, m # n PROVE PresenceFits(m)'
    <3>1. row'[m] = row[m]
      BY <2>5, <2>14
    <3>. QED  BY <2>9, <2>10, <2>11, <2>13, <2>14, <3>1, PresenceBut
  <2>15. \A m \in ChangeId \ {c} : EndedFollowed(m) /\ Answerable(m)
    BY <2>23, <2>4, <2>5 DEF EndedFollowed, Answerable, Ended
  <2>16. ASSUME NEW m \in ChangeId PROVE RestoredFits(m)' /\ AskedFits(m)'
    <3>1. row'[m].recoveredById = row[m].recoveredById
          /\ (row'[m].status = "restored" => row[m].status = "restored")
      BY <2>2, <2>4, <2>5
    <3>2. CASE m = n
      <4>1. RestoredFits(n)'
        <5>1. row'[n].status = "healthy" /\ row'[n].recoveredById = c
          BY <2>2, <2>4, <2>5
        <5>2. row'[c].status # "unopened"
          BY <1>2, <2>2, <2>5 DEF Ended
        <5>. QED  BY <5>1, <5>2 DEF RestoredFits
      <4>2. Answerable(n)
        BY <2>2, <2>15
      <4>3. AskedFits(n)'
        BY <2>1, <2>2, <2>9, <4>2, AskedStays
      <4>. QED  BY <3>2, <4>1, <4>3
    <3>3. CASE m # n
      <4>1. \A k \in ChangeId : row[k].kind = "recovery" /\ row[k].recoversId = m
                                  => EndedFollowed(k)
        BY <2>15, <3>3
      <4>2. RestoredFits(m)'
        BY <2>9, <3>1, <4>1, RestoredStays
      <4>3. row[m].kind = "change" => Answerable(m)
        BY <1>8, <2>15
      <4>4. AskedFits(m)'
        BY <2>1, <2>9, <4>3, AskedStays
      <4>. QED  BY <4>2, <4>4
    <3>. QED  BY <3>2, <3>3
  <2>17. RestoringFits(w)' /\ AskingFits(w)'
    BY <2>20, <2>9, IdleAsks
  <2>18. \A u \in Worker \ {w} :
          pc[u] = "requesting" /\ Undone(job[u].change)' => Undone(job[u].change)
    <3>. SUFFICES ASSUME NEW u \in Worker \ {w}, pc[u] = "requesting", Undone(job[u].change)'
                  PROVE  Undone(job[u].change)
      OBVIOUS
    <3>1. job[u].change \in ChangeId /\ job'[u] = job[u]
      BY <2>20, OwnJob DEF StepFits, Told, Known, Base, Others, Same
    <3>. QED  BY <2>10, <3>1 DEF UndoneBut
  <2>19. \A m \in ChangeId : PresenceFits(m)' /\ RestoredFits(m)' /\ AskedFits(m)'
    BY <2>12, <2>14, <2>16
  <2>. QED  BY <1>1, <2>20, <2>9, <2>17, <2>18, <2>19, TellsStep
<1>. QED  BY <1>2, <1>7, <1>8, GetType DEF Row, Told, Known, Base, TypeInv

\* A restore was verified, or could not be: its claim ends, row c becoming r.
Settles(w, c, r, s) ==
  /\ pc[w] = "settling" /\ c = job[w].change
  /\ row' = [row EXCEPT ![c] = r] /\ Moves(c, r) /\ r.confirmed = row[c].confirmed /\ ~r.late
  /\ \/ r.status \in Ended /\ r.recoveredById = job[w].record
     \/ r.status = "recovery_failed" /\ r.recoveredById = row[c].recoveredById
  /\ s \in {"following", "stopping"} /\ Goto(w, s, job[w])

LEMMA SettledRow ==
  ASSUME Told, NEW w \in Worker, NEW c, NEW r, NEW s, Settles(w, c, r, s)
  PROVE  /\ KeptRows(w) /\ Others(w) /\ \A m \in ChangeId : Attends(w, m)
         /\ pc'[w] = s /\ job'[w] = job[w]
         /\ c \in ChangeId /\ c # NoChange /\ row[c].sealed /\ row[c].status = "recovering"
         /\ row'[c] = r /\ \A m \in ChangeId \ {c} : row'[m] = row[m]
         /\ UndoneBut(c) /\ Undone(c)
<1>. USE DEF Settles
<1>1. /\ c \in ChangeId /\ c # NoChange /\ row[c].sealed /\ row[c].status = "recovering"
  BY OwnClaim DEF Claiming, Restorable, Told, Known, ChangeId, NoChange
<1>2. row'[c] = r /\ \A m \in ChangeId \ {c} : row'[m] = row[m]
  BY <1>1 DEF Told, Known, Base, TypeInv, TypeOK
<1>3. Others(w) /\ pc'[w] = s /\ job'[w] = job[w]
  BY DEF Goto, Others, Same, Told, Known, Base, TypeInv, TypeOK
<1>4. \A m \in ChangeId \ {c} : CallKeeps(w, m)
  BY <1>1, ElseKeeps DEF HasRecord, Applying
<1>5. \A m \in ChangeId \ {c} : KeptRow(w, m) /\ Attends(w, m)
  BY <1>2, <1>4, SameKept, SameAttends
<1>6. KeptEvidence(w, c)
  <2>1. r.status # "unopened"
    BY DEF Ended
  <2>2. r.recoveredById = row[c].recoveredById \/ r.recoveredById = job[w].record
    OBVIOUS
  <2>. QED  BY <1>1, <1>2, <2>1, <2>2 DEF KeptEvidence, Moves, SameRecord, Doubtful
<1>7. KeptRecord(w, c)
  <2>1. \A u \in Worker : ~Works(u, c)
    BY <1>1, OwnRecord DEF Works, Told, Known
  <2>2. ASSUME NEW u \in Worker, pc[u] = "settling", job[u].record = c
        PROVE  FALSE
    <3>1. job[u].change # NoChange
      BY <2>2, OwnClaim DEF Told, Known, Claiming, ChangeId, NoChange
    <3>. QED  BY <1>1, <2>2, <3>1 DEF Told, TruthInv, RestoringFits, Doubtful
  <2>. QED  BY <2>1, <2>2 DEF KeptRecord
<1>8. ConfirmedFits(c)'
  BY <1>2 DEF ConfirmedFits, Standing
<1>9. Attends(w, c)
  <2>1. r.status \notin {"recovering", "applying", "verifying"} /\ r.sealed
    BY <1>1 DEF Ended, Moves
  <2>. QED  BY <1>2, <2>1 DEF Attends
<1>10. UndoneBut(c) /\ Undone(c)
  <2>1. Midway(w, c)
    BY DEF Midway
  <2>2. \A u \in Worker, m \in ChangeId \ {c} : Midway(u, m)' <=> Midway(u, m)
    BY <1>3 DEF Others, Same, Midway
  <2>3. UndoneBut(c)
    BY <1>2, <2>2 DEF UndoneBut, Undone
  <2>. QED  BY <2>1, <2>3 DEF Undone
<1>. QED  BY <1>1, <1>2, <1>3, <1>5, <1>6, <1>7, <1>8, <1>9, <1>10 DEF KeptRows, KeptRow

\* What a settlement leaves true, but for the presence of what it was about.
LEMMA SettledTells ==
  ASSUME Told, NEW w \in Worker, NEW c, NEW r, NEW s, Settles(w, c, r, s),
         r.status \in Ended => s = "following",
         UNCHANGED <<live, asked>>,
         \A n \in ChangeId : row[n].kind = "change" => PresenceFits(n)',
         RestoredFits(c)'
  PROVE  TruthInv'
<1>1. /\ KeptRows(w) /\ Others(w) /\ \A m \in ChangeId : Attends(w, m)
      /\ pc'[w] = s /\ job'[w] = job[w]
      /\ c \in ChangeId /\ c # NoChange /\ row[c].sealed /\ row[c].status = "recovering"
      /\ row'[c] = r /\ \A m \in ChangeId \ {c} : row'[m] = row[m]
      /\ UndoneBut(c) /\ Undone(c)
  BY SettledRow
<1>. pc[w] = "settling" /\ Moves(c, r) /\ s \in {"following", "stopping"} /\ c = job[w].change
  BY DEF Settles
<1>2. \A n \in ChangeId : PresenceFits(n)'
  <2>1. \A n \in ChangeId : row'[n].kind = row[n].kind
    BY <1>1 DEF Moves
  <2>. QED  BY <2>1 DEF PresenceFits
<1>3. \A m \in ChangeId : EndedFollowed(m) /\ Answerable(m)
  <2>1. \A m \in ChangeId : (Followed(m) => Followed(m)') /\ (Answering(m) => Answering(m)')
    BY <1>1 DEF Others, Same, Followed, Answering
  <2>2. r.status \in Ended => Followed(c)'
    BY <1>1 DEF Followed
  <2>. QED  BY <1>1, <2>1, <2>2 DEF EndedFollowed, Answerable
<1>4. ASSUME NEW n \in ChangeId PROVE RestoredFits(n)' /\ AskedFits(n)'
  <2>1. RestoredFits(n)'
    <3>1. CASE n # c
      <4>1. row'[n] = row[n]
        BY <1>1, <3>1
      <4>. QED  BY <1>1, <1>3, <4>1, RestoredStays
    <3>. QED  BY <3>1
  <2>2. AskedFits(n)'
    BY <1>1, <1>3, AskedStays
  <2>. QED  BY <2>1, <2>2
<1>5. RestoringFits(w)'
  BY <1>1, StillRestoring DEF HasRecord, Applying
<1>6. AskingFits(w)'
  BY <1>1, NothingAsked
<1>7. \A u \in Worker \ {w} :
        pc[u] = "requesting" /\ Undone(job[u].change)' => Undone(job[u].change)
  <2>. SUFFICES ASSUME NEW u \in Worker \ {w}, pc[u] = "requesting", Undone(job[u].change)'
                PROVE  Undone(job[u].change)
    OBVIOUS
  <2>1. job[u].change \in ChangeId /\ job'[u] = job[u]
    BY <1>1, OwnJob DEF StepFits, Told, Known, Base, Others, Same
  <2>. QED  BY <1>1, <2>1 DEF UndoneBut
<1>8. \A n \in ChangeId : PresenceFits(n)' /\ RestoredFits(n)' /\ AskedFits(n)'
  BY <1>2, <1>4
<1>. QED  BY <1>1, <1>5, <1>6, <1>7, <1>8, TellsStep

\* The change a restore is about, settled one way or the other.
LEMMA SettledOthers ==
  ASSUME Told, NEW w \in Worker, UNCHANGED live, KeptRows(w), NEW c, UndoneBut(c),
         \A m \in ChangeId \ {c} : row'[m] = row[m],
         NEW n \in ChangeId, n # c, row[n].status = "restored" => row[n].recoveredById # c
  PROVE  PresenceFits(n)'
<1>1. row'[n] = row[n]
  OBVIOUS
<1>2. row[n].sealed /\ row[n].kind = "change" => Unmoved(n)
  BY SameLive DEF LiveStays
<1>. QED  BY <1>1, <1>2, PresenceBut

LEMMA SettleRestoreTells ==
  ASSUME Told, NEW w \in Worker, SettleRestore(w)
  PROVE  TruthInv'
<1>. PICK c : c = job[w].change
  OBVIOUS
<1>. PICK m : m = job[w].record
  OBVIOUS
<1>. PICK to : to = IF byBackenly(job[w].mode) THEN "recovered" ELSE "restored"
  OBVIOUS
<1>1. /\ pc[w] = "settling" /\ UNCHANGED <<live, asked>>
      /\ IF row[m].status = "healthy"
         THEN row' = [row EXCEPT ![c] = settled(c, w, to, m)] /\ Goto(w, "following", job[w])
         ELSE /\ row' = [row EXCEPT ![c] = releaseRecovery(c, w, "recovery_failed")]
              /\ Goto(w, "stopping", job[w])
  BY DEF SettleRestore
<1>2. /\ c \in ChangeId /\ c # NoChange /\ row[c] \in Row /\ Owns(c, w) /\ Restorable(c)
      /\ row[c].status = "recovering" /\ row[c].sealed
  BY <1>1, OwnClaim DEF Claiming, Restorable, Owns, Told, Known, ChangeId, NoChange
<1>3. /\ m \in ChangeId /\ row[m].sealed /\ row[m].kind = "recovery" /\ row[m].recoversId = c
  BY <1>1, OwnJob DEF Told, Known, Base, StepFits, ClaimInv, ClaimsFit, ClaimFits
<1>4. /\ row[m].footprint # {}
      /\ row[c].kind = "change" /\ ~Unconfirmed(c) =>
           \A t \in row[c].footprint : t \in row[m].footprint /\ c \in row[m].checkpoint[t]
      /\ (row[m].status = "healthy" /\ row[m].confirmed) \/ row[m].status \in Doubtful
  BY <1>1, <1>2 DEF Told, TruthInv, RestoringFits
<1>5. CASE row[m].status = "healthy"
  <2>. PICK r : r = settled(c, w, to, m)
    OBVIOUS
  <2>1. row' = [row EXCEPT ![c] = r] /\ Goto(w, "following", job[w])
    BY <1>1, <1>5
  <2>2. /\ r.status = to /\ to \in Ended /\ ~r.late /\ r.confirmed = row[c].confirmed
        /\ r.recoveredById = m /\ r.kind = row[c].kind /\ r.footprint = row[c].footprint
    BY <1>2 DEF settled, releaseRecovery, Row, Ended
  <2>3. Moves(c, r)
    <3>1. /\ to \in Released /\ releaseRecovery(c, w, to) \in Row
      <4>1. to \in Released /\ to \in RowStatus
        BY DEF Released, RowStatus, ChangeStatus
      <4>. QED  BY <1>2, <4>1, ReleaseType DEF Told, Known, Base, TypeInv
    <3>2. r = [releaseRecovery(c, w, to) EXCEPT !.recoveredById = m]
      BY <1>2 DEF settled
    <3>. QED  BY <1>2, <3>1, <3>2, ReleaseMoves, AnswerMoves DEF Told, Known
  <2>4. /\ KeptRows(w) /\ Others(w) /\ UndoneBut(c) /\ Undone(c)
        /\ row'[c] = r /\ \A n \in ChangeId \ {c} : row'[n] = row[n]
    <3>1. Settles(w, c, r, "following")
      BY <1>1, <2>1, <2>2, <2>3 DEF Settles
    <3>. QED  BY <3>1, SettledRow
  <2>5. m # c /\ row'[m] = row[m] /\ ~Undone(m)'
    <3>1. m # c /\ row'[m] = row[m]
      BY <1>2, <1>3, <1>5, <2>4
    <3>2. ~Undone(m)
      BY <1>3, <1>5, MidwayClaims DEF Undone, Ended
    <3>. QED  BY <1>3, <2>4, <3>1, <3>2 DEF UndoneBut
  <2>6. row[c].kind = "change" => PresenceFits(c)'
    <3>. SUFFICES ASSUME row[c].kind = "change", ~Unconfirmed(c)'
                  PROVE  Gone(c)' /\ Absent(c)'
      BY DEF PresenceFits
    <3>1. ~Unconfirmed(c) /\ Absent(c)
      BY <1>2, <2>4, UnconfirmedStays DEF Told, Absent
    <3>2. Gone(c)
      BY <1>2, <3>1 DEF Told, TruthInv, PresenceFits
    <3>3. Absent(c)'
      BY <2>2, <2>4, <2>5 DEF Absent, Undone
    <3>. QED  BY <1>1, <3>2, <3>3 DEF Gone
  <2>7. ASSUME NEW n \in ChangeId, n # c, row[n].kind = "change" PROVE PresenceFits(n)'
    <3>1. row'[n] = row[n] /\ Unmoved(n)
      BY <1>1, <2>4, <2>7 DEF Unmoved, Gone, InForce
    <3>2. UndoneStay
      BY <2>2, <2>4 DEF UndoneStay, UndoneBut, Undone
    <3>3. CASE row[n].sealed
      BY <2>4, <3>1, <3>2, <3>3, PresenceStays
    <3>4. CASE ~row[n].sealed
      BY <3>1, <3>4 DEF PresenceFits
    <3>. QED  BY <3>3, <3>4
  <2>8. RestoredFits(c)'
    <3>1. /\ row'[c].recoveredById = m /\ row'[c].kind = row[c].kind
          /\ row'[c].footprint = row[c].footprint
      BY <2>2, <2>4
    <3>2. row[m].status # "unopened" /\ row[m].status \notin Ended /\ row[m].confirmed
      BY <1>4, <1>5 DEF Doubtful, Ended
    <3>3. Unconfirmed(c) => Unconfirmed(c)'
      BY <2>4, UnconfirmedStays DEF Told
    <3>. QED  BY <1>3, <1>4, <2>5, <3>1, <3>2, <3>3 DEF RestoredFits
  <2>9. \A n \in ChangeId : row[n].kind = "change" => PresenceFits(n)'
    BY <2>6, <2>7
  <2>10. Settles(w, c, r, "following")
    BY <1>1, <2>1, <2>2, <2>3 DEF Settles
  <2>. QED  BY <1>1, <2>8, <2>9, <2>10, SettledTells
<1>6. CASE row[m].status # "healthy"
  <2>. PICK r : r = releaseRecovery(c, w, "recovery_failed")
    OBVIOUS
  <2>1. row' = [row EXCEPT ![c] = r] /\ Goto(w, "stopping", job[w])
    BY <1>1, <1>6
  <2>2. /\ r.status = "recovery_failed" /\ ~r.late /\ r.confirmed = row[c].confirmed
        /\ r.recoveredById = row[c].recoveredById
    BY <1>2 DEF releaseRecovery, Row
  <2>3. Moves(c, r)
    BY <1>2, ReleaseMoves DEF Released, ReturnTo, RECOVERY_OWED, Told, Known
  <2>4. /\ KeptRows(w) /\ Others(w) /\ UndoneBut(c)
        /\ row'[c] = r /\ \A n \in ChangeId \ {c} : row'[n] = row[n]
    <3>1. Settles(w, c, r, "stopping")
      BY <1>1, <2>1, <2>2, <2>3 DEF Settles
    <3>. QED  BY <3>1, SettledRow
  <2>5. Unconfirmed(Subject(m))'
    <3>1. m \in Recorded /\ row[m].status \in Doubtful
      BY <1>3, <1>4, <1>6 DEF Recorded, Doubtful
    <3>2. Unconfirmed(Subject(m))
      BY <1>3, <3>1 DEF Unconfirmed, Doubtful
    <3>3. \A k : Unconfirmed(k) => Unconfirmed(k)'
      BY <2>4, UnconfirmedStays DEF Told
    <3>4. Subject(m)' = Subject(m)
      BY <1>3, <2>4, KeptSealed, SubjectStays
         DEF Told, Known, Base, TypeInv, RowsFit, SealedStay, SameRecord
    <3>. QED  BY <3>2, <3>3, <3>4
  <2>6. Subject(m)' = IF row[c].kind = "change" THEN c ELSE row[c].recoversId
    <3>1. /\ row'[m].kind = "recovery" /\ row'[m].recoversId = c
          /\ row'[c].kind = row[c].kind /\ row'[c].recoversId = row[c].recoversId
      BY <1>2, <1>3, <2>4, KeptSealed DEF SealedStay, SameRecord
    <3>. QED  BY <3>1 DEF Subject
  <2>7. ASSUME NEW n \in ChangeId, row[n].kind = "change" PROVE PresenceFits(n)'
    <3>1. CASE Unconfirmed(n)'
      BY <3>1 DEF PresenceFits
    <3>2. CASE ~Unconfirmed(n)'
      <4>1. n # c
        BY <2>5, <2>6, <2>7, <3>2
      <4>2. row[n].status = "restored" => row[n].recoveredById # c
        BY <2>5, <2>6, <2>7, <3>2, NamesItsRestore
      <4>. QED  BY <1>1, <2>4, <4>1, <4>2, SettledOthers
    <3>. QED  BY <3>1, <3>2
  <2>8. RestoredFits(c)'
    <3>1. row'[c].status = "recovery_failed" /\ row'[c].recoveredById = row[c].recoveredById
      BY <2>2, <2>4
    <3>2. RestoredFits(c) /\ \A n \in ChangeId : KeptEvidence(w, n)
      BY <1>2, <2>4 DEF Told, TruthInv, KeptRows, KeptRow
    <3>3. row[c].recoveredById \in {NoChange} \cup ChangeId
      BY <1>2 DEF Row
    <3>. QED  BY <3>1, <3>2, <3>3 DEF RestoredFits, KeptEvidence
  <2>9. Settles(w, c, r, "stopping")
    BY <1>1, <2>1, <2>2, <2>3 DEF Settles
  <2>. QED  BY <1>1, <2>2, <2>7, <2>8, <2>9, SettledTells DEF Ended
<1>. QED  BY <1>5, <1>6

-----------------------------------------------------------------------------
(* A restore commits.                                                      *)

\* A restore that commits takes out of the catalog the change it is about, all of
\* it, or puts it all back.
LEMMA CommitMoves ==
  ASSUME Told, NEW w \in Worker, CommitRestore(w), NEW c, c = job[w].change
  PROVE  /\ c \in ChangeId /\ row[c].status = "recovering" /\ row[c].sealed
         /\ row[c].kind = "change" => Gone(c)'
         /\ \A m : row[c].kind = "recovery" /\ m = row[c].recoversId =>
              /\ m \in ChangeId /\ row[m].status = "restored" /\ row[m].recoveredById = c
              /\ ~Unconfirmed(m) => InForce(m)'
         /\ \A n \in ChangeId : n # Subject(c) => Unmoved(n)
<1>1. /\ pc[w] = "restoring" /\ UNCHANGED row
      /\ live' = [t \in Table |-> IF t \in row[c].footprint
                                  THEN row[c].checkpoint[t] ELSE live[t]]
  BY DEF CommitRestore
<1>2. c \in ChangeId /\ row[c].status = "recovering" /\ Restorable(c)
  BY <1>1, OwnClaim DEF Claiming, Told, Known
<1>3. row[c].sealed /\ row[c].footprint \subseteq Table
  BY <1>2, GetType DEF Restorable, Told, Known, Base, TypeInv, Row
<1>4. row[c].kind = "change" => Gone(c)'
  <2>. SUFFICES ASSUME row[c].kind = "change", NEW t \in Table PROVE c \notin live'[t]
    BY DEF Gone
  <2>1. EvidenceFits(c)
    BY <1>2 DEF Told, Known, EvidenceInv
  <2>2. CASE t \in row[c].footprint
    BY <1>1, <2>1, <2>2 DEF EvidenceFits
  <2>3. CASE t \notin row[c].footprint
    BY <1>1, <1>3, <2>1, <2>3 DEF EvidenceFits, NeverOn
  <2>. QED  BY <2>2, <2>3
<1>5. ASSUME row[c].kind = "recovery", NEW m, m = row[c].recoversId
      PROVE  /\ m \in ChangeId /\ row[m].status = "restored" /\ row[m].recoveredById = c
             /\ ~Unconfirmed(m) => InForce(m)'
  <2>1. /\ m \in ChangeId /\ row[m].sealed /\ row[m].kind = "change"
        /\ row[m].status = "restored" /\ row[m].recoveredById = c
    BY <1>2, <1>5 DEF Restorable, Told, Known, ClaimInv, ClaimsFit, RowClaimFits, Reappliable
  <2>2. ASSUME ~Unconfirmed(m) PROVE InForce(m)'
    <3>1. \A t \in row[m].footprint : t \in row[c].footprint /\ m \in row[c].checkpoint[t]
      BY <2>1, <2>2 DEF Told, TruthInv, RestoredFits
    <3>. QED  BY <1>1, <1>3, <3>1 DEF InForce
  <2>. QED  BY <2>1, <2>2
<1>6. ASSUME NEW n \in ChangeId, n # Subject(c) PROVE Unmoved(n)
  <2>1. \A t \in Table : live'[t] \ {Subject(c)} = live[t] \ {Subject(c)}
    BY <1>2, RestoreIsExact DEF CommitRestore, Told, Known
  <2>2. \A t \in Table : n \in live'[t] <=> n \in live[t]
    BY <1>6, <2>1
  <2>3. row[n].footprint \subseteq Table
    BY GetType DEF Told, Known, Base, TypeInv, Row
  <2>. QED  BY <1>1, <2>2, <2>3 DEF Unmoved, Gone, InForce
<1>. QED  BY <1>2, <1>3, <1>4, <1>5, <1>6

LEMMA CommitRestoreTells ==
  ASSUME Told, NEW w \in Worker, CommitRestore(w)
  PROVE  TruthInv'
<1>. PICK c : c = job[w].change
  OBVIOUS
<1>. PICK r : r = job[w].record
  OBVIOUS
<1>1. /\ pc[w] = "restoring" /\ UNCHANGED <<row, asked>> /\ Goto(w, "committed", job[w])
  BY DEF CommitRestore
<1>2. Others(w) /\ pc'[w] = "committed" /\ job'[w] = job[w]
  BY <1>1 DEF Goto, Others, Same, Told, Known, Base, TypeInv, TypeOK
<1>3. /\ c \in ChangeId /\ row[c].status = "recovering" /\ row[c].sealed /\ c # NoChange
      /\ row[c].kind = "change" => Gone(c)'
      /\ \A n \in ChangeId : n # Subject(c) => Unmoved(n)
  BY CommitMoves DEF ChangeId, NoChange
<1>4. KeptRows(w) /\ EndedStay /\ \A m \in ChangeId : Attends(w, m)
  <2>1. \A m \in ChangeId : CallKeeps(w, m)
    BY <1>1, <1>2 DEF CallKeeps, Claims, Works, Claiming, HasRecord, Applying
  <2>. QED  BY <1>1, <2>1, NoneQuiet DEF RowsQuiet
<1>5. \A u \in Worker \ {w} : ~Holds(u) /\ pc[u] \notin HasRecord
  BY <1>1 DEF Told, Known, Base, OneAtATime, Holds, HoldsAt, HasRecord
<1>6. UndoneBut(c) /\ Undone(c)'
  <2>1. \A u \in Worker, m \in ChangeId \ {c} : Midway(u, m)' <=> Midway(u, m)
    BY <1>2 DEF Others, Same, Midway
  <2>2. Midway(w, c)'
    BY <1>2 DEF Midway
  <2>3. UndoneBut(c)
    BY <1>1, <2>1 DEF UndoneBut, Undone
  <2>. QED  BY <2>2, <2>3 DEF Undone
<1>7. ASSUME NEW n \in ChangeId, n # c, n # Subject(c) PROVE PresenceFits(n)'
  <2>1. row[n].kind = "change" /\ row[n].status = "restored" => row[n].recoveredById # c
    <3>. SUFFICES ASSUME row[n].kind = "change", row[n].status = "restored",
                         row[n].recoveredById = c
                  PROVE  FALSE
      OBVIOUS
    <3>1. row[c].kind = "recovery" /\ row[c].recoversId = n
      BY NamesItsRestore
    <3>. QED  BY <1>7, <3>1 DEF Subject
  <2>. QED  BY <1>1, <1>3, <1>4, <1>6, <1>7, <2>1, PresenceBut
<1>8. PresenceFits(c)'
  <2>. SUFFICES ASSUME row[c].kind = "change" PROVE PresenceFits(c)'
    BY <1>1 DEF PresenceFits
  <2>1. Absent(c)'
    BY <1>1, <1>3, <1>6 DEF Absent
  <2>. QED  BY <1>3, <2>1 DEF PresenceFits
<1>9. ASSUME NEW m \in ChangeId, m = Subject(c), m # c PROVE PresenceFits(m)'
  <2>1. row[c].kind = "recovery" /\ m = row[c].recoversId
    <3>1. row[c].kind \in {"change", "recovery"} /\ Restorable(c)
      BY <1>1, <1>3, GetType, OwnClaim DEF Told, Known, Base, TypeInv, Row, Claiming
    <3>. QED  BY <1>9, <3>1 DEF Subject, Restorable
  <2>2. /\ row[m].status = "restored" /\ row[m].recoveredById = c
        /\ ~Unconfirmed(m) => InForce(m)'
    BY <2>1, CommitMoves
  <2>3. Unconfirmed(m) => Unconfirmed(m)'
    BY <1>4, UnconfirmedStays DEF Told
  <2>4. ~Absent(m)'
    <3>1. row'[m].status = "restored" /\ row'[m].recoveredById = c
      BY <1>1, <2>2
    <3>. QED  BY <1>6, <3>1 DEF Absent
  <2>. QED  BY <2>2, <2>3, <2>4 DEF PresenceFits
<1>10. \A m \in ChangeId : EndedFollowed(m) /\ Answerable(m)
  <2>1. \A m \in ChangeId : (Followed(m) => Followed(m)') /\ (Answering(m) => Answering(m)')
    BY <1>1, <1>2 DEF Others, Same, Followed, Answering
  <2>. QED  BY <1>4, <2>1 DEF EndedFollowed, EndedStay, Answerable
<1>11. ASSUME NEW n \in ChangeId PROVE PresenceFits(n)' /\ RestoredFits(n)' /\ AskedFits(n)'
  <2>1. PresenceFits(n)'
    BY <1>7, <1>8, <1>9
  <2>2. RestoredFits(n)'
    BY <1>1, <1>4, <1>10, RestoredStays
  <2>3. AskedFits(n)'
    BY <1>1, <1>4, <1>10, AskedStays
  <2>. QED  BY <2>1, <2>2, <2>3
<1>12. RestoringFits(w)'
  <2>1. pc[w] \in HasRecord /\ row'[r].checkpoint = row[r].checkpoint
    BY <1>1 DEF HasRecord, Applying
  <2>2. /\ row'[c].kind = row[c].kind /\ row'[c].footprint = row[c].footprint
        /\ row[c].kind = "recovery" => row'[c].confirmed /\ job[w].from \in Standing
        /\ \A m \in ChangeId : row'[m].recoveredById # r
        /\ Unconfirmed(c) => Unconfirmed(c)'
        /\ row[c].kind = "change" /\ ~Unconfirmed(c) =>
              \A t \in row[c].footprint : c \in row'[r].checkpoint[t]
    BY <1>2, <1>3, <1>4, <2>1, OwnRestoring
  <2>. QED  BY <1>2, <2>2 DEF RestoringFits
<1>13. AskingFits(w)'
  BY <1>1, <1>2, <1>4, NothingAsked
<1>14. \A u \in Worker \ {w} : pc[u] # "requesting"
  BY <1>5 DEF Told, TruthInv, AskingFits, Holds, HoldsAt
<1>. QED  BY <1>2, <1>4, <1>5, <1>11, <1>12, <1>13, <1>14, TellsStep

-----------------------------------------------------------------------------
(* What cannot happen before a fault: nothing is late, so nobody reconciles. *)

\* Faults are only ever added to.
LEMMA FaultsCount ==
  ASSUME TypeOK, [Next]_vars, faults' = 0
  PROVE  /\ faults = 0
         /\ \A w \in Worker : ~FailedAfterCommit(w) /\ ~Crash(w)
<1>1. faults \in Nat
  BY ConstantsAssumption DEF TypeOK
<1>2. ASSUME NEW w \in Worker, FailedAfterCommit(w) \/ Crash(w) PROVE FALSE
  BY <1>1, <1>2 DEF FailedAfterCommit, Crash
<1>3. ASSUME NEW w \in Worker, Begin(w) \/ RunStatement(w) PROVE faults' = faults
  BY <1>3 DEF Begin, OpenChange, StartRestore, ApproveRestore, KeepChange, DeclineRequest,
              RunStatement
<1>4. ASSUME NEW w \in Worker, Continue(w) PROVE faults' = faults
  <2>1. CASE DiscardChange(w) \/ Applied(w) \/ ApplyFailed(w) \/ Verified(w)
    BY <2>1 DEF DiscardChange, Applied, ApplyFailed, Verified
  <2>2. CASE \/ RecoverAutomatically(w) \/ PauseRecovery(w) \/ RecordStarted(w)
             \/ OpenRecord(w) \/ LockRefused(w) \/ RefuseRestore(w)
    BY <2>2 DEF RecoverAutomatically, PauseRecovery, RecordStarted, OpenRecord, LockRefused,
                RefuseRestore
  <2>3. CASE RestoreFailed(w) \/ CommitRestore(w) \/ GiveBack(w) \/ SettleRestore(w)
    BY <2>3 DEF RestoreFailed, CommitRestore, GiveBack, SettleRestore
  <2>4. CASE \/ FollowRestore(w) \/ StopAndEscalate(w) \/ Escalate(w) \/ RequestApproval(w)
    BY <2>4 DEF FollowRestore, StopAndEscalate, Escalate, RequestApproval
  <2>5. CASE \/ Claim(w) \/ ClaimLost(w) \/ AnswerRequest(w) \/ FollowKeep(w) \/ KeepDeclined(w)
    BY <2>5 DEF Claim, ClaimLost, AnswerRequest, FollowKeep, KeepDeclined
  <2>. QED  BY <1>2, <1>4, <2>1, <2>2, <2>3, <2>4, <2>5 DEF Continue
<1>5. ASSUME NEW w \in Worker, ReconcileBusy(w) \/ Reconcile(w) PROVE faults' = faults
  BY <1>5 DEF ReconcileBusy, Reconcile, ReconcileRestore, ReconcileOpen
<1>6. ASSUME ChangeOutside \/ \E n \in ChangeId : TimeIsUp(n) PROVE faults' = faults
  BY <1>6 DEF ChangeOutside, TimeIsUp
<1>7. ASSUME NEW w \in Worker, NEW n \in ChangeId, ReadLate(w, n) PROVE faults' = faults
  BY <1>7 DEF ReadLate
<1>8. faults' = faults
  BY <1>2, <1>3, <1>4, <1>5, <1>6, <1>7 DEF Next, vars
<1>. QED  BY <1>2, <1>8

\* A row in progress is some living call's, whose time is not up.
LEMMA NobodyLate ==
  ASSUME Told, ~SlowOwners
  PROVE  /\ \A n \in ChangeId, w \in Worker : ~ReadLate(w, n)
         /\ \A n \in ChangeId : ~TimeIsUp(n)
         /\ \A w \in Worker : ~ReconcileBusy(w) /\ ~Reconcile(w)
         /\ Timely
<1>1. ASSUME NEW n \in ChangeId, NEW w \in Worker, ReadLate(w, n) PROVE FALSE
  BY <1>1 DEF ReadLate, Told, TruthInv, AttendedFits
<1>2. \A w \in Worker : pc[w] # "reconciling"
  BY DEF Told, TruthInv, AskingFits
<1>3. ASSUME NEW n \in ChangeId, TimeIsUp(n) PROVE FALSE
  <2>1. row[n].status \in InProgress /\ ~WorkedOn(n)
    BY <1>3 DEF TimeIsUp
  <2>2. PICK u \in Worker : Claims(u, n) \/ Works(u, n)
    BY <2>1 DEF Told, TruthInv, AttendedFits, InProgress
  <2>. QED  BY <2>1, <2>2 DEF WorkedOn, Aside, Claims, Works, Claiming, HasRecord
<1>4. \A w \in Worker : ~ReconcileBusy(w) /\ ~Reconcile(w)
  BY <1>2 DEF ReconcileBusy, Reconcile, ReconcileRestore, ReconcileOpen
<1>5. Timely
  BY <1>2 DEF Timely, ReadAsLapsed
<1>. QED  BY <1>1, <1>3, <1>4, <1>5

-----------------------------------------------------------------------------
(* The theorems about History before any fault.                            *)

LEMMA TruthInit == Init => TruthInv
<1>. SUFFICES ASSUME Init PROVE TruthInv
  OBVIOUS
<1>1. \A n \in ChangeId : row[n] = NoRow
  BY DEF Init
<1>2. \A w \in Worker : pc[w] = "idle" /\ job[w] = NoJob
  BY DEF Init
<1>3. ASSUME NEW n \in ChangeId
      PROVE  /\ AttendedFits(n) /\ PresenceFits(n) /\ RestoredFits(n)
             /\ ConfirmedFits(n) /\ AskedFits(n)
  BY <1>1 DEF Init, NoRow, AttendedFits, PresenceFits, RestoredFits, ConfirmedFits, AskedFits
<1>4. ASSUME NEW w \in Worker PROVE RestoringFits(w) /\ AskingFits(w)
  BY <1>2 DEF NoJob, RestoringFits, AskingFits
<1>. QED  BY <1>3, <1>4 DEF TruthInv

LEMMA TruthStep ==
  ASSUME Told, ~SlowOwners, [Next]_vars, faults' = 0
  PROVE  TruthInv'
<1>1. ASSUME NEW w \in Worker, Continue(w) PROVE TruthInv'
  <2>1. ~FailedAfterCommit(w)
    BY FaultsCount DEF Told, Known, Base, TypeInv
  <2>2. CASE DiscardChange(w) \/ Applied(w) \/ ApplyFailed(w) \/ Verified(w)
    BY <2>2, DiscardChangeTells, AppliedTells, ApplyFailedTells, VerifiedTells
  <2>3. CASE \/ RecoverAutomatically(w) \/ PauseRecovery(w) \/ RecordStarted(w)
             \/ OpenRecord(w) \/ LockRefused(w) \/ RefuseRestore(w)
    BY <2>3, BeginRestoreTells, WaitingTells, RecordStartedTells, OpenRecordTells,
       RefuseRestoreTells
  <2>4. CASE RestoreFailed(w) \/ CommitRestore(w) \/ GiveBack(w) \/ SettleRestore(w)
    BY <2>4, RestoreFailedTells, CommitRestoreTells, GiveBackTells, SettleRestoreTells
  <2>5. CASE FollowRestore(w) \/ StopAndEscalate(w) \/ Escalate(w) \/ RequestApproval(w)
    BY <2>5, FollowRestoreTells, StopAndEscalateTells, EscalateTells, RequestApprovalTells
  <2>6. CASE \/ Claim(w) \/ ClaimLost(w) \/ AnswerRequest(w) \/ FollowKeep(w) \/ KeepDeclined(w)
    BY <2>6, ClaimTells, ClaimLostTells, AnswerRequestTells, KeepsTells DEF Keeps
  <2>. QED  BY <1>1, <2>1, <2>2, <2>3, <2>4, <2>5, <2>6 DEF Continue
<1>2. ASSUME NEW w \in Worker, Begin(w) \/ RunStatement(w) PROVE TruthInv'
  BY <1>2, OpenChangeTells, BeginRestoreTells, KeepsTells, RunStatementTells DEF Begin, Keeps
<1>3. ASSUME ChangeOutside PROVE TruthInv'
  BY <1>3, ChangeOutsideTells
<1>4. CASE UNCHANGED vars
  <2>1. UNCHANGED row /\ UNCHANGED <<live, asked, pc, job>> /\ NoWorker \notin Worker
    BY <1>4, ConstantsAssumption DEF vars
  <2>2. CallQuiet(NoWorker) /\ \A m \in ChangeId : CallKeeps(NoWorker, m)
    BY <2>1 DEF CallQuiet, Others, Same, CallKeeps
  <2>. QED  BY <2>1, <2>2, NoneQuiet, SameAsked, QuietStep DEF LiveQuiet
<1>5. \A w \in Worker : ~Crash(w)
  BY FaultsCount DEF Told, Known, Base, TypeInv
<1>. QED  BY <1>1, <1>2, <1>3, <1>4, <1>5, NobodyLate DEF Next

\* As long as no process has died and no restore thrown after its COMMIT, and
\* where a lease outlasts the call that took it (RECOVERY_LEASE_MS): whatever is
\* in progress is some living call's, a change is in the catalog with all it did
\* or out of it, and a restored change names a restore that tells all it did;
\* however many calls make, restore, reapply, keep and decide at the same time.
THEOREM TruthInvariant == ~SlowOwners => (Spec => [](faults = 0 => ClaimInv /\ TruthInv))
<1>. SUFFICES ASSUME ~SlowOwners PROVE Spec => [](faults = 0 => ClaimInv /\ TruthInv)
  OBVIOUS
<1>1. Init => (faults = 0 => ClaimInv /\ TruthInv)
  BY ClaimInit, TruthInit
<1>2. LedgerInv /\ EvidenceInv /\ WholeInv /\ (faults = 0 => ClaimInv /\ TruthInv)
        /\ [Next]_vars
        => (faults = 0 => ClaimInv /\ TruthInv)'
  <2>. SUFFICES ASSUME LedgerInv, EvidenceInv, WholeInv, faults = 0 => ClaimInv /\ TruthInv,
                       [Next]_vars, faults' = 0
                PROVE  ClaimInv' /\ TruthInv'
    OBVIOUS
  <2>1. TypeOK /\ Base
    BY LedgerInvBase DEF LedgerInv
  <2>2. Told
    BY <2>1, FaultsCount DEF Told, Known
  <2>3. TruthInv'
    BY <2>2, TruthStep
  <2>4. Timely
    BY <2>2, NobodyLate
  <2>5. ClaimInv'
    BY <2>2, <2>4, ClaimStep DEF Told
  <2>. QED  BY <2>3, <2>5
<1>. QED  BY <1>1, <1>2, LedgerInvariant, EvidenceInvariant, WholeInvariant, PTL DEF Spec

\* Nobody is at work on a change that is quiet, nor on a restore of it.
LEMMA QuietAlone ==
  ASSUME NEW n \in ChangeId, Quiet(n), NEW m \in ChangeId, Subject(m) = n
  PROVE  /\ \A u \in Worker : ~Midway(u, m) /\ ~Claims(u, m)
         /\ ~Followed(m) /\ ~Answering(m)
<1>1. m # NoChange
  BY DEF ChangeId, NoChange
<1>2. ASSUME NEW u \in Worker, job[u].change = m PROVE pc[u] \in Aside
  BY <1>1, <1>2 DEF Quiet
<1>. QED  BY <1>2 DEF Midway, Claims, Followed, Answering, Claiming, Aside

LEMMA QuietRestore ==
  ASSUME Told, NEW n \in ChangeId, Quiet(n), row[n].kind = "change",
         row[n].status = "restored", NEW r, r = row[n].recoveredById
  PROVE  /\ r \in ChangeId /\ row[r].kind = "recovery" /\ row[r].recoversId = n
         /\ row[r].sealed /\ row[r].footprint # {} /\ row[r].status \in Standing
         /\ ~Undone(r)
<1>1. /\ r \in ChangeId /\ row[r].kind = "recovery" /\ row[r].recoversId = n
      /\ row[r].sealed /\ row[r].footprint # {} /\ row[r].confirmed
      /\ row[r].status \in Ended => Followed(r)
  BY DEF Told, TruthInv, RestoredFits
<1>2. Subject(r) = n
  BY <1>1 DEF Subject
<1>3. ~Followed(r) /\ \A u \in Worker : ~Midway(u, r) /\ ~Claims(u, r)
  BY <1>1, <1>2, QuietAlone
<1>4. row[r].status \in Standing
  BY <1>1, <1>3 DEF Told, TruthInv, ConfirmedFits, AttendedFits
<1>. QED  BY <1>1, <1>3, <1>4 DEF Undone

\* History tells the truth of every change nobody is at work on.
LEMMA TruthOfStatus == Told => StatusTellsTheTruth
<1>. SUFFICES ASSUME Told, NEW n \in Recorded, row[n].kind = "change", Quiet(n), ~Unconfirmed(n)
              PROVE  /\ row[n].status \in IN_EFFECT \cup {"verification_failed",
                            "partially_applied", "awaiting_approval"} => InForce(n)
                     /\ row[n].status \in {"restored", "recovered"} => Gone(n)
  BY DEF StatusTellsTheTruth
<1>1. n \in ChangeId /\ row[n].status \notin {"unopened", "withdrawn"}
  BY DEF Recorded
<1>2. Subject(n) = n
  BY DEF Subject
<1>3. \A u \in Worker : ~Midway(u, n)
  BY <1>1, <1>2, QuietAlone
<1>4. Undone(n) <=> row[n].status \in Ended
  BY <1>3 DEF Undone
<1>5. row[n].sealed \/ row[n].status \in {"applying", "verifying"}
  BY <1>1 DEF Told, TruthInv, AttendedFits
<1>6. row[n].sealed => IF Absent(n) THEN Gone(n) ELSE InForce(n)
  BY <1>1 DEF Told, TruthInv, PresenceFits
<1>7. ASSUME row[n].status \in IN_EFFECT \cup {"verification_failed",
                 "partially_applied", "awaiting_approval"}
      PROVE  InForce(n)
  <2>1. row[n].status \notin Ended \cup {"applying", "verifying"}
    BY <1>7 DEF IN_EFFECT, Ended
  <2>. QED  BY <1>4, <1>5, <1>6, <2>1 DEF Absent
<1>8. ASSUME row[n].status \in Ended PROVE Gone(n)
  <2>1. row[n].sealed
    BY <1>5, <1>8 DEF Ended
  <2>2. row[n].status = "restored" => ~Undone(row[n].recoveredById)
    BY <1>1, QuietRestore
  <2>. QED  BY <1>4, <1>6, <1>8, <2>1, <2>2 DEF Absent
<1>. QED  BY <1>7, <1>8 DEF Ended

LEMMA TruthOfRequests == Told => RestoredIsAnswered
<1>. SUFFICES ASSUME Told, NEW n \in asked, Quiet(n), row[n].status \in {"restored", "recovered"}
              PROVE  FALSE
  BY DEF RestoredIsAnswered
<1>1. n \in ChangeId
  BY DEF Told, Known, Base, TypeInv, TypeOK
<1>2. row[n].kind = "change" /\ (Followed(n) \/ Answering(n))
  BY <1>1 DEF Told, TruthInv, AskedFits, Ended
<1>3. Subject(n) = n
  BY <1>2 DEF Subject
<1>. QED  BY <1>1, <1>2, <1>3, QuietAlone

LEMMA TruthOfRestores == Told => RestoredCanBeReapplied
<1>. SUFFICES ASSUME Told, NEW n \in Recorded, row[n].kind = "change", Quiet(n),
                     row[n].status = "restored", row[n].confirmed
              PROVE  \E r \in Recorded : r = row[n].recoveredById /\ Available(r, "manual")
  BY DEF RestoredCanBeReapplied
<1>. PICK r : r = row[n].recoveredById
  OBVIOUS
<1>1. /\ r \in ChangeId /\ row[r].kind = "recovery" /\ row[r].recoversId = n
      /\ row[r].sealed /\ row[r].footprint # {} /\ row[r].status \in Standing
  BY QuietRestore DEF Recorded
<1>2. r \in Recorded /\ row[r].status \in restorableFrom("manual")
  BY <1>1 DEF Recorded, Standing, restorableFrom, IN_EFFECT, RECOVERY_OWED
<1>3. reapplicable(r)
  BY <1>1 DEF reapplicable
<1>. QED  BY <1>1, <1>2, <1>3 DEF Available

\* Before any fault, once nobody is at work on a change, what History says of it
\* is what the catalog shows: in effect or failed, all of it is there; restored
\* or recovered, nothing of it is, whatever was made, restored, reapplied and kept
\* around it (unless a restore of it could not be confirmed).
THEOREM HistoryIsTrue == ~SlowOwners => (Spec => [](faults = 0 => StatusTellsTheTruth))
<1>. SUFFICES ASSUME ~SlowOwners PROVE Spec => [](faults = 0 => StatusTellsTheTruth)
  OBVIOUS
<1>1. LedgerInv /\ EvidenceInv /\ (faults = 0 => ClaimInv /\ TruthInv)
        => (faults = 0 => StatusTellsTheTruth)
  BY LedgerInvBase, TruthOfStatus DEF Told, Known
<1>2. ~SlowOwners => (Spec => [](faults = 0 => ClaimInv /\ TruthInv))
  BY TruthInvariant
<1>. QED  BY <1>1, <1>2, LedgerInvariant, EvidenceInvariant, PTL

\* Before any fault, a request Backenly made to restore a change is not left in the
\* inbox once the change is restored and its restore followed up (afterRecovery):
\* Backenly cannot ask for it anew, because the call that asks has held the lock
\* since before the restore. It says nothing of the requests agents make, which
\* wait for no lock.
THEOREM RestoredAnswered == ~SlowOwners => (Spec => [](faults = 0 => RestoredIsAnswered))
<1>. SUFFICES ASSUME ~SlowOwners PROVE Spec => [](faults = 0 => RestoredIsAnswered)
  OBVIOUS
<1>1. LedgerInv /\ EvidenceInv /\ (faults = 0 => ClaimInv /\ TruthInv)
        => (faults = 0 => RestoredIsAnswered)
  BY LedgerInvBase, TruthOfRequests DEF Told, Known
<1>2. ~SlowOwners => (Spec => [](faults = 0 => ClaimInv /\ TruthInv))
  BY TruthInvariant
<1>. QED  BY <1>1, <1>2, LedgerInvariant, EvidenceInvariant, PTL

\* Before any fault, a confirmed restore that nobody is at work on can be taken
\* back: it is the one its change names, and availabilityOf lets it start.
THEOREM RestoresCanBeTakenBack ==
  ~SlowOwners => (Spec => [](faults = 0 => RestoredCanBeReapplied))
<1>. SUFFICES ASSUME ~SlowOwners PROVE Spec => [](faults = 0 => RestoredCanBeReapplied)
  OBVIOUS
<1>1. LedgerInv /\ EvidenceInv /\ (faults = 0 => ClaimInv /\ TruthInv)
        => (faults = 0 => RestoredCanBeReapplied)
  BY LedgerInvBase, TruthOfRestores DEF Told, Known
<1>2. ~SlowOwners => (Spec => [](faults = 0 => ClaimInv /\ TruthInv))
  BY TruthInvariant
<1>. QED  BY <1>1, <1>2, LedgerInvariant, EvidenceInvariant, PTL
===============================================================================
